-------------------------- MODULE XmlCheckerProofs --------------------------
(***************************************************************************)
(* Type correctness of XmlChecker, that no worker outlives the window, and *)
(* that the run is accounted for: every file checked once, no file too     *)
(* many reported, no error lost; for any files, errors and workers.        *)
(***************************************************************************)
EXTENDS XmlChecker, FunctionTheorems, FiniteSetTheorems, SequenceTheorems, TLAPS

(* The maximum of the progress bar counts what is in the queue, except     *)
(* between the two steps of a stop.                                        *)
QueueCounted == gui # "stop" => Len(queue) <= maximum

(* Workers off the list are gone, but for the one that is being deleted.   *)
SurplusNew ==
  \A t \in Thread : t > num /\ ~(gui = "delete" /\ t = num + 1) => pc[t] = "new"

(* What is left to be removed.                                             *)
RemovalOK ==
  /\ gui = "remove" => goal < num
  /\ gui = "delete" => num < MaxThreads

(* The workers that hold a file they have not checked yet.                 *)
Holding == {t \in Thread : pc[t] \in {"lock", "check"}}

(* While nothing cuts the run short, a file is in one place: it waits in   *)
(* the queue, one worker holds it, or it has been checked.                 *)
FilesOnce ==
  cut = "no" =>
    /\ \A f \in File : checked[f] <= 1
    /\ \A i \in DOMAIN queue : checked[queue[i]] = 0
    /\ \A t \in Holding : checked[file[t]] = 0 /\ \A i \in DOMAIN queue : queue[i] # file[t]
    /\ \A t, u \in Holding : file[t] = file[u] => t = u

(* The maximum of the progress bar is what has been checked, what is held  *)
(* and what waits; after a stop it may be less, for a worker can take a    *)
(* file between the two steps of the stop.                                 *)
Ledger ==
  /\ cut = "no"   => maximum = Checks + Cardinality(Holding) + Len(queue)
  /\ cut = "stop" => maximum <= Checks + Cardinality(Holding)

(* The label appears when the run has ended and no worker is left that     *)
(* could check more; while the window stops a run, that run is cut short.  *)
LabelOK ==
  /\ gui = "stop"                => cut # "no"
  /\ btRun /\ gui # "run"        => label = -1
  /\ cut = "no" /\ label # -1   => label = Checks /\ \A t \in Thread : ~Running(t)
  /\ cut = "stop" /\ label # -1 => label <= Checks

Accounts == FilesOnce /\ Ledger /\ LabelOK

IInv == TypeOK /\ QueueCounted /\ SurplusNew /\ RemovalOK /\ DestroyedSafely

USE FileAssumption, ErrorsAssumption, BoundAssumption
    DEF FileAssumption, ErrorsAssumption, BoundAssumption

-----------------------------------------------------------------------------
(* Sequences: the files of a set, a first element taken off, a signal      *)
(* posted once or several times.                                           *)

LEMMA SetToSeqProperties ==
  ASSUME NEW S, IsFiniteSet(S)
  PROVE  /\ SetToSeq(S) \in Seq(S) /\ IsInjective(SetToSeq(S))
         /\ Len(SetToSeq(S)) = Cardinality(S) /\ Cardinality(S) \in Nat
<1>1. Cardinality(S) \in Nat /\ ExistsBijection(1 .. Cardinality(S), S)
  BY FS_CardinalityType
<1>2. \E f \in [1 .. Cardinality(S) -> S] : IsInjective(f)
  BY <1>1 DEF ExistsBijection, Bijection, Injection, IsInjective
<1>3. SetToSeq(S) \in [1 .. Cardinality(S) -> S] /\ IsInjective(SetToSeq(S))
  BY <1>2 DEF SetToSeq
<1> HIDE DEF SetToSeq
<1> QED
  BY <1>1, <1>3

LEMMA TailProperties ==
  ASSUME NEW S, NEW s \in Seq(S), s # <<>>, IsInjective(s)
  PROVE  Head(s) \in S /\ Tail(s) \in Seq(S) /\ Len(Tail(s)) = Len(s) - 1 /\ IsInjective(Tail(s))
<1>1. /\ Head(s) \in S /\ Tail(s) \in Seq(S) /\ Len(Tail(s)) = Len(s) - 1
      /\ \A i \in 1 .. Len(Tail(s)) : Tail(s)[i] = s[i + 1]
  BY HeadTailProperties
<1>2. Len(s) \in Nat /\ DOMAIN s = 1 .. Len(s) /\ DOMAIN Tail(s) = 1 .. Len(Tail(s))
  BY <1>1
<1>3. IsInjective(Tail(s))
  <2> SUFFICES ASSUME NEW i \in 1 .. Len(Tail(s)), NEW j \in 1 .. Len(Tail(s)),
                      Tail(s)[i] = Tail(s)[j]
               PROVE  i = j
    BY <1>2 DEF IsInjective
  <2>1. i + 1 \in DOMAIN s /\ j + 1 \in DOMAIN s /\ s[i + 1] = s[j + 1]
    BY <1>1, <1>2
  <2> QED
    BY <2>1 DEF IsInjective
<1> QED
  BY <1>1, <1>3

Signal == {"incrementError", "finished"}

LEMMA PostedSeveral ==
  ASSUME NEW n \in Nat, NEW s \in Seq(Signal)
  PROVE  s \o [i \in 1 .. n |-> "incrementError"] \in Seq(Signal)
<1>1. [i \in 1 .. n |-> "incrementError"] \in Seq(Signal)
  BY DEF Signal
<1> QED
  BY <1>1, ConcatProperties

LEMMA PostedOne ==
  ASSUME NEW s \in Seq(Signal)
  PROVE  Append(s, "finished") \in Seq(Signal)
  BY AppendProperties DEF Signal

LEMMA EmptyQueue == <<>> \in Seq(File) /\ IsInjective(<<>>) /\ Len(<<>>) = 0
  BY EmptySeq DEF IsInjective

-----------------------------------------------------------------------------
LEMMA InitInv == Init => IInv
<1> SUFFICES ASSUME Init PROVE IInv
  OBVIOUS
<1>1. WorkersOK
  <2>1. (CHOOSE f \in File : TRUE) \in File
    OBVIOUS
  <2> QED
    BY <2>1, EmptyQueue, EmptySeq DEF Init, WorkersOK
<1>2. WindowOK
  BY DEF Init, WindowOK, Thread
<1> QED
  BY <1>1, <1>2, EmptyQueue
     DEF Init, IInv, TypeOK, WindowOK, QueueCounted, SurplusNew, RemovalOK, DestroyedSafely

(* A step of a worker: only its own place changes, and only if it runs.    *)
LEMMA WorkerKeeps ==
  ASSUME IInv, NEW t \in Thread, Running(t), UNCHANGED window,
         WorkersOK', Len(queue') <= Len(queue), NEW at, Go(t, at)
  PROVE  IInv'
<1>1. WindowOK'
  BY DEF IInv, TypeOK, WindowOK, window
<1>2. QueueCounted'
  BY DEF IInv, TypeOK, WorkersOK, WindowOK, QueueCounted, window
<1>3. SurplusNew' /\ DestroyedSafely'
  BY DEF IInv, TypeOK, WorkersOK, SurplusNew, DestroyedSafely, window, Go, Running
<1> QED
  BY <1>1, <1>2, <1>3 DEF IInv, TypeOK, RemovalOK, window

LEMMA WorkerInv ==
  ASSUME IInv, NEW t \in Thread, Worker(t)
  PROVE  IInv'
<1>1. WorkersOK /\ UNCHANGED window /\ Len(queue) \in Nat
  BY DEF IInv, TypeOK, WorkersOK, Worker
<1>2. ASSUME Create(t) \/ LockXml(t) PROVE IInv'
  <2>1. Running(t) /\ \E at \in {"dequeue", "check"} : Go(t, at)
    BY <1>2 DEF Create, LockXml, Running
  <2>2. PICK at \in {"dequeue", "check"} : Go(t, at)
    BY <2>1
  <2>3. UNCHANGED <<queue, file, events, checked, found>>
    BY <1>2 DEF Create, LockXml
  <2>4. WorkersOK' /\ Len(queue') <= Len(queue)
    BY <1>1, <2>2, <2>3 DEF WorkersOK, Go
  <2> QED
    BY <1>1, <2>1, <2>2, <2>4, WorkerKeeps
<1>3. ASSUME Dequeue(t), queue = <<>> PROVE IInv'
  <2>1. Running(t) /\ Go(t, "done")
    BY <1>3 DEF Dequeue, Finish, Running
  <2>2. UNCHANGED <<queue, file, checked, found>> /\ events' = Append(events, "finished")
    BY <1>3 DEF Dequeue, Finish
  <2>3. events' \in Seq({"incrementError", "finished"})
    BY <1>1, <2>2 DEF WorkersOK
  <2>4. WorkersOK' /\ Len(queue') <= Len(queue)
    BY <1>1, <2>1, <2>2, <2>3 DEF WorkersOK, Go
  <2> QED
    BY <1>1, <2>1, <2>4, WorkerKeeps
<1>4. ASSUME Dequeue(t), queue # <<>> PROVE IInv'
  <2>1. Running(t) /\ Go(t, "lock")
    BY <1>4 DEF Dequeue, Running
  <2>2. UNCHANGED <<events, checked, found>> /\ queue' = Tail(queue)
        /\ file' = [file EXCEPT ![t] = Head(queue)]
    BY <1>4 DEF Dequeue
  <2>3. Head(queue) \in File /\ Tail(queue) \in Seq(File) /\ Len(Tail(queue)) = Len(queue) - 1
        /\ IsInjective(Tail(queue))
    BY <1>1, <1>4, TailProperties DEF WorkersOK
  <2>4. pc' \in [Thread -> {"new", "create", "dequeue", "lock", "check", "quit", "done"}]
        /\ file' \in [Thread -> File]
    BY <1>1, <2>1, <2>2, <2>3 DEF WorkersOK, Go
  <2>5. WorkersOK' /\ Len(queue') <= Len(queue)
    BY <1>1, <2>2, <2>3, <2>4 DEF WorkersOK
  <2> QED
    BY <1>1, <2>1, <2>5, WorkerKeeps
<1>5. ASSUME Check(t) PROVE IInv'
  <2>1. Running(t) /\ Go(t, "quit")
    BY <1>5 DEF Check, Running
  <2>2. Errors[file[t]] \in Nat /\ file[t] \in File
    BY <1>1 DEF WorkersOK
  <2>3. UNCHANGED <<queue, file>> /\ checked' = [checked EXCEPT ![file[t]] = @ + 1]
        /\ found' = found + Errors[file[t]]
    BY <1>5 DEF Check
  <2>4. events' \in Seq({"incrementError", "finished"})
    BY <1>1, <1>5, <2>2, PostedSeveral DEF Check, WorkersOK, Signal
  <2>5. checked' \in [File -> Nat] /\ found' \in Nat
    BY <1>1, <2>2, <2>3 DEF WorkersOK
  <2>6. WorkersOK' /\ Len(queue') <= Len(queue)
    BY <1>1, <2>1, <2>3, <2>4, <2>5 DEF WorkersOK, Go
  <2> QED
    BY <1>1, <2>1, <2>6, WorkerKeeps
<1>6. ASSUME TryQuit(t) PROVE IInv'
  <2>1. Running(t) /\ UNCHANGED <<queue, file, checked, found>>
    BY <1>6 DEF TryQuit, Running
  <2>2. PICK at \in {"dequeue", "done"} : Go(t, at)
    BY <1>6 DEF TryQuit, Finish
  <2>3. events' = events \/ events' = Append(events, "finished")
    BY <1>6 DEF TryQuit, Finish, Go
  <2>4. events \in Seq(Signal) /\ Append(events, "finished") \in Seq(Signal)
    <3>1. events \in Seq(Signal)
      BY <1>1 DEF WorkersOK, Signal
    <3> QED
      BY <3>1, PostedOne
  <2>5. events' \in Seq(Signal)
    BY <2>3, <2>4
  <2>6. pc' \in [Thread -> {"new", "create", "dequeue", "lock", "check", "quit", "done"}]
    BY <1>1, <2>2 DEF WorkersOK, Go
  <2>7. WorkersOK' /\ Len(queue') <= Len(queue)
    BY <1>1, <2>1, <2>5, <2>6 DEF WorkersOK, Signal
  <2> QED
    BY <1>1, <2>1, <2>2, <2>7, WorkerKeeps
<1> QED
  BY <1>2, <1>3, <1>4, <1>5, <1>6 DEF Worker

-----------------------------------------------------------------------------
(* The slots of the window.                                                *)

LEMMA RunInv ==
  ASSUME IInv, ClickRun \/ Start
  PROVE  IInv'
<1>1. WorkersOK /\ WindowOK /\ Len(queue) \in Nat
  BY DEF IInv, TypeOK, WorkersOK
<1>2. ASSUME ClickRun PROVE IInv'
  <2>1. maximum' \in Nat /\ queue' = <<>> /\ gui = "idle" /\ gui' = "run"
    BY <1>1, <1>2 DEF ClickRun, UserActs, IInv, QueueCounted, WindowOK
  <2>2. WorkersOK'
    BY <1>1, <1>2, <2>1, EmptyQueue DEF ClickRun, WorkersOK
  <2>3. WindowOK'
    BY <1>1, <1>2, <2>1 DEF ClickRun, WindowOK
  <2> QED
    BY <1>2, <2>1, <2>2, <2>3, EmptyQueue
       DEF ClickRun, IInv, TypeOK, WindowOK, QueueCounted, SurplusNew, RemovalOK, DestroyedSafely
<1>3. ASSUME Start PROVE IInv'
  <2>1. PICK files \in SUBSET File : queue' = SetToSeq(files) /\ maximum' = Cardinality(files)
    BY <1>3 DEF Start
  <2>2. /\ queue' \in Seq(files) /\ IsInjective(queue')
        /\ Len(queue') = maximum' /\ maximum' \in Nat
    BY <2>1, FS_Subset, SetToSeqProperties
  <2>3. queue' \in Seq(File)
    BY <2>2, SeqMonotonic
  <2>4. pc' \in [Thread -> {"new", "create", "dequeue", "lock", "check", "quit", "done"}]
        /\ checked' \in [File -> Nat] /\ found' \in Nat /\ file' = file /\ events' = events
    BY <1>1, <1>3 DEF Start, WorkersOK
  <2>5. WorkersOK'
    BY <1>1, <2>2, <2>3, <2>4 DEF WorkersOK
  <2>6. gui = "run" /\ gui' = "idle" /\ num' = num /\ goal' = goal /\ quit' = quit
        /\ btRun' = btRun /\ errorCount' = errorCount /\ label' = -1 /\ cut' = "no"
    BY <1>3 DEF Start
  <2>7. WindowOK'
    BY <1>1, <2>2, <2>6 DEF WindowOK
  <2>8. SurplusNew'
    BY <1>1, <1>3, <2>6 DEF Start, IInv, SurplusNew, Thread, Threads, WindowOK
  <2> QED
    BY <2>2, <2>5, <2>6, <2>7, <2>8
       DEF IInv, TypeOK, QueueCounted, RemovalOK, DestroyedSafely
<1> QED
  BY <1>2, <1>3

LEMMA StopInv ==
  ASSUME IInv, ClickStop \/ ClearQueue
  PROVE  IInv'
<1>1. WorkersOK /\ WindowOK /\ Len(queue) \in Nat
  BY DEF IInv, TypeOK, WorkersOK
<1>2. ASSUME ClickStop PROVE IInv'
  <2>1. maximum' \in Nat /\ gui = "idle" /\ gui' = "stop" /\ UNCHANGED workers
    BY <1>1, <1>2 DEF ClickStop, UserActs, IInv, QueueCounted, WindowOK
  <2>2. WorkersOK'
    BY <1>1, <2>1 DEF workers, WorkersOK
  <2>3. WindowOK'
    BY <1>1, <1>2, <2>1 DEF ClickStop, WindowOK
  <2> QED
    BY <1>2, <2>1, <2>2, <2>3
       DEF ClickStop, IInv, TypeOK, QueueCounted, SurplusNew, RemovalOK, DestroyedSafely, workers
<1>3. ASSUME ClearQueue PROVE IInv'
  <2>1. WorkersOK' /\ Len(queue') = 0
    BY <1>1, <1>3, EmptyQueue DEF ClearQueue, WorkersOK
  <2>2. WindowOK'
    BY <1>1, <1>3 DEF ClearQueue, WindowOK
  <2>3. gui = "stop" /\ gui' = "idle" /\ num' = num /\ pc' = pc
    BY <1>3 DEF ClearQueue
  <2> QED
    BY <2>1, <2>2, <2>3
       DEF IInv, TypeOK, WindowOK, QueueCounted, SurplusNew, RemovalOK, DestroyedSafely
<1> QED
  BY <1>2, <1>3

LEMMA AddThreadsInv ==
  ASSUME IInv, NEW n \in Thread, AddThreads(n)
  PROVE  IInv'
<1>1. WorkersOK /\ WindowOK
  BY DEF IInv, TypeOK
<1>2. UNCHANGED <<queue, file, events, checked, found, quit, gui, btRun, errorCount,
                  maximum, label, cut>>
      /\ gui = "idle" /\ n > num /\ num' = n /\ goal' = n
  BY DEF AddThreads, UserActs
<1>3. pc' \in [Thread -> {"new", "create", "dequeue", "lock", "check", "quit", "done"}]
  BY <1>1 DEF AddThreads, WorkersOK
<1>4. WorkersOK'
  BY <1>1, <1>2, <1>3 DEF WorkersOK
<1>5. WindowOK'
  BY <1>1, <1>2 DEF WindowOK
<1>6. SurplusNew'
  BY <1>1, <1>2 DEF AddThreads, IInv, SurplusNew, WindowOK, Thread
<1> QED
  BY <1>2, <1>4, <1>5, <1>6 DEF IInv, TypeOK, QueueCounted, RemovalOK, DestroyedSafely

LEMMA RemoveThreadsInv ==
  ASSUME IInv, NEW n \in Thread, RemoveThreads(n)
  PROVE  IInv'
<1>1. WorkersOK /\ WindowOK
  BY DEF IInv, TypeOK
<1>2. UNCHANGED <<workers, quit, num, btRun, errorCount, maximum, label, cut>>
      /\ gui = "idle" /\ gui' = "remove" /\ n < num /\ goal' = n
  BY DEF RemoveThreads, UserActs
<1>3. WorkersOK' /\ WindowOK'
  BY <1>1, <1>2 DEF WorkersOK, WindowOK, workers
<1> QED
  BY <1>2, <1>3
     DEF IInv, TypeOK, QueueCounted, SurplusNew, RemovalOK, DestroyedSafely, workers

LEMMA TakeLastInv ==
  ASSUME IInv, TakeLast
  PROVE  IInv'
<1>1. WorkersOK /\ WindowOK
  BY DEF IInv, TypeOK
<1>2. UNCHANGED <<workers, goal, btRun, errorCount, maximum, label, cut>>
      /\ gui = "remove" /\ gui' = "delete" /\ num > goal /\ num' = num - 1
      /\ quit' \subseteq {num}
  BY DEF TakeLast
<1>3. num \in 1 .. MaxThreads /\ goal \in 1 .. MaxThreads /\ MaxThreads \in Nat
  BY <1>1 DEF WindowOK, Thread
<1>4. num' \in Thread /\ num' + 1 = num /\ num' < MaxThreads
  BY <1>2, <1>3 DEF Thread
<1>5. WorkersOK' /\ WindowOK'
  BY <1>1, <1>2, <1>4 DEF WorkersOK, WindowOK, workers
<1>6. SurplusNew'
  BY <1>2, <1>3 DEF IInv, SurplusNew, Thread, workers
<1> QED
  BY <1>2, <1>4, <1>5, <1>6
     DEF IInv, TypeOK, QueueCounted, RemovalOK, DestroyedSafely, workers

LEMMA DeleteThreadInv ==
  ASSUME IInv, DeleteThread
  PROVE  IInv'
<1>1. WorkersOK /\ WindowOK
  BY DEF IInv, TypeOK
<1>2. UNCHANGED <<queue, file, events, checked, found, num, goal, btRun, errorCount,
                  maximum, label, cut>>
      /\ gui = "delete" /\ gui' = (IF num > goal THEN "remove" ELSE "idle")
      /\ pc' = [pc EXCEPT ![num + 1] = "new"] /\ quit' = {}
  BY DEF DeleteThread
<1>3. WorkersOK' /\ WindowOK'
  BY <1>1, <1>2 DEF WorkersOK, WindowOK
<1>4. SurplusNew'
  BY <1>1, <1>2 DEF IInv, SurplusNew, WorkersOK
<1>5. RemovalOK'
  BY <1>1, <1>2 DEF RemovalOK, WindowOK, Thread
<1> QED
  BY <1>2, <1>3, <1>4, <1>5 DEF IInv, TypeOK, QueueCounted, DestroyedSafely

(* The write lock is taken and given back: gui is all that changes.        *)
LEMMA ReloadInv ==
  ASSUME IInv, ClickReload \/ LockWrite \/ Parsed
  PROVE  IInv'
<1>1. UNCHANGED <<workers, quit, num, goal, btRun, errorCount, maximum, label, cut>>
      /\ gui \in {"idle", "reload", "parse"} /\ gui' \in {"idle", "reload", "parse"}
  BY DEF ClickReload, UserActs, LockWrite, Parsed
<1>2. WorkersOK' /\ WindowOK'
  BY <1>1 DEF IInv, TypeOK, WorkersOK, WindowOK, workers
<1> QED
  BY <1>1, <1>2
     DEF IInv, TypeOK, QueueCounted, SurplusNew, RemovalOK, DestroyedSafely, workers

(* The window goes only when no worker on its list runs; those off the     *)
(* list are gone, since it is not deleting any.                            *)
LEMMA CloseInv ==
  ASSUME IInv, Close
  PROVE  IInv'
<1>1. UNCHANGED <<pc, file, events, checked, found, quit, num, goal, btRun, errorCount,
                  maximum, label>>
      /\ gui = "idle"
  BY DEF Close, UserActs
<1>2. WorkersOK /\ WindowOK /\ Len(queue) \in Nat
  BY DEF IInv, TypeOK, WorkersOK
<1>3. ASSUME \E t \in Threads : Running(t) PROVE IInv'
  <2>1. queue' = <<>> /\ cut' = "close" /\ gui' = gui
    BY <1>3 DEF Close
  <2>2. WorkersOK'
    BY <1>1, <1>2, <2>1, EmptyQueue DEF WorkersOK
  <2>3. WindowOK'
    BY <1>1, <1>2, <2>1 DEF WindowOK
  <2> QED
    BY <1>1, <2>1, <2>2, <2>3, EmptyQueue
       DEF IInv, TypeOK, WindowOK, QueueCounted, SurplusNew, RemovalOK, DestroyedSafely
<1>4. ASSUME ~ \E t \in Threads : Running(t) PROVE IInv'
  <2>1. gui' = "gone" /\ UNCHANGED <<queue, cut>>
    BY <1>4 DEF Close
  <2>2. WorkersOK' /\ WindowOK'
    BY <1>1, <1>2, <2>1 DEF WorkersOK, WindowOK
  <2>3. DestroyedSafely'
    BY <1>1, <1>2, <1>4, <2>1
       DEF IInv, SurplusNew, DestroyedSafely, WindowOK, Running, Thread, Threads
  <2> QED
    BY <1>1, <2>1, <2>2, <2>3 DEF IInv, TypeOK, QueueCounted, SurplusNew, RemovalOK
<1> QED
  BY <1>3, <1>4

LEMMA DeliverInv ==
  ASSUME IInv, Deliver
  PROVE  IInv'
<1>1. WorkersOK /\ WindowOK
  BY DEF IInv, TypeOK
<1>2. UNCHANGED <<queue, pc, file, checked, found, quit, num, gui, goal, maximum, cut>>
      /\ events # <<>> /\ events' = Tail(events)
  BY DEF Deliver
<1>3. WorkersOK'
  BY <1>1, <1>2, HeadTailProperties DEF WorkersOK
<1>4. btRun' \in BOOLEAN /\ errorCount' \in Nat /\ label' \in Nat \cup {-1}
  <2> DEFINE Goal == btRun' \in BOOLEAN /\ errorCount' \in Nat /\ label' \in Nat \cup {-1}
  <2>1. ASSUME ThreadFinished PROVE Goal
    BY <1>1, <2>1 DEF ThreadFinished, WindowOK
  <2>2. ASSUME OnIncrementError PROVE Goal
    BY <1>1, <2>2 DEF OnIncrementError, WindowOK
  <2>3. ThreadFinished \/ OnIncrementError
    BY DEF Deliver
  <2> QED
    BY <2>1, <2>2, <2>3
<1>5. WindowOK'
  BY <1>1, <1>2, <1>4 DEF WindowOK
<1> QED
  BY <1>2, <1>3, <1>5
     DEF IInv, TypeOK, QueueCounted, SurplusNew, RemovalOK, DestroyedSafely, Running

LEMMA StepInv == IInv /\ [Next]_vars => IInv'
<1> SUFFICES ASSUME IInv, [Next]_vars PROVE IInv'
  OBVIOUS
<1>1. ASSUME User PROVE IInv'
  BY <1>1, RunInv, StopInv, ReloadInv, CloseInv, AddThreadsInv, RemoveThreadsInv DEF User
<1>2. ASSUME Window PROVE IInv'
  BY <1>2, RunInv, StopInv, TakeLastInv, DeleteThreadInv, ReloadInv, DeliverInv DEF Window
<1>3. ASSUME UNCHANGED vars PROVE IInv'
  BY <1>3
     DEF vars, workers, window, IInv, TypeOK, WorkersOK, WindowOK, QueueCounted, SurplusNew,
         RemovalOK, DestroyedSafely, Running
<1> QED
  BY <1>1, <1>2, <1>3, WorkerInv DEF Next

LEMMA Invariance == Spec => []IInv
  BY InitInv, StepInv, PTL DEF Spec

(* xmlcheck.cpp: a file is in the queue once, and the quit mutex the       *)
(* window holds is that of the worker it is deleting, whatever the workers *)
(* do meanwhile.                                                           *)
THEOREM XmlCheckerTypeCorrect == Spec => []TypeOK
<1>1. IInv => TypeOK
  BY DEF IInv
<1> QED
  BY Invariance, <1>1, PTL

(* closeEvent looks at the workers on its list only, and that is enough:   *)
(* when the window is destroyed, and the queue with it, none runs.         *)
THEOREM NoWorkerOutlivesWindow == Spec => []DestroyedSafely
<1>1. IInv => DestroyedSafely
  BY DEF IInv
<1> QED
  BY Invariance, <1>1, PTL
-----------------------------------------------------------------------------
(* The errors: every signal that is posted is counted or still posted.     *)

LEMMA PostedType ==
  ASSUME NEW s \in Seq(Signal)
  PROVE  /\ IsFiniteSet({k \in DOMAIN s : s[k] = "incrementError"})
         /\ Cardinality({k \in DOMAIN s : s[k] = "incrementError"}) \in Nat
<1>1. DOMAIN s = 1 .. Len(s) /\ Len(s) \in Nat
  OBVIOUS
<1>2. IsFiniteSet(1 .. Len(s))
  BY <1>1, FS_Interval
<1>3. IsFiniteSet({k \in DOMAIN s : s[k] = "incrementError"})
  BY <1>1, <1>2, FS_Subset
<1> QED
  BY <1>3, FS_CardinalityType

(* A signal that is not an error does not count.                           *)
LEMMA PostedFinish ==
  ASSUME NEW s \in Seq(Signal)
  PROVE  {k \in DOMAIN Append(s, "finished") : Append(s, "finished")[k] = "incrementError"}
           = {k \in DOMAIN s : s[k] = "incrementError"}
<1>1. /\ Len(Append(s, "finished")) = Len(s) + 1 /\ Len(s) \in Nat
      /\ \A i \in 1 .. Len(s) : Append(s, "finished")[i] = s[i]
      /\ Append(s, "finished")[Len(s) + 1] = "finished"
      /\ Append(s, "finished") \in Seq(Signal)
  BY PostedOne, AppendProperties DEF Signal
<1>2. DOMAIN s = 1 .. Len(s) /\ DOMAIN Append(s, "finished") = 1 .. Len(s) + 1
  BY <1>1
<1> QED
  BY <1>1, <1>2

(* The signals of a check are counted by their number.                     *)
LEMMA PostedMore ==
  ASSUME NEW s \in Seq(Signal), NEW n \in Nat
  PROVE  Cardinality({k \in DOMAIN (s \o [i \in 1 .. n |-> "incrementError"]) :
                        (s \o [i \in 1 .. n |-> "incrementError"])[k] = "incrementError"})
           = Cardinality({k \in DOMAIN s : s[k] = "incrementError"}) + n
<1> DEFINE e == [i \in 1 .. n |-> "incrementError"]
           r == s \o e
           A == {k \in DOMAIN s : s[k] = "incrementError"}
           B == (Len(s) + 1) .. (Len(s) + n)
<1>1. e \in Seq(Signal) /\ Len(e) = n /\ Len(s) \in Nat /\ DOMAIN s = 1 .. Len(s)
  BY DEF Signal
<1>2. \A i \in 1 .. n : e[i] = "incrementError"
  OBVIOUS
<1> HIDE DEF e
<1>3. /\ r \in Seq(Signal) /\ Len(r) = Len(s) + n
      /\ \A i \in 1 .. Len(r) : r[i] = IF i <= Len(s) THEN s[i] ELSE e[i - Len(s)]
  BY <1>1, ConcatProperties
<1>4. DOMAIN r = 1 .. Len(s) + n
  BY <1>3
<1> HIDE DEF r
<1>5. \A k \in B : r[k] = "incrementError"
  BY <1>1, <1>2, <1>3
<1>6. {k \in DOMAIN r : r[k] = "incrementError"} = A \cup B
  BY <1>1, <1>3, <1>4, <1>5
<1>7. IsFiniteSet(A) /\ Cardinality(A) \in Nat
  BY PostedType
<1>8. IsFiniteSet(B) /\ Cardinality(B) = n
  <2>1. PICK a \in Int : a = Len(s) + 1
    BY <1>1
  <2>2. PICK b \in Int : b = Len(s) + n
    BY <1>1
  <2>3. IsFiniteSet(a .. b) /\ Cardinality(a .. b) = n
    BY <1>1, <2>1, <2>2, FS_Interval
  <2> QED
    BY <2>1, <2>2, <2>3
<1>9. A \cap B = {}
  BY <1>1
<1> HIDE DEF A, B
<1>10. Cardinality(A \cup B) = Cardinality(A) + Cardinality(B) - Cardinality({})
  BY <1>7, <1>8, <1>9, FS_Union
<1>11. Cardinality({}) = 0
  BY FS_EmptySet
<1>12. Cardinality(A \cup B) = Cardinality(A) + n
  BY <1>7, <1>8, <1>10, <1>11
<1>13. Cardinality({k \in DOMAIN r : r[k] = "incrementError"}) = Cardinality(A) + n
  BY <1>6, <1>12
<1> QED
  BY <1>13 DEF r, e, A

(* Delivery takes one signal away.                                         *)
LEMMA PostedTail ==
  ASSUME NEW s \in Seq(Signal), s # <<>>
  PROVE  Cardinality({k \in DOMAIN s : s[k] = "incrementError"}) =
           Cardinality({k \in DOMAIN Tail(s) : Tail(s)[k] = "incrementError"})
             + (IF Head(s) = "finished" THEN 0 ELSE 1)
<1> DEFINE u == Tail(s)
           A == {k \in DOMAIN s : s[k] = "incrementError"}
           B == {k \in DOMAIN u : u[k] = "incrementError"}
           C == A \ {1}
           f == [k \in C |-> k - 1]
<1>1. /\ u \in Seq(Signal) /\ Len(u) = Len(s) - 1 /\ Head(s) = s[1] /\ Head(s) \in Signal
      /\ \A i \in 1 .. Len(u) : u[i] = s[i + 1]
  BY HeadTailProperties
<1>2. Len(s) \in Nat /\ Len(s) > 0 /\ DOMAIN s = 1 .. Len(s) /\ DOMAIN u = 1 .. Len(u)
  BY <1>1
<1> HIDE DEF u
<1>3. f \in Bijection(C, B)
  <2>1. f \in [C -> B]
    <3> SUFFICES ASSUME NEW k \in C PROVE k - 1 \in B
      OBVIOUS
    <3>1. k \in 2 .. Len(s) /\ s[k] = "incrementError"
      BY <1>2
    <3>2. k - 1 \in 1 .. Len(u) /\ u[k - 1] = s[k]
      BY <1>1, <1>2, <3>1
    <3> QED
      BY <1>2, <3>1, <3>2
  <2>2. \A j, k \in C : f[j] = f[k] => j = k
    BY <1>2
  <2>3. \A m \in B : \E k \in C : f[k] = m
    <3> SUFFICES ASSUME NEW m \in B PROVE \E k \in C : f[k] = m
      OBVIOUS
    <3>1. m + 1 \in C
      BY <1>1, <1>2
    <3>2. f[m + 1] = m
      BY <1>2, <3>1
    <3> QED
      BY <3>1, <3>2
  <2> HIDE DEF C, B, f
  <2> QED
    BY <2>1, <2>2, <2>3, Fun_IsBij
<1>4. IsFiniteSet(A) /\ Cardinality(A) \in Nat
  BY PostedType
<1> HIDE DEF A, B, f
<1>5. IsFiniteSet(C) /\ Cardinality(C) = IF 1 \in A THEN Cardinality(A) - 1 ELSE Cardinality(A)
  BY <1>4, FS_RemoveElement
<1>6. ExistsBijection(C, B)
  BY <1>3 DEF ExistsBijection
<1> HIDE DEF C
<1>7. Cardinality(B) = Cardinality(C)
  BY <1>5, <1>6, FS_Bijection
<1>8. 1 \in A <=> Head(s) # "finished"
  BY <1>1, <1>2 DEF A, Signal
<1>9. Cardinality(A) = Cardinality(B) + (IF Head(s) = "finished" THEN 0 ELSE 1)
  BY <1>4, <1>5, <1>7, <1>8
<1> QED
  BY <1>9 DEF A, B, u
(* No error is lost by a step of a worker.                                 *)
LEMMA WorkerErrors ==
  ASSUME IInv, NoErrorLost, NEW t \in Thread, Worker(t)
  PROVE  NoErrorLost'
<1>1. events \in Seq(Signal) /\ found \in Nat /\ errorCount \in Nat /\ file[t] \in File
  BY DEF IInv, TypeOK, WorkersOK, WindowOK, Signal
<1>2. cut' = cut /\ gui' = gui /\ errorCount' = errorCount
  BY DEF Worker, window
<1>3. ASSUME Check(t) PROVE NoErrorLost'
  <2>1. PICK n \in Nat : n = Errors[file[t]]
    BY <1>1
  <2>2. found' = found + n /\ events' = events \o [i \in 1 .. n |-> "incrementError"]
    BY <1>3, <2>1 DEF Check
  <2>3. Posted' = Posted + n
    BY <1>1, <2>2, PostedMore DEF Posted
  <2>4. Posted \in Nat
    BY <1>1, PostedType DEF Posted
  <2> QED
    BY <1>1, <1>2, <2>1, <2>2, <2>3, <2>4 DEF NoErrorLost
<1>4. ASSUME ~Check(t) PROVE NoErrorLost'
  <2>1. found' = found /\ (events' = events \/ events' = Append(events, "finished"))
    BY <1>4 DEF Worker, Create, Dequeue, LockXml, TryQuit, Finish
  <2>2. Posted' = Posted
    BY <1>1, <2>1, PostedFinish DEF Posted
  <2> QED
    BY <1>2, <2>1, <2>2 DEF NoErrorLost
<1> QED
  BY <1>3, <1>4

(* Nor by one of the window: it starts to count anew only when the run is  *)
(* stopped, or before the next one is started.                             *)
LEMMA WindowErrors ==
  ASSUME IInv, NoErrorLost, User \/ Window
  PROVE  NoErrorLost'
<1>1. events \in Seq(Signal) /\ found \in Nat /\ errorCount \in Nat
  BY DEF IInv, TypeOK, WorkersOK, WindowOK, Signal
<1>2. Posted \in Nat
  BY <1>1, PostedType DEF Posted
<1>3. ASSUME Deliver PROVE NoErrorLost'
  <2>1. events # <<>> /\ events' = Tail(events) /\ UNCHANGED <<found, cut, gui>>
    BY <1>3 DEF Deliver
  <2> DEFINE k == IF Head(events) = "finished" THEN 0 ELSE 1
  <2>2. Posted = Posted' + k
    BY <1>1, <2>1, PostedTail DEF Posted
  <2>3. events' \in Seq(Signal)
    BY <1>1, <2>1, HeadTailProperties
  <2>4. Posted' \in Nat
    BY <2>3, PostedType DEF Posted
  <2>5. errorCount' = errorCount + k /\ k \in Nat
    BY <1>1, <1>3 DEF Deliver, ThreadFinished, OnIncrementError
  <2>6. found' = found /\ cut' = cut /\ gui' = gui
    BY <2>1
  <2> HIDE DEF k
  <2>7. errorCount' + Posted' = errorCount + Posted
    BY <1>1, <2>2, <2>4, <2>5
  <2> QED
    BY <2>6, <2>7 DEF NoErrorLost
<1>4. ASSUME ClickRun \/ ClickStop PROVE NoErrorLost'
  BY <1>4 DEF ClickRun, ClickStop, NoErrorLost, IInv, TypeOK, WindowOK
<1>5. ASSUME Start PROVE NoErrorLost'
  <2>1. events' = events /\ found' = 0 /\ errorCount' = errorCount
    BY <1>5 DEF Start
  <2>2. Posted' = Posted
    BY <2>1 DEF Posted
  <2> QED
    BY <1>1, <1>2, <2>1, <2>2 DEF NoErrorLost
<1>6. ASSUME /\ UNCHANGED <<events, found, errorCount>>
             /\ cut' \in {cut, "close"}
             /\ gui # "run" \/ UNCHANGED gui
      PROVE  NoErrorLost'
  <2>1. Posted' = Posted
    BY <1>6 DEF Posted
  <2> QED
    BY <1>6, <2>1 DEF NoErrorLost
<1>7. \/ Deliver \/ ClickRun \/ ClickStop \/ Start
      \/ /\ UNCHANGED <<events, found, errorCount>>
         /\ cut' \in {cut, "close"}
         /\ gui # "run" \/ UNCHANGED gui
  BY DEF User, Window, UserActs, ClickReload, Close, AddThreads, RemoveThreads, ClearQueue,
         TakeLast, DeleteThread, LockWrite, Parsed, workers
<1> QED
  BY <1>3, <1>4, <1>5, <1>6, <1>7

-----------------------------------------------------------------------------
(* The files: how often they have been checked, and who holds one.         *)

CheckSet(c) == UNION {{f} \X (1 .. c[f]) : f \in File}

LEMMA CheckSetFinite ==
  ASSUME NEW c \in [File -> Nat]
  PROVE  IsFiniteSet(CheckSet(c)) /\ Cardinality(CheckSet(c)) \in Nat
<1> DEFINE Row(f) == {f} \X (1 .. c[f])
           rows == {Row(f) : f \in File}
           row == [f \in File |-> Row(f)]
<1>1. \A f \in File : IsFiniteSet(Row(f))
  <2> SUFFICES ASSUME NEW f \in File PROVE IsFiniteSet(Row(f))
    OBVIOUS
  <2>1. IsFiniteSet({f})
    BY FS_Singleton
  <2>2. c[f] \in Int
    OBVIOUS
  <2>3. IsFiniteSet(1 .. c[f])
    BY <2>2, FS_Interval
  <2> QED
    BY <2>1, <2>3, FS_Product
<1> HIDE DEF Row
<1>2. row \in Surjection(File, rows)
  <2>1. row \in [File -> rows] /\ \A r \in rows : \E f \in File : row[f] = r
    OBVIOUS
  <2> HIDE DEF row, rows
  <2> QED
    BY <2>1, Fun_IsSurj
<1>3. IsFiniteSet(rows)
  <2> HIDE DEF row, rows
  <2> QED
    BY <1>2, FS_Surjection
<1>4. \A r \in rows : IsFiniteSet(r)
  BY <1>1
<1>5. IsFiniteSet(UNION rows)
  <2> HIDE DEF rows
  <2> QED
    BY <1>3, <1>4, FS_UNION
<1>6. CheckSet(c) = UNION rows
  BY DEF CheckSet, Row
<1> QED
  BY <1>5, <1>6, FS_CardinalityType

LEMMA CheckSetMore ==
  ASSUME NEW c \in [File -> Nat], NEW f \in File
  PROVE  Cardinality(CheckSet([c EXCEPT ![f] = @ + 1])) = Cardinality(CheckSet(c)) + 1
<1> DEFINE d == [c EXCEPT ![f] = @ + 1]
<1>1. CheckSet(d) = CheckSet(c) \cup {<<f, c[f] + 1>>}
  BY DEF CheckSet
<1>2. <<f, c[f] + 1>> \notin CheckSet(c)
  BY DEF CheckSet
<1> HIDE DEF d
<1>3. Cardinality(CheckSet(d)) = Cardinality(CheckSet(c)) + 1
  BY <1>1, <1>2, CheckSetFinite, FS_AddElement
<1> QED
  BY <1>3 DEF d

LEMMA CheckSetNone ==
  Cardinality(CheckSet([f \in File |-> 0])) = 0
<1>1. CheckSet([f \in File |-> 0]) = {}
  BY DEF CheckSet
<1> QED
  BY <1>1, FS_EmptySet
LEMMA ChecksType == IInv => Checks \in Nat
  BY CheckSetFinite DEF IInv, TypeOK, WorkersOK, Checks, CheckSet

LEMMA HoldingFinite == IsFiniteSet(Holding) /\ Cardinality(Holding) \in Nat
<1>1. MaxThreads \in Int
  OBVIOUS
<1>2. IsFiniteSet(Thread)
  BY <1>1, FS_Interval DEF Thread
<1>3. Holding \subseteq Thread
  BY DEF Holding
<1> QED
  BY <1>2, <1>3, FS_Subset, FS_CardinalityType

(* A step that touches neither the files, nor who holds them, nor how they *)
(* are counted.                                                            *)
LEMMA AccountsKept ==
  ASSUME FilesOnce, Ledger, cut' = cut,
         UNCHANGED <<queue, file, checked, maximum>>, Holding' = Holding
  PROVE  FilesOnce' /\ Ledger' /\ Checks' = Checks
<1>1. Checks' = Checks
  BY DEF Checks
<1> QED
  BY <1>1 DEF FilesOnce, Ledger

(* A worker that goes from one place where it holds no file to another, or *)
(* from one place where it holds one to another.                           *)
LEMMA HoldingSame ==
  ASSUME WorkersOK, NEW t \in Thread, NEW at, Go(t, at),
         pc[t] \in {"lock", "check"} <=> at \in {"lock", "check"}
  PROVE  Holding' = Holding
  BY DEF Holding, WorkersOK, Go

LEMMA WorkerAccounts ==
  ASSUME IInv, Accounts, NEW t \in Thread, Worker(t)
  PROVE  Accounts'
<1>1. WorkersOK /\ WindowOK /\ FilesOnce /\ Ledger /\ LabelOK /\ Checks \in Nat
  BY ChecksType DEF IInv, TypeOK, Accounts
<1>2. UNCHANGED window /\ Running(t)
  BY DEF Worker, Create, Dequeue, LockXml, Check, TryQuit, Running
<1>3. ASSUME Checks' >= Checks, Checks' \in Nat PROVE LabelOK'
  BY <1>1, <1>2, <1>3 DEF LabelOK, window, WindowOK
<1>4. ASSUME Create(t) \/ LockXml(t) \/ TryQuit(t) \/ (Dequeue(t) /\ queue = <<>>)
      PROVE  Accounts'
  <2>1. UNCHANGED <<queue, file, checked>> /\ cut' = cut /\ maximum' = maximum
    BY <1>2, <1>4 DEF Create, LockXml, TryQuit, Dequeue, window
  <2>2. PICK at : Go(t, at) /\ (pc[t] \in {"lock", "check"} <=> at \in {"lock", "check"})
    BY <1>4 DEF Create, LockXml, TryQuit, Dequeue, Finish
  <2>3. Holding' = Holding
    BY <1>1, <2>2, HoldingSame
  <2>4. FilesOnce' /\ Ledger' /\ Checks' = Checks
    BY <1>1, <2>1, <2>3, AccountsKept
  <2> QED
    BY <1>1, <1>3, <2>4 DEF Accounts
<1>5. ASSUME Dequeue(t), queue # <<>> PROVE Accounts'
  <2>1. /\ file' = [file EXCEPT ![t] = Head(queue)] /\ queue' = Tail(queue)
        /\ pc[t] = "dequeue" /\ pc' = [pc EXCEPT ![t] = "lock"]
        /\ checked' = checked /\ cut' = cut /\ maximum' = maximum
    BY <1>2, <1>5 DEF Dequeue, Go, window
  <2>2. Checks' = Checks
    BY <2>1 DEF Checks
  <2>3. Holding' = Holding \cup {t} /\ t \notin Holding
    BY <1>1, <2>1 DEF Holding, WorkersOK
  <2>4. Cardinality(Holding') = Cardinality(Holding) + 1
    BY <2>3, HoldingFinite, FS_AddElement
  <2>5. /\ Len(queue) \in Nat /\ Len(queue) > 0 /\ DOMAIN queue = 1 .. Len(queue)
        /\ Head(queue) = queue[1] /\ Head(queue) \in File /\ Len(queue') = Len(queue) - 1
        /\ DOMAIN queue' = 1 .. Len(queue')
        /\ \A i \in 1 .. Len(queue') : queue'[i] = queue[i + 1]
    BY <1>1, <1>5, <2>1, HeadTailProperties DEF WorkersOK
  <2>6. FilesOnce'
    <3> SUFFICES ASSUME cut = "no" PROVE FilesOnce'
      BY <2>1 DEF FilesOnce
    <3>1. \A i \in DOMAIN queue' : i + 1 \in DOMAIN queue /\ queue'[i] = queue[i + 1]
                                   /\ queue'[i] # queue[1]
      <4> SUFFICES ASSUME NEW i \in DOMAIN queue'
                   PROVE  i + 1 \in DOMAIN queue /\ queue'[i] = queue[i + 1]
                          /\ queue'[i] # queue[1]
        OBVIOUS
      <4>1. i + 1 \in DOMAIN queue /\ 1 \in DOMAIN queue /\ i + 1 # 1 /\ queue'[i] = queue[i + 1]
        BY <2>5
      <4>2. IsInjective(queue)
        BY <1>1 DEF WorkersOK
      <4>3. queue[i + 1] # queue[1]
        BY <4>1, <4>2 DEF IsInjective
      <4> QED
        BY <4>1, <4>3
    <3>2. file'[t] = queue[1] /\ \A u \in Holding : file'[u] = file[u]
      BY <1>1, <2>1, <2>3, <2>5 DEF WorkersOK, Holding
    <3>3. 1 \in DOMAIN queue
      BY <2>5
    <3>4. \A f \in File : checked'[f] <= 1
      BY <1>1, <2>1 DEF FilesOnce
    <3>5. \A i \in DOMAIN queue' : checked'[queue'[i]] = 0
      BY <1>1, <2>1, <3>1 DEF FilesOnce
    <3>6. \A u \in Holding' : checked'[file'[u]] = 0 /\ \A i \in DOMAIN queue' : queue'[i] # file'[u]
      BY <1>1, <2>1, <2>3, <3>1, <3>2, <3>3 DEF FilesOnce
    <3>7. \A u, v \in Holding' : file'[u] = file'[v] => u = v
      BY <1>1, <2>1, <2>3, <3>2, <3>3 DEF FilesOnce
    <3> QED
      BY <3>4, <3>5, <3>6, <3>7 DEF FilesOnce
  <2>7. Ledger'
    BY <1>1, <2>1, <2>2, <2>4, <2>5, HoldingFinite DEF Ledger, WindowOK
  <2> QED
    BY <1>1, <1>3, <2>2, <2>6, <2>7 DEF Accounts
<1>6. ASSUME Check(t) PROVE Accounts'
  <2>1. /\ checked' = [checked EXCEPT ![file[t]] = @ + 1]
        /\ pc[t] = "check" /\ pc' = [pc EXCEPT ![t] = "quit"]
        /\ queue' = queue /\ file' = file /\ cut' = cut /\ maximum' = maximum
    BY <1>2, <1>6 DEF Check, Go, window
  <2>2. file[t] \in File /\ checked \in [File -> Nat]
    BY <1>1 DEF WorkersOK
  <2>3. Checks' = Checks + 1
    BY <2>1, <2>2, CheckSetMore DEF Checks, CheckSet
  <2>4. Holding' = Holding \ {t} /\ t \in Holding
    BY <1>1, <2>1 DEF Holding, WorkersOK
  <2>5. Cardinality(Holding') = Cardinality(Holding) - 1
    BY <2>4, HoldingFinite, FS_RemoveElement
  <2>6. FilesOnce'
    BY <1>1, <2>1, <2>2, <2>4 DEF FilesOnce, WorkersOK, Holding
  <2>7. Ledger'
    BY <1>1, <2>1, <2>3, <2>5, HoldingFinite DEF Ledger, WindowOK, WorkersOK
  <2> QED
    BY <1>1, <1>3, <2>3, <2>6, <2>7 DEF Accounts
<1> QED
  BY <1>4, <1>5, <1>6 DEF Worker
(* The slots of the window that start and stop a run.                      *)
LEMMA RunAccounts ==
  ASSUME IInv, Accounts, ClickRun \/ Start \/ ClickStop \/ ClearQueue
  PROVE  Accounts'
<1>1. WorkersOK /\ WindowOK /\ FilesOnce /\ Ledger /\ LabelOK /\ Checks \in Nat
  BY ChecksType DEF IInv, TypeOK, Accounts
<1>2. Cardinality(Holding) \in Nat
  BY HoldingFinite
<1>3. Len(queue) \in Nat /\ Len(<<>>) = 0 /\ DOMAIN <<>> = {}
  BY <1>1, EmptyQueue DEF WorkersOK
<1>4. ASSUME ClickRun PROVE Accounts'
  <2>1. /\ queue' = <<>> /\ maximum' = maximum - Len(queue) /\ gui' = "run" /\ gui = "idle"
        /\ pc' = pc /\ file' = file /\ checked' = checked /\ cut' = cut /\ label' = label
    BY <1>4 DEF ClickRun, UserActs
  <2>2. Checks' = Checks /\ Holding' = Holding
    BY <2>1 DEF Checks, Holding
  <2>3. FilesOnce'
    BY <1>1, <1>3, <2>1, <2>2 DEF FilesOnce
  <2>4. Ledger'
    BY <1>1, <1>2, <1>3, <2>1, <2>2 DEF Ledger, WindowOK
  <2>5. LabelOK'
    BY <1>1, <2>1, <2>2 DEF LabelOK, Running
  <2> QED
    BY <2>3, <2>4, <2>5 DEF Accounts
<1>5. ASSUME Start PROVE Accounts'
  <2>1. PICK files \in SUBSET File : queue' = SetToSeq(files) /\ maximum' = Cardinality(files)
    BY <1>5 DEF Start
  <2>2. Len(queue') = maximum' /\ maximum' \in Nat /\ queue' \in Seq(files)
    BY <2>1, FS_Subset, SetToSeqProperties
  <2>3. \A i \in DOMAIN queue' : queue'[i] \in File
    BY <2>2
  <2>4. checked' = [f \in File |-> 0] /\ cut' = "no" /\ label' = -1
        /\ gui = "run" /\ gui' = "idle"
    BY <1>5 DEF Start
  <2>5. Holding' = {}
    <3> SUFFICES ASSUME NEW t \in Thread PROVE pc'[t] \in {"create", "new", "done"}
      BY DEF Holding
    <3>1. pc' = [u \in Thread |-> IF u \in Threads THEN "create" ELSE pc[u]]
      BY <1>5 DEF Start
    <3>2. t \notin Threads => pc[t] = "new"
      BY <1>1, <2>4 DEF IInv, SurplusNew, Threads, Thread, WindowOK
    <3> QED
      BY <3>1, <3>2
  <2>6. Checks' = 0
    BY <2>4, CheckSetNone DEF Checks, CheckSet
  <2>7. Cardinality(Holding') = 0
    BY <2>5, FS_EmptySet
  <2>8. FilesOnce'
    BY <2>3, <2>4, <2>5 DEF FilesOnce
  <2>9. Ledger'
    <3>1. \A m, n \in Nat : m = n => n = 0 + 0 + m
      OBVIOUS
    <3>2. Len(queue') \in Nat
      BY <2>2
    <3>3. maximum' = 0 + 0 + Len(queue')
      BY <2>2, <3>1, <3>2, Zenon
    <3> QED
      BY <2>4, <2>6, <2>7, <3>3 DEF Ledger
  <2>10. LabelOK'
    BY <2>4 DEF LabelOK
  <2> QED
    BY <2>8, <2>9, <2>10 DEF Accounts
<1>6. ASSUME ClickStop PROVE Accounts'
  <2>1. /\ queue' = queue /\ maximum' = maximum - Len(queue) /\ gui' = "stop" /\ gui = "idle"
        /\ pc' = pc /\ checked' = checked /\ label' = label
        /\ cut' = (IF cut = "no" THEN "stop" ELSE cut)
        /\ btRun /\ ~btRun'
    BY <1>6 DEF ClickStop, UserActs, workers
  <2>2. Checks' = Checks /\ Holding' = Holding
    BY <2>1 DEF Checks, Holding
  <2>3. label' = -1 /\ cut' # "no"
    BY <1>1, <2>1 DEF LabelOK
  <2>4. Ledger'
    BY <1>1, <1>2, <1>3, <2>1, <2>2 DEF Ledger, WindowOK
  <2> QED
    BY <2>1, <2>3, <2>4 DEF Accounts, FilesOnce, LabelOK
<1>7. ASSUME ClearQueue PROVE Accounts'
  <2>1. /\ queue' = <<>> /\ maximum' = maximum /\ gui' = "idle" /\ gui = "stop"
        /\ pc' = pc /\ file' = file /\ checked' = checked /\ cut' = cut /\ label' = label
        /\ btRun' = btRun
    BY <1>7 DEF ClearQueue
  <2>2. Checks' = Checks /\ Holding' = Holding
    BY <2>1 DEF Checks, Holding
  <2>3. FilesOnce'
    BY <1>1, <1>3, <2>1, <2>2 DEF FilesOnce
  <2>4. Ledger'
    BY <1>1, <1>2, <1>3, <2>1, <2>2 DEF Ledger, LabelOK, WindowOK
  <2>5. LabelOK'
    BY <1>1, <2>1, <2>2 DEF LabelOK, Running
  <2> QED
    BY <2>3, <2>4, <2>5 DEF Accounts
<1> QED
  BY <1>4, <1>5, <1>6, <1>7

(* The slots that add and delete workers: those they touch hold no file.   *)
LEMMA ThreadsAccounts ==
  ASSUME IInv, Accounts,
         TakeLast \/ DeleteThread \/ \E n \in Thread : AddThreads(n) \/ RemoveThreads(n)
  PROVE  Accounts'
<1>1. WorkersOK /\ WindowOK /\ FilesOnce /\ Ledger /\ LabelOK
  BY DEF IInv, TypeOK, Accounts
<1>2. UNCHANGED <<queue, file, checked, maximum>> /\ cut' = cut /\ label' = label
      /\ btRun' = btRun /\ gui # "run" /\ gui' \notin {"run", "stop"}
  BY <1>1 DEF TakeLast, DeleteThread, AddThreads, RemoveThreads, UserActs, workers
<1>3. Holding' = Holding
      /\ (cut = "no" /\ label # -1 /\ (\A t \in Thread : ~Running(t))
            => \A t \in Thread : ~Running(t)')
  <2>1. ASSUME NEW n \in Thread, AddThreads(n)
        PROVE  Holding' = Holding
               /\ (cut = "no" /\ label # -1 /\ (\A t \in Thread : ~Running(t))
                     => \A t \in Thread : ~Running(t)')
    <3>1. gui = "idle" /\ n > num
          /\ pc' = [t \in Thread |-> IF t \in num + 1 .. n
                                      THEN IF btRun THEN "create" ELSE "new"
                                      ELSE pc[t]]
      BY <2>1 DEF AddThreads, UserActs
    <3>2. \A t \in Thread : t \in num + 1 .. n => pc[t] = "new"
      BY <1>1, <3>1 DEF IInv, SurplusNew, WindowOK, Thread
    <3>3. Holding' = Holding
      BY <3>1, <3>2 DEF Holding
    <3>4. label # -1 => ~btRun
      BY <1>1, <1>2 DEF LabelOK, WindowOK
    <3> QED
      BY <3>1, <3>3, <3>4 DEF Running
  <2>2. ASSUME DeleteThread
        PROVE  Holding' = Holding
               /\ ((\A t \in Thread : ~Running(t)) => \A t \in Thread : ~Running(t)')
    BY <1>1, <2>2 DEF DeleteThread, Holding, Running, WorkersOK
  <2>3. ASSUME pc' = pc
        PROVE  Holding' = Holding
               /\ ((\A t \in Thread : ~Running(t)) => \A t \in Thread : ~Running(t)')
    BY <2>3 DEF Holding, Running
  <2>4. TakeLast \/ (\E n \in Thread : RemoveThreads(n)) => pc' = pc
    BY DEF TakeLast, RemoveThreads, workers
  <2> QED
    BY <2>1, <2>2, <2>3, <2>4
<1>4. FilesOnce' /\ Ledger' /\ Checks' = Checks
  BY <1>1, <1>2, <1>3, AccountsKept
<1>5. LabelOK'
  BY <1>1, <1>2, <1>3, <1>4 DEF LabelOK
<1> QED
  BY <1>4, <1>5 DEF Accounts

(* The other slots.  The run ends only when no worker is left: those that  *)
(* are not on the list are gone.                                           *)
LEMMA OtherAccounts ==
  ASSUME IInv, Accounts, ClickReload \/ LockWrite \/ Parsed \/ Close \/ Deliver
  PROVE  Accounts'
<1>1. WorkersOK /\ WindowOK /\ FilesOnce /\ Ledger /\ LabelOK /\ Checks \in Nat
  BY ChecksType DEF IInv, TypeOK, Accounts
<1>2. pc' = pc /\ file' = file /\ checked' = checked /\ maximum' = maximum
      /\ gui # "run" /\ gui' \notin {"run", "stop"}
  BY <1>1 DEF ClickReload, LockWrite, Parsed, Close, Deliver, UserActs, workers
<1>3. Holding' = Holding /\ (\A t \in Thread : Running(t)' <=> Running(t))
  BY <1>2 DEF Holding, Running
<1>4. CASE Deliver
  <2>1. queue' = queue /\ cut' = cut /\ gui = "idle"
    BY <1>4 DEF Deliver
  <2>2. FilesOnce' /\ Ledger' /\ Checks' = Checks
    BY <1>1, <1>2, <1>3, <2>1, AccountsKept
  <2>3. ASSUME UNCHANGED <<btRun, label>> PROVE LabelOK'
    BY <1>1, <1>2, <1>3, <2>1, <2>2, <2>3 DEF LabelOK
  <2>4. ASSUME queue = <<>>, \A t \in Threads : ~Running(t), btRun' = FALSE, label' = maximum
        PROVE  LabelOK'
    <3>1. \A t \in Thread : ~Running(t)
      BY <1>1, <2>1, <2>4 DEF IInv, SurplusNew, Running, Threads, Thread, WindowOK
    <3>2. Holding = {}
      BY <3>1 DEF Holding, Running
    <3>3. Cardinality(Holding) = 0 /\ Len(queue) = 0
      BY <2>4, <3>2, FS_EmptySet, EmptyQueue
    <3>4. (cut = "no" => maximum = Checks) /\ (cut = "stop" => maximum <= Checks)
      BY <1>1, <3>3 DEF Ledger, WindowOK
    <3> QED
      BY <1>2, <1>3, <2>1, <2>2, <2>4, <3>1, <3>4 DEF LabelOK
  <2>5. UNCHANGED <<btRun, label>>
        \/ (queue = <<>> /\ (\A t \in Threads : ~Running(t)) /\ btRun' = FALSE /\ label' = maximum)
    BY <1>4 DEF Deliver, ThreadFinished, OnIncrementError
  <2>6. LabelOK'
    BY <2>3, <2>4, <2>5
  <2> QED
    BY <2>2, <2>6 DEF Accounts
<1>5. CASE ~Deliver /\ queue' = queue /\ cut' = cut
  <2>1. FilesOnce' /\ Ledger' /\ Checks' = Checks
    BY <1>1, <1>2, <1>3, <1>5, AccountsKept
  <2>2. btRun' = btRun /\ label' = label
    BY <1>5 DEF ClickReload, LockWrite, Parsed, Close
  <2>3. LabelOK'
    BY <1>1, <1>2, <1>3, <1>5, <2>1, <2>2 DEF LabelOK
  <2> QED
    BY <2>1, <2>3 DEF Accounts
<1>6. CASE ~Deliver /\ ~(queue' = queue /\ cut' = cut)
  <2>1. cut' = "close" /\ btRun' = btRun /\ label' = label
    BY <1>6 DEF ClickReload, LockWrite, Parsed, Close, workers
  <2> QED
    BY <1>1, <1>2, <2>1 DEF Accounts, FilesOnce, Ledger, LabelOK
<1> QED
  BY <1>4, <1>5, <1>6

LEMMA InitAccounts == Init => Accounts /\ NoErrorLost
<1> SUFFICES ASSUME Init PROVE Accounts /\ NoErrorLost
  OBVIOUS
<1>1. /\ queue = <<>> /\ pc = [t \in Thread |-> "new"] /\ maximum = 0 /\ label = -1
      /\ checked = [f \in File |-> 0] /\ cut = "no" /\ ~btRun
      /\ events = <<>> /\ errorCount = 0 /\ found = 0 /\ gui = "idle"
  BY DEF Init
<1>2. Holding = {}
  BY <1>1 DEF Holding
<1>3. Checks = 0 /\ Cardinality(Holding) = 0 /\ Len(queue) = 0 /\ DOMAIN queue = {}
  BY <1>1, <1>2, CheckSetNone, FS_EmptySet, EmptyQueue DEF Checks, CheckSet
<1>4. FilesOnce
  BY <1>1, <1>2, <1>3 DEF FilesOnce
<1>5. Ledger /\ LabelOK
  <2>1. maximum = 0 + 0 + Len(queue)
    BY <1>1, <1>3
  <2> QED
    BY <1>1, <1>3, <2>1 DEF Ledger, LabelOK
<1>6. <<>> \in Seq(Signal)
  BY EmptySeq
<1>7. Posted \in Nat
  BY <1>1, <1>6, PostedType DEF Posted
<1>8. NoErrorLost
  BY <1>1, <1>7 DEF NoErrorLost
<1> QED
  BY <1>4, <1>5, <1>8 DEF Accounts

LEMMA StepAccounts == IInv /\ Accounts /\ NoErrorLost /\ [Next]_vars => Accounts' /\ NoErrorLost'
<1> SUFFICES ASSUME IInv, Accounts, NoErrorLost, [Next]_vars PROVE Accounts' /\ NoErrorLost'
  OBVIOUS
<1>1. ASSUME NEW t \in Thread, Worker(t) PROVE Accounts' /\ NoErrorLost'
  BY <1>1, WorkerAccounts, WorkerErrors
<1>2. ASSUME User \/ Window PROVE Accounts' /\ NoErrorLost'
  BY <1>2, WindowErrors, RunAccounts, ThreadsAccounts, OtherAccounts DEF User, Window
<1>3. ASSUME UNCHANGED vars PROVE Accounts' /\ NoErrorLost'
  <2>1. UNCHANGED <<workers, window>>
    BY <1>3 DEF vars
  <2>2. Checks' = Checks /\ Holding' = Holding /\ Posted' = Posted
    BY <2>1 DEF workers, window, Checks, Holding, Posted
  <2> QED
    BY <2>1, <2>2
       DEF workers, window, Accounts, FilesOnce, Ledger, LabelOK, NoErrorLost, Running
<1> QED
  BY <1>1, <1>2, <1>3 DEF Next

LEMMA AccountsInvariance == Spec => [](Accounts /\ NoErrorLost)
  BY Invariance, InitAccounts, StepAccounts, PTL DEF Spec

(* FileQueue and renumberThreads: whatever the user does to the workers, a *)
(* file is never checked twice, and a run that ends by itself has checked  *)
(* as many files as the label says.                                        *)
THEOREM EveryFileOnce == Spec => []Exhaustive
<1>1. Accounts => Exhaustive
  BY DEF Accounts, FilesOnce, LabelOK, Exhaustive
<1> QED
  BY AccountsInvariance, <1>1, PTL

(* run() takes what a stop leaves in the queue off the maximum, so that    *)
(* the label counts no file that has not been checked, not even one that   *)
(* a worker takes while the window stops the run.                          *)
THEOREM LabelCountsChecked == Spec => []NeverOverReports
<1>1. IInv /\ Accounts => NeverOverReports
  <2> SUFFICES ASSUME IInv, Accounts, label # -1, cut # "close" PROVE label <= Checks
    BY DEF NeverOverReports
  <2>1. Checks \in Nat /\ cut \in {"no", "stop"} /\ LabelOK
    BY ChecksType DEF IInv, TypeOK, WindowOK, Accounts
  <2> QED
    BY <2>1 DEF LabelOK
<1> QED
  BY Invariance, AccountsInvariance, <1>1, PTL

(* Deleting a worker loses none of its signals: the errors of a run are    *)
(* counted, or posted to the window.                                       *)
THEOREM ErrorsCounted == Spec => []NoErrorLost
  BY AccountsInvariance, PTL
=============================================================================
