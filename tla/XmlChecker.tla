----------------------------- MODULE XmlChecker -----------------------------
(***************************************************************************)
(* The XML checker (ui/widgets/xmlcheck.cpp): worker threads take files    *)
(* off a shared queue and check them; the window, in the GUI thread,       *)
(* starts and stops them and counts what they find.                        *)
(*                                                                         *)
(* A worker talks to the window by queued signals, which the window        *)
(* handles in the order of their emission whenever its event loop is free. *)
(* The loop is not free while a slot waits: for the workers (run), for a   *)
(* worker to be deleted (renumberThreads), for the XML lock (xml).         *)
(***************************************************************************)
EXTENDS Integers, Sequences, FiniteSets, SequencesExt

CONSTANTS
  File,           \* the files of the directory
  Errors,         \* Errors[f]: the messages a check of file f gives
  MaxThreads,     \* the range of the spin box
  MaxActions      \* bound: what the user does

ASSUME FileAssumption   == IsFiniteSet(File) /\ File # {}
ASSUME ErrorsAssumption == Errors \in [File -> Nat]
ASSUME BoundAssumption  == MaxThreads \in Nat \ {0} /\ MaxActions \in Nat

VARIABLES
  queue,          \* the FileQueue
  pc,             \* where each worker is
  file,           \* the file each worker has taken
  quit,           \* the workers whose quit mutex the window holds
  num,            \* threads is the list of workers 1 .. num
  events,         \* signals posted to the window
  gui,            \* what the window is doing; "idle": its event loop is free
  goal,           \* the thread count asked for
  btRun,          \* the Run button is down
  errorCount,
  maximum,        \* of the progress bar: the files of the run
  label,          \* the files the label reports; -1 while it is hidden
  checked,        \* how often each file has been checked since the start
  found,          \* the errors found since the start
  cut,            \* what has cut the run short: "stop", "close" or "no"
  actions

workers == <<queue, pc, file, events, checked, found>>
window  == <<quit, num, gui, goal, btRun, errorCount, maximum, label, cut>>
vars    == <<workers, window, actions>>

Thread == 1 .. MaxThreads
Threads == 1 .. num

Running(t)  == pc[t] \notin {"new", "done"}
Finished(t) == pc[t] = "done"

Init ==
  /\ queue = <<>>
  /\ pc = [t \in Thread |-> "new"] /\ file \in [Thread -> {CHOOSE f \in File : TRUE}]
  /\ quit = {}
  /\ num \in Thread /\ goal = num
  /\ events = <<>>
  /\ gui = "idle" /\ btRun = FALSE
  /\ errorCount = 0 /\ maximum = 0 /\ label = -1
  /\ checked = [f \in File |-> 0] /\ found = 0
  /\ cut = "no" /\ actions = 0

-----------------------------------------------------------------------------
(* TestThread::run.                                                        *)

Go(t, at) == pc' = [pc EXCEPT ![t] = at]

(* The end of run(): the thread emits finished().                          *)
Finish(t) == Go(t, "done") /\ events' = Append(events, "finished")

(* The models of the thread are constructed, from the XML descriptions.    *)
Create(t) ==
  /\ pc[t] = "create"
  /\ Go(t, "dequeue")
  /\ UNCHANGED <<queue, file, events, checked, found>>

Dequeue(t) ==
  /\ pc[t] = "dequeue"
  /\ \/ /\ queue = <<>>
        /\ Finish(t)
        /\ UNCHANGED <<queue, file>>
     \/ /\ queue # <<>>
        /\ file' = [file EXCEPT ![t] = Head(queue)]
        /\ queue' = Tail(queue)
        /\ Go(t, "lock")
        /\ UNCHANGED events
  /\ UNCHANGED <<checked, found>>

(* A QReadWriteLock lets no reader in while a writer waits.                *)
LockXml(t) ==
  /\ pc[t] = "lock"
  /\ gui \notin {"reload", "parse"}
  /\ Go(t, "check")
  /\ UNCHANGED <<queue, file, events, checked, found>>

Check(t) ==
  /\ pc[t] = "check"
  /\ events' = events \o [i \in 1 .. Errors[file[t]] |-> "incrementError"]
  /\ checked' = [checked EXCEPT ![file[t]] = @ + 1]
  /\ found' = found + Errors[file[t]]
  /\ Go(t, "quit")
  /\ UNCHANGED <<queue, file>>

TryQuitHoldingFile(t) ==   \* mutant: takes the next file before it looks at quit
  /\ pc[t] = "quit"
  /\ IF t \in quit
     THEN Finish(t) /\ queue' = IF queue = <<>> THEN queue ELSE Tail(queue)
     ELSE Go(t, "dequeue") /\ UNCHANGED <<events, queue>>
  /\ UNCHANGED <<file, checked, found>>

TryQuit(t) ==
  /\ pc[t] = "quit"
  /\ IF t \in quit THEN Finish(t) ELSE Go(t, "dequeue") /\ UNCHANGED events
  /\ UNCHANGED <<queue, file, checked, found>>

Worker(t) ==
  /\ Create(t) \/ Dequeue(t) \/ LockXml(t) \/ Check(t) \/ TryQuit(t)
  /\ UNCHANGED <<window, actions>>

-----------------------------------------------------------------------------
(* The slots of the window.                                                *)

UserActs ==
  /\ gui = "idle" /\ actions < MaxActions
  /\ actions' = actions + 1

(* The Run button goes down: run() empties the queue and waits for the     *)
(* workers of an earlier run before it fills the queue and starts them.    *)
ClickRun ==
  /\ UserActs
  /\ ~btRun
  /\ btRun' = TRUE
  /\ errorCount' = 0
  /\ maximum' = maximum - Len(queue)
  /\ queue' = <<>>
  /\ gui' = "run"
  /\ UNCHANGED <<pc, file, events, checked, found, quit, num, goal, label, cut>>

StartFinished ==   \* mutant: waits for threads that never started, too
  /\ gui = "run"
  /\ \A t \in Threads : Finished(t)
  /\ queue' = SetToSeq(File) /\ maximum' = Cardinality(File)
  /\ pc' = [t \in Thread |-> IF t \in Threads THEN "create" ELSE pc[t]]
  /\ label' = -1
  /\ checked' = [f \in File |-> 0] /\ found' = 0 /\ cut' = "no"
  /\ gui' = "idle"
  /\ UNCHANGED <<file, events, quit, num, goal, btRun, errorCount, actions>>

Start ==
  /\ gui = "run"
  /\ \A t \in Threads : ~Running(t)
  /\ \E files \in SUBSET File :
       /\ queue' = SetToSeq(files)
       /\ maximum' = Cardinality(files)
  /\ pc' = [t \in Thread |-> IF t \in Threads THEN "create" ELSE pc[t]]
  /\ label' = -1
  /\ checked' = [f \in File |-> 0] /\ found' = 0 /\ cut' = "no"
  /\ gui' = "idle"
  /\ UNCHANGED <<file, events, quit, num, goal, btRun, errorCount, actions>>

(* The button goes up: run() takes what is left in the queue off the       *)
(* maximum, and then empties the queue.                                    *)
ClickStopUncounted ==   \* mutant: the maximum is left alone
  /\ UserActs
  /\ btRun
  /\ btRun' = FALSE
  /\ errorCount' = 0
  /\ cut' = IF cut = "no" THEN "stop" ELSE cut
  /\ gui' = "stop"
  /\ UNCHANGED <<workers, quit, num, goal, maximum, label>>

ClickStop ==
  /\ UserActs
  /\ btRun
  /\ btRun' = FALSE
  /\ errorCount' = 0
  /\ maximum' = maximum - Len(queue)
  /\ cut' = IF cut = "no" THEN "stop" ELSE cut
  /\ gui' = "stop"
  /\ UNCHANGED <<workers, quit, num, goal, label>>

ClearQueue ==
  /\ gui = "stop"
  /\ queue' = <<>>
  /\ gui' = "idle"
  /\ UNCHANGED <<pc, file, events, checked, found, quit, num, goal, btRun, errorCount,
                 maximum, label, cut, actions>>

(* renumberThreads: new workers start at once in a run; superfluous ones   *)
(* are taken off the list from its end and deleted one after the other,    *)
(* and the destructor waits for a worker to end its file.                  *)
AddThreads(n) ==
  /\ UserActs
  /\ n > num
  /\ num' = n /\ goal' = n
  /\ pc' = [t \in Thread |-> IF t \in num + 1 .. n
                             THEN IF btRun THEN "create" ELSE "new"
                             ELSE pc[t]]
  /\ UNCHANGED <<queue, file, events, checked, found, quit, gui, btRun, errorCount,
                 maximum, label, cut>>

RemoveThreads(n) ==
  /\ UserActs
  /\ n < num
  /\ goal' = n
  /\ gui' = "remove"
  /\ UNCHANGED <<workers, quit, num, btRun, errorCount, maximum, label, cut>>

TakeLast ==
  /\ gui = "remove" /\ num > goal
  /\ num' = num - 1
  /\ quit' = IF Running(num) THEN {num} ELSE {}
  /\ gui' = "delete"
  /\ UNCHANGED <<workers, goal, btRun, errorCount, maximum, label, cut, actions>>

DeleteThreadAtOnce ==   \* mutant: the destructor does not wait
  /\ gui = "delete"
  /\ quit' = {}
  /\ gui' = IF num > goal THEN "remove" ELSE "idle"
  /\ UNCHANGED <<workers, num, goal, btRun, errorCount, maximum, label, cut, actions>>

DeleteThreadLocked ==   \* mutant: the quit mutex is never unlocked
  /\ gui = "delete"
  /\ ~Running(num + 1)
  /\ pc' = [pc EXCEPT ![num + 1] = "new"]
  /\ gui' = IF num > goal THEN "remove" ELSE "idle"
  /\ UNCHANGED <<queue, file, events, checked, found, quit, num, goal, btRun, errorCount,
                 maximum, label, cut, actions>>

DeleteThreadMuted ==   \* mutant: its signals are dropped
  /\ gui = "delete"
  /\ ~Running(num + 1)
  /\ pc' = [pc EXCEPT ![num + 1] = "new"]
  /\ quit' = {} /\ events' = <<>>
  /\ gui' = IF num > goal THEN "remove" ELSE "idle"
  /\ UNCHANGED <<queue, file, checked, found, num, goal, btRun, errorCount,
                 maximum, label, cut, actions>>

DeleteThread ==
  /\ gui = "delete"
  /\ ~Running(num + 1)
  /\ pc' = [pc EXCEPT ![num + 1] = "new"]
  /\ quit' = {}
  /\ gui' = IF num > goal THEN "remove" ELSE "idle"
  /\ UNCHANGED <<queue, file, events, checked, found, num, goal, btRun, errorCount,
                 maximum, label, cut, actions>>

(* xml(): the descriptions are parsed anew under the write lock.           *)
ClickReload ==
  /\ UserActs
  /\ gui' = "reload"
  /\ UNCHANGED <<workers, quit, num, goal, btRun, errorCount, maximum, label, cut>>

LockWrite ==
  /\ gui = "reload"
  /\ \A t \in Thread : pc[t] # "check"
  /\ gui' = "parse"
  /\ UNCHANGED <<workers, quit, num, goal, btRun, errorCount, maximum, label, cut, actions>>

Parsed ==
  /\ gui = "parse"
  /\ gui' = "idle"
  /\ UNCHANGED <<workers, quit, num, goal, btRun, errorCount, maximum, label, cut, actions>>

(* closeEvent: the window stays as long as a worker runs.                  *)
Close ==
  /\ UserActs
  /\ IF \E t \in Threads : Running(t)
     THEN queue' = <<>> /\ cut' = "close" /\ UNCHANGED gui
     ELSE gui' = "gone" /\ UNCHANGED <<queue, cut>>
  /\ UNCHANGED <<pc, file, events, checked, found, quit, num, goal, btRun, errorCount,
                 maximum, label>>

OnIncrementError ==
  /\ errorCount' = errorCount + 1
  /\ UNCHANGED <<btRun, label>>

(* The run is over when the queue is empty and no worker runs.             *)
ThreadFinished ==
  /\ IF queue = <<>> /\ \A t \in Threads : ~Running(t)
     THEN btRun' = FALSE /\ label' = maximum
     ELSE UNCHANGED <<btRun, label>>
  /\ UNCHANGED errorCount

Deliver ==
  /\ gui = "idle" /\ events # <<>>
  /\ events' = Tail(events)
  /\ IF Head(events) = "finished" THEN ThreadFinished ELSE OnIncrementError
  /\ UNCHANGED <<queue, pc, file, checked, found, quit, num, gui, goal, maximum, cut, actions>>

User ==
  \/ ClickRun \/ ClickStop \/ ClickReload \/ Close
  \/ \E n \in Thread : AddThreads(n) \/ RemoveThreads(n)

Window == Start \/ ClearQueue \/ TakeLast \/ DeleteThread \/ LockWrite \/ Parsed \/ Deliver

Next == User \/ Window \/ \E t \in Thread : Worker(t)

(* The scheduler runs every thread, and the event loop what is posted to   *)
(* it; the user need not do anything.                                      *)
Spec == Init /\ [][Next]_vars /\ WF_vars(Window) /\ \A t \in Thread : WF_vars(Worker(t))

-----------------------------------------------------------------------------
(* Properties.                                                             *)

(* Type correctness; the window holds the quit mutex of no worker but the  *)
(* one it is deleting.                                                     *)
WorkersOK ==
  /\ queue \in Seq(File) /\ IsInjective(queue)
  /\ pc \in [Thread -> {"new", "create", "dequeue", "lock", "check", "quit", "done"}]
  /\ file \in [Thread -> File]
  /\ events \in Seq({"incrementError", "finished"})
  /\ checked \in [File -> Nat] /\ found \in Nat

WindowOK ==
  /\ num \in Thread /\ goal \in Thread
  /\ gui \in {"idle", "run", "stop", "remove", "delete", "reload", "parse", "gone"}
  /\ quit \subseteq (IF gui = "delete" THEN {num + 1} ELSE {})
  /\ btRun \in BOOLEAN
  /\ errorCount \in Nat /\ maximum \in Nat
  /\ label \in Nat \cup {-1}
  /\ cut \in {"no", "stop", "close"}

TypeOK == WorkersOK /\ WindowOK

(* The checks that have been made since the start.                         *)
Checks == Cardinality(UNION {{f} \X (1 .. checked[f]) : f \in File})

(* A run that ends by itself has checked every file of the directory once, *)
(* whatever the user did to the number of threads meanwhile.               *)
Exhaustive ==
  cut = "no" => /\ \A f \in File : checked[f] <= 1
                /\ label # -1 => Checks = label

(* A run that has been stopped reports no file it has not checked.         *)
NeverOverReports == (label # -1 /\ cut # "close") => label <= Checks

(* The errors that are posted to the window.                               *)
Posted == Cardinality({k \in DOMAIN events : events[k] = "incrementError"})

(* The errors a run finds are counted, or about to be.  (The count may be  *)
(* too high: signals of a run that was stopped are counted in the next.)   *)
NoErrorLost == (cut = "no" /\ gui # "run") => errorCount + Posted >= found

(* The queue is destroyed with the window, and no worker uses it then.     *)
DestroyedSafely == gui = "gone" => \A t \in Thread : ~Running(t)

(* A run comes to its end, and every slot that waits returns: for a worker *)
(* that waits for the XML lock, for the writer of the lock, which waits    *)
(* for the workers that check a file.                                      *)
RunEnds     == btRun ~> (~btRun \/ gui = "gone")
GuiResponds == (gui \notin {"idle", "gone"}) ~> (gui = "idle")
=============================================================================
