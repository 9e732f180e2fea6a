--------------------------- MODULE SessionProofs ---------------------------
(***************************************************************************)
(* Type correctness of Session, that a window at rest can be used, and     *)
(* that a document not marked as modified is the one in its file, for any  *)
(* files, changes and depth of handlers that interrupt each other.         *)
(***************************************************************************)
EXTENDS Session, FiniteSetTheorems, SequenceTheorems, TLAPS

Name    == File \cup Entry \cup {None}
Content == Document \cup {Unreadable}

FrameSet == {fr \in [at : Dialogs \cup {"load", "save"}, file : Name, what : Content \cup {None},
                     then : Goal] :
               /\ fr.then # Nothing => fr.at \in {"confirm", "saveAs", "save"}
               /\ fr.at = "save" => fr.file \in File
               /\ fr.at = "load" => fr.what \in Content}

Count(frs, S) == Cardinality({k \in DOMAIN frs : frs[k] \in S})

Loads == {fr \in FrameSet : fr.at = "load"}

(* Handlers that post a load when they go on, or open a dialog that does.  *)
Posts(goal) == goal.do \in {"open", "choose"}
Will(goal) == IF Posts(goal) THEN 1 ELSE 0
Posting == {fr \in FrameSet : fr.at = "choose" \/ Posts(fr.then)}
WillPost(fr) == IF fr \in Posting THEN 1 ELSE 0

(* The views show the model between two swaps of models.                   *)
Swapped(isAttached, frs) == isAttached <=> Count(frs, Loads) % 2 = 0

(* The window is disabled by a load or a save only.                        *)
Waiting(isEnabled, frs) == isEnabled \/ Busy(frs)

(* A load that has been posted, or is going to be, is the user's doing.    *)
Posted(number, frs, bound) == number + Count(frs, Posting) <= bound

StackOK ==
  /\ frames \in Seq(FrameSet)
  /\ Swapped(attached, frames)
  /\ Waiting(enabled, frames)
  /\ Posted(pending, frames, acts)

(* What Continue leaves alone, and what it does not.                       *)
FilesOK ==
  /\ disk \in [File -> Content]
  /\ modified \in BOOLEAN /\ usable \in BOOLEAN /\ failed \in BOOLEAN
  /\ edits \in 0 .. MaxEdits /\ acts \in 0 .. MaxActs

WindowOK ==
  /\ currentFile \in Name /\ doc \in Document /\ pending \in Nat
  /\ enabled \in BOOLEAN /\ attached \in BOOLEAN /\ closed \in BOOLEAN /\ mixed \in BOOLEAN

IInv == FilesOK /\ WindowOK /\ StackOK

USE NamesAssumption, OptionAssumption, BoundAssumption
    DEF NamesAssumption, OptionAssumption, BoundAssumption

-----------------------------------------------------------------------------
(* The stack of handlers: what it counts when one comes or goes.           *)

LEMMA CountType ==
  ASSUME NEW X, NEW s \in Seq(X), NEW S
  PROVE  Count(s, S) \in Nat /\ IsFiniteSet({k \in DOMAIN s : s[k] \in S})
<1>1. DOMAIN s = 1 .. Len(s) /\ Len(s) \in Nat
  OBVIOUS
<1>2. IsFiniteSet(DOMAIN s)
  BY <1>1, FS_Interval
<1>3. IsFiniteSet({k \in DOMAIN s : s[k] \in S})
  BY <1>2, FS_Subset
<1> QED
  BY <1>3, FS_CardinalityType DEF Count

LEMMA CountAppend ==
  ASSUME NEW X, NEW s \in Seq(X), NEW x \in X, NEW S
  PROVE  Count(Append(s, x), S) = Count(s, S) + (IF x \in S THEN 1 ELSE 0)
<1> DEFINE n == Len(s) + 1
           Old == {k \in DOMAIN s : s[k] \in S}
           New == {k \in DOMAIN Append(s, x) : Append(s, x)[k] \in S}
<1>1. DOMAIN s = 1 .. Len(s) /\ Len(s) \in Nat /\ DOMAIN Append(s, x) = 1 .. n
  OBVIOUS
<1>2. (\A k \in 1 .. Len(s) : Append(s, x)[k] = s[k]) /\ Append(s, x)[n] = x
  BY AppendProperties
<1>3. IsFiniteSet(Old)
  BY CountType
<1>8. n \notin Old
  BY <1>1
<1>4. New = IF x \in S THEN Old \cup {n} ELSE Old
  BY <1>1, <1>2
<1>5. Cardinality(Old) \in Nat
  BY <1>3, FS_CardinalityType
<1>6. Cardinality(Old \cup {n}) = Cardinality(Old) + 1
  <2> HIDE DEF Old, n
  <2> QED
    BY <1>3, <1>8, FS_AddElement
<1>7. Cardinality(New) = Cardinality(Old) + (IF x \in S THEN 1 ELSE 0)
  <2> HIDE DEF Old, New
  <2> QED
    BY <1>4, <1>5, <1>6
<1> QED
  BY <1>7 DEF Count

LEMMA FrontLast ==
  ASSUME NEW X, NEW s \in Seq(X), s # <<>>
  PROVE  Front(s) \in Seq(X) /\ Last(s) \in X /\ s = Append(Front(s), Last(s))
<1>1. Len(s) \in Nat \ {0} /\ DOMAIN s = 1 .. Len(s) /\ \A k \in 1 .. Len(s) : s[k] \in X
  OBVIOUS
<1>2. Front(s) \in Seq(X) /\ Len(Front(s)) = Len(s) - 1
      /\ \A k \in 1 .. (Len(s) - 1) : Front(s)[k] = s[k]
  BY <1>1, SubSeqProperties DEF Front
<1>3. Last(s) \in X /\ Last(s) = s[Len(s)]
  BY <1>1 DEF Last
<1> DEFINE t == Append(Front(s), Last(s))
<1>4. t \in Seq(X) /\ Len(t) = Len(s)
      /\ (\A k \in 1 .. (Len(s) - 1) : t[k] = Front(s)[k]) /\ t[Len(s)] = Last(s)
  <2> HIDE DEF t
  <2>1. Len(Front(s)) + 1 = Len(s)
    BY <1>1, <1>2
  <2> QED
    BY <1>2, <1>3, <2>1, AppendProperties DEF t
<1>5. \A k \in 1 .. Len(s) : t[k] = s[k]
  BY <1>1, <1>2, <1>3, <1>4
<1>6. s = t
  <2> HIDE DEF t
  <2> QED
    BY <1>4, <1>5, SeqEqual
<1> QED
  BY <1>2, <1>3, <1>6

LEMMA LastReplaced ==
  ASSUME NEW X, NEW s \in Seq(X), s # <<>>, NEW x \in X
  PROVE  [s EXCEPT ![Len(s)] = x] = Append(Front(s), x)
<1> DEFINE e == [s EXCEPT ![Len(s)] = x]
           t == Append(Front(s), x)
<1>1. Len(s) \in Nat \ {0} /\ DOMAIN s = 1 .. Len(s)
  OBVIOUS
<1>2. /\ e \in Seq(X)
      /\ Len(e) = Len(s)
      /\ \A k \in 1 .. Len(s) : e[k] = IF k = Len(s) THEN x ELSE s[k]
  BY <1>1, ExceptSeq
<1>3. /\ Front(s) \in Seq(X)
      /\ Len(Front(s)) = Len(s) - 1
      /\ \A k \in 1 .. (Len(s) - 1) : Front(s)[k] = s[k]
  BY FrontLast, <1>1, SubSeqProperties DEF Front
<1>4. Len(Front(s)) + 1 = Len(s)
  BY <1>1, <1>3
<1>5. /\ t \in Seq(X)
      /\ Len(t) = Len(s)
      /\ t[Len(s)] = x
      /\ \A k \in 1 .. (Len(s) - 1) : t[k] = Front(s)[k]
  BY <1>3, <1>4, AppendProperties
<1> HIDE DEF e, t
<1>6. \A k \in 1 .. Len(e) : e[k] = t[k]
  <2> TAKE k \in 1 .. Len(e)
  <2>1. k \in 1 .. Len(s) /\ Len(s) \in Nat
    BY <1>1, <1>2
  <2>2. CASE k = Len(s)
    BY <1>2, <1>5, <2>1, <2>2
  <2>3. CASE k # Len(s)
    <3>1. k \in 1 .. (Len(s) - 1)
      BY <2>1, <2>3
    <3>2. e[k] = s[k]
      BY <1>2, <2>1, <2>3
    <3>3. t[k] = s[k]
      BY <1>3, <1>5, <3>1
    <3> QED
      BY <3>2, <3>3
  <2> QED
    BY <2>2, <2>3
<1>7. e = t
  BY <1>2, <1>5, <1>6, SeqEqual
<1> QED
  BY <1>7 DEF e, t

LEMMA BusyAppend ==
  ASSUME NEW X, NEW s \in Seq(X), NEW x \in X
  PROVE  Busy(Append(s, x)) <=> Busy(s) \/ x.at \in {"load", "save"}
<1>1. DOMAIN s = 1 .. Len(s) /\ Len(s) \in Nat /\ DOMAIN Append(s, x) = 1 .. (Len(s) + 1)
  OBVIOUS
<1>2. (\A k \in 1 .. Len(s) : Append(s, x)[k] = s[k]) /\ Append(s, x)[Len(s) + 1] = x
  BY AppendProperties
<1> QED
  BY <1>1, <1>2 DEF Busy

(* A handler that is suspended: the stack after it, from the one before.   *)
LEMMA Pushed ==
  ASSUME NEW base \in Seq(FrameSet), NEW fr \in FrameSet, NEW n \in Nat, NEW m \in Nat,
         NEW b \in BOOLEAN
  PROVE  /\ Append(base, fr) \in Seq(FrameSet)
         /\ Posted(n, Append(base, fr), m)
              <=> Posted(n + WillPost(fr), base, m)
         /\ Swapped(b, Append(base, fr)) <=> Swapped(IF fr.at = "load" THEN ~b ELSE b, base)
         /\ Busy(Append(base, fr)) <=> Busy(base) \/ fr.at \in {"load", "save"}
<1>1. Append(base, fr) \in Seq(FrameSet)
  BY AppendProperties
<1>2. Count(base, Posting) \in Nat /\ Count(base, Loads) \in Nat
  BY CountType
<1>3. Count(Append(base, fr), Posting) = Count(base, Posting) + WillPost(fr)
  BY CountAppend DEF WillPost
<1>4. Count(Append(base, fr), Loads) = Count(base, Loads) + (IF fr \in Loads THEN 1 ELSE 0)
  BY CountAppend
<1>5. Posted(n, Append(base, fr), m) <=> Posted(n + WillPost(fr), base, m)
  <2>1. WillPost(fr) \in Nat
    BY DEF WillPost
  <2> QED
    BY <1>2, <1>3, <2>1 DEF Posted
<1>6. fr \in Loads <=> fr.at = "load"
  BY DEF Loads
<1>7. Swapped(b, Append(base, fr)) <=> Swapped(IF fr.at = "load" THEN ~b ELSE b, base)
  <2> DEFINE c == Count(base, Loads)
  <2>1. c \in Nat /\ ((c + 1) % 2 = 0 <=> ~(c % 2 = 0))
    BY <1>2
  <2>2. CASE fr.at = "load"
    <3>1. Count(Append(base, fr), Loads) = c + 1
      BY <1>4, <1>6, <2>2
    <3> QED
      BY <2>1, <2>2, <3>1 DEF Swapped
  <2>3. CASE fr.at # "load"
    <3>1. Count(Append(base, fr), Loads) = c
      BY <1>2, <1>4, <1>6, <2>3
    <3> QED
      BY <2>3, <3>1 DEF Swapped
  <2> QED
    BY <2>2, <2>3
<1> QED
  BY <1>1, <1>5, <1>7, BusyAppend

(* A handler that goes on: the one on top, and the stack below it.         *)
LEMMA Popped ==
  ASSUME IInv, frames # <<>>
  PROVE  LET base == Front(frames)
         IN /\ base \in Seq(FrameSet) /\ Top \in FrameSet
            /\ Posted(pending + WillPost(Top), base, acts)
            /\ Swapped(IF Top.at = "load" THEN ~attached ELSE attached, base)
            /\ enabled \/ Busy(base) \/ Top.at \in {"load", "save"}
<1> DEFINE base == Front(frames)
<1>1. base \in Seq(FrameSet) /\ Top \in FrameSet /\ frames = Append(base, Top)
  BY FrontLast DEF IInv, StackOK, Top
<1>2. pending \in Nat /\ acts \in Nat /\ attached \in BOOLEAN
  BY DEF IInv, FilesOK, WindowOK
<1>3. /\ Posted(pending, Append(base, Top), acts)
      /\ Swapped(attached, Append(base, Top)) /\ Waiting(enabled, Append(base, Top))
  BY <1>1 DEF IInv, StackOK
<1> HIDE DEF base
<1>4. /\ Posted(pending + WillPost(Top), base, acts)
      /\ Swapped(IF Top.at = "load" THEN ~attached ELSE attached, base)
      /\ enabled \/ Busy(base) \/ Top.at \in {"load", "save"}
  BY <1>1, <1>2, <1>3, Pushed DEF Waiting
<1> QED
  BY <1>1, <1>4 DEF base

-----------------------------------------------------------------------------
(* What the handlers have in common.                                       *)

LEMMA HoldsContent == FilesOK => \A f \in Name : Holds(f) \in Content
BY DEF FilesOK, Name, Content, Holds, Document

LEMMA PlusZero == \A n \in Nat : n + 0 = n
OBVIOUS

LEMMA StackIs ==
  ASSUME NEW s \in Seq(FrameSet), frames' = s,
         Posted(pending', s, acts'), Swapped(attached', s), enabled' \/ Busy(s)
  PROVE  StackOK'
BY DEF StackOK, Waiting, Posted, Swapped, Count, Busy

LEMMA SuspendStep ==
  ASSUME NEW base \in Seq(FrameSet), NEW fr \in FrameSet, Suspend(base, fr),
         pending' \in Nat, acts' \in Nat, attached' \in BOOLEAN,
         NEW w, w = pending' + WillPost(fr), Posted(w, base, acts'),
         NEW b, b = IF fr.at = "load" THEN ~attached' ELSE attached', Swapped(b, base),
         enabled' \/ Busy(base) \/ fr.at \in {"load", "save"}
  PROVE  StackOK'
<1>1. frames' = Append(base, fr)
  BY DEF Suspend
<1>2. /\ Append(base, fr) \in Seq(FrameSet)
      /\ Posted(pending', Append(base, fr), acts')
      /\ Swapped(attached', Append(base, fr))
      /\ enabled' \/ Busy(Append(base, fr))
  BY Pushed
<1> QED
  BY <1>1, <1>2, StackIs

LEMMA BeginLoadStep ==
  ASSUME FilesOK, NEW f \in Name, NEW base \in Seq(FrameSet), BeginLoad(f, base),
         attached \in BOOLEAN, pending' \in Nat, acts' \in Nat,
         Posted(pending', base, acts'), Swapped(attached, base)
  PROVE  /\ doc' \in Document /\ enabled' \in BOOLEAN /\ attached' \in BOOLEAN /\ mixed' \in BOOLEAN
         /\ StackOK'
<1> DEFINE fr == Frame("load", f, Holds(f), Nothing)
<1>1. Holds(f) \in Content /\ Nothing \in Goal
  BY HoldsContent DEF Goal, Nothing
<1>2. fr \in FrameSet /\ fr.at = "load" /\ WillPost(fr) = 0
  BY <1>1 DEF FrameSet, Frame, Posting, Posts, Nothing, WillPost
<1>3. Suspend(base, fr) /\ attached' = ~attached /\ ~enabled' /\ doc' = Partial /\ mixed' = Busy(base)
  BY DEF BeginLoad
<1>4. doc' \in Document /\ enabled' \in BOOLEAN /\ attached' \in BOOLEAN /\ mixed' \in BOOLEAN
  BY <1>3 DEF BeginLoad, Document, Busy
<1> HIDE DEF fr
<1>5. StackOK'
  <2>1. pending' = pending' + WillPost(fr)
    BY <1>2, PlusZero
  <2>2. attached = IF fr.at = "load" THEN ~attached' ELSE attached'
    BY <1>2, <1>3
  <2> QED
    BY <1>2, <1>3, <1>4, <2>1, <2>2, SuspendStep
<1> QED
  BY <1>4, <1>5

LEMMA BeginSaveStep ==
  ASSUME FilesOK, WindowOK, NEW f \in File, NEW base \in Seq(FrameSet), NEW then \in Goal,
         BeginSave(f, base, then),
         attached' = attached, pending' \in Nat, acts' \in Nat,
         Posted(pending' + Will(then), base, acts'), Swapped(attached, base)
  PROVE  /\ doc' \in Document /\ enabled' \in BOOLEAN /\ mixed' \in BOOLEAN
         /\ edits' \in 0 .. MaxEdits /\ StackOK'
<1> DEFINE fr == Frame("save", f, doc', then)
<1>1. Suspend(base, fr) /\ ~enabled' /\ enabled' \in BOOLEAN /\ mixed' = (mixed \/ Busy(base))
  BY DEF BeginSave
<1>2. mixed' \in BOOLEAN
  BY <1>1 DEF WindowOK, Busy
<1>3. doc' \in Document /\ edits' \in 0 .. MaxEdits
  BY DEF BeginSave, FilesOK, WindowOK, Document
<1>4. fr \in FrameSet /\ fr.at = "save" /\ (fr \in Posting <=> Posts(then))
  BY <1>3 DEF FrameSet, Frame, Posting, Name, Content
<1> HIDE DEF fr
<1>5. StackOK'
  <2>1. attached' \in BOOLEAN
    BY DEF WindowOK
  <2>2. pending' + Will(then) = pending' + WillPost(fr)
    BY <1>4 DEF WillPost, Will
  <2>3. attached = IF fr.at = "load" THEN ~attached' ELSE attached'
    BY <1>4
  <2> QED
    BY <1>1, <1>4, <2>1, <2>2, <2>3, SuspendStep
<1> QED
  BY <1>1, <1>2, <1>3, <1>5

(* saveConfirm() returns true, above the handlers of base.                 *)
LEMMA ContinueStep ==
  ASSUME FilesOK, WindowOK, NEW goal \in Goal, NEW base \in Seq(FrameSet),
         NEW isEnabled \in BOOLEAN, isEnabled \/ Busy(base),
         Continue(goal, base, isEnabled), acts' \in Nat,
         Posted(pending + Will(goal), base, acts'), Swapped(attached, base)
  PROVE  WindowOK' /\ StackOK'
<1>1. pending \in Nat /\ attached \in BOOLEAN /\ pending + 0 = pending
  BY DEF WindowOK
<1>2. ASSUME frames' = base, enabled' = isEnabled, attached' = attached,
             pending' = pending + Will(goal)
      PROVE  StackOK'
  BY <1>2, StackIs
<1>3. CASE goal.do \in {"nothing", "close"}
  <2>1. UNCHANGED <<currentFile, pending, doc, attached, mixed>> /\ frames' = base
        /\ enabled' = isEnabled /\ closed' \in BOOLEAN
    BY <1>3 DEF Continue, WindowOK
  <2>2. Will(goal) = 0
    BY <1>3 DEF Posts, Will
  <2>3. pending' = pending + Will(goal)
    BY <1>1, <2>1, <2>2
  <2> QED
    BY <1>2, <2>1, <2>3 DEF WindowOK
<1>4. CASE goal.do = "open"
  <2>1. UNCHANGED <<doc, attached, closed, mixed>> /\ frames' = base /\ enabled' = isEnabled
        /\ currentFile' = goal.file /\ pending' = pending + 1
    BY <1>4 DEF Continue, LoadFile
  <2>2. goal.file \in Name /\ Will(goal) = 1
    BY <1>4 DEF Goal, Name, Posts, Will
  <2>3. StackOK'
    BY <1>2, <2>1, <2>2
  <2>4. pending' \in Nat
    BY <1>1, <2>1
  <2> QED
    BY <2>1, <2>2, <2>3, <2>4 DEF WindowOK
<1>5. CASE goal.do = "choose"
  <2> DEFINE fr == Frame("choose", None, None, Nothing)
  <2>1. UNCHANGED <<currentFile, pending, doc, attached, closed, mixed>> /\ Suspend(base, fr)
        /\ enabled' = isEnabled
    BY <1>5 DEF Continue
  <2>2. fr \in FrameSet /\ fr.at = "choose" /\ WillPost(fr) = 1 /\ Will(goal) = 1
    BY <1>5 DEF FrameSet, Frame, Posting, Posts, Nothing, Goal, Dialogs, Name, WillPost, Will
  <2> HIDE DEF fr
  <2>4. pending + Will(goal) = pending' + WillPost(fr)
    BY <2>1, <2>2
  <2>5. attached = IF fr.at = "load" THEN ~attached' ELSE attached'
    BY <2>1, <2>2
  <2>3. StackOK'
    BY <1>1, <2>1, <2>2, <2>4, <2>5, SuspendStep
  <2> QED
    BY <2>1, <2>3 DEF WindowOK
<1>6. CASE goal.do = "archive"
  <2>1. BeginLoad(goal.file, base) /\ UNCHANGED <<currentFile, pending, closed>>
    BY <1>6 DEF Continue
  <2>2. goal.file \in Name /\ Will(goal) = 0
    BY <1>6 DEF Goal, Name, Posts, Will
  <2>4. pending + Will(goal) = pending'
    BY <1>1, <2>1, <2>2
  <2>3. pending' \in Nat /\ Posted(pending', base, acts')
    BY <1>1, <2>1, <2>4
  <2> QED
    BY <1>1, <2>1, <2>2, <2>3, BeginLoadStep DEF WindowOK
<1> QED
  BY <1>3, <1>4, <1>5, <1>6 DEF Goal
LEMMA PostedMore ==
  ASSUME NEW s \in Seq(FrameSet), NEW n \in Nat, NEW m \in Nat, NEW k \in {0, 1}, Posted(n, s, m)
  PROVE  Posted(n + k, s, m + 1)
<1>1. Count(s, Posting) \in Nat
  BY CountType
<1> QED
  BY <1>1 DEF Posted

(* saveConfirm(), asked by something the user does.                        *)
LEMMA SaveConfirmStep ==
  ASSUME IInv, NEW goal \in Goal, SaveConfirm(goal), acts' = acts + 1
  PROVE  WindowOK' /\ StackOK'
<1>1. FilesOK /\ WindowOK /\ StackOK
  BY DEF IInv
<1>2. /\ frames \in Seq(FrameSet) /\ Swapped(attached, frames) /\ (enabled \/ Busy(frames))
      /\ pending \in Nat /\ acts \in Nat /\ acts' \in Nat /\ attached \in BOOLEAN /\ enabled \in BOOLEAN
  BY <1>1 DEF FilesOK, WindowOK, StackOK, Waiting
<1>3. Posted(pending + Will(goal), frames, acts')
  <2>1. Posted(pending, frames, acts) /\ Will(goal) \in {0, 1}
    BY <1>1 DEF StackOK, Will
  <2>2. Posted(pending + Will(goal), frames, acts + 1)
    <3>1. frames \in Seq(FrameSet) /\ pending \in Nat /\ acts \in Nat
      BY <1>2
    <3>2. \A k \in {0, 1} : Posted(pending + k, frames, acts + 1)
      BY <2>1, <3>1, PostedMore
    <3> QED
      BY <2>1, <3>2
  <2> QED
    BY <2>2
<1>4. CASE modified
  <2> DEFINE fr == Frame("confirm", None, None, goal)
  <2>1. /\ UNCHANGED <<currentFile, pending, doc, enabled, attached, closed, mixed>>
        /\ Suspend(frames, fr)
    BY <1>4 DEF SaveConfirm
  <2>2. fr \in FrameSet /\ fr.at = "confirm" /\ (fr \in Posting <=> Posts(goal))
    BY DEF FrameSet, Frame, Posting, Dialogs, Name
  <2> HIDE DEF fr
  <2>3. /\ pending + Will(goal) = pending' + WillPost(fr)
        /\ attached = IF fr.at = "load" THEN ~attached' ELSE attached'
    BY <2>1, <2>2 DEF WillPost, Will
  <2>4. StackOK'
    <3>1. pending' \in Nat /\ acts' \in Nat /\ attached' \in BOOLEAN /\ (enabled' \/ Busy(frames))
      BY <1>2, <2>1
    <3>2. frames \in Seq(FrameSet) /\ Swapped(attached, frames) /\ Suspend(frames, fr)
      BY <1>2, <2>1
    <3> QED
      BY <1>3, <2>2, <2>3, <3>1, <3>2, SuspendStep
  <2> QED
    BY <1>1, <2>1, <2>4 DEF WindowOK
<1>5. CASE ~modified
  <2>1. Continue(goal, frames, enabled)
    BY <1>5 DEF SaveConfirm
  <2> QED
    <3>1. /\ frames \in Seq(FrameSet) /\ Swapped(attached, frames) /\ enabled \in BOOLEAN
          /\ (enabled \/ Busy(frames))
          /\ acts' \in Nat
      BY <1>2
    <3> QED
      BY <1>1, <1>3, <2>1, <3>1, ContinueStep
<1> QED
  BY <1>4, <1>5

-----------------------------------------------------------------------------
(* The actions.                                                            *)

LEMMA InitInv == Init => IInv
<1> SUFFICES ASSUME Init PROVE IInv
  OBVIOUS
<1>1. FilesOK /\ WindowOK
  <2>1. disk \in [File -> Content]
    BY DEF Init, Content, Document
  <2>2. 0 \in 0 .. MaxEdits /\ 0 \in 0 .. MaxActs
    OBVIOUS
  <2> QED
    BY <2>1, <2>2 DEF Init, FilesOK, WindowOK, Name, Document
<1>2. frames = <<>> /\ frames \in Seq(FrameSet) /\ enabled /\ attached = TRUE /\ pending = 0 /\ acts = 0
  BY DEF Init
<1>3. \A S : Count(<<>>, S) = 0
  BY FS_EmptySet DEF Count
<1>4. StackOK
  BY <1>2, <1>3 DEF StackOK, Swapped, Waiting, Posted
<1> QED
  BY <1>1, <1>4 DEF IInv

(* An act of the user that leaves the stack alone.                         *)
LEMMA ActInv ==
  ASSUME IInv, Acts, UNCHANGED <<frames, enabled, attached>>, WindowOK', FilesOK',
         pending' = pending \/ pending' = pending + 1
  PROVE  IInv'
<1>1. FilesOK /\ WindowOK /\ StackOK
  BY DEF IInv
<1>2. pending \in Nat /\ acts \in Nat /\ acts' = acts + 1
  BY <1>1 DEF FilesOK, WindowOK, Acts
<1>3. Posted(pending + 0, frames, acts') /\ Posted(pending + 1, frames, acts')
  BY <1>1, <1>2, PostedMore DEF StackOK
<1>4. Posted(pending', frames, acts')
  BY <1>2, <1>3, PlusZero
<1>5. StackOK'
  BY <1>1, <1>4, StackIs DEF StackOK, Waiting
<1> QED
  BY <1>5 DEF IInv

LEMMA EditInv == IInv /\ (Edit \/ Reload \/ \E f \in File : Drop(f)) => IInv'
<1> SUFFICES ASSUME IInv, Edit \/ Reload \/ \E f \in File : Drop(f) PROVE IInv'
  OBVIOUS
<1>1. FilesOK /\ WindowOK
  BY DEF IInv
<1>2. Acts /\ UNCHANGED <<frames, enabled, attached>> /\ (pending' = pending \/ pending' = pending + 1)
  BY DEF Edit, Reload, Drop, Input, LoadFile
<1>3. acts' \in 0 .. MaxActs
  BY <1>1, <1>2 DEF FilesOK, Acts
<1>4. edits' \in 0 .. MaxEdits /\ doc' \in Document
  BY <1>1 DEF Edit, Reload, Drop, FilesOK, WindowOK, Document
<1>5. FilesOK'
  BY <1>1, <1>3, <1>4 DEF Edit, Reload, Drop, FilesOK
<1>6. WindowOK'
  BY <1>1, <1>2, <1>4 DEF Edit, Reload, Drop, WindowOK, LoadFile, Name
<1> QED
  BY <1>2, <1>5, <1>6, ActInv

LEMMA ConfirmInv ==
  IInv /\ (Close \/ \E goal \in {g \in Goal : g.do \in {"choose", "open", "archive"}} : Open(goal)) => IInv'
<1> SUFFICES ASSUME IInv, NEW goal \in Goal,
                    Acts, SaveConfirm(goal), UNCHANGED <<modified, disk, usable, edits, failed>>
             PROVE  IInv'
  BY DEF Close, Open, Input, Goal
<1>1. FilesOK /\ acts' = acts + 1
  BY DEF IInv, Acts
<1>2. acts' \in 0 .. MaxActs
  BY <1>1 DEF FilesOK, Acts
<1>3. FilesOK'
  BY <1>1, <1>2 DEF FilesOK
<1>4. WindowOK' /\ StackOK'
  BY <1>1, SaveConfirmStep
<1> QED
  BY <1>3, <1>4 DEF IInv

LEMMA SaveInv == IInv /\ (Save \/ SaveAs) => IInv'
<1> SUFFICES ASSUME IInv, Save \/ SaveAs PROVE IInv'
  OBVIOUS
<1>1. FilesOK /\ WindowOK /\ StackOK
  BY DEF IInv
<1>2. /\ Acts /\ UNCHANGED <<currentFile, modified, disk, pending, attached, usable, closed, failed>>
      /\ SaveAsDlg \/ (currentFile \in File /\ BeginSave(currentFile, frames, Nothing))
  BY DEF Save, SaveAs, Input
<1>3. acts' = acts + 1 /\ acts' \in 0 .. MaxActs /\ acts \in Nat /\ acts' \in Nat
  BY <1>1, <1>2 DEF Acts, FilesOK
<1>4. pending \in Nat /\ attached \in BOOLEAN /\ frames \in Seq(FrameSet) /\ pending + 0 = pending
  BY <1>1 DEF WindowOK, StackOK
<1>6. Nothing \in Goal /\ Will(Nothing) = 0 /\ ~Posts(Nothing)
  BY DEF Nothing, Goal, Posts, Will
<1>5. Posted(pending', frames, acts') /\ Posted(pending' + Will(Nothing), frames, acts')
  <2>1. Posted(pending + 0, frames, acts + 1)
    BY <1>1, <1>3, <1>4, PostedMore DEF StackOK
  <2> QED
    BY <1>2, <1>3, <1>4, <1>6, <2>1
<1>7. CASE SaveAsDlg
  <2> DEFINE fr == Frame("saveAs", None, None, Nothing)
  <2>1. Suspend(frames, fr) /\ UNCHANGED <<doc, enabled, edits, mixed>>
    BY <1>7 DEF SaveAsDlg
  <2>2. fr \in FrameSet /\ fr.at = "saveAs" /\ WillPost(fr) = 0
    BY <1>6 DEF FrameSet, Frame, Posting, Dialogs, Name, WillPost
  <2> HIDE DEF fr
  <2>4. /\ pending' \in Nat /\ attached' \in BOOLEAN /\ pending' = pending' + WillPost(fr)
        /\ attached = IF fr.at = "load" THEN ~attached' ELSE attached'
    BY <1>2, <1>4, <2>2
  <2>5. Swapped(attached, frames) /\ (enabled' \/ Busy(frames))
    BY <1>1, <2>1 DEF StackOK, Waiting
  <2>3. StackOK'
    <3>1. acts' \in Nat /\ frames \in Seq(FrameSet) /\ Posted(pending', frames, acts') /\ Suspend(frames, fr)
      BY <1>3, <1>4, <1>5, <2>1
    <3> QED
      BY <2>2, <2>4, <2>5, <3>1, SuspendStep
  <2> QED
    BY <1>1, <1>2, <1>3, <2>1, <2>3 DEF IInv, FilesOK, WindowOK
<1>8. CASE currentFile \in File /\ BeginSave(currentFile, frames, Nothing)
  <2>1. /\ doc' \in Document /\ enabled' \in BOOLEAN /\ mixed' \in BOOLEAN
        /\ edits' \in 0 .. MaxEdits /\ StackOK'
    <3>1. Swapped(attached, frames) /\ attached' = attached /\ pending' \in Nat
      BY <1>1, <1>2, <1>4 DEF StackOK
    <3> QED
      BY <1>1, <1>3, <1>4, <1>5, <1>6, <1>8, <3>1, BeginSaveStep
  <2> QED
    BY <1>1, <1>2, <1>3, <2>1 DEF IInv, FilesOK, WindowOK
<1> QED
  BY <1>2, <1>7, <1>8
-----------------------------------------------------------------------------
(* The answers to dialogs, and the program.                                *)

(* What is left of the invariant when the handler on top goes.             *)
LEMMA TopGoes ==
  ASSUME IInv, frames # <<>>
  PROVE  /\ FilesOK /\ WindowOK /\ Front(frames) \in Seq(FrameSet) /\ Top \in FrameSet /\ Top.then \in Goal
         /\ pending \in Nat /\ acts \in Nat /\ attached \in BOOLEAN /\ enabled \in BOOLEAN
         /\ Posted(pending + WillPost(Top), Front(frames), acts)
         /\ Top.at # "choose" => Will(Top.then) = WillPost(Top)
         /\ Top.at # "load" => Swapped(attached, Front(frames))
         /\ Top.at = "load" => Swapped(~attached, Front(frames))
         /\ Top.at \notin {"load", "save"} => enabled \/ Busy(Front(frames))
<1>1. FilesOK /\ WindowOK
  BY DEF IInv
<1>2. /\ Front(frames) \in Seq(FrameSet) /\ Top \in FrameSet
      /\ Posted(pending + WillPost(Top), Front(frames), acts)
      /\ Swapped(IF Top.at = "load" THEN ~attached ELSE attached, Front(frames))
      /\ enabled \/ Busy(Front(frames)) \/ Top.at \in {"load", "save"}
  BY Popped
<1>3. Top.then \in Goal /\ (Top.at # "choose" => Will(Top.then) = WillPost(Top))
  BY <1>2 DEF FrameSet, WillPost, Posting, Will
<1>4. pending \in Nat /\ acts \in Nat /\ attached \in BOOLEAN /\ enabled \in BOOLEAN
  BY <1>1 DEF FilesOK, WindowOK
<1>5. /\ Top.at # "load" => Swapped(attached, Front(frames))
      /\ Top.at = "load" => Swapped(~attached, Front(frames))
  BY <1>2
<1>6. Top.at \notin {"load", "save"} => enabled \/ Busy(Front(frames))
  BY <1>2
<1> QED
  BY <1>1, <1>2, <1>3, <1>4, <1>5, <1>6

LEMMA YesInv == IInv /\ Yes => IInv'
<1> SUFFICES ASSUME IInv, Yes PROVE IInv'
  OBVIOUS
<1> DEFINE fr == [Top EXCEPT !.at = "saveAs"]
<1>1. /\ frames # <<>> /\ Top.at = "confirm"
      /\ frames' = [frames EXCEPT ![Len(frames)].at = "saveAs"]
      /\ UNCHANGED <<currentFile, doc, modified, disk, pending, enabled, attached, usable, closed,
                     edits, acts, failed, mixed>>
  BY DEF Yes, At
<1>2. FilesOK /\ WindowOK /\ frames \in Seq(FrameSet) /\ Top \in FrameSet
      /\ Front(frames) \in Seq(FrameSet) /\ frames = Append(Front(frames), Top)
  BY <1>1, FrontLast DEF IInv, StackOK, Top
<1>3. fr \in FrameSet /\ fr.at = "saveAs" /\ WillPost(fr) = WillPost(Top)
  BY <1>1, <1>2 DEF FrameSet, Dialogs, WillPost, Posting
<1>4. frames' = Append(Front(frames), fr)
  <2>1. frames' = [frames EXCEPT ![Len(frames)] = fr]
    BY <1>1, <1>2 DEF Top, Last
  <2> HIDE DEF fr
  <2> QED
    BY <1>1, <1>2, <1>3, <2>1, LastReplaced
<1> HIDE DEF fr
<1>5. StackOK'
  <2>1. /\ Posted(pending + WillPost(Top), Front(frames), acts)
        /\ Swapped(attached, Front(frames)) /\ (enabled \/ Busy(Front(frames)))
        /\ pending \in Nat /\ acts \in Nat /\ attached \in BOOLEAN
    BY <1>1, TopGoes
  <2>2. /\ Posted(pending', Append(Front(frames), fr), acts)
        /\ Swapped(attached, Append(Front(frames), fr))
        /\ Append(Front(frames), fr) \in Seq(FrameSet)
        /\ enabled \/ Busy(Append(Front(frames), fr))
    BY <1>1, <1>2, <1>3, <2>1, Pushed
  <2> QED
    BY <1>1, <1>4, <2>2, StackIs
<1>6. FilesOK' /\ WindowOK'
  BY <1>1, <1>2 DEF FilesOK, WindowOK
<1> QED
  BY <1>5, <1>6 DEF IInv

LEMMA NoInv == IInv /\ No => IInv'
<1> SUFFICES ASSUME IInv, No PROVE IInv'
  OBVIOUS
<1>1. /\ frames # <<>> /\ Top.at \in {"confirm", "saveAs"}
      /\ Continue(Top.then, Front(frames), enabled)
      /\ UNCHANGED <<modified, disk, usable, edits, acts, failed>>
  BY DEF No, At
<1>2. /\ FilesOK /\ WindowOK /\ Front(frames) \in Seq(FrameSet) /\ Top.then \in Goal
      /\ acts' \in Nat /\ acts' = acts /\ enabled \in BOOLEAN
      /\ Posted(pending + WillPost(Top), Front(frames), acts) /\ Will(Top.then) = WillPost(Top)
      /\ Swapped(attached, Front(frames)) /\ (enabled \/ Busy(Front(frames)))
  BY <1>1, TopGoes
<1>3. Posted(pending + Will(Top.then), Front(frames), acts')
  BY <1>2
<1>4. WindowOK' /\ StackOK'
  BY <1>1, <1>2, <1>3, ContinueStep
<1>5. FilesOK'
  BY <1>1, <1>2 DEF FilesOK
<1> QED
  BY <1>4, <1>5 DEF IInv

(* A dialog closes, a load may be posted.                                  *)
LEMMA CancelInv == IInv /\ (Cancel \/ \E f \in File : Choose(f)) => IInv'
<1> SUFFICES ASSUME IInv, Cancel \/ \E f \in File : Choose(f) PROVE IInv'
  OBVIOUS
<1>1. /\ frames # <<>> /\ Top.at \in {"confirm", "choose"} /\ frames' = Front(frames)
      /\ UNCHANGED <<doc, modified, disk, enabled, attached, usable, closed, edits, acts, failed, mixed>>
      /\ \/ UNCHANGED <<currentFile, pending>>
         \/ Top.at = "choose" /\ currentFile' \in File /\ pending' = pending + 1
  BY DEF Cancel, Choose, At, LoadFile
<1>2. /\ FilesOK /\ WindowOK /\ Front(frames) \in Seq(FrameSet) /\ Top \in FrameSet
      /\ acts \in Nat /\ pending \in Nat
      /\ Posted(pending + WillPost(Top), Front(frames), acts)
      /\ Swapped(attached, Front(frames)) /\ (enabled \/ Busy(Front(frames)))
  BY <1>1, TopGoes
<1>3. FilesOK' /\ WindowOK'
  BY <1>1, <1>2 DEF FilesOK, WindowOK, Name
<1>4. WillPost(Top) \in {0, 1} /\ (Top.at = "choose" => WillPost(Top) = 1)
  BY <1>2 DEF WillPost, Posting
<1>5. Posted(pending', Front(frames), acts')
  <2>1. Count(Front(frames), Posting) \in Nat
    BY <1>2, CountType
  <2> QED
    BY <1>1, <1>2, <1>4, <2>1 DEF Posted
<1>6. StackOK'
  BY <1>1, <1>2, <1>5, StackIs
<1> QED
  BY <1>3, <1>6 DEF IInv

LEMMA SaveFileInv == IInv /\ (\E f \in File : SaveFile(f)) => IInv'
<1> SUFFICES ASSUME IInv, NEW f \in File, SaveFile(f) PROVE IInv'
  OBVIOUS
<1>1. /\ frames # <<>> /\ Top.at = "saveAs" /\ currentFile' = f
      /\ BeginSave(f, Front(frames), Top.then)
      /\ UNCHANGED <<modified, disk, pending, attached, usable, closed, acts, failed>>
  BY DEF SaveFile, At
<1>2. /\ FilesOK /\ WindowOK /\ Front(frames) \in Seq(FrameSet) /\ Top.then \in Goal
      /\ acts' \in Nat /\ acts' = acts /\ pending' \in Nat /\ pending' = pending
      /\ Posted(pending + WillPost(Top), Front(frames), acts) /\ Will(Top.then) = WillPost(Top)
      /\ Swapped(attached, Front(frames)) /\ attached' = attached
  BY <1>1, TopGoes
<1>3. Posted(pending' + Will(Top.then), Front(frames), acts')
  BY <1>2
<1>4. /\ doc' \in Document /\ enabled' \in BOOLEAN /\ mixed' \in BOOLEAN
      /\ edits' \in 0 .. MaxEdits /\ StackOK'
  BY <1>1, <1>2, <1>3, BeginSaveStep
<1>5. FilesOK' /\ WindowOK'
  BY <1>1, <1>2, <1>4 DEF FilesOK, WindowOK, Name
<1> QED
  BY <1>4, <1>5 DEF IInv

(* A posted load: it begins, or asks first whether to save.                *)
LEMMA LoadInv == IInv /\ Load => IInv'
<1> SUFFICES ASSUME IInv, Load PROVE IInv'
  OBVIOUS
<1>1. FilesOK /\ WindowOK /\ StackOK
  BY DEF IInv
<1>2. /\ pending > 0 /\ pending' = pending - 1
      /\ UNCHANGED <<currentFile, modified, disk, usable, closed, edits, acts, failed>>
  BY DEF Load
<1>3. /\ pending \in Nat /\ acts \in Nat /\ pending' \in Nat /\ acts' \in Nat /\ acts' = acts
      /\ attached \in BOOLEAN /\ currentFile \in Name
      /\ frames \in Seq(FrameSet) /\ Swapped(attached, frames) /\ (enabled \/ Busy(frames))
  BY <1>1, <1>2 DEF FilesOK, WindowOK, StackOK, Waiting
<1>4. Posted(pending', frames, acts')
  <2>1. Count(frames, Posting) \in Nat
    BY <1>3, CountType
  <2>2. Posted(pending, frames, acts)
    BY <1>1 DEF StackOK
  <2> QED
    BY <1>2, <1>3, <2>1, <2>2 DEF Posted
<1>5. FilesOK'
  BY <1>1, <1>2 DEF FilesOK
<1>6. CASE currentFile \in Entry /\ modified
  <2> DEFINE goal == [do |-> "archive", file |-> currentFile]
             fr == Frame("confirm", None, None, goal)
  <2>1. Suspend(frames, fr) /\ UNCHANGED <<doc, enabled, attached, mixed>>
    BY <1>6 DEF Load
  <2>2. goal \in Goal /\ ~Posts(goal)
    BY <1>6 DEF Goal, Posts
  <2>3. fr \in FrameSet /\ fr.at = "confirm" /\ WillPost(fr) = 0
    <3> HIDE DEF goal
    <3> QED
      BY <2>2 DEF FrameSet, Frame, Posting, Dialogs, Name, WillPost
  <2> HIDE DEF fr
  <2>4. /\ pending' = pending' + WillPost(fr)
        /\ attached = IF fr.at = "load" THEN ~attached' ELSE attached'
        /\ attached' \in BOOLEAN /\ (enabled' \/ Busy(frames))
    <3> HIDE DEF goal
    <3>0. pending' \in Nat /\ attached' = attached
      BY <1>3, <2>1
    <3>3. pending' = pending' + WillPost(fr)
      BY <3>0, <2>3, PlusZero
    <3>1. attached = IF fr.at = "load" THEN ~attached' ELSE attached'
      BY <3>0, <2>3
    <3>2. attached' \in BOOLEAN /\ (enabled' \/ Busy(frames))
      BY <1>3, <2>1
    <3> QED
      BY <3>1, <3>2, <3>3
  <2>5. StackOK'
    BY <1>3, <1>4, <2>1, <2>3, <2>4, SuspendStep
  <2>6. WindowOK'
    BY <1>1, <1>2, <1>3, <2>1 DEF WindowOK
  <2> QED
    BY <1>5, <2>5, <2>6 DEF IInv
<1>7. CASE ~(currentFile \in Entry /\ modified)
  <2>1. BeginLoad(currentFile, frames)
    BY <1>7 DEF Load
  <2>2. /\ doc' \in Document /\ enabled' \in BOOLEAN /\ attached' \in BOOLEAN /\ mixed' \in BOOLEAN
        /\ StackOK'
    BY <1>1, <1>3, <1>4, <2>1, BeginLoadStep
  <2>3. WindowOK'
    BY <1>1, <1>2, <1>3, <2>2 DEF WindowOK
  <2> QED
    BY <1>5, <2>2, <2>3 DEF IInv
<1> QED
  BY <1>6, <1>7

(* A load comes to its end: whatever it has found, the views are swapped   *)
(* back and the window is enabled.                                         *)
LEMMA EndLoadInv == IInv /\ EndLoad => IInv'
<1> SUFFICES ASSUME IInv, EndLoad PROVE IInv'
  OBVIOUS
<1>1. /\ frames # <<>> /\ Top.at = "load" /\ frames' = Front(frames)
      /\ modified' = FALSE /\ failed' = FALSE /\ attached' = ~attached
      /\ enabled' = TRUE /\ usable' = TRUE
      /\ UNCHANGED <<disk, pending, closed, edits, acts, mixed>>
  BY DEF EndLoad, At
<1>2. /\ FilesOK /\ WindowOK /\ Front(frames) \in Seq(FrameSet) /\ Top \in FrameSet
      /\ acts \in Nat /\ pending \in Nat /\ attached \in BOOLEAN
      /\ Posted(pending + WillPost(Top), Front(frames), acts)
      /\ Swapped(~attached, Front(frames))
  BY <1>1, TopGoes
<1>3. Top.what \in Content /\ Top.file \in Name
  BY <1>1, <1>2 DEF FrameSet
<1>4. doc' \in Document /\ currentFile' \in Name
  <2>1. PICK success \in BOOLEAN :
          /\ success => Top.what # Unreadable
          /\ doc' \in {Empty, Top.what, Torn}
          /\ doc' = Top.what => success \/ doc' = Empty
          /\ currentFile' \in {None, Top.file, currentFile}
    BY DEF EndLoad
  <2>2. currentFile \in Name /\ None \in Name /\ Empty \in Document /\ Torn \in Document
    BY <1>2 DEF WindowOK, Name, Document
  <2>3. success => Top.what \in Document
    BY <1>3, <2>1 DEF Content
  <2> QED
    BY <1>3, <2>1, <2>2, <2>3
<1>5. Posted(pending', Front(frames), acts')
  <2>1. Count(Front(frames), Posting) \in Nat /\ WillPost(Top) \in {0, 1}
    BY <1>2, CountType DEF WillPost
  <2> QED
    BY <1>1, <1>2, <2>1 DEF Posted
<1>6. StackOK'
  <2>1. Swapped(attached', Front(frames)) /\ (enabled' \/ Busy(Front(frames)))
    BY <1>1, <1>2
  <2> QED
    BY <1>1, <1>2, <1>5, <2>1, StackIs
<1>7. FilesOK' /\ WindowOK'
  <2>1. attached' \in BOOLEAN
    BY <1>1, <1>2
  <2> QED
    BY <1>1, <1>2, <1>4, <2>1 DEF FilesOK, WindowOK
<1> QED
  BY <1>6, <1>7 DEF IInv

(* A save comes to its end, and what it has been confirmed for goes on.    *)
LEMMA EndSaveInv == IInv /\ EndSave => IInv'
<1> SUFFICES ASSUME IInv, EndSave PROVE IInv'
  OBVIOUS
<1>1. /\ frames # <<>> /\ Top.at = "save"
      /\ Continue(Top.then, Front(frames), TRUE)
      /\ UNCHANGED <<usable, edits, acts>>
  BY DEF EndSave, At
<1>2. /\ FilesOK /\ WindowOK /\ Front(frames) \in Seq(FrameSet) /\ Top \in FrameSet
      /\ Top.then \in Goal /\ acts' \in Nat /\ acts' = acts
      /\ Posted(pending + WillPost(Top), Front(frames), acts) /\ Will(Top.then) = WillPost(Top)
      /\ Swapped(attached, Front(frames))
  BY <1>1, TopGoes
<1>3. Top.file \in File
  BY <1>1, <1>2 DEF FrameSet
<1>4. Posted(pending + Will(Top.then), Front(frames), acts')
  BY <1>2
<1>5. WindowOK' /\ StackOK'
  <2>1. TRUE \in BOOLEAN /\ (TRUE \/ Busy(Front(frames)))
    OBVIOUS
  <2> QED
    BY <1>1, <1>2, <1>4, <2>1, ContinueStep
<1>6. modified' \in BOOLEAN /\ failed' \in BOOLEAN
  BY <1>2 DEF EndSave, FilesOK
<1>7. disk' \in [File -> Content]
  <2>1. \E c \in Content : disk' = disk \/ disk' = [disk EXCEPT ![Top.file] = c]
    BY <1>2 DEF EndSave, WindowOK, Content, Document
  <2> QED
    BY <1>2, <2>1 DEF FilesOK
<1>8. FilesOK'
  BY <1>1, <1>2, <1>6, <1>7 DEF FilesOK
<1> QED
  BY <1>5, <1>8 DEF IInv

-----------------------------------------------------------------------------
LEMMA StepInv == IInv /\ [Next]_vars => IInv'
<1> SUFFICES ASSUME IInv, [Next]_vars PROVE IInv'
  OBVIOUS
<1>1. CASE Edit \/ Reload \/ \E f \in File : Drop(f)
  BY <1>1, EditInv
<1>2. CASE Save \/ SaveAs
  BY <1>2, SaveInv
<1>3. CASE Close \/ \E goal \in {g \in Goal : g.do \in {"choose", "open", "archive"}} : Open(goal)
  BY <1>3, ConfirmInv
<1>4. CASE Cancel \/ \E f \in File : Choose(f)
  BY <1>4, CancelInv
<1>5. CASE \E f \in File : SaveFile(f)
  BY <1>5, SaveFileInv
<1>6. CASE Yes
  BY <1>6, YesInv
<1>7. CASE No
  BY <1>7, NoInv
<1>8. CASE Load
  BY <1>8, LoadInv
<1>9. CASE EndLoad
  BY <1>9, EndLoadInv
<1>10. CASE EndSave
  BY <1>10, EndSaveInv
<1>11. CASE UNCHANGED vars
  BY <1>11 DEF vars, IInv, FilesOK, WindowOK, StackOK, Swapped, Waiting, Posted, Count, Busy
<1> QED
  BY <1>1, <1>2, <1>3, <1>4, <1>5, <1>6, <1>7, <1>8, <1>9, <1>10, <1>11 DEF Next, Program

LEMMA Invariance == Spec => []IInv
BY InitInv, StepInv, PTL DEF Spec

LEMMA Typed == IInv => TypeOK
<1> SUFFICES ASSUME IInv PROVE TypeOK
  OBVIOUS
<1>1. FilesOK /\ WindowOK /\ StackOK
  BY DEF IInv
<1>2. frames \in Seq(FrameSet) /\ pending \in Nat /\ acts \in Nat
  BY <1>1 DEF FilesOK, WindowOK, StackOK
<1>3. pending \in 0 .. acts
  <2>1. Count(frames, Posting) \in Nat
    BY <1>2, CountType
  <2> QED
    BY <1>1, <1>2, <2>1 DEF StackOK, Posted
<1>4. \A k \in DOMAIN frames : frames[k] \in FrameSet
  BY <1>2
<1>5. \A k \in DOMAIN frames :
        /\ frames[k].at \in Dialogs \cup {"load", "save"}
        /\ frames[k].then \in Goal
        /\ frames[k].then # Nothing => frames[k].at \in {"confirm", "saveAs", "save"}
        /\ frames[k].at = "save" => frames[k].file \in File
  BY <1>4 DEF FrameSet
<1> QED
  BY <1>1, <1>3, <1>5 DEF TypeOK, FilesOK, WindowOK, Name, Content

LEMMA AtRest == IInv => IdleIsUsable
<1> SUFFICES ASSUME IInv, frames = <<>> PROVE enabled /\ attached
  BY DEF IdleIsUsable
<1>1. Count(<<>>, Loads) = 0 /\ ~Busy(<<>>)
  BY FS_EmptySet DEF Count, Busy
<1>2. Swapped(attached, <<>>) /\ Waiting(enabled, <<>>) /\ attached \in BOOLEAN
  BY DEF IInv, StackOK, WindowOK
<1> QED
  BY <1>1, <1>2 DEF Swapped, Waiting

(* The handlers that interrupt each other, as many and as deeply as there  *)
(* are, leave a stack of the kind TypeOK describes: a save has a file of   *)
(* its own, and no more loads wait than the user has asked for.            *)
THEOREM SessionTypeCorrect == Spec => []TypeOK
BY Invariance, Typed, PTL

(* However loads and saves are nested, and however they end: when all of   *)
(* them have returned, the window gets input and its views show the model  *)
(* (onLoadComplete, onSaveComplete, swapModels).                           *)
THEOREM WindowAtRestUsable == Spec => []IdleIsUsable
BY Invariance, AtRest, PTL

-----------------------------------------------------------------------------
(* The document that is not marked as modified.  While handlers interrupt  *)
(* each other little can be said of it; the invariant says how the program *)
(* comes back from that: a load that begins on its own ends on its own,    *)
(* unless another one is mixed in.                                         *)

IsBusy(fr) == fr.at \in {"load", "save"}

BusyFrames(frs) == {fr \in FrameSet : IsBusy(fr) /\ \E k \in DOMAIN frs : frs[k] = fr}

(* No two loads or saves are under way at a time.                          *)
Lone(frs) == \A j, k \in DOMAIN frs : IsBusy(frs[j]) /\ IsBusy(frs[k]) => j = k

(* A document that is being loaded is never saved as one.                  *)
DiskOK(held) == \A f \in File : held[f] # Partial
LoadsOK(frs) == \A fr \in BusyFrames(frs) : fr.at = "load" => fr.what # Partial
PartialOK(document, frs) == document = Partial => \E fr \in BusyFrames(frs) : fr.at = "load"

(* A load or save nothing has come in between.                             *)
Alone(fr) ==
  /\ (pending = 0 /\ currentFile \in File /\ fr.file \notin Entry) => currentFile = fr.file
  /\ fr.at = "load" => doc = Partial /\ fr.what = Holds(fr.file)
  /\ fr.at = "save" => doc = fr.what

Unmixed == ~mixed => Lone(frames) /\ \A fr \in BusyFrames(frames) : Alone(fr) /\ ~enabled

Clean == (BusyFrames(frames) = {} /\ pending = 0 /\ ~modified /\ ~failed /\ ~mixed /\ currentFile \in File)
           => doc = disk[currentFile]

SInv == DiskOK(disk) /\ LoadsOK(frames) /\ PartialOK(doc, frames) /\ Unmixed /\ Clean

-----------------------------------------------------------------------------
(* The stack of handlers.                                                  *)

LEMMA FramesAppend ==
  ASSUME NEW s \in Seq(FrameSet), NEW fr \in FrameSet
  PROVE  /\ Append(s, fr) \in Seq(FrameSet)
         /\ IsBusy(fr) => BusyFrames(Append(s, fr)) = BusyFrames(s) \cup {fr}
         /\ ~IsBusy(fr) => BusyFrames(Append(s, fr)) = BusyFrames(s)
         /\ Lone(Append(s, fr)) <=> Lone(s) /\ (IsBusy(fr) => BusyFrames(s) = {})
<1> DEFINE t == Append(s, fr)
<1>1. DOMAIN s = 1 .. Len(s) /\ Len(s) \in Nat /\ DOMAIN t = 1 .. (Len(s) + 1)
  OBVIOUS
<1>2. t \in Seq(FrameSet) /\ (\A k \in 1 .. Len(s) : t[k] = s[k]) /\ t[Len(s) + 1] = fr
  BY AppendProperties
<1>3. \A k \in 1 .. Len(s) : s[k] \in FrameSet
  BY <1>1
<1>4. DOMAIN t = DOMAIN s \cup {Len(s) + 1} /\ Len(s) + 1 \notin DOMAIN s
  BY <1>1
<1> HIDE DEF t
<1>5. IsBusy(fr) => BusyFrames(t) = BusyFrames(s) \cup {fr}
  BY <1>1, <1>2, <1>4 DEF BusyFrames
<1>6. ~IsBusy(fr) => BusyFrames(t) = BusyFrames(s)
  BY <1>1, <1>2, <1>4 DEF BusyFrames
<1>7. BusyFrames(s) = {} <=> \A k \in DOMAIN s : ~IsBusy(s[k])
  BY <1>1, <1>3 DEF BusyFrames
<1>8. Lone(t) <=> Lone(s) /\ (IsBusy(fr) => BusyFrames(s) = {})
  BY <1>1, <1>2, <1>4, <1>7 DEF Lone
<1> QED
  BY <1>2, <1>5, <1>6, <1>8 DEF t

LEMMA BusyIs == ASSUME NEW s \in Seq(FrameSet) PROVE Busy(s) <=> BusyFrames(s) # {}
<1>1. \A k \in DOMAIN s : s[k] \in FrameSet
  OBVIOUS
<1> QED
  BY <1>1 DEF Busy, BusyFrames, IsBusy

LEMMA FramesTop ==
  ASSUME IInv, frames # <<>>
  PROVE  /\ frames \in Seq(FrameSet) /\ Front(frames) \in Seq(FrameSet) /\ Top \in FrameSet
         /\ IsBusy(Top) => BusyFrames(frames) = BusyFrames(Front(frames)) \cup {Top}
         /\ ~IsBusy(Top) => BusyFrames(frames) = BusyFrames(Front(frames))
         /\ Lone(frames) <=> Lone(Front(frames)) /\ (IsBusy(Top) => BusyFrames(Front(frames)) = {})
<1>1. frames \in Seq(FrameSet)
  BY DEF IInv, StackOK
<1>2. Front(frames) \in Seq(FrameSet) /\ Top \in FrameSet /\ frames = Append(Front(frames), Top)
  BY <1>1, FrontLast DEF Top
<1> DEFINE base == Front(frames)
<1>3. /\ IsBusy(Top) => BusyFrames(Append(base, Top)) = BusyFrames(base) \cup {Top}
      /\ ~IsBusy(Top) => BusyFrames(Append(base, Top)) = BusyFrames(base)
      /\ Lone(Append(base, Top)) <=> Lone(base) /\ (IsBusy(Top) => BusyFrames(base) = {})
  BY <1>2, FramesAppend
<1> QED
  BY <1>1, <1>2, <1>3

(* The invariant of the next state, from what its parts are there.         *)
LEMMA StateIs ==
  ASSUME NEW s, frames' = s, DiskOK(disk'), LoadsOK(s), PartialOK(doc', s),
         ~mixed' => Lone(s) /\ \A fr \in BusyFrames(s) : Alone(fr)' /\ ~enabled',
         (BusyFrames(s) = {} /\ pending' = 0 /\ ~modified' /\ ~failed' /\ ~mixed' /\ currentFile' \in File)
           => doc' = disk'[currentFile']
  PROVE  SInv'
BY DEF SInv, DiskOK, LoadsOK, PartialOK, Unmixed, Clean, BusyFrames, Lone, IsBusy

-----------------------------------------------------------------------------
(* What the handlers have in common.                                       *)

(* Dialogs come and go, loads are posted.                                  *)
LEMMA QuietStep ==
  ASSUME SInv, NEW s, frames' = s, BusyFrames(s) = BusyFrames(frames), Lone(s) <=> Lone(frames),
         UNCHANGED <<disk, doc, mixed, modified, failed, enabled>>,
         UNCHANGED <<currentFile, pending>> \/ pending' # 0
  PROVE  SInv'
<1>1. DiskOK(disk') /\ LoadsOK(s) /\ PartialOK(doc', s)
  BY DEF SInv, LoadsOK, PartialOK
<1>2. ASSUME ~mixed' PROVE Lone(s) /\ \A fr \in BusyFrames(s) : Alone(fr)' /\ ~enabled'
  BY <1>2 DEF SInv, Unmixed, Alone, Holds
<1>3. (BusyFrames(s) = {} /\ pending' = 0 /\ ~modified' /\ ~failed' /\ ~mixed' /\ currentFile' \in File)
           => doc' = disk'[currentFile']
  BY DEF SInv, Clean
<1> QED
  BY <1>1, <1>2, <1>3, StateIs

LEMMA BeginLoadSaved ==
  ASSUME FilesOK, NEW f \in Name, NEW base \in Seq(FrameSet), BeginLoad(f, base),
         DiskOK(disk), DiskOK(disk'), LoadsOK(base), f \in Entry \/ disk' = disk,
         (pending' = 0 /\ currentFile' \in File /\ f \notin Entry) => currentFile' = f
  PROVE  SInv'
<1>0. PICK c \in Content : c = Holds(f)
  BY HoldsContent
<1> DEFINE fr == Frame("load", f, c, Nothing)
           s == Append(base, fr)
<1>1. frames' = s /\ ~enabled' /\ doc' = Partial /\ mixed' = Busy(base)
  BY <1>0 DEF BeginLoad, Suspend
<1>2. Nothing \in Goal
  BY DEF Goal, Nothing
<1>3. fr \in FrameSet /\ fr.at = "load" /\ fr.file = f /\ fr.what = c /\ IsBusy(fr)
  BY <1>2 DEF FrameSet, Frame, Nothing, IsBusy
<1>4. c # Partial
  BY <1>0, PartialAssumption DEF DiskOK, Holds, Name, PartialAssumption
<1>5. Holds(f)' = c
  BY <1>0, PathsAssumption DEF PathsAssumption, Holds
<1> HIDE DEF fr
<1>6. BusyFrames(s) = BusyFrames(base) \cup {fr} /\ (Lone(s) <=> Lone(base) /\ BusyFrames(base) = {})
  BY <1>3, FramesAppend
<1> HIDE DEF s
<1>7. LoadsOK(s) /\ PartialOK(doc', s)
  BY <1>3, <1>4, <1>6 DEF LoadsOK, PartialOK
<1>8. ASSUME ~mixed' PROVE Lone(s) /\ \A x \in BusyFrames(s) : Alone(x)' /\ ~enabled'
  <2>1. BusyFrames(base) = {}
    BY <1>1, <1>8, BusyIs
  <2>2. Lone(base)
    <3>1. \A k \in DOMAIN base : base[k] \in FrameSet
      OBVIOUS
    <3> QED
      BY <2>1, <3>1 DEF Lone, BusyFrames
  <2>3. Alone(fr)'
    BY <1>1, <1>3, <1>5 DEF Alone
  <2> QED
    BY <1>1, <1>6, <2>1, <2>2, <2>3
<1> QED
  BY <1>1, <1>6, <1>7, <1>8, StateIs

LEMMA BeginSaveSaved ==
  ASSUME IInv, SInv, NEW f \in File, NEW base \in Seq(FrameSet), NEW then \in Goal,
         BeginSave(f, base, then), BusyFrames(base) = BusyFrames(frames),
         currentFile' = f, UNCHANGED disk
  PROVE  SInv'
<1>0. PICK d : d = doc'
  OBVIOUS
<1> DEFINE fr == Frame("save", f, d, then)
           s == Append(base, fr)
<1>1. frames' = s /\ ~enabled' /\ mixed' = (mixed \/ Busy(base))
  BY <1>0 DEF BeginSave, Suspend
<1>2. d \in Document /\ (d = Partial => doc = Partial)
  <2>1. doc \in Document /\ edits \in Nat
    BY DEF IInv, FilesOK, WindowOK
  <2>2. d = doc \/ d \in 1 .. MaxEdits
    <3>1. doc' = doc \/ (edits < MaxEdits /\ doc' = edits + 1)
      BY DEF BeginSave
    <3>2. edits < MaxEdits => edits + 1 \in 1 .. MaxEdits
      BY <2>1, BoundAssumption DEF BoundAssumption
    <3> QED
      BY <1>0, <3>1, <3>2
  <2> QED
    BY <2>1, <2>2, PartialAssumption DEF Document, PartialAssumption
<1>3. fr \in FrameSet /\ fr.at = "save" /\ fr.file = f /\ fr.what = d /\ IsBusy(fr)
  BY <1>2 DEF FrameSet, Frame, IsBusy, Name, Content
<1> HIDE DEF fr
<1>4. BusyFrames(s) = BusyFrames(base) \cup {fr} /\ (Lone(s) <=> Lone(base) /\ BusyFrames(base) = {})
  BY <1>3, FramesAppend
<1> HIDE DEF s
<1>5. DiskOK(disk') /\ LoadsOK(s) /\ PartialOK(doc', s)
  BY <1>0, <1>2, <1>3, <1>4 DEF SInv, DiskOK, LoadsOK, PartialOK
<1>6. ASSUME ~mixed' PROVE Lone(s) /\ \A x \in BusyFrames(s) : Alone(x)' /\ ~enabled'
  <2>1. BusyFrames(base) = {}
    BY <1>1, <1>6, BusyIs
  <2>2. Lone(base)
    <3>1. \A k \in DOMAIN base : base[k] \in FrameSet
      OBVIOUS
    <3> QED
      BY <2>1, <3>1 DEF Lone, BusyFrames
  <2>3. Alone(fr)'
    BY <1>0, <1>3 DEF Alone
  <2> QED
    BY <1>1, <1>4, <2>1, <2>2, <2>3
<1> QED
  BY <1>1, <1>4, <1>5, <1>6, StateIs

(* saveConfirm() returns true, above the handlers of base.                 *)
LEMMA ContinueSaved ==
  ASSUME FilesOK, WindowOK, DiskOK(disk), NEW goal \in Goal, NEW base \in Seq(FrameSet), NEW isEnabled,
         Continue(goal, base, isEnabled),
         DiskOK(disk'), LoadsOK(base), PartialOK(doc, base),
         ~mixed => /\ Lone(base)
                   /\ BusyFrames(base) # {} => disk' = disk /\ ~isEnabled
                   /\ \A fr \in BusyFrames(base) : Alone(fr),
         (BusyFrames(base) = {} /\ pending = 0 /\ ~modified' /\ ~failed' /\ ~mixed /\ currentFile \in File)
           => doc = disk'[currentFile]
  PROVE  SInv'
<1>1. CASE goal.do = "archive"
  <2>1. BeginLoad(goal.file, base) /\ goal.file \in Entry
    BY <1>1 DEF Continue, Goal
  <2>2. goal.file \in Name
    BY <2>1 DEF Name
  <2> QED
    BY <2>1, <2>2, BeginLoadSaved
<1>2. CASE goal.do # "archive"
  <2> DEFINE fr == Frame("choose", None, None, Nothing)
  <2>1. fr \in FrameSet /\ ~IsBusy(fr)
    BY DEF FrameSet, Frame, IsBusy, Nothing, Goal, Dialogs, Name
  <2>2. /\ UNCHANGED <<doc, mixed>> /\ enabled' = isEnabled
        /\ UNCHANGED <<currentFile, pending>> \/ pending' = pending + 1
        /\ frames' \in {base, Append(base, fr)}
    BY <1>2 DEF Continue, Suspend, LoadFile
  <2> HIDE DEF fr
  <2>3. UNCHANGED <<currentFile, pending>> \/ pending' # 0
    BY <2>2 DEF WindowOK
  <2>8. PICK s \in {base, Append(base, fr)} : frames' = s
    BY <2>2
  <2>4. BusyFrames(s) = BusyFrames(base) /\ (Lone(s) <=> Lone(base))
    BY <2>1, FramesAppend
  <2>5. LoadsOK(s) /\ PartialOK(doc', s)
    BY <2>2, <2>4 DEF LoadsOK, PartialOK
  <2>6. ~mixed' => Lone(s) /\ \A x \in BusyFrames(s) : Alone(x)' /\ ~enabled'
    <3> SUFFICES ASSUME ~mixed' PROVE Lone(s) /\ \A x \in BusyFrames(s) : Alone(x)' /\ ~enabled'
      OBVIOUS
    <3>1. ~mixed /\ Lone(s)
      BY <2>2, <2>4
    <3>2. ASSUME NEW x \in BusyFrames(s) PROVE Alone(x)' /\ ~enabled'
      <4>1. Alone(x) /\ disk' = disk /\ ~isEnabled
        BY <2>4, <3>1, <3>2
      <4> QED
        BY <2>2, <2>3, <4>1 DEF Alone, Holds
    <3> QED
      BY <3>1, <3>2
  <2>7. (BusyFrames(s) = {} /\ pending' = 0 /\ ~modified' /\ ~failed' /\ ~mixed' /\ currentFile' \in File)
           => doc' = disk'[currentFile']
    BY <2>2, <2>3, <2>4
  <2> QED
    BY <2>5, <2>6, <2>7, <2>8, StateIs
<1> QED
  BY <1>1, <1>2

-----------------------------------------------------------------------------
(* The actions.                                                            *)

LEMMA InitSaved == Init => SInv
<1> SUFFICES ASSUME Init PROVE SInv
  OBVIOUS
<1>1. BusyFrames(frames) = {} /\ Lone(frames)
  BY DEF Init, BusyFrames, Lone
<1>2. DiskOK(disk) /\ doc # Partial /\ currentFile \notin File
  BY PartialAssumption, NamesAssumption DEF Init, DiskOK, PartialAssumption, NamesAssumption
<1> QED
  BY <1>1, <1>2 DEF SInv, LoadsOK, PartialOK, Unmixed, Clean

(* The window is disabled while a load or save is under way alone.         *)
LEMMA EditSaved == IInv /\ SInv /\ Edit => SInv'
<1> SUFFICES ASSUME IInv, SInv, Edit PROVE SInv'
  OBVIOUS
<1>1. /\ enabled /\ doc' = edits + 1 /\ edits < MaxEdits /\ modified'
      /\ UNCHANGED <<disk, pending, frames, enabled, mixed>>
  BY DEF Edit, Input
<1>2. doc' # Partial
  <2>1. edits \in Nat
    BY DEF IInv, FilesOK
  <2>2. doc' \in 1 .. MaxEdits
    BY <1>1, <2>1, BoundAssumption DEF BoundAssumption
  <2> QED
    BY <2>2, PartialAssumption DEF PartialAssumption
<1>3. ASSUME ~mixed' PROVE Lone(frames) /\ BusyFrames(frames) = {}
  BY <1>1, <1>3 DEF SInv, Unmixed
<1>4. DiskOK(disk') /\ LoadsOK(frames) /\ PartialOK(doc', frames)
  BY <1>1, <1>2 DEF SInv, PartialOK
<1>5. frames' = frames
  BY <1>1
<1> QED
  BY <1>1, <1>3, <1>4, <1>5, StateIs

(* A dialog opens, or what it has led to goes on.                          *)
LEMMA AskSaved ==
  ASSUME IInv, SInv, NEW fr \in FrameSet, ~IsBusy(fr), Suspend(frames, fr),
         UNCHANGED <<disk, doc, mixed, modified, failed, enabled, currentFile>>,
         pending' = pending \/ currentFile \notin File
  PROVE  SInv'
<1> DEFINE s == Append(frames, fr)
<1>1. frames \in Seq(FrameSet)
  BY DEF IInv, StackOK
<1>2. BusyFrames(s) = BusyFrames(frames) /\ (Lone(s) <=> Lone(frames))
  BY <1>1, FramesAppend
<1>3. frames' = s
  BY DEF Suspend
<1> HIDE DEF s
<1>4. DiskOK(disk') /\ LoadsOK(s) /\ PartialOK(doc', s)
  BY <1>2 DEF SInv, LoadsOK, PartialOK
<1>5. ASSUME ~mixed' PROVE Lone(s) /\ \A x \in BusyFrames(s) : Alone(x)' /\ ~enabled'
  BY <1>2, <1>5 DEF SInv, Unmixed, Alone, Holds
<1>6. (BusyFrames(s) = {} /\ pending' = 0 /\ ~modified' /\ ~failed' /\ ~mixed' /\ currentFile' \in File)
        => doc' = disk'[currentFile']
  BY <1>2 DEF SInv, Clean
<1> QED
  BY <1>3, <1>4, <1>5, <1>6, StateIs

LEMMA GoesOnSaved ==
  ASSUME IInv, SInv, NEW goal \in Goal, NEW base \in Seq(FrameSet), Continue(goal, base, enabled),
         BusyFrames(base) = BusyFrames(frames), Lone(base) <=> Lone(frames),
         UNCHANGED <<disk, modified, failed>>
  PROVE  SInv'
<1>1. FilesOK /\ WindowOK /\ DiskOK(disk) /\ DiskOK(disk') /\ LoadsOK(base) /\ PartialOK(doc, base)
  BY DEF IInv, SInv, LoadsOK, PartialOK
<1>2. ~mixed => /\ Lone(base)
                /\ BusyFrames(base) # {} => disk' = disk /\ ~enabled
                /\ \A fr \in BusyFrames(base) : Alone(fr)
  BY DEF SInv, Unmixed
<1>3. (BusyFrames(base) = {} /\ pending = 0 /\ ~modified' /\ ~failed' /\ ~mixed /\ currentFile \in File)
        => doc = disk'[currentFile]
  BY DEF SInv, Clean
<1> QED
  BY <1>1, <1>2, <1>3, ContinueSaved

LEMMA SaveConfirmSaved ==
  ASSUME IInv, SInv, NEW goal \in Goal, SaveConfirm(goal), UNCHANGED <<disk, modified, failed>>
  PROVE  SInv'
<1>1. CASE modified
  <2> DEFINE fr == Frame("confirm", None, None, goal)
  <2>1. fr \in FrameSet /\ ~IsBusy(fr)
    BY DEF FrameSet, Frame, IsBusy, Dialogs, Name
  <2>2. Suspend(frames, fr) /\ UNCHANGED <<currentFile, pending, doc, enabled, mixed>>
    BY <1>1 DEF SaveConfirm
  <2> HIDE DEF fr
  <2> QED
    BY <2>1, <2>2, AskSaved
<1>2. CASE ~modified
  <2>1. Continue(goal, frames, enabled) /\ frames \in Seq(FrameSet)
    BY <1>2 DEF SaveConfirm, IInv, StackOK
  <2> QED
    BY <2>1, GoesOnSaved
<1> QED
  BY <1>1, <1>2

LEMMA ConfirmSaved ==
  IInv /\ SInv /\ (Close \/ \E goal \in {g \in Goal : g.do \in {"choose", "open", "archive"}} : Open(goal)) => SInv'
<1> SUFFICES ASSUME IInv, SInv, NEW goal \in Goal, SaveConfirm(goal), UNCHANGED <<modified, disk, failed>>
             PROVE  SInv'
  BY DEF Close, Open, Goal
<1> QED
  BY SaveConfirmSaved

LEMMA PostSaved == IInv /\ SInv /\ (Reload \/ \E f \in File : Drop(f)) => SInv'
<1> SUFFICES ASSUME IInv, SInv, Reload \/ \E f \in File : Drop(f) PROVE SInv'
  OBVIOUS
<1>1. pending' = pending + 1 /\ UNCHANGED <<frames, disk, doc, mixed, modified, failed, enabled>>
  BY DEF Reload, Drop, LoadFile
<1>2. pending' # 0
  BY <1>1 DEF IInv, WindowOK
<1> QED
  BY <1>1, <1>2, QuietStep

LEMMA SaveSaved == IInv /\ SInv /\ (Save \/ SaveAs) => SInv'
<1> SUFFICES ASSUME IInv, SInv, Save \/ SaveAs PROVE SInv'
  OBVIOUS
<1>1. /\ UNCHANGED <<currentFile, modified, disk, pending, failed>>
      /\ SaveAsDlg \/ (currentFile \in File /\ BeginSave(currentFile, frames, Nothing))
  BY DEF Save, SaveAs
<1>2. Nothing \in Goal /\ frames \in Seq(FrameSet)
  BY DEF Nothing, Goal, IInv, StackOK
<1>3. CASE SaveAsDlg
  <2> DEFINE fr == Frame("saveAs", None, None, Nothing)
  <2>1. fr \in FrameSet /\ ~IsBusy(fr)
    BY <1>2 DEF FrameSet, Frame, IsBusy, Dialogs, Name
  <2>2. Suspend(frames, fr) /\ UNCHANGED <<doc, enabled, mixed>>
    BY <1>3 DEF SaveAsDlg
  <2> HIDE DEF fr
  <2> QED
    BY <1>1, <2>1, <2>2, AskSaved
<1>4. CASE currentFile \in File /\ BeginSave(currentFile, frames, Nothing)
  BY <1>1, <1>2, <1>4, BeginSaveSaved
<1> QED
  BY <1>1, <1>3, <1>4

LEMMA YesSaved == IInv /\ SInv /\ Yes => SInv'
<1> SUFFICES ASSUME IInv, SInv, Yes PROVE SInv'
  OBVIOUS
<1> DEFINE fr == [Top EXCEPT !.at = "saveAs"]
           s == Append(Front(frames), fr)
<1>1. /\ frames # <<>> /\ Top.at = "confirm"
      /\ frames' = [frames EXCEPT ![Len(frames)].at = "saveAs"]
      /\ UNCHANGED <<currentFile, doc, modified, disk, pending, enabled, failed, mixed>>
  BY DEF Yes, At
<1>2. /\ frames \in Seq(FrameSet) /\ Front(frames) \in Seq(FrameSet) /\ Top \in FrameSet
      /\ ~IsBusy(Top) => BusyFrames(frames) = BusyFrames(Front(frames))
      /\ Lone(frames) <=> Lone(Front(frames)) /\ (IsBusy(Top) => BusyFrames(Front(frames)) = {})
  BY <1>1, FramesTop
<1>3. fr \in FrameSet /\ ~IsBusy(fr) /\ ~IsBusy(Top)
  BY <1>1, <1>2 DEF FrameSet, Dialogs, IsBusy
<1>4. frames' = [frames EXCEPT ![Len(frames)] = fr]
  BY <1>1, <1>2 DEF Top, Last
<1> HIDE DEF fr
<1>5. frames' = s
  BY <1>1, <1>2, <1>3, <1>4, LastReplaced
<1>6. BusyFrames(s) = BusyFrames(frames) /\ (Lone(s) <=> Lone(frames))
  BY <1>2, <1>3, FramesAppend
<1> HIDE DEF s
<1> QED
  BY <1>1, <1>5, <1>6, QuietStep

LEMMA NoSaved == IInv /\ SInv /\ No => SInv'
<1> SUFFICES ASSUME IInv, SInv, No PROVE SInv'
  OBVIOUS
<1>1. /\ frames # <<>> /\ Top.at \in {"confirm", "saveAs"}
      /\ Continue(Top.then, Front(frames), enabled) /\ UNCHANGED <<modified, disk, failed>>
  BY DEF No, At
<1>2. Front(frames) \in Seq(FrameSet) /\ Top.then \in Goal
  BY <1>1, TopGoes
<1>3. BusyFrames(Front(frames)) = BusyFrames(frames) /\ (Lone(Front(frames)) <=> Lone(frames))
  BY <1>1, FramesTop DEF IsBusy
<1> QED
  BY <1>1, <1>2, <1>3, GoesOnSaved

LEMMA CancelSaved == IInv /\ SInv /\ (Cancel \/ \E f \in File : Choose(f)) => SInv'
<1> SUFFICES ASSUME IInv, SInv, Cancel \/ \E f \in File : Choose(f) PROVE SInv'
  OBVIOUS
<1>1. /\ frames # <<>> /\ Top.at \in {"confirm", "choose"} /\ frames' = Front(frames)
      /\ UNCHANGED <<doc, modified, disk, enabled, failed, mixed>>
      /\ UNCHANGED <<currentFile, pending>> \/ pending' = pending + 1
  BY DEF Cancel, Choose, At, LoadFile
<1>2. UNCHANGED <<currentFile, pending>> \/ pending' # 0
  BY <1>1 DEF IInv, WindowOK
<1>3. BusyFrames(Front(frames)) = BusyFrames(frames) /\ (Lone(Front(frames)) <=> Lone(frames))
  BY <1>1, FramesTop DEF IsBusy
<1> QED
  BY <1>1, <1>2, <1>3, QuietStep

LEMMA SaveFileSaved == IInv /\ SInv /\ (\E f \in File : SaveFile(f)) => SInv'
<1> SUFFICES ASSUME IInv, SInv, NEW f \in File, SaveFile(f) PROVE SInv'
  OBVIOUS
<1>1. /\ frames # <<>> /\ Top.at = "saveAs" /\ currentFile' = f
      /\ BeginSave(f, Front(frames), Top.then) /\ UNCHANGED disk
  BY DEF SaveFile, At
<1>2. Front(frames) \in Seq(FrameSet) /\ Top.then \in Goal
  BY <1>1, TopGoes
<1>3. BusyFrames(Front(frames)) = BusyFrames(frames)
  BY <1>1, FramesTop DEF IsBusy
<1> QED
  BY <1>1, <1>2, <1>3, BeginSaveSaved

LEMMA LoadSaved == IInv /\ SInv /\ Load => SInv'
<1> SUFFICES ASSUME IInv, SInv, Load PROVE SInv'
  OBVIOUS
<1>1. UNCHANGED <<currentFile, modified, disk, failed>>
  BY DEF Load
<1>2. CASE currentFile \in Entry /\ modified
  <2> DEFINE goal == [do |-> "archive", file |-> currentFile]
             fr == Frame("confirm", None, None, goal)
  <2>1. Suspend(frames, fr) /\ UNCHANGED <<doc, enabled, mixed>>
    BY <1>2 DEF Load
  <2>2. goal \in Goal
    BY <1>2 DEF Goal
  <2>3. fr \in FrameSet /\ ~IsBusy(fr)
    <3> HIDE DEF goal
    <3> QED
      BY <2>2 DEF FrameSet, Frame, IsBusy, Dialogs, Name
  <2> HIDE DEF fr
  <2>4. currentFile \notin File
    BY <1>2, PathsAssumption DEF PathsAssumption
  <2> QED
    BY <1>1, <2>1, <2>3, <2>4, AskSaved
<1>3. CASE ~(currentFile \in Entry /\ modified)
  <2>1. BeginLoad(currentFile, frames)
    BY <1>3 DEF Load
  <2>2. FilesOK /\ currentFile \in Name /\ frames \in Seq(FrameSet) /\ DiskOK(disk) /\ LoadsOK(frames)
    BY DEF IInv, WindowOK, StackOK, SInv
  <2>3. DiskOK(disk')
    BY <1>1, <2>2
  <2> QED
    BY <1>1, <2>1, <2>2, <2>3, BeginLoadSaved
<1> QED
  BY <1>2, <1>3

(* A load nothing has come in between leaves what the file holds.          *)
LEMMA EndLoadSaved == IInv /\ SInv /\ EndLoad => SInv'
<1> SUFFICES ASSUME IInv, SInv, EndLoad PROVE SInv'
  OBVIOUS
<1> DEFINE base == Front(frames)
           alone == doc = Partial /\ Holds(Top.file) = Top.what
<1>1. frames # <<>> /\ Top.at = "load" /\ frames' = base /\ UNCHANGED <<disk, pending, mixed>>
  BY DEF EndLoad, At
<1>2. PICK success \in BOOLEAN :
        /\ doc' = IF ~success THEN Empty ELSE IF alone THEN Top.what ELSE Torn
        /\ currentFile' = IF ~success THEN None ELSE IF Top.file \in Entry THEN Top.file ELSE currentFile
  BY DEF EndLoad
<1>3. /\ Top \in FrameSet /\ IsBusy(Top)
      /\ BusyFrames(frames) = BusyFrames(base) \cup {Top}
      /\ Lone(frames) <=> Lone(base) /\ BusyFrames(base) = {}
  BY <1>1, FramesTop DEF IsBusy
<1>4. Top \in BusyFrames(frames)
  BY <1>3
<1>5. doc' # Partial
  <2>1. Top.what # Partial
    BY <1>1, <1>4 DEF SInv, LoadsOK
  <2> QED
    BY <1>2, <2>1, PartialAssumption DEF PartialAssumption
<1>6. DiskOK(disk') /\ LoadsOK(base) /\ PartialOK(doc', base)
  BY <1>1, <1>3, <1>5 DEF SInv, LoadsOK, PartialOK
<1>7. ASSUME ~mixed' PROVE Lone(base) /\ BusyFrames(base) = {} /\ Alone(Top)
  <2>1. ~mixed
    BY <1>1, <1>7
  <2> QED
    BY <1>3, <1>4, <2>1 DEF SInv, Unmixed
<1>8. ASSUME pending' = 0, ~mixed', currentFile' \in File PROVE doc' = disk'[currentFile']
  <2>1. success /\ Top.file \notin Entry /\ currentFile' = currentFile
    BY <1>2, <1>8, PathsAssumption, NamesAssumption DEF PathsAssumption, NamesAssumption
  <2>2. currentFile = Top.file /\ doc = Partial /\ Top.what = Holds(Top.file)
    BY <1>1, <1>7, <1>8, <2>1 DEF Alone
  <2>3. doc' = Holds(Top.file)
    BY <1>2, <2>1, <2>2
  <2> QED
    BY <1>1, <1>8, <2>1, <2>2, <2>3 DEF Holds
<1> HIDE DEF base
<1>9. ~mixed' => Lone(base) /\ \A fr \in BusyFrames(base) : Alone(fr)' /\ ~enabled'
  BY <1>7
<1> QED
  BY <1>1, <1>6, <1>8, <1>9, StateIs

(* A save nothing has come in between leaves the document in the file.     *)
LEMMA EndSaveSaved == IInv /\ SInv /\ EndSave => SInv'
<1> SUFFICES ASSUME IInv, SInv, EndSave PROVE SInv'
  OBVIOUS
<1> DEFINE base == Front(frames)
           written == IF doc = Top.what /\ doc # Partial THEN doc ELSE Torn
<1>1. frames # <<>> /\ Top.at = "save" /\ Continue(Top.then, base, TRUE)
  BY DEF EndSave, At
<1>2. \/ disk' = [disk EXCEPT ![Top.file] = written] /\ ~failed'
      \/ disk' \in {disk, [disk EXCEPT ![Top.file] = Unreadable]} /\ failed'
  BY DEF EndSave
<1>3. /\ base \in Seq(FrameSet) /\ Top \in FrameSet /\ IsBusy(Top)
      /\ BusyFrames(frames) = BusyFrames(base) \cup {Top}
      /\ Lone(frames) <=> Lone(base) /\ BusyFrames(base) = {}
  BY <1>1, FramesTop DEF IsBusy
<1>4. Top \in BusyFrames(frames) /\ Top.then \in Goal /\ Top.file \in File
  BY <1>1, <1>3 DEF FrameSet
<1>5. FilesOK /\ WindowOK /\ DiskOK(disk) /\ disk \in [File -> Content]
  BY DEF IInv, SInv, FilesOK
<1>6. DiskOK(disk')
  <2>1. written # Partial /\ Unreadable # Partial
    BY PartialAssumption DEF PartialAssumption
  <2> HIDE DEF written
  <2> QED
    BY <1>2, <1>4, <1>5, <2>1 DEF DiskOK
<1>7. LoadsOK(base) /\ PartialOK(doc, base)
  BY <1>1, <1>3 DEF SInv, LoadsOK, PartialOK
<1>8. ASSUME ~mixed PROVE Lone(base) /\ BusyFrames(base) = {} /\ Alone(Top)
  BY <1>3, <1>4, <1>8 DEF SInv, Unmixed
<1>9. ASSUME pending = 0, ~failed', ~mixed, currentFile \in File PROVE doc = disk'[currentFile]
  <2>1. doc = Top.what /\ currentFile = Top.file
    <3>1. Top.file \notin Entry
      BY <1>4, PathsAssumption DEF PathsAssumption
    <3> QED
      BY <1>1, <1>8, <1>9, <3>1 DEF Alone
  <2>2. doc # Partial
    BY <1>7, <1>8, <1>9 DEF PartialOK
  <2>3. disk' = [disk EXCEPT ![Top.file] = doc]
    BY <1>2, <1>9, <2>1, <2>2
  <2> QED
    BY <1>4, <1>5, <2>1, <2>3
<1> HIDE DEF base
<1>10. ~mixed => /\ Lone(base)
                 /\ BusyFrames(base) # {} => disk' = disk /\ ~TRUE
                 /\ \A fr \in BusyFrames(base) : Alone(fr)
  BY <1>8
<1>11. (BusyFrames(base) = {} /\ pending = 0 /\ ~modified' /\ ~failed' /\ ~mixed /\ currentFile \in File)
         => doc = disk'[currentFile]
  BY <1>9
<1> QED
  BY <1>1, <1>3, <1>4, <1>5, <1>6, <1>7, <1>10, <1>11, ContinueSaved

-----------------------------------------------------------------------------
LEMMA StepSaved == IInv /\ SInv /\ [Next]_vars => SInv'
<1> SUFFICES ASSUME IInv, SInv, [Next]_vars PROVE SInv'
  OBVIOUS
<1>1. CASE Edit
  BY <1>1, EditSaved
<1>2. CASE Reload \/ \E f \in File : Drop(f)
  BY <1>2, PostSaved
<1>3. CASE Save \/ SaveAs
  BY <1>3, SaveSaved
<1>4. CASE Close \/ \E goal \in {g \in Goal : g.do \in {"choose", "open", "archive"}} : Open(goal)
  BY <1>4, ConfirmSaved
<1>5. CASE Cancel \/ \E f \in File : Choose(f)
  BY <1>5, CancelSaved
<1>6. CASE \E f \in File : SaveFile(f)
  BY <1>6, SaveFileSaved
<1>7. CASE Yes
  BY <1>7, YesSaved
<1>8. CASE No
  BY <1>8, NoSaved
<1>9. CASE Load
  BY <1>9, LoadSaved
<1>10. CASE EndLoad
  BY <1>10, EndLoadSaved
<1>11. CASE EndSave
  BY <1>11, EndSaveSaved
<1>12. CASE UNCHANGED vars
  BY <1>12, QuietStep DEF vars
<1> QED
  BY <1>1, <1>2, <1>3, <1>4, <1>5, <1>6, <1>7, <1>8, <1>9, <1>10, <1>11, <1>12 DEF Next, Program

LEMMA SavedIs == SInv => CleanIsSaved
BY DEF SInv, Clean, CleanIsSaved, BusyFrames

(* A document that is not marked as modified is what the file holds whose  *)
(* name the window shows, so that saveConfirm() need not ask: however many *)
(* handlers are suspended, unless the last load or save has been mixed     *)
(* with another one, or the last save has failed.                          *)
THEOREM UnmodifiedIsSaved == Spec => []CleanIsSaved
<1>1. Spec => [](IInv /\ SInv)
  BY InitInv, InitSaved, StepInv, StepSaved, PTL DEF Spec
<1> QED
  BY <1>1, SavedIs, PTL
=============================================================================
