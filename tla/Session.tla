------------------------------ MODULE Session ------------------------------
(***************************************************************************)
(* A window and its document: opening, reloading, saving and closing       *)
(* (nifskope.cpp, nifskope_ui.cpp).                                        *)
(*                                                                         *)
(* Everything happens in the GUI thread, but not one handler after the     *)
(* other: a load is posted to the event loop, dialogs run event loops of   *)
(* their own, and every progress signal of a load or a save processes the  *)
(* events that wait.  A handler that processes events is suspended, and    *)
(* others run to their end on top of it: frames is that stack.  A disabled *)
(* window gets no input, nor does one with an open dialog; posted loads    *)
(* run all the same, and only a dialog keeps the window from being closed. *)
(***************************************************************************)
EXTENDS Integers, Sequences, SequencesExt

CONSTANTS
  File,         \* files with absolute paths
  Entry,        \* files in the open archive
  None,         \* no file
  Empty,        \* the document without blocks
  Partial,      \* a document that is being loaded
  Torn,         \* a document two handlers have worked on at a time
  Unreadable,   \* what a file holds that is no document
  AutoSanitize, \* the option of that name
  MaxEdits,     \* bound: changes of the document
  MaxActs,      \* bound: what the user does, but answers
  MaxDepth      \* bound: handlers suspended at a time

ASSUME NamesAssumption == None \notin File \cup Entry
ASSUME PathsAssumption == File \cap Entry = {}
ASSUME PartialAssumption == Partial \notin File \cup Entry \cup {Empty, Torn, Unreadable} \cup 1 .. MaxEdits
ASSUME OptionAssumption == AutoSanitize \in BOOLEAN
ASSUME BoundAssumption == MaxEdits \in Nat /\ MaxActs \in Nat /\ MaxDepth \in Nat

VARIABLES
  currentFile,
  doc,          \* what the model holds
  modified,     \* the window is modified, or the undo stack is not clean
  disk,         \* what each file holds
  pending,      \* calls of load() in the event queue
  frames,       \* the suspended handlers, the innermost one last
  enabled,      \* the window gets input
  attached,     \* the views show the model, not the empty one
  usable,       \* Save, Save As and Reload have been enabled
  closed,
  edits, acts,
  failed,       \* history: the last save since the load has failed
  mixed         \* history: the load or save of the document has been
                \* interrupted by another one, or has interrupted it

vars == <<currentFile, doc, modified, disk, pending, frames, enabled, attached,
          usable, closed, edits, acts, failed, mixed>>

Document == File \cup Entry \cup {Empty, Partial, Torn} \cup 1 .. MaxEdits

(* What saveConfirm() has been asked for.                                  *)
Goal == [do : {"nothing", "choose", "close"}, file : {None}]
        \cup [do : {"open"}, file : File] \cup [do : {"archive"}, file : Entry]

Nothing == [do |-> "nothing", file |-> None]

Dialogs == {"confirm", "saveAs", "choose"}

(* A suspended handler: where it is, the file it loads or saves, what it   *)
(* reads or writes, and what it goes on with.                              *)
Frame(at, file, what, then) == [at |-> at, file |-> file, what |-> what, then |-> then]

Top == Last(frames)
At(S) == frames # <<>> /\ Top.at \in S
DialogOpen == \E k \in DOMAIN frames : frames[k].at \in Dialogs

Init ==
  /\ currentFile = None /\ doc = Empty /\ modified = FALSE
  /\ disk \in [File -> File \cup {Unreadable}]
  /\ \A f \in File : disk[f] \in {f, Unreadable}
  /\ pending = 0 /\ frames = <<>>
  /\ enabled = TRUE /\ attached = TRUE /\ usable = FALSE /\ closed = FALSE
  /\ edits = 0 /\ acts = 0 /\ failed = FALSE /\ mixed = FALSE

-----------------------------------------------------------------------------
(* The handlers, by what they have in common.                              *)

Suspend(base, frame) == Len(base) < MaxDepth /\ frames' = Append(base, frame)

Busy(base) == \E k \in DOMAIN base : base[k].at \in {"load", "save"}

Holds(f) == IF f \in File THEN disk[f] ELSE IF f = None THEN Unreadable ELSE f

(* loadFile: the name changes at once, the document later.                 *)
LoadFile(f) == currentFile' = f /\ pending' = pending + 1

(* The beginning of a load: onLoadBegin() and NifModel::clear().           *)
BeginLoad(f, base) ==
  /\ Suspend(base, Frame("load", f, Holds(f), Nothing))
  /\ attached' = ~attached
  /\ enabled' = FALSE
  /\ doc' = Partial
  /\ mixed' = Busy(base)

(* The beginning of a save: onSaveBegin() and the sanitizing, whose        *)
(* changes do not flag the window, since it is disabled.                   *)
BeginSave(f, base, then) ==
  /\ enabled' = FALSE
  /\ \/ UNCHANGED <<doc, edits>>
     \/ /\ AutoSanitize /\ edits < MaxEdits
        /\ edits' = edits + 1 /\ doc' = edits'
  /\ Suspend(base, Frame("save", f, doc', then))
  /\ mixed' = (mixed \/ Busy(base))

(* saveConfirm() has returned true; the window is enabled or not.          *)
Continue(goal, base, isEnabled) ==
  \/ /\ goal.do = "nothing"
     /\ frames' = base /\ enabled' = isEnabled
     /\ UNCHANGED <<currentFile, pending, doc, attached, closed, mixed>>
  \/ /\ goal.do = "choose"
     /\ Suspend(base, Frame("choose", None, None, Nothing)) /\ enabled' = isEnabled
     /\ UNCHANGED <<currentFile, pending, doc, attached, closed, mixed>>
  \/ /\ goal.do = "open"
     /\ LoadFile(goal.file)
     /\ frames' = base /\ enabled' = isEnabled
     /\ UNCHANGED <<doc, attached, closed, mixed>>
  \/ /\ goal.do = "archive"
     /\ BeginLoad(goal.file, base)
     /\ UNCHANGED <<currentFile, pending, closed>>
  \/ /\ goal.do = "close"
     /\ closed' = TRUE
     /\ frames' = base /\ enabled' = isEnabled
     /\ UNCHANGED <<currentFile, pending, doc, attached, mixed>>

SaveConfirm(goal) ==
  IF modified
  THEN /\ Suspend(frames, Frame("confirm", None, None, goal))
       /\ UNCHANGED <<currentFile, pending, doc, enabled, attached, closed, mixed>>
  ELSE Continue(goal, frames, enabled)

-----------------------------------------------------------------------------
(* What the user does.                                                     *)

Acts == ~closed /\ acts < MaxActs /\ acts' = acts + 1

Input == Acts /\ enabled /\ ~DialogOpen

(* Any change of the document, by an editor, a spell or the undo stack.    *)
Edit ==
  /\ Input
  /\ edits < MaxEdits
  /\ edits' = edits + 1 /\ doc' = edits'
  /\ modified' = TRUE /\ usable' = TRUE
  /\ UNCHANGED <<currentFile, disk, pending, frames, enabled, attached, closed, failed, mixed>>

(* Open, a recent file, a file of the archive.                             *)
Open(goal) ==
  /\ Input
  /\ SaveConfirm(goal)
  /\ UNCHANGED <<modified, disk, usable, edits, failed>>

(* A file is dropped on the 3D view: openFiles, without a question.        *)
Drop(f) ==
  /\ Input
  /\ LoadFile(f)
  /\ UNCHANGED <<doc, modified, disk, frames, enabled, attached, usable, closed, edits, failed, mixed>>

Reload ==
  /\ Input /\ usable
  /\ pending' = pending + 1
  /\ UNCHANGED <<currentFile, doc, modified, disk, frames, enabled, attached, usable, closed,
                 edits, failed, mixed>>

(* A document without a file of its own is saved under another name.       *)
SaveAsDlg ==
  /\ Suspend(frames, Frame("saveAs", None, None, Nothing))
  /\ UNCHANGED <<doc, enabled, edits, mixed>>

SaveAnyName ==   \* mutant: saves under whatever name there is
  /\ Input /\ usable
  /\ BeginSave(currentFile, frames, Nothing)
  /\ UNCHANGED <<currentFile, modified, disk, pending, attached, usable, closed, failed>>

Save ==
  /\ Input /\ usable
  /\ IF currentFile \in File THEN BeginSave(currentFile, frames, Nothing) ELSE SaveAsDlg
  /\ UNCHANGED <<currentFile, modified, disk, pending, attached, usable, closed, failed>>

SaveAs ==
  /\ Input /\ usable
  /\ SaveAsDlg
  /\ UNCHANGED <<currentFile, modified, disk, pending, attached, usable, closed, failed>>

(* The window manager closes a disabled window, too.                       *)
Close ==
  /\ Acts /\ ~DialogOpen
  /\ SaveConfirm([do |-> "close", file |-> None])
  /\ UNCHANGED <<modified, disk, usable, edits, failed>>

-----------------------------------------------------------------------------
(* The answers to dialogs.                                                 *)

Yes ==
  /\ At({"confirm"})
  /\ frames' = [frames EXCEPT ![Len(frames)].at = "saveAs"]
  /\ UNCHANGED <<currentFile, doc, modified, disk, pending, enabled, attached, usable, closed,
                 edits, acts, failed, mixed>>

(* No; and a cancelled save dialog, after which saveConfirm() returns true *)
(* as well.                                                                *)
No ==
  /\ At({"confirm", "saveAs"})
  /\ Continue(Top.then, Front(frames), enabled)
  /\ UNCHANGED <<modified, disk, usable, edits, acts, failed>>

Cancel ==
  /\ At({"confirm", "choose"})
  /\ frames' = Front(frames)
  /\ UNCHANGED <<currentFile, doc, modified, disk, pending, enabled, attached, usable, closed,
                 edits, acts, failed, mixed>>

Choose(f) ==
  /\ At({"choose"})
  /\ LoadFile(f)
  /\ frames' = Front(frames)
  /\ UNCHANGED <<doc, modified, disk, enabled, attached, usable, closed, edits, acts, failed, mixed>>

(* saveFile: the name changes before anything has been saved.              *)
SaveFile(f) ==
  /\ At({"saveAs"})
  /\ currentFile' = f
  /\ BeginSave(f, Front(frames), Top.then)
  /\ UNCHANGED <<modified, disk, pending, attached, usable, closed, acts, failed>>

-----------------------------------------------------------------------------
(* What the program goes on with.                                          *)

(* A posted load(), of the file that is current by now.                    *)
Load ==
  /\ ~closed /\ pending > 0
  /\ pending' = pending - 1
  /\ IF currentFile \in Entry /\ modified
     THEN /\ Suspend(frames, Frame("confirm", None, None,
                                   [do |-> "archive", file |-> currentFile]))
          /\ UNCHANGED <<doc, enabled, attached, mixed>>
     ELSE BeginLoad(currentFile, frames)
  /\ UNCHANGED <<currentFile, modified, disk, usable, closed, edits, acts, failed>>

(* The end of a load, and onLoadComplete().  A load that another handler   *)
(* has come in between reads on into what that one has left.               *)
EndLoadKeepingName ==   \* mutant: the name of a file that cannot be read is kept
  /\ ~closed /\ At({"load"})
  /\ LET f == Top.file
         alone == doc = Partial /\ Holds(f) = Top.what
     IN \E success \in BOOLEAN :
          /\ success => Top.what # Unreadable
          /\ (alone /\ Top.what \notin {Unreadable, Torn}) => success
          /\ doc' = IF ~success THEN Empty ELSE IF alone THEN Top.what ELSE Torn
          /\ currentFile' = IF f \in Entry THEN f ELSE currentFile
  /\ modified' = FALSE /\ failed' = FALSE
  /\ attached' = ~attached
  /\ enabled' = TRUE /\ usable' = TRUE
  /\ frames' = Front(frames)
  /\ UNCHANGED <<disk, pending, closed, edits, acts, mixed>>

EndLoadDetached ==   \* mutant: the views come back only if the load succeeds
  /\ ~closed /\ At({"load"})
  /\ LET f == Top.file
         alone == doc = Partial /\ Holds(f) = Top.what
     IN \E success \in BOOLEAN :
          /\ success => Top.what # Unreadable
          /\ (alone /\ Top.what \notin {Unreadable, Torn}) => success
          /\ doc' = IF ~success THEN Empty ELSE IF alone THEN Top.what ELSE Torn
          /\ attached' = (attached # success)
          /\ currentFile' = IF ~success THEN None ELSE IF f \in Entry THEN f ELSE currentFile
  /\ modified' = FALSE /\ failed' = FALSE
  /\ enabled' = TRUE /\ usable' = TRUE
  /\ frames' = Front(frames)
  /\ UNCHANGED <<disk, pending, closed, edits, acts, mixed>>

EndLoad ==
  /\ ~closed /\ At({"load"})
  /\ LET f == Top.file
         alone == doc = Partial /\ Holds(f) = Top.what
     IN \E success \in BOOLEAN :
          /\ success => Top.what # Unreadable
          /\ (alone /\ Top.what \notin {Unreadable, Torn}) => success
          /\ doc' = IF ~success THEN Empty ELSE IF alone THEN Top.what ELSE Torn
          /\ currentFile' = IF ~success THEN None ELSE IF f \in Entry THEN f ELSE currentFile
  /\ modified' = FALSE /\ failed' = FALSE
  /\ attached' = ~attached
  /\ enabled' = TRUE /\ usable' = TRUE
  /\ frames' = Front(frames)
  /\ UNCHANGED <<disk, pending, closed, edits, acts, mixed>>

(* The end of a save, and onSaveComplete().  A save fails before it opens  *)
(* the file, or afterwards: then the file has lost what it held.           *)
EndSaveDisabled ==   \* mutant: a save that fails leaves the window disabled
  /\ ~closed /\ At({"save"})
  /\ \/ /\ disk' = [disk EXCEPT ![Top.file] =
                       IF doc = Top.what /\ doc # Partial THEN doc ELSE Torn]
        /\ modified' = FALSE /\ failed' = FALSE
     \/ /\ disk' \in {disk, [disk EXCEPT ![Top.file] = Unreadable]}
        /\ failed' = TRUE
        /\ UNCHANGED modified
  /\ Continue(Top.then, Front(frames), ~failed')
  /\ UNCHANGED <<usable, edits, acts>>

EndSave ==
  /\ ~closed /\ At({"save"})
  /\ \/ /\ disk' = [disk EXCEPT ![Top.file] =
                       IF doc = Top.what /\ doc # Partial THEN doc ELSE Torn]
        /\ modified' = FALSE /\ failed' = FALSE
     \/ /\ disk' \in {disk, [disk EXCEPT ![Top.file] = Unreadable]}
        /\ failed' = TRUE
        /\ UNCHANGED modified
  /\ Continue(Top.then, Front(frames), TRUE)
  /\ UNCHANGED <<usable, edits, acts>>

-----------------------------------------------------------------------------
Program == Load \/ EndLoad \/ EndSave

Next ==
  \/ Edit \/ Reload \/ Save \/ SaveAs \/ Close
  \/ \E goal \in {g \in Goal : g.do \in {"choose", "open", "archive"}} : Open(goal)
  \/ \E f \in File : Drop(f) \/ Choose(f) \/ SaveFile(f)
  \/ Yes \/ No \/ Cancel
  \/ Program

(* The event loop goes on; the user need not do or answer anything.        *)
Spec == Init /\ [][Next]_vars /\ WF_vars(Program)

-----------------------------------------------------------------------------
(* Properties.                                                             *)

(* Type correctness; only the innermost handler or one with a dialog can   *)
(* wait for the user, and the one that goes on with something is a save    *)
(* confirmation or what has become of it.                                  *)
TypeOK ==
  /\ currentFile \in File \cup Entry \cup {None}
  /\ doc \in Document
  /\ disk \in [File -> Document \cup {Unreadable}]
  /\ pending \in 0 .. acts
  /\ \A k \in DOMAIN frames :
       /\ frames[k].at \in Dialogs \cup {"load", "save"}
       /\ frames[k].then \in Goal
       /\ frames[k].then # Nothing => frames[k].at \in {"confirm", "saveAs", "save"}
       /\ frames[k].at = "save" => frames[k].file \in File
  /\ \A x \in {modified, enabled, attached, usable, closed, failed, mixed} : x \in BOOLEAN
  /\ edits \in 0 .. MaxEdits /\ acts \in 0 .. MaxActs

(* With no handler under way, a document that is not marked as modified is *)
(* the one in the file the window shows.  (Not so after a save that failed:*)
(* "Save As" has changed the name by then, and the sanitizing the document.*)
(* Nor when loads and saves have run into each other.)                     *)
CleanIsSaved ==
  (frames = <<>> /\ pending = 0 /\ ~modified /\ ~failed /\ ~mixed /\ currentFile \in File) =>
    doc = disk[currentFile]

(* However loads and saves run into each other, and whether they fail or   *)
(* not: in the end the window gets input, and its views show the model.    *)
IdleIsUsable == (frames = <<>> /\ ~closed) => enabled /\ attached

(* A disabled window does not stay so, unless the user owes an answer.     *)
Reenabled == ~enabled ~> (enabled \/ closed \/ DialogOpen)
=============================================================================
