----------------------------- MODULE Resources -----------------------------
(***************************************************************************)
(* The archives and folders a document's resources are read from           *)
(* (gamemanager.cpp).  For each game there are those of the settings,      *)
(* opened when a file is first wanted, and a temporary one, the folder of  *)
(* the document that was loaded last.  The Starfield material database is  *)
(* read from both; whoever keeps materials keeps its id with them and asks *)
(* for them again when the id is another one.                              *)
(*                                                                         *)
(* All of this is static and nothing guards it.  The workers of the XML    *)
(* checker load documents, and so set the temporary folder, at the same    *)
(* time as one another and as the main thread, which does all the rest.    *)
(* The main thread may also show a message box while it opens archives,    *)
(* and the views are painted meanwhile: these nested calls are a thread of *)
(* their own, for which the main one waits.                                *)
(*                                                                         *)
(* A step reads the shared variables it tests and changes one of them; an  *)
(* increment is a read and a write.  What is derived from no other         *)
(* variable, the archives of the other games in close_all, is one step.    *)
(* Opened archives, and contents of the database, are told apart by the    *)
(* number of those opened before.                                          *)
(***************************************************************************)
EXTENDS Integers

CONSTANTS
  Game,           \* games of the settings
  Starfield,      \* the one that has a material database
  Worker,         \* the threads of the XML checker
  Gui, Nested,    \* the main thread, and what runs while it shows a message
  FileKind,       \* the kinds of files that are loaded: Nif, or Other
  HasMaterials,   \* kinds of temporary folders: whether they have materials
  MaxOpened       \* bound: archives and databases opened, and ids, after
                  \* which no call begins that may open more

Thread == Worker \cup {Gui, Nested}

ASSUME GameAssumption == Starfield \in Game
ASSUME ThreadAssumption == Gui # Nested /\ {Gui, Nested} \cap Worker = {}
ASSUME KindAssumption == FileKind \subseteq {"nif", "other"} /\ HasMaterials \subseteq BOOLEAN
ASSUME BoundAssumption == MaxOpened \in Nat

VARIABLES
  main,        \* the opened archives of each game; 0: none
  temp,        \* its temporary folder; 0: none
  withMat,     \* the opened folders that hold materials
  opened,      \* how many archives and databases have been opened
  loaded,      \* have_materials_cdb
  useTemp,     \* have_temp_materials
  contents,    \* what the material database has; 0: nothing
  sources,     \* the archives it was read from
  id,          \* starfield_materials_id
  kept,        \* a material a shader property has: the id, and the contents
  thread,      \* where each thread is
  raced        \* two threads have been in such calls at the same time

archives  == <<main, temp, withMat, opened>>
materials == <<loaded, useTemp, contents, sources, id>>
vars      == <<archives, materials, kept, thread, raced>>

(* What a thread does: the call, where it is in it, where in the           *)
(* close_materials it has called, and the value of the id it increments.   *)
In(call, g, label) == [call |-> call, game |-> g, pc |-> label, closing |-> "no", seen |-> 0]

Outside == In("none", Starfield, "idle")

Idle(t) == thread[t].pc = "idle"

(* The call goes on at a label, once close_materials has returned.         *)
At(t, label) == thread[t].pc = label /\ thread[t].closing = "no"

Goes(t, label)   == thread' = [thread EXCEPT ![t].pc = label]
Closes(t, label) == thread' = [thread EXCEPT ![t].pc = label, ![t].closing = "test"]
Returns(t)       == thread' = [thread EXCEPT ![t] = Outside]

(* A call begins, one that may open archives within the bound.             *)
Within == opened < MaxOpened /\ id < MaxOpened

Begins(t, call, g, label) ==
  /\ Idle(t)
  /\ thread' = [thread EXCEPT ![t] = In(call, g, label)]

(* A thread is in a call that reads or writes the shared variables.        *)
Busy(t) == thread[t].pc \notin {"idle", "search"}

Overlap == \E t, u \in Thread : t # u /\ Busy(t) /\ Busy(u)

Init ==
  /\ main = [g \in Game |-> 0] /\ temp = [g \in Game |-> 0]
  /\ withMat = {} /\ opened = 0
  /\ loaded = FALSE /\ useTemp = FALSE /\ contents = 0 /\ sources = {} /\ id = 1
  /\ kept = [id |-> 0, from |-> 0]
  /\ thread = [t \in Thread |-> Outside]
  /\ raced = FALSE

-----------------------------------------------------------------------------
(* close_materials, which does nothing, and keeps have_temp_materials, if  *)
(* nothing is loaded.                                                      *)
TestLoaded(t) ==
  /\ thread[t].closing = "test"
  /\ thread' = IF loaded THEN [thread EXCEPT ![t].closing = "id", ![t].seen = id]
                         ELSE [thread EXCEPT ![t].closing = "no"]
  /\ UNCHANGED <<archives, materials, kept>>

ChangeIdNot(t) ==   \* mutant: the id stays
  /\ thread[t].closing = "id"
  /\ thread' = [thread EXCEPT ![t].closing = "loaded", ![t].seen = 0]
  /\ UNCHANGED <<archives, materials, kept>>

ChangeId(t) ==
  /\ thread[t].closing = "id"
  /\ id' = thread[t].seen + 1
  /\ thread' = [thread EXCEPT ![t].closing = "loaded", ![t].seen = 0]
  /\ UNCHANGED <<archives, loaded, useTemp, contents, sources, kept>>

ResetLoaded(t) ==
  /\ thread[t].closing = "loaded"
  /\ loaded' = FALSE
  /\ thread' = [thread EXCEPT ![t].closing = "useTemp"]
  /\ UNCHANGED <<archives, useTemp, contents, sources, id, kept>>

ResetUseTemp(t) ==
  /\ thread[t].closing = "useTemp"
  /\ useTemp' = FALSE
  /\ thread' = [thread EXCEPT ![t].closing = "clear"]
  /\ UNCHANGED <<archives, loaded, contents, sources, id, kept>>

Clear(t) ==
  /\ thread[t].closing = "clear"
  /\ contents' = 0 /\ sources' = {}
  /\ thread' = [thread EXCEPT ![t].closing = "no"]
  /\ UNCHANGED <<archives, loaded, useTemp, id, kept>>

CloseMaterials(t) ==
  TestLoaded(t) \/ ChangeId(t) \/ ResetLoaded(t) \/ ResetUseTemp(t) \/ Clear(t)

-----------------------------------------------------------------------------
(* BA2Files::open_folders, which may find no folder it can open.  The      *)
(* messages about those come before the archives are given up.             *)
OpenFolders(t, g, as) ==
  thread' = [thread EXCEPT ![t] =
    [as EXCEPT !.pc = "drop", !.closing = IF g = Starfield THEN "test" ELSE "no"]]

(* It returns to get_file, or to get_file in materials.                    *)
Opened(t) == IF thread[t].call = "get_file" THEN Returns(t) ELSE Goes(t, "load")

DropArchives(t) ==
  /\ At(t, "drop")
  /\ main' = [main EXCEPT ![thread[t].game] = 0]
  /\ Goes(t, "new") \/ Opened(t)   \* the settings name folders, or none
  /\ UNCHANGED <<temp, withMat, opened, materials, kept>>

NewArchivesUncounted(t) ==   \* mutant: the archives are those opened before
  /\ At(t, "new")
  /\ main' = [main EXCEPT ![thread[t].game] = opened]
  /\ Goes(t, "fill")
  /\ UNCHANGED <<temp, withMat, opened, materials, kept>>

NewArchives(t) ==
  /\ At(t, "new")
  /\ main' = [main EXCEPT ![thread[t].game] = opened + 1]
  /\ opened' = opened + 1
  /\ Goes(t, "fill")
  /\ UNCHANGED <<temp, withMat, materials, kept>>

FillArchives(t) ==
  /\ At(t, "fill") /\ (t = Gui => Idle(Nested))
  /\ main' = main \/ main' = [main EXCEPT ![thread[t].game] = 0]
  /\ Opened(t)
  /\ UNCHANGED <<temp, withMat, opened, materials, kept>>

(* get_file, find_file, list_files: a file of the temporary folder, or one *)
(* of the archives, which are opened if they are not.                      *)
GetFile(t, g) ==
  /\ Within /\ Idle(t)
  /\ main[g] = 0
  /\ OpenFolders(t, g, In("get_file", g, "drop"))
  /\ UNCHANGED <<archives, materials, kept>>

-----------------------------------------------------------------------------
(* GameManager::materials: the database is loaded if it is not and the     *)
(* archives can be opened.  The id changes even if the load fails.         *)

(* It returns to a spell, which keeps nothing, or to getSFMaterial.        *)
Found(t, next) == IF thread[t].call = "materials" THEN Returns(t) ELSE Goes(t, next)

TestDatabase(t) ==
  /\ At(t, "materials")
  /\ IF loaded THEN Found(t, "look") ELSE Goes(t, "archives")
  /\ UNCHANGED <<archives, materials, kept>>

TestArchives(t) ==
  /\ At(t, "archives")
  /\ IF main[Starfield] = 0 THEN OpenFolders(t, Starfield, thread[t]) ELSE Goes(t, "load")
  /\ UNCHANGED <<archives, materials, kept>>

BeginRead(t) ==
  /\ At(t, "load")
  /\ IF main[Starfield] = 0 THEN Found(t, "look")
     ELSE thread' = [thread EXCEPT ![t].pc = "id", ![t].seen = id]
  /\ UNCHANGED <<archives, materials, kept>>

NextId(t) ==
  /\ At(t, "id")
  /\ id' = thread[t].seen + 1
  /\ thread' = [thread EXCEPT ![t].pc = "read", ![t].seen = 0]
  /\ UNCHANGED <<archives, loaded, useTemp, contents, sources, kept>>

ReadArchives(t) ==
  /\ At(t, "read")
  /\ contents' = opened + 1 /\ opened' = opened + 1
  /\ sources' = {main[Starfield]} \cup
       IF useTemp /\ temp[Starfield] # 0 THEN {temp[Starfield]} ELSE {}
  /\ Goes(t, "mark")
  /\ UNCHANGED <<main, temp, withMat, loaded, useTemp, id, kept>>

(* An exception of materials reaches the caller.                           *)
ReadFails(t) ==
  /\ At(t, "read")
  /\ Found(t, "stamp")
  /\ UNCHANGED <<archives, materials, kept>>

MarkLoaded(t) ==
  /\ At(t, "mark")
  /\ loaded' = TRUE
  /\ Found(t, "look")
  /\ UNCHANGED <<archives, useTemp, contents, sources, id, kept>>

Materials(t) ==
  /\ Within
  /\ Begins(t, "materials", Starfield, "materials")
  /\ UNCHANGED <<archives, materials, kept>>

(* getSFMaterial of a shader property: a material of another id is looked  *)
(* up again, one the database does not have is none.                       *)
GetSFMaterial(t) ==
  /\ Within /\ kept.id # id
  /\ Begins(t, "getSFMaterial", Starfield, "materials")
  /\ kept' = [kept EXCEPT !.from = 0]
  /\ UNCHANGED <<archives, materials>>

LoadMaterial(t) ==
  /\ At(t, "look")
  /\ \E from \in {0, contents} : kept' = [kept EXCEPT !.from = from]
  /\ Goes(t, "stamp")
  /\ UNCHANGED <<archives, materials>>

KeepId(t) ==
  /\ At(t, "stamp")
  /\ kept' = [kept EXCEPT !.id = id]
  /\ Returns(t)
  /\ UNCHANGED <<archives, materials>>

(* The shader property gets another material, or is a new one.             *)
SetSFMaterial ==
  /\ Idle(Gui)
  /\ kept' = [id |-> 0, from |-> 0]
  /\ UNCHANGED <<archives, materials, thread>>

-----------------------------------------------------------------------------
(* close_all.  With tempPathsFirst the archives of a game stay if there    *)
(* was a temporary folder to close.                                        *)
TempFirst(t) == thread[t].call = "close_all(true)"

CloseArchives(t, tempFirst) ==
  /\ Begins(t, IF tempFirst THEN "close_all(true)" ELSE "close_all(false)", Starfield, "others")
  /\ UNCHANGED <<archives, materials, kept>>

CloseOthers(t) ==
  /\ At(t, "others")
  /\ temp' = [g \in Game |-> IF g = Starfield THEN temp[g] ELSE 0]
  /\ main' = [g \in Game |-> IF g = Starfield \/ (TempFirst(t) /\ temp[g] # 0) THEN main[g] ELSE 0]
  /\ Goes(t, "second")
  /\ UNCHANGED <<withMat, opened, materials, kept>>

CloseSecond(t) ==
  /\ At(t, "second")
  /\ IF temp[Starfield] = 0 THEN Goes(t, "first")
     ELSE IF useTemp THEN Closes(t, "deleteSecond") ELSE Goes(t, "deleteSecond")
  /\ UNCHANGED <<archives, materials, kept>>

DeleteSecond(t) ==
  /\ At(t, "deleteSecond")
  /\ temp' = [temp EXCEPT ![Starfield] = 0]
  /\ withMat' = withMat \ {temp[Starfield]}
  /\ IF TempFirst(t) THEN Returns(t) ELSE Goes(t, "first")
  /\ UNCHANGED <<main, opened, materials, kept>>

CloseFirstQuiet(t) ==   \* mutant: close_materials only with the folder
  /\ At(t, "first")
  /\ IF main[Starfield] = 0 THEN Returns(t) ELSE Goes(t, "deleteFirst")
  /\ UNCHANGED <<archives, materials, kept>>

CloseFirst(t) ==
  /\ At(t, "first")
  /\ IF main[Starfield] = 0 THEN Returns(t) ELSE Closes(t, "deleteFirst")
  /\ UNCHANGED <<archives, materials, kept>>

DeleteFirst(t) ==
  /\ At(t, "deleteFirst")
  /\ main' = [main EXCEPT ![Starfield] = 0]
  /\ Returns(t)
  /\ UNCHANGED <<temp, withMat, opened, materials, kept>>

-----------------------------------------------------------------------------
(* setTempDataPath in NifModel::load: the name of a NIF file is cut off, a *)
(* folder or an archive is taken, and so is no path, which a NIF file read *)
(* from an archive has.                                                    *)
BeginLoad(t, g, path) ==
  /\ Within
  /\ Begins(t, path, g, "search")
  /\ UNCHANGED <<archives, materials, kept>>

TrimmedOnce(path) == IF path = "nif" THEN "nif" ELSE path   \* mutant: keeps the name

Trimmed(path) == IF path = "nif" THEN "folder" ELSE path

SearchTemp(t) ==
  /\ At(t, "search")
  /\ thread' = IF thread[t].call \in {"nif", "other"}
               THEN [thread EXCEPT ![t].call = Trimmed(@)]
               ELSE [thread EXCEPT ![t].pc = "temp"]
  /\ UNCHANGED <<archives, materials, kept>>

(* set_temp_folder.  A folder that cannot be opened leaves none.           *)
OpenTemp(t) == IF thread[t].call = "empty" THEN Returns(t) ELSE Goes(t, "newTemp")

SetTempFolder(t) ==
  /\ At(t, "temp")
  /\ IF temp[thread[t].game] = 0 THEN OpenTemp(t)
     ELSE IF thread[t].game = Starfield /\ useTemp THEN Closes(t, "dropTemp") ELSE Goes(t, "dropTemp")
  /\ UNCHANGED <<archives, materials, kept>>

WithoutTemp(t) ==
  /\ temp' = [temp EXCEPT ![thread[t].game] = 0]
  /\ withMat' = withMat \ {temp[thread[t].game]}

DropTemp(t) ==
  /\ At(t, "dropTemp")
  /\ WithoutTemp(t)
  /\ OpenTemp(t)
  /\ UNCHANGED <<main, opened, materials, kept>>

NewTemp(t) ==
  /\ At(t, "newTemp")
  /\ temp' = [temp EXCEPT ![thread[t].game] = opened + 1]
  /\ opened' = opened + 1
  /\ Goes(t, "scan")
  /\ UNCHANGED <<main, withMat, materials, kept>>

ScanTempQuiet(t) ==   \* mutant: new materials do not close the database
  /\ At(t, "scan")
  /\ \E hasMat \in HasMaterials :
       IF thread[t].game = Starfield /\ hasMat
       THEN Goes(t, "use") /\ withMat' = withMat \cup {temp[Starfield]}
       ELSE Returns(t) /\ UNCHANGED withMat
  /\ UNCHANGED <<main, temp, opened, materials, kept>>

ScanTemp(t) ==
  /\ At(t, "scan")
  /\ \E hasMat \in HasMaterials :
       IF thread[t].game = Starfield /\ hasMat
       THEN Closes(t, "use") /\ withMat' = withMat \cup {temp[Starfield]}
       ELSE Returns(t) /\ UNCHANGED withMat
  /\ UNCHANGED <<main, temp, opened, materials, kept>>

ScanFails(t) ==
  /\ At(t, "scan")
  /\ WithoutTemp(t)
  /\ Returns(t)
  /\ UNCHANGED <<main, opened, materials, kept>>

UseTemp(t) ==
  /\ At(t, "use")
  /\ useTemp' = TRUE
  /\ Returns(t)
  /\ UNCHANGED <<archives, loaded, contents, sources, id, kept>>

-----------------------------------------------------------------------------
Begin ==
  \/ \E t \in {Gui} \cup Worker, g \in Game, path \in FileKind \cup {"empty"} : BeginLoad(t, g, path)
  \/ \E tempFirst \in BOOLEAN : CloseArchives(Gui, tempFirst)
  \/ Materials(Gui)
  \/ \E t \in {Gui, Nested} :
       /\ t = Nested => At(Gui, "fill")
       /\ GetSFMaterial(t) \/ \E g \in Game : GetFile(t, g)

LoadStep(t) ==
  \/ SearchTemp(t) \/ SetTempFolder(t) \/ DropTemp(t) \/ NewTemp(t)
  \/ ScanTemp(t) \/ ScanFails(t) \/ UseTemp(t)

Step(t) ==
  \/ CloseMaterials(t) \/ LoadStep(t)
  \/ DropArchives(t) \/ NewArchives(t) \/ FillArchives(t)
  \/ TestDatabase(t) \/ TestArchives(t) \/ BeginRead(t) \/ NextId(t) \/ ReadArchives(t)
  \/ ReadFails(t) \/ MarkLoaded(t) \/ LoadMaterial(t) \/ KeepId(t)
  \/ CloseOthers(t) \/ CloseSecond(t) \/ DeleteSecond(t) \/ CloseFirst(t) \/ DeleteFirst(t)

Noted == raced' = (raced \/ Overlap')

Runs(t) == Step(t) /\ Noted

Next ==
  \/ (Begin \/ SetSFMaterial) /\ Noted
  \/ \E t \in Thread : Runs(t)

Fairness == \A t \in Thread : WF_vars(Runs(t))

Spec == Init /\ [][Next]_vars /\ Fairness

-----------------------------------------------------------------------------
(* Properties.                                                             *)

(* Type correctness: what is open has been opened, and once.               *)
ArchivesOK ==
  /\ opened \in Nat
  /\ main \in [Game -> 0 .. opened] /\ temp \in [Game -> 0 .. opened]
  /\ withMat \subseteq 0 .. opened
  /\ \A g, h \in Game :
       /\ main[g] = temp[h] => main[g] = 0
       /\ g # h => (main[g] = main[h] => main[g] = 0) /\ (temp[g] = temp[h] => temp[g] = 0)

MaterialsOK ==
  /\ loaded \in BOOLEAN /\ useTemp \in BOOLEAN
  /\ contents \in 0 .. opened /\ sources \subseteq 0 .. opened
  /\ id \in Nat
  /\ kept \in [id : Nat, from : 0 .. opened]

Call == {"none", "get_file", "materials", "getSFMaterial", "close_all(true)",
         "close_all(false)", "nif", "other", "folder", "empty"}

Label == {"idle", "drop", "new", "fill", "materials", "archives", "load", "id", "read",
          "mark", "look", "stamp", "others", "second", "deleteSecond", "first",
          "deleteFirst", "search", "temp", "dropTemp", "newTemp", "scan", "use"}

Closing == {"no", "test", "id", "loaded", "useTemp", "clear"}

Place == [call : Call, game : Game, pc : Label, closing : Closing, seen : Nat]

ThreadsOK ==
  /\ thread \in [Thread -> Place]
  /\ raced \in BOOLEAN

TypeOK == ArchivesOK /\ MaterialsOK /\ ThreadsOK

(* The database never outlives an archive it was read from, not even       *)
(* within a call, as long as the calls come one at a time.                 *)
SourcesOpen ==
  ~raced /\ contents # 0 =>
    /\ main[Starfield] # 0
    /\ main[Starfield] \in sources
    /\ sources \subseteq {main[Starfield], temp[Starfield]}

(* Between such calls the materials of the document's folder are in the    *)
(* database, whenever that was loaded and in whatever order archives were  *)
(* opened and closed.                                                      *)
TempMaterialsUsed ==
  /\ ~raced /\ (\A t \in Thread : ~Busy(t))
  /\ contents # 0 /\ temp[Starfield] \in withMat
  => temp[Starfield] \in sources

(* gamemanager.h of the id: "Previously returned material pointers become  *)
(* invalid when this value changes", and no earlier: a material kept with  *)
(* the present id is one of the present database.                          *)
KeptUntilIdChanges == kept.id = id /\ kept.from # 0 => kept.from = contents

(* Calls that come one at a time keep to it at each of their steps.        *)
KeptIsCurrent == ~raced => KeptUntilIdChanges

(* The search for the temporary folder of a document comes to an end, and  *)
(* so does the load's use of it, in each thread.                           *)
LoadEnds ==
  \A t \in {Gui} \cup Worker : thread[t].pc = "search" ~> Idle(t)
=============================================================================
