-------------------------- MODULE ResourcesProofs --------------------------
(***************************************************************************)
(* The invariants of Resources for all games, workers, files and bounds.   *)
(*                                                                         *)
(* As long as the calls have come one at a time, all threads but one are   *)
(* at rest, and how the variables are related depends on where that one    *)
(* is: the parts below are about the record s of that thread.              *)
(***************************************************************************)
EXTENDS Resources, TLAPS

(* What the database was read from is open, and until it is closed nothing *)
(* of that is given up.                                                    *)
Sources(s) ==
  /\ contents # 0 => /\ main[Starfield] # 0 /\ main[Starfield] \in sources
                     /\ 0 \notin sources
                     /\ sources \subseteq {main[Starfield], temp[Starfield]}
  /\ s.pc \in {"archives", "load", "id", "read"} => contents = 0
  /\ s.pc \in {"drop", "new", "fill"} =>
       contents = 0 \/ (s.call = "get_file" /\ s.game # Starfield)
  /\ s.pc \in {"id", "read"} => main[Starfield] # 0
  /\ s.pc \in {"deleteFirst", "use"} /\ s.closing = "no" => contents = 0

(* The database counts as loaded but while it is closed or just read.      *)
Unmarked(s) == s.closing \in {"useTemp", "clear"} \/ s.pc = "mark"

Flags(s) ==
  /\ loaded => contents # 0
  /\ contents # 0 => loaded \/ Unmarked(s)
  /\ Unmarked(s) => ~loaded /\ contents # 0
  /\ s.closing \in {"id", "loaded"} => loaded
  /\ s.closing = "id" \/ s.pc = "id" => s.seen = id
  /\ s.pc = "drop" => s.closing = "no" \/ (s.closing = "test" /\ contents = 0)

(* A kept material is of an older id before the database changes.          *)
Kept(s) ==
  /\ id > 0 /\ kept.id <= id
  /\ KeptUntilIdChanges
  /\ s.closing \in {"loaded", "useTemp", "clear"} \/ s.pc = "read" => kept.id # id
  /\ s.pc \in {"materials", "archives", "load", "id", "read"} =>
       s.call = "materials" \/ kept.from = 0
  /\ s.pc \in {"drop", "new", "fill"} => s.call \in {"get_file", "materials"} \/ kept.from = 0
  /\ s.pc = "stamp" => kept.from \in {0, contents}

(* A folder whose materials the database has is marked as used, and one    *)
(* that has materials is, even while the database is not loaded; but not   *)
(* while it is deleted or taken into use.                                  *)
Deletes(s) == s.pc = "deleteSecond" \/ (s.pc = "dropTemp" /\ s.game = Starfield)

Folder(s) ==
  /\ 0 \notin withMat
  /\ temp[Starfield] \in withMat => useTemp \/ Deletes(s) \/ s.pc = "use"
  /\ contents # 0 /\ temp[Starfield] # 0 /\ temp[Starfield] \in sources =>
       useTemp \/ s.closing = "clear"
  /\ contents # 0 /\ temp[Starfield] \in withMat => temp[Starfield] \in sources \/ s.pc = "use"
  /\ s.pc \in {"first", "deleteFirst"} => temp[Starfield] = 0
  /\ s.pc = "newTemp" => temp[s.game] = 0
  /\ s.pc = "scan" /\ s.game = Starfield =>
       temp[Starfield] # 0 /\ (contents # 0 => temp[Starfield] \notin sources)
  /\ Deletes(s) /\ s.closing = "no" /\ contents # 0 => temp[Starfield] \notin sources

Facts(s) == Sources(s) /\ Flags(s) /\ Kept(s) /\ Folder(s)

(* close_materials is called from these places only.                       *)
Closers ==
  \A t \in Thread : thread[t].closing # "no" =>
    \/ thread[t].pc \in {"drop", "deleteSecond", "deleteFirst", "use"}
    \/ thread[t].pc = "dropTemp" /\ thread[t].game = Starfield

OthersRest(t) == \A u \in Thread \ {t} : ~Busy(u)

Alone == \E t \in Thread : OthersRest(t) /\ Facts(thread[t])

IInv == TypeOK /\ Closers /\ (~raced => Alone)

USE GameAssumption, ThreadAssumption, KindAssumption, BoundAssumption
    DEF GameAssumption, ThreadAssumption, KindAssumption, BoundAssumption, Thread

-----------------------------------------------------------------------------
(* What a thread goes on with leaves the others where they are.            *)
Stays(t) == thread' \in [Thread -> Place] /\ \A u \in Thread \ {t} : thread'[u] = thread[u]

LEMMA InPlace ==
  ASSUME NEW c \in Call, NEW g \in Game, NEW l \in Label
  PROVE  In(c, g, l) \in Place
<1>1. "no" \in Closing /\ 0 \in Nat
  BY DEF Closing
<1> QED
  BY <1>1 DEF In, Place

LEMMA OutsidePlace == Outside \in Place
  BY InPlace DEF Outside, Call, Label

LEMMA MoveStays ==
  ASSUME ThreadsOK, NEW t \in Thread, NEW r \in Place, thread' = [thread EXCEPT ![t] = r]
  PROVE  Stays(t) /\ thread'[t] = r
  BY DEF ThreadsOK, Stays, Place

LEMMA GoesTo ==
  ASSUME ThreadsOK, NEW t \in Thread, NEW l \in Label, Goes(t, l)
  PROVE  Stays(t) /\ thread'[t] = [thread[t] EXCEPT !.pc = l]
<1>1. thread' = [thread EXCEPT ![t] = [thread[t] EXCEPT !.pc = l]]
  BY DEF Goes
<1>2. [thread[t] EXCEPT !.pc = l] \in Place
  BY DEF ThreadsOK, Place
<1> QED
  BY <1>1, <1>2, MoveStays

LEMMA ClosesTo ==
  ASSUME ThreadsOK, NEW t \in Thread, NEW l \in Label, Closes(t, l)
  PROVE  Stays(t) /\ thread'[t] = [thread[t] EXCEPT !.pc = l, !.closing = "test"]
<1>1. thread' = [thread EXCEPT ![t] = [thread[t] EXCEPT !.pc = l, !.closing = "test"]]
  BY DEF ThreadsOK, Closes
<1>2. [thread[t] EXCEPT !.pc = l, !.closing = "test"] \in Place
  <2>1. "test" \in Closing
    BY DEF Closing
  <2> QED
    BY <2>1 DEF ThreadsOK, Place
<1> QED
  BY <1>1, <1>2, MoveStays

LEMMA ReturnsTo ==
  ASSUME ThreadsOK, NEW t \in Thread, Returns(t)
  PROVE  Stays(t) /\ thread'[t] = Outside
  BY MoveStays, OutsidePlace DEF Returns

LEMMA OpenedTo ==
  ASSUME ThreadsOK, NEW t \in Thread, Opened(t)
  PROVE  /\ Stays(t)
         /\ thread'[t] = IF thread[t].call = "get_file" THEN Outside
                         ELSE [thread[t] EXCEPT !.pc = "load"]
  BY ReturnsTo, GoesTo DEF Opened, Label

LEMMA FoundTo ==
  ASSUME ThreadsOK, NEW t \in Thread, NEW l \in Label, Found(t, l)
  PROVE  /\ Stays(t)
         /\ thread'[t] = IF thread[t].call = "materials" THEN Outside
                         ELSE [thread[t] EXCEPT !.pc = l]
  BY ReturnsTo, GoesTo DEF Found

LEMMA OpenTempTo ==
  ASSUME ThreadsOK, NEW t \in Thread, OpenTemp(t)
  PROVE  /\ Stays(t)
         /\ thread'[t] = IF thread[t].call = "empty" THEN Outside
                         ELSE [thread[t] EXCEPT !.pc = "newTemp"]
  BY ReturnsTo, GoesTo DEF OpenTemp, Label

LEMMA ClosingTo ==
  ASSUME ThreadsOK, NEW t \in Thread, NEW c \in Closing,
         thread' = [thread EXCEPT ![t].closing = c]
  PROVE  Stays(t) /\ thread'[t] = [thread[t] EXCEPT !.closing = c]
<1>1. thread' = [thread EXCEPT ![t] = [thread[t] EXCEPT !.closing = c]]
  BY DEF ThreadsOK
<1>2. [thread[t] EXCEPT !.closing = c] \in Place
  BY DEF ThreadsOK, Place
<1> QED
  BY <1>1, <1>2, MoveStays

LEMMA SeenTo ==
  ASSUME ThreadsOK, NEW t \in Thread, NEW r \in Place, NEW n, n \in Nat,
         thread' = [thread EXCEPT ![t] = [r EXCEPT !.seen = n]]
  PROVE  Stays(t) /\ thread'[t] = [r EXCEPT !.seen = n]
<1>1. [r EXCEPT !.seen = n] \in Place
  BY DEF Place
<1> QED
  BY <1>1, MoveStays

-----------------------------------------------------------------------------
(* The steps of a thread: each keeps the types, and what is known of where *)
(* the thread is.                                                          *)
Moved(t) ==
  /\ ArchivesOK' /\ MaterialsOK' /\ Stays(t) /\ Closers'
  /\ Facts(thread[t]) => Facts(thread[t])'

LEMMA ClosersMove ==
  ASSUME Closers, NEW t \in Thread, Stays(t),
         thread'[t].closing # "no" =>
           \/ thread'[t].pc \in {"drop", "deleteSecond", "deleteFirst", "use"}
           \/ thread'[t].pc = "dropTemp" /\ thread'[t].game = Starfield
  PROVE  Closers'
  BY DEF Closers, Stays

LEMMA TestLoadedMoves ==
  ASSUME TypeOK, Closers, NEW t \in Thread, TestLoaded(t)
  PROVE  Moved(t)
<1>1. ArchivesOK' /\ MaterialsOK'
  BY DEF TestLoaded, archives, materials, TypeOK, ArchivesOK, MaterialsOK,
      ThreadsOK, Place
<1>2. CASE loaded
  <2>1. [thread[t] EXCEPT !.closing = "id"] \in Place
    BY DEF TypeOK, ThreadsOK, Place, Closing
  <2>2. thread' = [thread EXCEPT ![t] = [[thread[t] EXCEPT !.closing = "id"] EXCEPT !.seen = id]]
    BY <1>2 DEF TestLoaded, TypeOK, ThreadsOK
  <2>3. Stays(t) /\ thread'[t] = [thread[t] EXCEPT !.closing = "id", !.seen = id]
    BY <2>1, <2>2, SeenTo DEF TypeOK, MaterialsOK
  <2>4. Closers'
    BY <1>2, <2>3, ClosersMove DEF TestLoaded, At, Closers, TypeOK,
        ThreadsOK, Place, Outside, In
  <2>5. ASSUME Facts(thread[t]) PROVE Facts(thread[t])'
    BY <1>2, <2>3, <2>5 DEF TestLoaded, At, Closers, archives, materials,
        TypeOK, ArchivesOK, MaterialsOK, ThreadsOK, Place, Facts, Sources,
        Flags, Unmarked, Kept, KeptUntilIdChanges, Folder, Deletes, Outside, In
  <2> QED
    BY <1>1, <2>3, <2>4, <2>5 DEF Moved
<1>3. CASE ~loaded
  <2>1. "no" \in Closing
    BY DEF Closing
  <2>2. Stays(t) /\ thread'[t] = [thread[t] EXCEPT !.closing = "no"]
    BY <1>3, <2>1, ClosingTo DEF TestLoaded, TypeOK
  <2>3. Closers'
    BY <1>3, <2>2, ClosersMove DEF TestLoaded, At, Closers, TypeOK,
        ThreadsOK, Place, Outside, In
  <2>4. ASSUME Facts(thread[t]) PROVE Facts(thread[t])'
    BY <1>3, <2>2, <2>4 DEF TestLoaded, At, Closers, archives, materials,
        TypeOK, ArchivesOK, MaterialsOK, ThreadsOK, Place, Facts, Sources,
        Flags, Unmarked, Kept, KeptUntilIdChanges, Folder, Deletes, Outside, In
  <2> QED
    BY <1>1, <2>2, <2>3, <2>4 DEF Moved
<1> QED
  BY <1>2, <1>3 DEF TestLoaded

LEMMA ChangeIdMoves ==
  ASSUME TypeOK, Closers, NEW t \in Thread, ChangeId(t)
  PROVE  Moved(t)
<1>1. ArchivesOK' /\ MaterialsOK'
  BY DEF ChangeId, archives, materials, TypeOK, ArchivesOK, MaterialsOK,
      ThreadsOK, Place
<1>2. [thread[t] EXCEPT !.closing = "loaded"] \in Place
  BY DEF TypeOK, ThreadsOK, Place, Closing
<1>3. thread' = [thread EXCEPT ![t] = [[thread[t] EXCEPT !.closing = "loaded"] EXCEPT !.seen = 0]]
  BY DEF ChangeId, TypeOK, ThreadsOK
<1>4. Stays(t) /\ thread'[t] = [thread[t] EXCEPT !.closing = "loaded", !.seen = 0]
  BY <1>2, <1>3, SeenTo DEF TypeOK, MaterialsOK
<1>5. Closers'
  BY <1>4, ClosersMove DEF ChangeId, At, Closers, TypeOK, ThreadsOK, Place,
      Outside, In
<1>6. ASSUME Facts(thread[t]) PROVE Facts(thread[t])'
  BY <1>4, <1>6 DEF ChangeId, At, Closers, archives, materials, TypeOK,
      ArchivesOK, MaterialsOK, ThreadsOK, Place, Facts, Sources, Flags,
      Unmarked, Kept, KeptUntilIdChanges, Folder, Deletes, Outside, In
<1> QED
  BY <1>1, <1>4, <1>5, <1>6 DEF Moved

LEMMA ResetLoadedMoves ==
  ASSUME TypeOK, Closers, NEW t \in Thread, ResetLoaded(t)
  PROVE  Moved(t)
<1>1. ArchivesOK' /\ MaterialsOK'
  BY DEF ResetLoaded, archives, materials, TypeOK, ArchivesOK, MaterialsOK,
      ThreadsOK, Place
<1>2. "useTemp" \in Closing
  BY DEF Closing
<1>3. Stays(t) /\ thread'[t] = [thread[t] EXCEPT !.closing = "useTemp"]
  BY <1>2, ClosingTo DEF ResetLoaded, TypeOK
<1>4. Closers'
  BY <1>3, ClosersMove DEF ResetLoaded, At, Closers, TypeOK, ThreadsOK,
      Place, Outside, In
<1>5. ASSUME Facts(thread[t]) PROVE Facts(thread[t])'
  BY <1>3, <1>5 DEF ResetLoaded, At, Closers, archives, materials, TypeOK,
      ArchivesOK, MaterialsOK, ThreadsOK, Place, Facts, Sources, Flags,
      Unmarked, Kept, KeptUntilIdChanges, Folder, Deletes, Outside, In
<1> QED
  BY <1>1, <1>3, <1>4, <1>5 DEF Moved

LEMMA ResetUseTempMoves ==
  ASSUME TypeOK, Closers, NEW t \in Thread, ResetUseTemp(t)
  PROVE  Moved(t)
<1>1. ArchivesOK' /\ MaterialsOK'
  BY DEF ResetUseTemp, archives, materials, TypeOK, ArchivesOK, MaterialsOK,
      ThreadsOK, Place
<1>2. "clear" \in Closing
  BY DEF Closing
<1>3. Stays(t) /\ thread'[t] = [thread[t] EXCEPT !.closing = "clear"]
  BY <1>2, ClosingTo DEF ResetUseTemp, TypeOK
<1>4. Closers'
  BY <1>3, ClosersMove DEF ResetUseTemp, At, Closers, TypeOK, ThreadsOK,
      Place, Outside, In
<1>5. ASSUME Facts(thread[t]) PROVE Facts(thread[t])'
  <2>1. Sources(thread[t])'
    BY <1>3, <1>5 DEF ResetUseTemp, At, Closers, archives, materials, TypeOK,
        ArchivesOK, MaterialsOK, ThreadsOK, Place, Facts, Sources, Flags,
        Unmarked, Folder, Deletes, Outside, In
  <2>2. Flags(thread[t])'
    BY <1>3, <1>5 DEF ResetUseTemp, At, Closers, archives, materials, TypeOK,
        ArchivesOK, MaterialsOK, ThreadsOK, Place, Facts, Sources, Flags,
        Unmarked, Outside, In
  <2>3. Kept(thread[t])'
    BY <1>3, <1>5 DEF ResetUseTemp, At, Closers, archives, materials, TypeOK,
        ArchivesOK, MaterialsOK, ThreadsOK, Place, Facts, Sources, Flags,
        Unmarked, Kept, KeptUntilIdChanges, Outside, In
  <2>4. Folder(thread[t])'
    BY <1>3, <1>5 DEF ResetUseTemp, At, Closers, archives, materials, TypeOK,
        ArchivesOK, MaterialsOK, ThreadsOK, Place, Facts, Sources, Flags,
        Unmarked, Folder, Deletes, Outside, In
  <2> QED
    BY <2>1, <2>2, <2>3, <2>4 DEF Facts
<1> QED
  BY <1>1, <1>3, <1>4, <1>5 DEF Moved

LEMMA ClearMoves ==
  ASSUME TypeOK, Closers, NEW t \in Thread, Clear(t)
  PROVE  Moved(t)
<1>1. ArchivesOK' /\ MaterialsOK'
  BY DEF Clear, archives, materials, TypeOK, ArchivesOK, MaterialsOK,
      ThreadsOK, Place
<1>2. "no" \in Closing
  BY DEF Closing
<1>3. Stays(t) /\ thread'[t] = [thread[t] EXCEPT !.closing = "no"]
  BY <1>2, ClosingTo DEF Clear, TypeOK
<1>4. Closers'
  BY <1>3, ClosersMove DEF Clear, At, Closers, TypeOK, ThreadsOK, Place,
      Outside, In
<1>5. ASSUME Facts(thread[t]) PROVE Facts(thread[t])'
  <2>1. Sources(thread[t])'
    BY <1>3, <1>5 DEF Clear, At, Closers, archives, materials, TypeOK,
        ArchivesOK, MaterialsOK, ThreadsOK, Place, Facts, Sources, Flags,
        Unmarked, Folder, Deletes, Outside, In
  <2>2. Flags(thread[t])'
    BY <1>3, <1>5 DEF Clear, At, Closers, archives, materials, TypeOK,
        ArchivesOK, MaterialsOK, ThreadsOK, Place, Facts, Sources, Flags,
        Unmarked, Outside, In
  <2>3. Kept(thread[t])'
    BY <1>3, <1>5 DEF Clear, At, Closers, archives, materials, TypeOK,
        ArchivesOK, MaterialsOK, ThreadsOK, Place, Facts, Sources, Flags,
        Unmarked, Kept, KeptUntilIdChanges, Outside, In
  <2>4. Folder(thread[t])'
    BY <1>3, <1>5 DEF Clear, At, Closers, archives, materials, TypeOK,
        ArchivesOK, MaterialsOK, ThreadsOK, Place, Facts, Sources, Flags,
        Unmarked, Folder, Deletes, Outside, In
  <2> QED
    BY <2>1, <2>2, <2>3, <2>4 DEF Facts
<1> QED
  BY <1>1, <1>3, <1>4, <1>5 DEF Moved

LEMMA DropArchivesMoves ==
  ASSUME TypeOK, Closers, NEW t \in Thread, DropArchives(t)
  PROVE  Moved(t)
<1>1. ArchivesOK' /\ MaterialsOK'
  BY DEF DropArchives, archives, materials, TypeOK, ArchivesOK, MaterialsOK,
      ThreadsOK, Place
<1>2. CASE Goes(t, "new")
  <2>1. "new" \in Label
    BY DEF Label
  <2>2. Stays(t) /\ thread'[t] = [thread[t] EXCEPT !.pc = "new"]
    BY <1>2, <2>1, GoesTo DEF DropArchives, TypeOK
  <2>3. Closers'
    BY <1>2, <2>2, ClosersMove DEF DropArchives, At, Closers, TypeOK,
        ThreadsOK, Place, Outside, In
  <2>4. ASSUME Facts(thread[t]) PROVE Facts(thread[t])'
    BY <1>2, <2>2, <2>4 DEF DropArchives, At, Closers, archives, materials,
        TypeOK, ArchivesOK, MaterialsOK, ThreadsOK, Place, Facts, Sources,
        Flags, Unmarked, Kept, KeptUntilIdChanges, Folder, Deletes, Outside, In
  <2> QED
    BY <1>1, <2>2, <2>3, <2>4 DEF Moved
<1>3. CASE Opened(t)
  <2>1. Stays(t) /\ thread'[t] = IF thread[t].call = "get_file" THEN Outside
                             ELSE [thread[t] EXCEPT !.pc = "load"]
    BY <1>3, OpenedTo DEF DropArchives, TypeOK
  <2>2. Closers'
    BY <1>3, <2>1, ClosersMove DEF DropArchives, At, Closers, TypeOK,
        ThreadsOK, Place, Outside, In
  <2>3. ASSUME Facts(thread[t]) PROVE Facts(thread[t])'
    BY <1>3, <2>1, <2>3 DEF DropArchives, At, Closers, archives, materials,
        TypeOK, ArchivesOK, MaterialsOK, ThreadsOK, Place, Facts, Sources,
        Flags, Unmarked, Kept, KeptUntilIdChanges, Folder, Deletes, Outside, In
  <2> QED
    BY <1>1, <2>1, <2>2, <2>3 DEF Moved
<1> QED
  BY <1>2, <1>3 DEF DropArchives

LEMMA NewArchivesMoves ==
  ASSUME TypeOK, Closers, NEW t \in Thread, NewArchives(t)
  PROVE  Moved(t)
<1>1. ArchivesOK' /\ MaterialsOK'
  BY DEF NewArchives, archives, materials, TypeOK, ArchivesOK, MaterialsOK,
      ThreadsOK, Place
<1>2. "fill" \in Label
  BY DEF Label
<1>3. Stays(t) /\ thread'[t] = [thread[t] EXCEPT !.pc = "fill"]
  BY <1>2, GoesTo DEF NewArchives, TypeOK
<1>4. Closers'
  BY <1>3, ClosersMove DEF NewArchives, At, Closers, TypeOK, ThreadsOK,
      Place, Outside, In
<1>5. ASSUME Facts(thread[t]) PROVE Facts(thread[t])'
  BY <1>3, <1>5 DEF NewArchives, At, Closers, archives, materials, TypeOK,
      ArchivesOK, MaterialsOK, ThreadsOK, Place, Facts, Sources, Flags,
      Unmarked, Kept, KeptUntilIdChanges, Folder, Deletes, Outside, In
<1> QED
  BY <1>1, <1>3, <1>4, <1>5 DEF Moved

LEMMA FillArchivesMoves ==
  ASSUME TypeOK, Closers, NEW t \in Thread, FillArchives(t)
  PROVE  Moved(t)
<1>1. ArchivesOK' /\ MaterialsOK'
  BY DEF FillArchives, archives, materials, TypeOK, ArchivesOK, MaterialsOK,
      ThreadsOK, Place
<1>2. Stays(t) /\ thread'[t] = IF thread[t].call = "get_file" THEN Outside
                           ELSE [thread[t] EXCEPT !.pc = "load"]
  BY OpenedTo DEF FillArchives, TypeOK
<1>3. Closers'
  BY <1>2, ClosersMove DEF FillArchives, At, Closers, TypeOK, ThreadsOK,
      Place, Outside, In
<1>4. ASSUME Facts(thread[t]) PROVE Facts(thread[t])'
  BY <1>2, <1>4 DEF FillArchives, At, Closers, archives, materials, TypeOK,
      ArchivesOK, MaterialsOK, ThreadsOK, Place, Facts, Sources, Flags,
      Unmarked, Kept, KeptUntilIdChanges, Folder, Deletes, Outside, In
<1> QED
  BY <1>1, <1>2, <1>3, <1>4 DEF Moved

LEMMA TestDatabaseMoves ==
  ASSUME TypeOK, Closers, NEW t \in Thread, TestDatabase(t)
  PROVE  Moved(t)
<1>1. ArchivesOK' /\ MaterialsOK'
  BY DEF TestDatabase, archives, materials, TypeOK, ArchivesOK, MaterialsOK,
      ThreadsOK, Place
<1>2. CASE loaded
  <2>1. "look" \in Label
    BY DEF Label
  <2>2. Stays(t) /\ thread'[t] = IF thread[t].call = "materials" THEN Outside
                             ELSE [thread[t] EXCEPT !.pc = "look"]
    BY <1>2, <2>1, FoundTo DEF TestDatabase, TypeOK
  <2>3. Closers'
    BY <1>2, <2>2, ClosersMove DEF TestDatabase, At, Closers, TypeOK,
        ThreadsOK, Place, Outside, In
  <2>4. ASSUME Facts(thread[t]) PROVE Facts(thread[t])'
    BY <1>2, <2>2, <2>4 DEF TestDatabase, At, Closers, archives, materials,
        TypeOK, ArchivesOK, MaterialsOK, ThreadsOK, Place, Facts, Sources,
        Flags, Unmarked, Kept, KeptUntilIdChanges, Folder, Deletes, Outside, In
  <2> QED
    BY <1>1, <2>2, <2>3, <2>4 DEF Moved
<1>3. CASE ~loaded
  <2>1. "archives" \in Label
    BY DEF Label
  <2>2. Stays(t) /\ thread'[t] = [thread[t] EXCEPT !.pc = "archives"]
    BY <1>3, <2>1, GoesTo DEF TestDatabase, TypeOK
  <2>3. Closers'
    BY <1>3, <2>2, ClosersMove DEF TestDatabase, At, Closers, TypeOK,
        ThreadsOK, Place, Outside, In
  <2>4. ASSUME Facts(thread[t]) PROVE Facts(thread[t])'
    BY <1>3, <2>2, <2>4 DEF TestDatabase, At, Closers, archives, materials,
        TypeOK, ArchivesOK, MaterialsOK, ThreadsOK, Place, Facts, Sources,
        Flags, Unmarked, Kept, KeptUntilIdChanges, Folder, Deletes, Outside, In
  <2> QED
    BY <1>1, <2>2, <2>3, <2>4 DEF Moved
<1> QED
  BY <1>2, <1>3 DEF TestDatabase

LEMMA TestArchivesMoves ==
  ASSUME TypeOK, Closers, NEW t \in Thread, TestArchives(t)
  PROVE  Moved(t)
<1>1. ArchivesOK' /\ MaterialsOK'
  BY DEF TestArchives, archives, materials, TypeOK, ArchivesOK, MaterialsOK,
      ThreadsOK, Place
<1>2. CASE main[Starfield] = 0
  <2>1. thread' = [thread EXCEPT ![t] = [thread[t] EXCEPT !.pc = "drop", !.closing = "test"]]
    BY <1>2 DEF TestArchives, OpenFolders
  <2>2. Stays(t) /\ thread'[t] = [thread[t] EXCEPT !.pc = "drop", !.closing = "test"]
    <3>1. "drop" \in Label /\ "test" \in Closing
      BY DEF Label, Closing
    <3>2. [thread[t] EXCEPT !.pc = "drop", !.closing = "test"] \in Place
      BY <3>1 DEF TypeOK, ThreadsOK, Place
    <3> QED
      BY <2>1, <3>2, MoveStays DEF TypeOK
  <2>3. thread'[t].pc = "drop"
    BY <2>2 DEF TypeOK, ThreadsOK, Place
  <2>4. Closers'
    BY <2>2, <2>3, ClosersMove
  <2>5. ASSUME Facts(thread[t]) PROVE Facts(thread[t])'
    BY <1>2, <2>2, <2>5 DEF TestArchives, At, Closers, archives, materials,
        TypeOK, ArchivesOK, MaterialsOK, ThreadsOK, Place, Facts, Sources,
        Flags, Unmarked, Kept, KeptUntilIdChanges, Folder, Deletes, Outside, In
  <2> QED
    BY <1>1, <2>2, <2>4, <2>5 DEF Moved
<1>3. CASE main[Starfield] # 0
  <2>1. "load" \in Label
    BY DEF Label
  <2>2. Stays(t) /\ thread'[t] = [thread[t] EXCEPT !.pc = "load"]
    BY <1>3, <2>1, GoesTo DEF TestArchives, TypeOK
  <2>3. Closers'
    BY <1>3, <2>2, ClosersMove DEF TestArchives, At, Closers, TypeOK,
        ThreadsOK, Place, Outside, In
  <2>4. ASSUME Facts(thread[t]) PROVE Facts(thread[t])'
    BY <1>3, <2>2, <2>4 DEF TestArchives, At, Closers, archives, materials,
        TypeOK, ArchivesOK, MaterialsOK, ThreadsOK, Place, Facts, Sources,
        Flags, Unmarked, Kept, KeptUntilIdChanges, Folder, Deletes, Outside, In
  <2> QED
    BY <1>1, <2>2, <2>3, <2>4 DEF Moved
<1> QED
  BY <1>2, <1>3 DEF TestArchives

LEMMA BeginReadMoves ==
  ASSUME TypeOK, Closers, NEW t \in Thread, BeginRead(t)
  PROVE  Moved(t)
<1>1. ArchivesOK' /\ MaterialsOK'
  BY DEF BeginRead, archives, materials, TypeOK, ArchivesOK, MaterialsOK,
      ThreadsOK, Place
<1>2. CASE main[Starfield] = 0
  <2>1. "look" \in Label
    BY DEF Label
  <2>2. Stays(t) /\ thread'[t] = IF thread[t].call = "materials" THEN Outside
                             ELSE [thread[t] EXCEPT !.pc = "look"]
    BY <1>2, <2>1, FoundTo DEF BeginRead, TypeOK
  <2>3. Closers'
    BY <1>2, <2>2, ClosersMove DEF BeginRead, At, Closers, TypeOK, ThreadsOK,
        Place, Outside, In
  <2>4. ASSUME Facts(thread[t]) PROVE Facts(thread[t])'
    <3>1. Sources(thread[t])'
      BY <1>2, <2>2, <2>4 DEF BeginRead, At, Closers, archives, materials,
          TypeOK, ArchivesOK, MaterialsOK, ThreadsOK, Place, Facts, Sources,
          Flags, Unmarked, Folder, Deletes, Outside, In
    <3>2. Flags(thread[t])'
      BY <1>2, <2>2, <2>4 DEF BeginRead, At, Closers, archives, materials,
          TypeOK, ArchivesOK, MaterialsOK, ThreadsOK, Place, Facts, Sources,
          Flags, Unmarked, Outside, In
    <3>3. Kept(thread[t])'
      BY <1>2, <2>2, <2>4 DEF BeginRead, At, Closers, archives, materials,
          TypeOK, ArchivesOK, MaterialsOK, ThreadsOK, Place, Facts, Sources,
          Flags, Unmarked, Kept, KeptUntilIdChanges, Outside, In
    <3>4. Folder(thread[t])'
      BY <1>2, <2>2, <2>4 DEF BeginRead, At, Closers, archives, materials,
          TypeOK, ArchivesOK, MaterialsOK, ThreadsOK, Place, Facts, Sources,
          Flags, Unmarked, Folder, Deletes, Outside, In
    <3> QED
      BY <3>1, <3>2, <3>3, <3>4 DEF Facts
  <2> QED
    BY <1>1, <2>2, <2>3, <2>4 DEF Moved
<1>3. CASE main[Starfield] # 0
  <2>1. [thread[t] EXCEPT !.pc = "id"] \in Place
    BY DEF TypeOK, ThreadsOK, Place, Label
  <2>2. thread' = [thread EXCEPT ![t] = [[thread[t] EXCEPT !.pc = "id"] EXCEPT !.seen = id]]
    BY <1>3 DEF BeginRead, TypeOK, ThreadsOK
  <2>3. Stays(t) /\ thread'[t] = [thread[t] EXCEPT !.pc = "id", !.seen = id]
    BY <2>1, <2>2, SeenTo DEF TypeOK, MaterialsOK
  <2>4. Closers'
    BY <1>3, <2>3, ClosersMove DEF BeginRead, At, Closers, TypeOK, ThreadsOK,
        Place, Outside, In
  <2>5. ASSUME Facts(thread[t]) PROVE Facts(thread[t])'
    <3>1. Sources(thread[t])'
      BY <1>3, <2>3, <2>5 DEF BeginRead, At, Closers, archives, materials,
          TypeOK, ArchivesOK, MaterialsOK, ThreadsOK, Place, Facts, Sources,
          Flags, Unmarked, Folder, Deletes, Outside, In
    <3>2. Flags(thread[t])'
      BY <1>3, <2>3, <2>5 DEF BeginRead, At, Closers, archives, materials,
          TypeOK, ArchivesOK, MaterialsOK, ThreadsOK, Place, Facts, Sources,
          Flags, Unmarked, Outside, In
    <3>3. Kept(thread[t])'
      BY <1>3, <2>3, <2>5 DEF BeginRead, At, Closers, archives, materials,
          TypeOK, ArchivesOK, MaterialsOK, ThreadsOK, Place, Facts, Sources,
          Flags, Unmarked, Kept, KeptUntilIdChanges, Outside, In
    <3>4. Folder(thread[t])'
      BY <1>3, <2>3, <2>5 DEF BeginRead, At, Closers, archives, materials,
          TypeOK, ArchivesOK, MaterialsOK, ThreadsOK, Place, Facts, Sources,
          Flags, Unmarked, Folder, Deletes, Outside, In
    <3> QED
      BY <3>1, <3>2, <3>3, <3>4 DEF Facts
  <2> QED
    BY <1>1, <2>3, <2>4, <2>5 DEF Moved
<1> QED
  BY <1>2, <1>3 DEF BeginRead

LEMMA NextIdMoves ==
  ASSUME TypeOK, Closers, NEW t \in Thread, NextId(t)
  PROVE  Moved(t)
<1>1. ArchivesOK' /\ MaterialsOK'
  BY DEF NextId, archives, materials, TypeOK, ArchivesOK, MaterialsOK,
      ThreadsOK, Place
<1>2. [thread[t] EXCEPT !.pc = "read"] \in Place
  BY DEF TypeOK, ThreadsOK, Place, Label
<1>3. thread' = [thread EXCEPT ![t] = [[thread[t] EXCEPT !.pc = "read"] EXCEPT !.seen = 0]]
  BY DEF NextId, TypeOK, ThreadsOK
<1>4. Stays(t) /\ thread'[t] = [thread[t] EXCEPT !.pc = "read", !.seen = 0]
  BY <1>2, <1>3, SeenTo DEF TypeOK, MaterialsOK
<1>5. Closers'
  BY <1>4, ClosersMove DEF NextId, At, Closers, TypeOK, ThreadsOK, Place,
      Outside, In
<1>6. ASSUME Facts(thread[t]) PROVE Facts(thread[t])'
  BY <1>4, <1>6 DEF NextId, At, Closers, archives, materials, TypeOK,
      ArchivesOK, MaterialsOK, ThreadsOK, Place, Facts, Sources, Flags,
      Unmarked, Kept, KeptUntilIdChanges, Folder, Deletes, Outside, In
<1> QED
  BY <1>1, <1>4, <1>5, <1>6 DEF Moved

LEMMA ReadArchivesMoves ==
  ASSUME TypeOK, Closers, NEW t \in Thread, ReadArchives(t)
  PROVE  Moved(t)
<1>1. ArchivesOK' /\ MaterialsOK'
  BY DEF ReadArchives, archives, materials, TypeOK, ArchivesOK, MaterialsOK,
      ThreadsOK, Place
<1>2. "mark" \in Label
  BY DEF Label
<1>3. Stays(t) /\ thread'[t] = [thread[t] EXCEPT !.pc = "mark"]
  BY <1>2, GoesTo DEF ReadArchives, TypeOK
<1>4. Closers'
  BY <1>3, ClosersMove DEF ReadArchives, At, Closers, TypeOK, ThreadsOK,
      Place, Outside, In
<1>5. ASSUME Facts(thread[t]) PROVE Facts(thread[t])'
  BY <1>3, <1>5 DEF ReadArchives, At, Closers, archives, materials, TypeOK,
      ArchivesOK, MaterialsOK, ThreadsOK, Place, Facts, Sources, Flags,
      Unmarked, Kept, KeptUntilIdChanges, Folder, Deletes, Outside, In
<1> QED
  BY <1>1, <1>3, <1>4, <1>5 DEF Moved

LEMMA ReadFailsMoves ==
  ASSUME TypeOK, Closers, NEW t \in Thread, ReadFails(t)
  PROVE  Moved(t)
<1>1. ArchivesOK' /\ MaterialsOK'
  BY DEF ReadFails, archives, materials, TypeOK, ArchivesOK, MaterialsOK,
      ThreadsOK, Place
<1>2. "stamp" \in Label
  BY DEF Label
<1>3. Stays(t) /\ thread'[t] = IF thread[t].call = "materials" THEN Outside
                           ELSE [thread[t] EXCEPT !.pc = "stamp"]
  BY <1>2, FoundTo DEF ReadFails, TypeOK
<1>4. Closers'
  BY <1>3, ClosersMove DEF ReadFails, At, Closers, TypeOK, ThreadsOK, Place,
      Outside, In
<1>5. ASSUME Facts(thread[t]) PROVE Facts(thread[t])'
  BY <1>3, <1>5 DEF ReadFails, At, Closers, archives, materials, TypeOK,
      ArchivesOK, MaterialsOK, ThreadsOK, Place, Facts, Sources, Flags,
      Unmarked, Kept, KeptUntilIdChanges, Folder, Deletes, Outside, In
<1> QED
  BY <1>1, <1>3, <1>4, <1>5 DEF Moved

LEMMA MarkLoadedMoves ==
  ASSUME TypeOK, Closers, NEW t \in Thread, MarkLoaded(t)
  PROVE  Moved(t)
<1>1. ArchivesOK' /\ MaterialsOK'
  BY DEF MarkLoaded, archives, materials, TypeOK, ArchivesOK, MaterialsOK,
      ThreadsOK, Place
<1>2. "look" \in Label
  BY DEF Label
<1>3. Stays(t) /\ thread'[t] = IF thread[t].call = "materials" THEN Outside
                           ELSE [thread[t] EXCEPT !.pc = "look"]
  BY <1>2, FoundTo DEF MarkLoaded, TypeOK
<1>4. Closers'
  BY <1>3, ClosersMove DEF MarkLoaded, At, Closers, TypeOK, ThreadsOK, Place,
      Outside, In
<1>5. ASSUME Facts(thread[t]) PROVE Facts(thread[t])'
  BY <1>3, <1>5 DEF MarkLoaded, At, Closers, archives, materials, TypeOK,
      ArchivesOK, MaterialsOK, ThreadsOK, Place, Facts, Sources, Flags,
      Unmarked, Kept, KeptUntilIdChanges, Folder, Deletes, Outside, In
<1> QED
  BY <1>1, <1>3, <1>4, <1>5 DEF Moved

LEMMA LoadMaterialMoves ==
  ASSUME TypeOK, Closers, NEW t \in Thread, LoadMaterial(t)
  PROVE  Moved(t)
<1>1. ArchivesOK' /\ MaterialsOK'
  BY DEF LoadMaterial, archives, materials, TypeOK, ArchivesOK, MaterialsOK,
      ThreadsOK, Place
<1>2. "stamp" \in Label
  BY DEF Label
<1>3. Stays(t) /\ thread'[t] = [thread[t] EXCEPT !.pc = "stamp"]
  BY <1>2, GoesTo DEF LoadMaterial, TypeOK
<1>4. Closers'
  BY <1>3, ClosersMove DEF LoadMaterial, At, Closers, TypeOK, ThreadsOK,
      Place, Outside, In
<1>5. ASSUME Facts(thread[t]) PROVE Facts(thread[t])'
  BY <1>3, <1>5 DEF LoadMaterial, At, Closers, archives, materials, TypeOK,
      ArchivesOK, MaterialsOK, ThreadsOK, Place, Facts, Sources, Flags,
      Unmarked, Kept, KeptUntilIdChanges, Folder, Deletes, Outside, In
<1> QED
  BY <1>1, <1>3, <1>4, <1>5 DEF Moved

LEMMA KeepIdMoves ==
  ASSUME TypeOK, Closers, NEW t \in Thread, KeepId(t)
  PROVE  Moved(t)
<1>1. ArchivesOK' /\ MaterialsOK'
  BY DEF KeepId, archives, materials, TypeOK, ArchivesOK, MaterialsOK,
      ThreadsOK, Place
<1>2. Stays(t) /\ thread'[t] = Outside
  BY ReturnsTo DEF KeepId, TypeOK
<1>3. Closers'
  BY <1>2, ClosersMove DEF KeepId, At, Closers, TypeOK, ThreadsOK, Place,
      Outside, In
<1>4. ASSUME Facts(thread[t]) PROVE Facts(thread[t])'
  BY <1>2, <1>4 DEF KeepId, At, Closers, archives, materials, TypeOK,
      ArchivesOK, MaterialsOK, ThreadsOK, Place, Facts, Sources, Flags,
      Unmarked, Kept, KeptUntilIdChanges, Folder, Deletes, Outside, In
<1> QED
  BY <1>1, <1>2, <1>3, <1>4 DEF Moved

LEMMA CloseOthersMoves ==
  ASSUME TypeOK, Closers, NEW t \in Thread, CloseOthers(t)
  PROVE  Moved(t)
<1>1. ArchivesOK' /\ MaterialsOK'
  BY DEF CloseOthers, archives, materials, TypeOK, ArchivesOK, MaterialsOK,
      ThreadsOK, Place
<1>2. "second" \in Label
  BY DEF Label
<1>3. Stays(t) /\ thread'[t] = [thread[t] EXCEPT !.pc = "second"]
  BY <1>2, GoesTo DEF CloseOthers, TypeOK
<1>4. Closers'
  BY <1>3, ClosersMove DEF CloseOthers, At, Closers, TypeOK, ThreadsOK,
      Place, Outside, In
<1>5. ASSUME Facts(thread[t]) PROVE Facts(thread[t])'
  BY <1>3, <1>5 DEF CloseOthers, At, Closers, archives, materials, TypeOK,
      ArchivesOK, MaterialsOK, ThreadsOK, Place, Facts, Sources, Flags,
      Unmarked, Kept, KeptUntilIdChanges, Folder, Deletes, Outside, In
<1> QED
  BY <1>1, <1>3, <1>4, <1>5 DEF Moved

LEMMA CloseSecondMoves ==
  ASSUME TypeOK, Closers, NEW t \in Thread, CloseSecond(t)
  PROVE  Moved(t)
<1>1. ArchivesOK' /\ MaterialsOK'
  BY DEF CloseSecond, archives, materials, TypeOK, ArchivesOK, MaterialsOK,
      ThreadsOK, Place
<1>2. CASE temp[Starfield] = 0
  <2>1. "first" \in Label
    BY DEF Label
  <2>2. Stays(t) /\ thread'[t] = [thread[t] EXCEPT !.pc = "first"]
    BY <1>2, <2>1, GoesTo DEF CloseSecond, TypeOK
  <2>3. Closers'
    BY <1>2, <2>2, ClosersMove DEF CloseSecond, At, Closers, TypeOK,
        ThreadsOK, Place, Outside, In
  <2>4. ASSUME Facts(thread[t]) PROVE Facts(thread[t])'
    BY <1>2, <2>2, <2>4 DEF CloseSecond, At, Closers, archives, materials,
        TypeOK, ArchivesOK, MaterialsOK, ThreadsOK, Place, Facts, Sources,
        Flags, Unmarked, Kept, KeptUntilIdChanges, Folder, Deletes, Outside, In
  <2> QED
    BY <1>1, <2>2, <2>3, <2>4 DEF Moved
<1>3. CASE temp[Starfield] # 0 /\ useTemp
  <2>1. "deleteSecond" \in Label
    BY DEF Label
  <2>2. Stays(t) /\ thread'[t] = [thread[t] EXCEPT !.pc = "deleteSecond", !.closing = "test"]
    BY <1>3, <2>1, ClosesTo DEF CloseSecond, TypeOK
  <2>3. thread'[t].pc = "deleteSecond"
    BY <2>2 DEF TypeOK, ThreadsOK, Place
  <2>4. Closers'
    BY <2>2, <2>3, ClosersMove
  <2>5. ASSUME Facts(thread[t]) PROVE Facts(thread[t])'
    BY <1>3, <2>2, <2>5 DEF CloseSecond, At, Closers, archives, materials,
        TypeOK, ArchivesOK, MaterialsOK, ThreadsOK, Place, Facts, Sources,
        Flags, Unmarked, Kept, KeptUntilIdChanges, Folder, Deletes, Outside, In
  <2> QED
    BY <1>1, <2>2, <2>4, <2>5 DEF Moved
<1>4. CASE temp[Starfield] # 0 /\ ~useTemp
  <2>1. "deleteSecond" \in Label
    BY DEF Label
  <2>2. Stays(t) /\ thread'[t] = [thread[t] EXCEPT !.pc = "deleteSecond"]
    BY <1>4, <2>1, GoesTo DEF CloseSecond, TypeOK
  <2>3. Closers'
    BY <1>4, <2>2, ClosersMove DEF CloseSecond, At, Closers, TypeOK,
        ThreadsOK, Place, Outside, In
  <2>4. ASSUME Facts(thread[t]) PROVE Facts(thread[t])'
    BY <1>4, <2>2, <2>4 DEF CloseSecond, At, Closers, archives, materials,
        TypeOK, ArchivesOK, MaterialsOK, ThreadsOK, Place, Facts, Sources,
        Flags, Unmarked, Kept, KeptUntilIdChanges, Folder, Deletes, Outside, In
  <2> QED
    BY <1>1, <2>2, <2>3, <2>4 DEF Moved
<1> QED
  BY <1>2, <1>3, <1>4 DEF CloseSecond

(* Nothing is deleted but the temporary folder of a game.                  *)
LEMMA WithoutTempOK ==
  ASSUME TypeOK, NEW g \in Game,
         temp' = [temp EXCEPT ![g] = 0], withMat' = withMat \ {temp[g]},
         UNCHANGED <<main, opened, materials, kept>>
  PROVE  ArchivesOK' /\ MaterialsOK'
<1>1. temp' \in [Game -> 0 .. opened] /\ withMat' \subseteq 0 .. opened
  <2>1. temp \in [Game -> 0 .. opened] /\ 0 \in 0 .. opened
    BY DEF TypeOK, ArchivesOK
  <2>2. withMat' \subseteq withMat /\ withMat \subseteq 0 .. opened
    BY DEF TypeOK, ArchivesOK
  <2> QED
    BY <2>1, <2>2
<1>2. \A h \in Game : temp'[h] = temp[h] \/ temp'[h] = 0
  BY DEF TypeOK, ArchivesOK
<1>3. ArchivesOK'
  BY <1>1, <1>2 DEF TypeOK, ArchivesOK
<1>4. MaterialsOK'
  BY DEF TypeOK, MaterialsOK, materials
<1> QED
  BY <1>3, <1>4

LEMMA DeleteSecondMoves ==
  ASSUME TypeOK, Closers, NEW t \in Thread, DeleteSecond(t)
  PROVE  Moved(t)
<1>1. ArchivesOK' /\ MaterialsOK'
  BY WithoutTempOK DEF DeleteSecond
<1>2. CASE TempFirst(t)
  <2>1. Stays(t) /\ thread'[t] = Outside
    BY <1>2, ReturnsTo DEF DeleteSecond, TypeOK
  <2>2. Closers'
    BY <1>2, <2>1, ClosersMove DEF DeleteSecond, At, Closers, TypeOK,
        ThreadsOK, Place, Outside, In
  <2>3. ASSUME Facts(thread[t]) PROVE Facts(thread[t])'
    BY <1>2, <2>1, <2>3 DEF DeleteSecond, At, Closers, archives, materials,
        TypeOK, ArchivesOK, MaterialsOK, ThreadsOK, Place, Facts, Sources,
        Flags, Unmarked, Kept, KeptUntilIdChanges, Folder, Deletes, Outside, In
  <2> QED
    BY <1>1, <2>1, <2>2, <2>3 DEF Moved
<1>3. CASE ~TempFirst(t)
  <2>1. "first" \in Label
    BY DEF Label
  <2>2. Stays(t) /\ thread'[t] = [thread[t] EXCEPT !.pc = "first"]
    BY <1>3, <2>1, GoesTo DEF DeleteSecond, TypeOK
  <2>3. Closers'
    BY <1>3, <2>2, ClosersMove DEF DeleteSecond, At, Closers, TypeOK,
        ThreadsOK, Place, Outside, In
  <2>4. ASSUME Facts(thread[t]) PROVE Facts(thread[t])'
    BY <1>3, <2>2, <2>4 DEF DeleteSecond, At, Closers, archives, materials,
        TypeOK, ArchivesOK, MaterialsOK, ThreadsOK, Place, Facts, Sources,
        Flags, Unmarked, Kept, KeptUntilIdChanges, Folder, Deletes, Outside, In
  <2> QED
    BY <1>1, <2>2, <2>3, <2>4 DEF Moved
<1> QED
  BY <1>2, <1>3 DEF DeleteSecond

LEMMA CloseFirstMoves ==
  ASSUME TypeOK, Closers, NEW t \in Thread, CloseFirst(t)
  PROVE  Moved(t)
<1>1. ArchivesOK' /\ MaterialsOK'
  BY DEF CloseFirst, archives, materials, TypeOK, ArchivesOK, MaterialsOK,
      ThreadsOK, Place
<1>2. CASE main[Starfield] = 0
  <2>1. Stays(t) /\ thread'[t] = Outside
    BY <1>2, ReturnsTo DEF CloseFirst, TypeOK
  <2>2. Closers'
    BY <1>2, <2>1, ClosersMove DEF CloseFirst, At, Closers, TypeOK,
        ThreadsOK, Place, Outside, In
  <2>3. ASSUME Facts(thread[t]) PROVE Facts(thread[t])'
    <3>1. Sources(thread[t])'
      BY <1>2, <2>1, <2>3 DEF CloseFirst, At, Closers, archives, materials,
          TypeOK, ArchivesOK, MaterialsOK, ThreadsOK, Place, Facts, Sources,
          Flags, Unmarked, Folder, Deletes, Outside, In
    <3>2. Flags(thread[t])'
      BY <1>2, <2>1, <2>3 DEF CloseFirst, At, Closers, archives, materials,
          TypeOK, ArchivesOK, MaterialsOK, ThreadsOK, Place, Facts, Sources,
          Flags, Unmarked, Outside, In
    <3>3. Kept(thread[t])'
      BY <1>2, <2>1, <2>3 DEF CloseFirst, At, Closers, archives, materials,
          TypeOK, ArchivesOK, MaterialsOK, ThreadsOK, Place, Facts, Sources,
          Flags, Unmarked, Kept, KeptUntilIdChanges, Outside, In
    <3>4. Folder(thread[t])'
      BY <1>2, <2>1, <2>3 DEF CloseFirst, At, Closers, archives, materials,
          TypeOK, ArchivesOK, MaterialsOK, ThreadsOK, Place, Facts, Sources,
          Flags, Unmarked, Folder, Deletes, Outside, In
    <3> QED
      BY <3>1, <3>2, <3>3, <3>4 DEF Facts
  <2> QED
    BY <1>1, <2>1, <2>2, <2>3 DEF Moved
<1>3. CASE main[Starfield] # 0
  <2>1. "deleteFirst" \in Label
    BY DEF Label
  <2>2. Stays(t) /\ thread'[t] = [thread[t] EXCEPT !.pc = "deleteFirst", !.closing = "test"]
    BY <1>3, <2>1, ClosesTo DEF CloseFirst, TypeOK
  <2>3. thread'[t].pc = "deleteFirst"
    BY <2>2 DEF TypeOK, ThreadsOK, Place
  <2>4. Closers'
    BY <2>2, <2>3, ClosersMove
  <2>5. ASSUME Facts(thread[t]) PROVE Facts(thread[t])'
    <3>1. Sources(thread[t])'
      BY <1>3, <2>2, <2>5 DEF CloseFirst, At, Closers, archives, materials,
          TypeOK, ArchivesOK, MaterialsOK, ThreadsOK, Place, Facts, Sources,
          Flags, Unmarked, Folder, Deletes, Outside, In
    <3>2. Flags(thread[t])'
      BY <1>3, <2>2, <2>5 DEF CloseFirst, At, Closers, archives, materials,
          TypeOK, ArchivesOK, MaterialsOK, ThreadsOK, Place, Facts, Sources,
          Flags, Unmarked, Outside, In
    <3>3. Kept(thread[t])'
      BY <1>3, <2>2, <2>5 DEF CloseFirst, At, Closers, archives, materials,
          TypeOK, ArchivesOK, MaterialsOK, ThreadsOK, Place, Facts, Sources,
          Flags, Unmarked, Kept, KeptUntilIdChanges, Outside, In
    <3>4. Folder(thread[t])'
      BY <1>3, <2>2, <2>5 DEF CloseFirst, At, Closers, archives, materials,
          TypeOK, ArchivesOK, MaterialsOK, ThreadsOK, Place, Facts, Sources,
          Flags, Unmarked, Folder, Deletes, Outside, In
    <3> QED
      BY <3>1, <3>2, <3>3, <3>4 DEF Facts
  <2> QED
    BY <1>1, <2>2, <2>4, <2>5 DEF Moved
<1> QED
  BY <1>2, <1>3 DEF CloseFirst

LEMMA DeleteFirstMoves ==
  ASSUME TypeOK, Closers, NEW t \in Thread, DeleteFirst(t)
  PROVE  Moved(t)
<1>1. ArchivesOK' /\ MaterialsOK'
  BY DEF DeleteFirst, archives, materials, TypeOK, ArchivesOK, MaterialsOK,
      ThreadsOK, Place
<1>2. Stays(t) /\ thread'[t] = Outside
  BY ReturnsTo DEF DeleteFirst, TypeOK
<1>3. Closers'
  BY <1>2, ClosersMove DEF DeleteFirst, At, Closers, TypeOK, ThreadsOK,
      Place, Outside, In
<1>4. ASSUME Facts(thread[t]) PROVE Facts(thread[t])'
  BY <1>2, <1>4 DEF DeleteFirst, At, Closers, archives, materials, TypeOK,
      ArchivesOK, MaterialsOK, ThreadsOK, Place, Facts, Sources, Flags,
      Unmarked, Kept, KeptUntilIdChanges, Folder, Deletes, Outside, In
<1> QED
  BY <1>1, <1>2, <1>3, <1>4 DEF Moved

LEMMA SetTempFolderMoves ==
  ASSUME TypeOK, Closers, NEW t \in Thread, SetTempFolder(t)
  PROVE  Moved(t)
<1>1. ArchivesOK' /\ MaterialsOK'
  BY DEF SetTempFolder, archives, materials, TypeOK, ArchivesOK, MaterialsOK,
      ThreadsOK, Place
<1>2. CASE temp[thread[t].game] = 0
  <2>1. Stays(t) /\ thread'[t] = IF thread[t].call = "empty" THEN Outside
                             ELSE [thread[t] EXCEPT !.pc = "newTemp"]
    BY <1>2, OpenTempTo DEF SetTempFolder, TypeOK
  <2>2. Closers'
    BY <1>2, <2>1, ClosersMove DEF SetTempFolder, At, Closers, TypeOK,
        ThreadsOK, Place, Outside, In
  <2>3. ASSUME Facts(thread[t]) PROVE Facts(thread[t])'
    <3>1. Sources(thread[t])'
      BY <1>2, <2>1, <2>3 DEF SetTempFolder, At, Closers, archives,
          materials, TypeOK, ArchivesOK, MaterialsOK, ThreadsOK, Place,
          Facts, Sources, Flags, Unmarked, Folder, Deletes, Outside, In
    <3>2. Flags(thread[t])'
      BY <1>2, <2>1, <2>3 DEF SetTempFolder, At, Closers, archives,
          materials, TypeOK, ArchivesOK, MaterialsOK, ThreadsOK, Place,
          Facts, Sources, Flags, Unmarked, Outside, In
    <3>3. Kept(thread[t])'
      BY <1>2, <2>1, <2>3 DEF SetTempFolder, At, Closers, archives,
          materials, TypeOK, ArchivesOK, MaterialsOK, ThreadsOK, Place,
          Facts, Sources, Flags, Unmarked, Kept, KeptUntilIdChanges, Outside, In
    <3>4. Folder(thread[t])'
      BY <1>2, <2>1, <2>3 DEF SetTempFolder, At, Closers, archives,
          materials, TypeOK, ArchivesOK, MaterialsOK, ThreadsOK, Place,
          Facts, Sources, Flags, Unmarked, Folder, Deletes, Outside, In
    <3> QED
      BY <3>1, <3>2, <3>3, <3>4 DEF Facts
  <2> QED
    BY <1>1, <2>1, <2>2, <2>3 DEF Moved
<1>3. CASE temp[thread[t].game] # 0 /\ thread[t].game = Starfield /\ useTemp
  <2>1. "dropTemp" \in Label
    BY DEF Label
  <2>2. Stays(t) /\ thread'[t] = [thread[t] EXCEPT !.pc = "dropTemp", !.closing = "test"]
    BY <1>3, <2>1, ClosesTo DEF SetTempFolder, TypeOK
  <2>3. thread'[t].pc = "dropTemp" /\ thread'[t].game = Starfield
    BY <1>3, <2>2 DEF TypeOK, ThreadsOK, Place
  <2>4. Closers'
    BY <2>2, <2>3, ClosersMove
  <2>5. ASSUME Facts(thread[t]) PROVE Facts(thread[t])'
    <3>1. Sources(thread[t])'
      BY <1>3, <2>2, <2>5 DEF SetTempFolder, At, Closers, archives,
          materials, TypeOK, ArchivesOK, MaterialsOK, ThreadsOK, Place,
          Facts, Sources, Flags, Unmarked, Folder, Deletes, Outside, In
    <3>2. Flags(thread[t])'
      BY <1>3, <2>2, <2>5 DEF SetTempFolder, At, Closers, archives,
          materials, TypeOK, ArchivesOK, MaterialsOK, ThreadsOK, Place,
          Facts, Sources, Flags, Unmarked, Outside, In
    <3>3. Kept(thread[t])'
      BY <1>3, <2>2, <2>5 DEF SetTempFolder, At, Closers, archives,
          materials, TypeOK, ArchivesOK, MaterialsOK, ThreadsOK, Place,
          Facts, Sources, Flags, Unmarked, Kept, KeptUntilIdChanges, Outside, In
    <3>4. Folder(thread[t])'
      BY <1>3, <2>2, <2>5 DEF SetTempFolder, At, Closers, archives,
          materials, TypeOK, ArchivesOK, MaterialsOK, ThreadsOK, Place,
          Facts, Sources, Flags, Unmarked, Folder, Deletes, Outside, In
    <3> QED
      BY <3>1, <3>2, <3>3, <3>4 DEF Facts
  <2> QED
    BY <1>1, <2>2, <2>4, <2>5 DEF Moved
<1>4. CASE temp[thread[t].game] # 0 /\ ~(thread[t].game = Starfield /\ useTemp)
  <2>1. "dropTemp" \in Label
    BY DEF Label
  <2>2. Stays(t) /\ thread'[t] = [thread[t] EXCEPT !.pc = "dropTemp"]
    BY <1>4, <2>1, GoesTo DEF SetTempFolder, TypeOK
  <2>3. Closers'
    BY <1>4, <2>2, ClosersMove DEF SetTempFolder, At, Closers, TypeOK,
        ThreadsOK, Place, Outside, In
  <2>4. ASSUME Facts(thread[t]) PROVE Facts(thread[t])'
    <3>1. Sources(thread[t])'
      BY <1>4, <2>2, <2>4 DEF SetTempFolder, At, Closers, archives,
          materials, TypeOK, ArchivesOK, MaterialsOK, ThreadsOK, Place,
          Facts, Sources, Flags, Unmarked, Folder, Deletes, Outside, In
    <3>2. Flags(thread[t])'
      BY <1>4, <2>2, <2>4 DEF SetTempFolder, At, Closers, archives,
          materials, TypeOK, ArchivesOK, MaterialsOK, ThreadsOK, Place,
          Facts, Sources, Flags, Unmarked, Outside, In
    <3>3. Kept(thread[t])'
      BY <1>4, <2>2, <2>4 DEF SetTempFolder, At, Closers, archives,
          materials, TypeOK, ArchivesOK, MaterialsOK, ThreadsOK, Place,
          Facts, Sources, Flags, Unmarked, Kept, KeptUntilIdChanges, Outside, In
    <3>4. Folder(thread[t])'
      BY <1>4, <2>2, <2>4 DEF SetTempFolder, At, Closers, archives,
          materials, TypeOK, ArchivesOK, MaterialsOK, ThreadsOK, Place,
          Facts, Sources, Flags, Unmarked, Folder, Deletes, Outside, In
    <3> QED
      BY <3>1, <3>2, <3>3, <3>4 DEF Facts
  <2> QED
    BY <1>1, <2>2, <2>3, <2>4 DEF Moved
<1> QED
  BY <1>2, <1>3, <1>4 DEF SetTempFolder

LEMMA DropTempMoves ==
  ASSUME TypeOK, Closers, NEW t \in Thread, DropTemp(t)
  PROVE  Moved(t)
<1>1. ArchivesOK' /\ MaterialsOK'
  BY WithoutTempOK DEF DropTemp, WithoutTemp, TypeOK, ThreadsOK, Place
<1>2. Stays(t) /\ thread'[t] = IF thread[t].call = "empty" THEN Outside
                           ELSE [thread[t] EXCEPT !.pc = "newTemp"]
  BY OpenTempTo DEF DropTemp, TypeOK
<1>3. Closers'
  BY <1>2, ClosersMove DEF DropTemp, At, Closers, TypeOK, ThreadsOK, Place,
      Outside, In
<1>4. ASSUME Facts(thread[t]) PROVE Facts(thread[t])'
  <2>1. Sources(thread[t])'
    BY <1>2, <1>4 DEF DropTemp, At, Closers, WithoutTemp, archives,
        materials, TypeOK, ArchivesOK, MaterialsOK, ThreadsOK, Place, Facts,
        Sources, Flags, Unmarked, Folder, Deletes, Outside, In
  <2>2. Flags(thread[t])'
    BY <1>2, <1>4 DEF DropTemp, At, Closers, WithoutTemp, archives,
        materials, TypeOK, ArchivesOK, MaterialsOK, ThreadsOK, Place, Facts,
        Sources, Flags, Unmarked, Outside, In
  <2>3. Kept(thread[t])'
    BY <1>2, <1>4 DEF DropTemp, At, Closers, WithoutTemp, archives,
        materials, TypeOK, ArchivesOK, MaterialsOK, ThreadsOK, Place, Facts,
        Sources, Flags, Unmarked, Kept, KeptUntilIdChanges, Outside, In
  <2>4. Folder(thread[t])'
    BY <1>2, <1>4 DEF DropTemp, At, Closers, WithoutTemp, archives,
        materials, TypeOK, ArchivesOK, MaterialsOK, ThreadsOK, Place, Facts,
        Sources, Flags, Unmarked, Folder, Deletes, Outside, In
  <2> QED
    BY <2>1, <2>2, <2>3, <2>4 DEF Facts
<1> QED
  BY <1>1, <1>2, <1>3, <1>4 DEF Moved

LEMMA NewTempMoves ==
  ASSUME TypeOK, Closers, NEW t \in Thread, NewTemp(t)
  PROVE  Moved(t)
<1>1. ArchivesOK' /\ MaterialsOK'
  BY DEF NewTemp, archives, materials, TypeOK, ArchivesOK, MaterialsOK,
      ThreadsOK, Place
<1>2. "scan" \in Label
  BY DEF Label
<1>3. Stays(t) /\ thread'[t] = [thread[t] EXCEPT !.pc = "scan"]
  BY <1>2, GoesTo DEF NewTemp, TypeOK
<1>4. Closers'
  BY <1>3, ClosersMove DEF NewTemp, At, Closers, TypeOK, ThreadsOK, Place,
      Outside, In
<1>5. ASSUME Facts(thread[t]) PROVE Facts(thread[t])'
  BY <1>3, <1>5 DEF NewTemp, At, Closers, archives, materials, TypeOK,
      ArchivesOK, MaterialsOK, ThreadsOK, Place, Facts, Sources, Flags,
      Unmarked, Kept, KeptUntilIdChanges, Folder, Deletes, Outside, In
<1> QED
  BY <1>1, <1>3, <1>4, <1>5 DEF Moved

LEMMA ScanTempMoves ==
  ASSUME TypeOK, Closers, NEW t \in Thread, ScanTemp(t)
  PROVE  Moved(t)
<1>1. ArchivesOK' /\ MaterialsOK'
  <2>1. withMat' \subseteq withMat \cup {temp[Starfield]}
    BY DEF ScanTemp
  <2>2. /\ UNCHANGED <<main, temp, opened, materials, kept>>
        /\ temp[Starfield] \in 0 .. opened
    BY DEF ScanTemp, TypeOK, ArchivesOK
  <2> QED
    BY <2>1, <2>2 DEF materials, TypeOK, ArchivesOK, MaterialsOK
<1>2. CASE /\ thread[t].game = Starfield /\ Closes(t, "use")
           /\ withMat' = withMat \cup {temp[Starfield]}
  <2>1. "use" \in Label
    BY DEF Label
  <2>2. Stays(t) /\ thread'[t] = [thread[t] EXCEPT !.pc = "use", !.closing = "test"]
    BY <1>2, <2>1, ClosesTo DEF ScanTemp, TypeOK
  <2>3. thread'[t].pc = "use"
    BY <2>2 DEF TypeOK, ThreadsOK, Place
  <2>4. Closers'
    BY <2>2, <2>3, ClosersMove
  <2>5. ASSUME Facts(thread[t]) PROVE Facts(thread[t])'
    BY <1>2, <2>2, <2>5 DEF ScanTemp, At, Closers, archives, materials,
        TypeOK, ArchivesOK, MaterialsOK, ThreadsOK, Place, Facts, Sources,
        Flags, Unmarked, Kept, KeptUntilIdChanges, Folder, Deletes, Outside, In
  <2> QED
    BY <1>1, <2>2, <2>4, <2>5 DEF Moved
<1>3. CASE Returns(t) /\ UNCHANGED withMat
  <2>1. Stays(t) /\ thread'[t] = Outside
    BY <1>3, ReturnsTo DEF ScanTemp, TypeOK
  <2>2. Closers'
    BY <1>3, <2>1, ClosersMove DEF ScanTemp, At, Closers, TypeOK, ThreadsOK,
        Place, Outside, In
  <2>3. ASSUME Facts(thread[t]) PROVE Facts(thread[t])'
    BY <1>3, <2>1, <2>3 DEF ScanTemp, At, Closers, archives, materials,
        TypeOK, ArchivesOK, MaterialsOK, ThreadsOK, Place, Facts, Sources,
        Flags, Unmarked, Kept, KeptUntilIdChanges, Folder, Deletes, Outside, In
  <2> QED
    BY <1>1, <2>1, <2>2, <2>3 DEF Moved
<1> QED
  BY <1>2, <1>3 DEF ScanTemp

LEMMA ScanFailsMoves ==
  ASSUME TypeOK, Closers, NEW t \in Thread, ScanFails(t)
  PROVE  Moved(t)
<1>1. ArchivesOK' /\ MaterialsOK'
  BY WithoutTempOK DEF ScanFails, WithoutTemp, TypeOK, ThreadsOK, Place
<1>2. Stays(t) /\ thread'[t] = Outside
  BY ReturnsTo DEF ScanFails, TypeOK
<1>3. Closers'
  BY <1>2, ClosersMove DEF ScanFails, At, Closers, TypeOK, ThreadsOK, Place,
      Outside, In
<1>4. ASSUME Facts(thread[t]) PROVE Facts(thread[t])'
  <2>1. Sources(thread[t])'
    BY <1>2, <1>4 DEF ScanFails, At, Closers, WithoutTemp, archives,
        materials, TypeOK, ArchivesOK, MaterialsOK, ThreadsOK, Place, Facts,
        Sources, Flags, Unmarked, Folder, Deletes, Outside, In
  <2>2. Flags(thread[t])'
    BY <1>2, <1>4 DEF ScanFails, At, Closers, WithoutTemp, archives,
        materials, TypeOK, ArchivesOK, MaterialsOK, ThreadsOK, Place, Facts,
        Sources, Flags, Unmarked, Outside, In
  <2>3. Kept(thread[t])'
    BY <1>2, <1>4 DEF ScanFails, At, Closers, WithoutTemp, archives,
        materials, TypeOK, ArchivesOK, MaterialsOK, ThreadsOK, Place, Facts,
        Sources, Flags, Unmarked, Kept, KeptUntilIdChanges, Outside, In
  <2>4. Folder(thread[t])'
    BY <1>2, <1>4 DEF ScanFails, At, Closers, WithoutTemp, archives,
        materials, TypeOK, ArchivesOK, MaterialsOK, ThreadsOK, Place, Facts,
        Sources, Flags, Unmarked, Folder, Deletes, Outside, In
  <2> QED
    BY <2>1, <2>2, <2>3, <2>4 DEF Facts
<1> QED
  BY <1>1, <1>2, <1>3, <1>4 DEF Moved

LEMMA UseTempMoves ==
  ASSUME TypeOK, Closers, NEW t \in Thread, UseTemp(t)
  PROVE  Moved(t)
<1>1. ArchivesOK' /\ MaterialsOK'
  BY DEF UseTemp, archives, materials, TypeOK, ArchivesOK, MaterialsOK,
      ThreadsOK, Place
<1>2. Stays(t) /\ thread'[t] = Outside
  BY ReturnsTo DEF UseTemp, TypeOK
<1>3. Closers'
  BY <1>2, ClosersMove DEF UseTemp, At, Closers, TypeOK, ThreadsOK, Place,
      Outside, In
<1>4. ASSUME Facts(thread[t]) PROVE Facts(thread[t])'
  BY <1>2, <1>4 DEF UseTemp, At, Closers, archives, materials, TypeOK,
      ArchivesOK, MaterialsOK, ThreadsOK, Place, Facts, Sources, Flags,
      Unmarked, Kept, KeptUntilIdChanges, Folder, Deletes, Outside, In
<1> QED
  BY <1>1, <1>2, <1>3, <1>4 DEF Moved

(* A path is cut off until the folder of a document is known; then its     *)
(* resources are set.                                                      *)
LEMMA SearchTempMoves ==
  ASSUME TypeOK, Closers, NEW t \in Thread, SearchTemp(t)
  PROVE  Moved(t) /\ thread'[t].pc \in {"search", "temp"}
<1>1. ArchivesOK' /\ MaterialsOK'
  BY DEF SearchTemp, archives, materials, TypeOK, ArchivesOK, MaterialsOK
<1>2. CASE thread[t].call \in {"nif", "other"}
  <2>1. Trimmed(thread[t].call) \in Call
    BY <1>2 DEF Trimmed, Call
  <2>2. [thread[t] EXCEPT !.call = Trimmed(thread[t].call)] \in Place
    BY <2>1 DEF TypeOK, ThreadsOK, Place
  <2>3. thread' = [thread EXCEPT ![t] = [thread[t] EXCEPT !.call = Trimmed(thread[t].call)]]
    BY <1>2 DEF SearchTemp, TypeOK, ThreadsOK
  <2>4. Stays(t) /\ thread'[t] = [thread[t] EXCEPT !.call = Trimmed(thread[t].call)]
    BY <2>2, <2>3, MoveStays DEF TypeOK
  <2>5. Closers' /\ thread'[t].pc = "search"
    BY <2>4, ClosersMove DEF SearchTemp, At, TypeOK, ThreadsOK, Place
  <2>6. ASSUME Facts(thread[t]) PROVE Facts(thread[t])'
    BY <2>4, <2>6 DEF SearchTemp, At, archives, materials, TypeOK, ThreadsOK, Place, Facts,
       Sources, Flags, Unmarked, Kept, KeptUntilIdChanges, Folder, Deletes
  <2> QED
    BY <1>1, <2>4, <2>5, <2>6 DEF Moved
<1>3. CASE thread[t].call \notin {"nif", "other"}
  <2>1. "temp" \in Label
    BY DEF Label
  <2>2. Goes(t, "temp")
    BY <1>3 DEF SearchTemp, Goes
  <2>3. Stays(t) /\ thread'[t] = [thread[t] EXCEPT !.pc = "temp"]
    BY <2>1, <2>2, GoesTo DEF TypeOK
  <2>4. Closers' /\ thread'[t].pc = "temp"
    BY <2>3, ClosersMove DEF SearchTemp, At, TypeOK, ThreadsOK, Place
  <2>5. ASSUME Facts(thread[t]) PROVE Facts(thread[t])'
    BY <2>3, <2>5 DEF SearchTemp, At, archives, materials, TypeOK, ThreadsOK, Place, Facts,
       Sources, Flags, Unmarked, Kept, KeptUntilIdChanges, Folder, Deletes
  <2> QED
    BY <1>1, <2>3, <2>4, <2>5 DEF Moved
<1> QED
  BY <1>2, <1>3

-----------------------------------------------------------------------------
(* The calls begin.                                                        *)
LEMMA BeginsTo ==
  ASSUME TypeOK, Closers, NEW t \in Thread, NEW c \in Call, NEW g \in Game, NEW l \in Label,
         Begins(t, c, g, l)
  PROVE  /\ Stays(t) /\ Closers' /\ Idle(t) /\ thread[t].closing = "no"
         /\ thread'[t] = In(c, g, l)
<1>1. In(c, g, l) \in Place
  BY InPlace
<1>2. Stays(t) /\ Idle(t) /\ thread'[t] = In(c, g, l)
  BY <1>1, MoveStays DEF Begins, TypeOK
<1>3. Closers'
  BY <1>2, ClosersMove DEF In
<1>4. thread[t].closing = "no"
  BY <1>2 DEF Closers, Idle
<1> QED
  BY <1>2, <1>3, <1>4

LEMMA BeginLoadMoves ==
  ASSUME TypeOK, Closers, NEW t \in Thread, NEW g \in Game,
         NEW path \in FileKind \cup {"empty"}, BeginLoad(t, g, path)
  PROVE  Moved(t) /\ ~Busy(t)' /\ Idle(t)
<1>1. path \in Call /\ "search" \in Label
  BY DEF Call, Label
<1>2. ArchivesOK' /\ MaterialsOK'
  BY DEF BeginLoad, TypeOK, ArchivesOK, MaterialsOK, archives, materials
<1>3. /\ Stays(t) /\ Closers' /\ Idle(t) /\ thread[t].closing = "no"
      /\ thread'[t] = In(path, g, "search")
  BY <1>1, BeginsTo DEF BeginLoad
<1>4. ASSUME Facts(thread[t]) PROVE Facts(thread[t])'
  BY <1>3, <1>4 DEF BeginLoad, Idle, archives, materials, Facts, Sources, Flags, Unmarked, Kept,
     KeptUntilIdChanges, Folder, Deletes, In
<1>5. ~Busy(t)'
  BY <1>3 DEF Busy, In
<1> QED
  BY <1>2, <1>3, <1>4, <1>5 DEF Moved

LEMMA CloseArchivesMoves ==
  ASSUME TypeOK, Closers, NEW t \in Thread, NEW tempFirst \in BOOLEAN,
         CloseArchives(t, tempFirst)
  PROVE  Moved(t)
<1> DEFINE call == IF tempFirst THEN "close_all(true)" ELSE "close_all(false)"
<1>1. call \in Call /\ "others" \in Label
  BY DEF Call, Label
<1>2. Begins(t, call, Starfield, "others") /\ UNCHANGED <<archives, materials, kept>>
  BY DEF CloseArchives
<1>3. ArchivesOK' /\ MaterialsOK'
  BY <1>2 DEF TypeOK, ArchivesOK, MaterialsOK, archives, materials
<1> HIDE DEF call
<1>4. /\ Stays(t) /\ Closers' /\ Idle(t) /\ thread[t].closing = "no"
      /\ thread'[t] = In(call, Starfield, "others")
  BY <1>1, <1>2, BeginsTo
<1>5. ASSUME Facts(thread[t]) PROVE Facts(thread[t])'
  BY <1>2, <1>4, <1>5 DEF Idle, archives, materials, Facts, Sources, Flags, Unmarked, Kept,
     KeptUntilIdChanges, Folder, Deletes, In
<1> QED
  BY <1>3, <1>4, <1>5 DEF Moved

LEMMA MaterialsMoves ==
  ASSUME TypeOK, Closers, NEW t \in Thread, Materials(t)
  PROVE  Moved(t)
<1>1. "materials" \in Call /\ "materials" \in Label
  BY DEF Call, Label
<1>2. ArchivesOK' /\ MaterialsOK'
  BY DEF Materials, TypeOK, ArchivesOK, MaterialsOK, archives, materials
<1>3. /\ Stays(t) /\ Closers' /\ Idle(t) /\ thread[t].closing = "no"
      /\ thread'[t] = In("materials", Starfield, "materials")
  BY <1>1, BeginsTo DEF Materials
<1>4. ASSUME Facts(thread[t]) PROVE Facts(thread[t])'
  BY <1>3, <1>4 DEF Materials, Idle, archives, materials, Facts, Sources, Flags, Unmarked, Kept,
     KeptUntilIdChanges, Folder, Deletes, In
<1> QED
  BY <1>2, <1>3, <1>4 DEF Moved

LEMMA GetSFMaterialMoves ==
  ASSUME TypeOK, Closers, NEW t \in Thread, GetSFMaterial(t)
  PROVE  Moved(t)
<1>1. "getSFMaterial" \in Call /\ "materials" \in Label
  BY DEF Call, Label
<1>2. kept' = [kept EXCEPT !.from = 0] /\ kept' \in [id : Nat, from : 0 .. opened]
  BY DEF GetSFMaterial, TypeOK, ArchivesOK, MaterialsOK
<1>3. /\ Stays(t) /\ Closers' /\ Idle(t) /\ thread[t].closing = "no"
      /\ thread'[t] = In("getSFMaterial", Starfield, "materials")
  BY <1>1, BeginsTo DEF GetSFMaterial
<1>4. kept'.id = kept.id /\ kept'.from = 0
  BY <1>2 DEF TypeOK, MaterialsOK
<1>5. ASSUME Facts(thread[t]) PROVE Facts(thread[t])'
  BY <1>3, <1>4, <1>5 DEF GetSFMaterial, Idle, archives, materials, Facts, Sources, Flags,
     Unmarked, Kept, KeptUntilIdChanges, Folder, Deletes, In
<1>6. ArchivesOK' /\ MaterialsOK'
  BY <1>2 DEF GetSFMaterial, TypeOK, ArchivesOK, MaterialsOK, archives, materials
<1> QED
  BY <1>3, <1>5, <1>6 DEF Moved

LEMMA GetFileMoves ==
  ASSUME TypeOK, Closers, NEW t \in Thread, NEW g \in Game, GetFile(t, g)
  PROVE  Moved(t)
<1> DEFINE closing == IF g = Starfield THEN "test" ELSE "no"
           r == [In("get_file", g, "drop") EXCEPT !.pc = "drop", !.closing = closing]
<1>1. "get_file" \in Call /\ "drop" \in Label /\ closing \in Closing
  BY DEF Call, Label, Closing
<1>2. thread' = [thread EXCEPT ![t] = r]
  BY DEF GetFile, OpenFolders
<1> HIDE DEF closing
<1>3. Stays(t) /\ thread'[t] = r
  <2>1. In("get_file", g, "drop") \in Place
    BY <1>1, InPlace
  <2>2. r \in Place
    BY <1>1, <2>1 DEF Place
  <2> QED
    BY <1>2, <2>2, MoveStays DEF TypeOK
<1>4. ArchivesOK' /\ MaterialsOK'
  BY DEF GetFile, TypeOK, ArchivesOK, MaterialsOK, archives, materials
<1>5. Closers'
  BY <1>3, ClosersMove DEF In
<1>6. Idle(t) /\ thread[t].closing = "no"
  BY DEF GetFile, Idle, Closers
<1>7. ASSUME Facts(thread[t]) PROVE Facts(thread[t])'
  BY <1>3, <1>6, <1>7 DEF closing, GetFile, Idle, archives, materials, Facts, Sources, Flags, Unmarked,
     Kept, KeptUntilIdChanges, Folder, Deletes, In
<1> QED
  BY <1>3, <1>4, <1>5, <1>7 DEF Moved

-----------------------------------------------------------------------------
(* As long as the calls come one at a time, the facts are those about the  *)
(* thread that moves, unless it moves from rest to rest.                   *)
LEMMA Rest ==
  ASSUME Closers, NEW t \in Thread, NEW u \in Thread, ~Busy(t), ~Busy(u), Facts(thread[u])
  PROVE  Facts(thread[t])
<1>1. /\ thread[t].pc \in {"idle", "search"} /\ thread[u].pc \in {"idle", "search"}
      /\ thread[t].closing = "no" /\ thread[u].closing = "no"
  BY DEF Closers, Busy
<1> QED
  BY <1>1 DEF Facts, Sources, Flags, Unmarked, Kept, Folder, Deletes

LEMMA Mover ==
  ASSUME IInv, NEW t \in Thread, Stays(t), Noted, ~raced', Busy(t) \/ Busy(t)'
  PROVE  OthersRest(t) /\ OthersRest(t)' /\ Facts(thread[t])
<1>1. ~raced /\ ~Overlap'
  BY DEF Noted
<1>2. PICK u \in Thread : OthersRest(u) /\ Facts(thread[u])
  BY <1>1 DEF IInv, Alone
<1>3. \A v \in Thread \ {t} : Busy(v)' <=> Busy(v)
  BY DEF Stays, Busy
<1>4. CASE u = t
  BY <1>2, <1>3, <1>4 DEF OthersRest
<1>5. CASE u # t
  <2>1. ~Busy(t) /\ Busy(t)'
    BY <1>2, <1>5 DEF OthersRest
  <2>2. ~Busy(u)
    BY <1>1, <1>3, <1>5, <2>1 DEF Overlap
  <2>3. OthersRest(t)
    BY <1>2, <2>2 DEF OthersRest
  <2>4. Facts(thread[t])
    BY <1>2, <2>1, <2>2, Rest DEF IInv
  <2> QED
    BY <1>3, <2>3, <2>4 DEF OthersRest
<1> QED
  BY <1>4, <1>5

LEMMA MovedInv ==
  ASSUME IInv, NEW t \in Thread, Moved(t), Noted,
         Busy(t) \/ Busy(t)' \/ UNCHANGED <<archives, materials, kept>>
  PROVE  IInv'
<1>1. TypeOK'
  <2>1. raced' \in BOOLEAN
    BY DEF Noted, IInv, TypeOK, ThreadsOK
  <2> QED
    BY <2>1 DEF Moved, Stays, TypeOK, ThreadsOK
<1>2. Closers'
  BY DEF Moved
<1>3. ASSUME ~raced' PROVE Alone'
  <2>1. CASE Busy(t) \/ Busy(t)'
    BY <1>3, <2>1, Mover DEF Moved, Alone
  <2>2. CASE ~Busy(t) /\ ~Busy(t)' /\ UNCHANGED <<archives, materials, kept>>
    <3>1. PICK u \in Thread : OthersRest(u) /\ Facts(thread[u])
      BY <1>3 DEF IInv, Alone, Noted
    <3>2. OthersRest(u)'
      BY <2>2, <3>1 DEF OthersRest, Moved, Stays, Busy
    <3>3. Facts(thread[u])'
      <4>1. CASE u = t
        BY <3>1, <4>1 DEF Moved
      <4>2. CASE u # t
        <5>1. thread'[u] = thread[u]
          BY <4>2 DEF Moved, Stays
        <5> QED
          BY <2>2, <3>1, <5>1 DEF archives, materials, Facts, Sources, Flags, Unmarked, Kept,
             KeptUntilIdChanges, Folder, Deletes
      <4> QED
        BY <4>1, <4>2
    <3> QED
      BY <3>2, <3>3 DEF Alone
  <2> QED
    BY <2>1, <2>2
<1> QED
  BY <1>1, <1>2, <1>3 DEF IInv

LEMMA StepInv ==
  ASSUME IInv, NEW t \in Thread, Step(t), Noted
  PROVE  IInv'
<1> USE DEF IInv
<1>1. CASE CloseMaterials(t)
  <2>1. Moved(t)
    BY <1>1, TestLoadedMoves, ChangeIdMoves, ResetLoadedMoves, ResetUseTempMoves, ClearMoves
    DEF CloseMaterials
  <2>2. thread[t].closing # "no"
    BY <1>1 DEF CloseMaterials, TestLoaded, ChangeId, ResetLoaded, ResetUseTemp, Clear
  <2>3. Busy(t)
    BY <2>2 DEF Closers, Busy
  <2> QED
    BY <2>1, <2>3, MovedInv
<1>2. CASE SearchTemp(t)
  <2>1. UNCHANGED <<archives, materials, kept>>
    BY <1>2 DEF SearchTemp
  <2> QED
    BY <1>2, <2>1, SearchTempMoves, MovedInv
<1>3. CASE DropArchives(t)
  <2>1. Busy(t)
    BY <1>3 DEF DropArchives, At, Busy
  <2> QED
    BY <1>3, <2>1, DropArchivesMoves, MovedInv
<1>4. CASE NewArchives(t)
  <2>1. Busy(t)
    BY <1>4 DEF NewArchives, At, Busy
  <2> QED
    BY <1>4, <2>1, NewArchivesMoves, MovedInv
<1>5. CASE FillArchives(t)
  <2>1. Busy(t)
    BY <1>5 DEF FillArchives, At, Busy
  <2> QED
    BY <1>5, <2>1, FillArchivesMoves, MovedInv
<1>6. CASE TestDatabase(t)
  <2>1. Busy(t)
    BY <1>6 DEF TestDatabase, At, Busy
  <2> QED
    BY <1>6, <2>1, TestDatabaseMoves, MovedInv
<1>7. CASE TestArchives(t)
  <2>1. Busy(t)
    BY <1>7 DEF TestArchives, At, Busy
  <2> QED
    BY <1>7, <2>1, TestArchivesMoves, MovedInv
<1>8. CASE BeginRead(t)
  <2>1. Busy(t)
    BY <1>8 DEF BeginRead, At, Busy
  <2> QED
    BY <1>8, <2>1, BeginReadMoves, MovedInv
<1>9. CASE NextId(t)
  <2>1. Busy(t)
    BY <1>9 DEF NextId, At, Busy
  <2> QED
    BY <1>9, <2>1, NextIdMoves, MovedInv
<1>10. CASE ReadArchives(t)
  <2>1. Busy(t)
    BY <1>10 DEF ReadArchives, At, Busy
  <2> QED
    BY <1>10, <2>1, ReadArchivesMoves, MovedInv
<1>11. CASE ReadFails(t)
  <2>1. Busy(t)
    BY <1>11 DEF ReadFails, At, Busy
  <2> QED
    BY <1>11, <2>1, ReadFailsMoves, MovedInv
<1>12. CASE MarkLoaded(t)
  <2>1. Busy(t)
    BY <1>12 DEF MarkLoaded, At, Busy
  <2> QED
    BY <1>12, <2>1, MarkLoadedMoves, MovedInv
<1>13. CASE LoadMaterial(t)
  <2>1. Busy(t)
    BY <1>13 DEF LoadMaterial, At, Busy
  <2> QED
    BY <1>13, <2>1, LoadMaterialMoves, MovedInv
<1>14. CASE KeepId(t)
  <2>1. Busy(t)
    BY <1>14 DEF KeepId, At, Busy
  <2> QED
    BY <1>14, <2>1, KeepIdMoves, MovedInv
<1>15. CASE CloseOthers(t)
  <2>1. Busy(t)
    BY <1>15 DEF CloseOthers, At, Busy
  <2> QED
    BY <1>15, <2>1, CloseOthersMoves, MovedInv
<1>16. CASE CloseSecond(t)
  <2>1. Busy(t)
    BY <1>16 DEF CloseSecond, At, Busy
  <2> QED
    BY <1>16, <2>1, CloseSecondMoves, MovedInv
<1>17. CASE DeleteSecond(t)
  <2>1. Busy(t)
    BY <1>17 DEF DeleteSecond, At, Busy
  <2> QED
    BY <1>17, <2>1, DeleteSecondMoves, MovedInv
<1>18. CASE CloseFirst(t)
  <2>1. Busy(t)
    BY <1>18 DEF CloseFirst, At, Busy
  <2> QED
    BY <1>18, <2>1, CloseFirstMoves, MovedInv
<1>19. CASE DeleteFirst(t)
  <2>1. Busy(t)
    BY <1>19 DEF DeleteFirst, At, Busy
  <2> QED
    BY <1>19, <2>1, DeleteFirstMoves, MovedInv
<1>20. CASE SetTempFolder(t)
  <2>1. Busy(t)
    BY <1>20 DEF SetTempFolder, At, Busy
  <2> QED
    BY <1>20, <2>1, SetTempFolderMoves, MovedInv
<1>21. CASE DropTemp(t)
  <2>1. Busy(t)
    BY <1>21 DEF DropTemp, At, Busy
  <2> QED
    BY <1>21, <2>1, DropTempMoves, MovedInv
<1>22. CASE NewTemp(t)
  <2>1. Busy(t)
    BY <1>22 DEF NewTemp, At, Busy
  <2> QED
    BY <1>22, <2>1, NewTempMoves, MovedInv
<1>23. CASE ScanTemp(t)
  <2>1. Busy(t)
    BY <1>23 DEF ScanTemp, At, Busy
  <2> QED
    BY <1>23, <2>1, ScanTempMoves, MovedInv
<1>24. CASE ScanFails(t)
  <2>1. Busy(t)
    BY <1>24 DEF ScanFails, At, Busy
  <2> QED
    BY <1>24, <2>1, ScanFailsMoves, MovedInv
<1>25. CASE UseTemp(t)
  <2>1. Busy(t)
    BY <1>25 DEF UseTemp, At, Busy
  <2> QED
    BY <1>25, <2>1, UseTempMoves, MovedInv
<1> QED
  BY <1>1, <1>2, <1>3, <1>4, <1>5, <1>6, <1>7, <1>8, <1>9, <1>10, <1>11,
     <1>12, <1>13, <1>14, <1>15, <1>16, <1>17, <1>18, <1>19, <1>20, <1>21,
     <1>22, <1>23, <1>24, <1>25 DEF Step, LoadStep

LEMMA BeginInv ==
  ASSUME IInv, Begin, Noted
  PROVE  IInv'
<1> USE DEF IInv
<1>1. ASSUME NEW t \in {Gui} \cup Worker, NEW g \in Game, NEW path \in FileKind \cup {"empty"},
             BeginLoad(t, g, path)
      PROVE  IInv'
  <2>1. Moved(t)
    BY <1>1, BeginLoadMoves
  <2>2. UNCHANGED <<archives, materials, kept>>
    BY <1>1 DEF BeginLoad
  <2> QED
    BY <2>1, <2>2, MovedInv
<1>2. ASSUME NEW tempFirst \in BOOLEAN, CloseArchives(Gui, tempFirst)
      PROVE  IInv'
  <2>1. UNCHANGED <<archives, materials, kept>>
    BY <1>2 DEF CloseArchives
  <2> QED
    BY <1>2, <2>1, CloseArchivesMoves, MovedInv
<1>3. CASE Materials(Gui)
  <2>1. UNCHANGED <<archives, materials, kept>>
    BY <1>3 DEF Materials
  <2> QED
    BY <1>3, <2>1, MaterialsMoves, MovedInv
<1>4. ASSUME NEW t \in {Gui, Nested}, GetSFMaterial(t)
      PROVE  IInv'
  <2>1. Moved(t)
    BY <1>4, GetSFMaterialMoves
  <2>2. Busy(t)'
    <3>1. "getSFMaterial" \in Call /\ "materials" \in Label
      BY DEF Call, Label
    <3>2. thread'[t] = In("getSFMaterial", Starfield, "materials")
      BY <1>4, <3>1, BeginsTo DEF GetSFMaterial
    <3> QED
      BY <3>2 DEF Busy, In
  <2> QED
    BY <2>1, <2>2, MovedInv
<1>5. ASSUME NEW t \in {Gui, Nested}, NEW g \in Game, GetFile(t, g)
      PROVE  IInv'
  <2>1. UNCHANGED <<archives, materials, kept>>
    BY <1>5 DEF GetFile
  <2> QED
    BY <1>5, <2>1, GetFileMoves, MovedInv
<1> QED
  BY <1>1, <1>2, <1>3, <1>4, <1>5 DEF Begin

(* The shader property may get another material at any time.               *)
LEMMA SetSFMaterialInv ==
  ASSUME IInv, SetSFMaterial, Noted
  PROVE  IInv'
<1>1. /\ UNCHANGED <<archives, materials, thread>>
      /\ kept' = [id |-> 0, from |-> 0]
  BY DEF SetSFMaterial
<1>2. TypeOK'
  BY <1>1 DEF IInv, TypeOK, ArchivesOK, MaterialsOK, ThreadsOK, archives, materials, Noted
<1>3. Closers'
  BY <1>1 DEF IInv, Closers
<1>4. ASSUME ~raced' PROVE Alone'
  <2>1. PICK t \in Thread : OthersRest(t) /\ Facts(thread[t])
    BY <1>4 DEF IInv, Alone, Noted
  <2>2. OthersRest(t)'
    BY <1>1, <2>1 DEF OthersRest, Busy
  <2>3. Facts(thread[t])'
    BY <1>1, <2>1 DEF IInv, TypeOK, MaterialsOK, archives, materials, Facts, Sources, Flags,
       Unmarked, Kept, KeptUntilIdChanges, Folder, Deletes
  <2> QED
    BY <2>2, <2>3 DEF Alone
<1> QED
  BY <1>2, <1>3, <1>4 DEF IInv

LEMMA InitInv == Init => IInv
<1> SUFFICES ASSUME Init PROVE IInv
  OBVIOUS
<1>1. thread = [t \in Thread |-> Outside]
  BY DEF Init
<1>2. TypeOK
  <2>1. ArchivesOK
    BY DEF Init, ArchivesOK
  <2>2. kept \in [id : Nat, from : 0 .. opened]
    BY DEF Init
  <2>3. MaterialsOK
    BY <2>2 DEF Init, MaterialsOK
  <2>4. ThreadsOK
    BY <1>1, OutsidePlace DEF Init, ThreadsOK
  <2> QED
    BY <2>1, <2>3, <2>4 DEF TypeOK
<1>3. Closers
  BY <1>1 DEF Closers, Outside, In
<1>4. Alone
  <2>1. OthersRest(Gui)
    BY <1>1 DEF OthersRest, Busy, Outside, In
  <2>2. Facts(thread[Gui])
    BY <1>1 DEF Init, Facts, Sources, Flags, Unmarked, Kept, KeptUntilIdChanges, Folder, Deletes,
       Outside, In
  <2> QED
    BY <2>1, <2>2 DEF Alone
<1> QED
  BY <1>2, <1>3, <1>4 DEF IInv

LEMMA NextInv == IInv /\ [Next]_vars => IInv'
<1> SUFFICES ASSUME IInv, [Next]_vars PROVE IInv'
  OBVIOUS
<1>1. CASE Begin /\ Noted
  BY <1>1, BeginInv
<1>2. CASE SetSFMaterial /\ Noted
  BY <1>2, SetSFMaterialInv
<1>3. ASSUME NEW t \in Thread, Runs(t) PROVE IInv'
  BY <1>3, StepInv DEF Runs
<1>4. CASE UNCHANGED vars
  BY <1>4 DEF vars, archives, materials, IInv, TypeOK, ArchivesOK, MaterialsOK, ThreadsOK, Closers,
     Alone, OthersRest, Busy, Facts, Sources, Flags, Unmarked, Kept, KeptUntilIdChanges, Folder,
     Deletes
<1> QED
  BY <1>1, <1>2, <1>3, <1>4 DEF Next

LEMMA Invariant == Spec => []IInv
  BY InitInv, NextInv, PTL DEF Spec

-----------------------------------------------------------------------------
(* Type correctness, however the threads interleave: what is open has been *)
(* opened, and nothing was opened twice.                                   *)
THEOREM ResourcesTypeCorrect == Spec => []TypeOK
<1>1. IInv => TypeOK
  BY DEF IInv
<1> QED
  BY <1>1, Invariant, PTL

(* As long as the calls come one at a time, the material database is       *)
(* closed before an archive it was read from: at each step of open_folders,*)
(* close_all, set_temp_folder and materials, for all games and files.      *)
THEOREM DatabaseSourcesOpen == Spec => []SourcesOpen
<1>1. IInv => SourcesOpen
  BY DEF IInv, Alone, Facts, Sources, SourcesOpen
<1> QED
  BY <1>1, Invariant, PTL

(* As long as they do, the materials in the folder of the document are in  *)
(* the database between two calls, although close_materials of an unloaded *)
(* database keeps have_temp_materials and set_temp_folder tests it.        *)
THEOREM FolderMaterialsUsed == Spec => []TempMaterialsUsed
<1>1. ASSUME IInv PROVE TempMaterialsUsed
  <2>1. SUFFICES ASSUME ~raced, \A t \in Thread : ~Busy(t), contents # 0,
                        temp[Starfield] \in withMat
                 PROVE  temp[Starfield] \in sources
    BY DEF TempMaterialsUsed
  <2>2. PICK t \in Thread : Facts(thread[t])
    BY <1>1, <2>1 DEF IInv, Alone
  <2>3. thread[t].pc # "use"
    BY <2>1 DEF Busy
  <2> QED
    BY <2>1, <2>2, <2>3 DEF Facts, Folder
<1> QED
  BY <1>1, Invariant, PTL

(* As long as they do, a material that is kept with the present id is one  *)
(* of the present database at each step: close_materials and the load of   *)
(* the database change the id before the contents.                         *)
THEOREM KeptMaterialsCurrent == Spec => []KeptIsCurrent
<1>1. IInv => KeptIsCurrent
  BY DEF IInv, Alone, Facts, Kept, KeptIsCurrent
<1> QED
  BY <1>1, Invariant, PTL
=============================================================================
