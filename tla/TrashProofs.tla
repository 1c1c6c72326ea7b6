----------------------------- MODULE TrashProofs -----------------------------
(***************************************************************************)
(* The Trash keeps what it is for: for any albums, tracks, folders, images *)
(* and names, however names share the keys of their records, with and      *)
(* without failing calls, and for any number of operations and of changes  *)
(* from outside.                                                           *)
(*                                                                         *)
(* Four arguments over one type.  What is in an entry is followed from the *)
(* claim of its name to the record (ContainerInv); a file that has no row  *)
(* in the music folder and is there is followed from the pass over it to   *)
(* the removal of the rows (LeaveInv); what an emptying and a reset may    *)
(* delete is known before they start (EmptyInv); and what a delete answers *)
(* is compared with what it found (TellInv).                               *)
(***************************************************************************)
EXTENDS Trash, TLAPS

Rows == [Tracks -> Places \cup {None}]
Records == [name : Names, moved : {"items", "folder", "files"}, of : SUBSET Files]
Trashers == {"album", "artist", "resolve", "replace"}
TrashPcs == {"next", "claim", "moving", "record", "remove"}
BackPcs == {"move back", "in place", "return"}
Pcs == TrashPcs \cup BackPcs \cup
       {"idle", "answer", "sweep", "reset", "reset move", "record files", "import", "land", "empty"}
Answers == {"done", "failed", "unavailable", "nothing deleted", "some moved", "some dropped"}
Ops == [kind : Trashers \cup {"idle", "sweep", "reset", "restore", "empty"}, pc : Pcs,
        todo : SUBSET (Albums \cup Names), album : Albums \cup {None}, name : Names \cup {None},
        left : SUBSET Files, reading : SUBSET Tracks, fromHome : BOOLEAN, mutated : BOOLEAN,
        moved : BOOLEAN, misled : BOOLEAN, clean : BOOLEAN, answer : Answers \cup {None}]

TypeOK ==
  /\ at \in [Files -> SUBSET Places]
  /\ rows \in Rows /\ albums \in SUBSET Albums
  /\ undo # None => undo \in [rows : Rows, albums : SUBSET Albums]
  /\ entry \in [Names -> {None, "app", "stranger"}]
  /\ record \in [Keys -> Records \cup {None}]
  /\ share \in {"up", "down", "stray"}
  /\ op \in Ops
  /\ op.pc # "idle" => begun \in [rows : Rows, albums : SUBSET Albums, at : [Files -> SUBSET Places]]
  /\ excused \in SUBSET Tracks

\* Which operation is where; a transaction is open in a delete or a resolved
\* group, and no longer when it answers.
ShapeInv ==
  /\ op.pc = "idle" => op = Idle
  /\ op.pc \in TrashPcs => op.kind \in Trashers
  /\ op.pc \in BackPcs \cup {"import", "land"} => op.kind = "restore"
  /\ op.pc \in {"reset", "reset move"} => op.kind = "reset"
  /\ op.pc = "sweep" => op.kind = "sweep"
  /\ op.pc = "record files" => op.kind \in {"sweep", "reset"}
  /\ op.pc = "empty" => op.kind = "empty"
  /\ undo # None => op.pc \in TrashPcs /\ op.kind # "replace"
  /\ op.pc \in {"claim", "moving", "record", "remove"} => op.album \in Albums
  /\ op.pc \in {"moving", "record", "reset move", "record files", "import", "land"} \cup BackPcs
       => op.name \in Names
  /\ op.pc \in {"import", "land"} => op.left \subseteq Tracks

-----------------------------------------------------------------------------
(* What is in an entry, and its record.                                    *)

\* What lies in the Trash lies in an entry of ours.
EntriesInv == \A n \in Names : entry[n] # "app" => Inside(n) = {}
FolderInv ==
  \A k \in Keys : record[k] # None /\ record[k].moved = "folder" => record[k].of \subseteq Husks
\* The entry in the making is ours and has no record yet; a folder on its way
\* back is the one its record tells of.
ContainerInv ==
  /\ op.pc \in {"moving", "reset move"} => entry[op.name] = "app" /\ ~Recorded(op.name)
  /\ op.pc \in {"moving", "record"} => Inside(op.name) \subseteq Items(op.album)
  /\ op.pc = "moving" => op.left \subseteq Items(op.album)
  /\ op.pc = "sweep" => op.left \subseteq Husks
  /\ op.pc = "record files" /\ op.kind = "sweep" => Inside(op.name) \subseteq Husks
  /\ op.pc \in BackPcs => /\ Recorded(op.name) /\ ~OfAnother(op.name)
                          /\ record[KeyOf[op.name]].of = op.left /\ op.left \subseteq Husks
RecordInv == EntriesInv /\ FolderInv /\ ContainerInv /\ RecordIsOfEntry

-----------------------------------------------------------------------------
(* What is left in the music folder.                                       *)

Lost(t, row) == row # "home" /\ "home" \in at[t] => t \in excused
LostInv ==
  /\ \A t \in Tracks : Lost(t, rows[t])
  /\ undo # None => \A t \in Tracks : Lost(t, undo.rows[t])
\* What a stray mount point makes pass.
Misses == share = "stray" /\ (op.kind = "replace" \/ \E t \in Tracks : rows[t] \in Names)
\* What a move has passed over, and what the check has let through, is not there.
PassInv ==
  /\ op.pc \in TrashPcs /\ op.kind = "replace" /\ share = "down" => op.misled
  /\ op.pc = "moving" /\ share = "up" /\ ~op.misled =>
       \A t \in Items(op.album) \ op.left : Lost(t, None)
  /\ op.pc \in {"record", "remove"} /\ ~op.misled /\ ~Misses =>
       \A t \in Items(op.album) : Lost(t, None)
LeaveInv == LostInv /\ PassInv

-----------------------------------------------------------------------------
(* What may be deleted.                                                    *)

EmptyInv ==
  /\ op.pc = "empty" => \A n \in op.todo : n \in Names /\ \A t \in Tracks : rows[t] # n
  /\ op.pc \in {"reset", "reset move"} => \A i \in op.left : "home" \in at[i]
  /\ op.pc = "reset" => ~op.moved
  /\ op.pc = "reset move" /\ ~op.moved =>
       \A x \in Files : op.name \in at[x] => "home" \in at[x]

-----------------------------------------------------------------------------
(* What a delete tells.                                                    *)

Untouched == rows = begun.rows /\ albums = begun.albums /\ at = begun.at
InTrashNow(t) == at[t] \cap Names # {} \/ begun.rows[t] \in Names
\* A row is of a file the library had, and one of an entry is of a file found there.
FoundInv ==
  op.pc \in TrashPcs => \A t \in Tracks : /\ rows[t] # None => begun.rows[t] # None
                                          /\ rows[t] \in Names => InTrashNow(t)
\* Before the first album goes all is as it was; of one album there is one.
UntouchedInv ==
  /\ op.pc = "next" /\ ~op.mutated => Untouched
  /\ op.pc \in TrashPcs /\ op.kind = "album" =>
       /\ op.pc = "next" /\ ~op.mutated => \E a \in albums : op.todo = {a}
       /\ op.pc = "next" /\ op.mutated => op.todo = {} /\ albums # begun.albums
       /\ op.pc # "next" => op.todo = {op.album} /\ op.album \in albums /\ albums = begun.albums
\* What was moved has lost its row, or is about to.
MovedInv ==
  /\ op.pc \in TrashPcs /\ op.moved =>
       \E t \in Tracks : begun.rows[t] # None /\ rows[t] = None /\ InTrashNow(t)
  /\ op.pc \in {"record", "remove"} /\ op.name # None =>
       \E t \in Items(op.album) : rows[t] \in Names
TellInv == FoundInv /\ UntouchedInv /\ MovedInv

IInv == TypeOK /\ ShapeInv /\ RecordInv /\ LeaveInv /\ EmptyInv /\ TellInv /\ AnswerIsTrue

-----------------------------------------------------------------------------
(* The type.                                                               *)

\* The idle operation is one, and carries nothing.
LEMMA IdleIsOp == Idle \in Ops
BY DEF Idle, Ops, Pcs, TrashPcs, BackPcs, Trashers, Answers

\* What each field of the idle operation says.
LEMMA IdlesPc ==
  /\ Idle.pc = "idle" /\ Idle.kind = "idle" /\ Idle.todo = {} /\ Idle.left = {}
  /\ Idle.album = None /\ Idle.name = None /\ Idle.reading = {} /\ Idle.answer = None
  /\ ~Idle.fromHome /\ ~Idle.mutated /\ ~Idle.moved /\ ~Idle.misled /\ Idle.clean
BY DEF Idle

\* An answer is an operation at its end, and closes the transaction.
LEMMA AnswerType ==
  ASSUME op \in Ops, NEW what \in Answers, Answer(what)
  PROVE  /\ op' \in Ops /\ op'.pc = "answer" /\ op'.kind = op.kind /\ op'.answer = what
         /\ undo' = None
BY IdleIsOp DEF Answer, Ops, Pcs

\* So is what an operation raises.
LEMMA RaiseType ==
  ASSUME op \in Ops, NEW what \in Answers, Raise(what)
  PROVE  /\ op' \in Ops /\ op'.pc = "answer" /\ op'.kind = op.kind /\ undo' = None
         /\ op'.answer = IF op.kind # "artist" \/ ~op.mutated THEN what
                         ELSE IF op.moved THEN "some moved" ELSE "some dropped"
BY AnswerType DEF Raise, Answers

\* An operation goes on to what comes next, and is otherwise what it was.
LEMMA ToType ==
  ASSUME op \in Ops, NEW pc \in Pcs, To(pc)
  PROVE  op' \in Ops /\ op'.pc = pc /\ op'.kind = op.kind
BY DEF To, Ops


\* Every step leaves an operation.
LEMMA OpType ==
  ASSUME TypeOK, op \in Ops, [Next]_vars
  PROVE  op' \in Ops
<1>1. ASSUME NEW kind \in {"album", "artist", "resolve", "replace"}, NEW as \in SUBSET Albums,
             NEW reading \in {{}} \cup {{t} : t \in Tracks}, StartTrashing(kind, as, reading)
      PROVE  op' \in Ops
  <2>1. reading \in SUBSET Tracks
    OBVIOUS
  <2>2. op' = [Idle EXCEPT !.kind = kind, !.pc = "next", !.todo = as, !.reading = reading]
    BY <1>1 DEF StartTrashing, Begin
  <2>q. QED
    BY <2>1, <2>2, IdleIsOp DEF Ops, Pcs, TrashPcs, Trashers
<1>2. ASSUME NEW a \in Albums, NextAlbum(a)
      PROVE  op' \in Ops
  <2>1. CASE \E t \in Items(a) :
                LeftInTrash(a) /\ op' = [op EXCEPT !.pc = "remove", !.album = a, !.name = rows[t]]
    <3>1. PICK t \in Items(a) :
                LeftInTrash(a) /\ op' = [op EXCEPT !.pc = "remove", !.album = a, !.name = rows[t]]
      BY <2>1
    <3>2. rows[t] \in Names
      BY <3>1 DEF LeftInTrash
    <3>q. QED
      BY <3>1, <3>2 DEF Ops, Pcs, TrashPcs
  <2>2. CASE Take(a, "remove")
    BY <2>2 DEF Take, Ops, Pcs, TrashPcs
  <2>3. CASE Take(a, "claim")
    BY <2>3 DEF Take, Ops, Pcs, TrashPcs
  <2>4. CASE Raise("unavailable") \/ Raise("nothing deleted")
    BY <2>4, RaiseType DEF Answers
  <2>q. QED
    BY <1>2, <2>1, <2>2, <2>3, <2>4 DEF NextAlbum
<1>3. ASSUME NEW n \in Names, Claim(n)
      PROVE  op' \in Ops
  <2>1. PICK left \in SUBSET Files, home \in BOOLEAN :
            op' = [op EXCEPT !.pc = "moving", !.name = n, !.left = left, !.fromHome = home]
    BY <1>3 DEF Claim, Items, Files
  <2>q. QED
    BY <2>1 DEF Ops, Pcs, TrashPcs
<1>4. ASSUME NEW t \in Tracks, MoveTrack(t)
      PROVE  op' \in Ops
  <2>1. op' = [op EXCEPT !.left = @ \ {t}] \/ Raise("failed")
    BY <1>4 DEF MoveTrack
  <2>q. QED
    BY ZenonT(40), <2>1, RaiseType DEF Ops, Answers
<1>5. ASSUME Check
      PROVE  op' \in Ops
  <2>1. To("record") \/ Raise("unavailable") \/ Raise("failed") \/ Take(op.album, "remove")
    BY <1>5 DEF Check
  <2>2. CASE To("record")
    BY <2>2, ToType DEF Pcs, TrashPcs
  <2>3. CASE Take(op.album, "remove")
    BY <2>3 DEF Take, Ops, Pcs, TrashPcs
  <2>q. QED
    BY <2>1, <2>2, <2>3, RaiseType DEF Answers
<1>6. ASSUME RecordAlbum
      PROVE  op' \in Ops
  BY <1>6, ToType DEF RecordAlbum, Pcs, TrashPcs
<1>7. ASSUME RemoveRows
      PROVE  op' \in Ops
  <2>1. CASE \E b \in BOOLEAN :
                op' = [op EXCEPT !.pc = "next", !.todo = op.todo \ {op.album}, !.mutated = TRUE,
                                 !.moved = b, !.album = None, !.name = None, !.fromHome = FALSE]
    <3>1. PICK b \in BOOLEAN :
                op' = [op EXCEPT !.pc = "next", !.todo = op.todo \ {op.album}, !.mutated = TRUE,
                                 !.moved = b, !.album = None, !.name = None, !.fromHome = FALSE]
      BY <2>1
    <3>2. PICK o \in Ops : o = [op EXCEPT !.pc = "next", !.todo = op.todo \ {op.album}, !.mutated = TRUE]
      BY DEF Ops, Pcs, TrashPcs
    <3>3. op' = [o EXCEPT !.moved = b, !.album = None, !.name = None, !.fromHome = FALSE]
      BY <3>1, <3>2
    <3>q. QED
      BY ZenonT(40), <3>3 DEF Ops
  <2>2. CASE Raise("failed")
    BY <2>2, RaiseType DEF Answers
  <2>3. op.moved \in BOOLEAN
    BY DEF Ops
  <2>q. QED
    BY <1>7, <2>1, <2>2, <2>3 DEF RemoveRows
<1>8. ASSUME FinishTrashing
      PROVE  op' \in Ops
  BY <1>8, AnswerType DEF FinishTrashing, Answers
<1>9. ASSUME NEW h \in Husks, StartSweep(h)
      PROVE  op' \in Ops
  BY <1>9, IdleIsOp DEF StartSweep, Begin, Ops, Pcs, Files
<1>10. ASSUME NEW h \in Husks, NEW n \in Names, SweepFolder(h, n)
      PROVE  op' \in Ops
  <2>1. op' = [op EXCEPT !.pc = "record files", !.name = n] \/ Answer("failed")
    BY <1>10 DEF SweepFolder
  <2>q. QED
    BY ZenonT(40), <2>1, AnswerType DEF Answers, Ops, Pcs
<1>11. ASSUME StartReset
      PROVE  op' \in Ops
  BY <1>11, IdleIsOp DEF StartReset, Begin, Ops, Pcs, Files
<1>12. ASSUME NEW n \in Names, ClaimReset(n)
      PROVE  op' \in Ops
  BY <1>12 DEF ClaimReset, Ops, Pcs
<1>13. ASSUME NEW i \in Images, MoveImage(i)
      PROVE  op' \in Ops
  <2>1. CASE op' = [op EXCEPT !.left = op.left \ {i}, !.moved = TRUE]
    BY <2>1 DEF Ops
  <2>2. CASE op' = [op EXCEPT !.left = {}, !.clean = FALSE]
    BY <2>2 DEF Ops
  <2>q. QED
    BY <1>13, <2>1, <2>2 DEF MoveImage
<1>14. ASSUME EndReset
      PROVE  op' \in Ops
  BY <1>14, AnswerType, ToType DEF EndReset, Pcs, Answers
<1>15. ASSUME RecordFiles
      PROVE  op' \in Ops
  BY <1>15, AnswerType DEF RecordFiles, Answers
<1>16. ASSUME NEW n \in Names, StartRestore(n)
      PROVE  op' \in Ops
  <2>1. GoesBack(RecordOf(n)) => RecordOf(n).of \in SUBSET Files
    BY KeyOfAssumption DEF GoesBack, RecordOf, Recorded, Records, TypeOK
  <2>2. PICK pc \in {"move back", "import"}, left \in SUBSET Files :
            op' = [Idle EXCEPT !.kind = "restore", !.pc = pc, !.name = n, !.left = left]
    BY <1>16, <2>1 DEF StartRestore, Begin, Inside, Files
  <2>q. QED
    BY <2>2, IdleIsOp DEF Ops, Pcs, BackPcs
<1>17. ASSUME MoveBack
      PROVE  op' \in Ops
  BY <1>17, AnswerType, ToType DEF MoveBack, Pcs, BackPcs, Answers
<1>18. ASSUME ImportInPlace
      PROVE  op' \in Ops
  BY <1>18, AnswerType, ToType DEF ImportInPlace, Pcs, BackPcs, Answers
<1>19. ASSUME ReturnToTrash
      PROVE  op' \in Ops
  BY <1>19, AnswerType DEF ReturnToTrash, Answers
<1>20. ASSUME ImportEntry
      PROVE  op' \in Ops
  BY <1>20, AnswerType, ToType DEF ImportEntry, Pcs, Answers
<1>21. ASSUME NEW t \in Tracks, LandTrack(t)
      PROVE  op' \in Ops
  <2>1. op' = [op EXCEPT !.left = @ \ {t}] \/ Answer("failed")
    BY <1>21 DEF LandTrack
  <2>q. QED
    BY ZenonT(40), <2>1, AnswerType DEF Answers, Ops
<1>22. ASSUME EndImport
      PROVE  op' \in Ops
  BY <1>22, AnswerType DEF EndImport, Answers
<1>23. ASSUME NEW ns \in SUBSET Names, StartEmpty(ns)
      PROVE  op' \in Ops
  <2>1. PICK todo \in SUBSET ns, clean \in BOOLEAN :
            op' = [Idle EXCEPT !.kind = "empty", !.pc = "empty", !.todo = todo, !.clean = clean]
    BY <1>23 DEF StartEmpty, Begin
  <2>q. QED
    BY <2>1, IdleIsOp DEF Ops, Pcs
<1>24. ASSUME NEW n \in Names, NEW x \in Files, EmptyFile(n, x)
      PROVE  op' \in Ops
  <2>1. CASE op' = [op EXCEPT !.name = n]
    BY <2>1 DEF Ops
  <2>2. CASE op' = [op EXCEPT !.todo = op.todo \ {n}, !.clean = FALSE]
    BY <2>2 DEF Ops
  <2>q. QED
    BY <1>24, <2>1, <2>2 DEF EmptyFile
<1>25. ASSUME NEW n \in Names, EmptyEntry(n)
      PROVE  op' \in Ops
  BY <1>25 DEF EmptyEntry, Ops
<1>26. ASSUME EndEmpty
      PROVE  op' \in Ops
  BY <1>26, AnswerType DEF EndEmpty, Answers
<1>27. ASSUME Close
      PROVE  op' \in Ops
  BY <1>27, IdleIsOp DEF Close
<1>28. ASSUME Crash
      PROVE  op' \in Ops
  BY <1>28, IdleIsOp DEF Crash
<1>29. ASSUME NEW s \in {"up", "down", "stray"}, ShareTurns(s)
      PROVE  op' \in Ops
  BY <1>29 DEF ShareTurns, Ops
<1>30. ASSUME NEW n \in Names, StrangerPuts(n)
      PROVE  op' \in Ops
  BY <1>30 DEF StrangerPuts
<1>31. ASSUME NEW n \in Names, StrangerTakes(n)
      PROVE  op' \in Ops
  BY <1>31 DEF StrangerTakes
<1>32. ASSUME UNCHANGED vars
      PROVE  op' \in Ops
  BY <1>32 DEF vars
<1>q. QED
  BY <1>1, <1>2, <1>3, <1>4, <1>5, <1>6, <1>7, <1>8, <1>9, <1>10, <1>11, <1>12, <1>13, <1>14,
     <1>15, <1>16, <1>17, <1>18, <1>19, <1>20, <1>21, <1>22, <1>23, <1>24, <1>25, <1>26, <1>27,
     <1>28, <1>29, <1>30, <1>31, <1>32 DEF Next, TrashStep, SweepStep, ResetStep, RestoreStep,
     EmptyStep, OutsideStep, Files

\* The disk's part of the type.
DiskOK ==
  /\ at \in [Files -> SUBSET Places] /\ entry \in [Names -> {None, "app", "stranger"}]
  /\ record \in [Keys -> Records \cup {None}] /\ share \in {"up", "down", "stray"}

\* Every step leaves the disk within its type.
LEMMA DiskType ==
  ASSUME TypeOK, ShapeInv, [Next]_vars
  PROVE  DiskOK'
<1>1. ASSUME NEW kind \in {"album", "artist", "resolve", "replace"}, NEW as \in SUBSET Albums,
             NEW reading \in {{}} \cup {{t} : t \in Tracks}, StartTrashing(kind, as, reading)
      PROVE  DiskOK'
  BY <1>1, KeyOfAssumption DEF StartTrashing, Begin, disk, db, env, TypeOK, DiskOK, Files, Places,
     Records
<1>2. ASSUME NEW a \in Albums, NextAlbum(a)
      PROVE  DiskOK'
  BY <1>2, KeyOfAssumption DEF NextAlbum, Take, Items, disk, db, env, TypeOK, DiskOK, Files,
     Places,
     Records
<1>3. ASSUME NEW n \in Names, Claim(n)
      PROVE  DiskOK'
  BY <1>3, KeyOfAssumption DEF Claim, Items, disk, db, env, TypeOK, DiskOK, Files, Places, Records
<1>4. ASSUME NEW t \in Tracks, MoveTrack(t)
      PROVE  DiskOK'
  BY <1>4, KeyOfAssumption DEF MoveTrack, Put, ShapeInv, BackPcs, disk, db, env, TypeOK, DiskOK,
     Files,
     Places, Records
<1>5. ASSUME Check
      PROVE  DiskOK'
  BY <1>5, KeyOfAssumption DEF Check, Take, disk, db, env, TypeOK, DiskOK, Files, Places, Records
<1>6. ASSUME RecordAlbum
      PROVE  DiskOK'
  BY <1>6, KeyOfAssumption DEF RecordAlbum, WriteRecord, Write, Items, ShapeInv, BackPcs, disk,
     db, env, TypeOK, DiskOK, Files, Places, Records
<1>7. ASSUME RemoveRows
      PROVE  DiskOK'
  BY <1>7, KeyOfAssumption DEF RemoveRows, Items, disk, db, env, TypeOK, DiskOK, Files, Places,
     Records
<1>8. ASSUME FinishTrashing
      PROVE  DiskOK'
  BY <1>8, KeyOfAssumption DEF FinishTrashing, disk, db, env, TypeOK, DiskOK, Files, Places,
     Records
<1>9. ASSUME NEW h \in Husks, StartSweep(h)
      PROVE  DiskOK'
  BY <1>9, KeyOfAssumption DEF StartSweep, Begin, disk, db, env, TypeOK, DiskOK, Files, Places,
     Records
<1>10. ASSUME NEW h \in Husks, NEW n \in Names, SweepFolder(h, n)
      PROVE  DiskOK'
  BY <1>10, KeyOfAssumption DEF SweepFolder, Put, disk, db, env, TypeOK, DiskOK, Files, Places,
     Records
<1>11. ASSUME StartReset
      PROVE  DiskOK'
  BY <1>11, KeyOfAssumption DEF StartReset, Begin, disk, db, env, TypeOK, DiskOK, Files, Places,
     Records
<1>12. ASSUME NEW n \in Names, ClaimReset(n)
      PROVE  DiskOK'
  BY <1>12, KeyOfAssumption DEF ClaimReset, disk, db, env, TypeOK, DiskOK, Files, Places, Records
<1>13. ASSUME NEW i \in Images, MoveImage(i)
      PROVE  DiskOK'
  <2>1. i \in Files /\ op.name \in Places /\ UNCHANGED <<entry, record, share>>
    BY <1>13 DEF MoveImage, ShapeInv, Files, Places, disk, env
  <2>2. PICK p \in SUBSET Places : at' = [at EXCEPT ![i] = p]
    BY <1>13, <2>1 DEF MoveImage, Put, TypeOK, DiskOK
  <2>q. QED
    BY <2>1, <2>2 DEF TypeOK, DiskOK
<1>14. ASSUME EndReset
      PROVE  DiskOK'
  <2>1. at' = at \/ at' = [x \in Files |-> at[x] \ {op.name}]
    BY <1>14 DEF EndReset, disk
  <2>2. entry' = entry \/ entry' = [entry EXCEPT ![op.name] = None]
    BY <1>14 DEF EndReset, disk
  <2>3. UNCHANGED <<record, share>>
    BY <1>14 DEF EndReset, env
  <2>q. QED
    BY <2>1, <2>2, <2>3 DEF TypeOK, DiskOK
<1>15. ASSUME RecordFiles
      PROVE  DiskOK'
  <2>1. op.name \in Names /\ UNCHANGED <<at, entry, share>>
    BY <1>15 DEF RecordFiles, ShapeInv, disk, env
  <2>2. PICK shape \in {"folder", "files"} :
            Write(op.name, shape, Inside(op.name)) \/ UNCHANGED record
    BY <1>15 DEF RecordFiles, WriteRecord
  <2>3. Inside(op.name) \in SUBSET Files
    BY DEF Inside
  <2>q. QED
    BY <2>1, <2>2, <2>3, KeyOfAssumption DEF Write, TypeOK, DiskOK, Records
<1>16. ASSUME NEW n \in Names, StartRestore(n)
      PROVE  DiskOK'
  BY <1>16, KeyOfAssumption DEF StartRestore, Begin, Inside, RecordOf, GoesBack, Recorded,
     disk, db, env, TypeOK, DiskOK, Files, Places, Records
<1>17. ASSUME MoveBack
      PROVE  DiskOK'
  <2>1. /\ UNCHANGED <<record, share>> /\ "home" \in Places
        /\ entry' = entry \/ entry' = [entry EXCEPT ![op.name] = None]
    BY <1>17 DEF MoveBack, env, Places
  <2>2. CASE at' = [x \in Files |-> IF op.name \in at[x] THEN (at[x] \ {op.name}) \cup {"home"}
                                                        ELSE at[x]]
    BY <2>1, <2>2 DEF TypeOK, DiskOK
  <2>3. CASE \E copied \in SUBSET Inside(op.name) :
               at' = [x \in Files |-> IF x \in copied THEN at[x] \cup {"home"} ELSE at[x]]
    BY <2>1, <2>3 DEF TypeOK, DiskOK
  <2>q. QED
    BY <1>17, <2>2, <2>3 DEF MoveBack
<1>18. ASSUME ImportInPlace
      PROVE  DiskOK'
  BY <1>18, KeyOfAssumption DEF ImportInPlace, DeleteRecord, disk, db, env, TypeOK, DiskOK, Files,
     Places, Records
<1>19. ASSUME ReturnToTrash
      PROVE  DiskOK'
  BY <1>19, KeyOfAssumption DEF ReturnToTrash, MoveToTrash, DeleteRecord, ShapeInv, BackPcs,
     disk, db, env, TypeOK, DiskOK, Files, Places, Records
<1>20. ASSUME ImportEntry
      PROVE  DiskOK'
  BY <1>20, KeyOfAssumption DEF ImportEntry, ShapeInv, BackPcs, disk, db, env, TypeOK, DiskOK,
     Files,
     Places, Records
<1>21. ASSUME NEW t \in Tracks, LandTrack(t)
      PROVE  DiskOK'
  BY <1>21, KeyOfAssumption DEF LandTrack, Put, ShapeInv, BackPcs, disk, db, env, TypeOK, DiskOK,
     Files, Places, Records
<1>22. ASSUME EndImport
      PROVE  DiskOK'
  BY <1>22, KeyOfAssumption DEF EndImport, DeleteRecord, disk, db, env, TypeOK, DiskOK, Files,
     Places,
     Records
<1>23. ASSUME NEW ns \in SUBSET Names, StartEmpty(ns)
      PROVE  DiskOK'
  BY <1>23, KeyOfAssumption DEF StartEmpty, Begin, disk, db, env, TypeOK, DiskOK, Files, Places,
     Records
<1>24. ASSUME NEW n \in Names, NEW x \in Files, EmptyFile(n, x)
      PROVE  DiskOK'
  BY <1>24, KeyOfAssumption DEF EmptyFile, Put, disk, db, env, TypeOK, DiskOK, Files, Places,
     Records
<1>25. ASSUME NEW n \in Names, EmptyEntry(n)
      PROVE  DiskOK'
  BY <1>25, KeyOfAssumption DEF EmptyEntry, DeleteRecord, disk, db, env, TypeOK, DiskOK, Files,
     Places,
     Records
<1>26. ASSUME EndEmpty
      PROVE  DiskOK'
  BY <1>26, KeyOfAssumption DEF EndEmpty, disk, db, env, TypeOK, DiskOK, Files, Places, Records
<1>27. ASSUME Close
      PROVE  DiskOK'
  BY <1>27, KeyOfAssumption DEF Close, disk, db, env, TypeOK, DiskOK, Files, Places, Records
<1>28. ASSUME Crash
      PROVE  DiskOK'
  BY <1>28, KeyOfAssumption DEF Crash, disk, db, env, TypeOK, DiskOK, Files, Places, Records
<1>29. ASSUME NEW s \in {"up", "down", "stray"}, ShareTurns(s)
      PROVE  DiskOK'
  BY <1>29, KeyOfAssumption DEF ShareTurns, Outside, disk, db, env, TypeOK, DiskOK, Files, Places,
     Records
<1>30. ASSUME NEW n \in Names, StrangerPuts(n)
      PROVE  DiskOK'
  BY <1>30, KeyOfAssumption DEF StrangerPuts, Outside, disk, db, env, TypeOK, DiskOK, Files,
     Places,
     Records
<1>31. ASSUME NEW n \in Names, StrangerTakes(n)
      PROVE  DiskOK'
  BY <1>31, KeyOfAssumption DEF StrangerTakes, Outside, disk, db, env, TypeOK, DiskOK, Files,
     Places,
     Records
<1>32. ASSUME UNCHANGED vars
      PROVE  DiskOK'
  BY <1>32, KeyOfAssumption DEF vars, TypeOK, DiskOK
<1>q. QED
  BY <1>1, <1>2, <1>3, <1>4, <1>5, <1>6, <1>7, <1>8, <1>9, <1>10, <1>11, <1>12, <1>13, <1>14,
     <1>15, <1>16, <1>17, <1>18, <1>19, <1>20, <1>21, <1>22, <1>23, <1>24, <1>25, <1>26, <1>27,
     <1>28, <1>29, <1>30, <1>31, <1>32 DEF Next, TrashStep, SweepStep, ResetStep, RestoreStep,
     EmptyStep, OutsideStep, Files

\* Every step leaves the rows within their type.
LEMMA RowsType ==
  ASSUME TypeOK, ShapeInv, [Next]_vars
  PROVE  rows' \in Rows /\ albums' \in SUBSET Albums /\ excused' \in SUBSET Tracks
<1>1. ASSUME NEW kind \in {"album", "artist", "resolve", "replace"}, NEW as \in SUBSET Albums,
             NEW reading \in {{}} \cup {{t} : t \in Tracks}, StartTrashing(kind, as, reading)
      PROVE  rows' \in Rows /\ albums' \in SUBSET Albums /\ excused' \in SUBSET Tracks
  BY <1>1, AlbumOfAssumption DEF StartTrashing, Begin, disk, db, env, TypeOK, Places, Rows
<1>2. ASSUME NEW a \in Albums, NextAlbum(a)
      PROVE  rows' \in Rows /\ albums' \in SUBSET Albums /\ excused' \in SUBSET Tracks
  BY <1>2, AlbumOfAssumption DEF NextAlbum, Take, Items, disk, db, env, TypeOK, Places, Rows
<1>3. ASSUME NEW n \in Names, Claim(n)
      PROVE  rows' \in Rows /\ albums' \in SUBSET Albums /\ excused' \in SUBSET Tracks
  BY <1>3, AlbumOfAssumption DEF Claim, Items, disk, db, env, TypeOK, Places, Rows
<1>4. ASSUME NEW t \in Tracks, MoveTrack(t)
      PROVE  rows' \in Rows /\ albums' \in SUBSET Albums /\ excused' \in SUBSET Tracks
  BY <1>4, AlbumOfAssumption DEF MoveTrack, Put, ShapeInv, BackPcs, disk, db, env, TypeOK,
     Places, Rows
<1>5. ASSUME Check
      PROVE  rows' \in Rows /\ albums' \in SUBSET Albums /\ excused' \in SUBSET Tracks
  BY <1>5, AlbumOfAssumption DEF Check, Take, disk, db, env, TypeOK, Places, Rows
<1>6. ASSUME RecordAlbum
      PROVE  rows' \in Rows /\ albums' \in SUBSET Albums /\ excused' \in SUBSET Tracks
  BY <1>6, AlbumOfAssumption DEF RecordAlbum, WriteRecord, Write, Items, ShapeInv, BackPcs,
     disk, db, env, TypeOK, Places, Rows
<1>7. ASSUME RemoveRows
      PROVE  rows' \in Rows /\ albums' \in SUBSET Albums /\ excused' \in SUBSET Tracks
  BY <1>7, AlbumOfAssumption DEF RemoveRows, Items, disk, db, env, TypeOK, Places, Rows
<1>8. ASSUME FinishTrashing
      PROVE  rows' \in Rows /\ albums' \in SUBSET Albums /\ excused' \in SUBSET Tracks
  BY <1>8, AlbumOfAssumption DEF FinishTrashing, disk, db, env, TypeOK, Places, Rows
<1>9. ASSUME NEW h \in Husks, StartSweep(h)
      PROVE  rows' \in Rows /\ albums' \in SUBSET Albums /\ excused' \in SUBSET Tracks
  BY <1>9, AlbumOfAssumption DEF StartSweep, Begin, disk, db, env, TypeOK, Places, Rows
<1>10. ASSUME NEW h \in Husks, NEW n \in Names, SweepFolder(h, n)
      PROVE  rows' \in Rows /\ albums' \in SUBSET Albums /\ excused' \in SUBSET Tracks
  BY <1>10, AlbumOfAssumption DEF SweepFolder, Put, disk, db, env, TypeOK, Places, Rows
<1>11. ASSUME StartReset
      PROVE  rows' \in Rows /\ albums' \in SUBSET Albums /\ excused' \in SUBSET Tracks
  BY <1>11, AlbumOfAssumption DEF StartReset, Begin, disk, db, env, TypeOK, Places, Rows
<1>12. ASSUME NEW n \in Names, ClaimReset(n)
      PROVE  rows' \in Rows /\ albums' \in SUBSET Albums /\ excused' \in SUBSET Tracks
  BY <1>12, AlbumOfAssumption DEF ClaimReset, disk, db, env, TypeOK, Places, Rows
<1>13. ASSUME NEW i \in Images, MoveImage(i)
      PROVE  rows' \in Rows /\ albums' \in SUBSET Albums /\ excused' \in SUBSET Tracks
  BY <1>13, AlbumOfAssumption DEF MoveImage, Put, ShapeInv, BackPcs, disk, db, env, TypeOK,
     Places, Rows
<1>14. ASSUME EndReset
      PROVE  rows' \in Rows /\ albums' \in SUBSET Albums /\ excused' \in SUBSET Tracks
  BY <1>14, AlbumOfAssumption DEF EndReset, ShapeInv, BackPcs, disk, db, env, TypeOK, Places,
     Rows
<1>15. ASSUME RecordFiles
      PROVE  rows' \in Rows /\ albums' \in SUBSET Albums /\ excused' \in SUBSET Tracks
  BY <1>15, AlbumOfAssumption DEF RecordFiles, WriteRecord, Write, Inside, ShapeInv, BackPcs,
     disk, db, env, TypeOK, Places, Rows
<1>16. ASSUME NEW n \in Names, StartRestore(n)
      PROVE  rows' \in Rows /\ albums' \in SUBSET Albums /\ excused' \in SUBSET Tracks
  BY <1>16, AlbumOfAssumption DEF StartRestore, Begin, Inside, RecordOf, GoesBack, Recorded,
     disk, db, env, TypeOK, Places, Rows
<1>17. ASSUME MoveBack
      PROVE  rows' \in Rows /\ albums' \in SUBSET Albums /\ excused' \in SUBSET Tracks
  BY <1>17, AlbumOfAssumption DEF MoveBack, ShapeInv, BackPcs, disk, db, env, TypeOK, Places,
     Rows
<1>18. ASSUME ImportInPlace
      PROVE  rows' \in Rows /\ albums' \in SUBSET Albums /\ excused' \in SUBSET Tracks
  BY <1>18, AlbumOfAssumption DEF ImportInPlace, DeleteRecord, disk, db, env, TypeOK, Places,
     Rows
<1>19. ASSUME ReturnToTrash
      PROVE  rows' \in Rows /\ albums' \in SUBSET Albums /\ excused' \in SUBSET Tracks
  BY <1>19, AlbumOfAssumption DEF ReturnToTrash, MoveToTrash, DeleteRecord, ShapeInv, BackPcs,
     disk, db, env, TypeOK, Places, Rows
<1>20. ASSUME ImportEntry
      PROVE  rows' \in Rows /\ albums' \in SUBSET Albums /\ excused' \in SUBSET Tracks
  <2>1. op.name \in Names /\ op.left \subseteq Tracks /\ UNCHANGED excused
    BY <1>20 DEF ImportEntry, ShapeInv
  <2>2. CASE /\ op.left # {} /\ {AlbumOf[t] : t \in op.left} \cap albums = {}
             /\ \A t \in op.left : rows[t] = None
             /\ rows' = [t \in Tracks |-> IF t \in op.left THEN op.name ELSE rows[t]]
             /\ albums' = albums \cup {AlbumOf[t] : t \in op.left}
    <3>1. albums' \subseteq Albums
      BY <2>1, <2>2, AlbumOfAssumption DEF TypeOK
    <3>q. QED
      BY <2>1, <2>2, <3>1 DEF TypeOK, Rows, Places
  <2>q. QED
    BY <1>20, <2>1, <2>2 DEF ImportEntry, TypeOK
<1>21. ASSUME NEW t \in Tracks, LandTrack(t)
      PROVE  rows' \in Rows /\ albums' \in SUBSET Albums /\ excused' \in SUBSET Tracks
  BY <1>21, AlbumOfAssumption DEF LandTrack, Put, ShapeInv, BackPcs, disk, db, env, TypeOK,
     Places, Rows
<1>22. ASSUME EndImport
      PROVE  rows' \in Rows /\ albums' \in SUBSET Albums /\ excused' \in SUBSET Tracks
  BY <1>22, AlbumOfAssumption DEF EndImport, DeleteRecord, disk, db, env, TypeOK, Places, Rows
<1>23. ASSUME NEW ns \in SUBSET Names, StartEmpty(ns)
      PROVE  rows' \in Rows /\ albums' \in SUBSET Albums /\ excused' \in SUBSET Tracks
  BY <1>23, AlbumOfAssumption DEF StartEmpty, Begin, disk, db, env, TypeOK, Places, Rows
<1>24. ASSUME NEW n \in Names, NEW x \in Files, EmptyFile(n, x)
      PROVE  rows' \in Rows /\ albums' \in SUBSET Albums /\ excused' \in SUBSET Tracks
  BY <1>24, AlbumOfAssumption DEF EmptyFile, Put, disk, db, env, TypeOK, Places, Rows
<1>25. ASSUME NEW n \in Names, EmptyEntry(n)
      PROVE  rows' \in Rows /\ albums' \in SUBSET Albums /\ excused' \in SUBSET Tracks
  BY <1>25, AlbumOfAssumption DEF EmptyEntry, DeleteRecord, disk, db, env, TypeOK, Places, Rows
<1>26. ASSUME EndEmpty
      PROVE  rows' \in Rows /\ albums' \in SUBSET Albums /\ excused' \in SUBSET Tracks
  BY <1>26, AlbumOfAssumption DEF EndEmpty, disk, db, env, TypeOK, Places, Rows
<1>27. ASSUME Close
      PROVE  rows' \in Rows /\ albums' \in SUBSET Albums /\ excused' \in SUBSET Tracks
  BY <1>27, AlbumOfAssumption DEF Close, disk, db, env, TypeOK, Places, Rows
<1>28. ASSUME Crash
      PROVE  rows' \in Rows /\ albums' \in SUBSET Albums /\ excused' \in SUBSET Tracks
  BY <1>28, AlbumOfAssumption DEF Crash, disk, db, env, TypeOK, Places, Rows
<1>29. ASSUME NEW s \in {"up", "down", "stray"}, ShareTurns(s)
      PROVE  rows' \in Rows /\ albums' \in SUBSET Albums /\ excused' \in SUBSET Tracks
  BY <1>29, AlbumOfAssumption DEF ShareTurns, Outside, disk, db, env, TypeOK, Places, Rows
<1>30. ASSUME NEW n \in Names, StrangerPuts(n)
      PROVE  rows' \in Rows /\ albums' \in SUBSET Albums /\ excused' \in SUBSET Tracks
  BY <1>30, AlbumOfAssumption DEF StrangerPuts, Outside, disk, db, env, TypeOK, Places, Rows
<1>31. ASSUME NEW n \in Names, StrangerTakes(n)
      PROVE  rows' \in Rows /\ albums' \in SUBSET Albums /\ excused' \in SUBSET Tracks
  BY <1>31, AlbumOfAssumption DEF StrangerTakes, Outside, disk, db, env, TypeOK, Places, Rows
<1>32. ASSUME UNCHANGED vars
      PROVE  rows' \in Rows /\ albums' \in SUBSET Albums /\ excused' \in SUBSET Tracks
  BY <1>32, AlbumOfAssumption DEF vars, TypeOK
<1>q. QED
  BY <1>1, <1>2, <1>3, <1>4, <1>5, <1>6, <1>7, <1>8, <1>9, <1>10, <1>11, <1>12, <1>13, <1>14,
     <1>15, <1>16, <1>17, <1>18, <1>19, <1>20, <1>21, <1>22, <1>23, <1>24, <1>25, <1>26, <1>27,
     <1>28, <1>29, <1>30, <1>31, <1>32 DEF Next, TrashStep, SweepStep, ResetStep, RestoreStep,
     EmptyStep, OutsideStep, Files

\* What is rolled back to is set when a transaction opens.
LEMMA UndoOfStep ==
  ASSUME op \in Ops, [Next]_vars
  PROVE  undo' \in {None, undo, [rows |-> rows, albums |-> albums]}
<1>1. ASSUME NEW kind \in {"album", "artist", "resolve", "replace"}, NEW as \in SUBSET Albums,
             NEW reading \in {{}} \cup {{t} : t \in Tracks}, StartTrashing(kind, as, reading)
      PROVE  undo' \in {None, undo, [rows |-> rows, albums |-> albums]}
  BY <1>1 DEF StartTrashing, Begin, disk, db, env
<1>2. ASSUME NEW a \in Albums, NextAlbum(a)
      PROVE  undo' \in {None, undo, [rows |-> rows, albums |-> albums]}
  BY <1>2 DEF NextAlbum, Take, Raise, Answer, disk, db, env
<1>3. ASSUME NEW n \in Names, Claim(n)
      PROVE  undo' \in {None, undo, [rows |-> rows, albums |-> albums]}
  BY <1>3 DEF Claim, disk, db, env
<1>4. ASSUME NEW t \in Tracks, MoveTrack(t)
      PROVE  undo' \in {None, undo, [rows |-> rows, albums |-> albums]}
  BY <1>4 DEF MoveTrack, Raise, Answer, disk, db, env
<1>5. ASSUME Check
      PROVE  undo' \in {None, undo, [rows |-> rows, albums |-> albums]}
  BY <1>5 DEF Check, To, Raise, Answer, Take, disk, db, env
<1>6. ASSUME RecordAlbum
      PROVE  undo' \in {None, undo, [rows |-> rows, albums |-> albums]}
  BY <1>6 DEF RecordAlbum, To, disk, db, env
<1>7. ASSUME RemoveRows
      PROVE  undo' \in {None, undo, [rows |-> rows, albums |-> albums]}
  BY <1>7 DEF RemoveRows, Raise, Answer, disk, db, env
<1>8. ASSUME FinishTrashing
      PROVE  undo' \in {None, undo, [rows |-> rows, albums |-> albums]}
  BY <1>8 DEF FinishTrashing, Answer, disk, db, env
<1>9. ASSUME NEW h \in Husks, StartSweep(h)
      PROVE  undo' \in {None, undo, [rows |-> rows, albums |-> albums]}
  BY <1>9 DEF StartSweep, Begin, disk, db, env
<1>10. ASSUME NEW h \in Husks, NEW n \in Names, SweepFolder(h, n)
      PROVE  undo' \in {None, undo, [rows |-> rows, albums |-> albums]}
  BY <1>10 DEF SweepFolder, Answer, disk, db, env
<1>11. ASSUME StartReset
      PROVE  undo' \in {None, undo, [rows |-> rows, albums |-> albums]}
  BY <1>11 DEF StartReset, Begin, disk, db, env
<1>12. ASSUME NEW n \in Names, ClaimReset(n)
      PROVE  undo' \in {None, undo, [rows |-> rows, albums |-> albums]}
  BY <1>12 DEF ClaimReset, disk, db, env
<1>13. ASSUME NEW i \in Images, MoveImage(i)
      PROVE  undo' \in {None, undo, [rows |-> rows, albums |-> albums]}
  BY <1>13 DEF MoveImage, disk, db, env
<1>14. ASSUME EndReset
      PROVE  undo' \in {None, undo, [rows |-> rows, albums |-> albums]}
  BY <1>14 DEF EndReset, To, Answer, disk, db, env
<1>15. ASSUME RecordFiles
      PROVE  undo' \in {None, undo, [rows |-> rows, albums |-> albums]}
  BY <1>15 DEF RecordFiles, Answer, disk, db, env
<1>16. ASSUME NEW n \in Names, StartRestore(n)
      PROVE  undo' \in {None, undo, [rows |-> rows, albums |-> albums]}
  BY <1>16 DEF StartRestore, Begin, disk, db, env
<1>17. ASSUME MoveBack
      PROVE  undo' \in {None, undo, [rows |-> rows, albums |-> albums]}
  BY <1>17 DEF MoveBack, To, Answer, disk, db, env
<1>18. ASSUME ImportInPlace
      PROVE  undo' \in {None, undo, [rows |-> rows, albums |-> albums]}
  BY <1>18 DEF ImportInPlace, To, Answer, disk, db, env
<1>19. ASSUME ReturnToTrash
      PROVE  undo' \in {None, undo, [rows |-> rows, albums |-> albums]}
  BY <1>19 DEF ReturnToTrash, Answer, disk, db, env
<1>20. ASSUME ImportEntry
      PROVE  undo' \in {None, undo, [rows |-> rows, albums |-> albums]}
  BY <1>20 DEF ImportEntry, To, Answer, disk, db, env
<1>21. ASSUME NEW t \in Tracks, LandTrack(t)
      PROVE  undo' \in {None, undo, [rows |-> rows, albums |-> albums]}
  BY <1>21 DEF LandTrack, Answer, disk, db, env
<1>22. ASSUME EndImport
      PROVE  undo' \in {None, undo, [rows |-> rows, albums |-> albums]}
  BY <1>22 DEF EndImport, Answer, disk, db, env
<1>23. ASSUME NEW ns \in SUBSET Names, StartEmpty(ns)
      PROVE  undo' \in {None, undo, [rows |-> rows, albums |-> albums]}
  BY <1>23 DEF StartEmpty, Begin, disk, db, env
<1>24. ASSUME NEW n \in Names, NEW x \in Files, EmptyFile(n, x)
      PROVE  undo' \in {None, undo, [rows |-> rows, albums |-> albums]}
  BY <1>24 DEF EmptyFile, disk, db, env
<1>25. ASSUME NEW n \in Names, EmptyEntry(n)
      PROVE  undo' \in {None, undo, [rows |-> rows, albums |-> albums]}
  BY <1>25 DEF EmptyEntry, disk, db, env
<1>26. ASSUME EndEmpty
      PROVE  undo' \in {None, undo, [rows |-> rows, albums |-> albums]}
  BY <1>26 DEF EndEmpty, Answer, disk, db, env
<1>27. ASSUME Close
      PROVE  undo' \in {None, undo, [rows |-> rows, albums |-> albums]}
  BY <1>27 DEF Close, disk, db, env
<1>28. ASSUME Crash
      PROVE  undo' \in {None, undo, [rows |-> rows, albums |-> albums]}
  BY <1>28 DEF Crash, disk, db, env
<1>29. ASSUME NEW s \in {"up", "down", "stray"}, ShareTurns(s)
      PROVE  undo' \in {None, undo, [rows |-> rows, albums |-> albums]}
  BY <1>29 DEF ShareTurns, Outside, disk, db, env
<1>30. ASSUME NEW n \in Names, StrangerPuts(n)
      PROVE  undo' \in {None, undo, [rows |-> rows, albums |-> albums]}
  BY <1>30 DEF StrangerPuts, Outside, disk, db, env
<1>31. ASSUME NEW n \in Names, StrangerTakes(n)
      PROVE  undo' \in {None, undo, [rows |-> rows, albums |-> albums]}
  BY <1>31 DEF StrangerTakes, Outside, disk, db, env
<1>32. ASSUME UNCHANGED vars
      PROVE  undo' \in {None, undo, [rows |-> rows, albums |-> albums]}
  BY <1>32 DEF vars
<1>q. QED
  BY <1>1, <1>2, <1>3, <1>4, <1>5, <1>6, <1>7, <1>8, <1>9, <1>10, <1>11, <1>12, <1>13, <1>14,
     <1>15, <1>16, <1>17, <1>18, <1>19, <1>20, <1>21, <1>22, <1>23, <1>24, <1>25, <1>26, <1>27,
     <1>28, <1>29, <1>30, <1>31, <1>32 DEF Next, TrashStep, SweepStep, ResetStep, RestoreStep,
     EmptyStep, OutsideStep, Files

\* What an operation found is noted when it begins.
LEMMA BegunOfStep ==
  ASSUME op \in Ops, [Next]_vars
  PROVE  \/ op'.pc = "idle" \/ begun' = [rows |-> rows, albums |-> albums, at |-> at]
         \/ op.pc # "idle" /\ begun' = begun
<1>1. ASSUME NEW kind \in {"album", "artist", "resolve", "replace"}, NEW as \in SUBSET Albums,
             NEW reading \in {{}} \cup {{t} : t \in Tracks}, StartTrashing(kind, as, reading)
      PROVE  \/ op'.pc = "idle" \/ begun' = [rows |-> rows, albums |-> albums, at |-> at]
             \/ op.pc # "idle" /\ begun' = begun
  BY <1>1, IdlesPc DEF StartTrashing, Begin, disk, db, env
<1>2. ASSUME NEW a \in Albums, NextAlbum(a)
      PROVE  \/ op'.pc = "idle" \/ begun' = [rows |-> rows, albums |-> albums, at |-> at]
             \/ op.pc # "idle" /\ begun' = begun
  BY <1>2, IdlesPc DEF NextAlbum, Take, Raise, Answer, disk, db, env
<1>3. ASSUME NEW n \in Names, Claim(n)
      PROVE  \/ op'.pc = "idle" \/ begun' = [rows |-> rows, albums |-> albums, at |-> at]
             \/ op.pc # "idle" /\ begun' = begun
  BY <1>3, IdlesPc DEF Claim, disk, db, env
<1>4. ASSUME NEW t \in Tracks, MoveTrack(t)
      PROVE  \/ op'.pc = "idle" \/ begun' = [rows |-> rows, albums |-> albums, at |-> at]
             \/ op.pc # "idle" /\ begun' = begun
  BY <1>4, IdlesPc DEF MoveTrack, Raise, Answer, disk, db, env
<1>5. ASSUME Check
      PROVE  \/ op'.pc = "idle" \/ begun' = [rows |-> rows, albums |-> albums, at |-> at]
             \/ op.pc # "idle" /\ begun' = begun
  BY <1>5, IdlesPc DEF Check, To, Raise, Answer, Take, disk, db, env
<1>6. ASSUME RecordAlbum
      PROVE  \/ op'.pc = "idle" \/ begun' = [rows |-> rows, albums |-> albums, at |-> at]
             \/ op.pc # "idle" /\ begun' = begun
  BY <1>6, IdlesPc DEF RecordAlbum, To, disk, db, env
<1>7. ASSUME RemoveRows
      PROVE  \/ op'.pc = "idle" \/ begun' = [rows |-> rows, albums |-> albums, at |-> at]
             \/ op.pc # "idle" /\ begun' = begun
  BY <1>7, IdlesPc DEF RemoveRows, Raise, Answer, disk, db, env
<1>8. ASSUME FinishTrashing
      PROVE  \/ op'.pc = "idle" \/ begun' = [rows |-> rows, albums |-> albums, at |-> at]
             \/ op.pc # "idle" /\ begun' = begun
  BY <1>8, IdlesPc DEF FinishTrashing, Answer, disk, db, env
<1>9. ASSUME NEW h \in Husks, StartSweep(h)
      PROVE  \/ op'.pc = "idle" \/ begun' = [rows |-> rows, albums |-> albums, at |-> at]
             \/ op.pc # "idle" /\ begun' = begun
  BY <1>9, IdlesPc DEF StartSweep, Begin, disk, db, env
<1>10. ASSUME NEW h \in Husks, NEW n \in Names, SweepFolder(h, n)
      PROVE  \/ op'.pc = "idle" \/ begun' = [rows |-> rows, albums |-> albums, at |-> at]
             \/ op.pc # "idle" /\ begun' = begun
  BY <1>10, IdlesPc DEF SweepFolder, Answer, disk, db, env
<1>11. ASSUME StartReset
      PROVE  \/ op'.pc = "idle" \/ begun' = [rows |-> rows, albums |-> albums, at |-> at]
             \/ op.pc # "idle" /\ begun' = begun
  BY <1>11, IdlesPc DEF StartReset, Begin, disk, db, env
<1>12. ASSUME NEW n \in Names, ClaimReset(n)
      PROVE  \/ op'.pc = "idle" \/ begun' = [rows |-> rows, albums |-> albums, at |-> at]
             \/ op.pc # "idle" /\ begun' = begun
  BY <1>12, IdlesPc DEF ClaimReset, disk, db, env
<1>13. ASSUME NEW i \in Images, MoveImage(i)
      PROVE  \/ op'.pc = "idle" \/ begun' = [rows |-> rows, albums |-> albums, at |-> at]
             \/ op.pc # "idle" /\ begun' = begun
  BY <1>13, IdlesPc DEF MoveImage, disk, db, env
<1>14. ASSUME EndReset
      PROVE  \/ op'.pc = "idle" \/ begun' = [rows |-> rows, albums |-> albums, at |-> at]
             \/ op.pc # "idle" /\ begun' = begun
  BY <1>14, IdlesPc DEF EndReset, To, Answer, disk, db, env
<1>15. ASSUME RecordFiles
      PROVE  \/ op'.pc = "idle" \/ begun' = [rows |-> rows, albums |-> albums, at |-> at]
             \/ op.pc # "idle" /\ begun' = begun
  BY <1>15, IdlesPc DEF RecordFiles, Answer, disk, db, env
<1>16. ASSUME NEW n \in Names, StartRestore(n)
      PROVE  \/ op'.pc = "idle" \/ begun' = [rows |-> rows, albums |-> albums, at |-> at]
             \/ op.pc # "idle" /\ begun' = begun
  BY <1>16, IdlesPc DEF StartRestore, Begin, disk, db, env
<1>17. ASSUME MoveBack
      PROVE  \/ op'.pc = "idle" \/ begun' = [rows |-> rows, albums |-> albums, at |-> at]
             \/ op.pc # "idle" /\ begun' = begun
  BY <1>17, IdlesPc DEF MoveBack, To, Answer, disk, db, env
<1>18. ASSUME ImportInPlace
      PROVE  \/ op'.pc = "idle" \/ begun' = [rows |-> rows, albums |-> albums, at |-> at]
             \/ op.pc # "idle" /\ begun' = begun
  BY <1>18, IdlesPc DEF ImportInPlace, To, Answer, disk, db, env
<1>19. ASSUME ReturnToTrash
      PROVE  \/ op'.pc = "idle" \/ begun' = [rows |-> rows, albums |-> albums, at |-> at]
             \/ op.pc # "idle" /\ begun' = begun
  BY <1>19, IdlesPc DEF ReturnToTrash, Answer, disk, db, env
<1>20. ASSUME ImportEntry
      PROVE  \/ op'.pc = "idle" \/ begun' = [rows |-> rows, albums |-> albums, at |-> at]
             \/ op.pc # "idle" /\ begun' = begun
  BY <1>20, IdlesPc DEF ImportEntry, To, Answer, disk, db, env
<1>21. ASSUME NEW t \in Tracks, LandTrack(t)
      PROVE  \/ op'.pc = "idle" \/ begun' = [rows |-> rows, albums |-> albums, at |-> at]
             \/ op.pc # "idle" /\ begun' = begun
  BY <1>21, IdlesPc DEF LandTrack, Answer, disk, db, env
<1>22. ASSUME EndImport
      PROVE  \/ op'.pc = "idle" \/ begun' = [rows |-> rows, albums |-> albums, at |-> at]
             \/ op.pc # "idle" /\ begun' = begun
  BY <1>22, IdlesPc DEF EndImport, Answer, disk, db, env
<1>23. ASSUME NEW ns \in SUBSET Names, StartEmpty(ns)
      PROVE  \/ op'.pc = "idle" \/ begun' = [rows |-> rows, albums |-> albums, at |-> at]
             \/ op.pc # "idle" /\ begun' = begun
  BY <1>23, IdlesPc DEF StartEmpty, Begin, disk, db, env
<1>24. ASSUME NEW n \in Names, NEW x \in Files, EmptyFile(n, x)
      PROVE  \/ op'.pc = "idle" \/ begun' = [rows |-> rows, albums |-> albums, at |-> at]
             \/ op.pc # "idle" /\ begun' = begun
  BY <1>24, IdlesPc DEF EmptyFile, disk, db, env
<1>25. ASSUME NEW n \in Names, EmptyEntry(n)
      PROVE  \/ op'.pc = "idle" \/ begun' = [rows |-> rows, albums |-> albums, at |-> at]
             \/ op.pc # "idle" /\ begun' = begun
  BY <1>25, IdlesPc DEF EmptyEntry, disk, db, env
<1>26. ASSUME EndEmpty
      PROVE  \/ op'.pc = "idle" \/ begun' = [rows |-> rows, albums |-> albums, at |-> at]
             \/ op.pc # "idle" /\ begun' = begun
  BY <1>26, IdlesPc DEF EndEmpty, Answer, disk, db, env
<1>27. ASSUME Close
      PROVE  \/ op'.pc = "idle" \/ begun' = [rows |-> rows, albums |-> albums, at |-> at]
             \/ op.pc # "idle" /\ begun' = begun
  BY <1>27, IdlesPc DEF Close, disk, db, env
<1>28. ASSUME Crash
      PROVE  \/ op'.pc = "idle" \/ begun' = [rows |-> rows, albums |-> albums, at |-> at]
             \/ op.pc # "idle" /\ begun' = begun
  BY <1>28, IdlesPc DEF Crash, disk, db, env
<1>29. ASSUME NEW s \in {"up", "down", "stray"}, ShareTurns(s)
      PROVE  \/ op'.pc = "idle" \/ begun' = [rows |-> rows, albums |-> albums, at |-> at]
             \/ op.pc # "idle" /\ begun' = begun
  <2>1. UNCHANGED begun /\ op'.pc = op.pc
    BY <1>29 DEF ShareTurns, Ops
  <2>q. QED
    BY <2>1
<1>30. ASSUME NEW n \in Names, StrangerPuts(n)
      PROVE  \/ op'.pc = "idle" \/ begun' = [rows |-> rows, albums |-> albums, at |-> at]
             \/ op.pc # "idle" /\ begun' = begun
  BY <1>30 DEF StrangerPuts
<1>31. ASSUME NEW n \in Names, StrangerTakes(n)
      PROVE  \/ op'.pc = "idle" \/ begun' = [rows |-> rows, albums |-> albums, at |-> at]
             \/ op.pc # "idle" /\ begun' = begun
  BY <1>31 DEF StrangerTakes
<1>32. ASSUME UNCHANGED vars
      PROVE  \/ op'.pc = "idle" \/ begun' = [rows |-> rows, albums |-> albums, at |-> at]
             \/ op.pc # "idle" /\ begun' = begun
  BY <1>32, IdlesPc DEF vars
<1>q. QED
  BY <1>1, <1>2, <1>3, <1>4, <1>5, <1>6, <1>7, <1>8, <1>9, <1>10, <1>11, <1>12, <1>13, <1>14,
     <1>15, <1>16, <1>17, <1>18, <1>19, <1>20, <1>21, <1>22, <1>23, <1>24, <1>25, <1>26, <1>27,
     <1>28, <1>29, <1>30, <1>31, <1>32 DEF Next, TrashStep, SweepStep, ResetStep, RestoreStep,
     EmptyStep, OutsideStep, Files


\* Every step keeps every variable within its type.
LEMMA Types ==
  ASSUME TypeOK, ShapeInv, [Next]_vars
  PROVE  TypeOK'
<1>1. op \in Ops
  BY DEF TypeOK
<1>q. QED
  BY <1>1, OpType, DiskType, RowsType, UndoOfStep, BegunOfStep DEF TypeOK, DiskOK

-----------------------------------------------------------------------------
(* What each step does to the operation.                                   *)

\* An operation is what its fields say.
LEMMA OpFields ==
  ASSUME op \in Ops
  PROVE  op = [kind |-> op.kind, pc |-> op.pc, todo |-> op.todo, album |-> op.album,
               name |-> op.name, left |-> op.left, reading |-> op.reading,
               fromHome |-> op.fromHome, mutated |-> op.mutated, moved |-> op.moved,
               misled |-> op.misled, clean |-> op.clean, answer |-> op.answer]
BY DEF Ops

\* The operation goes on, answers, or is a new one.
Keeps == /\ op'.kind = op.kind /\ op'.todo = op.todo /\ op'.mutated = op.mutated
         /\ op'.moved = op.moved /\ op'.misled = op.misled /\ undo' = undo
Answered == op'.pc = "answer" /\ op'.kind = op.kind /\ undo' = None
New(kind, pc) == /\ op = Idle /\ op'.kind = kind /\ op'.pc = pc /\ ~op'.mutated /\ ~op'.moved
                 /\ ~op'.misled /\ begun' = [rows |-> rows, albums |-> albums, at |-> at]

\* To changes where an operation is, and nothing else of it.
LEMMA ToDoes ==
  ASSUME op \in Ops, NEW pc, To(pc), undo' = undo
  PROVE  /\ Keeps /\ op'.pc = pc /\ op'.album = op.album /\ op'.name = op.name
         /\ op'.left = op.left /\ op'.fromHome = op.fromHome
BY OpFields DEF To, Keeps

\* Take goes on with an album, and no name.
LEMMA TakeDoes ==
  ASSUME op \in Ops, NEW a, NEW pc, Take(a, pc), undo' = undo
  PROVE  Keeps /\ op'.pc = pc /\ op'.album = a /\ op'.name = None
BY OpFields DEF Take, Keeps

\* A delete begins.
LEMMA StartTrashingDoes ==
  ASSUME NEW kind, NEW as, NEW reading, StartTrashing(kind, as, reading)
  PROVE  New(kind, "next") /\ op'.todo = as /\ op'.name = None /\ (kind = "replace" => undo' = None)
BY DEF StartTrashing, Begin, New, Idle

\* It turns to an album: whose rows are all that is left, or whose files are, or raises.
LEMMA NextAlbumDoes ==
  ASSUME op \in Ops, NEW a, NextAlbum(a)
  PROVE  \/ /\ LeftInTrash(a) /\ Keeps /\ op'.pc = "remove" /\ op'.album = a
            /\ \E t \in Items(a) : op'.name = rows[t]
         \/ /\ Keeps /\ op'.album = a /\ op'.name = None
            /\ \/ op'.pc = "remove" /\ (Absent(a) \/ Items(a) = {})
               \/ op'.pc = "claim"
         \/ Answered /\ (Raise("unavailable") \/ Raise("nothing deleted"))
<1>1. CASE \E t \in Items(a) :
              /\ LeftInTrash(a) /\ UNCHANGED undo
              /\ op' = [op EXCEPT !.pc = "remove", !.album = a, !.name = rows[t]]
  BY <1>1, OpFields DEF Keeps
<1>2. CASE (Absent(a) \/ Items(a) = {}) /\ Take(a, "remove") /\ UNCHANGED undo
  BY <1>2, TakeDoes
<1>3. CASE Take(a, "claim") /\ UNCHANGED undo
  BY <1>3, TakeDoes
<1>4. CASE Raise("unavailable") \/ Raise("nothing deleted")
  BY <1>4, RaiseType DEF Answers, Answered
<1>q. QED
  BY <1>1, <1>2, <1>3, <1>4 DEF NextAlbum

\* A name is claimed for it.
LEMMA ClaimDoes ==
  ASSUME op \in Ops, NEW n, Claim(n)
  PROVE  /\ Keeps /\ op'.pc = "moving" /\ op'.album = op.album /\ op'.name = n
         /\ op'.left = Items(op.album) \ (Items(op.album) \cap op.reading)
BY OpFields DEF Claim, Keeps

\* A track is moved or passed over, or the move ends.
LEMMA MoveTrackDoes ==
  ASSUME op \in Ops, NEW t, MoveTrack(t)
  PROVE  \/ /\ Keeps /\ op'.pc = "moving" /\ op'.album = op.album /\ op'.name = op.name
            /\ op'.left = op.left \ {t}
            /\ \/ /\ Exists(t) /\ rows' = [rows EXCEPT ![t] = op.name]
                  /\ at' = [at EXCEPT ![t] = (at[t] \ {rows[t]}) \cup {op.name}]
               \/ ~Exists(t) /\ UNCHANGED <<at, rows>>
         \/ /\ Answered /\ Raise("failed") /\ UNCHANGED rows
            /\ \/ at' = [at EXCEPT ![t] = at[t] \cup {op.name}]
               \/ at' = [at EXCEPT ![t] = at[t]]
<1>1. CASE op' = [op EXCEPT !.left = @ \ {t}] /\ UNCHANGED undo
  BY <1>1, OpFields DEF MoveTrack, Keeps, Put, Raise, Answer
<1>2. CASE /\ Raise("failed") /\ UNCHANGED rows
           /\ \E copied \in BOOLEAN : Put(t, IF copied THEN at[t] \cup {op.name} ELSE at[t])
  BY <1>2, RaiseType DEF Answers, Answered, Put
<1>q. QED
  BY <1>1, <1>2 DEF MoveTrack

\* The move is looked at: something moved, nothing was there to move, or it raises.
LEMMA CheckDoes ==
  ASSUME op \in Ops, Check
  PROVE  LET moved == {t \in Items(op.album) : rows[t] = op.name} IN
         \/ /\ Keeps /\ op'.pc = "record" /\ op'.album = op.album /\ op'.name = op.name
            /\ moved # {} /\ (moved = Items(op.album) \/ RootReadable)
         \/ /\ Keeps /\ op'.pc = "remove" /\ op'.album = op.album /\ op'.name = None
            /\ RootReadable /\ DrawFinds /\ \A t \in Items(op.album) : ~Exists(t)
         \/ Answered /\ (Raise("unavailable") \/ Raise("failed"))
<1> DEFINE moved == {t \in Items(op.album) : rows[t] = op.name}
<1>1. CASE To("record") /\ UNCHANGED undo /\ moved # {} /\ (moved = Items(op.album) \/ RootReadable)
  BY <1>1, ToDoes
<1>2. CASE /\ Take(op.album, "remove") /\ UNCHANGED undo
           /\ RootReadable /\ DrawFinds /\ \A t \in Items(op.album) : ~Exists(t)
  BY <1>2, TakeDoes
<1>3. CASE Raise("unavailable") \/ Raise("failed")
  BY <1>3, RaiseType DEF Answers, Answered
<1>q. QED
  BY <1>1, <1>2, <1>3 DEF Check

\* The record is written, or not.
LEMMA RecordAlbumDoes ==
  ASSUME op \in Ops, RecordAlbum
  PROVE  Keeps /\ op'.pc = "remove" /\ op'.album = op.album /\ op'.name = op.name
BY ToDoes DEF RecordAlbum, db

\* The rows go, or the album's alone.
LEMMA RemoveRowsDoes ==
  ASSUME op \in Ops, RemoveRows
  PROVE  \/ /\ op'.pc = "next" /\ op'.kind = op.kind /\ op'.todo = op.todo \ {op.album}
            /\ op'.mutated /\ (op'.moved => op.moved \/ op.name # None)
            /\ op'.misled = op.misled /\ op'.name = None /\ undo' = undo
            /\ rows' = [t \in Tracks |-> IF AlbumOf[t] = op.album THEN None ELSE rows[t]]
            /\ excused \subseteq excused'
            /\ (op.misled \/ Misses => Items(op.album) \subseteq excused')
         \/ Answered /\ Raise("failed") /\ UNCHANGED <<rows, excused>>
<1>1. CASE Raise("failed") /\ UNCHANGED <<rows, excused>>
  BY <1>1, RaiseType DEF Answers, Answered
<1>2. CASE op' = [op EXCEPT !.pc = "next", !.todo = @ \ {op.album}, !.mutated = TRUE,
                            !.moved = @ \/ op.name # None, !.album = None, !.name = None,
                            !.fromHome = FALSE]
  <2>1. /\ op'.pc = "next" /\ op'.kind = op.kind /\ op'.todo = op.todo \ {op.album}
        /\ op'.mutated /\ (op'.moved => op.moved \/ op.name # None)
        /\ op'.misled = op.misled /\ op'.name = None
    BY <1>2, OpFields
  <2>q. QED
    BY <1>1, <2>1 DEF RemoveRows, Misses
<1>q. QED
  BY <1>1, <1>2 DEF RemoveRows

\* Nothing is left to do.
LEMMA FinishTrashingDoes ==
  ASSUME op \in Ops, FinishTrashing
  PROVE  Answered /\ op'.answer = "done"
BY AnswerType DEF FinishTrashing, Answered, Answers

\* A sweep begins.
LEMMA StartSweepDoes ==
  ASSUME NEW h, StartSweep(h)
  PROVE  New("sweep", "sweep") /\ op'.left = {h}
BY DEF StartSweep, Begin, New, Idle

\* The folder is moved, or not all of it.
LEMMA SweepFolderDoes ==
  ASSUME op \in Ops, NEW h, NEW n, SweepFolder(h, n)
  PROVE  \/ Keeps /\ op'.pc = "record files" /\ op'.name = n
         \/ Answered /\ op'.answer = "failed"
<1>1. CASE op' = [op EXCEPT !.pc = "record files", !.name = n] /\ UNCHANGED undo
  BY <1>1, OpFields DEF Keeps
<1>2. CASE Answer("failed")
  BY <1>2, AnswerType DEF Answered, Answers
<1>q. QED
  BY <1>1, <1>2 DEF SweepFolder

\* A reset begins.
LEMMA StartResetDoes ==
  ASSUME StartReset
  PROVE  New("reset", "reset") /\ op'.left = {i \in Images : "home" \in at[i]}
BY DEF StartReset, Begin, New, Idle

\* Its entry is claimed.
LEMMA ClaimResetDoes ==
  ASSUME op \in Ops, NEW n, ClaimReset(n)
  PROVE  Keeps /\ op'.pc = "reset move" /\ op'.name = n /\ op'.left = op.left
BY OpFields DEF ClaimReset, Keeps, db

\* An image is moved, or the reset is cut short.
LEMMA MoveImageDoes ==
  ASSUME op \in Ops, NEW i, MoveImage(i)
  PROVE  /\ op'.pc = "reset move" /\ op'.kind = op.kind /\ op'.name = op.name
         /\ op'.misled = op.misled
         /\ \/ /\ op'.left = op.left \ {i} /\ op'.moved
               /\ at' = [at EXCEPT ![i] = (at[i] \ {"home"}) \cup {op.name}]
            \/ /\ op'.left = {} /\ op'.moved = op.moved
               /\ \/ at' = [at EXCEPT ![i] = at[i] \cup {op.name}]
                  \/ at' = [at EXCEPT ![i] = at[i]]
<1>1. CASE /\ op' = [op EXCEPT !.left = @ \ {i}, !.moved = TRUE]
           /\ Put(i, (at[i] \ {"home"}) \cup {op.name})
  BY <1>1, OpFields DEF Put, MoveImage
<1>2. CASE /\ op' = [op EXCEPT !.left = {}, !.clean = FALSE]
           /\ \E copied \in BOOLEAN : Put(i, IF copied THEN at[i] \cup {op.name} ELSE at[i])
  BY <1>2, OpFields DEF Put, MoveImage
<1>q. QED
  BY <1>1, <1>2 DEF MoveImage

\* Something moved, or what was copied goes again.
LEMMA EndResetDoes ==
  ASSUME op \in Ops, EndReset
  PROVE  \/ /\ op.moved /\ Keeps /\ op'.pc = "record files" /\ op'.name = op.name
            /\ UNCHANGED disk
         \/ /\ ~op.moved /\ Answered /\ op'.answer = "failed"
            /\ at' = [x \in Files |-> at[x] \ {op.name}]
            /\ entry' = [entry EXCEPT ![op.name] = None]
<1>1. CASE op.moved
  BY <1>1, ToDoes DEF EndReset
<1>2. CASE ~op.moved
  BY <1>2, AnswerType DEF EndReset, Answered, Answers
<1>q. QED
  BY <1>1, <1>2

\* The files have their record.
LEMMA RecordFilesDoes ==
  ASSUME op \in Ops, RecordFiles
  PROVE  Answered /\ op'.answer \in {"done", "failed"}
BY AnswerType DEF RecordFiles, Answered, Answers

\* A restore begins: of a folder that goes back, or by an import.
LEMMA StartRestoreDoes ==
  ASSUME NEW n, StartRestore(n)
  PROVE  /\ op'.name = n
         /\ \/ /\ GoesBack(RecordOf(n)) /\ New("restore", "move back")
               /\ op'.left = RecordOf(n).of
            \/ New("restore", "import") /\ op'.left \subseteq Tracks
BY DEF StartRestore, Begin, New, Idle

\* The folder is back, or still in the Trash.
LEMMA MoveBackDoes ==
  ASSUME op \in Ops, MoveBack
  PROVE  \/ /\ Keeps /\ op'.pc = "in place" /\ op'.name = op.name /\ op'.left = op.left
            /\ at' = [x \in Files |-> IF op.name \in at[x] THEN (at[x] \ {op.name}) \cup {"home"}
                                                           ELSE at[x]]
            /\ entry' = [entry EXCEPT ![op.name] = None]
         \/ /\ Answered /\ op'.answer = "failed" /\ UNCHANGED entry
            /\ \E copied \in SUBSET Inside(op.name) :
                 at' = [x \in Files |-> IF x \in copied THEN at[x] \cup {"home"} ELSE at[x]]
<1>1. CASE /\ To("in place") /\ UNCHANGED undo
           /\ at' = [x \in Files |-> IF op.name \in at[x] THEN (at[x] \ {op.name}) \cup {"home"}
                                                          ELSE at[x]]
           /\ entry' = [entry EXCEPT ![op.name] = None]
  BY <1>1, ToDoes
<1>2. CASE /\ Answer("failed") /\ UNCHANGED entry
           /\ \E copied \in SUBSET Inside(op.name) :
                at' = [x \in Files |-> IF x \in copied THEN at[x] \cup {"home"} ELSE at[x]]
  BY <1>2, AnswerType DEF Answered, Answers
<1>q. QED
  BY <1>1, <1>2 DEF MoveBack

\* It is restored by being there, or is to be returned.
LEMMA ImportInPlaceDoes ==
  ASSUME op \in Ops, ImportInPlace
  PROVE  \/ Answered /\ op'.answer = "done" /\ DeleteRecord(op.name)
         \/ /\ Keeps /\ op'.pc = "return" /\ op'.name = op.name /\ op'.left = op.left
            /\ UNCHANGED record
<1>1. CASE DeleteRecord(op.name) /\ Answer("done")
  BY <1>1, AnswerType DEF Answered, Answers
<1>2. CASE To("return") /\ UNCHANGED <<record, undo>>
  BY <1>2, ToDoes
<1>q. QED
  BY <1>1, <1>2 DEF ImportInPlace

\* It is returned, or not.
LEMMA ReturnToTrashDoes ==
  ASSUME op \in Ops, ReturnToTrash
  PROVE  Answered /\ op'.answer = "failed"
BY AnswerType DEF ReturnToTrash, Answered, Answers

\* The entry is imported where it lies, or not.
LEMMA ImportEntryDoes ==
  ASSUME op \in Ops, ImportEntry
  PROVE  \/ /\ Keeps /\ op'.pc = "land" /\ op'.name = op.name /\ op'.left = op.left
            /\ rows' = [t \in Tracks |-> IF t \in op.left THEN op.name ELSE rows[t]]
            /\ \A t \in op.left : rows[t] = None
         \/ Answered /\ op'.answer = "failed" /\ UNCHANGED rows
<1>1. CASE /\ To("land") /\ UNCHANGED undo
           /\ rows' = [t \in Tracks |-> IF t \in op.left THEN op.name ELSE rows[t]]
           /\ \A t \in op.left : rows[t] = None
  BY <1>1, ToDoes
<1>2. CASE Answer("failed") /\ UNCHANGED rows
  BY <1>2, AnswerType DEF Answered, Answers
<1>q. QED
  BY <1>1, <1>2 DEF ImportEntry

\* A track lands in the music folder, or the restore fails.
LEMMA LandTrackDoes ==
  ASSUME op \in Ops, NEW t, LandTrack(t)
  PROVE  \/ /\ Keeps /\ op'.pc = "land" /\ op'.name = op.name /\ op'.left = op.left \ {t}
            /\ at' = [at EXCEPT ![t] = (at[t] \ {op.name}) \cup {"home"}]
            /\ rows' = [rows EXCEPT ![t] = "home"]
         \/ Answered /\ op'.answer = "failed" /\ UNCHANGED <<at, rows>>
<1>1. CASE /\ Put(t, (at[t] \ {op.name}) \cup {"home"})
           /\ rows' = [rows EXCEPT ![t] = "home"]
           /\ op' = [op EXCEPT !.left = @ \ {t}] /\ UNCHANGED undo
  BY <1>1, OpFields DEF LandTrack, Put, Keeps
<1>2. CASE Answer("failed") /\ UNCHANGED <<at, rows>>
  BY <1>2, AnswerType DEF Answered, Answers
<1>q. QED
  BY <1>1, <1>2 DEF LandTrack

\* The import is over.
LEMMA EndImportDoes ==
  ASSUME op \in Ops, EndImport
  PROVE  Answered /\ op'.answer \in {"done", "failed"}
BY AnswerType DEF EndImport, Answered, Answers

\* An emptying begins.
LEMMA StartEmptyDoes ==
  ASSUME NEW ns, StartEmpty(ns)
  PROVE  New("empty", "empty") /\ op'.todo = {n \in ns : \A t \in Tracks : rows[t] # n}
<1>1. op' = [Idle EXCEPT !.kind = "empty", !.pc = "empty",
                         !.todo = ns \ {n \in ns : \E t \in Tracks : rows[t] = n},
                         !.clean = {n \in ns : \E t \in Tracks : rows[t] = n} = {}]
  BY DEF StartEmpty, Begin
<1>2. op'.todo = ns \ {n \in ns : \E t \in Tracks : rows[t] = n}
  BY <1>1 DEF Idle
<1>3. ~op'.mutated /\ ~op'.moved /\ ~op'.misled /\ op'.kind = "empty" /\ op'.pc = "empty"
  BY <1>1 DEF Idle
<1>q. QED
  BY <1>2, <1>3 DEF StartEmpty, Begin, New

\* A file is deleted, or its entry is passed over.
LEMMA EmptyFileDoes ==
  ASSUME op \in Ops, NEW n, NEW x, EmptyFile(n, x)
  PROVE  /\ op'.pc = "empty" /\ op'.kind = op.kind /\ op'.misled = op.misled
         /\ op'.todo \subseteq op.todo
         /\ at' = [at EXCEPT ![x] = at[x] \ {n}] \/ UNCHANGED at
<1>1. CASE op' = [op EXCEPT !.name = n] /\ Put(x, at[x] \ {n})
  BY <1>1, OpFields DEF EmptyFile, Put
<1>2. CASE op' = [op EXCEPT !.todo = @ \ {n}, !.clean = FALSE] /\ UNCHANGED at
  BY <1>2, OpFields DEF EmptyFile
<1>q. QED
  BY <1>1, <1>2 DEF EmptyFile

\* An entry is gone.
LEMMA EmptyEntryDoes ==
  ASSUME op \in Ops, NEW n, EmptyEntry(n)
  PROVE  /\ op'.pc = "empty" /\ op'.kind = op.kind /\ op'.misled = op.misled
         /\ op'.todo \subseteq op.todo
BY OpFields DEF EmptyEntry

\* The emptying is over.
LEMMA EndEmptyDoes ==
  ASSUME op \in Ops, EndEmpty
  PROVE  Answered /\ op'.answer \in {"done", "failed"}
BY AnswerType DEF EndEmpty, Answered, Answers

\* The share tells an operation under way that it may have been misled, and
\* nothing else.
LEMMA ShareTurnsDoes ==
  ASSUME op \in Ops, NEW s, ShareTurns(s), op.pc = "idle" => op = Idle
  PROVE  /\ op'.pc = op.pc /\ op'.kind = op.kind /\ op'.todo = op.todo /\ op'.album = op.album
         /\ op'.name = op.name /\ op'.left = op.left /\ op'.mutated = op.mutated
         /\ op'.moved = op.moved /\ op'.answer = op.answer /\ undo' = undo
         /\ op = Idle => op' = Idle
         /\ op.misled => op'.misled
         /\ op.pc # "idle" /\ (s # "down" \/ share = "stray" \/ op.kind = "replace") => op'.misled
<1>1. op' = [op EXCEPT !.misled = @ \/ (op # Idle /\ (s # "down" \/ share = "stray"
                                                     \/ op.kind = "replace"))]
  BY DEF ShareTurns
<1>2. op.misled \in BOOLEAN
  BY DEF Ops
<1>3. CASE op = Idle
  <2>1. op'.misled = FALSE
    BY <1>1, <1>3, OpFields DEF Idle
  <2>2. op' = [Idle EXCEPT !.misled = FALSE]
    BY <1>1, <1>3, <2>1, OpFields
  <2>q. QED
    BY ZenonT(40), <2>2, <1>3, IdlesPc DEF Idle, ShareTurns, db
<1>4. CASE op # Idle
  BY <1>1, <1>2, <1>4, OpFields DEF ShareTurns, db, Idle
<1>q. QED
  BY <1>3, <1>4

-----------------------------------------------------------------------------
(* The shape of the operation.                                             *)

\* Every step leaves the operation in shape.
LEMMA ShapeOfStep ==
  ASSUME TypeOK, op \in Ops, ShapeInv, [Next]_vars
  PROVE  ShapeInv'
<1>1. ASSUME NEW kind \in {"album", "artist", "resolve", "replace"}, NEW as \in SUBSET Albums,
             NEW reading \in {{}} \cup {{t} : t \in Tracks}, StartTrashing(kind, as, reading)
      PROVE  ShapeInv'
  <2>1. New(kind, "next") /\ (kind = "replace" => undo' = None)
    BY <1>1, StartTrashingDoes
  <2>q. QED
    BY <2>1 DEF New, ShapeInv, TrashPcs, BackPcs, Trashers
<1>2. ASSUME NEW a \in Albums, NextAlbum(a)
      PROVE  ShapeInv'
  BY <1>2, NextAlbumDoes, IdlesPc DEF NextAlbum, disk, db, env, ShapeInv, Keeps, Answered, New,
     TrashPcs, BackPcs, Trashers
<1>3. ASSUME NEW n \in Names, Claim(n)
      PROVE  ShapeInv'
  BY <1>3, ClaimDoes, IdlesPc DEF Claim, disk, db, env, ShapeInv, Keeps, Answered, New,
     TrashPcs, BackPcs, Trashers
<1>4. ASSUME NEW t \in Tracks, MoveTrack(t)
      PROVE  ShapeInv'
  BY <1>4, MoveTrackDoes, IdlesPc DEF MoveTrack, disk, db, env, ShapeInv, Keeps, Answered, New,
     TrashPcs, BackPcs, Trashers
<1>5. ASSUME Check
      PROVE  ShapeInv'
  BY <1>5, CheckDoes, IdlesPc DEF Check, disk, db, env, ShapeInv, Keeps, Answered, New,
     TrashPcs, BackPcs, Trashers
<1>6. ASSUME RecordAlbum
      PROVE  ShapeInv'
  BY <1>6, RecordAlbumDoes, IdlesPc DEF RecordAlbum, disk, db, env, ShapeInv, Keeps, Answered,
     New, TrashPcs, BackPcs, Trashers
<1>7. ASSUME RemoveRows
      PROVE  ShapeInv'
  BY <1>7, RemoveRowsDoes, IdlesPc DEF RemoveRows, disk, db, env, ShapeInv, Keeps, Answered,
     New, TrashPcs, BackPcs, Trashers
<1>8. ASSUME FinishTrashing
      PROVE  ShapeInv'
  BY <1>8, FinishTrashingDoes, IdlesPc DEF FinishTrashing, disk, db, env, ShapeInv, Keeps,
     Answered, New, TrashPcs, BackPcs, Trashers
<1>9. ASSUME NEW h \in Husks, StartSweep(h)
      PROVE  ShapeInv'
  BY <1>9, StartSweepDoes, IdlesPc DEF StartSweep, disk, db, env, ShapeInv, Keeps, Answered,
     New, TrashPcs, BackPcs, Trashers
<1>10. ASSUME NEW h \in Husks, NEW n \in Names, SweepFolder(h, n)
      PROVE  ShapeInv'
  BY <1>10, SweepFolderDoes, IdlesPc DEF SweepFolder, disk, db, env, ShapeInv, Keeps, Answered,
     New, TrashPcs, BackPcs, Trashers
<1>11. ASSUME StartReset
      PROVE  ShapeInv'
  BY <1>11, StartResetDoes, IdlesPc DEF StartReset, disk, db, env, ShapeInv, Keeps, Answered,
     New, TrashPcs, BackPcs, Trashers
<1>12. ASSUME NEW n \in Names, ClaimReset(n)
      PROVE  ShapeInv'
  BY <1>12, ClaimResetDoes, IdlesPc DEF ClaimReset, disk, db, env, ShapeInv, Keeps, Answered,
     New, TrashPcs, BackPcs, Trashers
<1>13. ASSUME NEW i \in Images, MoveImage(i)
      PROVE  ShapeInv'
  BY <1>13, MoveImageDoes, IdlesPc DEF MoveImage, disk, db, env, ShapeInv, Keeps, Answered,
     New, TrashPcs, BackPcs, Trashers
<1>14. ASSUME EndReset
      PROVE  ShapeInv'
  BY <1>14, EndResetDoes, IdlesPc DEF EndReset, disk, db, env, ShapeInv, Keeps, Answered, New,
     TrashPcs, BackPcs, Trashers
<1>15. ASSUME RecordFiles
      PROVE  ShapeInv'
  BY <1>15, RecordFilesDoes, IdlesPc DEF RecordFiles, disk, db, env, ShapeInv, Keeps, Answered,
     New, TrashPcs, BackPcs, Trashers
<1>16. ASSUME NEW n \in Names, StartRestore(n)
      PROVE  ShapeInv'
  BY ZenonT(40), <1>16, StartRestoreDoes, IdlesPc DEF StartRestore, disk, db, env, ShapeInv, Keeps,
     Answered, New, TrashPcs, BackPcs, Trashers
<1>17. ASSUME MoveBack
      PROVE  ShapeInv'
  BY <1>17, MoveBackDoes, IdlesPc DEF MoveBack, disk, db, env, ShapeInv, Keeps, Answered, New,
     TrashPcs, BackPcs, Trashers
<1>18. ASSUME ImportInPlace
      PROVE  ShapeInv'
  BY <1>18, ImportInPlaceDoes, IdlesPc DEF ImportInPlace, disk, db, env, ShapeInv, Keeps,
     Answered, New, TrashPcs, BackPcs, Trashers
<1>19. ASSUME ReturnToTrash
      PROVE  ShapeInv'
  BY <1>19, ReturnToTrashDoes, IdlesPc DEF ReturnToTrash, disk, db, env, ShapeInv, Keeps,
     Answered, New, TrashPcs, BackPcs, Trashers
<1>20. ASSUME ImportEntry
      PROVE  ShapeInv'
  BY <1>20, ImportEntryDoes, IdlesPc DEF ImportEntry, disk, db, env, ShapeInv, Keeps, Answered,
     New, TrashPcs, BackPcs, Trashers
<1>21. ASSUME NEW t \in Tracks, LandTrack(t)
      PROVE  ShapeInv'
  BY <1>21, LandTrackDoes, IdlesPc DEF LandTrack, disk, db, env, ShapeInv, Keeps, Answered,
     New, TrashPcs, BackPcs, Trashers
<1>22. ASSUME EndImport
      PROVE  ShapeInv'
  BY <1>22, EndImportDoes, IdlesPc DEF EndImport, disk, db, env, ShapeInv, Keeps, Answered,
     New, TrashPcs, BackPcs, Trashers
<1>23. ASSUME NEW ns \in SUBSET Names, StartEmpty(ns)
      PROVE  ShapeInv'
  BY <1>23, StartEmptyDoes, IdlesPc DEF StartEmpty, disk, db, env, ShapeInv, Keeps, Answered,
     New, TrashPcs, BackPcs, Trashers
<1>24. ASSUME NEW n \in Names, NEW x \in Files, EmptyFile(n, x)
      PROVE  ShapeInv'
  BY <1>24, EmptyFileDoes, IdlesPc DEF EmptyFile, disk, db, env, ShapeInv, Keeps, Answered,
     New, TrashPcs, BackPcs, Trashers
<1>25. ASSUME NEW n \in Names, EmptyEntry(n)
      PROVE  ShapeInv'
  BY <1>25, EmptyEntryDoes, IdlesPc DEF EmptyEntry, disk, db, env, ShapeInv, Keeps, Answered,
     New, TrashPcs, BackPcs, Trashers
<1>26. ASSUME EndEmpty
      PROVE  ShapeInv'
  BY <1>26, EndEmptyDoes, IdlesPc DEF EndEmpty, disk, db, env, ShapeInv, Keeps, Answered, New,
     TrashPcs, BackPcs, Trashers
<1>27. ASSUME Close
      PROVE  ShapeInv'
  BY <1>27, IdlesPc DEF Close, disk, db, env, ShapeInv, Keeps, Answered, New, TrashPcs,
     BackPcs, Trashers
<1>28. ASSUME Crash
      PROVE  ShapeInv'
  BY <1>28, IdlesPc DEF Crash, disk, db, env, ShapeInv, Keeps, Answered, New, TrashPcs,
     BackPcs, Trashers
<1>29. ASSUME NEW s \in {"up", "down", "stray"}, ShareTurns(s)
      PROVE  ShapeInv'
  BY <1>29, ShareTurnsDoes, IdlesPc DEF ShareTurns, disk, db, env, ShapeInv, Keeps, Answered,
     New, TrashPcs, BackPcs, Trashers
<1>30. ASSUME NEW n \in Names, StrangerPuts(n)
      PROVE  ShapeInv'
  BY <1>30, IdlesPc DEF StrangerPuts, disk, db, env, ShapeInv, Keeps, Answered, New, TrashPcs,
     BackPcs, Trashers
<1>31. ASSUME NEW n \in Names, StrangerTakes(n)
      PROVE  ShapeInv'
  BY <1>31, IdlesPc DEF StrangerTakes, disk, db, env, ShapeInv, Keeps, Answered, New, TrashPcs,
     BackPcs, Trashers
<1>32. ASSUME UNCHANGED vars
      PROVE  ShapeInv'
  BY <1>32, IdlesPc DEF vars, ShapeInv, Idle
<1>q. QED
  BY <1>1, <1>2, <1>3, <1>4, <1>5, <1>6, <1>7, <1>8, <1>9, <1>10, <1>11, <1>12, <1>13, <1>14,
     <1>15, <1>16, <1>17, <1>18, <1>19, <1>20, <1>21, <1>22, <1>23, <1>24, <1>25, <1>26, <1>27,
     <1>28, <1>29, <1>30, <1>31, <1>32 DEF Next, TrashStep, SweepStep, ResetStep, RestoreStep,
     EmptyStep, OutsideStep, Files

-----------------------------------------------------------------------------
(* What is in an entry, and its record.                                    *)

\* What lies in the Trash lies in an entry of ours.
LEMMA EntriesOfStep ==
  ASSUME TypeOK, op \in Ops, ShapeInv, RecordInv, [Next]_vars
  PROVE  EntriesInv'
<1>1. ASSUME NEW kind \in {"album", "artist", "resolve", "replace"}, NEW as \in SUBSET Albums,
             NEW reading \in {{}} \cup {{t} : t \in Tracks}, StartTrashing(kind, as, reading)
      PROVE  EntriesInv'
  BY <1>1, StartTrashingDoes, NoneAssumption, HomeAssumption DEF StartTrashing, disk, db, env,
     RecordInv, EntriesInv, ContainerInv, Inside, TypeOK, ShapeInv, BackPcs
<1>2. ASSUME NEW a \in Albums, NextAlbum(a)
      PROVE  EntriesInv'
  BY <1>2, NextAlbumDoes, NoneAssumption, HomeAssumption DEF NextAlbum, disk, db, env,
     RecordInv, EntriesInv, ContainerInv, Inside, TypeOK, ShapeInv, BackPcs
<1>3. ASSUME NEW n \in Names, Claim(n)
      PROVE  EntriesInv'
  <2>1. SUFFICES ASSUME NEW m \in Names, entry'[m] # "app", NEW y \in Files, m \in at'[y]
                 PROVE  FALSE
    BY DEF EntriesInv, Inside
  <2>2. entry' = [entry EXCEPT ![n] = "app"] /\ m # n
    BY <1>3, <2>1 DEF Claim, TypeOK
  <2>3. m \in at[y] /\ entry[m] # "app"
    BY <1>3, <2>1, <2>2 DEF Claim, TypeOK
  <2>q. QED
    BY <2>1, <2>3 DEF RecordInv, EntriesInv, Inside
<1>4. ASSUME NEW t \in Tracks, MoveTrack(t)
      PROVE  EntriesInv'
  BY <1>4, MoveTrackDoes, NoneAssumption, HomeAssumption DEF MoveTrack, Put, disk, db, env,
     RecordInv, EntriesInv, ContainerInv, Inside, TypeOK, ShapeInv, BackPcs
<1>5. ASSUME Check
      PROVE  EntriesInv'
  BY <1>5, CheckDoes, NoneAssumption, HomeAssumption DEF Check, disk, db, env, RecordInv,
     EntriesInv, ContainerInv, Inside, TypeOK, ShapeInv, BackPcs
<1>6. ASSUME RecordAlbum
      PROVE  EntriesInv'
  BY <1>6, RecordAlbumDoes, NoneAssumption, HomeAssumption DEF RecordAlbum, disk, db, env,
     RecordInv, EntriesInv, ContainerInv, Inside, TypeOK, ShapeInv, BackPcs
<1>7. ASSUME RemoveRows
      PROVE  EntriesInv'
  BY <1>7, RemoveRowsDoes, NoneAssumption, HomeAssumption DEF RemoveRows, disk, db, env,
     RecordInv, EntriesInv, ContainerInv, Inside, TypeOK, ShapeInv, BackPcs
<1>8. ASSUME FinishTrashing
      PROVE  EntriesInv'
  BY <1>8, FinishTrashingDoes, NoneAssumption, HomeAssumption DEF FinishTrashing, disk, db,
     env, RecordInv, EntriesInv, ContainerInv, Inside, TypeOK, ShapeInv, BackPcs
<1>9. ASSUME NEW h \in Husks, StartSweep(h)
      PROVE  EntriesInv'
  BY <1>9, StartSweepDoes, NoneAssumption, HomeAssumption DEF StartSweep, disk, db, env,
     RecordInv, EntriesInv, ContainerInv, Inside, TypeOK, ShapeInv, BackPcs
<1>10. ASSUME NEW h \in Husks, NEW n \in Names, SweepFolder(h, n)
      PROVE  EntriesInv'
  <2>1. SUFFICES ASSUME NEW m \in Names, entry'[m] # "app", NEW y \in Files, m \in at'[y]
                 PROVE  FALSE
    BY DEF EntriesInv, Inside
  <2>2. h \in Files /\ entry' = [entry EXCEPT ![n] = "app"] /\ m # n
    BY <1>10, <2>1 DEF SweepFolder, Files, TypeOK
  <2>3. m \in at[y]
    BY <1>10, <2>1, <2>2, HomeAssumption DEF SweepFolder, Put, TypeOK
  <2>q. QED
    BY <2>1, <2>2, <2>3 DEF RecordInv, EntriesInv, Inside, TypeOK
<1>11. ASSUME StartReset
      PROVE  EntriesInv'
  BY <1>11, StartResetDoes, NoneAssumption, HomeAssumption DEF StartReset, disk, db, env,
     RecordInv, EntriesInv, ContainerInv, Inside, TypeOK, ShapeInv, BackPcs
<1>12. ASSUME NEW n \in Names, ClaimReset(n)
      PROVE  EntriesInv'
  <2>1. SUFFICES ASSUME NEW m \in Names, entry'[m] # "app", NEW y \in Files, m \in at'[y]
                 PROVE  FALSE
    BY DEF EntriesInv, Inside
  <2>q. QED
    BY ZenonT(40), <1>12, <2>1, ClaimResetDoes, NoneAssumption, HomeAssumption DEF ClaimReset, Free, disk,
       db, env, RecordInv, EntriesInv, ContainerInv, Inside, TypeOK, ShapeInv, BackPcs
<1>13. ASSUME NEW i \in Images, MoveImage(i)
      PROVE  EntriesInv'
  <2>1. SUFFICES ASSUME NEW m \in Names, entry'[m] # "app", NEW y \in Files, m \in at'[y]
                 PROVE  FALSE
    BY DEF EntriesInv, Inside
  <2>2. i \in Files /\ entry' = entry /\ m # op.name
    BY <1>13, <2>1 DEF MoveImage, Files, RecordInv, ContainerInv
  <2>3. \/ at' = [at EXCEPT ![i] = (at[i] \ {"home"}) \cup {op.name}]
        \/ at' = [at EXCEPT ![i] = at[i] \cup {op.name}]
        \/ at' = [at EXCEPT ![i] = at[i]]
    BY <1>13, MoveImageDoes
  <2>4. m \in at[y]
    BY <2>1, <2>2, <2>3 DEF TypeOK
  <2>q. QED
    BY <2>1, <2>2, <2>4 DEF RecordInv, EntriesInv, Inside
<1>14. ASSUME EndReset
      PROVE  EntriesInv'
  <2>1. SUFFICES ASSUME NEW m \in Names, entry'[m] # "app", NEW y \in Files, m \in at'[y]
                 PROVE  FALSE
    BY DEF EntriesInv, Inside
  <2>2. \/ m \in at[y] /\ entry' = entry
        \/ m \in at[y] /\ m # op.name /\ entry' = [entry EXCEPT ![op.name] = None]
    <3>1. CASE UNCHANGED disk
      BY <2>1, <3>1 DEF disk
    <3>2. CASE /\ at' = [x \in Files |-> at[x] \ {op.name}]
               /\ entry' = [entry EXCEPT ![op.name] = None]
      BY <2>1, <3>2
    <3>q. QED
      BY <1>14, <3>1, <3>2, EndResetDoes
  <2>3. entry[m] # "app"
    BY <2>1, <2>2 DEF TypeOK
  <2>q. QED
    BY <2>1, <2>2, <2>3 DEF RecordInv, EntriesInv, Inside
<1>15. ASSUME RecordFiles
      PROVE  EntriesInv'
  BY <1>15, RecordFilesDoes, NoneAssumption, HomeAssumption DEF RecordFiles, disk, db, env,
     RecordInv, EntriesInv, ContainerInv, Inside, TypeOK, ShapeInv, BackPcs
<1>16. ASSUME NEW n \in Names, StartRestore(n)
      PROVE  EntriesInv'
  BY <1>16, StartRestoreDoes, NoneAssumption, HomeAssumption DEF StartRestore, disk, db, env,
     RecordInv, EntriesInv, ContainerInv, Inside, TypeOK, ShapeInv, BackPcs
<1>17. ASSUME MoveBack
      PROVE  EntriesInv'
  <2>1. SUFFICES ASSUME NEW m \in Names, entry'[m] # "app", NEW y \in Files, m \in at'[y]
                 PROVE  FALSE
    BY DEF EntriesInv, Inside
  <2>2. \/ m \in at[y] /\ entry' = entry
        \/ m \in at[y] /\ m # op.name /\ entry' = [entry EXCEPT ![op.name] = None]
    <3>1. CASE /\ at' = [x \in Files |-> IF op.name \in at[x]
                                   THEN (at[x] \ {op.name}) \cup {"home"} ELSE at[x]]
               /\ entry' = [entry EXCEPT ![op.name] = None]
      BY <2>1, <3>1, HomeAssumption
    <3>2. CASE /\ entry' = entry
               /\ \E copied \in SUBSET Inside(op.name) :
                    at' = [x \in Files |-> IF x \in copied THEN at[x] \cup {"home"} ELSE at[x]]
      BY <2>1, <3>2, HomeAssumption
    <3>q. QED
      BY <1>17, <3>1, <3>2, MoveBackDoes
  <2>3. entry[m] # "app"
    BY <2>1, <2>2 DEF TypeOK
  <2>q. QED
    BY <2>1, <2>2, <2>3 DEF RecordInv, EntriesInv, Inside
<1>18. ASSUME ImportInPlace
      PROVE  EntriesInv'
  BY <1>18, ImportInPlaceDoes, NoneAssumption, HomeAssumption DEF ImportInPlace, disk, db, env,
     RecordInv, EntriesInv, ContainerInv, Inside, TypeOK, ShapeInv, BackPcs
<1>19. ASSUME ReturnToTrash
      PROVE  EntriesInv'
  BY <1>19, ReturnToTrashDoes, NoneAssumption, HomeAssumption DEF ReturnToTrash, MoveToTrash,
     InTrash, disk, db, env, RecordInv, EntriesInv, ContainerInv, Inside, TypeOK, ShapeInv,
     BackPcs
<1>20. ASSUME ImportEntry
      PROVE  EntriesInv'
  BY <1>20, ImportEntryDoes, NoneAssumption, HomeAssumption DEF ImportEntry, disk, db, env,
     RecordInv, EntriesInv, ContainerInv, Inside, TypeOK, ShapeInv, BackPcs
<1>21. ASSUME NEW t \in Tracks, LandTrack(t)
      PROVE  EntriesInv'
  BY <1>21, LandTrackDoes, NoneAssumption, HomeAssumption DEF LandTrack, disk, db, env,
     RecordInv, EntriesInv, ContainerInv, Inside, TypeOK, ShapeInv, BackPcs
<1>22. ASSUME EndImport
      PROVE  EntriesInv'
  BY <1>22, EndImportDoes, NoneAssumption, HomeAssumption DEF EndImport, disk, db, env,
     RecordInv, EntriesInv, ContainerInv, Inside, TypeOK, ShapeInv, BackPcs
<1>23. ASSUME NEW ns \in SUBSET Names, StartEmpty(ns)
      PROVE  EntriesInv'
  BY <1>23, StartEmptyDoes, NoneAssumption, HomeAssumption DEF StartEmpty, disk, db, env,
     RecordInv, EntriesInv, ContainerInv, Inside, TypeOK, ShapeInv, BackPcs
<1>24. ASSUME NEW n \in Names, NEW x \in Files, EmptyFile(n, x)
      PROVE  EntriesInv'
  <2>1. SUFFICES ASSUME NEW m \in Names, entry'[m] # "app", NEW y \in Files, m \in at'[y]
                 PROVE  FALSE
    BY DEF EntriesInv, Inside
  <2>2. entry' = entry
    BY <1>24 DEF EmptyFile
  <2>3. m \in at[y]
    BY <1>24, <2>1, EmptyFileDoes DEF TypeOK
  <2>q. QED
    BY <2>1, <2>2, <2>3 DEF RecordInv, EntriesInv, Inside
<1>25. ASSUME NEW n \in Names, EmptyEntry(n)
      PROVE  EntriesInv'
  <2>1. SUFFICES ASSUME NEW m \in Names, entry'[m] # "app", NEW y \in Files, m \in at'[y]
                 PROVE  FALSE
    BY DEF EntriesInv, Inside
  <2>2. m \in at[y] /\ m # n
    BY <1>25, <2>1 DEF EmptyEntry, Inside
  <2>3. entry[m] # "app"
    BY <1>25, <2>1, <2>2 DEF EmptyEntry, TypeOK
  <2>q. QED
    BY <2>1, <2>2, <2>3 DEF RecordInv, EntriesInv, Inside
<1>26. ASSUME EndEmpty
      PROVE  EntriesInv'
  BY <1>26, EndEmptyDoes, NoneAssumption, HomeAssumption DEF EndEmpty, disk, db, env,
     RecordInv, EntriesInv, ContainerInv, Inside, TypeOK, ShapeInv, BackPcs
<1>27. ASSUME Close
      PROVE  EntriesInv'
  BY <1>27, NoneAssumption, HomeAssumption DEF Close, disk, db, env, RecordInv, EntriesInv,
     ContainerInv, Inside, TypeOK, ShapeInv, BackPcs
<1>28. ASSUME Crash
      PROVE  EntriesInv'
  BY <1>28, NoneAssumption, HomeAssumption DEF Crash, disk, db, env, RecordInv, EntriesInv,
     ContainerInv, Inside, TypeOK, ShapeInv, BackPcs
<1>29. ASSUME NEW s \in {"up", "down", "stray"}, ShareTurns(s)
      PROVE  EntriesInv'
  BY <1>29, ShareTurnsDoes, NoneAssumption, HomeAssumption DEF ShareTurns, disk, db, env,
     RecordInv, EntriesInv, ContainerInv, Inside, TypeOK, ShapeInv, BackPcs
<1>30. ASSUME NEW n \in Names, StrangerPuts(n)
      PROVE  EntriesInv'
  BY <1>30, NoneAssumption, HomeAssumption DEF StrangerPuts, Outside, disk, db, env, RecordInv,
     EntriesInv, ContainerInv, Inside, TypeOK, ShapeInv, BackPcs
<1>31. ASSUME NEW n \in Names, StrangerTakes(n)
      PROVE  EntriesInv'
  BY <1>31, NoneAssumption, HomeAssumption DEF StrangerTakes, Outside, disk, db, env,
     RecordInv, EntriesInv, ContainerInv, Inside, TypeOK, ShapeInv, BackPcs
<1>32. ASSUME UNCHANGED vars
      PROVE  EntriesInv'
  BY <1>32, NoneAssumption, HomeAssumption DEF vars, RecordInv, EntriesInv, Inside
<1>q. QED
  BY <1>1, <1>2, <1>3, <1>4, <1>5, <1>6, <1>7, <1>8, <1>9, <1>10, <1>11, <1>12, <1>13, <1>14,
     <1>15, <1>16, <1>17, <1>18, <1>19, <1>20, <1>21, <1>22, <1>23, <1>24, <1>25, <1>26, <1>27,
     <1>28, <1>29, <1>30, <1>31, <1>32 DEF Next, TrashStep, SweepStep, ResetStep, RestoreStep,
     EmptyStep, OutsideStep, Files

\* The record of a whole folder tells of no track.
LEMMA FolderOfStep ==
  ASSUME TypeOK, op \in Ops, ShapeInv, RecordInv, [Next]_vars
  PROVE  FolderInv'
<1>1. ASSUME NEW kind \in {"album", "artist", "resolve", "replace"}, NEW as \in SUBSET Albums,
             NEW reading \in {{}} \cup {{t} : t \in Tracks}, StartTrashing(kind, as, reading)
      PROVE  FolderInv'
  BY <1>1, StartTrashingDoes, KeyOfAssumption DEF StartTrashing, disk, db, env, RecordInv,
     FolderInv, ContainerInv, TypeOK, ShapeInv
<1>2. ASSUME NEW a \in Albums, NextAlbum(a)
      PROVE  FolderInv'
  BY <1>2, NextAlbumDoes, KeyOfAssumption DEF NextAlbum, disk, db, env, RecordInv, FolderInv,
     ContainerInv, TypeOK, ShapeInv
<1>3. ASSUME NEW n \in Names, Claim(n)
      PROVE  FolderInv'
  BY <1>3, ClaimDoes, KeyOfAssumption DEF Claim, disk, db, env, RecordInv, FolderInv,
     ContainerInv, TypeOK, ShapeInv
<1>4. ASSUME NEW t \in Tracks, MoveTrack(t)
      PROVE  FolderInv'
  BY <1>4, MoveTrackDoes, KeyOfAssumption DEF MoveTrack, disk, db, env, RecordInv, FolderInv,
     ContainerInv, TypeOK, ShapeInv
<1>5. ASSUME Check
      PROVE  FolderInv'
  BY <1>5, CheckDoes, KeyOfAssumption DEF Check, disk, db, env, RecordInv, FolderInv,
     ContainerInv, TypeOK, ShapeInv
<1>6. ASSUME RecordAlbum
      PROVE  FolderInv'
  BY <1>6, RecordAlbumDoes, KeyOfAssumption DEF RecordAlbum, DeleteRecord, WriteRecord, Write,
     disk, db, env, RecordInv, FolderInv, ContainerInv, TypeOK, ShapeInv
<1>7. ASSUME RemoveRows
      PROVE  FolderInv'
  BY <1>7, RemoveRowsDoes, KeyOfAssumption DEF RemoveRows, disk, db, env, RecordInv, FolderInv,
     ContainerInv, TypeOK, ShapeInv
<1>8. ASSUME FinishTrashing
      PROVE  FolderInv'
  BY <1>8, FinishTrashingDoes, KeyOfAssumption DEF FinishTrashing, disk, db, env, RecordInv,
     FolderInv, ContainerInv, TypeOK, ShapeInv
<1>9. ASSUME NEW h \in Husks, StartSweep(h)
      PROVE  FolderInv'
  BY <1>9, StartSweepDoes, KeyOfAssumption DEF StartSweep, disk, db, env, RecordInv, FolderInv,
     ContainerInv, TypeOK, ShapeInv
<1>10. ASSUME NEW h \in Husks, NEW n \in Names, SweepFolder(h, n)
      PROVE  FolderInv'
  BY <1>10, SweepFolderDoes, KeyOfAssumption DEF SweepFolder, disk, db, env, RecordInv,
     FolderInv, ContainerInv, TypeOK, ShapeInv
<1>11. ASSUME StartReset
      PROVE  FolderInv'
  BY <1>11, StartResetDoes, KeyOfAssumption DEF StartReset, disk, db, env, RecordInv,
     FolderInv, ContainerInv, TypeOK, ShapeInv
<1>12. ASSUME NEW n \in Names, ClaimReset(n)
      PROVE  FolderInv'
  BY <1>12, ClaimResetDoes, KeyOfAssumption DEF ClaimReset, disk, db, env, RecordInv,
     FolderInv, ContainerInv, TypeOK, ShapeInv
<1>13. ASSUME NEW i \in Images, MoveImage(i)
      PROVE  FolderInv'
  BY <1>13, MoveImageDoes, KeyOfAssumption DEF MoveImage, disk, db, env, RecordInv, FolderInv,
     ContainerInv, TypeOK, ShapeInv
<1>14. ASSUME EndReset
      PROVE  FolderInv'
  BY <1>14, EndResetDoes, KeyOfAssumption DEF EndReset, disk, db, env, RecordInv, FolderInv,
     ContainerInv, TypeOK, ShapeInv
<1>15. ASSUME RecordFiles
      PROVE  FolderInv'
  <2>1. CASE UNCHANGED record
    BY <2>1 DEF RecordInv, FolderInv
  <2>2. CASE Write(op.name, IF op.kind = "sweep" THEN "folder" ELSE "files", Inside(op.name))
    <3>1. SUFFICES ASSUME NEW k \in Keys, record'[k] # None, record'[k].moved = "folder"
                   PROVE  record'[k].of \subseteq Husks
      BY DEF FolderInv
    <3>2. CASE k = KeyOf[op.name]
      <4>1. record'[k] = [name |-> op.name, of |-> Inside(op.name),
                          moved |-> IF op.kind = "sweep" THEN "folder" ELSE "files"]
        BY <2>2, <3>2 DEF Write, TypeOK
      <4>2. op.kind = "sweep"
        BY <3>1, <4>1
      <4>3. Inside(op.name) \subseteq Husks
        BY <1>15, <4>2 DEF RecordFiles, RecordInv, ContainerInv
      <4>q. QED
        BY <4>1, <4>3
    <3>3. CASE k # KeyOf[op.name]
      BY <2>2, <3>1, <3>3 DEF Write, TypeOK, RecordInv, FolderInv
    <3>q. QED
      BY <3>2, <3>3
  <2>q. QED
    BY <1>15, <2>1, <2>2 DEF RecordFiles, WriteRecord
<1>16. ASSUME NEW n \in Names, StartRestore(n)
      PROVE  FolderInv'
  BY <1>16, StartRestoreDoes, KeyOfAssumption DEF StartRestore, disk, db, env, RecordInv,
     FolderInv, ContainerInv, TypeOK, ShapeInv
<1>17. ASSUME MoveBack
      PROVE  FolderInv'
  BY <1>17, MoveBackDoes, KeyOfAssumption DEF MoveBack, disk, db, env, RecordInv, FolderInv,
     ContainerInv, TypeOK, ShapeInv
<1>18. ASSUME ImportInPlace
      PROVE  FolderInv'
  BY <1>18, ImportInPlaceDoes, KeyOfAssumption DEF ImportInPlace, DeleteRecord, WriteRecord,
     Write, disk, db, env, RecordInv, FolderInv, ContainerInv, TypeOK, ShapeInv
<1>19. ASSUME ReturnToTrash
      PROVE  FolderInv'
  BY <1>19, ReturnToTrashDoes, KeyOfAssumption DEF ReturnToTrash, DeleteRecord, WriteRecord,
     Write, disk, db, env, RecordInv, FolderInv, ContainerInv, TypeOK, ShapeInv
<1>20. ASSUME ImportEntry
      PROVE  FolderInv'
  BY <1>20, ImportEntryDoes, KeyOfAssumption DEF ImportEntry, disk, db, env, RecordInv,
     FolderInv, ContainerInv, TypeOK, ShapeInv
<1>21. ASSUME NEW t \in Tracks, LandTrack(t)
      PROVE  FolderInv'
  BY <1>21, LandTrackDoes, KeyOfAssumption DEF LandTrack, disk, db, env, RecordInv, FolderInv,
     ContainerInv, TypeOK, ShapeInv
<1>22. ASSUME EndImport
      PROVE  FolderInv'
  BY <1>22, EndImportDoes, KeyOfAssumption DEF EndImport, DeleteRecord, WriteRecord, Write,
     disk, db, env, RecordInv, FolderInv, ContainerInv, TypeOK, ShapeInv
<1>23. ASSUME NEW ns \in SUBSET Names, StartEmpty(ns)
      PROVE  FolderInv'
  BY <1>23, StartEmptyDoes, KeyOfAssumption DEF StartEmpty, disk, db, env, RecordInv,
     FolderInv, ContainerInv, TypeOK, ShapeInv
<1>24. ASSUME NEW n \in Names, NEW x \in Files, EmptyFile(n, x)
      PROVE  FolderInv'
  BY <1>24, EmptyFileDoes, KeyOfAssumption DEF EmptyFile, disk, db, env, RecordInv, FolderInv,
     ContainerInv, TypeOK, ShapeInv
<1>25. ASSUME NEW n \in Names, EmptyEntry(n)
      PROVE  FolderInv'
  BY <1>25, EmptyEntryDoes, KeyOfAssumption DEF EmptyEntry, DeleteRecord, WriteRecord, Write,
     disk, db, env, RecordInv, FolderInv, ContainerInv, TypeOK, ShapeInv
<1>26. ASSUME EndEmpty
      PROVE  FolderInv'
  BY <1>26, EndEmptyDoes, KeyOfAssumption DEF EndEmpty, disk, db, env, RecordInv, FolderInv,
     ContainerInv, TypeOK, ShapeInv
<1>27. ASSUME Close
      PROVE  FolderInv'
  BY <1>27, KeyOfAssumption DEF Close, disk, db, env, RecordInv, FolderInv, ContainerInv,
     TypeOK, ShapeInv
<1>28. ASSUME Crash
      PROVE  FolderInv'
  BY <1>28, KeyOfAssumption DEF Crash, disk, db, env, RecordInv, FolderInv, ContainerInv,
     TypeOK, ShapeInv
<1>29. ASSUME NEW s \in {"up", "down", "stray"}, ShareTurns(s)
      PROVE  FolderInv'
  BY <1>29, ShareTurnsDoes, KeyOfAssumption DEF ShareTurns, disk, db, env, RecordInv,
     FolderInv, ContainerInv, TypeOK, ShapeInv
<1>30. ASSUME NEW n \in Names, StrangerPuts(n)
      PROVE  FolderInv'
  BY <1>30, KeyOfAssumption DEF StrangerPuts, disk, db, env, RecordInv, FolderInv,
     ContainerInv, TypeOK, ShapeInv
<1>31. ASSUME NEW n \in Names, StrangerTakes(n)
      PROVE  FolderInv'
  BY <1>31, KeyOfAssumption DEF StrangerTakes, disk, db, env, RecordInv, FolderInv,
     ContainerInv, TypeOK, ShapeInv
<1>32. ASSUME UNCHANGED vars
      PROVE  FolderInv'
  BY <1>32, KeyOfAssumption DEF vars, RecordInv, FolderInv
<1>q. QED
  BY <1>1, <1>2, <1>3, <1>4, <1>5, <1>6, <1>7, <1>8, <1>9, <1>10, <1>11, <1>12, <1>13, <1>14,
     <1>15, <1>16, <1>17, <1>18, <1>19, <1>20, <1>21, <1>22, <1>23, <1>24, <1>25, <1>26, <1>27,
     <1>28, <1>29, <1>30, <1>31, <1>32 DEF Next, TrashStep, SweepStep, ResetStep, RestoreStep,
     EmptyStep, OutsideStep, Files

\* Nothing is claimed of an operation that has no entry in hand.
LEMMA ContainerAtRest ==
  ASSUME op'.pc \in {"idle", "answer", "next", "claim", "remove", "reset", "import", "land", "empty"}
  PROVE  ContainerInv'
BY DEF ContainerInv, BackPcs

\* What is claimed of an entry in hand stands when only the entries of others,
\* the share and the rows of no track change.
LEMMA ContainerStands ==
  ASSUME TypeOK, op \in Ops, ShapeInv, RecordInv,
         op'.pc = op.pc, op'.kind = op.kind, op'.name = op.name, op'.album = op.album,
         op'.left = op.left, UNCHANGED <<at, rows, record>>,
         entry[op.name] = "app" => entry'[op.name] = "app"
  PROVE  ContainerInv'
<1>1. /\ Inside(op.name)' = Inside(op.name) /\ Items(op.album)' = Items(op.album)
      /\ Recorded(op.name)' <=> Recorded(op.name)
      /\ OfAnother(op.name)' <=> OfAnother(op.name)
  BY DEF Inside, Items, Recorded, OfAnother
<1>q. QED
  BY <1>1 DEF ContainerInv, RecordInv

\* The entry in the making is ours until its record is written.
LEMMA ContainerOfStep ==
  ASSUME TypeOK, op \in Ops, ShapeInv, RecordInv, [Next]_vars
  PROVE  ContainerInv'
<1>1. ASSUME NEW kind \in {"album", "artist", "resolve", "replace"}, NEW as \in SUBSET Albums,
             NEW reading \in {{}} \cup {{t} : t \in Tracks}, StartTrashing(kind, as, reading)
      PROVE  ContainerInv'
  BY <1>1, StartTrashingDoes, NoneAssumption, HomeAssumption DEF StartTrashing, disk, db, env,
     RecordInv, ContainerInv, EntriesInv, Recorded, Keeps, Answered, New, TypeOK, ShapeInv,
     BackPcs
<1>2. ASSUME NEW a \in Albums, NextAlbum(a)
      PROVE  ContainerInv'
  BY <1>2, NextAlbumDoes, NoneAssumption, HomeAssumption DEF NextAlbum, disk, db, env,
     RecordInv, ContainerInv, EntriesInv, Recorded, Keeps, Answered, New, TypeOK, ShapeInv,
     BackPcs
<1>3. ASSUME NEW n \in Names, Claim(n)
      PROVE  ContainerInv'
  <2>1. /\ op'.pc = "moving" /\ op'.name = n /\ op'.album = op.album
        /\ op'.left = Items(op.album) \ (Items(op.album) \cap op.reading)
    BY <1>3, ClaimDoes
  <2>2. entry'[n] = "app" /\ record[KeyOf[n]] = None /\ UNCHANGED <<at, record>>
    BY <1>3 DEF Claim, Free, Recorded, TypeOK
  <2>3. Inside(n)' = {}
    BY <1>3, <2>2, NoneAssumption DEF Claim, Free, RecordInv, EntriesInv, Inside
  <2>4. op'.left \subseteq {t \in Tracks : AlbumOf[t] = op.album /\ rows'[t] # None}
    BY <1>3, <2>1 DEF Claim, Items
  <2>q. QED
    BY <2>1, <2>2, <2>3, <2>4 DEF ContainerInv, Items, Recorded, Inside, BackPcs
<1>4. ASSUME NEW t \in Tracks, MoveTrack(t)
      PROVE  ContainerInv'
  <2>1. CASE op'.pc = "answer"
    BY <2>1, ContainerAtRest
  <2>2. CASE /\ op'.pc = "moving" /\ op'.album = op.album /\ op'.name = op.name
             /\ op'.left = op.left \ {t}
             /\ \/ /\ rows' = [rows EXCEPT ![t] = op.name]
                   /\ at' = [at EXCEPT ![t] = (at[t] \ {rows[t]}) \cup {op.name}]
                \/ UNCHANGED <<at, rows>>
    <3>1. /\ t \in Items(op.album) /\ op.left \subseteq Items(op.album)
          /\ Inside(op.name) \subseteq Items(op.album) /\ op.name # None
          /\ UNCHANGED <<entry, record>> /\ entry[op.name] = "app" /\ ~Recorded(op.name)
      BY <1>4, NoneAssumption DEF MoveTrack, RecordInv, ContainerInv, ShapeInv
    <3>2. Items(op.album)' = Items(op.album)
      BY <2>2, <3>1 DEF Items, TypeOK, Rows
    <3>3. Inside(op.name)' \subseteq Items(op.album)
      BY <2>2, <3>1 DEF Inside, TypeOK
    <3>q. QED
      BY <2>2, <3>1, <3>2, <3>3 DEF ContainerInv, Recorded, BackPcs
  <2>q. QED
    BY <1>4, <2>1, <2>2, MoveTrackDoes DEF Answered
<1>5. ASSUME Check
      PROVE  ContainerInv'
  <2>1. CASE op'.pc \in {"remove", "answer"}
    BY <2>1, ContainerAtRest
  <2>2. CASE op'.pc = "record" /\ op'.name = op.name /\ op'.album = op.album
    <3>1. Inside(op.name)' = Inside(op.name) /\ Items(op.album)' = Items(op.album)
      BY <1>5, <2>2 DEF Check, Inside, Items
    <3>q. QED
      BY <1>5, <2>2, <3>1 DEF Check, RecordInv, ContainerInv, BackPcs
  <2>q. QED
    BY <1>5, <2>1, <2>2, CheckDoes DEF Answered
<1>6. ASSUME RecordAlbum
      PROVE  ContainerInv'
  BY <1>6, RecordAlbumDoes, NoneAssumption, HomeAssumption DEF RecordAlbum, disk, db, env,
     RecordInv, ContainerInv, EntriesInv, Recorded, Keeps, Answered, New, TypeOK, ShapeInv,
     BackPcs
<1>7. ASSUME RemoveRows
      PROVE  ContainerInv'
  BY <1>7, RemoveRowsDoes, NoneAssumption, HomeAssumption DEF RemoveRows, disk, db, env,
     RecordInv, ContainerInv, EntriesInv, Recorded, Keeps, Answered, New, TypeOK, ShapeInv,
     BackPcs
<1>8. ASSUME FinishTrashing
      PROVE  ContainerInv'
  BY <1>8, FinishTrashingDoes, NoneAssumption, HomeAssumption DEF FinishTrashing, disk, db,
     env, RecordInv, ContainerInv, EntriesInv, Recorded, Keeps, Answered, New, TypeOK,
     ShapeInv, BackPcs
<1>9. ASSUME NEW h \in Husks, StartSweep(h)
      PROVE  ContainerInv'
  <2>1. op'.pc = "sweep" /\ op'.left = {h}
    BY <1>9, StartSweepDoes DEF New
  <2>q. QED
    BY <2>1 DEF ContainerInv, BackPcs
<1>10. ASSUME NEW h \in Husks, NEW n \in Names, SweepFolder(h, n)
      PROVE  ContainerInv'
  <2>1. CASE op'.pc = "answer"
    BY <2>1, ContainerAtRest
  <2>2. CASE op'.pc = "record files" /\ op'.name = n
    <3>1. Inside(n) = {} /\ h \in Files
      BY <1>10, NoneAssumption DEF SweepFolder, Free, RecordInv, EntriesInv, Files
    <3>2. PICK p \in SUBSET Places : at' = [at EXCEPT ![h] = p]
      BY <1>10, <3>1 DEF SweepFolder, Put, Places, TypeOK
    <3>3. Inside(n)' \subseteq {h}
      BY <3>1, <3>2 DEF Inside, TypeOK
    <3>q. QED
      BY <2>2, <3>3 DEF ContainerInv, BackPcs
  <2>q. QED
    BY <1>10, <2>1, <2>2, SweepFolderDoes DEF Answered
<1>11. ASSUME StartReset
      PROVE  ContainerInv'
  BY <1>11, StartResetDoes, NoneAssumption, HomeAssumption DEF StartReset, disk, db, env,
     RecordInv, ContainerInv, EntriesInv, Recorded, Keeps, Answered, New, TypeOK, ShapeInv,
     BackPcs
<1>12. ASSUME NEW n \in Names, ClaimReset(n)
      PROVE  ContainerInv'
  <2>1. op'.pc = "reset move" /\ op'.name = n
    BY <1>12, ClaimResetDoes
  <2>2. entry'[n] = "app" /\ ~Recorded(n) /\ UNCHANGED record
    BY <1>12 DEF ClaimReset, Free, TypeOK
  <2>q. QED
    BY <2>1, <2>2 DEF ContainerInv, Recorded, BackPcs
<1>13. ASSUME NEW i \in Images, MoveImage(i)
      PROVE  ContainerInv'
  BY <1>13, MoveImageDoes, NoneAssumption, HomeAssumption DEF MoveImage, Put, disk, db, env,
     RecordInv, ContainerInv, EntriesInv, Recorded, Keeps, Answered, New, TypeOK, ShapeInv,
     BackPcs
<1>14. ASSUME EndReset
      PROVE  ContainerInv'
  BY <1>14, EndResetDoes, NoneAssumption, HomeAssumption DEF EndReset, disk, db, env,
     RecordInv, ContainerInv, EntriesInv, Recorded, Keeps, Answered, New, TypeOK, ShapeInv,
     BackPcs
<1>15. ASSUME RecordFiles
      PROVE  ContainerInv'
  BY <1>15, RecordFilesDoes, NoneAssumption, HomeAssumption DEF RecordFiles, disk, db, env,
     RecordInv, ContainerInv, EntriesInv, Recorded, Keeps, Answered, New, TypeOK, ShapeInv,
     BackPcs
<1>16. ASSUME NEW n \in Names, StartRestore(n)
      PROVE  ContainerInv'
  <2>1. CASE op'.pc = "import"
    BY <2>1, ContainerAtRest
  <2>2. CASE GoesBack(RecordOf(n)) /\ op'.pc = "move back" /\ op'.name = n /\ op'.left = RecordOf(n).of
    <3>1. /\ Recorded(n) /\ ~OfAnother(n) /\ RecordOf(n) = record[KeyOf[n]]
          /\ record[KeyOf[n]].moved = "folder"
      BY <2>2 DEF GoesBack, RecordOf
    <3>2. record[KeyOf[n]].of \subseteq Husks
      BY <3>1, KeyOfAssumption DEF RecordInv, FolderInv, Recorded
    <3>3. UNCHANGED record
      BY <1>16 DEF StartRestore
    <3>q. QED
      BY <2>2, <3>1, <3>2, <3>3 DEF ContainerInv, Recorded, OfAnother, BackPcs
  <2>q. QED
    BY <1>16, <2>1, <2>2, StartRestoreDoes DEF New
<1>17. ASSUME MoveBack
      PROVE  ContainerInv'
  <2>1. CASE op'.pc = "answer"
    BY <2>1, ContainerAtRest
  <2>2. CASE op'.pc = "in place" /\ op'.name = op.name /\ op'.left = op.left
    BY <1>17, <2>2 DEF MoveBack, RecordInv, ContainerInv, Recorded, OfAnother, BackPcs
  <2>q. QED
    BY <1>17, <2>1, <2>2, MoveBackDoes DEF Answered
<1>18. ASSUME ImportInPlace
      PROVE  ContainerInv'
  <2>1. CASE op'.pc = "answer"
    BY <2>1, ContainerAtRest
  <2>2. CASE op'.pc = "return" /\ op'.name = op.name /\ op'.left = op.left /\ UNCHANGED record
    BY <1>18, <2>2 DEF ImportInPlace, RecordInv, ContainerInv, Recorded, OfAnother, BackPcs
  <2>q. QED
    BY <1>18, <2>1, <2>2, ImportInPlaceDoes DEF Answered
<1>19. ASSUME ReturnToTrash
      PROVE  ContainerInv'
  BY <1>19, ReturnToTrashDoes, NoneAssumption, HomeAssumption DEF ReturnToTrash, disk, db, env,
     RecordInv, ContainerInv, EntriesInv, Recorded, Keeps, Answered, New, TypeOK, ShapeInv,
     BackPcs
<1>20. ASSUME ImportEntry
      PROVE  ContainerInv'
  BY <1>20, ImportEntryDoes, NoneAssumption, HomeAssumption DEF ImportEntry, disk, db, env,
     RecordInv, ContainerInv, EntriesInv, Recorded, Keeps, Answered, New, TypeOK, ShapeInv,
     BackPcs
<1>21. ASSUME NEW t \in Tracks, LandTrack(t)
      PROVE  ContainerInv'
  BY <1>21, LandTrackDoes, NoneAssumption, HomeAssumption DEF LandTrack, disk, db, env,
     RecordInv, ContainerInv, EntriesInv, Recorded, Keeps, Answered, New, TypeOK, ShapeInv,
     BackPcs
<1>22. ASSUME EndImport
      PROVE  ContainerInv'
  BY <1>22, EndImportDoes, NoneAssumption, HomeAssumption DEF EndImport, disk, db, env,
     RecordInv, ContainerInv, EntriesInv, Recorded, Keeps, Answered, New, TypeOK, ShapeInv,
     BackPcs
<1>23. ASSUME NEW ns \in SUBSET Names, StartEmpty(ns)
      PROVE  ContainerInv'
  BY <1>23, StartEmptyDoes, NoneAssumption, HomeAssumption DEF StartEmpty, disk, db, env,
     RecordInv, ContainerInv, EntriesInv, Recorded, Keeps, Answered, New, TypeOK, ShapeInv,
     BackPcs
<1>24. ASSUME NEW n \in Names, NEW x \in Files, EmptyFile(n, x)
      PROVE  ContainerInv'
  BY <1>24, EmptyFileDoes, NoneAssumption, HomeAssumption DEF EmptyFile, Put, disk, db, env,
     RecordInv, ContainerInv, EntriesInv, Recorded, Keeps, Answered, New, TypeOK, ShapeInv,
     BackPcs
<1>25. ASSUME NEW n \in Names, EmptyEntry(n)
      PROVE  ContainerInv'
  BY <1>25, EmptyEntryDoes, NoneAssumption, HomeAssumption DEF EmptyEntry, disk, db, env,
     RecordInv, ContainerInv, EntriesInv, Recorded, Keeps, Answered, New, TypeOK, ShapeInv,
     BackPcs
<1>26. ASSUME EndEmpty
      PROVE  ContainerInv'
  BY <1>26, EndEmptyDoes, NoneAssumption, HomeAssumption DEF EndEmpty, disk, db, env,
     RecordInv, ContainerInv, EntriesInv, Recorded, Keeps, Answered, New, TypeOK, ShapeInv,
     BackPcs
<1>27. ASSUME Close
      PROVE  ContainerInv'
  BY <1>27, IdlesPc, ContainerAtRest DEF Close
<1>28. ASSUME Crash
      PROVE  ContainerInv'
  BY <1>28, IdlesPc, ContainerAtRest DEF Crash
<1>29. ASSUME NEW s \in {"up", "down", "stray"}, ShareTurns(s)
      PROVE  ContainerInv'
  BY <1>29, ShareTurnsDoes, ContainerStands DEF ShareTurns, ShapeInv, disk, db
<1>30. ASSUME NEW n \in Names, StrangerPuts(n)
      PROVE  ContainerInv'
  <2>1. entry[op.name] = "app" => op.name # n
    BY <1>30, NoneAssumption DEF StrangerPuts
  <2>2. entry[op.name] = "app" => entry'[op.name] = "app"
    BY <1>30, <2>1 DEF StrangerPuts, TypeOK
  <2>q. QED
    BY <1>30, <2>2, ContainerStands DEF StrangerPuts, db
<1>31. ASSUME NEW n \in Names, StrangerTakes(n)
      PROVE  ContainerInv'
  BY <1>31, IdlesPc, ContainerAtRest DEF StrangerTakes
<1>32. ASSUME UNCHANGED vars
      PROVE  ContainerInv'
  BY <1>32, NoneAssumption, HomeAssumption DEF vars, RecordInv, ContainerInv, Inside, Items,
     Recorded, OfAnother
<1>q. QED
  BY <1>1, <1>2, <1>3, <1>4, <1>5, <1>6, <1>7, <1>8, <1>9, <1>10, <1>11, <1>12, <1>13, <1>14,
     <1>15, <1>16, <1>17, <1>18, <1>19, <1>20, <1>21, <1>22, <1>23, <1>24, <1>25, <1>26, <1>27,
     <1>28, <1>29, <1>30, <1>31, <1>32 DEF Next, TrashStep, SweepStep, ResetStep, RestoreStep,
     EmptyStep, OutsideStep, Files

Tells(m) == entry[m] = "app" /\ RecordOf(m) # None => Inside(m) \subseteq RecordOf(m).of

\* An entry that gains nothing is told of by the record it had.
LEMMA RecordStands ==
  ASSUME TypeOK, RecordInv, NEW m \in Names, Inside(m)' \subseteq Inside(m),
         entry'[m] = "app" => entry[m] = "app",
         record'[KeyOf[m]] \in {record[KeyOf[m]], None}
  PROVE  Tells(m)'
<1>1. RecordOf(m)' \in {RecordOf(m), None}
  BY DEF RecordOf, Recorded, OfAnother
<1>q. QED
  BY <1>1 DEF Tells, RecordInv, RecordIsOfEntry

\* An entry without a record is told nothing of.
LEMMA NoRecordTells ==
  ASSUME NEW m \in Names, ~Recorded(m), UNCHANGED record
  PROVE  Tells(m)'
BY DEF Tells, RecordOf, Recorded

\* A record that names all that is in the entry tells of it, and of no other entry.
LEMMA WriteTells ==
  ASSUME TypeOK, RecordInv, NEW n \in Names, NEW shape, NEW what, Write(n, shape, what),
         UNCHANGED <<at, entry>>, Inside(n) \subseteq what
  PROVE  RecordIsOfEntry'
<1>1. SUFFICES ASSUME NEW m \in Names PROVE Tells(m)'
  BY DEF RecordIsOfEntry, Tells
<1>2. Inside(m)' = Inside(m)
  BY DEF Inside
<1>3. CASE m = n
  <2>1. record'[KeyOf[n]] = [name |-> n, moved |-> shape, of |-> what]
    BY KeyOfAssumption DEF Write, TypeOK
  <2>2. RecordOf(n)' \in {[name |-> n, moved |-> shape, of |-> what], None}
    BY <2>1 DEF RecordOf, Recorded, OfAnother
  <2>q. QED
    BY <1>2, <1>3, <2>2 DEF Tells
<1>4. CASE m # n /\ KeyOf[m] = KeyOf[n]
  <2>1. record'[KeyOf[m]].name = n
    BY <1>4, KeyOfAssumption DEF Write, TypeOK
  <2>2. RecordOf(m)' = None
    BY <1>4, <2>1 DEF RecordOf, Recorded, OfAnother
  <2>q. QED
    BY <2>2 DEF Tells
<1>5. CASE KeyOf[m] # KeyOf[n]
  BY <1>2, <1>5, KeyOfAssumption, RecordStands DEF Write, TypeOK
<1>q. QED
  BY <1>3, <1>4, <1>5


\* The record of an entry tells of what is in it.
LEMMA RecordOfStep ==
  ASSUME TypeOK, op \in Ops, ShapeInv, RecordInv, [Next]_vars
  PROVE  RecordIsOfEntry'
<1>1. ASSUME NEW kind \in {"album", "artist", "resolve", "replace"}, NEW as \in SUBSET Albums,
             NEW reading \in {{}} \cup {{t} : t \in Tracks}, StartTrashing(kind, as, reading)
      PROVE  RecordIsOfEntry'
  BY <1>1, StartTrashingDoes, NoneAssumption, HomeAssumption, KeyOfAssumption DEF
     StartTrashing, disk, db, env, RecordInv, RecordIsOfEntry, RecordOf, Recorded, OfAnother,
     Inside, TypeOK
<1>2. ASSUME NEW a \in Albums, NextAlbum(a)
      PROVE  RecordIsOfEntry'
  BY <1>2, NextAlbumDoes, NoneAssumption, HomeAssumption, KeyOfAssumption DEF NextAlbum, disk,
     db, env, RecordInv, RecordIsOfEntry, RecordOf, Recorded, OfAnother, Inside, TypeOK
<1>3. ASSUME NEW n \in Names, Claim(n)
      PROVE  RecordIsOfEntry'
  BY ZenonT(40), <1>3, ClaimDoes, NoneAssumption, HomeAssumption, KeyOfAssumption DEF Claim, Free, disk,
     db, env, RecordInv, RecordIsOfEntry, RecordOf, Recorded, OfAnother, Inside, TypeOK
<1>4. ASSUME NEW t \in Tracks, MoveTrack(t)
      PROVE  RecordIsOfEntry'
  <2>1. SUFFICES ASSUME NEW m \in Names PROVE Tells(m)'
    BY DEF RecordIsOfEntry, Tells
  <2>2. ~Recorded(op.name) /\ UNCHANGED <<record, entry>> /\ t \in Files
    BY <1>4 DEF MoveTrack, RecordInv, ContainerInv, Files
  <2>3. CASE m = op.name
    BY <2>2, <2>3, NoRecordTells
  <2>4. CASE m # op.name
    <3>1. Inside(m)' \subseteq Inside(m)
      BY <1>4, <2>2, <2>4, MoveTrackDoes DEF Inside, TypeOK
    <3>q. QED
      BY <2>2, <2>4, <3>1, RecordStands DEF TypeOK
  <2>q. QED
    BY <2>3, <2>4
<1>5. ASSUME Check
      PROVE  RecordIsOfEntry'
  BY <1>5, CheckDoes, NoneAssumption, HomeAssumption, KeyOfAssumption DEF Check, disk, db, env,
     RecordInv, RecordIsOfEntry, RecordOf, Recorded, OfAnother, Inside, TypeOK
<1>6. ASSUME RecordAlbum
      PROVE  RecordIsOfEntry'
  <2>1. /\ UNCHANGED <<at, entry>> /\ op.name \in Names
        /\ Inside(op.name) \subseteq Items(op.album)
    BY <1>6 DEF RecordAlbum, disk, ShapeInv, RecordInv, ContainerInv
  <2>2. CASE Write(op.name, "items", Items(op.album))
    BY <2>1, <2>2, WriteTells
  <2>3. CASE UNCHANGED record
    BY <2>1, <2>3 DEF RecordInv, RecordIsOfEntry, RecordOf, Recorded, OfAnother, Inside
  <2>q. QED
    BY <1>6, <2>2, <2>3 DEF RecordAlbum, WriteRecord
<1>7. ASSUME RemoveRows
      PROVE  RecordIsOfEntry'
  BY <1>7, RemoveRowsDoes, NoneAssumption, HomeAssumption, KeyOfAssumption DEF RemoveRows,
     disk, db, env, RecordInv, RecordIsOfEntry, RecordOf, Recorded, OfAnother, Inside, TypeOK
<1>8. ASSUME FinishTrashing
      PROVE  RecordIsOfEntry'
  BY <1>8, FinishTrashingDoes, NoneAssumption, HomeAssumption, KeyOfAssumption DEF
     FinishTrashing, disk, db, env, RecordInv, RecordIsOfEntry, RecordOf, Recorded, OfAnother,
     Inside, TypeOK
<1>9. ASSUME NEW h \in Husks, StartSweep(h)
      PROVE  RecordIsOfEntry'
  BY <1>9, StartSweepDoes, NoneAssumption, HomeAssumption, KeyOfAssumption DEF StartSweep,
     disk, db, env, RecordInv, RecordIsOfEntry, RecordOf, Recorded, OfAnother, Inside, TypeOK
<1>10. ASSUME NEW h \in Husks, NEW n \in Names, SweepFolder(h, n)
      PROVE  RecordIsOfEntry'
  <2>1. SUFFICES ASSUME NEW m \in Names PROVE Tells(m)'
    BY DEF RecordIsOfEntry, Tells
  <2>2. /\ ~Recorded(n) /\ UNCHANGED record /\ h \in Files
        /\ entry' = [entry EXCEPT ![n] = "app"]
    BY <1>10 DEF SweepFolder, Free, Files
  <2>3. CASE m = n
    BY <2>2, <2>3, NoRecordTells
  <2>4. CASE m # n
    <3>1. Inside(m)' \subseteq Inside(m)
      BY <1>10, <2>2, <2>4, HomeAssumption DEF Inside, TypeOK, SweepFolder, Put
    <3>q. QED
      BY <2>2, <2>4, <3>1, RecordStands DEF TypeOK
  <2>q. QED
    BY <2>3, <2>4
<1>11. ASSUME StartReset
      PROVE  RecordIsOfEntry'
  BY <1>11, StartResetDoes, NoneAssumption, HomeAssumption, KeyOfAssumption DEF StartReset,
     disk, db, env, RecordInv, RecordIsOfEntry, RecordOf, Recorded, OfAnother, Inside, TypeOK
<1>12. ASSUME NEW n \in Names, ClaimReset(n)
      PROVE  RecordIsOfEntry'
  BY ZenonT(40), <1>12, ClaimResetDoes, NoneAssumption, HomeAssumption, KeyOfAssumption DEF ClaimReset,
     Free, Recorded, disk, db, env, RecordInv, RecordIsOfEntry, RecordOf, Recorded, OfAnother,
     Inside, TypeOK
<1>13. ASSUME NEW i \in Images, MoveImage(i)
      PROVE  RecordIsOfEntry'
  <2>1. SUFFICES ASSUME NEW m \in Names PROVE Tells(m)'
    BY DEF RecordIsOfEntry, Tells
  <2>2. ~Recorded(op.name) /\ UNCHANGED <<record, entry>> /\ i \in Files
    BY <1>13 DEF MoveImage, RecordInv, ContainerInv, Files
  <2>3. CASE m = op.name
    BY <2>2, <2>3, NoRecordTells
  <2>4. CASE m # op.name
    <3>0. \/ at' = [at EXCEPT ![i] = (at[i] \ {"home"}) \cup {op.name}]
          \/ at' = [at EXCEPT ![i] = at[i] \cup {op.name}]
          \/ at' = [at EXCEPT ![i] = at[i]]
      BY <1>13, MoveImageDoes
    <3>1. Inside(m)' \subseteq Inside(m)
      BY <2>2, <2>4, <3>0 DEF Inside, TypeOK
    <3>q. QED
      BY <2>2, <2>4, <3>1, RecordStands DEF TypeOK
  <2>q. QED
    BY <2>3, <2>4
<1>14. ASSUME EndReset
      PROVE  RecordIsOfEntry'
  <2>1. SUFFICES ASSUME NEW m \in Names PROVE Tells(m)'
    BY DEF RecordIsOfEntry, Tells
  <2>2. Inside(m)' \subseteq Inside(m)
    BY <1>14, EndResetDoes DEF Inside, disk
  <2>3. entry'[m] = "app" => entry[m] = "app"
    BY <1>14, EndResetDoes, NoneAssumption DEF disk, TypeOK
  <2>4. record' = record
    BY <1>14 DEF EndReset
  <2>q. QED
    BY <2>1, <2>2, <2>3, <2>4, RecordStands
<1>15. ASSUME RecordFiles
      PROVE  RecordIsOfEntry'
  <2>1. UNCHANGED <<at, entry>> /\ op.name \in Names
    BY <1>15 DEF RecordFiles, disk, ShapeInv
  <2>2. CASE Write(op.name, IF op.kind = "sweep" THEN "folder" ELSE "files", Inside(op.name))
    BY <2>1, <2>2, WriteTells
  <2>3. CASE UNCHANGED record
    BY <2>1, <2>3 DEF RecordInv, RecordIsOfEntry, RecordOf, Recorded, OfAnother, Inside
  <2>q. QED
    BY <1>15, <2>2, <2>3 DEF RecordFiles, WriteRecord
<1>16. ASSUME NEW n \in Names, StartRestore(n)
      PROVE  RecordIsOfEntry'
  BY <1>16, StartRestoreDoes, NoneAssumption, HomeAssumption, KeyOfAssumption DEF StartRestore,
     disk, db, env, RecordInv, RecordIsOfEntry, RecordOf, Recorded, OfAnother, Inside, TypeOK
<1>17. ASSUME MoveBack
      PROVE  RecordIsOfEntry'
  <2>1. SUFFICES ASSUME NEW m \in Names PROVE Tells(m)'
    BY DEF RecordIsOfEntry, Tells
  <2>2. Inside(m)' \subseteq Inside(m)
    <3>1. CASE at' = [x \in Files |-> IF op.name \in at[x]
                                   THEN (at[x] \ {op.name}) \cup {"home"} ELSE at[x]]
      BY <3>1, HomeAssumption DEF Inside
    <3>2. CASE \E copied \in SUBSET Inside(op.name) :
                 at' = [x \in Files |-> IF x \in copied THEN at[x] \cup {"home"} ELSE at[x]]
      BY <3>2, HomeAssumption DEF Inside
    <3>q. QED
      BY <1>17, <3>1, <3>2, MoveBackDoes
  <2>3. entry'[m] = "app" => entry[m] = "app"
    BY <1>17, MoveBackDoes, NoneAssumption DEF TypeOK
  <2>4. record' = record
    BY <1>17 DEF MoveBack
  <2>q. QED
    BY <2>1, <2>2, <2>3, <2>4, RecordStands
<1>18. ASSUME ImportInPlace
      PROVE  RecordIsOfEntry'
  <2>1. SUFFICES ASSUME NEW m \in Names PROVE Tells(m)'
    BY DEF RecordIsOfEntry, Tells
  <2>2. Inside(m)' \subseteq Inside(m)
    BY <1>18 DEF ImportInPlace, Inside, disk
  <2>3. entry' = entry
    BY <1>18 DEF ImportInPlace, disk
  <2>4. record'[KeyOf[m]] \in {record[KeyOf[m]], None}
    BY <1>18, KeyOfAssumption DEF ImportInPlace, DeleteRecord, TypeOK
  <2>q. QED
    BY <2>1, <2>2, <2>3, <2>4, RecordStands
<1>19. ASSUME ReturnToTrash
      PROVE  RecordIsOfEntry'
  <2>1. SUFFICES ASSUME NEW m \in Names PROVE Tells(m)'
    BY DEF RecordIsOfEntry, Tells
  <2>2. CASE MoveToTrash(op.name, op.left) /\ UNCHANGED record
    <3>1. /\ Recorded(op.name) /\ ~OfAnother(op.name) /\ record[KeyOf[op.name]].of = op.left
          /\ op.name \in Names
      BY <1>19 DEF ReturnToTrash, RecordInv, ContainerInv, ShapeInv, BackPcs
    <3>2. Inside(op.name) = {}
      BY <2>2, <3>1, NoneAssumption DEF MoveToTrash, InTrash, RecordInv, EntriesInv
    <3>3. entry' = [entry EXCEPT ![op.name] = "app"]
      BY <2>2 DEF MoveToTrash
    <3>4. \A x \in Files : \A k \in Names :
             k \in at'[x] => k \in at[x] \/ (k = op.name /\ x \in op.left)
      BY <2>2, HomeAssumption DEF MoveToTrash
    <3>5. CASE m = op.name
      <4>1. Inside(m)' \subseteq op.left
        BY <3>2, <3>4, <3>5 DEF Inside
      <4>2. RecordOf(m)' = record[KeyOf[m]]
        BY <2>2, <3>1, <3>5 DEF RecordOf, Recorded, OfAnother
      <4>q. QED
        BY <3>1, <3>5, <4>1, <4>2 DEF Tells
    <3>6. CASE m # op.name
      <4>1. Inside(m)' \subseteq Inside(m)
        BY <3>4, <3>6 DEF Inside
      <4>2. entry'[m] = "app" => entry[m] = "app"
        BY <3>3, <3>6 DEF TypeOK
      <4>q. QED
        BY <2>2, <4>1, <4>2, RecordStands
    <3>q. QED
      BY <3>5, <3>6
  <2>3. CASE (DeleteRecord(op.name) \/ UNCHANGED record) /\ UNCHANGED disk
    <3>1. Inside(m)' \subseteq Inside(m) /\ entry' = entry
      BY <2>3 DEF Inside, disk
    <3>2. record'[KeyOf[m]] \in {record[KeyOf[m]], None}
      BY <2>3, KeyOfAssumption DEF DeleteRecord, TypeOK
    <3>q. QED
      BY <3>1, <3>2, RecordStands
  <2>q. QED
    BY <1>19, <2>2, <2>3 DEF ReturnToTrash
<1>20. ASSUME ImportEntry
      PROVE  RecordIsOfEntry'
  BY <1>20, ImportEntryDoes, NoneAssumption, HomeAssumption, KeyOfAssumption DEF ImportEntry,
     disk, db, env, RecordInv, RecordIsOfEntry, RecordOf, Recorded, OfAnother, Inside, TypeOK
<1>21. ASSUME NEW t \in Tracks, LandTrack(t)
      PROVE  RecordIsOfEntry'
  BY <1>21, LandTrackDoes, NoneAssumption, HomeAssumption, KeyOfAssumption DEF LandTrack, Put,
     disk, db, env, RecordInv, RecordIsOfEntry, RecordOf, Recorded, OfAnother, Inside, TypeOK
<1>22. ASSUME EndImport
      PROVE  RecordIsOfEntry'
  BY <1>22, EndImportDoes, NoneAssumption, HomeAssumption, KeyOfAssumption DEF EndImport,
     DeleteRecord, disk, db, env, RecordInv, RecordIsOfEntry, RecordOf, Recorded, OfAnother,
     Inside, TypeOK
<1>23. ASSUME NEW ns \in SUBSET Names, StartEmpty(ns)
      PROVE  RecordIsOfEntry'
  BY <1>23, StartEmptyDoes, NoneAssumption, HomeAssumption, KeyOfAssumption DEF StartEmpty,
     disk, db, env, RecordInv, RecordIsOfEntry, RecordOf, Recorded, OfAnother, Inside, TypeOK
<1>24. ASSUME NEW n \in Names, NEW x \in Files, EmptyFile(n, x)
      PROVE  RecordIsOfEntry'
  <2>1. SUFFICES ASSUME NEW m \in Names PROVE Tells(m)'
    BY DEF RecordIsOfEntry, Tells
  <2>2. Inside(m)' \subseteq Inside(m)
    BY <1>24, EmptyFileDoes DEF Inside, TypeOK
  <2>3. entry' = entry
    BY <1>24 DEF EmptyFile
  <2>4. record' = record
    BY <1>24 DEF EmptyFile
  <2>q. QED
    BY <2>1, <2>2, <2>3, <2>4, RecordStands
<1>25. ASSUME NEW n \in Names, EmptyEntry(n)
      PROVE  RecordIsOfEntry'
  <2>1. SUFFICES ASSUME NEW m \in Names PROVE Tells(m)'
    BY DEF RecordIsOfEntry, Tells
  <2>2. Inside(m)' \subseteq Inside(m)
    BY <1>25 DEF EmptyEntry, Inside
  <2>3. entry'[m] = "app" => entry[m] = "app"
    BY <1>25, NoneAssumption DEF EmptyEntry, TypeOK
  <2>4. record'[KeyOf[m]] \in {record[KeyOf[m]], None}
    BY <1>25, KeyOfAssumption DEF EmptyEntry, DeleteRecord, TypeOK
  <2>q. QED
    BY <2>1, <2>2, <2>3, <2>4, RecordStands
<1>26. ASSUME EndEmpty
      PROVE  RecordIsOfEntry'
  BY <1>26, EndEmptyDoes, NoneAssumption, HomeAssumption, KeyOfAssumption DEF EndEmpty, disk,
     db, env, RecordInv, RecordIsOfEntry, RecordOf, Recorded, OfAnother, Inside, TypeOK
<1>27. ASSUME Close
      PROVE  RecordIsOfEntry'
  BY <1>27, NoneAssumption, HomeAssumption, KeyOfAssumption DEF Close, disk, db, env,
     RecordInv, RecordIsOfEntry, RecordOf, Recorded, OfAnother, Inside, TypeOK
<1>28. ASSUME Crash
      PROVE  RecordIsOfEntry'
  BY <1>28, NoneAssumption, HomeAssumption, KeyOfAssumption DEF Crash, disk, db, env,
     RecordInv, RecordIsOfEntry, RecordOf, Recorded, OfAnother, Inside, TypeOK
<1>29. ASSUME NEW s \in {"up", "down", "stray"}, ShareTurns(s)
      PROVE  RecordIsOfEntry'
  BY <1>29, ShareTurnsDoes, NoneAssumption, HomeAssumption, KeyOfAssumption DEF ShareTurns,
     disk, db, env, RecordInv, RecordIsOfEntry, RecordOf, Recorded, OfAnother, Inside, TypeOK
<1>30. ASSUME NEW n \in Names, StrangerPuts(n)
      PROVE  RecordIsOfEntry'
  BY <1>30, NoneAssumption, HomeAssumption, KeyOfAssumption DEF StrangerPuts, Outside, disk,
     db, env, RecordInv, RecordIsOfEntry, RecordOf, Recorded, OfAnother, Inside, TypeOK
<1>31. ASSUME NEW n \in Names, StrangerTakes(n)
      PROVE  RecordIsOfEntry'
  BY <1>31, NoneAssumption, HomeAssumption, KeyOfAssumption DEF StrangerTakes, Outside, disk,
     db, env, RecordInv, RecordIsOfEntry, RecordOf, Recorded, OfAnother, Inside, TypeOK
<1>32. ASSUME UNCHANGED vars
      PROVE  RecordIsOfEntry'
  BY <1>32, NoneAssumption, HomeAssumption, KeyOfAssumption DEF vars, RecordInv,
     RecordIsOfEntry, RecordOf, Recorded, OfAnother, Inside
<1>q. QED
  BY <1>1, <1>2, <1>3, <1>4, <1>5, <1>6, <1>7, <1>8, <1>9, <1>10, <1>11, <1>12, <1>13, <1>14,
     <1>15, <1>16, <1>17, <1>18, <1>19, <1>20, <1>21, <1>22, <1>23, <1>24, <1>25, <1>26, <1>27,
     <1>28, <1>29, <1>30, <1>31, <1>32 DEF Next, TrashStep, SweepStep, ResetStep, RestoreStep,
     EmptyStep, OutsideStep, Files

\* What is said of entries and records is kept by every step.
LEMMA RecordsOfStep ==
  ASSUME TypeOK, op \in Ops, ShapeInv, RecordInv, [Next]_vars
  PROVE  RecordInv'
BY EntriesOfStep, FolderOfStep, ContainerOfStep, RecordOfStep DEF RecordInv

-----------------------------------------------------------------------------
(* What may be deleted.                                                    *)

\* What an operation has left to do is of files.
LEMMA LeftType ==
  ASSUME op \in Ops
  PROVE  op.left \in SUBSET Files
BY DEF Ops

\* What an emptying and a reset may delete is known before they start.
LEMMA EmptyOfStep ==
  ASSUME TypeOK, op \in Ops, ShapeInv, RecordInv, EmptyInv, [Next]_vars
  PROVE  EmptyInv'
<1>1. ASSUME NEW kind \in {"album", "artist", "resolve", "replace"}, NEW as \in SUBSET Albums,
             NEW reading \in {{}} \cup {{t} : t \in Tracks}, StartTrashing(kind, as, reading)
      PROVE  EmptyInv'
  <2>1. op'.pc = "next"
    BY <1>1, StartTrashingDoes DEF New
  <2>q. QED
    BY <2>1 DEF EmptyInv
<1>2. ASSUME NEW a \in Albums, NextAlbum(a)
      PROVE  EmptyInv'
  BY <1>2, NextAlbumDoes, IdlesPc, HomeAssumption DEF NextAlbum, disk, db, env, EmptyInv,
     Keeps, Answered, New, TypeOK, Files
<1>3. ASSUME NEW n \in Names, Claim(n)
      PROVE  EmptyInv'
  BY <1>3, ClaimDoes, IdlesPc, HomeAssumption DEF Claim, disk, db, env, EmptyInv, Keeps,
     Answered, New, TypeOK, Files
<1>4. ASSUME NEW t \in Tracks, MoveTrack(t)
      PROVE  EmptyInv'
  BY <1>4, MoveTrackDoes, IdlesPc, HomeAssumption DEF MoveTrack, disk, db, env, EmptyInv,
     Keeps, Answered, New, TypeOK, Files
<1>5. ASSUME Check
      PROVE  EmptyInv'
  BY <1>5, CheckDoes, IdlesPc, HomeAssumption DEF Check, disk, db, env, EmptyInv, Keeps,
     Answered, New, TypeOK, Files
<1>6. ASSUME RecordAlbum
      PROVE  EmptyInv'
  BY <1>6, RecordAlbumDoes, IdlesPc, HomeAssumption DEF RecordAlbum, disk, db, env, EmptyInv,
     Keeps, Answered, New, TypeOK, Files
<1>7. ASSUME RemoveRows
      PROVE  EmptyInv'
  BY <1>7, RemoveRowsDoes, IdlesPc, HomeAssumption DEF RemoveRows, disk, db, env, EmptyInv,
     Keeps, Answered, New, TypeOK, Files
<1>8. ASSUME FinishTrashing
      PROVE  EmptyInv'
  BY <1>8, FinishTrashingDoes, IdlesPc, HomeAssumption DEF FinishTrashing, disk, db, env,
     EmptyInv, Keeps, Answered, New, TypeOK, Files
<1>9. ASSUME NEW h \in Husks, StartSweep(h)
      PROVE  EmptyInv'
  BY <1>9, StartSweepDoes, IdlesPc, HomeAssumption DEF StartSweep, disk, db, env, EmptyInv,
     Keeps, Answered, New, TypeOK, Files
<1>10. ASSUME NEW h \in Husks, NEW n \in Names, SweepFolder(h, n)
      PROVE  EmptyInv'
  BY <1>10, SweepFolderDoes, IdlesPc, HomeAssumption DEF SweepFolder, disk, db, env, EmptyInv,
     Keeps, Answered, New, TypeOK, Files
<1>11. ASSUME StartReset
      PROVE  EmptyInv'
  BY <1>11, StartResetDoes, IdlesPc, HomeAssumption DEF StartReset, disk, db, env, EmptyInv,
     Keeps, Answered, New, TypeOK, Files
<1>12. ASSUME NEW n \in Names, ClaimReset(n)
      PROVE  EmptyInv'
  <2>1. op'.pc = "reset move" /\ op'.name = n /\ op'.left = op.left /\ UNCHANGED at
    BY <1>12, ClaimResetDoes DEF ClaimReset
  <2>2. Inside(n) = {}
    BY <1>12, NoneAssumption DEF ClaimReset, Free, RecordInv, EntriesInv
  <2>q. QED
    BY <1>12, <2>1, <2>2 DEF ClaimReset, EmptyInv, Inside
<1>13. ASSUME NEW i \in Images, MoveImage(i)
      PROVE  EmptyInv'
  <2>1. /\ i \in Files /\ \A j \in op.left : "home" \in at[j]
        /\ ~op.moved => \A x \in Files : op.name \in at[x] => "home" \in at[x]
    BY <1>13 DEF MoveImage, EmptyInv, Files
  <2>2. op'.pc = "reset move" /\ op'.name = op.name
    BY <1>13, MoveImageDoes
  <2>3. CASE /\ op'.left = op.left \ {i} /\ op'.moved
             /\ at' = [at EXCEPT ![i] = (at[i] \ {"home"}) \cup {op.name}]
    <3>1. \A j \in op'.left : at'[j] = at[j]
      BY <2>3, LeftType DEF TypeOK
    <3>q. QED
      BY <2>1, <2>2, <2>3, <3>1 DEF EmptyInv
  <2>4. CASE /\ op'.left = {} /\ op'.moved = op.moved
             /\ \/ at' = [at EXCEPT ![i] = at[i] \cup {op.name}]
                \/ at' = [at EXCEPT ![i] = at[i]]
    <3>1. \A x \in Files : at[x] \subseteq at'[x] /\ (x # i => at'[x] = at[x])
      BY <2>4 DEF TypeOK
    <3>2. "home" \in at'[i]
      BY <1>13, <2>1, <3>1 DEF MoveImage
    <3>q. QED
      BY <2>1, <2>2, <2>4, <3>1, <3>2 DEF EmptyInv
  <2>q. QED
    BY <1>13, <2>3, <2>4, MoveImageDoes
<1>14. ASSUME EndReset
      PROVE  EmptyInv'
  BY <1>14, EndResetDoes, IdlesPc, HomeAssumption DEF EndReset, disk, db, env, EmptyInv, Keeps,
     Answered, New, TypeOK, Files
<1>15. ASSUME RecordFiles
      PROVE  EmptyInv'
  BY <1>15, RecordFilesDoes, IdlesPc, HomeAssumption DEF RecordFiles, disk, db, env, EmptyInv,
     Keeps, Answered, New, TypeOK, Files
<1>16. ASSUME NEW n \in Names, StartRestore(n)
      PROVE  EmptyInv'
  BY <1>16, StartRestoreDoes, IdlesPc, HomeAssumption DEF StartRestore, disk, db, env,
     EmptyInv, Keeps, Answered, New, TypeOK, Files
<1>17. ASSUME MoveBack
      PROVE  EmptyInv'
  BY <1>17, MoveBackDoes, IdlesPc, HomeAssumption DEF MoveBack, disk, db, env, EmptyInv, Keeps,
     Answered, New, TypeOK, Files
<1>18. ASSUME ImportInPlace
      PROVE  EmptyInv'
  BY <1>18, ImportInPlaceDoes, IdlesPc, HomeAssumption DEF ImportInPlace, disk, db, env,
     EmptyInv, Keeps, Answered, New, TypeOK, Files
<1>19. ASSUME ReturnToTrash
      PROVE  EmptyInv'
  BY <1>19, ReturnToTrashDoes, IdlesPc, HomeAssumption DEF ReturnToTrash, disk, db, env,
     EmptyInv, Keeps, Answered, New, TypeOK, Files
<1>20. ASSUME ImportEntry
      PROVE  EmptyInv'
  BY <1>20, ImportEntryDoes, IdlesPc, HomeAssumption DEF ImportEntry, disk, db, env, EmptyInv,
     Keeps, Answered, New, TypeOK, Files
<1>21. ASSUME NEW t \in Tracks, LandTrack(t)
      PROVE  EmptyInv'
  BY <1>21, LandTrackDoes, IdlesPc, HomeAssumption DEF LandTrack, disk, db, env, EmptyInv,
     Keeps, Answered, New, TypeOK, Files
<1>22. ASSUME EndImport
      PROVE  EmptyInv'
  BY <1>22, EndImportDoes, IdlesPc, HomeAssumption DEF EndImport, disk, db, env, EmptyInv,
     Keeps, Answered, New, TypeOK, Files
<1>23. ASSUME NEW ns \in SUBSET Names, StartEmpty(ns)
      PROVE  EmptyInv'
  <2>1. op'.pc = "empty" /\ op'.todo = {n \in ns : \A t \in Tracks : rows[t] # n}
    BY <1>23, StartEmptyDoes DEF New
  <2>2. UNCHANGED rows
    BY <1>23 DEF StartEmpty, db
  <2>q. QED
    BY <2>1, <2>2 DEF EmptyInv
<1>24. ASSUME NEW n \in Names, NEW x \in Files, EmptyFile(n, x)
      PROVE  EmptyInv'
  BY <1>24, EmptyFileDoes, IdlesPc, HomeAssumption DEF EmptyFile, disk, db, env, EmptyInv,
     Keeps, Answered, New, TypeOK, Files
<1>25. ASSUME NEW n \in Names, EmptyEntry(n)
      PROVE  EmptyInv'
  BY <1>25, EmptyEntryDoes, IdlesPc, HomeAssumption DEF EmptyEntry, disk, db, env, EmptyInv,
     Keeps, Answered, New, TypeOK, Files
<1>26. ASSUME EndEmpty
      PROVE  EmptyInv'
  BY <1>26, EndEmptyDoes, IdlesPc, HomeAssumption DEF EndEmpty, disk, db, env, EmptyInv, Keeps,
     Answered, New, TypeOK, Files
<1>27. ASSUME Close
      PROVE  EmptyInv'
  BY <1>27, IdlesPc, HomeAssumption DEF Close, disk, db, env, EmptyInv, Keeps, Answered, New,
     TypeOK, Files
<1>28. ASSUME Crash
      PROVE  EmptyInv'
  BY <1>28, IdlesPc, HomeAssumption DEF Crash, disk, db, env, EmptyInv, Keeps, Answered, New,
     TypeOK, Files
<1>29. ASSUME NEW s \in {"up", "down", "stray"}, ShareTurns(s)
      PROVE  EmptyInv'
  <2>1. /\ op'.pc = op.pc /\ op'.todo = op.todo /\ op'.left = op.left /\ op'.name = op.name
        /\ op'.moved = op.moved
    BY <1>29, ShareTurnsDoes DEF ShapeInv
  <2>2. UNCHANGED <<at, rows>>
    BY <1>29 DEF ShareTurns, disk, db
  <2>q. QED
    BY <2>1, <2>2 DEF EmptyInv
<1>30. ASSUME NEW n \in Names, StrangerPuts(n)
      PROVE  EmptyInv'
  BY <1>30, IdlesPc, HomeAssumption DEF StrangerPuts, disk, db, env, EmptyInv, Keeps, Answered,
     New, TypeOK, Files
<1>31. ASSUME NEW n \in Names, StrangerTakes(n)
      PROVE  EmptyInv'
  BY <1>31, IdlesPc, HomeAssumption DEF StrangerTakes, disk, db, env, EmptyInv, Keeps,
     Answered, New, TypeOK, Files
<1>32. ASSUME UNCHANGED vars
      PROVE  EmptyInv'
  BY <1>32, IdlesPc, HomeAssumption DEF vars, EmptyInv
<1>q. QED
  BY <1>1, <1>2, <1>3, <1>4, <1>5, <1>6, <1>7, <1>8, <1>9, <1>10, <1>11, <1>12, <1>13, <1>14,
     <1>15, <1>16, <1>17, <1>18, <1>19, <1>20, <1>21, <1>22, <1>23, <1>24, <1>25, <1>26, <1>27,
     <1>28, <1>29, <1>30, <1>31, <1>32 DEF Next, TrashStep, SweepStep, ResetStep, RestoreStep,
     EmptyStep, OutsideStep, Files

\* A file whose last copy goes was in an entry that is emptied, and listed by no row.
Destroyed(x) == at[x] # {} /\ at'[x] = {} /\ op' # op
Emptied(x) == op.kind = "empty" /\ \E n \in Names : at[x] = {n} /\ (x \in Tracks => rows[x] # n)

\* Only an emptying takes the last copy of a file.
LEMMA DestroyedOfStep ==
  ASSUME TypeOK, op \in Ops, ShapeInv, RecordInv, EmptyInv, [Next]_vars
  PROVE  \A x \in Files : Destroyed(x) => Emptied(x)
<1>1. ASSUME NEW kind \in {"album", "artist", "resolve", "replace"}, NEW as \in SUBSET Albums,
             NEW reading \in {{}} \cup {{t} : t \in Tracks}, StartTrashing(kind, as, reading)
      PROVE  \A x \in Files : Destroyed(x) => Emptied(x)
  BY <1>1, StartTrashingDoes DEF StartTrashing, disk, db, env, Destroyed, Emptied, EmptyInv,
     TypeOK, ShapeInv, BackPcs
<1>2. ASSUME NEW a \in Albums, NextAlbum(a)
      PROVE  \A x \in Files : Destroyed(x) => Emptied(x)
  BY <1>2, NextAlbumDoes DEF NextAlbum, disk, db, env, Destroyed, Emptied, EmptyInv, TypeOK,
     ShapeInv, BackPcs
<1>3. ASSUME NEW n \in Names, Claim(n)
      PROVE  \A x \in Files : Destroyed(x) => Emptied(x)
  BY <1>3, ClaimDoes DEF Claim, disk, db, env, Destroyed, Emptied, EmptyInv, TypeOK, ShapeInv,
     BackPcs
<1>4. ASSUME NEW t \in Tracks, MoveTrack(t)
      PROVE  \A x \in Files : Destroyed(x) => Emptied(x)
  <2>1. SUFFICES ASSUME NEW x \in Files, at[x] # {} PROVE at'[x] # {}
    BY DEF Destroyed
  <2>2. t \in Files
    BY DEF Files
  <2>3. \/ at' = [at EXCEPT ![t] = (at[t] \ {rows[t]}) \cup {op.name}]
        \/ at' = [at EXCEPT ![t] = at[t] \cup {op.name}]
        \/ at' = [at EXCEPT ![t] = at[t]]
        \/ UNCHANGED at
    BY <1>4, MoveTrackDoes
  <2>q. QED
    BY <2>1, <2>2, <2>3 DEF TypeOK
<1>5. ASSUME Check
      PROVE  \A x \in Files : Destroyed(x) => Emptied(x)
  BY <1>5, CheckDoes DEF Check, disk, db, env, Destroyed, Emptied, EmptyInv, TypeOK, ShapeInv,
     BackPcs
<1>6. ASSUME RecordAlbum
      PROVE  \A x \in Files : Destroyed(x) => Emptied(x)
  BY <1>6, RecordAlbumDoes DEF RecordAlbum, disk, db, env, Destroyed, Emptied, EmptyInv,
     TypeOK, ShapeInv, BackPcs
<1>7. ASSUME RemoveRows
      PROVE  \A x \in Files : Destroyed(x) => Emptied(x)
  BY <1>7, RemoveRowsDoes DEF RemoveRows, disk, db, env, Destroyed, Emptied, EmptyInv, TypeOK,
     ShapeInv, BackPcs
<1>8. ASSUME FinishTrashing
      PROVE  \A x \in Files : Destroyed(x) => Emptied(x)
  BY <1>8, FinishTrashingDoes DEF FinishTrashing, disk, db, env, Destroyed, Emptied, EmptyInv,
     TypeOK, ShapeInv, BackPcs
<1>9. ASSUME NEW h \in Husks, StartSweep(h)
      PROVE  \A x \in Files : Destroyed(x) => Emptied(x)
  BY <1>9, StartSweepDoes DEF StartSweep, disk, db, env, Destroyed, Emptied, EmptyInv, TypeOK,
     ShapeInv, BackPcs
<1>10. ASSUME NEW h \in Husks, NEW n \in Names, SweepFolder(h, n)
      PROVE  \A x \in Files : Destroyed(x) => Emptied(x)
  <2>1. SUFFICES ASSUME NEW x \in Files, at[x] # {} PROVE at'[x] # {}
    BY DEF Destroyed
  <2>2. h \in Files /\ \E p \in SUBSET Places : at' = [at EXCEPT ![h] = p \cup {n}]
    <3>1. CASE Put(h, (at[h] \ {"home"}) \cup {n})
      BY <3>1 DEF Put, Files, TypeOK
    <3>2. CASE Put(h, at[h] \cup {n})
      BY <3>2 DEF Put, Files, TypeOK
    <3>q. QED
      BY <1>10, <3>1, <3>2 DEF SweepFolder
  <2>q. QED
    BY <2>1, <2>2 DEF TypeOK
<1>11. ASSUME StartReset
      PROVE  \A x \in Files : Destroyed(x) => Emptied(x)
  BY <1>11, StartResetDoes DEF StartReset, disk, db, env, Destroyed, Emptied, EmptyInv, TypeOK,
     ShapeInv, BackPcs
<1>12. ASSUME NEW n \in Names, ClaimReset(n)
      PROVE  \A x \in Files : Destroyed(x) => Emptied(x)
  BY <1>12, ClaimResetDoes DEF ClaimReset, disk, db, env, Destroyed, Emptied, EmptyInv, TypeOK,
     ShapeInv, BackPcs
<1>13. ASSUME NEW i \in Images, MoveImage(i)
      PROVE  \A x \in Files : Destroyed(x) => Emptied(x)
  <2>1. SUFFICES ASSUME NEW x \in Files, at[x] # {} PROVE at'[x] # {}
    BY DEF Destroyed
  <2>2. /\ i \in Files
        /\ \/ at' = [at EXCEPT ![i] = (at[i] \ {"home"}) \cup {op.name}]
           \/ at' = [at EXCEPT ![i] = at[i] \cup {op.name}]
           \/ at' = [at EXCEPT ![i] = at[i]]
    BY <1>13, MoveImageDoes DEF Files
  <2>q. QED
    BY <2>1, <2>2 DEF TypeOK
<1>14. ASSUME EndReset
      PROVE  \A x \in Files : Destroyed(x) => Emptied(x)
  <2>1. SUFFICES ASSUME NEW x \in Files, at[x] # {} PROVE at'[x] # {}
    BY DEF Destroyed
  <2>2. CASE UNCHANGED disk
    BY <2>1, <2>2 DEF disk
  <2>3. CASE ~op.moved /\ at' = [y \in Files |-> at[y] \ {op.name}]
    <3>1. op.name \in Names /\ (op.name \in at[x] => "home" \in at[x])
      BY <1>14, <2>3 DEF EndReset, EmptyInv, ShapeInv
    <3>q. QED
      BY <2>1, <2>3, <3>1, HomeAssumption
  <2>q. QED
    BY <1>14, <2>2, <2>3, EndResetDoes
<1>15. ASSUME RecordFiles
      PROVE  \A x \in Files : Destroyed(x) => Emptied(x)
  BY <1>15, RecordFilesDoes DEF RecordFiles, disk, db, env, Destroyed, Emptied, EmptyInv,
     TypeOK, ShapeInv, BackPcs
<1>16. ASSUME NEW n \in Names, StartRestore(n)
      PROVE  \A x \in Files : Destroyed(x) => Emptied(x)
  BY <1>16, StartRestoreDoes DEF StartRestore, disk, db, env, Destroyed, Emptied, EmptyInv,
     TypeOK, ShapeInv, BackPcs
<1>17. ASSUME MoveBack
      PROVE  \A x \in Files : Destroyed(x) => Emptied(x)
  <2>1. SUFFICES ASSUME NEW x \in Files, at[x] # {} PROVE at'[x] # {}
    BY DEF Destroyed
  <2>2. CASE at' = [y \in Files |-> IF op.name \in at[y]
                                 THEN (at[y] \ {op.name}) \cup {"home"} ELSE at[y]]
    BY <2>1, <2>2
  <2>3. CASE \E copied \in SUBSET Inside(op.name) :
               at' = [y \in Files |-> IF y \in copied THEN at[y] \cup {"home"} ELSE at[y]]
    BY <2>1, <2>3
  <2>q. QED
    BY <1>17, <2>2, <2>3, MoveBackDoes
<1>18. ASSUME ImportInPlace
      PROVE  \A x \in Files : Destroyed(x) => Emptied(x)
  BY <1>18, ImportInPlaceDoes DEF ImportInPlace, disk, db, env, Destroyed, Emptied, EmptyInv,
     TypeOK, ShapeInv, BackPcs
<1>19. ASSUME ReturnToTrash
      PROVE  \A x \in Files : Destroyed(x) => Emptied(x)
  <2>1. SUFFICES ASSUME NEW x \in Files, at[x] # {} PROVE at'[x] # {}
    BY DEF Destroyed
  <2>2. CASE MoveToTrash(op.name, op.left)
    BY <2>1, <2>2 DEF MoveToTrash
  <2>3. CASE UNCHANGED disk
    BY <2>1, <2>3 DEF disk
  <2>q. QED
    BY <1>19, <2>2, <2>3 DEF ReturnToTrash
<1>20. ASSUME ImportEntry
      PROVE  \A x \in Files : Destroyed(x) => Emptied(x)
  BY <1>20, ImportEntryDoes DEF ImportEntry, disk, db, env, Destroyed, Emptied, EmptyInv,
     TypeOK, ShapeInv, BackPcs
<1>21. ASSUME NEW t \in Tracks, LandTrack(t)
      PROVE  \A x \in Files : Destroyed(x) => Emptied(x)
  BY <1>21, LandTrackDoes DEF LandTrack, disk, db, env, Destroyed, Emptied, EmptyInv, TypeOK,
     ShapeInv, BackPcs
<1>22. ASSUME EndImport
      PROVE  \A x \in Files : Destroyed(x) => Emptied(x)
  BY <1>22, EndImportDoes DEF EndImport, disk, db, env, Destroyed, Emptied, EmptyInv, TypeOK,
     ShapeInv, BackPcs
<1>23. ASSUME NEW ns \in SUBSET Names, StartEmpty(ns)
      PROVE  \A x \in Files : Destroyed(x) => Emptied(x)
  BY <1>23, StartEmptyDoes DEF StartEmpty, disk, db, env, Destroyed, Emptied, EmptyInv, TypeOK,
     ShapeInv, BackPcs
<1>24. ASSUME NEW n \in Names, NEW x \in Files, EmptyFile(n, x)
      PROVE  \A y \in Files : Destroyed(y) => Emptied(y)
  <2>1. SUFFICES ASSUME NEW y \in Files, at[y] # {}, at'[y] = {} PROVE Emptied(y)
    BY DEF Destroyed
  <2>2. /\ op.kind = "empty" /\ n \in op.todo /\ n \in at[x]
        /\ \A t \in Tracks : rows[t] # n
    BY <1>24 DEF EmptyFile, EmptyInv, ShapeInv
  <2>3. y = x /\ at[x] = {n}
    BY <1>24, <2>1, <2>2, EmptyFileDoes DEF TypeOK
  <2>q. QED
    BY <2>2, <2>3 DEF Emptied
<1>25. ASSUME NEW n \in Names, EmptyEntry(n)
      PROVE  \A x \in Files : Destroyed(x) => Emptied(x)
  BY <1>25, EmptyEntryDoes DEF EmptyEntry, disk, db, env, Destroyed, Emptied, EmptyInv, TypeOK,
     ShapeInv, BackPcs
<1>26. ASSUME EndEmpty
      PROVE  \A x \in Files : Destroyed(x) => Emptied(x)
  BY <1>26, EndEmptyDoes DEF EndEmpty, disk, db, env, Destroyed, Emptied, EmptyInv, TypeOK,
     ShapeInv, BackPcs
<1>27. ASSUME Close
      PROVE  \A x \in Files : Destroyed(x) => Emptied(x)
  BY <1>27 DEF Close, disk, db, env, Destroyed, Emptied, EmptyInv, TypeOK, ShapeInv, BackPcs
<1>28. ASSUME Crash
      PROVE  \A x \in Files : Destroyed(x) => Emptied(x)
  BY <1>28 DEF Crash, disk, db, env, Destroyed, Emptied, EmptyInv, TypeOK, ShapeInv, BackPcs
<1>29. ASSUME NEW s \in {"up", "down", "stray"}, ShareTurns(s)
      PROVE  \A x \in Files : Destroyed(x) => Emptied(x)
  BY <1>29, ShareTurnsDoes DEF ShareTurns, disk, db, env, Destroyed, Emptied, EmptyInv, TypeOK,
     ShapeInv, BackPcs
<1>30. ASSUME NEW n \in Names, StrangerPuts(n)
      PROVE  \A x \in Files : Destroyed(x) => Emptied(x)
  BY <1>30 DEF StrangerPuts, disk, db, env, Destroyed, Emptied, EmptyInv, TypeOK, ShapeInv,
     BackPcs
<1>31. ASSUME NEW n \in Names, StrangerTakes(n)
      PROVE  \A x \in Files : Destroyed(x) => Emptied(x)
  BY <1>31 DEF StrangerTakes, Outside, disk, db, env, Destroyed, Emptied, EmptyInv, TypeOK,
     ShapeInv, BackPcs
<1>32. ASSUME UNCHANGED vars
      PROVE  \A x \in Files : Destroyed(x) => Emptied(x)
  BY <1>32 DEF vars, Destroyed
<1>q. QED
  BY <1>1, <1>2, <1>3, <1>4, <1>5, <1>6, <1>7, <1>8, <1>9, <1>10, <1>11, <1>12, <1>13, <1>14,
     <1>15, <1>16, <1>17, <1>18, <1>19, <1>20, <1>21, <1>22, <1>23, <1>24, <1>25, <1>26, <1>27,
     <1>28, <1>29, <1>30, <1>31, <1>32 DEF Next, TrashStep, SweepStep, ResetStep, RestoreStep,
     EmptyStep, OutsideStep, Files

-----------------------------------------------------------------------------
(* What is left in the music folder.                                       *)

\* A folder on its way back holds no tracks.
LEMMA BackIsHusks ==
  ASSUME TypeOK, op \in Ops, ShapeInv, RecordInv, op.pc \in BackPcs
  PROVE  Inside(op.name) \subseteq Husks
<1>1. op.name \in Names /\ Recorded(op.name) /\ ~OfAnother(op.name)
      /\ record[KeyOf[op.name]].of = op.left /\ op.left \subseteq Husks
  BY DEF ShapeInv, RecordInv, ContainerInv
<1>2. RecordOf(op.name) = record[KeyOf[op.name]] /\ RecordOf(op.name) # None
  BY <1>1 DEF RecordOf, Recorded
<1>q. QED
  BY <1>1, <1>2 DEF RecordInv, EntriesInv, RecordIsOfEntry

\* A track that is not in the music folder, or has been excused, may lose its row.
LEMMA GoneIsLost ==
  ASSUME LeaveInv, NEW t \in Tracks, ~Exists(t), share = "up"
  PROVE  Lost(t, None)
BY NoneAssumption DEF LeaveInv, LostInv, Lost, Exists

\* So may one whose row names an entry.
LEMMA MovedIsLost ==
  ASSUME LeaveInv, NEW t \in Tracks, rows[t] \in Names
  PROVE  Lost(t, None)
BY HomeAssumption DEF LeaveInv, LostInv, Lost

\* A row that goes leaves no file behind.
LEMMA LostOfStep ==
  ASSUME TypeOK, op \in Ops, ShapeInv, RecordInv, LeaveInv, [Next]_vars
  PROVE  LostInv'
<1>1. ASSUME NEW kind \in {"album", "artist", "resolve", "replace"}, NEW as \in SUBSET Albums,
             NEW reading \in {{}} \cup {{t} : t \in Tracks}, StartTrashing(kind, as, reading)
      PROVE  LostInv'
  BY <1>1, StartTrashingDoes, IdlesPc DEF StartTrashing, disk, db, env, LeaveInv, LostInv,
     Lost, Keeps, Answered
<1>2. ASSUME NEW a \in Albums, NextAlbum(a)
      PROVE  LostInv'
  BY <1>2, NextAlbumDoes, IdlesPc DEF NextAlbum, disk, db, env, LeaveInv, LostInv, Lost, Keeps,
     Answered
<1>3. ASSUME NEW n \in Names, Claim(n)
      PROVE  LostInv'
  BY <1>3, ClaimDoes, IdlesPc DEF Claim, disk, db, env, LeaveInv, LostInv, Lost, Keeps,
     Answered
<1>4. ASSUME NEW t \in Tracks, MoveTrack(t)
      PROVE  LostInv'
  <2>1. op.name # "home" /\ UNCHANGED excused /\ (undo' = None \/ undo' = undo)
    BY <1>4, MoveTrackDoes, HomeAssumption DEF MoveTrack, ShapeInv, Keeps, Answered
  <2>2. \/ /\ at' = [at EXCEPT ![t] = (at[t] \ {rows[t]}) \cup {op.name}]
           /\ rows' = [rows EXCEPT ![t] = op.name]
        \/ /\ UNCHANGED rows
           /\ \/ at' = [at EXCEPT ![t] = at[t] \cup {op.name}]
              \/ at' = [at EXCEPT ![t] = at[t]]
              \/ UNCHANGED at
    BY <1>4, MoveTrackDoes
  <2>3. t \in Files /\ Tracks \subseteq Files
    BY DEF Files
  <2>4. ASSUME NEW y \in Tracks PROVE "home" \in at'[y] => "home" \in at[y]
    BY <2>1, <2>2, <2>3 DEF TypeOK
  <2>5. ASSUME NEW y \in Tracks, rows'[y] # "home", "home" \in at'[y] PROVE y \in excused
    <3>1. CASE rows[y] # "home"
      BY <2>4, <2>5, <3>1 DEF LeaveInv, LostInv, Lost
    <3>2. CASE rows[y] = "home"
      <4>1. /\ y = t /\ at' = [at EXCEPT ![t] = (at[t] \ {rows[t]}) \cup {op.name}]
        BY <2>2, <2>5, <3>2 DEF TypeOK, Rows
      <4>2. "home" \notin at'[y]
        BY <2>1, <2>3, <3>2, <4>1 DEF TypeOK
      <4>q. QED
        BY <2>5, <4>2
    <3>q. QED
      BY <3>1, <3>2
  <2>q. QED
    BY <2>1, <2>4, <2>5 DEF LeaveInv, LostInv, Lost
<1>5. ASSUME Check
      PROVE  LostInv'
  BY <1>5, CheckDoes, IdlesPc DEF Check, disk, db, env, LeaveInv, LostInv, Lost, Keeps,
     Answered
<1>6. ASSUME RecordAlbum
      PROVE  LostInv'
  BY <1>6, RecordAlbumDoes, IdlesPc DEF RecordAlbum, disk, db, env, LeaveInv, LostInv, Lost,
     Keeps, Answered
<1>7. ASSUME RemoveRows
      PROVE  LostInv'
  <2>1. CASE /\ rows' = [t \in Tracks |-> IF AlbumOf[t] = op.album THEN None ELSE rows[t]]
             /\ excused \subseteq excused' /\ undo' = undo
             /\ (op.misled \/ Misses => Items(op.album) \subseteq excused')
    <3>1. UNCHANGED at /\ op.pc = "remove"
      BY <1>7 DEF RemoveRows, disk
    <3>2. ASSUME NEW y \in Tracks, AlbumOf[y] = op.album, "home" \in at[y] PROVE y \in excused'
      <4>1. CASE rows[y] = None
        BY <2>1, <3>2, <4>1, NoneAssumption DEF LeaveInv, LostInv, Lost
      <4>2. CASE rows[y] # None
        <5>1. y \in Items(op.album)
          BY <3>2, <4>2 DEF Items
        <5>q. QED
          BY <2>1, <3>1, <3>2, <5>1, NoneAssumption DEF LeaveInv, PassInv, Lost
      <4>q. QED
        BY <4>1, <4>2
    <3>q. QED
      BY <2>1, <3>1, <3>2 DEF LeaveInv, LostInv, Lost
  <2>2. CASE Answered /\ UNCHANGED <<rows, excused>>
    BY <1>7, <2>2 DEF RemoveRows, disk, Answered, LeaveInv, LostInv, Lost
  <2>q. QED
    BY <1>7, <2>1, <2>2, RemoveRowsDoes
<1>8. ASSUME FinishTrashing
      PROVE  LostInv'
  BY <1>8, FinishTrashingDoes, IdlesPc DEF FinishTrashing, disk, db, env, LeaveInv, LostInv,
     Lost, Keeps, Answered
<1>9. ASSUME NEW h \in Husks, StartSweep(h)
      PROVE  LostInv'
  BY <1>9, StartSweepDoes, IdlesPc DEF StartSweep, disk, db, env, LeaveInv, LostInv, Lost,
     Keeps, Answered
<1>10. ASSUME NEW h \in Husks, NEW n \in Names, SweepFolder(h, n)
      PROVE  LostInv'
  <2>1. UNCHANGED rows /\ (undo' = None \/ undo' = undo) /\ UNCHANGED excused
    BY <1>10, SweepFolderDoes DEF SweepFolder, Keeps, Answered, db, env
  <2>2. ASSUME NEW y \in Tracks PROVE "home" \in at'[y] => "home" \in at[y]
    <3>1. \/ at' = [at EXCEPT ![h] = (at[h] \ {"home"}) \cup {n}]
          \/ at' = [at EXCEPT ![h] = at[h] \cup {n}]
      BY <1>10 DEF SweepFolder, Put
    <3>2. h # y /\ h \in Files /\ y \in Files
      BY FilesAssumption DEF Files
    <3>q. QED
      BY <3>1, <3>2 DEF TypeOK
  <2>q. QED
    BY <2>1, <2>2 DEF LeaveInv, LostInv, Lost
<1>11. ASSUME StartReset
      PROVE  LostInv'
  BY <1>11, StartResetDoes, IdlesPc DEF StartReset, disk, db, env, LeaveInv, LostInv, Lost,
     Keeps, Answered
<1>12. ASSUME NEW n \in Names, ClaimReset(n)
      PROVE  LostInv'
  BY <1>12, ClaimResetDoes, IdlesPc DEF ClaimReset, disk, db, env, LeaveInv, LostInv, Lost,
     Keeps, Answered
<1>13. ASSUME NEW i \in Images, MoveImage(i)
      PROVE  LostInv'
  <2>1. UNCHANGED rows /\ (undo' = None \/ undo' = undo) /\ UNCHANGED excused
    BY <1>13 DEF MoveImage, db, env
  <2>2. ASSUME NEW y \in Tracks PROVE "home" \in at'[y] => "home" \in at[y]
    <3>1. \/ at' = [at EXCEPT ![i] = (at[i] \ {"home"}) \cup {op.name}]
          \/ at' = [at EXCEPT ![i] = at[i] \cup {op.name}]
          \/ at' = [at EXCEPT ![i] = at[i]]
      BY <1>13, MoveImageDoes
    <3>2. i # y /\ i \in Files /\ y \in Files
      BY FilesAssumption DEF Files
    <3>q. QED
      BY <3>1, <3>2 DEF TypeOK
  <2>q. QED
    BY <2>1, <2>2 DEF LeaveInv, LostInv, Lost
<1>14. ASSUME EndReset
      PROVE  LostInv'
  <2>1. UNCHANGED rows /\ (undo' = None \/ undo' = undo) /\ UNCHANGED excused
    BY <1>14, EndResetDoes DEF EndReset, Keeps, Answered, db, env
  <2>2. ASSUME NEW y \in Tracks PROVE "home" \in at'[y] => "home" \in at[y]
    BY <1>14, EndResetDoes DEF disk, Files
  <2>q. QED
    BY <2>1, <2>2 DEF LeaveInv, LostInv, Lost
<1>15. ASSUME RecordFiles
      PROVE  LostInv'
  BY <1>15, RecordFilesDoes, IdlesPc DEF RecordFiles, disk, db, env, LeaveInv, LostInv, Lost,
     Keeps, Answered
<1>16. ASSUME NEW n \in Names, StartRestore(n)
      PROVE  LostInv'
  BY <1>16, StartRestoreDoes, IdlesPc DEF StartRestore, disk, db, env, LeaveInv, LostInv, Lost,
     Keeps, Answered
<1>17. ASSUME MoveBack
      PROVE  LostInv'
  <2>1. UNCHANGED rows /\ (undo' = None \/ undo' = undo) /\ UNCHANGED excused
    BY <1>17, MoveBackDoes DEF MoveBack, Keeps, Answered, db, env
  <2>2. ASSUME NEW y \in Tracks PROVE "home" \in at'[y] => "home" \in at[y]
    <3>1. y \in Files /\ y \notin Inside(op.name)
      BY <1>17, BackIsHusks, FilesAssumption DEF MoveBack, BackPcs, Files
    <3>2. op.name \notin at[y]
      BY <3>1 DEF Inside
    <3>q. QED
      BY <1>17, <3>1, <3>2, MoveBackDoes
  <2>q. QED
    BY <2>1, <2>2 DEF LeaveInv, LostInv, Lost
<1>18. ASSUME ImportInPlace
      PROVE  LostInv'
  BY <1>18, ImportInPlaceDoes, IdlesPc DEF ImportInPlace, disk, db, env, LeaveInv, LostInv,
     Lost, Keeps, Answered
<1>19. ASSUME ReturnToTrash
      PROVE  LostInv'
  <2>1. UNCHANGED rows /\ (undo' = None \/ undo' = undo) /\ UNCHANGED excused
    BY <1>19, ReturnToTrashDoes DEF ReturnToTrash, Answered, db, env
  <2>2. ASSUME NEW y \in Tracks PROVE "home" \in at'[y] => "home" \in at[y]
    <3>1. op.left \subseteq Husks /\ y \notin op.left /\ op.name # "home"
      BY <1>19, FilesAssumption, HomeAssumption DEF ReturnToTrash, ShapeInv, RecordInv,
         ContainerInv, BackPcs
    <3>2. CASE MoveToTrash(op.name, op.left)
      BY <3>1, <3>2 DEF MoveToTrash, Files
    <3>3. CASE UNCHANGED disk
      BY <3>3 DEF disk
    <3>q. QED
      BY <1>19, <3>2, <3>3 DEF ReturnToTrash
  <2>q. QED
    BY <2>1, <2>2 DEF LeaveInv, LostInv, Lost
<1>20. ASSUME ImportEntry
      PROVE  LostInv'
  <2>1. undo = None /\ undo' = None /\ UNCHANGED <<excused, at>>
    BY <1>20, ImportEntryDoes DEF ImportEntry, ShapeInv, TrashPcs, Keeps, Answered, disk
  <2>2. CASE /\ rows' = [t \in Tracks |-> IF t \in op.left THEN op.name ELSE rows[t]]
             /\ \A t \in op.left : rows[t] = None
    BY <2>1, <2>2, NoneAssumption DEF LeaveInv, LostInv, Lost
  <2>3. CASE UNCHANGED rows
    BY <2>1, <2>3 DEF LeaveInv, LostInv, Lost
  <2>q. QED
    BY <1>20, <2>2, <2>3, ImportEntryDoes
<1>21. ASSUME NEW t \in Tracks, LandTrack(t)
      PROVE  LostInv'
  <2>1. undo = None /\ undo' = None /\ UNCHANGED excused
    BY <1>21, LandTrackDoes DEF LandTrack, ShapeInv, TrashPcs, Keeps, Answered
  <2>2. CASE /\ at' = [at EXCEPT ![t] = (at[t] \ {op.name}) \cup {"home"}]
             /\ rows' = [rows EXCEPT ![t] = "home"]
    <3>1. ASSUME NEW y \in Tracks, rows'[y] # "home" PROVE rows'[y] = rows[y] /\ at'[y] = at[y]
      BY <2>2, <3>1 DEF TypeOK, Rows, Files
    <3>q. QED
      BY <2>1, <3>1 DEF LeaveInv, LostInv, Lost
  <2>3. CASE UNCHANGED <<at, rows>>
    BY <2>1, <2>3 DEF LeaveInv, LostInv, Lost
  <2>q. QED
    BY <1>21, <2>2, <2>3, LandTrackDoes
<1>22. ASSUME EndImport
      PROVE  LostInv'
  BY <1>22, EndImportDoes, IdlesPc DEF EndImport, disk, db, env, LeaveInv, LostInv, Lost,
     Keeps, Answered
<1>23. ASSUME NEW ns \in SUBSET Names, StartEmpty(ns)
      PROVE  LostInv'
  BY <1>23, StartEmptyDoes, IdlesPc DEF StartEmpty, disk, db, env, LeaveInv, LostInv, Lost,
     Keeps, Answered
<1>24. ASSUME NEW n \in Names, NEW x \in Files, EmptyFile(n, x)
      PROVE  LostInv'
  <2>1. UNCHANGED rows /\ (undo' = None \/ undo' = undo) /\ UNCHANGED excused
    BY <1>24 DEF EmptyFile, db, env
  <2>2. ASSUME NEW y \in Tracks PROVE "home" \in at'[y] => "home" \in at[y]
    <3>1. at' = [at EXCEPT ![x] = at[x] \ {n}] \/ UNCHANGED at
      BY <1>24, EmptyFileDoes
    <3>2. y \in Files
      BY DEF Files
    <3>q. QED
      BY <3>1, <3>2 DEF TypeOK
  <2>q. QED
    BY <2>1, <2>2 DEF LeaveInv, LostInv, Lost
<1>25. ASSUME NEW n \in Names, EmptyEntry(n)
      PROVE  LostInv'
  BY <1>25, EmptyEntryDoes, IdlesPc DEF EmptyEntry, disk, db, env, LeaveInv, LostInv, Lost,
     Keeps, Answered
<1>26. ASSUME EndEmpty
      PROVE  LostInv'
  BY <1>26, EndEmptyDoes, IdlesPc DEF EndEmpty, disk, db, env, LeaveInv, LostInv, Lost, Keeps,
     Answered
<1>27. ASSUME Close
      PROVE  LostInv'
  BY <1>27, IdlesPc DEF Close, disk, db, env, LeaveInv, LostInv, Lost, Keeps, Answered
<1>28. ASSUME Crash
      PROVE  LostInv'
  BY <1>28, IdlesPc DEF Crash, disk, db, env, LeaveInv, LostInv, Lost, Keeps, Answered
<1>29. ASSUME NEW s \in {"up", "down", "stray"}, ShareTurns(s)
      PROVE  LostInv'
  BY <1>29, ShareTurnsDoes, IdlesPc DEF ShareTurns, disk, db, env, LeaveInv, LostInv, Lost,
     Keeps, Answered
<1>30. ASSUME NEW n \in Names, StrangerPuts(n)
      PROVE  LostInv'
  BY <1>30, IdlesPc DEF StrangerPuts, disk, db, env, LeaveInv, LostInv, Lost, Keeps, Answered
<1>31. ASSUME NEW n \in Names, StrangerTakes(n)
      PROVE  LostInv'
  <2>1. UNCHANGED rows /\ (undo' = None \/ undo' = undo) /\ UNCHANGED excused
    BY <1>31 DEF StrangerTakes, db, env
  <2>2. ASSUME NEW y \in Tracks PROVE "home" \in at'[y] => "home" \in at[y]
    BY <1>31 DEF StrangerTakes, Files
  <2>q. QED
    BY <2>1, <2>2 DEF LeaveInv, LostInv, Lost
<1>32. ASSUME UNCHANGED vars
      PROVE  LostInv'
  BY <1>32, IdlesPc DEF vars, LeaveInv, LostInv, Lost
<1>q. QED
  BY <1>1, <1>2, <1>3, <1>4, <1>5, <1>6, <1>7, <1>8, <1>9, <1>10, <1>11, <1>12, <1>13, <1>14,
     <1>15, <1>16, <1>17, <1>18, <1>19, <1>20, <1>21, <1>22, <1>23, <1>24, <1>25, <1>26, <1>27,
     <1>28, <1>29, <1>30, <1>31, <1>32 DEF Next, TrashStep, SweepStep, ResetStep, RestoreStep,
     EmptyStep, OutsideStep, Files

\* A step is one of a delete or of the surroundings, or ends outside a delete.
LEMMA ElsewhereOrDelete ==
  ASSUME TypeOK, op \in Ops, ShapeInv, [Next]_vars
  PROVE  \/ \E as \in SUBSET Albums, kind \in {"album", "artist", "resolve", "replace"} :
              \E reading \in {{}} \cup {{t} : t \in Tracks} : StartTrashing(kind, as, reading)
         \/ \E a \in Albums : NextAlbum(a)
         \/ \E n \in Names : Claim(n)
         \/ \E t \in Tracks : MoveTrack(t)
         \/ Check \/ RecordAlbum \/ RemoveRows
         \/ \E s \in {"up", "down", "stray"} : ShareTurns(s)
         \/ \E n \in Names : StrangerPuts(n)
         \/ op'.pc \notin TrashPcs
         \/ UNCHANGED vars
<1>1. ASSUME FinishTrashing
      PROVE  op'.pc \notin TrashPcs
  BY <1>1, FinishTrashingDoes, IdlesPc DEF FinishTrashing, TrashPcs, BackPcs, Keeps, Answered,
     New
<1>2. ASSUME NEW h \in Husks, StartSweep(h)
      PROVE  op'.pc \notin TrashPcs
  BY <1>2, StartSweepDoes, IdlesPc DEF StartSweep, TrashPcs, BackPcs, Keeps, Answered, New
<1>3. ASSUME NEW h \in Husks, NEW n \in Names, SweepFolder(h, n)
      PROVE  op'.pc \notin TrashPcs
  BY <1>3, SweepFolderDoes, IdlesPc DEF SweepFolder, TrashPcs, BackPcs, Keeps, Answered, New
<1>4. ASSUME StartReset
      PROVE  op'.pc \notin TrashPcs
  BY <1>4, StartResetDoes, IdlesPc DEF StartReset, TrashPcs, BackPcs, Keeps, Answered, New
<1>5. ASSUME NEW n \in Names, ClaimReset(n)
      PROVE  op'.pc \notin TrashPcs
  BY <1>5, ClaimResetDoes, IdlesPc DEF ClaimReset, TrashPcs, BackPcs, Keeps, Answered, New
<1>6. ASSUME NEW i \in Images, MoveImage(i)
      PROVE  op'.pc \notin TrashPcs
  BY <1>6, MoveImageDoes, IdlesPc DEF MoveImage, TrashPcs, BackPcs, Keeps, Answered, New
<1>7. ASSUME EndReset
      PROVE  op'.pc \notin TrashPcs
  BY <1>7, EndResetDoes, IdlesPc DEF EndReset, TrashPcs, BackPcs, Keeps, Answered, New
<1>8. ASSUME RecordFiles
      PROVE  op'.pc \notin TrashPcs
  BY <1>8, RecordFilesDoes, IdlesPc DEF RecordFiles, TrashPcs, BackPcs, Keeps, Answered, New
<1>9. ASSUME NEW n \in Names, StartRestore(n)
      PROVE  op'.pc \notin TrashPcs
  BY <1>9, StartRestoreDoes, IdlesPc DEF StartRestore, TrashPcs, BackPcs, Keeps, Answered, New
<1>10. ASSUME MoveBack
      PROVE  op'.pc \notin TrashPcs
  BY <1>10, MoveBackDoes, IdlesPc DEF MoveBack, TrashPcs, BackPcs, Keeps, Answered, New
<1>11. ASSUME ImportInPlace
      PROVE  op'.pc \notin TrashPcs
  BY <1>11, ImportInPlaceDoes, IdlesPc DEF ImportInPlace, TrashPcs, BackPcs, Keeps, Answered,
     New
<1>12. ASSUME ReturnToTrash
      PROVE  op'.pc \notin TrashPcs
  BY <1>12, ReturnToTrashDoes, IdlesPc DEF ReturnToTrash, TrashPcs, BackPcs, Keeps, Answered,
     New
<1>13. ASSUME ImportEntry
      PROVE  op'.pc \notin TrashPcs
  BY <1>13, ImportEntryDoes, IdlesPc DEF ImportEntry, TrashPcs, BackPcs, Keeps, Answered, New
<1>14. ASSUME NEW t \in Tracks, LandTrack(t)
      PROVE  op'.pc \notin TrashPcs
  BY <1>14, LandTrackDoes, IdlesPc DEF LandTrack, TrashPcs, BackPcs, Keeps, Answered, New
<1>15. ASSUME EndImport
      PROVE  op'.pc \notin TrashPcs
  BY <1>15, EndImportDoes, IdlesPc DEF EndImport, TrashPcs, BackPcs, Keeps, Answered, New
<1>16. ASSUME NEW ns \in SUBSET Names, StartEmpty(ns)
      PROVE  op'.pc \notin TrashPcs
  BY <1>16, StartEmptyDoes, IdlesPc DEF StartEmpty, TrashPcs, BackPcs, Keeps, Answered, New
<1>17. ASSUME NEW n \in Names, NEW x \in Files, EmptyFile(n, x)
      PROVE  op'.pc \notin TrashPcs
  BY <1>17, EmptyFileDoes, IdlesPc DEF EmptyFile, TrashPcs, BackPcs, Keeps, Answered, New
<1>18. ASSUME NEW n \in Names, EmptyEntry(n)
      PROVE  op'.pc \notin TrashPcs
  BY <1>18, EmptyEntryDoes, IdlesPc DEF EmptyEntry, TrashPcs, BackPcs, Keeps, Answered, New
<1>19. ASSUME EndEmpty
      PROVE  op'.pc \notin TrashPcs
  BY <1>19, EndEmptyDoes, IdlesPc DEF EndEmpty, TrashPcs, BackPcs, Keeps, Answered, New
<1>20. ASSUME Close
      PROVE  op'.pc \notin TrashPcs
  BY <1>20, IdlesPc DEF Close, TrashPcs, BackPcs, Keeps, Answered, New
<1>21. ASSUME Crash
      PROVE  op'.pc \notin TrashPcs
  BY <1>21, IdlesPc DEF Crash, TrashPcs, BackPcs, Keeps, Answered, New
<1>22. ASSUME NEW n \in Names, StrangerTakes(n)
      PROVE  op'.pc \notin TrashPcs
  BY <1>22, IdlesPc DEF StrangerTakes, TrashPcs, BackPcs, Keeps, Answered, New
<1>q. QED
  BY <1>1, <1>2, <1>3, <1>4, <1>5, <1>6, <1>7, <1>8, <1>9, <1>10, <1>11, <1>12, <1>13, <1>14,
     <1>15, <1>16, <1>17, <1>18, <1>19, <1>20, <1>21, <1>22 DEF Next, TrashStep, SweepStep,
     ResetStep, RestoreStep, EmptyStep, OutsideStep, Files

\* What is passed over and let through is not there.
LEMMA PassOfStep ==
  ASSUME TypeOK, op \in Ops, ShapeInv, RecordInv, LeaveInv, [Next]_vars
  PROVE  PassInv'
<1>1. ASSUME NEW kind \in {"album", "artist", "resolve", "replace"}, NEW as \in SUBSET Albums,
             NEW reading \in {{}} \cup {{t} : t \in Tracks}, StartTrashing(kind, as, reading)
      PROVE  PassInv'
  <2>1. op'.pc = "next" /\ op'.kind = kind /\ (kind = "replace" => share' # "down")
    BY <1>1, StartTrashingDoes DEF StartTrashing, New, RootReadable
  <2>q. QED
    BY <2>1 DEF PassInv
<1>2. ASSUME NEW a \in Albums, NextAlbum(a)
      PROVE  PassInv'
  <2>1. UNCHANGED <<at, rows, share, excused>> /\ op.pc = "next" /\ a \in Albums
    BY <1>2 DEF NextAlbum, disk, env
  <2>2. CASE Answered
    BY <2>2 DEF Answered, PassInv, TrashPcs
  <2>3. CASE Keeps /\ op'.pc = "claim"
    BY <2>1, <2>3 DEF Keeps, LeaveInv, PassInv, TrashPcs
  <2>4. CASE /\ Keeps /\ op'.pc = "remove" /\ op'.album = a
             /\ LeftInTrash(a) \/ Absent(a) \/ Items(a) = {}
    <3>1. SUFFICES ASSUME ~op.misled, ~Misses, NEW t \in Items(a) PROVE Lost(t, None)
      BY <2>1, <2>4 DEF Keeps, LeaveInv, PassInv, TrashPcs, Misses, Items, Lost
    <3>2. t \in Tracks
      BY DEF Items
    <3>3. CASE LeftInTrash(a)
      BY <3>2, <3>3, MovedIsLost DEF LeftInTrash
    <3>4. CASE Absent(a)
      <4>1. op.kind = "replace" /\ ~Exists(t)
        BY <3>1, <3>4 DEF Absent
      <4>2. share = "up"
        BY <2>1, <3>1, <4>1 DEF LeaveInv, PassInv, TrashPcs, Misses, TypeOK
      <4>q. QED
        BY <3>2, <4>1, <4>2, GoneIsLost
    <3>q. QED
      BY <2>4, <3>3, <3>4
  <2>q. QED
    BY <1>2, <2>2, <2>3, <2>4, NextAlbumDoes
<1>3. ASSUME NEW n \in Names, Claim(n)
      PROVE  PassInv'
  <2>1. /\ Keeps /\ op'.pc = "moving" /\ op'.album = op.album /\ UNCHANGED share /\ op.pc = "claim"
        /\ op'.left = Items(op.album) \ (Items(op.album) \cap op.reading)
        /\ rows' = [t \in Tracks |-> IF t \in Items(op.album) \cap op.reading THEN None
                                      ELSE rows[t]]
    BY <1>3, ClaimDoes DEF Claim, env
  <2>2. (Items(op.album))' \ op'.left = {}
    BY <2>1 DEF Items
  <2>q. QED
    BY <2>1, <2>2 DEF Keeps, LeaveInv, PassInv, TrashPcs
<1>4. ASSUME NEW t \in Tracks, MoveTrack(t)
      PROVE  PassInv'
  <2>1. /\ UNCHANGED <<share, excused>> /\ op.pc = "moving"
        /\ op.name \in Names /\ t \in op.left /\ t \in Files
    BY <1>4 DEF MoveTrack, ShapeInv, env, Files
  <2>2. op.left \subseteq Items(op.album) /\ rows[t] # None
    BY <2>1 DEF RecordInv, ContainerInv, Items
  <2>3. CASE Answered
    BY <2>3 DEF Answered, PassInv, TrashPcs
  <2>4. CASE /\ Keeps /\ op'.pc = "moving" /\ op'.album = op.album
             /\ op'.left = op.left \ {t}
             /\ \/ /\ Exists(t) /\ rows' = [rows EXCEPT ![t] = op.name]
                   /\ at' = [at EXCEPT ![t] = (at[t] \ {rows[t]}) \cup {op.name}]
                \/ ~Exists(t) /\ UNCHANGED <<at, rows>>
    <3>1. \A y \in Tracks : y # t => rows'[y] = rows[y] /\ at'[y] = at[y]
      BY <2>1, <2>4 DEF TypeOK, Rows, Files
    <3>2. op'.kind = "replace" /\ share' = "down" => op'.misled
      BY <2>1, <2>4 DEF Keeps, LeaveInv, PassInv, TrashPcs
    <3>3. ASSUME share = "up", ~op.misled, NEW y \in Tracks, AlbumOf[y] = op.album, rows'[y] # None,
                 y \notin op'.left, "home" \in at'[y]
          PROVE  y \in excused
      <4>1. CASE y # t
        <5>1. y \in Items(op.album) \ op.left /\ "home" \in at[y]
          BY <2>4, <3>1, <3>3, <4>1 DEF Items
        <5>q. QED
          BY <2>1, <3>3, <5>1, NoneAssumption DEF LeaveInv, PassInv, Lost
      <4>2. CASE y = t /\ ~Exists(t) /\ UNCHANGED <<at, rows>>
        BY <3>3, <4>2, GoneIsLost, NoneAssumption DEF Lost
      <4>3. CASE y = t /\ at' = [at EXCEPT ![t] = (at[t] \ {rows[t]}) \cup {op.name}]
        <5>1. rows[t] # "home" /\ "home" \in at[t]
          BY <2>1, <3>3, <4>3, HomeAssumption DEF TypeOK
        <5>q. QED
          BY <4>3, <5>1 DEF LeaveInv, LostInv, Lost
      <4>q. QED
        BY <2>4, <4>1, <4>2, <4>3
    <3>q. QED
      BY <2>1, <2>4, <3>2, <3>3 DEF PassInv, Items, Lost, Keeps
  <2>q. QED
    BY <1>4, <2>3, <2>4, MoveTrackDoes
<1>5. ASSUME Check
      PROVE  PassInv'
  <2>1. /\ UNCHANGED <<at, rows, share, excused>> /\ op.pc = "moving"
        /\ op.left = {} /\ op.name \in Names
    BY <1>5 DEF Check, env, ShapeInv
  <2>2. CASE Answered
    BY <2>2 DEF Answered, PassInv, TrashPcs
  <2>3. CASE /\ Keeps /\ op'.pc \in {"record", "remove"} /\ op'.album = op.album
             /\ (~op.misled /\ ~Misses => \A t \in Items(op.album) : Lost(t, None))
    BY <2>1, <2>3 DEF Keeps, LeaveInv, PassInv, TrashPcs, Misses, Items, Lost
  <2>4. CASE /\ Keeps /\ op'.pc = "record" /\ op'.album = op.album
             /\ \E t \in Items(op.album) : rows[t] = op.name
             /\ (\A t \in Items(op.album) : rows[t] = op.name) \/ RootReadable
    <3>1. ASSUME ~op.misled, ~Misses, NEW t \in Items(op.album) PROVE Lost(t, None)
      <4>1. CASE rows[t] = op.name
        BY <2>1, <4>1, MovedIsLost DEF Items
      <4>2. CASE RootReadable
        <5>1. share = "up"
          BY <2>1, <2>4, <3>1, <4>2 DEF Misses, RootReadable, TypeOK, Items
        <5>q. QED
          BY <2>1, <3>1, <5>1 DEF LeaveInv, PassInv
      <4>q. QED
        BY <2>4, <4>1, <4>2
    <3>q. QED
      BY <2>3, <2>4, <3>1
  <2>5. CASE /\ Keeps /\ op'.pc = "remove" /\ op'.album = op.album
             /\ RootReadable /\ DrawFinds /\ \A t \in Items(op.album) : ~Exists(t)
    <3>1. ASSUME ~op.misled, ~Misses, NEW t \in Items(op.album) PROVE Lost(t, None)
      <4>1. t \in Tracks /\ rows[t] # None
        BY DEF Items
      <4>2. PICK x \in Tracks : rows[x] # None /\ Exists(x)
        BY <2>5, <4>1 DEF DrawFinds
      <4>3. share = "up"
        BY <2>5, <3>1, <4>2 DEF Misses, RootReadable, Exists, TypeOK, Rows, Places
      <4>q. QED
        BY <2>5, <4>1, <4>3, GoneIsLost
    <3>q. QED
      BY <2>3, <2>5, <3>1
  <2>q. QED
    BY <1>5, <2>2, <2>4, <2>5, CheckDoes
<1>6. ASSUME RecordAlbum
      PROVE  PassInv'
  <2>1. UNCHANGED <<at, rows, share, excused>> /\ op.pc = "record"
    BY <1>6 DEF RecordAlbum, disk, db, env
  <2>q. QED
    BY <1>6, <2>1, RecordAlbumDoes DEF Keeps, LeaveInv, PassInv, TrashPcs, Misses, Items, Lost
<1>7. ASSUME RemoveRows
      PROVE  PassInv'
  <2>1. UNCHANGED share /\ op.pc = "remove"
    BY <1>7 DEF RemoveRows, env
  <2>q. QED
    BY <1>7, <2>1, RemoveRowsDoes DEF Answered, LeaveInv, PassInv, TrashPcs
<1>8. ASSUME NEW s \in {"up", "down", "stray"}, ShareTurns(s)
      PROVE  PassInv'
  <2>1. /\ op'.pc = op.pc /\ op'.kind = op.kind /\ op'.album = op.album /\ op'.left = op.left
        /\ op.misled => op'.misled
        /\ op.pc # "idle" /\ (s # "down" \/ share = "stray" \/ op.kind = "replace") => op'.misled
    BY <1>8, ShareTurnsDoes DEF ShapeInv
  <2>2. share' = s /\ s # share /\ UNCHANGED <<at, rows, excused>>
    BY <1>8 DEF ShareTurns, disk, db
  <2>3. CASE op.pc \notin TrashPcs \/ op'.misled
    BY <2>1, <2>3 DEF PassInv, TrashPcs
  <2>4. CASE op.pc \in TrashPcs /\ ~op'.misled
    <3>1. s = "down" /\ share = "up" /\ op.kind # "replace" /\ ~op.misled
      BY <2>1, <2>2, <2>4 DEF TrashPcs, TypeOK
    <3>q. QED
      BY <2>1, <2>2, <3>1 DEF LeaveInv, PassInv, Misses, Items, Lost
  <2>q. QED
    BY <2>3, <2>4
<1>9. ASSUME NEW n \in Names, StrangerPuts(n)
      PROVE  PassInv'
  BY <1>9 DEF StrangerPuts, db, LeaveInv, PassInv, Misses, Items, Lost
<1>10. ASSUME op'.pc \notin TrashPcs
      PROVE  PassInv'
  BY <1>10 DEF PassInv, TrashPcs
<1>11. ASSUME UNCHANGED vars
      PROVE  PassInv'
  BY <1>11 DEF vars, LeaveInv, PassInv, Misses, Items, Lost
<1>q. QED
  BY ElsewhereOrDelete, <1>1, <1>2, <1>3, <1>4, <1>5, <1>6, <1>7, <1>8, <1>9, <1>10, <1>11

-----------------------------------------------------------------------------
(* What a delete tells.                                                    *)

\* What is in the Trash for a row stays there while a delete is under way.
LEMMA FoundOfStep ==
  ASSUME TypeOK, op \in Ops, ShapeInv, RecordInv, TellInv, [Next]_vars
  PROVE  FoundInv'
<1>1. ASSUME NEW kind \in {"album", "artist", "resolve", "replace"}, NEW as \in SUBSET Albums,
             NEW reading \in {{}} \cup {{t} : t \in Tracks}, StartTrashing(kind, as, reading)
      PROVE  FoundInv'
  <2>1. op'.pc = "next" /\ begun' = [rows |-> rows, albums |-> albums, at |-> at] /\ UNCHANGED rows
    BY <1>1, StartTrashingDoes DEF New, StartTrashing
  <2>q. QED
    BY <2>1 DEF FoundInv, InTrashNow
<1>2. ASSUME NEW a \in Albums, NextAlbum(a)
      PROVE  FoundInv'
  <2>1. UNCHANGED <<at, rows, begun>>
    BY <1>2 DEF NextAlbum, disk, db
  <2>2. op'.pc \in TrashPcs => op.pc \in TrashPcs
    BY <1>2 DEF NextAlbum, TrashPcs
  <2>q. QED
    BY <2>1, <2>2 DEF TellInv, FoundInv, InTrashNow
<1>3. ASSUME NEW n \in Names, Claim(n)
      PROVE  FoundInv'
  <2>1. UNCHANGED <<at, begun>> /\ op.pc = "claim"
        /\ rows' = [t \in Tracks |-> IF t \in Items(op.album) \cap op.reading THEN None
                                      ELSE rows[t]]
    BY <1>3 DEF Claim
  <2>q. QED
    BY <2>1, NoneAssumption DEF TellInv, FoundInv, InTrashNow, TrashPcs
<1>4. ASSUME NEW t \in Tracks, MoveTrack(t)
      PROVE  FoundInv'
  <2>1. /\ UNCHANGED begun /\ op.pc = "moving" /\ op.name \in Names /\ t \in op.left
        /\ t \in Files /\ op.name # "home"
    BY <1>4, HomeAssumption DEF MoveTrack, ShapeInv, Files
  <2>2. rows[t] # None /\ op.name # None
    BY <2>1, NoneAssumption DEF RecordInv, ContainerInv, Items
  <2>3. CASE Answered
    BY <2>3 DEF Answered, FoundInv, TrashPcs
  <2>4. CASE ~Exists(t) /\ UNCHANGED <<at, rows>>
    BY <2>1, <2>4 DEF TellInv, FoundInv, InTrashNow, TrashPcs
  <2>5. CASE /\ rows' = [rows EXCEPT ![t] = op.name]
             /\ at' = [at EXCEPT ![t] = (at[t] \ {rows[t]}) \cup {op.name}]
    <3>1. op.name \in at'[t] /\ \A y \in Tracks : y # t => rows'[y] = rows[y] /\ at'[y] = at[y]
      BY <2>1, <2>5 DEF TypeOK, Rows, Files
    <3>2. \A y \in Tracks : /\ rows[y] # None => begun.rows[y] # None
                            /\ rows[y] \in Names => InTrashNow(y)
      BY <2>1 DEF TellInv, FoundInv, TrashPcs
    <3>q. QED
      BY <2>1, <2>2, <3>1, <3>2 DEF FoundInv, InTrashNow
  <2>q. QED
    BY <1>4, <2>3, <2>4, <2>5, MoveTrackDoes
<1>5. ASSUME Check
      PROVE  FoundInv'
  <2>1. UNCHANGED <<at, rows, begun>>
    BY <1>5 DEF Check, disk, db
  <2>2. op'.pc \in TrashPcs => op.pc \in TrashPcs
    BY <1>5 DEF Check, TrashPcs
  <2>q. QED
    BY <2>1, <2>2 DEF TellInv, FoundInv, InTrashNow
<1>6. ASSUME RecordAlbum
      PROVE  FoundInv'
  <2>1. UNCHANGED <<at, rows, begun>>
    BY <1>6 DEF RecordAlbum, disk, db
  <2>2. op'.pc \in TrashPcs => op.pc \in TrashPcs
    BY <1>6 DEF RecordAlbum, TrashPcs
  <2>q. QED
    BY <2>1, <2>2 DEF TellInv, FoundInv, InTrashNow
<1>7. ASSUME RemoveRows
      PROVE  FoundInv'
  <2>1. UNCHANGED <<at, begun>> /\ op.pc = "remove"
    BY <1>7 DEF RemoveRows, disk
  <2>2. CASE rows' = [t \in Tracks |-> IF AlbumOf[t] = op.album THEN None ELSE rows[t]]
    BY <2>1, <2>2, NoneAssumption DEF TellInv, FoundInv, InTrashNow, TrashPcs
  <2>q. QED
    BY <1>7, <2>2, RemoveRowsDoes DEF FoundInv, Answered, TrashPcs
<1>8. ASSUME NEW s \in {"up", "down", "stray"}, ShareTurns(s)
      PROVE  FoundInv'
  <2>1. UNCHANGED <<at, rows, begun>>
    BY <1>8 DEF ShareTurns, disk, db
  <2>2. op'.pc = op.pc
    BY <1>8, ShareTurnsDoes DEF ShapeInv
  <2>q. QED
    BY <2>1, <2>2 DEF TellInv, FoundInv, InTrashNow
<1>9. ASSUME NEW n \in Names, StrangerPuts(n)
      PROVE  FoundInv'
  <2>1. UNCHANGED <<at, rows, begun>>
    BY <1>9 DEF StrangerPuts, disk, db
  <2>2. op'.pc \in TrashPcs => op.pc \in TrashPcs
    BY <1>9 DEF StrangerPuts, TrashPcs
  <2>q. QED
    BY <2>1, <2>2 DEF TellInv, FoundInv, InTrashNow
<1>10. ASSUME op'.pc \notin TrashPcs
      PROVE  FoundInv'
  BY <1>10 DEF FoundInv, TrashPcs
<1>11. ASSUME UNCHANGED vars
      PROVE  FoundInv'
  BY <1>11 DEF vars, TellInv, FoundInv, InTrashNow
<1>q. QED
  BY ElsewhereOrDelete, <1>1, <1>2, <1>3, <1>4, <1>5, <1>6, <1>7, <1>8, <1>9, <1>10, <1>11

\* A delete counts its albums, and touches nothing before the first.
LEMMA UntouchedOfStep ==
  ASSUME TypeOK, op \in Ops, ShapeInv, RecordInv, TellInv, [Next]_vars
  PROVE  UntouchedInv'
<1>1. ASSUME NEW kind \in {"album", "artist", "resolve", "replace"}, NEW as \in SUBSET Albums,
             NEW reading \in {{}} \cup {{t} : t \in Tracks}, StartTrashing(kind, as, reading)
      PROVE  UntouchedInv'
  <2>1. /\ op'.pc = "next" /\ op'.kind = kind /\ ~op'.mutated /\ op'.todo = as
        /\ begun' = [rows |-> rows, albums |-> albums, at |-> at]
    BY <1>1, StartTrashingDoes DEF New
  <2>2. /\ UNCHANGED <<at, rows, albums>>
        /\ kind = "album" => \E a \in albums : as = {a}
    BY <1>1 DEF StartTrashing, disk
  <2>q. QED
    BY <2>1, <2>2 DEF UntouchedInv, Untouched, TrashPcs
<1>2. ASSUME NEW a \in Albums, NextAlbum(a)
      PROVE  UntouchedInv'
  <2>1. UNCHANGED <<at, rows, albums, begun>> /\ op.pc = "next" /\ a \in op.todo
    BY <1>2 DEF NextAlbum, disk
  <2>2. CASE Answered
    BY <2>2 DEF Answered, UntouchedInv, TrashPcs
  <2>3. CASE Keeps /\ op'.pc \in {"claim", "remove"} /\ op'.album = a
    <3>1. op.kind = "album" => ~op.mutated /\ op.todo = {a} /\ a \in albums /\ albums = begun.albums
      BY <2>1 DEF TellInv, UntouchedInv, Untouched, TrashPcs
    <3>q. QED
      BY <2>1, <2>3, <3>1 DEF Keeps, UntouchedInv
  <2>q. QED
    BY <1>2, <2>2, <2>3, NextAlbumDoes
<1>3. ASSUME NEW n \in Names, Claim(n)
      PROVE  UntouchedInv'
  <2>1. UNCHANGED <<albums, begun>> /\ op.pc = "claim"
    BY <1>3 DEF Claim, db
  <2>2. CASE Answered
    BY <2>2 DEF Answered, UntouchedInv, TrashPcs
  <2>3. CASE Keeps /\ op'.pc \in {"moving", "record", "remove"} /\ op'.album = op.album
    BY <2>1, <2>3 DEF Keeps, TellInv, UntouchedInv, TrashPcs
  <2>q. QED
    BY <1>3, <2>2, <2>3, ClaimDoes
<1>4. ASSUME NEW t \in Tracks, MoveTrack(t)
      PROVE  UntouchedInv'
  <2>1. UNCHANGED <<albums, begun>> /\ op.pc = "moving"
    BY <1>4 DEF MoveTrack, db
  <2>2. CASE Answered
    BY <2>2 DEF Answered, UntouchedInv, TrashPcs
  <2>3. CASE Keeps /\ op'.pc \in {"moving", "record", "remove"} /\ op'.album = op.album
    BY <2>1, <2>3 DEF Keeps, TellInv, UntouchedInv, TrashPcs
  <2>q. QED
    BY <1>4, <2>2, <2>3, MoveTrackDoes
<1>5. ASSUME Check
      PROVE  UntouchedInv'
  <2>1. UNCHANGED <<albums, begun>> /\ op.pc = "moving"
    BY <1>5 DEF Check, db
  <2>2. CASE Answered
    BY <2>2 DEF Answered, UntouchedInv, TrashPcs
  <2>3. CASE Keeps /\ op'.pc \in {"moving", "record", "remove"} /\ op'.album = op.album
    BY <2>1, <2>3 DEF Keeps, TellInv, UntouchedInv, TrashPcs
  <2>q. QED
    BY <1>5, <2>2, <2>3, CheckDoes
<1>6. ASSUME RecordAlbum
      PROVE  UntouchedInv'
  <2>1. UNCHANGED <<albums, begun>> /\ op.pc = "record"
    BY <1>6 DEF RecordAlbum, db
  <2>2. CASE Answered
    BY <2>2 DEF Answered, UntouchedInv, TrashPcs
  <2>3. CASE Keeps /\ op'.pc \in {"moving", "record", "remove"} /\ op'.album = op.album
    BY <2>1, <2>3 DEF Keeps, TellInv, UntouchedInv, TrashPcs
  <2>q. QED
    BY <1>6, <2>2, <2>3, RecordAlbumDoes
<1>7. ASSUME RemoveRows
      PROVE  UntouchedInv'
  <2>1. albums' = albums \ {op.album} /\ UNCHANGED begun /\ op.pc = "remove"
    BY <1>7 DEF RemoveRows
  <2>2. CASE Answered
    BY <2>2 DEF Answered, UntouchedInv, TrashPcs
  <2>3. CASE op'.pc = "next" /\ op'.kind = op.kind /\ op'.todo = op.todo \ {op.album} /\ op'.mutated
    BY <2>1, <2>3 DEF TellInv, UntouchedInv, TrashPcs
  <2>q. QED
    BY <1>7, <2>2, <2>3, RemoveRowsDoes
<1>8. ASSUME NEW s \in {"up", "down", "stray"}, ShareTurns(s)
      PROVE  UntouchedInv'
  <2>1. UNCHANGED <<at, rows, albums, begun>>
    BY <1>8 DEF ShareTurns, disk, db
  <2>2. /\ op'.pc = op.pc /\ op'.kind = op.kind /\ op'.todo = op.todo /\ op'.album = op.album
        /\ op'.mutated = op.mutated
    BY <1>8, ShareTurnsDoes DEF ShapeInv
  <2>q. QED
    BY <2>1, <2>2 DEF TellInv, UntouchedInv, Untouched
<1>9. ASSUME NEW n \in Names, StrangerPuts(n)
      PROVE  UntouchedInv'
  BY <1>9 DEF StrangerPuts, db, TellInv, UntouchedInv, Untouched
<1>10. ASSUME op'.pc \notin TrashPcs
      PROVE  UntouchedInv'
  BY <1>10 DEF UntouchedInv, TrashPcs
<1>11. ASSUME UNCHANGED vars
      PROVE  UntouchedInv'
  BY <1>11 DEF vars, TellInv, UntouchedInv, Untouched
<1>q. QED
  BY ElsewhereOrDelete, <1>1, <1>2, <1>3, <1>4, <1>5, <1>6, <1>7, <1>8, <1>9, <1>10, <1>11

\* What a delete says it moved is there.
LEMMA MovedOfStep ==
  ASSUME TypeOK, op \in Ops, ShapeInv, RecordInv, TellInv, [Next]_vars
  PROVE  MovedInv'
<1>1. ASSUME NEW kind \in {"album", "artist", "resolve", "replace"}, NEW as \in SUBSET Albums,
             NEW reading \in {{}} \cup {{t} : t \in Tracks}, StartTrashing(kind, as, reading)
      PROVE  MovedInv'
  <2>1. op'.pc = "next" /\ ~op'.moved
    BY <1>1, StartTrashingDoes DEF New
  <2>q. QED
    BY <2>1 DEF MovedInv
<1>2. ASSUME NEW a \in Albums, NextAlbum(a)
      PROVE  MovedInv'
  <2>1. UNCHANGED <<at, rows, begun>> /\ op.pc = "next"
    BY <1>2 DEF NextAlbum, disk
  <2>2. CASE Answered
    BY <2>2 DEF Answered, MovedInv, TrashPcs
  <2>3. CASE Keeps /\ (op'.pc = "remove" \/ op'.pc = "claim") /\ op'.name = None
    BY <2>1, <2>3 DEF Keeps, TellInv, MovedInv, InTrashNow, TrashPcs
  <2>4. CASE LeftInTrash(a) /\ Keeps /\ op'.pc = "remove" /\ op'.album = a
    BY <2>1, <2>4 DEF LeftInTrash, Items, Keeps, TellInv, MovedInv, InTrashNow, TrashPcs
  <2>q. QED
    BY <1>2, <2>2, <2>3, <2>4, NextAlbumDoes
<1>3. ASSUME NEW n \in Names, Claim(n)
      PROVE  MovedInv'
  <2>1. UNCHANGED <<at, begun>> /\ op.pc = "claim" /\ Keeps /\ op'.pc = "moving"
        /\ rows' = [t \in Tracks |-> IF t \in Items(op.album) \cap op.reading THEN None
                                      ELSE rows[t]]
    BY <1>3, ClaimDoes DEF Claim
  <2>q. QED
    BY <2>1 DEF Keeps, TellInv, MovedInv, InTrashNow, TrashPcs
<1>4. ASSUME NEW t \in Tracks, MoveTrack(t)
      PROVE  MovedInv'
  <2>1. /\ UNCHANGED begun /\ op.pc = "moving" /\ op.name \in Names /\ t \in op.left
        /\ t \in Files /\ op.name # "home"
    BY <1>4, HomeAssumption DEF MoveTrack, ShapeInv, Files
  <2>2. rows[t] # None /\ op.name # None
    BY <2>1, NoneAssumption DEF RecordInv, ContainerInv, Items
  <2>3. CASE Answered
    BY <2>3 DEF Answered, MovedInv, TrashPcs
  <2>4. CASE /\ Keeps /\ op'.pc = "moving"
             /\ \/ /\ rows' = [rows EXCEPT ![t] = op.name]
                   /\ at' = [at EXCEPT ![t] = (at[t] \ {rows[t]}) \cup {op.name}]
                \/ UNCHANGED <<at, rows>>
    <3>1. \A y \in Tracks : rows[y] = None => rows'[y] = None /\ at'[y] = at[y]
      BY <2>1, <2>2, <2>4 DEF TypeOK, Rows, Files
    <3>q. QED
      BY <2>1, <2>4, <3>1 DEF Keeps, TellInv, MovedInv, InTrashNow, TrashPcs
  <2>q. QED
    BY <1>4, <2>3, <2>4, MoveTrackDoes
<1>5. ASSUME Check
      PROVE  MovedInv'
  <2>1. UNCHANGED <<at, rows, begun>> /\ op.pc = "moving" /\ op.name \in Names
    BY <1>5 DEF Check, ShapeInv
  <2>2. CASE Answered
    BY <2>2 DEF Answered, MovedInv, TrashPcs
  <2>3. CASE Keeps /\ op'.pc = "remove" /\ op'.name = None
    BY <2>1, <2>3 DEF Keeps, TellInv, MovedInv, InTrashNow, TrashPcs
  <2>4. CASE /\ Keeps /\ op'.pc = "record" /\ op'.album = op.album
             /\ \E t \in Items(op.album) : rows[t] = op.name
    BY <2>1, <2>4 DEF Items, Keeps, TellInv, MovedInv, InTrashNow, TrashPcs
  <2>q. QED
    BY <1>5, <2>2, <2>3, <2>4, CheckDoes
<1>6. ASSUME RecordAlbum
      PROVE  MovedInv'
  <2>1. UNCHANGED <<at, rows, begun>> /\ op.pc = "record"
    BY <1>6 DEF RecordAlbum, disk, db
  <2>q. QED
    BY <1>6, <2>1, RecordAlbumDoes DEF Items, Keeps, TellInv, MovedInv, InTrashNow, TrashPcs
<1>7. ASSUME RemoveRows
      PROVE  MovedInv'
  <2>1. UNCHANGED <<at, begun>> /\ op.pc = "remove"
    BY <1>7 DEF RemoveRows, disk
  <2>2. CASE Answered
    BY <2>2 DEF Answered, MovedInv, TrashPcs
  <2>3. CASE /\ op'.pc = "next" /\ (op'.moved => op.moved \/ op.name # None)
             /\ rows' = [t \in Tracks |-> IF AlbumOf[t] = op.album THEN None ELSE rows[t]]
    <3>1. CASE ~op'.moved
      BY <2>3, <3>1 DEF MovedInv
    <3>2. CASE op.moved
      BY <2>1, <2>3, <3>2 DEF TellInv, MovedInv, InTrashNow, TrashPcs
    <3>3. CASE op.name # None
      <4>1. PICK t \in Items(op.album) : rows[t] \in Names
        BY <2>1, <3>3 DEF TellInv, MovedInv
      <4>2. t \in Tracks /\ AlbumOf[t] = op.album /\ begun.rows[t] # None /\ InTrashNow(t)
        BY <2>1, <4>1, NoneAssumption DEF TellInv, FoundInv, TrashPcs, Items
      <4>q. QED
        BY <2>1, <2>3, <4>2 DEF MovedInv, InTrashNow
    <3>q. QED
      BY <2>3, <3>1, <3>2, <3>3
  <2>q. QED
    BY <1>7, <2>2, <2>3, RemoveRowsDoes
<1>8. ASSUME NEW s \in {"up", "down", "stray"}, ShareTurns(s)
      PROVE  MovedInv'
  <2>1. UNCHANGED <<at, rows, begun>>
    BY <1>8 DEF ShareTurns, disk, db
  <2>2. op'.pc = op.pc /\ op'.name = op.name /\ op'.album = op.album /\ op'.moved = op.moved
    BY <1>8, ShareTurnsDoes DEF ShapeInv
  <2>q. QED
    BY <2>1, <2>2 DEF Items, TellInv, MovedInv, InTrashNow
<1>9. ASSUME NEW n \in Names, StrangerPuts(n)
      PROVE  MovedInv'
  BY <1>9 DEF StrangerPuts, db, Items, TellInv, MovedInv, InTrashNow
<1>10. ASSUME op'.pc \notin TrashPcs
      PROVE  MovedInv'
  BY <1>10 DEF MovedInv, TrashPcs
<1>11. ASSUME UNCHANGED vars
      PROVE  MovedInv'
  BY <1>11 DEF vars, Items, TellInv, MovedInv, InTrashNow
<1>q. QED
  BY ElsewhereOrDelete, <1>1, <1>2, <1>3, <1>4, <1>5, <1>6, <1>7, <1>8, <1>9, <1>10, <1>11

\* What is raised is so: nothing is said to be deleted once an album was, and
\* some moved only when something was.
LEMMA RaiseTells ==
  ASSUME TypeOK, op \in Ops, TellInv, op.pc \in TrashPcs,
         NEW what \in {"unavailable", "failed", "nothing deleted"}, Raise(what),
         what = "nothing deleted" => op.pc = "next" /\ op.todo # {} /\ UNCHANGED <<albums, at>>,
         UNCHANGED <<rows, begun>>, \A t \in Tracks : at[t] \subseteq at'[t]
  PROVE  AnswerIsTrue'
<1>1. /\ op'.pc = "answer" /\ op'.kind = op.kind
      /\ op'.answer = IF op.kind # "artist" \/ ~op.mutated THEN what
                      ELSE IF op.moved THEN "some moved" ELSE "some dropped"
  BY RaiseType DEF Answers
<1>2. ASSUME op'.answer = "nothing deleted", op.kind \in {"album", "artist"}
      PROVE  rows' = begun'.rows /\ albums' = begun'.albums /\ at' = begun'.at
  <2>1. what = "nothing deleted" /\ (op.kind = "artist" => ~op.mutated)
    BY <1>1, <1>2
  <2>2. op.kind = "album" => ~op.mutated
    BY <2>1 DEF TellInv, UntouchedInv, TrashPcs
  <2>q. QED
    BY <1>2, <2>1, <2>2 DEF TellInv, UntouchedInv, Untouched
<1>3. ASSUME op'.answer = "some moved"
      PROVE  \E t \in Tracks : begun'.rows[t] # None /\ rows'[t] = None
                               /\ (at'[t] \cap Names # {} \/ begun'.rows[t] \in Names)
  <2>1. op.moved
    BY <1>1, <1>3
  <2>2. PICK t \in Tracks : begun.rows[t] # None /\ rows[t] = None /\ InTrashNow(t)
    BY <2>1 DEF TellInv, MovedInv
  <2>q. QED
    BY <2>2 DEF InTrashNow
<1>4. op'.answer # "done"
  BY <1>1
<1>q. QED
  BY <1>1, <1>2, <1>3, <1>4 DEF AnswerIsTrue

\* What is answered is so.
LEMMA AnswerOfStep ==
  ASSUME TypeOK, op \in Ops, ShapeInv, RecordInv, TellInv, AnswerIsTrue, [Next]_vars
  PROVE  AnswerIsTrue'
<1>1. ASSUME NEW kind \in {"album", "artist", "resolve", "replace"}, NEW as \in SUBSET Albums,
             NEW reading \in {{}} \cup {{t} : t \in Tracks}, StartTrashing(kind, as, reading)
      PROVE  AnswerIsTrue'
  <2>1. op'.pc = "next"
    BY <1>1, StartTrashingDoes DEF New
  <2>q. QED
    BY <2>1 DEF AnswerIsTrue
<1>2. ASSUME NEW a \in Albums, NextAlbum(a)
      PROVE  AnswerIsTrue'
  <2>1. UNCHANGED <<at, rows, albums, begun>> /\ op.pc = "next" /\ op.todo # {}
    BY <1>2 DEF NextAlbum, disk
  <2>2. CASE Raise("unavailable")
    BY <2>1, <2>2, RaiseTells DEF TrashPcs
  <2>3. CASE Raise("nothing deleted")
    BY <2>1, <2>3, RaiseTells DEF TrashPcs
  <2>4. CASE op'.pc \in {"claim", "remove"}
    BY <2>4 DEF AnswerIsTrue
  <2>q. QED
    BY <1>2, <2>2, <2>3, <2>4, NextAlbumDoes
<1>3. ASSUME NEW n \in Names, Claim(n)
      PROVE  AnswerIsTrue'
  BY <1>3, ClaimDoes, IdlesPc DEF Claim, disk, db, env, AnswerIsTrue, ShapeInv, TrashPcs,
     BackPcs, Keeps, Answered, New
<1>4. ASSUME NEW t \in Tracks, MoveTrack(t)
      PROVE  AnswerIsTrue'
  <2>1. UNCHANGED begun /\ op.pc = "moving" /\ t \in Files
    BY <1>4 DEF MoveTrack, Files
  <2>2. CASE op'.pc = "moving"
    BY <2>2 DEF AnswerIsTrue
  <2>3. CASE /\ Raise("failed") /\ UNCHANGED rows
             /\ \/ at' = [at EXCEPT ![t] = at[t] \cup {op.name}]
                \/ at' = [at EXCEPT ![t] = at[t]]
    <3>1. \A y \in Tracks : at[y] \subseteq at'[y]
      BY <2>1, <2>3 DEF TypeOK, Files
    <3>q. QED
      BY <2>1, <2>3, <3>1, RaiseTells DEF TrashPcs
  <2>q. QED
    BY <1>4, <2>2, <2>3, MoveTrackDoes
<1>5. ASSUME Check
      PROVE  AnswerIsTrue'
  <2>1. UNCHANGED <<at, rows, begun>> /\ op.pc = "moving"
    BY <1>5 DEF Check
  <2>2. CASE op'.pc \in {"record", "remove"}
    BY <2>2 DEF AnswerIsTrue
  <2>3. CASE Raise("unavailable") \/ Raise("failed")
    BY <2>1, <2>3, RaiseTells DEF TrashPcs
  <2>q. QED
    BY <1>5, <2>2, <2>3, CheckDoes
<1>6. ASSUME RecordAlbum
      PROVE  AnswerIsTrue'
  BY <1>6, RecordAlbumDoes, IdlesPc DEF RecordAlbum, disk, db, env, AnswerIsTrue, ShapeInv,
     TrashPcs, BackPcs, Keeps, Answered, New
<1>7. ASSUME RemoveRows
      PROVE  AnswerIsTrue'
  <2>1. UNCHANGED <<at, begun>> /\ op.pc = "remove"
    BY <1>7 DEF RemoveRows, disk
  <2>2. CASE op'.pc = "next"
    BY <2>2 DEF AnswerIsTrue
  <2>3. CASE Raise("failed") /\ UNCHANGED rows
    BY <2>1, <2>3, RaiseTells DEF TrashPcs
  <2>q. QED
    BY <1>7, <2>2, <2>3, RemoveRowsDoes
<1>8. ASSUME FinishTrashing
      PROVE  AnswerIsTrue'
  <2>1. /\ Answered /\ op'.answer = "done"
        /\ UNCHANGED <<albums, begun>> /\ op.pc = "next" /\ op.todo = {}
    BY <1>8, FinishTrashingDoes DEF FinishTrashing
  <2>2. op.kind = "album" => albums # begun.albums
    BY <2>1 DEF TellInv, UntouchedInv, TrashPcs
  <2>q. QED
    BY <2>1, <2>2 DEF Answered, AnswerIsTrue
<1>9. ASSUME NEW h \in Husks, StartSweep(h)
      PROVE  AnswerIsTrue'
  BY <1>9, StartSweepDoes, IdlesPc DEF StartSweep, disk, db, env, AnswerIsTrue, ShapeInv,
     TrashPcs, BackPcs, Keeps, Answered, New
<1>10. ASSUME NEW h \in Husks, NEW n \in Names, SweepFolder(h, n)
      PROVE  AnswerIsTrue'
  BY <1>10, SweepFolderDoes, IdlesPc DEF SweepFolder, disk, db, env, AnswerIsTrue, ShapeInv,
     TrashPcs, BackPcs, Keeps, Answered, New
<1>11. ASSUME StartReset
      PROVE  AnswerIsTrue'
  BY <1>11, StartResetDoes, IdlesPc DEF StartReset, disk, db, env, AnswerIsTrue, ShapeInv,
     TrashPcs, BackPcs, Keeps, Answered, New
<1>12. ASSUME NEW n \in Names, ClaimReset(n)
      PROVE  AnswerIsTrue'
  BY <1>12, ClaimResetDoes, IdlesPc DEF ClaimReset, disk, db, env, AnswerIsTrue, ShapeInv,
     TrashPcs, BackPcs, Keeps, Answered, New
<1>13. ASSUME NEW i \in Images, MoveImage(i)
      PROVE  AnswerIsTrue'
  BY <1>13, MoveImageDoes, IdlesPc DEF MoveImage, disk, db, env, AnswerIsTrue, ShapeInv,
     TrashPcs, BackPcs, Keeps, Answered, New
<1>14. ASSUME EndReset
      PROVE  AnswerIsTrue'
  BY <1>14, EndResetDoes, IdlesPc DEF EndReset, disk, db, env, AnswerIsTrue, ShapeInv,
     TrashPcs, BackPcs, Keeps, Answered, New
<1>15. ASSUME RecordFiles
      PROVE  AnswerIsTrue'
  BY <1>15, RecordFilesDoes, IdlesPc DEF RecordFiles, disk, db, env, AnswerIsTrue, ShapeInv,
     TrashPcs, BackPcs, Keeps, Answered, New
<1>16. ASSUME NEW n \in Names, StartRestore(n)
      PROVE  AnswerIsTrue'
  BY <1>16, StartRestoreDoes, IdlesPc DEF StartRestore, disk, db, env, AnswerIsTrue, ShapeInv,
     TrashPcs, BackPcs, Keeps, Answered, New
<1>17. ASSUME MoveBack
      PROVE  AnswerIsTrue'
  BY <1>17, MoveBackDoes, IdlesPc DEF MoveBack, disk, db, env, AnswerIsTrue, ShapeInv,
     TrashPcs, BackPcs, Keeps, Answered, New
<1>18. ASSUME ImportInPlace
      PROVE  AnswerIsTrue'
  BY <1>18, ImportInPlaceDoes, IdlesPc DEF ImportInPlace, disk, db, env, AnswerIsTrue,
     ShapeInv, TrashPcs, BackPcs, Keeps, Answered, New
<1>19. ASSUME ReturnToTrash
      PROVE  AnswerIsTrue'
  BY <1>19, ReturnToTrashDoes, IdlesPc DEF ReturnToTrash, disk, db, env, AnswerIsTrue,
     ShapeInv, TrashPcs, BackPcs, Keeps, Answered, New
<1>20. ASSUME ImportEntry
      PROVE  AnswerIsTrue'
  BY <1>20, ImportEntryDoes, IdlesPc DEF ImportEntry, disk, db, env, AnswerIsTrue, ShapeInv,
     TrashPcs, BackPcs, Keeps, Answered, New
<1>21. ASSUME NEW t \in Tracks, LandTrack(t)
      PROVE  AnswerIsTrue'
  BY <1>21, LandTrackDoes, IdlesPc DEF LandTrack, disk, db, env, AnswerIsTrue, ShapeInv,
     TrashPcs, BackPcs, Keeps, Answered, New
<1>22. ASSUME EndImport
      PROVE  AnswerIsTrue'
  BY <1>22, EndImportDoes, IdlesPc DEF EndImport, disk, db, env, AnswerIsTrue, ShapeInv,
     TrashPcs, BackPcs, Keeps, Answered, New
<1>23. ASSUME NEW ns \in SUBSET Names, StartEmpty(ns)
      PROVE  AnswerIsTrue'
  BY <1>23, StartEmptyDoes, IdlesPc DEF StartEmpty, disk, db, env, AnswerIsTrue, ShapeInv,
     TrashPcs, BackPcs, Keeps, Answered, New
<1>24. ASSUME NEW n \in Names, NEW x \in Files, EmptyFile(n, x)
      PROVE  AnswerIsTrue'
  BY <1>24, EmptyFileDoes, IdlesPc DEF EmptyFile, disk, db, env, AnswerIsTrue, ShapeInv,
     TrashPcs, BackPcs, Keeps, Answered, New
<1>25. ASSUME NEW n \in Names, EmptyEntry(n)
      PROVE  AnswerIsTrue'
  BY <1>25, EmptyEntryDoes, IdlesPc DEF EmptyEntry, disk, db, env, AnswerIsTrue, ShapeInv,
     TrashPcs, BackPcs, Keeps, Answered, New
<1>26. ASSUME EndEmpty
      PROVE  AnswerIsTrue'
  BY <1>26, EndEmptyDoes, IdlesPc DEF EndEmpty, disk, db, env, AnswerIsTrue, ShapeInv,
     TrashPcs, BackPcs, Keeps, Answered, New
<1>27. ASSUME Close
      PROVE  AnswerIsTrue'
  BY <1>27, IdlesPc DEF Close, disk, db, env, AnswerIsTrue, ShapeInv, TrashPcs, BackPcs, Keeps,
     Answered, New
<1>28. ASSUME Crash
      PROVE  AnswerIsTrue'
  BY <1>28, IdlesPc DEF Crash, disk, db, env, AnswerIsTrue, ShapeInv, TrashPcs, BackPcs, Keeps,
     Answered, New
<1>29. ASSUME NEW s \in {"up", "down", "stray"}, ShareTurns(s)
      PROVE  AnswerIsTrue'
  <2>1. UNCHANGED <<at, rows, albums, begun>>
    BY <1>29 DEF ShareTurns, disk, db
  <2>2. op'.pc = op.pc /\ op'.kind = op.kind /\ op'.answer = op.answer
    BY <1>29, ShareTurnsDoes DEF ShapeInv
  <2>q. QED
    BY <2>1, <2>2 DEF AnswerIsTrue
<1>30. ASSUME NEW n \in Names, StrangerPuts(n)
      PROVE  AnswerIsTrue'
  BY <1>30 DEF StrangerPuts, db, AnswerIsTrue
<1>31. ASSUME NEW n \in Names, StrangerTakes(n)
      PROVE  AnswerIsTrue'
  BY <1>31, IdlesPc DEF StrangerTakes, disk, db, env, AnswerIsTrue, ShapeInv, TrashPcs,
     BackPcs, Keeps, Answered, New
<1>32. ASSUME UNCHANGED vars
      PROVE  AnswerIsTrue'
  BY <1>32, IdlesPc DEF vars, AnswerIsTrue
<1>q. QED
  BY <1>1, <1>2, <1>3, <1>4, <1>5, <1>6, <1>7, <1>8, <1>9, <1>10, <1>11, <1>12, <1>13, <1>14,
     <1>15, <1>16, <1>17, <1>18, <1>19, <1>20, <1>21, <1>22, <1>23, <1>24, <1>25, <1>26, <1>27,
     <1>28, <1>29, <1>30, <1>31, <1>32 DEF Next, TrashStep, SweepStep, ResetStep, RestoreStep,
     EmptyStep, OutsideStep, Files

-----------------------------------------------------------------------------
(* The theorems.                                                           *)

\* The Trash starts empty, with no operation under way.
LEMMA InitHolds ==
  ASSUME Init
  PROVE  IInv
<1>1. op = Idle /\ op.pc = "idle" /\ op \in Ops
  BY IdleIsOp, IdlesPc DEF Init
<1>2. TypeOK
  <2>1. at \in [Files -> SUBSET Places]
    BY DEF Init, Places
  <2>2. rows \in Rows /\ albums \in SUBSET Albums /\ undo = None /\ share = "up" /\ excused = {}
    BY DEF Init, Rows, Places
  <2>3. entry \in [Names -> {None, "app", "stranger"}] /\ record \in [Keys -> Records \cup {None}]
    BY DEF Init
  <2>q. QED
    BY <1>1, <2>1, <2>2, <2>3 DEF TypeOK
<1>3. ShapeInv
  BY <1>1 DEF Init, ShapeInv, TrashPcs, BackPcs
<1>4. \A n \in Names : Inside(n) = {}
  BY HomeAssumption DEF Init, Inside, Files
<1>5. \A k \in Keys : record[k] = None
  BY DEF Init
<1>6. RecordInv
  BY <1>1, <1>4, <1>5 DEF RecordInv, EntriesInv, FolderInv, ContainerInv, RecordIsOfEntry, BackPcs
<1>7. LeaveInv
  BY <1>1 DEF Init, LeaveInv, LostInv, PassInv, Lost, TrashPcs
<1>8. EmptyInv /\ TellInv /\ AnswerIsTrue
  BY <1>1 DEF EmptyInv, TellInv, FoundInv, UntouchedInv, MovedInv, AnswerIsTrue, TrashPcs
<1>q. QED
  BY <1>2, <1>3, <1>6, <1>7, <1>8 DEF IInv

\* Every step keeps the invariant.
LEMMA StepKeeps ==
  ASSUME IInv, [Next]_vars
  PROVE  IInv'
<1>1. op \in Ops
  BY DEF IInv, TypeOK
<1>2. TypeOK' /\ ShapeInv' /\ RecordInv'
  BY <1>1, Types, ShapeOfStep, RecordsOfStep DEF IInv
<1>3. LeaveInv'
  BY <1>1, LostOfStep, PassOfStep DEF IInv, LeaveInv
<1>4. EmptyInv'
  BY <1>1, EmptyOfStep DEF IInv
<1>5. TellInv' /\ AnswerIsTrue'
  BY <1>1, FoundOfStep, UntouchedOfStep, MovedOfStep, AnswerOfStep DEF IInv, TellInv
<1>q. QED
  BY <1>2, <1>3, <1>4, <1>5 DEF IInv

\* The invariant, in which all four arguments meet.
THEOREM Invariant == Spec => []IInv
BY InitHolds, StepKeeps, PTL DEF Spec

\* The variables are of their types, whatever is done and whatever fails.
THEOREM TypesHold == Spec => []TypeOK
<1>1. IInv => TypeOK
  BY DEF IInv
<1>q. QED
  BY <1>1, Invariant, PTL

\* A record tells of what is in its entry (trash.py's _unique_trash_dest claims a
\* name only where no record is kept), however many names share a key.
THEOREM RecordsTell == Spec => []RecordIsOfEntry
<1>1. IInv => RecordIsOfEntry
  BY DEF IInv, RecordInv
<1>q. QED
  BY <1>1, Invariant, PTL

\* No row goes while its file stays in the music folder (_require_move_happened),
\* but for what the import reads and where the share misled the check.
THEOREM NoFileIsStranded == Spec => []DroppedIsInTrash
<1>1. IInv => DroppedIsInTrash
  BY NoneAssumption DEF IInv, LeaveInv, LostInv, Lost, DroppedIsInTrash
<1>q. QED
  BY <1>1, Invariant, PTL

\* A delete that says it deleted nothing, or moved some, or is done, says what it
\* did (_partial and _recovery of delete.py).
THEOREM AnswersAreTrue == Spec => []AnswerIsTrue
<1>1. IInv => AnswerIsTrue
  BY DEF IInv
<1>q. QED
  BY <1>1, Invariant, PTL

\* The program takes the last copy of a file in one place only: an entry of the
\* Trash that is emptied and that no row of the library is in (_listed_entries).
THEOREM OnlyEmptyingDestroys == Spec => OnlyEmptyDestroys
<1>1. ASSUME IInv, [Next]_vars
      PROVE  [\A x \in Files : at[x] # {} /\ at'[x] = {} /\ op' # op =>
                /\ op.kind = "empty"
                /\ \E n \in Names : at[x] = {n} /\ (x \in Tracks => rows[x] # n)]_vars
  <2>1. \A x \in Files : Destroyed(x) => Emptied(x)
    BY <1>1, DestroyedOfStep DEF IInv, TypeOK
  <2>q. QED
    BY <2>1 DEF Destroyed, Emptied
<1>q. QED
  BY <1>1, Invariant, PTL DEF Spec, OnlyEmptyDestroys
=============================================================================
