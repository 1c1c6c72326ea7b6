--------------------------------- MODULE Trash ---------------------------------
(***************************************************************************)
(* The Trash: deletes of an album, an artist or duplicate copies, import   *)
(* Replace, the orphan sweep and the artist-image reset move files into    *)
(* entries of the Trash (beets/trash.py, delete.py, duplicates.py); restore *)
(* and empty take them out (beets/trash_manage.py); a record beside the    *)
(* Trash says where an entry came from (beets/trash_origins.py). All hold  *)
(* the swap lock, so one operation runs at a time, but each takes many     *)
(* steps, any of which may fail or be the last before the process ends,    *)
(* while the music share comes and goes and people change the Trash.       *)
(* A file has a set of places: a move across filesystems copies, then      *)
(* removes. Sidecars, covers, protected trees and links are left out.      *)
(***************************************************************************)
EXTENDS Naturals

CONSTANTS
  None,
  Albums, Tracks, AlbumOf,   \* each track is of one album
  Husks,        \* folders without audio, which the orphan sweep moves
  Images,       \* an artist's uploaded images
  Names, Keys, KeyOf,        \* names of entries; long names share a record's key
  Faults,       \* whether calls of the filesystem may fail
  MaxOps,       \* bound: operations
  MaxOutside    \* bound: changes of the share and of the Trash by others

ASSUME AlbumOfAssumption == AlbumOf \in [Tracks -> Albums]
ASSUME KeyOfAssumption == KeyOf \in [Names -> Keys]
ASSUME NoneAssumption == None \notin Albums \cup Names \cup {"home", "app", "stranger"}
ASSUME HomeAssumption == "home" \notin Names
ASSUME FilesAssumption ==
  Tracks \cap Husks = {} /\ Tracks \cap Images = {} /\ Husks \cap Images = {}

Files == Tracks \cup Husks \cup Images
Places == Names \cup {"home"}

VARIABLES
  at,        \* per file, the places that hold a copy
  rows,      \* per track, the place its item row names (None: no row)
  albums,    \* the album rows
  undo,      \* what an open transaction rolls back to if the process ends
  entry,     \* per name, whose entry of the Trash has it: "app" or "stranger"
  record,    \* per key, the origin record: entry, shape and what was moved
  share,     \* "up", "down", or "stray": a mount point with other files in it
  op,        \* the operation under way
  begun,     \* history: rows and files when it began
  excused,   \* history: tracks whose rows went while the share misled the check
  ops, outside    \* bounds

db == <<rows, albums, undo>>
disk == <<at, entry>>
env == <<share, ops, outside>>
vars == <<at, rows, albums, undo, entry, record, share, op, begun, excused, ops, outside>>

Idle == [kind |-> "idle", pc |-> "idle", todo |-> {}, album |-> None, name |-> None,
         left |-> {}, reading |-> {}, fromHome |-> FALSE, mutated |-> FALSE, moved |-> FALSE,
         misled |-> FALSE, clean |-> TRUE, answer |-> None]

Init ==
  /\ at \in [Files -> {{}, {"home"}}]
  /\ \A x \in Husks \cup Images : at[x] = {"home"}
  /\ rows = [t \in Tracks |-> "home"] /\ albums = Albums /\ undo = None
  /\ entry = [n \in Names |-> None]
  /\ record = [k \in Keys |-> None]
  /\ share = "up" /\ op = Idle /\ begun = None /\ excused = {}
  /\ ops = 0 /\ outside = 0

(***************************************************************************)
(* What the library and the Trash look like.                               *)
(***************************************************************************)
Items(a) == {t \in Tracks : AlbumOf[t] = a /\ rows[t] # None}
Exists(t) == rows[t] \in at[t] /\ (rows[t] = "home" => share = "up")
Inside(n) == {x \in Files : n \in at[x]}

\* require_library_root.
RootReadable == share # "down"

\* require_library_present draws one row of each sampled album, wherever it is.
DrawFinds == (\A t \in Tracks : rows[t] = None) \/ \E t \in Tracks : rows[t] # None /\ Exists(t)
DrawMisses ==
  /\ \E t \in Tracks : rows[t] # None
  /\ \A a \in Albums : Items(a) # {} => \E t \in Items(a) : ~Exists(t)

\* origin_recorded: whether a record is kept under the name's key, anybody's.
Recorded(n) == record[KeyOf[n]] # None

\* _names_a_different_entry: that record is of another entry of the same key.
OfAnother(n) == Recorded(n) /\ record[KeyOf[n]].name # n

\* Mutant: only the Trash is asked.
FreeInTrash(n) == entry[n] = None

\* _unique_trash_dest: a name no entry has and no record is kept under.
Free(n) == entry[n] = None /\ ~Recorded(n)

\* read_trash_origin: a record of another entry under the same key is none.
RecordOf(n) == IF Recorded(n) /\ ~OfAnother(n) THEN record[KeyOf[n]] ELSE None

Write(n, shape, what) ==
  record' = [record EXCEPT ![KeyOf[n]] = [name |-> n, moved |-> shape, of |-> what]]

\* write_trash_origin and delete_trash_origin only log what they cannot do.
WriteRecord(n, shape, what) == Write(n, shape, what) \/ (Faults /\ UNCHANGED record)
DeleteRecord(n) ==
  \/ record' = IF OfAnother(n) THEN record ELSE [record EXCEPT ![KeyOf[n]] = None]
  \/ Faults /\ UNCHANGED record

Put(x, places) == at' = [at EXCEPT ![x] = places]

(***************************************************************************)
(* The operation under way.                                                *)
(***************************************************************************)
Begin(start) ==
  /\ op = Idle /\ ops < MaxOps
  /\ op' = start /\ ops' = ops + 1
  /\ begun' = [rows |-> rows, albums |-> albums, at |-> at]

To(pc) == op' = [op EXCEPT !.pc = pc]

\* The end of the transaction, if there is one, keeps what was written, whether
\* the body raised or not.
Answer(what) ==
  /\ op' = [Idle EXCEPT !.kind = op.kind, !.pc = "answer", !.answer = what]
  /\ undo' = None

\* Mutant: always as if nothing had been done before.
RaiseAsFirst(what) == Answer(what)

\* The caller of a delete names how far it came (_partial, _recovery).
Raise(what) ==
  Answer(IF op.kind # "artist" \/ ~op.mutated THEN what
         ELSE IF op.moved THEN "some moved" ELSE "some dropped")

Close ==
  /\ op.pc = "answer"
  /\ op' = Idle /\ begun' = None
  /\ UNCHANGED <<disk, db, record, env, excused>>

(***************************************************************************)
(* Deletes, duplicates and Replace: album by album through trash_album.    *)
(***************************************************************************)
\* One transaction around a delete or a resolved group; none around Replace,
\* whose import may be reading some of the files.
StartTrashing(kind, as, reading) ==
  /\ as # {} /\ as \subseteq albums
  /\ kind = "album" => \E a \in as : as = {a}
  /\ kind \in {"artist", "replace"} => RootReadable
  /\ kind = "replace" \/ reading = {}
  /\ Begin([Idle EXCEPT !.kind = kind, !.pc = "next", !.todo = as, !.reading = reading])
  /\ undo' = IF kind = "replace" THEN None ELSE [rows |-> rows, albums |-> albums]
  /\ UNCHANGED <<disk, rows, albums, record, share, outside, excused>>

\* _all_rows_are_in_trash: only the rows are left to go. Only a delete asks.
LeftInTrash(a) ==
  /\ op.kind \in {"album", "artist"}
  /\ Items(a) # {} /\ \A t \in Items(a) : rows[t] \in Names /\ Exists(t)

\* _album_file_state: nothing of a copy Replace disposes of is there.
Absent(a) == op.kind = "replace" /\ \A t \in Items(a) : ~Exists(t)

Take(a, pc) == op' = [op EXCEPT !.pc = pc, !.album = a, !.name = None]

NextAlbum(a) ==
  /\ op.pc = "next" /\ a \in op.todo
  /\ \/ /\ LeftInTrash(a)
        /\ \E t \in Items(a) : op' = [op EXCEPT !.pc = "remove", !.album = a, !.name = rows[t]]
        /\ UNCHANGED undo
     \/ Absent(a) /\ Take(a, "remove") /\ UNCHANGED undo
     \/ ~LeftInTrash(a) /\ ~Absent(a) /\ RootReadable
          /\ Take(a, IF Items(a) = {} THEN "remove" ELSE "claim") /\ UNCHANGED undo
     \/ ~LeftInTrash(a) /\ ~Absent(a) /\ ~RootReadable /\ Raise("unavailable")
     \/ ~Absent(a) /\ Faults /\ Raise("nothing deleted")     \* the store of records
  /\ UNCHANGED <<disk, rows, albums, record, env, begun, excused>>

\* Rows of files the import reads go first, their files stay
\* (_drop_rows_the_run_is_reading); then the container is made.
Claim(n) ==
  /\ op.pc = "claim" /\ Free(n)
  /\ entry' = [entry EXCEPT ![n] = "app"]
  /\ LET mine == Items(op.album) \cap op.reading IN
     /\ rows' = [t \in Tracks |-> IF t \in mine THEN None ELSE rows[t]]
     /\ excused' = excused \cup mine
     /\ op' = [op EXCEPT !.pc = "moving", !.name = n, !.left = Items(op.album) \ mine,
                         !.fromHome = \E t \in Items(op.album) \ mine : rows[t] = "home"]
  /\ UNCHANGED <<at, albums, undo, record, env, begun>>

\* album.move, one track: a file that is not there is passed over; a failure ends
\* the move, with the copy made or not.
MoveTrack(t) ==
  /\ op.pc = "moving" /\ t \in op.left
  /\ LET done == [op EXCEPT !.left = @ \ {t}] IN
     \/ /\ Exists(t)
        /\ Put(t, (at[t] \ {rows[t]}) \cup {op.name})
        /\ rows' = [rows EXCEPT ![t] = op.name]
        /\ op' = done /\ UNCHANGED undo
     \/ /\ ~Exists(t)
        /\ op' = done /\ UNCHANGED <<at, rows, undo>>
     \/ /\ Faults /\ Exists(t)
        /\ \E copied \in BOOLEAN : Put(t, IF copied THEN at[t] \cup {op.name} ELSE at[t])
        /\ Raise("failed") /\ UNCHANGED rows
  /\ UNCHANGED <<albums, entry, record, env, begun, excused>>

\* Mutant: whatever did not move is taken to be gone.
CheckNothing ==
  /\ op.pc = "moving" /\ op.left = {}
  /\ To("record")
  /\ UNCHANGED <<disk, db, record, env, begun, excused>>

\* _require_move_happened: an album of which nothing moved keeps its rows unless
\* its files are gone from a library that is there.
Check ==
  /\ op.pc = "moving" /\ op.left = {}
  /\ LET items == Items(op.album)
         moved == {t \in items : rows[t] = op.name}
     IN IF moved = items /\ items # {}
          THEN To("record") /\ UNCHANGED <<entry, undo>>
          ELSE /\ entry' = IF Inside(op.name) = {} THEN [entry EXCEPT ![op.name] = None] ELSE entry
               /\ \/ ~RootReadable /\ Raise("unavailable")
                  \/ RootReadable /\ moved # {} /\ To("record") /\ UNCHANGED undo
                  \/ RootReadable /\ moved = {} /\ (\E t \in items : Exists(t)) /\ Raise("failed")
                  \/ /\ RootReadable /\ moved = {} /\ \A t \in items : ~Exists(t)
                     /\ \/ DrawMisses /\ Raise("unavailable")
                        \/ DrawFinds /\ Take(op.album, "remove") /\ UNCHANGED undo
  /\ UNCHANGED <<at, rows, albums, record, env, begun, excused>>

\* Only what came from outside the Trash has an origin.
RecordAlbum ==
  /\ op.pc = "record"
  /\ To("remove")
  /\ IF op.fromHome THEN WriteRecord(op.name, "items", Items(op.album)) ELSE UNCHANGED record
  /\ UNCHANGED <<disk, db, env, begun, excused>>

\* album.remove: the album's row, then its items'; a failure between them leaves
\* items that no album lists.
RemoveRows ==
  /\ op.pc = "remove"
  /\ albums' = albums \ {op.album}
  /\ \/ /\ rows' = [t \in Tracks |-> IF AlbumOf[t] = op.album THEN None ELSE rows[t]]
        /\ excused' = IF op.misled \/ (share = "stray" /\ (op.kind = "replace"
                                         \/ \E t \in Tracks : rows[t] \in Names))
                        THEN excused \cup Items(op.album) ELSE excused
        /\ op' = [op EXCEPT !.pc = "next", !.todo = @ \ {op.album}, !.mutated = TRUE,
                            !.moved = @ \/ op.name # None, !.album = None, !.name = None,
                            !.fromHome = FALSE]
        /\ UNCHANGED undo
     \/ Faults /\ Raise("failed") /\ UNCHANGED <<rows, excused>>
  /\ UNCHANGED <<disk, record, env, begun>>

FinishTrashing ==
  /\ op.pc = "next" /\ op.todo = {}
  /\ Answer("done")
  /\ UNCHANGED <<disk, rows, albums, record, env, begun, excused>>

(***************************************************************************)
(* The orphan sweep and the artist-image reset.                            *)
(***************************************************************************)
StartSweep(h) ==
  /\ at[h] # {} /\ "home" \in at[h] /\ share = "up"
  /\ Begin([Idle EXCEPT !.kind = "sweep", !.pc = "sweep", !.left = {h}])
  /\ UNCHANGED <<disk, db, record, share, outside, excused>>

\* trash_folder: the whole folder becomes the entry.
SweepFolder(h, n) ==
  /\ op.pc = "sweep" /\ h \in op.left /\ share = "up" /\ Free(n)
  /\ entry' = [entry EXCEPT ![n] = "app"]
  /\ \/ /\ Put(h, (at[h] \ {"home"}) \cup {n})
        /\ op' = [op EXCEPT !.pc = "record files", !.name = n]
        /\ UNCHANGED undo
     \/ Faults /\ Put(h, at[h] \cup {n}) /\ Answer("failed")
  /\ UNCHANGED <<rows, albums, record, env, begun, excused>>

StartReset ==
  /\ \E i \in Images : "home" \in at[i]
  /\ Begin([Idle EXCEPT !.kind = "reset", !.pc = "reset",
                        !.left = {i \in Images : "home" \in at[i]}])
  /\ UNCHANGED <<disk, db, record, share, outside, excused>>

ClaimReset(n) ==
  /\ op.pc = "reset" /\ Free(n)
  /\ entry' = [entry EXCEPT ![n] = "app"]
  /\ op' = [op EXCEPT !.pc = "reset move", !.name = n]
  /\ UNCHANGED <<at, db, record, env, begun, excused>>

\* _move_between_fds, one file; a failure may leave a copy, never the only one.
MoveImage(i) ==
  /\ op.pc = "reset move" /\ i \in op.left
  /\ \/ /\ Put(i, (at[i] \ {"home"}) \cup {op.name})
        /\ op' = [op EXCEPT !.left = @ \ {i}, !.moved = TRUE]
     \/ /\ Faults
        /\ \E copied \in BOOLEAN : Put(i, IF copied THEN at[i] \cup {op.name} ELSE at[i])
        /\ op' = [op EXCEPT !.left = {}, !.clean = FALSE]
  /\ UNCHANGED <<db, entry, record, env, begun, excused>>

\* With nothing moved the container and what was copied into it are discarded.
EndReset ==
  /\ op.pc = "reset move" /\ op.left = {}
  /\ IF op.moved
       THEN To("record files") /\ UNCHANGED <<disk, undo>>
       ELSE /\ at' = [x \in Files |-> at[x] \ {op.name}]
            /\ entry' = [entry EXCEPT ![op.name] = None]
            /\ Answer("failed")
  /\ UNCHANGED <<rows, albums, record, env, begun, excused>>

RecordFiles ==
  /\ op.pc = "record files"
  /\ WriteRecord(op.name, IF op.kind = "sweep" THEN "folder" ELSE "files", Inside(op.name))
  /\ Answer(IF op.clean THEN "done" ELSE "failed")
  /\ UNCHANGED <<disk, rows, albums, env, begun, excused>>

(***************************************************************************)
(* Restore. It needs the share; that the presence check may pass without   *)
(* it (an empty library, rows in the Trash) is left out.                   *)
(***************************************************************************)
\* move_back_target: a record of a whole folder; the library's root stays.
GoesBack(r) == r # None /\ r.moved = "folder"

\* occupied: an empty folder at the origin does not count.
OriginFree(r) == \A x \in r.of : "home" \notin at[x]

\* Artist images are refused; a folder of the music library goes back where it
\* was unless something is there; anything else is imported from where it lies.
StartRestore(n) ==
  /\ entry[n] # None /\ share = "up" /\ DrawFinds
  /\ LET r == RecordOf(n)
         back == GoesBack(r)
     IN /\ r # None => r.moved # "files"
        /\ back => OriginFree(r)
        /\ Begin([Idle EXCEPT !.kind = "restore", !.pc = IF back THEN "move back" ELSE "import",
                              !.name = n, !.left = IF back THEN r.of ELSE Inside(n) \cap Tracks])
  /\ UNCHANGED <<disk, db, record, share, outside, excused>>

\* move_no_merge: the entry is renamed to the origin, or copied and removed.
MoveBack ==
  /\ op.pc = "move back"
  /\ \/ /\ at' = [x \in Files |-> IF op.name \in at[x] THEN (at[x] \ {op.name}) \cup {"home"}
                                                       ELSE at[x]]
        /\ entry' = [entry EXCEPT ![op.name] = None]
        /\ To("in place") /\ UNCHANGED undo
     \/ /\ Faults
        /\ \E copied \in SUBSET Inside(op.name) :
             at' = [x \in Files |-> IF x \in copied THEN at[x] \cup {"home"} ELSE at[x]]
        /\ Answer("failed") /\ UNCHANGED entry
  /\ UNCHANGED <<rows, albums, record, env, begun, excused>>

\* A folder without audio is restored by being there; anything else that the
\* import does not add goes back to the Trash.
ImportInPlace ==
  /\ op.pc = "in place"
  /\ \/ DeleteRecord(op.name) /\ Answer("done")
     \/ Faults /\ To("return") /\ UNCHANGED <<record, undo>>
  /\ UNCHANGED <<disk, rows, albums, env, begun, excused>>

\* _whereabouts: whether the name is in the Trash after the failure; it says
\* nothing of whose folder that is.
InTrash(n) == entry[n] # None

\* _return_to_trash: onto a free name only; across file systems the copy may
\* stop part-way, or leave the folder at both places.
MoveToTrash(n, xs) ==
  /\ ~InTrash(n) /\ entry' = [entry EXCEPT ![n] = "app"]
  /\ \/ at' = [x \in Files |-> IF x \in xs THEN (at[x] \ {"home"}) \cup {n} ELSE at[x]]
     \/ Faults /\ \E copied \in SUBSET xs :
          at' = [x \in Files |-> IF x \in copied THEN at[x] \cup {n} ELSE at[x]]

\* _undo_failure: the record goes only when nothing is in the Trash.
ReturnToTrash ==
  /\ op.pc = "return"
  /\ \/ MoveToTrash(op.name, op.left) /\ UNCHANGED record
     \/ Faults /\ ~InTrash(op.name) /\ DeleteRecord(op.name) /\ UNCHANGED disk
     \/ InTrash(op.name) /\ UNCHANGED <<disk, record>>
  /\ Answer("failed")
  /\ UNCHANGED <<rows, albums, env, begun, excused>>

\* The import of an entry: the rows first, with the files where they are, then
\* the files one by one; it adds nothing of an album the library has.
ImportEntry ==
  /\ op.pc = "import"
  /\ LET of == {AlbumOf[t] : t \in op.left} IN
     \/ /\ op.left # {} /\ of \cap albums = {} /\ \A t \in op.left : rows[t] = None
        /\ rows' = [t \in Tracks |-> IF t \in op.left THEN op.name ELSE rows[t]]
        /\ albums' = albums \cup of
        /\ To("land") /\ UNCHANGED undo
     \/ Answer("failed") /\ UNCHANGED <<rows, albums>>
  /\ UNCHANGED <<disk, record, env, begun, excused>>

LandTrack(t) ==
  /\ op.pc = "land" /\ t \in op.left /\ share = "up"
  /\ \/ /\ op.name \in at[t]
        /\ Put(t, (at[t] \ {op.name}) \cup {"home"})
        /\ rows' = [rows EXCEPT ![t] = "home"]
        /\ op' = [op EXCEPT !.left = @ \ {t}] /\ UNCHANGED undo
     \/ Answer("failed") /\ (Faults \/ op.name \notin at[t]) /\ UNCHANGED <<at, rows>>
  /\ UNCHANGED <<albums, entry, record, env, begun, excused>>

\* An emptied entry may stay as a folder.
EndImport ==
  /\ op.pc = "land" /\ (op.left = {} \/ share # "up")
  /\ IF op.left = {}
       THEN /\ DeleteRecord(op.name)
            /\ Answer("done")
            /\ entry' = [entry EXCEPT ![op.name] = IF Inside(op.name) = {} THEN None ELSE @]
                 \/ UNCHANGED entry
       ELSE Answer("failed") /\ UNCHANGED <<record, entry>>
  /\ UNCHANGED <<at, rows, albums, env, begun, excused>>

(***************************************************************************)
(* Emptying the Trash.                                                     *)
(***************************************************************************)
\* Mutant: what the library lists is not asked.
StartEmptyUnlisted(ns) ==
  /\ ns # {} /\ \A n \in ns : entry[n] # None
  /\ Begin([Idle EXCEPT !.kind = "empty", !.pc = "empty", !.todo = ns])
  /\ UNCHANGED <<disk, db, record, share, outside, excused>>

\* One entry or all; those with a library row inside are kept (_listed_entries).
StartEmpty(ns) ==
  /\ ns # {} /\ \A n \in ns : entry[n] # None
  /\ LET listed == {n \in ns : \E t \in Tracks : rows[t] = n} IN
     Begin([Idle EXCEPT !.kind = "empty", !.pc = "empty", !.todo = ns \ listed,
                        !.clean = listed = {}])
  /\ UNCHANGED <<disk, db, record, share, outside, excused>>

\* _Remover: file by file; a refusal or a failure leaves the rest.
EmptyFile(n, x) ==
  /\ op.pc = "empty" /\ n \in op.todo /\ n \in at[x]
  /\ \/ /\ Put(x, at[x] \ {n})
        /\ op' = [op EXCEPT !.name = n]
     \/ /\ Faults
        /\ op' = [op EXCEPT !.todo = @ \ {n}, !.clean = FALSE]
        /\ UNCHANGED at
  /\ UNCHANGED <<db, entry, record, env, begun, excused>>

EmptyEntry(n) ==
  /\ op.pc = "empty" /\ n \in op.todo /\ Inside(n) = {}
  /\ entry' = [entry EXCEPT ![n] = None]
  /\ DeleteRecord(n)
  /\ op' = [op EXCEPT !.todo = @ \ {n}, !.moved = TRUE]
  /\ UNCHANGED <<at, db, env, begun, excused>>

\* clear_trash_origins, when everything went and nothing is left.
EndEmpty ==
  /\ op.pc = "empty" /\ op.todo = {}
  /\ Answer(IF op.clean THEN "done" ELSE "failed")
  /\ \/ UNCHANGED record
     \/ /\ op.clean /\ op.moved /\ \A n \in Names : entry[n] = None
        /\ record' = [k \in Keys |-> None]
  /\ UNCHANGED <<disk, rows, albums, env, begun, excused>>

(***************************************************************************)
(* The process, the share and other people.                                *)
(***************************************************************************)
Crash ==
  /\ op # Idle
  /\ op' = Idle /\ begun' = None /\ undo' = None
  /\ rows' = IF undo = None THEN rows ELSE undo.rows
  /\ albums' = IF undo = None THEN albums ELSE undo.albums
  /\ UNCHANGED <<disk, record, env, excused>>

Outside == outside < MaxOutside /\ outside' = outside + 1

\* A share that comes back, or shows other files, while an album moves can pass
\* for one from which the files are gone, also when it has left again by the time
\* the rows go; Replace looks at the root only once.
ShareTurns(s) ==
  /\ Outside /\ s # share
  /\ share' = s
  /\ op' = [op EXCEPT !.misled = @ \/ (op # Idle /\ (s # "down" \/ share = "stray"
                                                        \/ op.kind = "replace"))]
  /\ UNCHANGED <<disk, db, record, ops, begun, excused>>

StrangerPuts(n) ==
  /\ Outside /\ entry[n] = None
  /\ entry' = [entry EXCEPT ![n] = "stranger"]
  /\ UNCHANGED <<at, db, record, share, ops, op, begun, excused>>

StrangerTakes(n) ==
  /\ Outside /\ entry[n] # None /\ op = Idle
  /\ entry' = [entry EXCEPT ![n] = None]
  /\ at' = [x \in Files |-> at[x] \ {n}]
  /\ UNCHANGED <<db, record, share, ops, op, begun, excused>>

TrashStep ==
  \/ \E as \in SUBSET Albums, kind \in {"album", "artist", "resolve", "replace"} :
       \E reading \in {{}} \cup {{t} : t \in Tracks} : StartTrashing(kind, as, reading)
  \/ \E a \in Albums : NextAlbum(a)
  \/ \E n \in Names : Claim(n)
  \/ \E t \in Tracks : MoveTrack(t)
  \/ Check \/ RecordAlbum \/ RemoveRows \/ FinishTrashing

SweepStep == \E h \in Husks : StartSweep(h) \/ \E n \in Names : SweepFolder(h, n)
ResetStep ==
  \/ StartReset \/ EndReset \/ RecordFiles
  \/ \E n \in Names : ClaimReset(n)
  \/ \E i \in Images : MoveImage(i)
RestoreStep ==
  \/ \E n \in Names : StartRestore(n)
  \/ MoveBack \/ ImportInPlace \/ ReturnToTrash \/ ImportEntry \/ EndImport
  \/ \E t \in Tracks : LandTrack(t)
EmptyStep ==
  \/ \E ns \in {{n} : n \in Names} \cup {{n \in Names : entry[n] # None}} : StartEmpty(ns)
  \/ \E n \in Names : EmptyEntry(n) \/ \E x \in Files : EmptyFile(n, x)
  \/ EndEmpty
OutsideStep ==
  \/ \E s \in {"up", "down", "stray"} : ShareTurns(s)
  \/ \E n \in Names : StrangerPuts(n) \/ StrangerTakes(n)

Next ==
  \/ TrashStep \/ SweepStep \/ ResetStep \/ RestoreStep \/ EmptyStep
  \/ Close \/ Crash \/ OutsideStep

Spec == Init /\ [][Next]_vars

(***************************************************************************)
(* Properties.                                                             *)
(***************************************************************************)
\* A step of the program takes the last copy of a file only when it empties an
\* entry of the Trash that no row of the library is in.
OnlyEmptyDestroys ==
  [][\A x \in Files : at[x] # {} /\ at'[x] = {} /\ op' # op =>
       /\ op.kind = "empty"
       /\ \E n \in Names : at[x] = {n} /\ (x \in Tracks => rows[x] # n)]_vars

\* The record an entry of ours is restored by tells of what is in it: no entry
\* takes over the origin of one that had its name or its key before.
RecordIsOfEntry ==
  \A n \in Names : entry[n] = "app" /\ RecordOf(n) # None => Inside(n) \subseteq RecordOf(n).of

\* A file whose rows were dropped is not left in the music folder, where nothing
\* would find it: not by a ghost check, a partial move, a failure or a crash. It
\* can be only where the share misled the check, or the import reads it.
DroppedIsInTrash ==
  \A t \in Tracks : rows[t] = None /\ "home" \in at[t] => t \in excused

\* What the answer of a delete says is so: nothing deleted, some moved to Trash
\* (or found there, by rows of an entry that others have since taken away).
AnswerIsTrue ==
  op.pc = "answer" =>
    /\ op.answer = "nothing deleted" /\ op.kind \in {"album", "artist"} =>
         rows = begun.rows /\ albums = begun.albums /\ at = begun.at
    /\ op.answer = "some moved" =>
         \E t \in Tracks : begun.rows[t] # None /\ rows[t] = None
                          /\ (at[t] \cap Names # {} \/ begun.rows[t] \in Names)
    /\ op.answer = "done" /\ op.kind = "album" => albums # begun.albums
================================================================================
