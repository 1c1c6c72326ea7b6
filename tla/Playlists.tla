----------------------------- MODULE Playlists -----------------------------
(***************************************************************************)
(* The playlists (playlists/store.py, api/playlists.py), their .m3u8       *)
(* exports, and their copies on the Plex accounts they are pushed to       *)
(* (plex/sync.py).                                                         *)
(*                                                                         *)
(* A change of a record is one step, made under the store's lock.  What    *)
(* a request does before and after it is not: it reads the record, talks   *)
(* to Plex account by account, and writes the export from the record it    *)
(* was handed.  A copy on Plex is known by the marker in its summary and,  *)
(* where there is none, by the rating key the record keeps.  What one push *)
(* does to the rows of a copy is PlexPush; here it is done or it fails.    *)
(***************************************************************************)
EXTENDS Integers, Sequences, SequencesExt, FiniteSets

CONSTANTS
    Ids,           \* playlist ids; an id is given to one playlist ever
    Users,         \* Plex accounts a playlist may be shared with
    Items,         \* tracks of the library
    Images,        \* cover images
    FormatOf,      \* the format of an image: jpg or png
    Requests,      \* requests that may be under way together
    MaxRequests,   \* requests in all
    MaxFaults,     \* troubles of Plex or of the disk
    MaxMeddling    \* changes made on Plex itself

ASSUME UsersAssumption == IsFiniteSet(Users) /\ "nowhere" \notin Users
ASSUME ItemsAssumption == "pending" \notin Items
ASSUME IdsAssumption == {"someone", "no mark"} \cap Ids = {}

Accounts == {"admin"} \union Users
Nowhere == "nowhere"     \* at no account
NoKey == 0
NoImage == "no image"
Pending == "pending"     \* an entry no library track has been found for
Someone == "someone"     \* owner of a playlist that is not MusicDrop's
NoMark == "no mark"
Unborn == [alive |-> FALSE, was |-> FALSE]
Gone == [alive |-> FALSE, was |-> TRUE]
Only(S) == CHOOSE x \in S : S = {x}
Idle == [op |-> "idle", ids |-> {}]

VARIABLES
    records,       \* id -> the record, or Gone
    images,        \* id -> the cover files on disk
    exports,       \* id -> its .m3u8, and whether the last write of it failed
    library,       \* the tracks the library holds
    plex,          \* account -> the playlists on it
    keys,          \* rating keys given so far
    req,           \* request -> what it is doing
    started, faults, meddled,   \* counts, bounded
    unsure         \* ghost: <<what, id>> that two requests had at once, or Plex
                   \* or the disk refused in a way the code gives up on

vars == <<records, images, exports, library, plex, keys, req, started, faults,
          meddled, unsure>>
disk == <<records, images, exports, library>>

-----------------------------------------------------------------------------
(* Requests.                                                               *)

\* What a request at work holds that another may disturb.
Holds(q) ==
    CASE q.op = "sync" -> {"copies", "poster"} \X q.ids
      [] q.op = "delete" -> {"copies"} \X q.ids
      [] q.op = "uncopy" -> {"copies", "export"} \X q.ids
      [] q.op = "merged" -> ({"export"} \X q.ids) \union {<<"copies", q.source>>}
      [] q.op \in {"export", "reexport"} -> {"export"} \X q.ids
      [] q.op = "imported" -> {"export", "poster"} \X q.ids
      [] q.op \in {"idle", "check"} -> {}

\* Request r goes on to what comes next, and meets what is under way.
Turn(r, next) ==
    /\ req' = [req EXCEPT ![r] = next]
    /\ unsure' = unsure \union
            UNION {Holds(next) \cap Holds(req[q]) : q \in Requests \ {r}}

Begin(r, next) ==
    /\ req[r] = Idle /\ started < MaxRequests
    /\ started' = started + 1
    /\ Turn(r, next)
    /\ UNCHANGED <<faults, meddled>>

Continue(r, next) == Turn(r, next) /\ UNCHANGED <<started, meddled>>
Ends(r, doubt) == /\ req' = [req EXCEPT ![r] = Idle]
                  /\ unsure' = unsure \union doubt
                  /\ UNCHANGED <<started, meddled>>

Well == UNCHANGED faults
Fault == faults < MaxFaults /\ faults' = faults + 1

Record(i) == records[i]
Alive(i) == records[i].alive
Entry(n, item) == [uid |-> <<started, n>>, item |-> item]
Uids(record) == {e.uid : e \in ToSet(record.entries)}
TracksOf(record) == {record.entries[n].item : n \in DOMAIN record.entries} \ {Pending}

\* The .m3u8 of a record: its resolved entries that the library still has, each
\* told with its place in the record, and so in their order.
Lines(record) == {n \in DOMAIN record.entries : record.entries[n].item \in library}
Render(record) == <<[n \in Lines(record) |-> record.entries[n].item]>>

\* Writing an export and removing it are best effort: a failure is logged, and
\* what was there stays.
NoFile == [file |-> <<>>, failed |-> FALSE]
Written(record) == [file |-> Render(record), failed |-> FALSE]
Failed(export) == [export EXCEPT !.failed = TRUE]

-----------------------------------------------------------------------------
(* The store: each operation one step under its lock.                      *)

NewRecord(entries) ==
    [alive |-> TRUE, entries |-> entries, targets |-> {}, plex |-> <<>>, art |-> NoImage]

WithTracks(record, entries, at) ==
    [record EXCEPT !.entries = SubSeq(@, 1, at) \o entries \o SubSeq(@, at + 1, Len(@))]
WithoutEntry(record, uid) ==
    [record EXCEPT !.entries = SelectSeq(@, LAMBDA e : e.uid # uid)]
InOrder(record, uids) ==
    LET known == SelectSeq(uids, LAMBDA u : u \in Uids(record))
    IN  [record EXCEPT !.entries = [n \in DOMAIN known |->
            CHOOSE e \in ToSet(record.entries) : e.uid = known[n]]]
WithItem(record, uid, item) ==
    [record EXCEPT !.entries = [n \in DOMAIN @ |->
        IF @[n].uid = uid THEN [@[n] EXCEPT !.item = item] ELSE @[n]]]

\* The rows of the source the target does not hold, by track; pending rows
\* are never compared.  The target's tracks are those before the merge.
Merged(target, source) ==
    LET copied == SelectSeq(source.entries, LAMBDA e :
                        e.item = Pending \/ e.item \notin TracksOf(target))
    IN  [target EXCEPT !.entries = @ \o [n \in DOMAIN copied |-> Entry(n, copied[n].item)]]

Deleted(i) == /\ records' = [records EXCEPT ![i] = Gone]
              /\ images' = [images EXCEPT ![i] = {}]

\* The record is written and its export is to follow.
Write(r, i, record) ==
    /\ records' = [records EXCEPT ![i] = record]
    /\ UNCHANGED <<images, exports, library, plex, keys>>

Exporting(i, record) == [op |-> "export", ids |-> {i}, record |-> record]

-----------------------------------------------------------------------------
(* Edits.                                                                  *)

\* Created empty by hand, or whole by an import, whose cover comes after.
Create(r, i, items, image) ==
    /\ records[i] = Unborn
    /\ LET record == NewRecord([n \in DOMAIN items |-> Entry(n, items[n])])
       IN  /\ Write(r, i, record)
           /\ Begin(r, IF image = NoImage THEN Exporting(i, record)
                       ELSE [op |-> "imported", ids |-> {i}, image |-> image,
                             record |-> record])

ImportCover(r, i) ==
    /\ req[r].op = "imported" /\ req[r].ids = {i}
    /\ IF Alive(i)
       THEN /\ images' = [images EXCEPT ![i] = {req[r].image}]
            /\ records' = [records EXCEPT ![i].art = req[r].image]
            /\ Continue(r, Exporting(i, records'[i]))
       ELSE /\ UNCHANGED <<records, images>>
            /\ Continue(r, Exporting(i, req[r].record))
    /\ Well /\ UNCHANGED <<exports, library, plex, keys>>

AddTracks(r, i, items, at) ==
    /\ Alive(i) /\ at <= Len(Record(i).entries)
    /\ LET record == WithTracks(Record(i), [n \in DOMAIN items |-> Entry(n, items[n])], at)
       IN  Write(r, i, record) /\ Begin(r, Exporting(i, record))

Retarget(r, i, targets) ==
    /\ Alive(i)
    /\ LET record == [Record(i) EXCEPT !.targets = targets]
       IN  Write(r, i, record) /\ Begin(r, Exporting(i, record))

\* An edit that names entries reads the record first and refuses what it does
\* not know; the lock is taken after.
Check(r, i) ==
    /\ Alive(i)
    /\ Begin(r, [op |-> "check", ids |-> {i}, uids |-> Uids(Record(i))])
    /\ UNCHANGED <<disk, plex, keys>>

Checked(r, i, record) ==
    IF Alive(i)
    THEN Write(r, i, record) /\ Continue(r, Exporting(i, record))
    ELSE UNCHANGED <<disk, plex, keys>> /\ Continue(r, Idle)

RemoveEntry(r, i, uid) ==
    /\ req[r].op = "check" /\ i \in req[r].ids /\ uid \in req[r].uids
    /\ Checked(r, i, WithoutEntry(Record(i), uid)) /\ Well

Reorder(r, i, uids) ==
    /\ req[r].op = "check" /\ i \in req[r].ids /\ ToSet(uids) \subseteq req[r].uids
    /\ Checked(r, i, InOrder(Record(i), uids)) /\ Well

ResolveEntry(r, i, uid, item) ==
    /\ req[r].op = "check" /\ i \in req[r].ids /\ uid \in req[r].uids /\ item \in library
    /\ IF Alive(i) /\ uid \notin Uids(Record(i))
       THEN UNCHANGED <<disk, plex, keys>> /\ Continue(r, Idle)
       ELSE Checked(r, i, WithItem(Record(i), uid, item))
    /\ Well

\* A cover: the file of its format, the other format's goes, then the record.
\* Nothing of it is exported: the request is over.
Cover(r, i, image) ==
    /\ Alive(i) /\ req[r] = Idle /\ started < MaxRequests
    /\ started' = started + 1
    /\ images' = [images EXCEPT ![i] = {image} \ {NoImage}]
    /\ records' = [records EXCEPT ![i].art = image]
    /\ unsure' = unsure \union
            ({<<"poster", i>>} \cap UNION {Holds(req[q]) : q \in Requests})
    /\ UNCHANGED <<exports, library, plex, keys, req, faults, meddled>>

SetArtwork(r, i, image) == image # NoImage /\ Cover(r, i, image)
DeleteArtwork(r, i) == Cover(r, i, NoImage)

\* The export is written from the record the edit returned.
Export(r) ==
    /\ req[r].op = "export"
    /\ \E i \in req[r].ids :
            \/ exports' = [exports EXCEPT ![i] = Written(req[r].record)] /\ Well
            \/ exports' = [exports EXCEPT ![i] = Failed(@)] /\ Fault
    /\ Continue(r, Idle)
    /\ UNCHANGED <<records, images, library, plex, keys>>

\* A library mover drops a track and lists the playlists it was in, then
\* writes their exports again.
DropTrack(r, item) ==
    /\ item \in library
    /\ library' = library \ {item}
    /\ LET holding == {i \in Ids : Alive(i) /\ item \in TracksOf(Record(i))}
       IN  Begin(r, [op |-> "reexport", ids |-> holding,
                     list |-> [i \in holding |-> Record(i)]])
    /\ UNCHANGED <<records, images, exports, plex, keys>>

Reexport(r) ==
    /\ req[r].op = "reexport"
    /\ \E written \in SUBSET req[r].ids :
            /\ exports' = [i \in Ids |-> CASE i \in written -> Written(req[r].list[i])
                                         [] i \in req[r].ids \ written -> Failed(exports[i])
                                         [] OTHER -> exports[i]]
            /\ IF written = req[r].ids THEN Well ELSE Fault
    /\ Continue(r, Idle)
    /\ UNCHANGED <<records, images, library, plex, keys>>

-----------------------------------------------------------------------------
(* Our copy on a Plex account.                                             *)

MarkedIn(list, i) == {p \in list : p.mark = i}

\* Mutant: the recorded key is trusted before any marker.
KeyFirst(list, i, key) ==
    IF \E p \in list : p.key = key THEN {p \in list : p.key = key}
    ELSE MarkedIn(list, i)

\* The copy of playlist i: by its marker, the recorded key deciding between
\* two; with no marker anywhere, by the key, unless another's marker is on it.
FindOurs(list, i, key) ==
    IF MarkedIn(list, i) # {}
    THEN IF \E p \in MarkedIn(list, i) : p.key = key
         THEN {p \in MarkedIn(list, i) : p.key = key}
         ELSE {CHOOSE p \in MarkedIn(list, i) :
                    \A q \in MarkedIn(list, i) : p.key <= q.key}
    ELSE {p \in list : p.key = key /\ p.mark = NoMark}

State(key, art, status) == [key |-> key, art |-> art, status |-> status]
PriorOf(snap, a) == IF a \in DOMAIN snap.plex THEN snap.plex[a]
                    ELSE State(NoKey, NoImage, "pending")
With(f, a, v) == [x \in DOMAIN f \union {a} |-> IF x = a THEN v ELSE f[x]]

\* What reconciling an account that failed records: what was known before.
FailedState(prior) == State(prior.key, prior.art, "failed")

\* Mutant: an account no longer a target is dropped, deleted from or not.
DroppedState(prior) == State(NoKey, NoImage, "absent")

\* An account whose delete did not answer is kept, to be tried again.
KeptState(prior) == prior

\* The poster file opened now, under the name the snapshot gives it.
PosterNow(i, art) == {im \in images[i] : art # NoImage /\ FormatOf[im] = FormatOf[art]}

\* What a request needs later of the record it read: its copies and targets.
Snapshot(record) == [record EXCEPT !.entries = <<>>, !.art = NoImage]

-----------------------------------------------------------------------------
(* A sync.                                                                 *)

\* The record is read once; its cover counts only where the file is there.
StartSync(r, i) ==
    /\ Alive(i)
    /\ Begin(r, [op |-> "sync", ids |-> {i}, snap |-> Snapshot(Record(i)),
                 art |-> IF PosterNow(i, Record(i).art) # {} THEN Record(i).art ELSE NoImage,
                 tracks |-> Lines(Record(i)) # {},
                 left |-> {"admin"} \union Record(i).targets, at |-> Nowhere, found |-> {},
                 states |-> <<>>])
    /\ UNCHANGED <<disk, plex, keys>>

Syncing(r, i, at) == req[r].op = "sync" /\ req[r].ids = {i} /\ req[r].at = at

\* Plex cannot be reached at all: nothing is pushed and nothing recorded.
SyncRefused(r, i) ==
    /\ Syncing(r, i, Nowhere) /\ req[r].states = <<>>
    /\ Continue(r, Idle) /\ Fault
    /\ UNCHANGED <<disk, plex, keys>>

Recorded(r, a, state) == [req[r] EXCEPT !.left = @ \ {a}, !.at = Nowhere, !.found = {},
                                        !.states = With(@, a, state)]

\* The account is asked for its playlists and our copy picked from them.
Look(r, i, a) ==
    /\ Syncing(r, i, Nowhere) /\ a \in req[r].left
    /\ a = "admin" \/ "admin" \notin req[r].left
    /\ LET prior == PriorOf(req[r].snap, a)
       IN  \/ /\ Continue(r, [req[r] EXCEPT !.at = a,
                                !.found = FindOurs(plex[a], i, prior.key)])
              /\ Well
           \/ Continue(r, Recorded(r, a, FailedState(prior))) /\ Fault
    /\ UNCHANGED <<disk, plex, keys>>

\* A cover that has changed since it was last pushed is uploaded.
Uploading(r, i, hash) == req[r].art \notin {NoImage, hash} /\ PosterNow(i, req[r].art) # {}

\* Mutant: the cover is recorded as pushed whether or not the upload worked.
HopefulPoster(r, i, old, hash, uploads) ==
    IF req[r].art \in {NoImage, hash} THEN [poster |-> old, art |-> hash]
    ELSE [poster |-> IF uploads /\ PosterNow(i, req[r].art) # {}
                     THEN Only(PosterNow(i, req[r].art)) ELSE old,
          art |-> req[r].art]

\* The poster after a push: uploaded when the cover is not the one last
\* pushed, and recorded by the cover the sync set out with.
Poster(r, i, old, hash, uploads) ==
    IF Uploading(r, i, hash) /\ uploads
    THEN [poster |-> Only(PosterNow(i, req[r].art)), art |-> req[r].art]
    ELSE [poster |-> old, art |-> hash]

\* No copy was found: one is made, then stamped, then given what it lists more
\* than once, and its poster.  A stamp or a poster that fails is passed over.
\* Where the tracks fail after the stamp did, or Plex makes the copy and does
\* not answer, nothing tells whose the copy is: "stamp".
PushNew(r, i, a) ==
    /\ Syncing(r, i, a) /\ a # Nowhere /\ req[r].found = {}
    /\ LET prior == PriorOf(req[r].snap, a)
       IN  \/ /\ ~req[r].tracks
              /\ Continue(r, Recorded(r, a, State(NoKey, NoImage, "empty")))
              /\ Well /\ UNCHANGED <<plex, keys>>
           \/ /\ req[r].tracks
              /\ Continue(r, Recorded(r, a, FailedState(prior)))
              /\ Fault /\ UNCHANGED <<plex, keys>>
           \/ /\ req[r].tracks
              /\ \E stamps, settles, uploads \in BOOLEAN :
                    LET cover == Poster(r, i, NoImage, NoImage, settles /\ uploads)
                    IN  /\ keys' = keys + 1
                        /\ plex' = [plex EXCEPT ![a] = @ \union
                                {[key |-> keys + 1, mark |-> IF stamps THEN i ELSE NoMark,
                                  of |-> i, poster |-> cover.poster]}]
                        /\ req' = [req EXCEPT ![r] = Recorded(r, a,
                                IF settles THEN State(keys + 1, cover.art, "ok")
                                ELSE FailedState(prior))]
                        /\ unsure' = unsure \union
                                (IF settles THEN {}
                                 ELSE (IF stamps THEN {} ELSE {<<"stamp", i>>}) \union
                                      (IF prior.art = NoImage THEN {} ELSE {<<"poster", i>>}))
                        /\ uploads \/ (settles /\ Uploading(r, i, NoImage))
                        /\ IF stamps /\ settles /\ uploads THEN Well ELSE Fault
              /\ UNCHANGED <<started, meddled>>
    /\ UNCHANGED disk

\* The copy found is updated in place, unless it has gone since.
PushInPlace(r, i, a) ==
    /\ Syncing(r, i, a) /\ a # Nowhere
    /\ \E p \in req[r].found, stamps, uploads \in BOOLEAN :
        LET prior == PriorOf(req[r].snap, a)
            cover == Poster(r, i, p.poster, prior.art, uploads)
            now == {q \in plex[a] : q.key = p.key}
        IN  \/ /\ ~req[r].tracks
               /\ Continue(r, Recorded(r, a, State(p.key, prior.art, "empty")))
               /\ Well /\ UNCHANGED plex
            \/ /\ req[r].tracks /\ now = {}
               /\ Continue(r, Recorded(r, a, FailedState(prior)))
               /\ Well /\ UNCHANGED plex
            \/ /\ req[r].tracks /\ now # {}
               /\ stamps \/ p.mark # i
               /\ uploads \/ Uploading(r, i, prior.art)
               /\ plex' = [plex EXCEPT ![a] = (@ \ now) \union
                        {[q EXCEPT !.mark = IF stamps THEN i ELSE @, !.poster = cover.poster] :
                            q \in now}]
               /\ Continue(r, Recorded(r, a, State(p.key, cover.art, "ok")))
               /\ IF stamps /\ uploads THEN Well ELSE Fault
            \/ /\ req[r].tracks
               /\ Continue(r, Recorded(r, a, FailedState(prior)))
               /\ Fault /\ UNCHANGED plex
    /\ UNCHANGED <<disk, keys>>

\* A copy is deleted from an account by the rule that finds it.
Uncopied(i, a, key) == [plex EXCEPT ![a] = @ \ FindOurs(@, i, key)]

\* Accounts no longer targets, every push over: their copies are deleted, and
\* an account whose delete did not answer keeps its state.
Detarget(r, i, a) ==
    /\ Syncing(r, i, Nowhere) /\ req[r].left = {}
    /\ a \in DOMAIN req[r].snap.plex \ ({"admin"} \union req[r].snap.targets)
    /\ a \notin DOMAIN req[r].states
    /\ \/ /\ plex' = Uncopied(i, a, req[r].snap.plex[a].key)
          /\ Continue(r, Recorded(r, a, State(NoKey, NoImage, "absent")))
          /\ Well
       \/ /\ Continue(r, Recorded(r, a, KeptState(req[r].snap.plex[a])))
          /\ Fault /\ UNCHANGED plex
    /\ UNCHANGED <<disk, keys>>

\* The whole map of the record is replaced, and only that, if it still is.
EndSync(r, i) ==
    /\ Syncing(r, i, Nowhere)
    /\ req[r].left = {} /\ DOMAIN req[r].snap.plex \subseteq DOMAIN req[r].states
    /\ LET kept == {a \in DOMAIN req[r].states : req[r].states[a].status # "absent"}
           states == [a \in kept |-> req[r].states[a]]
       IN  \/ /\ records' = IF Alive(i) THEN [records EXCEPT ![i].plex = states]
                             ELSE records
              /\ Continue(r, Idle) /\ Well
           \/ /\ UNCHANGED records
              /\ Ends(r, {<<"copies", i>>, <<"poster", i>>}) /\ Fault
    /\ UNCHANGED <<images, exports, library, plex, keys>>

-----------------------------------------------------------------------------
(* Deletion and merge.                                                     *)

\* The record is read before it is deleted: it alone knows the accounts.
StartDelete(r, i) ==
    /\ Alive(i)
    /\ Begin(r, [op |-> "delete", ids |-> {i}, snap |-> Snapshot(Record(i))])
    /\ UNCHANGED <<disk, plex, keys>>

Uncopying(i, snap) == [op |-> "uncopy", ids |-> {i}, snap |-> snap, done |-> {}]

Delete(r, i) ==
    /\ req[r].op = "delete" /\ req[r].ids = {i}
    /\ IF Alive(i)
       THEN /\ Deleted(i)
            /\ \/ exports' = [exports EXCEPT ![i] = NoFile] /\ Well
               \/ exports' = [exports EXCEPT ![i] = Failed(@)] /\ Fault
            /\ Continue(r, Uncopying(i, req[r].snap))
       ELSE UNCHANGED <<records, images, exports>> /\ Continue(r, Idle) /\ Well
    /\ UNCHANGED <<library, plex, keys>>

\* The copies of a deleted playlist, an account at a time: one that fails is
\* passed over, and where Plex cannot be reached at all, every one.
Uncopy(r, i, a) ==
    /\ req[r].op = "uncopy" /\ req[r].ids = {i}
    /\ a \in DOMAIN req[r].snap.plex \ req[r].done
    /\ LET done == [req[r] EXCEPT !.done = @ \union {a}]
       IN  \/ /\ plex' = Uncopied(i, a, req[r].snap.plex[a].key)
              /\ Continue(r, done) /\ Well
           \/ /\ req' = [req EXCEPT ![r] = done]
              /\ unsure' = unsure \union {<<"copies", i>>}
              /\ Fault /\ UNCHANGED <<plex, started, meddled>>
           \/ /\ req[r].done = {} /\ Ends(r, {<<"copies", i>>})
              /\ Fault /\ UNCHANGED plex
    /\ UNCHANGED <<disk, keys>>

EndUncopy(r) ==
    /\ req[r].op = "uncopy" /\ DOMAIN req[r].snap.plex = req[r].done
    /\ Continue(r, Idle) /\ Well
    /\ UNCHANGED <<disk, plex, keys>>

\* A merge that keeps its source needs only the lock.
Merge(r, i, source) ==
    /\ i # source /\ Alive(i) /\ Alive(source)
    /\ LET record == Merged(Record(i), Record(source))
       IN  Write(r, i, record) /\ Begin(r, Exporting(i, record))

\* One that deletes it reads it first, as a deletion does.
StartMergeAway(r, i, source) ==
    /\ i # source /\ Alive(source)
    /\ Begin(r, [op |-> "delete", ids |-> {source}, snap |-> Snapshot(Record(source)), into |-> i])
    /\ UNCHANGED <<disk, plex, keys>>

MergeAway(r, i, source) ==
    /\ req[r].op = "delete" /\ req[r].ids = {source}
    /\ "into" \in DOMAIN req[r] /\ req[r].into = i
    /\ IF Alive(i) /\ Alive(source)
       THEN LET record == Merged(Record(i), Record(source))
            IN  /\ records' = [records EXCEPT ![i] = record, ![source] = Gone]
                /\ images' = [images EXCEPT ![source] = {}]
                /\ Continue(r, [op |-> "merged", ids |-> {i, source}, source |-> source,
                                into |-> i, record |-> record, snap |-> req[r].snap])
       ELSE UNCHANGED <<records, images>> /\ Continue(r, Idle)
    /\ Well /\ UNCHANGED <<exports, library, plex, keys>>

\* Mutant: the export of the merged-away source stays behind.
LeavingMergeExports(r) ==
    /\ req[r].op = "merged"
    /\ exports' = [exports EXCEPT ![req[r].into] = Written(req[r].record)]
    /\ Continue(r, Uncopying(req[r].source, req[r].snap))
    /\ Well /\ UNCHANGED <<records, images, library, plex, keys>>

MergeExports(r) ==
    /\ req[r].op = "merged"
    /\ \E writes, removes \in BOOLEAN :
            /\ exports' = [exports EXCEPT
                    ![req[r].into] = IF writes THEN Written(req[r].record) ELSE Failed(@),
                    ![req[r].source] = IF removes THEN NoFile ELSE Failed(@)]
            /\ IF writes /\ removes THEN Well ELSE Fault
    /\ Continue(r, Uncopying(req[r].source, req[r].snap))
    /\ UNCHANGED <<records, images, library, plex, keys>>

-----------------------------------------------------------------------------
(* Plex's own doings.                                                      *)

Meddle == meddled < MaxMeddling /\ meddled' = meddled + 1

\* Somebody deletes a copy of ours in Plex.
Vanish(a, p) ==
    /\ p.of # Someone /\ Meddle
    /\ plex' = [plex EXCEPT ![a] = @ \ {p}]
    /\ unsure' = unsure \union {<<"key", i>> : i \in {j \in Ids : meddled > 0 /\ j = p.of}}
    /\ UNCHANGED <<disk, keys, req, started, faults>>

\* A database rebuild gives two playlists each other's rating key, no push
\* having one open.  Only a marker tells them apart after it.
Rebuild(a, p, q) ==
    /\ p # q /\ Meddle
    /\ \A r \in Requests : req[r].op = "sync" => req[r].at = Nowhere
    /\ plex' = [plex EXCEPT ![a] = (@ \ {p, q}) \union
                    {[p EXCEPT !.key = q.key], [q EXCEPT !.key = p.key]}]
    /\ unsure' = unsure \union {<<"key", i>> : i \in {j \in Ids :
            MarkedIn(plex[a], j) = {} \/ \E c \in {p, q} : c.of = j /\ c.mark # j}}
    /\ UNCHANGED <<disk, keys, req, started, faults>>

-----------------------------------------------------------------------------

\* A playlist synced some time ago with a cover, shared with everyone.
Copy(key, i, image) == [key |-> key, mark |-> i, of |-> i, poster |-> image]
Stranger(key) == [key |-> key, mark |-> NoMark, of |-> Someone, poster |-> NoImage]
FirstKeys == CHOOSE f \in [Accounts -> 2..(Cardinality(Accounts) + 1)] :
                        \A a, b \in Accounts : a # b => f[a] # f[b]
FirstRecord(item, image, synced) ==
    [NewRecord(<<[uid |-> <<0, 1>>, item |-> item]>>) EXCEPT
        !.targets = IF synced THEN Users ELSE {},
        !.plex = IF synced THEN [a \in Accounts |-> State(FirstKeys[a], image, "ok")]
                 ELSE <<>>,
        !.art = IF synced THEN image ELSE NoImage]

Init ==
    \E i \in Ids, item \in Items, image \in Images, synced \in BOOLEAN :
        LET first == FirstRecord(item, image, synced)
        IN  /\ records = [j \in Ids |-> IF j # i THEN Unborn ELSE first]
            /\ images = [j \in Ids |-> IF j = i /\ synced THEN {image} ELSE {}]
            /\ library = Items
            /\ exports = [j \in Ids |-> IF j = i THEN Written(first) ELSE NoFile]
            /\ plex = [a \in Accounts |->
                    (IF a = "admin" THEN {Stranger(1)} ELSE {})
                        \union (IF synced THEN {Copy(FirstKeys[a], i, image)} ELSE {})]
            /\ keys = Cardinality(Accounts) + 1
            /\ req = [r \in Requests |-> Idle]
            /\ started = 0 /\ faults = 0 /\ meddled = 0 /\ unsure = {}

Lists == {<<x>> : x \in Items \union {Pending}}

Editing(r, i) ==
    \/ \E items \in Lists, im \in Images \union {NoImage} :
            Create(r, i, items, im)
    \/ ImportCover(r, i)
    \/ \E item \in Items, at \in {0, 1} : AddTracks(r, i, <<item>>, at)
    \/ \E targets \in SUBSET Users : Retarget(r, i, targets)
    \/ Check(r, i)
    \/ req[r].op = "check" /\ \E uid \in req[r].uids :
            \/ RemoveEntry(r, i, uid)
            \/ \E item \in Items : ResolveEntry(r, i, uid, item)
    \/ req[r].op = "check" /\ \E uids \in SetToSeqs(req[r].uids) \union {<<>>} :
            Reorder(r, i, uids)
    \/ \E image \in Images : SetArtwork(r, i, image)
    \/ DeleteArtwork(r, i)

Copying(r, i) ==
    \/ StartSync(r, i) \/ SyncRefused(r, i) \/ EndSync(r, i)
    \/ \E a \in Accounts : \/ Look(r, i, a) \/ PushNew(r, i, a) \/ PushInPlace(r, i, a)
                           \/ Detarget(r, i, a) \/ Uncopy(r, i, a)
    \/ StartDelete(r, i) \/ Delete(r, i)
    \/ \E j \in Ids : Merge(r, i, j) \/ StartMergeAway(r, i, j) \/ MergeAway(r, i, j)

Next ==
    \/ \E r \in Requests, i \in Ids : Editing(r, i) \/ Copying(r, i)
    \/ \E r \in Requests : \/ Export(r) \/ Reexport(r)
                           \/ EndUncopy(r) \/ MergeExports(r)
                           \/ \E item \in Items : DropTrack(r, item)
    \/ \E a \in Accounts : \E p, q \in plex[a] : Vanish(a, p) \/ Rebuild(a, p, q)

Spec == Init /\ [][Next]_vars

-----------------------------------------------------------------------------
(* Properties.                                                             *)

Quiet(what, i) == /\ <<what, i>> \notin unsure
                  /\ \A r \in Requests : <<what, i>> \notin Holds(req[r])

\* A copy within reach: the record of its playlist names its account, to which a
\* later sync or deletion goes, and knows it there by its marker or its key.
InReach(a, p) ==
    LET record == Record(p.of)
    IN  /\ record.alive
        /\ a \in DOMAIN record.plex
        /\ p.mark = p.of \/ record.plex[a].key = p.key
Undisturbed(i) == Quiet("copies", i) /\ <<"key", i>> \notin unsure

\* A copy MusicDrop made on Plex stays within reach while the playlist lives, and
\* once it is deleted there is none (api/playlists.py, what is kept of a
\* de-targeted account; plex/sync.py _safe_reconcile, the prior key of a failed
\* one).  Not so where two syncs, or a sync and a deletion, ran at once, or Plex
\* refused the deletion of a deleted playlist, or the record could not be
\* written after a sync, or a new copy got neither its marker nor all its tracks.
CopiesAreReachable ==
    \A a \in Accounts : \A p \in plex[a] :
        p.of \in Ids /\ Undisturbed(p.of) /\ <<"stamp", p.of>> \notin unsure => InReach(a, p)

\* What _create_our_playlist says of its order: a reconcile that fails leaves a
\* findable playlist, not an orphan the next sync would duplicate.
NewCopiesAreFindable ==
    \A a \in Accounts : \A p \in plex[a] :
        p.of \in Ids /\ Undisturbed(p.of) => InReach(a, p)

\* Nobody else's playlist, and no other playlist's copy, is changed or deleted
\* by a request: of two that a rebuild gave each other's key the marked one is
\* ours (_find_our_playlist), unless ours had no marker then, or was gone by
\* the time the key was used.
StrangersAreSafe ==
    [][\A a \in Accounts : \A p \in plex[a] :
        p \notin plex'[a] /\ meddled' = meddled =>
            \E r \in Requests : /\ req'[r] # req[r]
                               /\ \E i \in req[r].ids :
                                    i = p.of \/ {<<"key", i>>, <<"copies", i>>} \cap unsure # {}]_vars

\* The cover a record says was last pushed to a copy is the poster that copy
\* has (models/plex.py artwork_hash: a sync uploads only when the art changed),
\* unless the cover was changed while a sync ran.
PosterIsTold ==
    \A i \in Ids :
        Alive(i) /\ Quiet("copies", i) /\ Quiet("poster", i) /\ <<"key", i>> \notin unsure =>
            \A a \in DOMAIN Record(i).plex :
                LET state == Record(i).plex[a]
                IN  state.art # NoImage =>
                        \A p \in FindOurs(plex[a], i, state.key) : p.poster = state.art

\* When nothing that writes it is under way, the .m3u8 of a playlist is the
\* tracks it lists that the library still has, and a deleted playlist has none
\* (reexport.py: no mover may leave one behind), unless two writers overlapped or
\* the last write of that very file failed.
ExportTells ==
    \A i \in Ids : Quiet("export", i) /\ ~exports[i].failed =>
        exports[i].file = IF Alive(i) THEN Render(Record(i)) ELSE <<>>
=============================================================================
