-------------------------- MODULE PlaylistsProofs --------------------------
(***************************************************************************)
(* The playlists of Playlists, for every set of playlists, accounts,       *)
(* tracks and requests and every bound: the exports tell what the records  *)
(* list, every copy on Plex stays within reach of a record or of a request *)
(* at work, and nobody else's playlist is touched.                         *)
(*                                                                         *)
(* The argument: what two requests hold at once is unsure, so a sure       *)
(* playlist has one request at its copies and one at its export.  What     *)
(* that request carries, and not the record, then tells where the copies   *)
(* are (Knows), and a copy found once is the copy pushed to later.         *)
(***************************************************************************)
EXTENDS Playlists, FiniteSetTheorems, TLAPS

-----------------------------------------------------------------------------
(* The shapes of the state.                                                *)

\* A map of copies, its keys among the n given so far.
AStates(f, n) == DOMAIN f \subseteq Accounts /\ \A a \in DOMAIN f : f[a].key \in 0..n
Present(f) == \A a \in DOMAIN f : f[a].status # "absent"

ARecord(x, n) ==
    /\ DOMAIN x = {"alive", "entries", "targets", "plex", "art"} /\ x.alive
    /\ x.targets \subseteq Users
    /\ AStates(x.plex, n) /\ Present(x.plex)

ACopy(p, n) ==
    /\ DOMAIN p = {"key", "mark", "of", "poster"}
    /\ p.key \in 1..n
    /\ p.mark \in Ids \union {NoMark} /\ p.of \in Ids \union {Someone}

OfOne(q) == \E i \in Ids : q.ids = {i}
ASync(q, n) ==
    /\ DOMAIN q = {"op", "ids", "snap", "art", "tracks", "left", "at", "found", "states"}
    /\ ARecord(q.snap, n) /\ AStates(q.states, n)
    /\ q.left \subseteq Accounts \ DOMAIN q.states
    /\ q.at \in q.left \union {Nowhere}
    /\ \A p \in q.found : ACopy(p, n)
AMerge(q, n) ==
    /\ q.source \in Ids /\ q.into \in Ids /\ q.source # q.into
    /\ q.ids = {q.into, q.source} /\ ARecord(q.snap, n)
AnUncopy(q, n) == DOMAIN q = {"op", "ids", "snap", "done"} /\ ARecord(q.snap, n)

ARequest(q, n) ==
    \/ q = Idle
    \/ q.op \in {"export", "check", "imported"} /\ OfOne(q)
    \/ q.op = "reexport" /\ q.ids \subseteq Ids
    \/ q.op = "sync" /\ OfOne(q) /\ ASync(q, n)
    \/ /\ q.op = "delete" /\ OfOne(q) /\ ARecord(q.snap, n)
       /\ "into" \in DOMAIN q => q.into \notin q.ids
    \/ q.op = "merged" /\ AMerge(q, n)
    \/ q.op = "uncopy" /\ OfOne(q) /\ AnUncopy(q, n)

TypeInv ==
    /\ keys \in Nat /\ meddled \in Nat
    /\ records = [i \in Ids |-> records[i]]
    /\ \A i \in Ids : records[i] \in {Unborn, Gone} \/ ARecord(records[i], keys)
    /\ exports = [i \in Ids |-> exports[i]]
    /\ plex = [a \in Accounts |-> plex[a]]
    /\ \A a \in Accounts : \A p \in plex[a] : ACopy(p, keys)
    /\ req = [r \in Requests |-> req[r]]
    /\ \A r \in Requests : ARequest(req[r], keys)

\* Two requests hold nothing together that is not unsure.
OverlapInv ==
    \A r, s \in Requests : r # s => Holds(req[r]) \cap Holds(req[s]) \subseteq unsure

-----------------------------------------------------------------------------
(* The exports.                                                            *)

AtExport(q, i) == <<"export", i>> \in Holds(q)

\* What request q, which holds the export of i, is going to write there, x
\* being the record of i and e its export.
WillTell(q, i, x, e) ==
    /\ q.op \in {"export", "imported"} => x.alive /\ q.record.entries = x.entries
    /\ q.op = "merged" /\ i = q.into => x.alive /\ q.record.entries = x.entries
    /\ q.op = "merged" /\ i = q.source => ~x.alive
    /\ q.op = "reexport" => x.alive /\ q.list[i].entries = x.entries
    /\ q.op = "uncopy" => ~x.alive /\ (~e.failed => e.file = <<>>)

AnExport(e) == DOMAIN e = {"file", "failed"}

ExportInv ==
    /\ \A i \in Ids : AnExport(exports[i])
    /\ ExportTells
    /\ \A r \in Requests, i \in Ids :
            AtExport(req[r], i) /\ <<"export", i>> \notin unsure =>
                WillTell(req[r], i, records[i], exports[i])

-----------------------------------------------------------------------------
(* The copies.                                                             *)

Sure(i) == {<<"key", i>>, <<"copies", i>>} \cap unsure = {}
Traced(i) == Sure(i) /\ <<"stamp", i>> \notin unsure
AtCopies(q, i) == <<"copies", i>> \in Holds(q)
Settled(i) == \A r \in Requests : ~AtCopies(req[r], i)

\* By which keys request q knows a copy on an account.
KnownBy(q, a, k) ==
    \/ /\ q.op = "sync" /\ a \in DOMAIN q.states
       /\ q.states[a].status # "absent" /\ k = q.states[a].key
    \/ /\ q.op = "sync" /\ a \in DOMAIN q.snap.plex \ DOMAIN q.states
       /\ k = q.snap.plex[a].key
    \/ /\ q.op \in {"delete", "merged"} /\ a \in DOMAIN q.snap.plex
       /\ k = q.snap.plex[a].key
    \/ /\ q.op = "uncopy" /\ a \in DOMAIN q.snap.plex \ q.done
       /\ k = q.snap.plex[a].key

\* Every key it keeps of the account.
RecalledBy(q, a, k) ==
    \/ a \in DOMAIN q.snap.plex /\ k = q.snap.plex[a].key
    \/ q.op = "sync" /\ a \in DOMAIN q.states /\ k = q.states[a].key

\* By which key record x does.
InRecord(x, a, k) == x.alive /\ a \in DOMAIN x.plex /\ k = x.plex[a].key

\* By which key the copy of i on an account is known now.
Knows(i, a, k) ==
    \/ Settled(i) /\ InRecord(records[i], a, k)
    \/ \E r \in Requests : AtCopies(req[r], i) /\ KnownBy(req[r], a, k)

\* Every key kept for it anywhere.
Recalls(i, a, k) ==
    \/ InRecord(records[i], a, k)
    \/ \E r \in Requests : AtCopies(req[r], i) /\ RecalledBy(req[r], a, k)

\* Taken for a copy of i, p is one, or it is not sure whose it is.
Mixed(i, p) == p.of = i \/ (~Sure(i) /\ (p.of \in Ids => ~Sure(p.of)))

\* Copies differ in their keys; of a sure playlist none of whose copies was left
\* unmarked there is one on an account; and a marker tells whose it is.
CopyInv ==
    \A a \in Accounts :
        /\ \A p, q \in plex[a] :
            p # q => p.key # q.key /\ (p.of = q.of /\ p.of \in Ids => ~Traced(p.of))
        /\ \A p \in plex[a] : p.mark \in Ids => Mixed(p.mark, p)

\* What a request at the copies of a sure playlist carries is what the record
\* says, or said.
CarryInv ==
    \A r \in Requests, i \in Ids :
        AtCopies(req[r], i) /\ Sure(i) =>
            IF req[r].op \in {"sync", "delete"}
            THEN Alive(i) /\ Record(i).plex = req[r].snap.plex
            ELSE records[i] = Gone

\* Every copy of such a playlist is known by its marker or its key ...
ReachInv ==
    \A i \in Ids : Traced(i) =>
        \A a \in Accounts : \A p \in plex[a] :
            p.of = i => \E k \in 0..keys : Knows(i, a, k) /\ (p.mark = i \/ p.key = k)

\* ... and a key kept for it leads to no unmarked playlist of another, where
\* there is no marked one before it.
StrayKey(i, p) == p.mark = NoMark /\ p.of # i
KeyInv ==
    \A i \in Ids, a \in Accounts : \A p \in plex[a] :
        /\ StrayKey(i, p) /\ Recalls(i, a, p.key) /\ p.of \in Ids => ~Sure(p.of)
        /\ StrayKey(i, p) /\ Knows(i, a, p.key) /\ Sure(i) => MarkedIn(plex[a], i) # {}

\* The copy a push has found is the one it will meet.
HasFound(q, i) ==
    q.op = "sync" /\ i \in q.ids /\ q.at # Nowhere =>
        /\ \A p \in q.found :
            /\ Mixed(i, p) /\ (meddled = 0 => p.of = i)
            /\ \A c \in plex[q.at] : /\ c.key = p.key => c.of = p.of
                                     /\ Traced(i) /\ c.of = i => c.key = p.key
        /\ q.found = {} /\ Traced(i) => \A c \in plex[q.at] : c.of # i
FoundInv == \A r \in Requests, i \in Ids : HasFound(req[r], i)

\* As long as nobody meddled with Plex, keys and markers are right.
QuietInv ==
    meddled = 0 =>
        \A a \in Accounts : \A p \in plex[a] :
            /\ p.mark \in {NoMark, p.of}
            /\ \A i \in Ids : Recalls(i, a, p.key) => p.of = i

IInv == /\ TypeInv /\ OverlapInv /\ ExportInv
        /\ CopyInv /\ CarryInv /\ ReachInv /\ KeyInv /\ FoundInv /\ QuietInv

-----------------------------------------------------------------------------
(* What the requests hold.                                                 *)

\* What a request holds, by what it does.
LEMMA HoldsIs ==
    ASSUME NEW q, NEW n, ARequest(q, n), NEW i
    PROVE  /\ AtCopies(q, i) <=> \/ q.op \in {"sync", "delete", "uncopy"} /\ i \in q.ids
                                 \/ q.op = "merged" /\ i = q.source
           /\ AtExport(q, i) <=> /\ q.op \in {"export", "imported", "reexport", "merged",
                                             "uncopy"}
                                 /\ i \in q.ids
<1>1. q.op \in {"idle", "export", "check", "imported", "reexport", "sync", "delete", "merged",
                "uncopy"}
  BY DEF ARequest, Idle
<1>2. CASE q.op \in {"idle", "check"}
  <2>1. Holds(q) = {}
    BY <1>2 DEF Holds
  <2>q. QED
    BY <2>1, <1>2 DEF AtCopies, AtExport
<1>3. CASE q.op \in {"export", "reexport"}
  <2>1. Holds(q) = {"export"} \X q.ids
    BY <1>3 DEF Holds
  <2>q. QED
    BY <2>1, <1>3 DEF AtCopies, AtExport
<1>4. CASE q.op = "imported"
  <2>1. Holds(q) = {"export", "poster"} \X q.ids
    BY <1>4 DEF Holds
  <2>q. QED
    BY <2>1, <1>4 DEF AtCopies, AtExport
<1>5. CASE q.op = "sync"
  <2>1. Holds(q) = {"copies", "poster"} \X q.ids
    BY <1>5 DEF Holds
  <2>2. AtCopies(q, i) <=> i \in q.ids
    BY <2>1 DEF AtCopies
  <2>3. AtExport(q, i) <=> FALSE
    BY <2>1 DEF AtExport
  <2>q. QED
    BY <2>2, <2>3, <1>5 DEF AtCopies, AtExport
<1>6. CASE q.op = "delete"
  <2>1. Holds(q) = {"copies"} \X q.ids
    BY <1>6 DEF Holds
  <2>2. AtCopies(q, i) <=> i \in q.ids
    BY <2>1 DEF AtCopies
  <2>3. AtExport(q, i) <=> FALSE
    BY <2>1 DEF AtExport
  <2>q. QED
    BY <2>2, <2>3, <1>6 DEF AtCopies, AtExport
<1>7. CASE q.op = "uncopy"
  <2>1. Holds(q) = {"copies", "export"} \X q.ids
    BY <1>7 DEF Holds
  <2>2. AtCopies(q, i) <=> i \in q.ids
    BY <2>1 DEF AtCopies
  <2>3. AtExport(q, i) <=> i \in q.ids
    BY <2>1 DEF AtExport
  <2>q. QED
    BY <2>2, <2>3, <1>7 DEF AtCopies, AtExport
<1>8. CASE q.op = "merged"
  <2>1. Holds(q) = ({"export"} \X q.ids) \union {<<"copies", q.source>>}
    BY <1>8 DEF Holds
  <2>q. QED
    BY <2>1, <1>8 DEF AtCopies, AtExport
<1>q. QED
  BY <1>1, <1>2, <1>3, <1>4, <1>5, <1>6, <1>7, <1>8

-----------------------------------------------------------------------------
(* What a step does to the requests.                                       *)

\* Request r goes on to next, and what it holds then with another is unsure.
GoesOn(r, next) ==
    /\ req' = [req EXCEPT ![r] = next]
    /\ unsure \subseteq unsure'
    /\ \A s \in Requests \ {r} : Holds(next) \cap Holds(req[s]) \subseteq unsure'

\* A turn is such a step, in each of its forms.
LEMMA TurnGoesOn ==
    ASSUME NEW r, NEW next, Turn(r, next)
    PROVE  GoesOn(r, next)
BY DEF Turn, GoesOn

\* To begin is to go on from idleness.
LEMMA BeginGoesOn ==
    ASSUME NEW r, NEW next, Begin(r, next)
    PROVE  GoesOn(r, next) /\ req[r] = Idle /\ UNCHANGED meddled
BY TurnGoesOn DEF Begin

\* To continue is to go on.
LEMMA ContinueGoesOn ==
    ASSUME NEW r, NEW next, Continue(r, next)
    PROVE  GoesOn(r, next) /\ UNCHANGED meddled
BY TurnGoesOn DEF Continue

\* To end in doubt is to go on to idleness, the doubt being unsure.
LEMMA EndsGoesOn ==
    ASSUME NEW r, NEW doubt, Ends(r, doubt)
    PROVE  GoesOn(r, Idle) /\ UNCHANGED meddled /\ doubt \subseteq unsure'
<1>1. Holds(Idle) = {}
  BY DEF Holds, Idle
<1>q. QED
  BY <1>1 DEF Ends, GoesOn

\* What is known of a request stays true as keys are given.
LEMMA StatesGrow ==
    ASSUME NEW m \in Nat, NEW n \in Nat, m <= n, NEW f, AStates(f, m)
    PROVE  AStates(f, n)
BY DEF AStates

\* So does what is known of a record ...
LEMMA RecordsGrow ==
    ASSUME NEW m \in Nat, NEW n \in Nat, m <= n, NEW x, ARecord(x, m)
    PROVE  ARecord(x, n)
BY StatesGrow DEF ARecord

\* ... of a copy ...
LEMMA CopiesGrow ==
    ASSUME NEW m \in Nat, NEW n \in Nat, m <= n, NEW p, ACopy(p, m)
    PROVE  ACopy(p, n)
BY DEF ACopy

\* ... and of a request.
LEMMA RequestsGrow ==
    ASSUME NEW m \in Nat, NEW n \in Nat, m <= n, NEW q, ARequest(q, m)
    PROVE  ARequest(q, n)
<1>1. ASSUME ASync(q, m)
      PROVE  ASync(q, n)
  <2>1. ARecord(q.snap, n) /\ AStates(q.states, n) /\ \A p \in q.found : ACopy(p, n)
    BY <1>1, StatesGrow, RecordsGrow, CopiesGrow DEF ASync
  <2>q. QED
    BY <1>1, <2>1 DEF ASync
<1>2. ARecord(q.snap, m) => ARecord(q.snap, n)
  BY RecordsGrow
<1>q. QED
  BY <1>1, <1>2 DEF ARequest, AMerge, AnUncopy

\* The requests after such a step.
LEMMA RequestsGoOn ==
    ASSUME TypeInv, NEW r \in Requests, NEW next, GoesOn(r, next), ARequest(next, keys'),
           keys' \in Nat, keys <= keys'
    PROVE  /\ req' = [s \in Requests |-> req'[s]]
           /\ req'[r] = next /\ \A s \in Requests \ {r} : req'[s] = req[s]
           /\ \A s \in Requests : ARequest(req'[s], keys')
<1>1. /\ req' = [s \in Requests |-> req'[s]]
      /\ req'[r] = next /\ \A s \in Requests \ {r} : req'[s] = req[s]
  BY DEF GoesOn, TypeInv
<1>2. ASSUME NEW s \in Requests
      PROVE  ARequest(req'[s], keys')
  BY <1>1, <1>2, RequestsGrow DEF TypeInv
<1>q. QED
  BY <1>1, <1>2

\* Such a step keeps what two requests hold together unsure.
LEMMA OverlapGoesOn ==
    ASSUME TypeInv, OverlapInv, NEW r \in Requests, NEW next, GoesOn(r, next)
    PROVE  OverlapInv'
<1>1. req'[r] = next /\ \A s \in Requests \ {r} : req'[s] = req[s]
  BY DEF GoesOn, TypeInv
<1>q. QED
  BY <1>1 DEF GoesOn, OverlapInv

\* A sure playlist has one request at its copies, and one at its export.
LEMMA OneAtCopies ==
    ASSUME OverlapInv, NEW r \in Requests, NEW s \in Requests, NEW i,
           AtCopies(req[r], i), AtCopies(req[s], i), Sure(i)
    PROVE  r = s
BY DEF OverlapInv, AtCopies, Sure

\* The same for the export.
LEMMA OneAtExport ==
    ASSUME OverlapInv, NEW r \in Requests, NEW s \in Requests, NEW i,
           AtExport(req[r], i), AtExport(req[s], i), <<"export", i>> \notin unsure
    PROVE  r = s
BY DEF OverlapInv, AtExport

\* What was sure after a step was sure before it.
LEMMA SureBefore ==
    ASSUME unsure \subseteq unsure', NEW i, Sure(i)'
    PROVE  Sure(i)
BY DEF Sure

\* What was traced after it was traced before.
LEMMA TracedBefore ==
    ASSUME unsure \subseteq unsure', NEW i, Traced(i)'
    PROVE  Traced(i) /\ Sure(i)'
BY SureBefore DEF Traced

-----------------------------------------------------------------------------
(* The edits.                                                              *)

Editors == {"idle", "check", "imported", "export", "reexport"}
Offside == UNCHANGED <<plex, keys, meddled>>

\* Request r writes record x of playlist i, whose export is to follow.
Writes(r, i, x) ==
    /\ ARecord(x, keys)
    /\ \/ records[i] = Unborn /\ x.plex = <<>>
       \/ Alive(i) /\ x.plex = Record(i).plex
    /\ records' = [records EXCEPT ![i] = x]
    /\ req[r].op \in {"idle", "check", "imported"}
    /\ req[r].op = "imported" => req[r].ids = {i}
    /\ \E next : /\ GoesOn(r, next) /\ ARequest(next, keys)
                 /\ next.op \in {"export", "imported"} /\ next.ids = {i} /\ next.record = x
    /\ UNCHANGED <<exports, library>> /\ Offside

\* It only looks, or gives up.
Looks(r) ==
    /\ req[r].op \in {"idle", "check"}
    /\ \E next : GoesOn(r, next) /\ ARequest(next, keys) /\ next.op \in {"idle", "check"}
    /\ UNCHANGED <<records, exports, library>> /\ Offside

\* An import comes to a playlist deleted meanwhile.
ComesLate(r, i) ==
    /\ req[r].op = "imported" /\ req[r].ids = {i} /\ ~Alive(i)
    /\ GoesOn(r, Exporting(i, req[r].record))
    /\ UNCHANGED <<records, exports, library>> /\ Offside

\* A cover is changed, and no request goes on.
Paints(i) ==
    /\ Alive(i) /\ req' = req /\ unsure \subseteq unsure'
    /\ \E x : /\ ARecord(x, keys) /\ x.plex = Record(i).plex /\ x.entries = Record(i).entries
              /\ records' = [records EXCEPT ![i] = x]
    /\ UNCHANGED <<exports, library>> /\ Offside

\* A request to write an export is one.
LEMMA ExportIsRequest ==
    ASSUME NEW i \in Ids, NEW x, NEW n
    PROVE  /\ ARequest(Exporting(i, x), n)
           /\ Exporting(i, x).op = "export" /\ Exporting(i, x).ids = {i}
           /\ Exporting(i, x).record = x
BY DEF ARequest, Exporting, OfOne

\* A request that has ended is one.
LEMMA IdleIsRequest ==
    ASSUME NEW n
    PROVE  ARequest(Idle, n) /\ Idle.op = "idle" /\ Idle.ids = {}
BY DEF ARequest, Idle

\* A living record is a record.
LEMMA AliveIsRecord ==
    ASSUME TypeInv, NEW i \in Ids, Alive(i)
    PROVE  ARecord(records[i], keys) /\ Record(i) = records[i]
BY DEF TypeInv, Alive, Record, Unborn, Gone

\* A new record has no copies.
LEMMA NewIsRecord ==
    ASSUME NEW n, NEW entries
    PROVE  ARecord(NewRecord(entries), n) /\ NewRecord(entries).plex = <<>>
<1>1. AStates(<<>>, n) /\ Present(<<>>)
  BY DEF AStates, Present
<1>q. QED
  BY <1>1 DEF ARecord, NewRecord

\* A playlist is created: its record is written.
LEMMA CreateDoes ==
    ASSUME TypeInv, NEW r \in Requests, NEW i \in Ids, NEW items, NEW image,
           Create(r, i, items, image)
    PROVE  \E x : Writes(r, i, x)
<1> DEFINE x == NewRecord([n \in DOMAIN items |-> Entry(n, items[n])])
<1> DEFINE next == IF image = NoImage THEN Exporting(i, x)
                   ELSE [op |-> "imported", ids |-> {i}, image |-> image, record |-> x]
<1>1. /\ records[i] = Unborn /\ records' = [records EXCEPT ![i] = x] /\ Begin(r, next)
      /\ UNCHANGED <<exports, library, plex, keys>>
  BY DEF Create, Write
<1>2. ARequest(next, keys) /\ next.op \in {"export", "imported"} /\ next.ids = {i}
      /\ next.record = x
  <2>1. CASE image = NoImage
    BY <2>1, ExportIsRequest
  <2>2. CASE image # NoImage
    <3> DEFINE im == [op |-> "imported", ids |-> {i}, image |-> image, record |-> x]
    <3>1. im.op = "imported" /\ OfOne(im) /\ im.ids = {i} /\ im.record = x
      BY DEF OfOne
    <3>q. QED
      BY <2>2, <3>1 DEF ARequest
  <2>q. QED
    BY <2>1, <2>2
<1>3. ARecord(x, keys) /\ x.plex = <<>>
  BY NewIsRecord
<1>4. GoesOn(r, next) /\ req[r].op = "idle" /\ UNCHANGED meddled
  BY <1>1, BeginGoesOn, IdleIsRequest
<1> HIDE DEF x, next
<1>q. QED
  BY <1>1, <1>2, <1>3, <1>4 DEF Writes, Offside

\* Every other edit of a living playlist that goes on to its export.
LEMMA WritesOn ==
    ASSUME TypeInv, NEW r \in Requests, NEW i \in Ids, Alive(i), NEW x,
           ARecord(x, keys), x.plex = Record(i).plex,
           req[r].op \in {"idle", "check", "imported"},
           req[r].op = "imported" => req[r].ids = {i},
           records' = [records EXCEPT ![i] = x], GoesOn(r, Exporting(i, x)),
           UNCHANGED <<exports, library>>, Offside
    PROVE  Writes(r, i, x)
BY ExportIsRequest DEF Writes

\* The cover of an import: the record is written again, or is gone.
LEMMA ImportCoverDoes ==
    ASSUME TypeInv, NEW r \in Requests, NEW i \in Ids, ImportCover(r, i)
    PROVE  (\E x : Writes(r, i, x)) \/ ComesLate(r, i)
<1>1. CASE Alive(i)
  <2> DEFINE x == [records[i] EXCEPT !.art = req[r].image]
  <2>1. ARecord(x, keys) /\ x.plex = Record(i).plex
    BY <1>1, AliveIsRecord DEF ARecord
  <2>2. records' = [records EXCEPT ![i] = x] /\ records'[i] = x
    BY <1>1 DEF ImportCover, TypeInv
  <2>3. Continue(r, Exporting(i, x)) /\ UNCHANGED <<exports, library, plex, keys>>
    BY <1>1, <2>2 DEF ImportCover
  <2>4. req[r].op = "imported" /\ req[r].ids = {i}
    BY DEF ImportCover
  <2> HIDE DEF x
  <2>5. Writes(r, i, x)
    BY <1>1, <2>1, <2>2, <2>3, <2>4, WritesOn, ContinueGoesOn DEF Offside
  <2>q. QED
    BY <2>5
<1>2. CASE ~Alive(i)
  BY <1>2, ContinueGoesOn DEF ImportCover, ComesLate, Offside
<1>q. QED
  BY <1>1, <1>2

\* Tracks are added.
LEMMA AddTracksDoes ==
    ASSUME TypeInv, NEW r \in Requests, NEW i \in Ids, NEW items, NEW at,
           AddTracks(r, i, items, at)
    PROVE  \E x : Writes(r, i, x)
<1> DEFINE x == WithTracks(Record(i), [n \in DOMAIN items |-> Entry(n, items[n])], at)
<1>1. /\ Alive(i) /\ records' = [records EXCEPT ![i] = x] /\ Begin(r, Exporting(i, x))
      /\ UNCHANGED <<exports, library, plex, keys>>
  BY DEF AddTracks, Write
<1>2. ARecord(x, keys) /\ x.plex = Record(i).plex
  BY <1>1, AliveIsRecord DEF ARecord, WithTracks
<1> HIDE DEF x
<1>q. QED
  BY <1>1, <1>2, BeginGoesOn, IdleIsRequest, WritesOn DEF Offside

\* The accounts it is shared with are set.
LEMMA RetargetDoes ==
    ASSUME TypeInv, NEW r \in Requests, NEW i \in Ids, NEW targets \in SUBSET Users,
           Retarget(r, i, targets)
    PROVE  \E x : Writes(r, i, x)
<1> DEFINE x == [Record(i) EXCEPT !.targets = targets]
<1>1. /\ Alive(i) /\ records' = [records EXCEPT ![i] = x] /\ Begin(r, Exporting(i, x))
      /\ UNCHANGED <<exports, library, plex, keys>>
  BY DEF Retarget, Write
<1>2. ARecord(x, keys) /\ x.plex = Record(i).plex
  BY <1>1, AliveIsRecord DEF ARecord
<1> HIDE DEF x
<1>q. QED
  BY <1>1, <1>2, BeginGoesOn, IdleIsRequest, WritesOn DEF Offside

\* A playlist is merged into another, and kept.
LEMMA MergeDoes ==
    ASSUME TypeInv, NEW r \in Requests, NEW i \in Ids, NEW j \in Ids, Merge(r, i, j)
    PROVE  \E x : Writes(r, i, x)
<1> DEFINE x == Merged(Record(i), Record(j))
<1>1. /\ Alive(i) /\ records' = [records EXCEPT ![i] = x] /\ Begin(r, Exporting(i, x))
      /\ UNCHANGED <<exports, library, plex, keys>>
  BY DEF Merge, Write
<1>2. ARecord(x, keys) /\ x.plex = Record(i).plex
  BY <1>1, AliveIsRecord DEF ARecord, Merged
<1> HIDE DEF x
<1>q. QED
  BY <1>1, <1>2, BeginGoesOn, IdleIsRequest, WritesOn DEF Offside

\* A request that names entries reads first.
LEMMA CheckDoes ==
    ASSUME TypeInv, NEW r \in Requests, NEW i \in Ids, Check(r, i)
    PROVE  Looks(r)
<1> DEFINE next == [op |-> "check", ids |-> {i}, uids |-> Uids(Record(i))]
<1>1. ARequest(next, keys) /\ next.op = "check"
  BY DEF ARequest, OfOne
<1>2. Begin(r, next) /\ UNCHANGED <<records, exports, library, plex, keys>>
  BY DEF Check, disk
<1> HIDE DEF next
<1>q. QED
  BY <1>1, <1>2, BeginGoesOn, IdleIsRequest DEF Looks, Offside

\* What was looked at is written, or has gone meanwhile.
LEMMA CheckedDoes ==
    ASSUME TypeInv, NEW r \in Requests, NEW i \in Ids, NEW entries, req[r].op = "check",
           Checked(r, i, [Record(i) EXCEPT !.entries = entries])
    PROVE  (\E x : Writes(r, i, x)) \/ Looks(r)
<1> DEFINE x == [Record(i) EXCEPT !.entries = entries]
<1>1. CASE Alive(i)
  <2>1. ARecord(x, keys) /\ x.plex = Record(i).plex
    BY <1>1, AliveIsRecord DEF ARecord
  <2>2. records' = [records EXCEPT ![i] = x] /\ Continue(r, Exporting(i, x))
        /\ UNCHANGED <<exports, library, plex, keys>>
    BY <1>1 DEF Checked, Write
  <2> HIDE DEF x
  <2>q. QED
    BY <1>1, <2>1, <2>2, WritesOn, ContinueGoesOn DEF Offside
<1>2. CASE ~Alive(i)
  BY <1>2, ContinueGoesOn, IdleIsRequest DEF Checked, disk, Looks, Offside
<1>q. QED
  BY <1>1, <1>2

\* An entry is removed.
LEMMA RemoveEntryDoes ==
    ASSUME TypeInv, NEW r \in Requests, NEW i \in Ids, NEW uid, RemoveEntry(r, i, uid)
    PROVE  (\E x : Writes(r, i, x)) \/ Looks(r)
BY CheckedDoes DEF RemoveEntry, WithoutEntry

\* The entries are put in another order.
LEMMA ReorderDoes ==
    ASSUME TypeInv, NEW r \in Requests, NEW i \in Ids, NEW uids, Reorder(r, i, uids)
    PROVE  (\E x : Writes(r, i, x)) \/ Looks(r)
BY CheckedDoes DEF Reorder, InOrder

\* A pending entry gets its track.
LEMMA ResolveEntryDoes ==
    ASSUME TypeInv, NEW r \in Requests, NEW i \in Ids, NEW uid, NEW item,
           ResolveEntry(r, i, uid, item)
    PROVE  (\E x : Writes(r, i, x)) \/ Looks(r)
<1>1. CASE Alive(i) /\ uid \notin Uids(Record(i))
  BY <1>1, ContinueGoesOn, IdleIsRequest DEF ResolveEntry, disk, Looks, Offside
<1>2. CASE ~(Alive(i) /\ uid \notin Uids(Record(i)))
  BY <1>2, CheckedDoes DEF ResolveEntry, WithItem
<1>q. QED
  BY <1>1, <1>2

\* A cover is set or taken away.
LEMMA CoverDoes ==
    ASSUME TypeInv, NEW r \in Requests, NEW i \in Ids, NEW image, Cover(r, i, image)
    PROVE  Paints(i)
<1> DEFINE x == [records[i] EXCEPT !.art = image]
<1>1. ARecord(x, keys) /\ x.plex = Record(i).plex /\ x.entries = Record(i).entries
  BY AliveIsRecord DEF ARecord, Cover
<1>2. records' = [records EXCEPT ![i] = x] /\ unsure \subseteq unsure'
      /\ UNCHANGED <<exports, library, plex, keys, req, meddled>>
  BY DEF Cover
<1> HIDE DEF x
<1>q. QED
  BY <1>1, <1>2 DEF Paints, Cover, Offside

-----------------------------------------------------------------------------
(* The exports written.                                                    *)

\* What writing the export of record x over export e may leave ...
Outcomes(x, e) == {Written(x), Failed(e)}

\* ... and what removing it may.
Removals(e) == {NoFile, Failed(e)}

\* An export is written, and the request is over.
LEMMA ExportDoes ==
    ASSUME TypeInv, NEW r \in Requests, Export(r)
    PROVE  \E i \in Ids :
            /\ req[r].op = "export" /\ req[r].ids = {i}
            /\ \E e \in Outcomes(req[r].record, exports[i]) : exports' = [exports EXCEPT ![i] = e]
            /\ GoesOn(r, Idle) /\ UNCHANGED <<records, library>> /\ Offside
<1>1. req[r].op = "export" /\ Continue(r, Idle) /\ UNCHANGED <<records, library, plex, keys>>
  BY DEF Export
<1>2. PICK i \in Ids : req[r].ids = {i}
  BY <1>1 DEF TypeInv, ARequest, OfOne, Idle
<1>3. PICK j \in req[r].ids : \/ exports' = [exports EXCEPT ![j] = Written(req[r].record)]
                              \/ exports' = [exports EXCEPT ![j] = Failed(@)]
  BY DEF Export
<1>4. \E e \in Outcomes(req[r].record, exports[i]) : exports' = [exports EXCEPT ![i] = e]
  BY <1>2, <1>3 DEF Outcomes, TypeInv
<1>q. QED
  BY <1>1, <1>2, <1>4, ContinueGoesOn DEF Offside

\* The exports of a dropped track's playlists are written.
LEMMA ReexportDoes ==
    ASSUME TypeInv, NEW r \in Requests, Reexport(r)
    PROVE  /\ req[r].op = "reexport" /\ req[r].ids \subseteq Ids
           /\ exports' = [i \in Ids |-> exports'[i]]
           /\ \A i \in req[r].ids : exports'[i] \in Outcomes(req[r].list[i], exports[i])
           /\ \A i \in Ids \ req[r].ids : exports'[i] = exports[i]
           /\ GoesOn(r, Idle) /\ UNCHANGED <<records, library>> /\ Offside
<1>1. req[r].op = "reexport" /\ Continue(r, Idle) /\ UNCHANGED <<records, library, plex, keys>>
  BY DEF Reexport
<1>2. req[r].ids \subseteq Ids
  BY <1>1 DEF TypeInv, ARequest, Idle
<1>3. PICK written \in SUBSET req[r].ids :
        exports' = [i \in Ids |-> CASE i \in written -> Written(req[r].list[i])
                                     [] i \in req[r].ids \ written -> Failed(exports[i])
                                     [] OTHER -> exports[i]]
  BY DEF Reexport
<1>4. /\ exports' = [i \in Ids |-> exports'[i]]
      /\ \A i \in req[r].ids : exports'[i] \in Outcomes(req[r].list[i], exports[i])
      /\ \A i \in Ids \ req[r].ids : exports'[i] = exports[i]
  BY <1>2, <1>3 DEF Outcomes
<1>q. QED
  BY <1>1, <1>2, <1>4, ContinueGoesOn DEF Offside

\* A track is dropped, and its playlists are listed.
LEMMA DropTrackDoes ==
    ASSUME TypeInv, NEW r \in Requests, NEW item, DropTrack(r, item)
    PROVE  \E next :
            /\ req[r] = Idle /\ GoesOn(r, next) /\ ARequest(next, keys)
            /\ next.op = "reexport"
            /\ next.ids = {i \in Ids : Alive(i) /\ item \in TracksOf(Record(i))}
            /\ \A i \in next.ids : next.list[i] = Record(i)
            /\ library' = library \ {item}
            /\ UNCHANGED <<records, exports>> /\ Offside
<1> DEFINE holding == {i \in Ids : Alive(i) /\ item \in TracksOf(Record(i))}
<1> DEFINE next == [op |-> "reexport", ids |-> holding, list |-> [i \in holding |-> Record(i)]]
<1>1. Begin(r, next) /\ library' = library \ {item} /\ UNCHANGED <<records, exports, plex, keys>>
  BY DEF DropTrack
<1>2. ARequest(next, keys) /\ next.op = "reexport" /\ next.ids = holding
      /\ \A i \in holding : next.list[i] = Record(i)
  BY DEF ARequest
<1> HIDE DEF next
<1>q. QED
  BY <1>1, <1>2, BeginGoesOn DEF Offside

\* The exports after a merge that takes its source away.
LEMMA MergeExportsDoes ==
    ASSUME TypeInv, NEW r \in Requests, MergeExports(r)
    PROVE  LET next == Uncopying(req[r].source, req[r].snap) IN
           /\ req[r].op = "merged" /\ AMerge(req[r], keys)
           /\ \E e \in Outcomes(req[r].record, exports[req[r].into]),
                 f \in Removals(exports[req[r].source]) :
                    exports' = [exports EXCEPT ![req[r].into] = e, ![req[r].source] = f]
           /\ GoesOn(r, next) /\ ARequest(next, keys)
           /\ next.op = "uncopy" /\ next.ids = {req[r].source} /\ next.snap = req[r].snap
           /\ next.done = {}
           /\ UNCHANGED <<records, library>> /\ Offside
<1> DEFINE next == Uncopying(req[r].source, req[r].snap)
<1>1. /\ req[r].op = "merged" /\ Continue(r, next)
      /\ UNCHANGED <<records, library, plex, keys>>
  BY DEF MergeExports
<1>2. AMerge(req[r], keys)
  BY <1>1 DEF TypeInv, ARequest, Idle
<1>3. /\ ARequest(next, keys) /\ next.op = "uncopy" /\ next.ids = {req[r].source}
      /\ next.snap = req[r].snap /\ next.done = {}
  BY <1>2 DEF Uncopying, ARequest, AMerge, AnUncopy, OfOne
<1>4. PICK writes \in BOOLEAN, removes \in BOOLEAN :
        exports' = [exports EXCEPT
            ![req[r].into] = IF writes THEN Written(req[r].record) ELSE Failed(@),
            ![req[r].source] = IF removes THEN NoFile ELSE Failed(@)]
  BY DEF MergeExports
<1>5. \E e \in Outcomes(req[r].record, exports[req[r].into]),
         f \in Removals(exports[req[r].source]) :
            exports' = [exports EXCEPT ![req[r].into] = e, ![req[r].source] = f]
  <2> DEFINE e == IF writes THEN Written(req[r].record) ELSE Failed(exports[req[r].into])
  <2> DEFINE f == IF removes THEN NoFile ELSE Failed(exports[req[r].source])
  <2>1. exports' = [exports EXCEPT ![req[r].into] = e, ![req[r].source] = f]
    BY <1>2, <1>4 DEF AMerge
  <2>2. e \in Outcomes(req[r].record, exports[req[r].into])
        /\ f \in Removals(exports[req[r].source])
    BY DEF Outcomes, Removals
  <2>q. QED
    BY <2>1, <2>2
<1> HIDE DEF next
<1>q. QED
  BY <1>1, <1>2, <1>3, <1>5, ContinueGoesOn DEF Offside, next

-----------------------------------------------------------------------------
(* The steps of a sync.                                                    *)

\* Request next is the sync q with the state of account a recorded.
RecordsState(next, q, a, state) ==
    /\ next.op = "sync" /\ next.ids = q.ids /\ next.snap = q.snap
    /\ next.left = q.left \ {a} /\ next.at = Nowhere /\ next.found = {}
    /\ DOMAIN next.states = DOMAIN q.states \union {a} /\ next.states[a] = state
    /\ \A b \in DOMAIN q.states \ {a} : next.states[b] = q.states[b]

\* Nothing but the requests changes.
Inside == UNCHANGED <<records, exports, library>> /\ Offside

\* What a sync at work is like.
LEMMA SyncIs ==
    ASSUME TypeInv, NEW r \in Requests, NEW i, NEW at, Syncing(r, i, at)
    PROVE  ASync(req[r], keys) /\ req[r].op = "sync" /\ OfOne(req[r]) /\ req[r].ids = {i}
           /\ req[r].at = at
BY DEF Syncing, TypeInv, ARequest, Idle

\* A sync with the state of one more account is one.
LEMMA RecordedIs ==
    ASSUME NEW r, NEW n \in Nat, ASync(req[r], n), req[r].op = "sync", OfOne(req[r]),
           NEW a \in Accounts, NEW state, state.key \in 0..n
    PROVE  /\ ARequest(Recorded(r, a, state), n)
           /\ RecordsState(Recorded(r, a, state), req[r], a, state)
           /\ Holds(Recorded(r, a, state)) = Holds(req[r])
<1> DEFINE y == Recorded(r, a, state)
<1>1. /\ DOMAIN y = DOMAIN req[r]
      /\ y.op = "sync" /\ y.ids = req[r].ids /\ y.snap = req[r].snap
      /\ y.left = req[r].left \ {a} /\ y.at = Nowhere /\ y.found = {}
      /\ y.states = With(req[r].states, a, state)
  BY DEF Recorded, ASync
<1> HIDE DEF y
<1>2. /\ DOMAIN y.states = DOMAIN req[r].states \union {a} /\ y.states[a] = state
      /\ \A b \in DOMAIN req[r].states \ {a} : y.states[b] = req[r].states[b]
  BY <1>1 DEF With
<1>3. AStates(y.states, n)
  BY <1>2 DEF ASync, AStates
<1>4. ASync(y, n)
  BY <1>1, <1>2, <1>3 DEF ASync
<1>5. ARequest(y, n)
  BY <1>1, <1>4 DEF ARequest, OfOne
<1>6. Holds(y) = Holds(req[r])
  BY <1>1 DEF Holds
<1>q. QED
  BY <1>1, <1>2, <1>5, <1>6 DEF RecordsState, y

\* What was known of an account before a sync.
PriorKey(q, a) == PriorOf(q.snap, a).key

\* The key known before is the record's, or none.
LEMMA PriorIs ==
    ASSUME NEW q, NEW n \in Nat, ARecord(q.snap, n), NEW a
    PROVE  /\ PriorKey(q, a) \in 0..n
           /\ a \in DOMAIN q.snap.plex => PriorKey(q, a) = q.snap.plex[a].key
           /\ a \notin DOMAIN q.snap.plex => PriorKey(q, a) = 0
BY DEF PriorKey, PriorOf, State, NoKey, ARecord, AStates

\* Sync r of playlist i records the state of account a.
Records(r, i, a, state) ==
    /\ req[r].op = "sync" /\ req[r].ids = {i} /\ ASync(req[r], keys)
    /\ a \in Accounts \ DOMAIN req[r].states
    /\ \E next : /\ GoesOn(r, next) /\ ARequest(next, keys')
                 /\ RecordsState(next, req[r], a, state)
    /\ UNCHANGED <<records, exports, library, meddled>>

\* A sync that goes on so records the state.
LEMMA RecordsDoes ==
    ASSUME TypeInv, NEW r \in Requests, NEW i, NEW at, Syncing(r, i, at),
           NEW a \in Accounts, a \notin DOMAIN req[r].states,
           NEW state, keys' \in Nat, keys <= keys', state.key \in 0..keys',
           GoesOn(r, Recorded(r, a, state)),
           UNCHANGED <<records, exports, library, meddled>>
    PROVE  Records(r, i, a, state)
<1>1. /\ ASync(req[r], keys) /\ req[r].op = "sync" /\ OfOne(req[r]) /\ req[r].ids = {i}
  BY SyncIs
<1>2. ARequest(req[r], keys')
  BY RequestsGrow DEF TypeInv
<1>3. ASync(req[r], keys')
  BY <1>1, <1>2 DEF ARequest, Idle
<1>4. ARequest(Recorded(r, a, state), keys')
      /\ RecordsState(Recorded(r, a, state), req[r], a, state)
  BY <1>1, <1>3, RecordedIs
<1>q. QED
  BY <1>1, <1>4 DEF Records

\* A request begins to handle the copies of a living playlist.
Starts(r, i) ==
    /\ req[r] = Idle /\ Alive(i)
    /\ \E next :
        /\ GoesOn(r, next) /\ ARequest(next, keys)
        /\ next.op \in {"sync", "delete"} /\ next.ids = {i}
        /\ next.snap.plex = Record(i).plex
        /\ next.op = "sync" => next.at = Nowhere /\ DOMAIN next.states = {}
    /\ Inside

\* A request ends, having nothing left to do for the copies, or in doubt.
Quits(r, i) ==
    /\ req[r].op \in {"sync", "delete", "uncopy"} /\ req[r].ids = {i}
    /\ \/ <<"copies", i>> \in unsure'
       \/ req[r].op = "delete"
       \/ req[r].op = "sync" /\ DOMAIN req[r].states = {}
       \/ req[r].op = "uncopy" /\ DOMAIN req[r].snap.plex = req[r].done
    /\ GoesOn(r, Idle) /\ Inside

\* What a request keeps of a record is one, with its copies.
LEMMA SnapshotIs ==
    ASSUME NEW n, NEW x, ARecord(x, n)
    PROVE  /\ ARecord(Snapshot(x), n)
           /\ Snapshot(x).plex = x.plex /\ Snapshot(x).targets = x.targets
BY DEF ARecord, Snapshot

\* A sync starts.
LEMMA StartSyncDoes ==
    ASSUME TypeInv, NEW r \in Requests, NEW i \in Ids, StartSync(r, i)
    PROVE  Starts(r, i)
<1> DEFINE next == [op |-> "sync", ids |-> {i}, snap |-> Snapshot(Record(i)),
                    art |-> IF PosterNow(i, Record(i).art) # {} THEN Record(i).art ELSE NoImage,
                    tracks |-> Lines(Record(i)) # {},
                    left |-> {"admin"} \union Record(i).targets, at |-> Nowhere, found |-> {},
                    states |-> <<>>]
<1>1. Alive(i) /\ Begin(r, next) /\ UNCHANGED <<records, exports, library, plex, keys>>
  BY DEF StartSync, disk
<1>2. /\ ARecord(Record(i), keys) /\ ARecord(Snapshot(Record(i)), keys)
      /\ Snapshot(Record(i)).plex = Record(i).plex
  BY <1>1, AliveIsRecord, SnapshotIs
<1>3. /\ DOMAIN next = {"op", "ids", "snap", "art", "tracks", "left", "at", "found", "states"}
      /\ next.op = "sync" /\ next.ids = {i} /\ next.snap = Snapshot(Record(i))
      /\ next.at = Nowhere /\ next.found = {} /\ DOMAIN next.states = {}
      /\ next.left = {"admin"} \union Record(i).targets
  OBVIOUS
<1> HIDE DEF next
<1>4. ASync(next, keys)
  BY <1>2, <1>3 DEF ASync, AStates, ARecord, Accounts
<1>5. ARequest(next, keys)
  BY <1>3, <1>4 DEF ARequest, OfOne
<1>6. req[r] = Idle /\ GoesOn(r, next) /\ Inside
  BY <1>1, BeginGoesOn DEF Inside, Offside
<1>q. QED
  BY <1>1, <1>2, <1>3, <1>5, <1>6 DEF Starts

\* A sync finds Plex out of reach, and ends.
LEMMA SyncRefusedDoes ==
    ASSUME TypeInv, NEW r \in Requests, NEW i \in Ids, SyncRefused(r, i)
    PROVE  Quits(r, i)
<1>1. Syncing(r, i, Nowhere) /\ req[r].states = <<>> /\ Continue(r, Idle)
      /\ UNCHANGED <<records, exports, library, plex, keys>>
  BY DEF SyncRefused, disk
<1>2. GoesOn(r, Idle) /\ Inside
  BY <1>1, ContinueGoesOn DEF Inside, Offside
<1>3. req[r].op = "sync" /\ req[r].ids = {i}
  BY <1>1, SyncIs
<1>4. DOMAIN <<>> = {}
  OBVIOUS
<1>5. DOMAIN req[r].states = {}
  BY <1>1, <1>4, Zenon
<1>q. QED
  BY <1>2, <1>3, <1>5 DEF Quits

\* Sync r of i, at account a, has looked for its copy.
Finds(r, i, a) ==
    /\ req[r].op = "sync" /\ req[r].ids = {i} /\ ASync(req[r], keys) /\ a \in req[r].left
    /\ \E next :
        /\ GoesOn(r, next) /\ ARequest(next, keys)
        /\ next.op = "sync" /\ next.ids = {i} /\ next.at = a
        /\ next.snap = req[r].snap /\ next.states = req[r].states
        /\ next.found = FindOurs(plex[a], i, PriorKey(req[r], a))
    /\ Inside

\* What is known of an account is kept.
Keeps(r, i, a) ==
    \E state : /\ Records(r, i, a, state) /\ Inside
               /\ state.key = PriorKey(req[r], a) /\ state.status # "absent"

-----------------------------------------------------------------------------
(* The copy an account has of a playlist.                                  *)

\* Of copies there is one with the least key.
LEMMA LeastCopy ==
    ASSUME NEW S, S # {}, \A p \in S : p.key \in Nat
    PROVE  \E p \in S : \A q \in S : p.key <= q.key
<1> DEFINE T == {p.key : p \in S}
<1> DEFINE R == {ss \in Nat \X Nat : ss[1] < ss[2]}
<1>1. IsWellFoundedOn(R, Nat)
  BY NatLessThanWellFounded DEF OpToRel
<1>2. T \subseteq Nat /\ T # {}
  OBVIOUS
<1> HIDE DEF T, R
<1>3. PICK x \in T : \A y \in T : ~(<<y, x>> \in R)
  BY <1>1, <1>2, WFMin
<1>4. PICK p \in S : p.key = x
  BY <1>3 DEF T
<1>5. ASSUME NEW q \in S
      PROVE  p.key <= q.key
  <2>1. q.key \in T /\ q.key \in Nat /\ x \in Nat
    BY <1>2, <1>3 DEF T
  <2>2. ~(<<q.key, x>> \in R)
    BY <2>1, <1>3
  <2>q. QED
    BY <2>1, <2>2, <1>4 DEF R
<1>q. QED
  BY <1>5

\* The rule that finds ours: a marked copy, or else the unmarked one of the
\* key; and no more than one.
LEMMA FindOursIs ==
    ASSUME NEW list, NEW n \in Nat, \A p \in list : ACopy(p, n), NEW i, NEW key
    PROVE  LET found == FindOurs(list, i, key) IN
           /\ found \subseteq list
           /\ \A p \in found : \/ p.mark = i
                               \/ p.mark = NoMark /\ p.key = key /\ MarkedIn(list, i) = {}
           /\ found = {} => /\ MarkedIn(list, i) = {}
                            /\ \A p \in list : p.key = key => p.mark # NoMark
           /\ (\A p, q \in list : p # q => p.key # q.key) => \A p, q \in found : p = q
<1> DEFINE marked == MarkedIn(list, i)
<1> DEFINE found == FindOurs(list, i, key)
<1>1. marked \subseteq list /\ \A p \in list : p \in marked <=> p.mark = i
  BY DEF MarkedIn
<1>2. CASE marked = {}
  <2>1. found = {p \in list : p.key = key /\ p.mark = NoMark}
    BY <1>2 DEF FindOurs
  <2>q. QED
    BY <1>2, <2>1
<1>3. CASE marked # {} /\ \E p \in marked : p.key = key
  <2>1. found = {p \in marked : p.key = key}
    BY <1>3 DEF FindOurs
  <2>q. QED
    BY <1>3, <2>1, <1>1
<1>4. CASE marked # {} /\ ~\E p \in marked : p.key = key
  <2>1. found = {CHOOSE p \in marked : \A q \in marked : p.key <= q.key}
    BY <1>4 DEF FindOurs
  <2>2. \A p \in marked : p.key \in Nat
    BY <1>1 DEF ACopy
  <2>3. \E p \in marked : \A q \in marked : p.key <= q.key
    BY <1>4, <2>2, LeastCopy
  <2>4. \E p \in marked : found = {p}
    BY <2>1, <2>3
  <2>q. QED
    BY <1>1, <2>4
<1>q. QED
  BY <1>2, <1>3, <1>4

\* A look at an account finds the copy, or fails.
LEMMA LookDoes ==
    ASSUME TypeInv, NEW r \in Requests, NEW i \in Ids, NEW a \in Accounts, Look(r, i, a)
    PROVE  Finds(r, i, a) \/ Keeps(r, i, a)
<1> DEFINE prior == PriorOf(req[r].snap, a)
<1> DEFINE state == FailedState(prior)
<1> DEFINE next == [req[r] EXCEPT !.at = a, !.found = FindOurs(plex[a], i, prior.key)]
<1>1. /\ Syncing(r, i, Nowhere) /\ a \in req[r].left
      /\ Continue(r, next) \/ Continue(r, Recorded(r, a, state))
      /\ UNCHANGED <<records, exports, library, plex, keys>>
  BY DEF Look, disk
<1>2. /\ ASync(req[r], keys) /\ req[r].op = "sync" /\ OfOne(req[r]) /\ req[r].ids = {i}
      /\ keys \in Nat /\ a \notin DOMAIN req[r].states
  BY <1>1, SyncIs DEF TypeInv, ASync
<1>3. Inside
  BY <1>1, ContinueGoesOn DEF Inside, Offside
<1>4. CASE Continue(r, next)
  <2>1. /\ DOMAIN next = DOMAIN req[r] /\ next.op = "sync" /\ next.ids = {i}
        /\ next.snap = req[r].snap /\ next.left = req[r].left
        /\ next.states = req[r].states /\ next.at = a
        /\ next.found = FindOurs(plex[a], i, prior.key)
    BY <1>2 DEF ASync
  <2>c. \A p \in plex[a] : ACopy(p, keys)
    BY DEF TypeInv
  <2>f. FindOurs(plex[a], i, prior.key) \subseteq plex[a]
    BY <2>c, <1>2, FindOursIs
  <2>2. \A p \in next.found : ACopy(p, keys)
    BY <2>1, <2>c, <2>f
  <2>3. GoesOn(r, next)
    BY <1>4, ContinueGoesOn
  <2> HIDE DEF next
  <2>4. ASync(next, keys)
    BY <1>1, <1>2, <2>1, <2>2 DEF ASync
  <2>5. ARequest(next, keys)
    BY <1>2, <2>1, <2>4 DEF ARequest, OfOne
  <2>q. QED
    BY <1>1, <1>2, <1>3, <2>1, <2>3, <2>5 DEF Finds, PriorKey
<1>5. CASE Continue(r, Recorded(r, a, state))
  <2>1. state.key = prior.key /\ state.status # "absent"
    BY DEF FailedState, State
  <2>2. prior.key = PriorKey(req[r], a) /\ prior.key \in 0..keys
    BY <1>2, PriorIs DEF ASync, PriorKey
  <2>3. GoesOn(r, Recorded(r, a, state)) /\ UNCHANGED <<records, exports, library, keys, meddled>>
    BY <1>5, <1>1, ContinueGoesOn
  <2>k. keys' \in Nat /\ keys <= keys' /\ state.key \in 0..keys'
    BY <1>2, <2>1, <2>2, <2>3
  <2> HIDE DEF state, prior
  <2>4. Records(r, i, a, state)
    BY <1>1, <1>2, <2>k, <2>3, RecordsDoes
  <2>q. QED
    BY <2>1, <2>2, <2>4, <1>3 DEF Keeps
<1>q. QED
  BY <1>1, <1>4, <1>5

\* A copy is made at account a, where none was found.
Makes(r, i, a) ==
    /\ req[r].at = a /\ req[r].found = {} /\ keys' = keys + 1
    /\ \E mark \in {i, NoMark} : \E poster, state :
        /\ Records(r, i, a, state) /\ state.status # "absent"
        /\ \/ state.key = keys + 1
           \/ state.key = PriorKey(req[r], a) /\ (mark = i \/ <<"stamp", i>> \in unsure')
        /\ plex' = [plex EXCEPT ![a] = @ \union
                        {[key |-> keys + 1, mark |-> mark, of |-> i, poster |-> poster]}]

\* Nothing is pushed, the playlist having no tracks.
Empties(r, i, a) ==
    /\ req[r].at = a /\ Inside
    /\ \E state :
        /\ Records(r, i, a, state) /\ state.status # "absent"
        /\ \/ req[r].found = {} /\ state.key = 0
           \/ \E p \in req[r].found : state.key = p.key

\* The copy of a list with a key is updated, and marked or left as it is.
Updated(list, key, i, stamps, poster) ==
    {q \in list : q.key # key} \union
        {[q EXCEPT !.mark = IF stamps THEN i ELSE @, !.poster = poster] :
            q \in {c \in list : c.key = key}}

Replaces(r, i, a) ==
    /\ req[r].at = a /\ keys' = keys
    /\ \E p \in req[r].found : \E stamps, poster, state :
        /\ Records(r, i, a, state) /\ state.status # "absent" /\ state.key = p.key
        /\ plex' = [plex EXCEPT ![a] = Updated(@, p.key, i, stamps, poster)]

\* The copy at an account no longer a target is deleted.
Drops(r, i, a) ==
    /\ req[r].at = Nowhere /\ a \in DOMAIN req[r].snap.plex /\ keys' = keys
    /\ \E state : Records(r, i, a, state) /\ state.status = "absent" /\ state.key = 0
    /\ plex' = Uncopied(i, a, PriorKey(req[r], a))

\* A push is at its account.
LEMMA PushIs ==
    ASSUME TypeInv, NEW r \in Requests, NEW i, NEW a \in Accounts, Syncing(r, i, a), a # Nowhere
    PROVE  /\ ASync(req[r], keys) /\ req[r].op = "sync" /\ req[r].ids = {i} /\ req[r].at = a
           /\ keys \in Nat /\ a \notin DOMAIN req[r].states
           /\ PriorKey(req[r], a) \in 0..keys
<1>1. /\ ASync(req[r], keys) /\ req[r].op = "sync" /\ req[r].ids = {i} /\ req[r].at = a
      /\ keys \in Nat
  BY SyncIs DEF TypeInv
<1>2. a \notin DOMAIN req[r].states
  BY <1>1 DEF ASync
<1>q. QED
  BY <1>1, <1>2, PriorIs DEF ASync

\* A push that failed.
LEMMA FailedDoes ==
    ASSUME TypeInv, NEW r \in Requests, NEW i, NEW a \in Accounts, Syncing(r, i, a), a # Nowhere,
           Continue(r, Recorded(r, a, FailedState(PriorOf(req[r].snap, a)))),
           UNCHANGED <<plex, keys>>, UNCHANGED disk
    PROVE  Keeps(r, i, a)
<1> DEFINE state == FailedState(PriorOf(req[r].snap, a))
<1>1. state.key = PriorKey(req[r], a) /\ state.status # "absent"
  BY DEF FailedState, State, PriorKey
<1>2. Inside /\ GoesOn(r, Recorded(r, a, state))
      /\ UNCHANGED <<records, exports, library, keys, meddled>>
  BY ContinueGoesOn DEF Inside, Offside, disk
<1> HIDE DEF state
<1>3. keys \in Nat /\ state.key \in 0..keys /\ a \notin DOMAIN req[r].states
  BY <1>1, PushIs
<1>5. keys' \in Nat /\ keys <= keys' /\ state.key \in 0..keys'
  BY <1>2, <1>3
<1>4. Records(r, i, a, state)
  BY <1>2, <1>3, <1>5, RecordsDoes
<1>q. QED
  BY <1>1, <1>2, <1>4 DEF Keeps

\* A push where no copy was found makes one, has nothing to push, or fails.
LEMMA PushNewDoes ==
    ASSUME TypeInv, OverlapInv, NEW r \in Requests, NEW i \in Ids, NEW a \in Accounts,
           PushNew(r, i, a)
    PROVE  Makes(r, i, a) \/ Empties(r, i, a) \/ Keeps(r, i, a)
<1> DEFINE prior == PriorOf(req[r].snap, a)
<1> DEFINE copy(mark, poster) == [key |-> keys + 1, mark |-> mark, of |-> i, poster |-> poster]
<1> DEFINE Made(mark, poster) ==
                /\ keys' = keys + 1
                /\ plex' = [plex EXCEPT ![a] = @ \union {copy(mark, poster)}]
<1> DEFINE Goes(state) == GoesOn(r, Recorded(r, a, state))
<1>1. /\ Syncing(r, i, a) /\ a # Nowhere /\ req[r].found = {}
      /\ UNCHANGED <<records, exports, library>> /\ UNCHANGED disk
  BY DEF PushNew, disk
<1>2. /\ ASync(req[r], keys) /\ req[r].op = "sync" /\ OfOne(req[r]) /\ req[r].ids = {i}
      /\ req[r].at = a /\ keys \in Nat /\ a \notin DOMAIN req[r].states
      /\ PriorKey(req[r], a) \in 0..keys
  BY <1>1, PushIs, SyncIs
<1>3. FailedState(prior).key = PriorKey(req[r], a) /\ FailedState(prior).status # "absent"
  BY DEF FailedState, State, PriorKey
<1>4. \A state : /\ req' = [req EXCEPT ![r] = Recorded(r, a, state)] /\ unsure \subseteq unsure'
                  /\ state.key \in 0..(keys + 1)
                    => Goes(state)
  <2> SUFFICES ASSUME NEW state, req' = [req EXCEPT ![r] = Recorded(r, a, state)],
                      unsure \subseteq unsure', state.key \in 0..(keys + 1)
               PROVE  Goes(state)
    OBVIOUS
  <2>1. ARequest(req[r], keys + 1)
    BY <1>2, RequestsGrow DEF TypeInv
  <2>2. ASync(req[r], keys + 1)
    BY <1>2, <2>1 DEF ARequest, Idle
  <2>3. Holds(Recorded(r, a, state)) = Holds(req[r])
    BY <1>2, <2>2, RecordedIs
  <2>q. QED
    BY <2>3 DEF GoesOn, OverlapInv
<1>5. \/ /\ Continue(r, Recorded(r, a, State(NoKey, NoImage, "empty")))
         /\ UNCHANGED <<plex, keys>>
      \/ Continue(r, Recorded(r, a, FailedState(prior))) /\ UNCHANGED <<plex, keys>>
      \/ \E stamps, settles, uploads \in BOOLEAN :
            LET cover == Poster(r, i, NoImage, NoImage, settles /\ uploads)
            IN  /\ Made(IF stamps THEN i ELSE NoMark, cover.poster)
                /\ req' = [req EXCEPT ![r] = Recorded(r, a,
                            IF settles THEN State(keys + 1, cover.art, "ok")
                            ELSE FailedState(prior))]
                /\ unsure' = unsure \union
                        (IF settles THEN {}
                         ELSE (IF stamps THEN {} ELSE {<<"stamp", i>>}) \union
                              (IF prior.art = NoImage THEN {} ELSE {<<"poster", i>>}))
                /\ UNCHANGED meddled
  BY Zenon DEF PushNew
<1>6. CASE Continue(r, Recorded(r, a, State(NoKey, NoImage, "empty"))) /\ UNCHANGED <<plex, keys>>
  <2> DEFINE state == State(NoKey, NoImage, "empty")
  <2>1. state.key = 0 /\ state.status # "absent"
    BY DEF State, NoKey
  <2>2. Inside /\ GoesOn(r, Recorded(r, a, state))
        /\ UNCHANGED <<records, exports, library, keys, meddled>>
    BY <1>1, <1>6, ContinueGoesOn DEF Inside, Offside
  <2> HIDE DEF state
  <2>3. Records(r, i, a, state)
    BY <1>1, <1>2, <2>1, <2>2, RecordsDoes
  <2>q. QED
    BY <1>1, <1>2, <2>1, <2>2, <2>3 DEF Empties
<1>7. ASSUME NEW mark \in {i, NoMark}, NEW poster, NEW state, Made(mark, poster),
             state.status # "absent",
             \/ state.key = keys + 1
             \/ state.key = PriorKey(req[r], a) /\ (mark = i \/ <<"stamp", i>> \in unsure'),
             Goes(state), UNCHANGED meddled
      PROVE  Makes(r, i, a)
  <2>1. keys' = keys + 1 /\ keys' \in Nat /\ keys <= keys' /\ state.key \in 0..keys'
    BY <1>2, <1>7
  <2>2. plex' = [plex EXCEPT ![a] = @ \union {copy(mark, poster)}]
    BY <1>7
  <2> HIDE DEF Made
  <2>3. Records(r, i, a, state)
    BY <1>1, <1>2, <1>7, <2>1, RecordsDoes
  <2>q. QED
    BY <1>1, <1>2, <1>7, <2>1, <2>2, <2>3 DEF Makes
<1>8. ASSUME NEW stamps \in BOOLEAN, NEW settles \in BOOLEAN, NEW poster, NEW art,
             Made(IF stamps THEN i ELSE NoMark, poster),
             req' = [req EXCEPT ![r] = Recorded(r, a,
                        IF settles THEN State(keys + 1, art, "ok") ELSE FailedState(prior))],
             unsure' = unsure \union
                    (IF settles THEN {}
                     ELSE (IF stamps THEN {} ELSE {<<"stamp", i>>}) \union
                          (IF prior.art = NoImage THEN {} ELSE {<<"poster", i>>})),
             UNCHANGED meddled
      PROVE  Makes(r, i, a)
  <2> DEFINE mark == IF stamps THEN i ELSE NoMark
  <2> DEFINE state == IF settles THEN State(keys + 1, art, "ok") ELSE FailedState(prior)
  <2>1. /\ state.status # "absent" /\ mark \in {i, NoMark}
        /\ \/ settles /\ state.key = keys + 1
           \/ ~settles /\ state.key = PriorKey(req[r], a)
    BY <1>3 DEF State
  <2>2. ~settles => mark = i \/ <<"stamp", i>> \in unsure'
    BY <1>8
  <2>3. state.key \in 0..(keys + 1) /\ unsure \subseteq unsure'
    BY <1>2, <1>8, <2>1
  <2>4. Made(mark, poster) /\ req' = [req EXCEPT ![r] = Recorded(r, a, state)]
    BY <1>8
  <2> HIDE DEF state, mark, Made, prior
  <2>5. Goes(state)
    BY <1>4, <2>3, <2>4
  <2> HIDE DEF Goes
  <2>q. QED
    BY <1>7, <1>8, <2>1, <2>2, <2>4, <2>5
<1>9. CASE \E stamps, settles, uploads \in BOOLEAN :
            LET cover == Poster(r, i, NoImage, NoImage, settles /\ uploads)
            IN  /\ Made(IF stamps THEN i ELSE NoMark, cover.poster)
                /\ req' = [req EXCEPT ![r] = Recorded(r, a,
                            IF settles THEN State(keys + 1, cover.art, "ok")
                            ELSE FailedState(prior))]
                /\ unsure' = unsure \union
                        (IF settles THEN {}
                         ELSE (IF stamps THEN {} ELSE {<<"stamp", i>>}) \union
                              (IF prior.art = NoImage THEN {} ELSE {<<"poster", i>>}))
                /\ UNCHANGED meddled
  <2> HIDE DEF Made, prior
  <2>q. QED
    BY <1>8, <1>9, Zenon
<1>10. CASE Continue(r, Recorded(r, a, FailedState(prior))) /\ UNCHANGED <<plex, keys>>
  BY <1>1, <1>10, FailedDoes
<1> HIDE DEF Made, Goes, prior
<1>q. QED
  BY <1>5, <1>6, <1>9, <1>10, Zenon

\* A push to the copy found updates it, has nothing to push, or fails.
LEMMA PushInPlaceDoes ==
    ASSUME TypeInv, NEW r \in Requests, NEW i \in Ids, NEW a \in Accounts, PushInPlace(r, i, a)
    PROVE  Empties(r, i, a) \/ Keeps(r, i, a) \/ Replaces(r, i, a)
<1> DEFINE prior == PriorOf(req[r].snap, a)
<1>1. /\ Syncing(r, i, a) /\ a # Nowhere /\ UNCHANGED <<records, exports, library, keys>>
      /\ UNCHANGED disk
  BY DEF PushInPlace, disk
<1>2. /\ ASync(req[r], keys) /\ req[r].at = a /\ keys \in Nat /\ a \notin DOMAIN req[r].states
  BY <1>1, PushIs
<1> DEFINE Pushes(p, art, stamps, poster) ==
        LET now == {q \in plex[a] : q.key = p.key} IN
        \/ Continue(r, Recorded(r, a, State(p.key, prior.art, "empty"))) /\ UNCHANGED plex
        \/ Continue(r, Recorded(r, a, FailedState(prior))) /\ UNCHANGED plex
        \/ /\ plex' = [plex EXCEPT ![a] = (@ \ now) \union
                        {[q EXCEPT !.mark = IF stamps THEN i ELSE @, !.poster = poster] :
                            q \in now}]
           /\ Continue(r, Recorded(r, a, State(p.key, art, "ok")))
<1>3. \E p \in req[r].found : \E art, stamps, poster : Pushes(p, art, stamps, poster)
  <2>1. PICK p \in req[r].found, stamps \in BOOLEAN, uploads \in BOOLEAN :
        LET cover == Poster(r, i, p.poster, prior.art, uploads)
            now == {q \in plex[a] : q.key = p.key}
        IN  \/ /\ ~req[r].tracks
               /\ Continue(r, Recorded(r, a, State(p.key, prior.art, "empty")))
               /\ Well /\ UNCHANGED plex
            \/ /\ req[r].tracks /\ now = {}
               /\ Continue(r, Recorded(r, a, FailedState(prior)))
               /\ Well /\ UNCHANGED plex
            \/ /\ req[r].tracks /\ now # {}
               /\ stamps \/ p.mark # i
               /\ uploads \/ Uploading(r, i, prior.art)
               /\ plex' = [plex EXCEPT ![a] = (@ \ now) \union
                        {[q EXCEPT !.mark = IF stamps THEN i ELSE @, !.poster = cover.poster] :
                            q \in now}]
               /\ Continue(r, Recorded(r, a, State(p.key, cover.art, "ok")))
               /\ IF stamps /\ uploads THEN Well ELSE Fault
            \/ /\ req[r].tracks
               /\ Continue(r, Recorded(r, a, FailedState(prior)))
               /\ Fault /\ UNCHANGED plex
    BY Zenon DEF PushInPlace
  <2> DEFINE cover == Poster(r, i, p.poster, prior.art, uploads)
  <2>2. Pushes(p, cover.art, stamps, cover.poster)
    BY <2>1, Zenon
  <2> HIDE DEF prior, cover, Pushes
  <2>q. QED
    BY <2>2, Zenon
<1>a. PICK p \in req[r].found : \E art, stamps, poster : Pushes(p, art, stamps, poster)
  BY <1>3
<1>b. PICK art, stamps, poster : Pushes(p, art, stamps, poster)
  BY <1>a
<1>4. ASSUME NEW art2, NEW status, status # "absent",
             Continue(r, Recorded(r, a, State(p.key, art2, status)))
      PROVE  \E state : Records(r, i, a, state) /\ state.status # "absent" /\ state.key = p.key
  <2> DEFINE state == State(p.key, art2, status)
  <2>1. state.key = p.key /\ state.status # "absent" /\ p.key \in 0..keys
    BY <1>2, <1>4 DEF State, ASync, ACopy
  <2>2. GoesOn(r, Recorded(r, a, state)) /\ UNCHANGED <<records, exports, library, keys, meddled>>
    BY <1>1, <1>4, ContinueGoesOn
  <2> HIDE DEF state
  <2>3. Records(r, i, a, state)
    BY <1>1, <1>2, <2>1, <2>2, RecordsDoes
  <2>q. QED
    BY <2>1, <2>3
<1>5. CASE \E art2 : Continue(r, Recorded(r, a, State(p.key, art2, "empty"))) /\ UNCHANGED plex
  <2>1. Inside
    BY <1>1, <1>5, ContinueGoesOn DEF Inside, Offside
  <2>2. \E state : Records(r, i, a, state) /\ state.status # "absent" /\ state.key = p.key
    BY <1>4, <1>5
  <2>q. QED
    BY <1>2, <2>1, <2>2 DEF Empties
<1>6. CASE Continue(r, Recorded(r, a, FailedState(prior))) /\ UNCHANGED plex
  BY <1>1, <1>6, FailedDoes
<1>7. CASE LET now == {q \in plex[a] : q.key = p.key} IN
           /\ plex' = [plex EXCEPT ![a] = (@ \ now) \union
                        {[q EXCEPT !.mark = IF stamps THEN i ELSE @, !.poster = poster] :
                            q \in now}]
           /\ Continue(r, Recorded(r, a, State(p.key, art, "ok")))
  <2>1. \E state : Records(r, i, a, state) /\ state.status # "absent" /\ state.key = p.key
    BY <1>4, <1>7
  <2>2. plex[a] \ {q \in plex[a] : q.key = p.key} = {q \in plex[a] : q.key # p.key}
    OBVIOUS
  <2>3. plex' = [plex EXCEPT ![a] = Updated(plex[a], p.key, i, stamps, poster)]
    BY <1>7, <2>2, Zenon DEF Updated
  <2>4. req[r].at = a /\ keys' = keys
    BY <1>1, <1>2
  <2>q. QED
    BY <2>1, <2>3, <2>4, Zenon DEF Replaces
<1>q. QED
  BY <1>b, <1>5, <1>6, <1>7, Zenon

\* At an account no longer a target the copy is deleted, or the delete fails.
LEMMA DetargetDoes ==
    ASSUME TypeInv, NEW r \in Requests, NEW i \in Ids, NEW a \in Accounts, Detarget(r, i, a)
    PROVE  Drops(r, i, a) \/ Keeps(r, i, a)
<1> DEFINE gone == State(NoKey, NoImage, "absent")
<1> DEFINE kept == KeptState(req[r].snap.plex[a])
<1>1. /\ Syncing(r, i, Nowhere) /\ a \in DOMAIN req[r].snap.plex /\ a \notin DOMAIN req[r].states
      /\ UNCHANGED <<records, exports, library, keys>>
  BY DEF Detarget, disk
<1>2. /\ ASync(req[r], keys) /\ req[r].at = Nowhere /\ keys \in Nat
      /\ PriorKey(req[r], a) = req[r].snap.plex[a].key /\ PriorKey(req[r], a) \in 0..keys
      /\ Present(req[r].snap.plex)
  BY <1>1, SyncIs, PriorIs DEF TypeInv, ASync, ARecord
<1>3. gone.key = 0 /\ gone.status = "absent"
  BY DEF State, NoKey
<1>4. kept.key = PriorKey(req[r], a) /\ kept.status # "absent"
  BY <1>1, <1>2 DEF KeptState, Present
<1>5. ASSUME NEW state, Continue(r, Recorded(r, a, state)), state.key \in 0..keys
      PROVE  Records(r, i, a, state)
  BY <1>1, <1>2, <1>5, RecordsDoes, ContinueGoesOn
<1> HIDE DEF gone, kept
<1>6. CASE plex' = Uncopied(i, a, req[r].snap.plex[a].key) /\ Continue(r, Recorded(r, a, gone))
  BY <1>1, <1>2, <1>3, <1>5, <1>6 DEF Drops
<1>7. CASE Continue(r, Recorded(r, a, kept)) /\ UNCHANGED plex
  <2>1. Inside
    BY <1>1, <1>7, ContinueGoesOn DEF Inside, Offside
  <2>q. QED
    BY <1>2, <1>4, <1>5, <1>7, <2>1 DEF Keeps
<1>q. QED
  BY <1>6, <1>7 DEF Detarget, gone, kept

\* The sync is over: what it found of the accounts is the record's map.
Saves(r, i) ==
    /\ req[r].op = "sync" /\ req[r].ids = {i} /\ ASync(req[r], keys)
    /\ DOMAIN req[r].snap.plex \subseteq DOMAIN req[r].states
    /\ GoesOn(r, Idle)
    /\ IF Alive(i)
       THEN \E x : /\ ARecord(x, keys) /\ x.entries = Record(i).entries
                   /\ records' = [records EXCEPT ![i] = x]
                   /\ DOMAIN x.plex = {a \in DOMAIN req[r].states :
                                            req[r].states[a].status # "absent"}
                   /\ \A a \in DOMAIN x.plex : x.plex[a] = req[r].states[a]
       ELSE records' = records
    /\ UNCHANGED <<exports, library>> /\ Offside

\* The end of a sync is written, or could not be.
LEMMA EndSyncDoes ==
    ASSUME TypeInv, NEW r \in Requests, NEW i \in Ids, EndSync(r, i)
    PROVE  Saves(r, i) \/ Quits(r, i)
<1> DEFINE kept == {a \in DOMAIN req[r].states : req[r].states[a].status # "absent"}
<1> DEFINE states == [a \in kept |-> req[r].states[a]]
<1> DEFINE x == [records[i] EXCEPT !.plex = states]
<1>1. /\ Syncing(r, i, Nowhere) /\ DOMAIN req[r].snap.plex \subseteq DOMAIN req[r].states
      /\ UNCHANGED <<exports, library, plex, keys>>
  BY DEF EndSync
<1>2. /\ ASync(req[r], keys) /\ req[r].op = "sync" /\ req[r].ids = {i}
  BY <1>1, SyncIs
<1>3. \/ /\ records' = IF Alive(i) THEN [records EXCEPT ![i] = x] ELSE records
         /\ Continue(r, Idle)
      \/ UNCHANGED records /\ Ends(r, {<<"copies", i>>, <<"poster", i>>})
  BY DEF EndSync
<1>4. CASE /\ records' = IF Alive(i) THEN [records EXCEPT ![i] = x] ELSE records
           /\ Continue(r, Idle)
  <2>1. GoesOn(r, Idle) /\ Offside
    BY <1>1, <1>4, ContinueGoesOn DEF Offside
  <2>2. CASE Alive(i)
    <3>1. /\ DOMAIN states = kept /\ \A a \in kept : states[a] = req[r].states[a]
          /\ ARecord(records[i], keys) /\ Record(i) = records[i]
      BY <2>2, AliveIsRecord
    <3>2. AStates(states, keys) /\ Present(states)
      BY <3>1, <1>2 DEF ASync, AStates, Present
    <3> HIDE DEF states
    <3>3. ARecord(x, keys) /\ x.entries = Record(i).entries /\ x.plex = states
      BY <3>1, <3>2 DEF ARecord
    <3>4. records' = [records EXCEPT ![i] = x]
      BY <1>4, <2>2
    <3> HIDE DEF x
    <3>q. QED
      BY <1>1, <1>2, <2>1, <2>2, <3>1, <3>3, <3>4 DEF Saves
  <2>3. CASE ~Alive(i)
    BY <1>1, <1>2, <1>4, <2>1, <2>3 DEF Saves
  <2>q. QED
    BY <2>2, <2>3
<1>5. CASE UNCHANGED records /\ Ends(r, {<<"copies", i>>, <<"poster", i>>})
  <2>1. GoesOn(r, Idle) /\ Inside /\ <<"copies", i>> \in unsure'
    BY <1>1, <1>5, EndsGoesOn DEF Inside, Offside
  <2>q. QED
    BY <1>2, <2>1 DEF Quits
<1>q. QED
  BY <1>3, <1>4, <1>5

\* A deletion reads the record.
LEMMA StartDeleteDoes ==
    ASSUME TypeInv, NEW r \in Requests, NEW i \in Ids, StartDelete(r, i)
    PROVE  Starts(r, i)
<1> DEFINE next == [op |-> "delete", ids |-> {i}, snap |-> Snapshot(Record(i))]
<1>1. Alive(i) /\ Begin(r, next) /\ UNCHANGED <<records, exports, library, plex, keys>>
  BY DEF StartDelete, disk
<1>2. next.op = "delete" /\ next.ids = {i} /\ next.snap = Snapshot(Record(i))
      /\ "into" \notin DOMAIN next
  OBVIOUS
<1>s. ARecord(Snapshot(Record(i)), keys) /\ Snapshot(Record(i)).plex = Record(i).plex
  BY <1>1, AliveIsRecord, SnapshotIs
<1> HIDE DEF next
<1>3. ARequest(next, keys)
  BY <1>1, <1>2, <1>s DEF ARequest, OfOne
<1>4. req[r] = Idle /\ GoesOn(r, next) /\ Inside
  BY <1>1, BeginGoesOn DEF Inside, Offside
<1>q. QED
  BY <1>1, <1>2, <1>s, <1>3, <1>4 DEF Starts

\* So does a merge that takes its source away.
LEMMA StartMergeAwayDoes ==
    ASSUME TypeInv, NEW r \in Requests, NEW i \in Ids, NEW j \in Ids, StartMergeAway(r, i, j)
    PROVE  Starts(r, j)
<1> DEFINE next == [op |-> "delete", ids |-> {j}, snap |-> Snapshot(Record(j)), into |-> i]
<1>1. i # j /\ Alive(j) /\ Begin(r, next) /\ UNCHANGED <<records, exports, library, plex, keys>>
  BY DEF StartMergeAway, disk
<1>2. next.op = "delete" /\ next.ids = {j} /\ next.snap = Snapshot(Record(j)) /\ next.into = i
  OBVIOUS
<1>s. ARecord(Snapshot(Record(j)), keys) /\ Snapshot(Record(j)).plex = Record(j).plex
  BY <1>1, AliveIsRecord, SnapshotIs
<1> HIDE DEF next
<1>3. ARequest(next, keys)
  BY <1>1, <1>2, <1>s DEF ARequest, OfOne
<1>4. req[r] = Idle /\ GoesOn(r, next) /\ Inside
  BY <1>1, BeginGoesOn DEF Inside, Offside
<1>q. QED
  BY <1>1, <1>2, <1>s, <1>3, <1>4 DEF Starts

\* A playlist is deleted, with its export; its copies are to follow.
Deletes(r, i) ==
    /\ req[r].op = "delete" /\ req[r].ids = {i} /\ Alive(i)
    /\ records' = [records EXCEPT ![i] = Gone]
    /\ \E e \in Removals(exports[i]) : exports' = [exports EXCEPT ![i] = e]
    /\ \E next : /\ GoesOn(r, next) /\ ARequest(next, keys)
                 /\ next.op = "uncopy" /\ next.ids = {i}
                 /\ next.snap = req[r].snap /\ next.done = {}
    /\ UNCHANGED library /\ Offside

\* A request to delete copies is one.
LEMMA UncopyingIs ==
    ASSUME NEW i \in Ids, NEW n, NEW x, ARecord(x, n)
    PROVE  LET next == Uncopying(i, x) IN
           /\ ARequest(next, n) /\ next.op = "uncopy" /\ next.ids = {i}
           /\ next.snap = x /\ next.done = {}
<1> DEFINE next == Uncopying(i, x)
<1>1. /\ DOMAIN next = {"op", "ids", "snap", "done"} /\ next.op = "uncopy" /\ next.ids = {i}
      /\ next.snap = x /\ next.done = {}
  BY DEF Uncopying
<1> HIDE DEF next
<1>2. ARequest(next, n)
  BY <1>1 DEF ARequest, AnUncopy, OfOne
<1>q. QED
  BY <1>1, <1>2 DEF next

\* The playlist is deleted, or was gone.
LEMMA DeleteDoes ==
    ASSUME TypeInv, NEW r \in Requests, NEW i \in Ids, Delete(r, i)
    PROVE  Deletes(r, i) \/ Quits(r, i)
<1>1. req[r].op = "delete" /\ req[r].ids = {i} /\ UNCHANGED <<library, plex, keys>>
  BY DEF Delete
<1>2. ARecord(req[r].snap, keys)
  BY <1>1 DEF TypeInv, ARequest, Idle
<1>3. CASE Alive(i)
  <2>e. \E e \in Removals(exports[i]) : exports' = [exports EXCEPT ![i] = e]
    BY <1>3 DEF Delete, Removals, TypeInv
  <2>1. /\ records' = [records EXCEPT ![i] = Gone]
        /\ GoesOn(r, Uncopying(i, req[r].snap)) /\ UNCHANGED library /\ Offside
    BY <1>1, <1>3, ContinueGoesOn DEF Delete, Deleted, Offside
  <2>2. LET next == Uncopying(i, req[r].snap) IN
        /\ ARequest(next, keys) /\ next.op = "uncopy" /\ next.ids = {i}
        /\ next.snap = req[r].snap /\ next.done = {}
    BY <1>2, UncopyingIs
  <2>q. QED
    BY <1>1, <1>3, <2>e, <2>1, <2>2 DEF Deletes
<1>4. CASE ~Alive(i)
  <2>1. GoesOn(r, Idle) /\ Inside
    BY <1>1, <1>4, ContinueGoesOn DEF Delete, Inside, Offside
  <2>q. QED
    BY <1>1, <2>1 DEF Quits
<1>q. QED
  BY <1>3, <1>4

\* Playlist j is merged into i and deleted; its export and copies are to follow.
MergesAway(r, i, j) ==
    /\ req[r].op = "delete" /\ req[r].ids = {j} /\ i # j /\ Alive(i) /\ Alive(j)
    /\ \E x, next :
        /\ ARecord(x, keys) /\ x.plex = Record(i).plex
        /\ records' = [records EXCEPT ![i] = x, ![j] = Gone]
        /\ GoesOn(r, next) /\ ARequest(next, keys)
        /\ next.op = "merged" /\ next.ids = {i, j} /\ next.source = j /\ next.into = i
        /\ next.record = x /\ next.snap = req[r].snap
    /\ UNCHANGED <<exports, library>> /\ Offside

\* The source is merged and deleted, or one of the two was gone.
LEMMA MergeAwayDoes ==
    ASSUME TypeInv, NEW r \in Requests, NEW i \in Ids, NEW j \in Ids, MergeAway(r, i, j)
    PROVE  MergesAway(r, i, j) \/ Quits(r, j)
<1> DEFINE x == Merged(Record(i), Record(j))
<1> DEFINE next == [op |-> "merged", ids |-> {i, j}, source |-> j, into |-> i,
                    record |-> x, snap |-> req[r].snap]
<1>1. req[r].op = "delete" /\ req[r].ids = {j} /\ UNCHANGED <<exports, library, plex, keys>>
      /\ "into" \in DOMAIN req[r] /\ req[r].into = i
  BY DEF MergeAway
<1>2. ARecord(req[r].snap, keys) /\ i # j
  BY <1>1 DEF TypeInv, ARequest, Idle
<1>3. CASE Alive(i) /\ Alive(j)
  <2>1. /\ records' = [records EXCEPT ![i] = x, ![j] = Gone] /\ Continue(r, next)
    BY <1>3 DEF MergeAway
  <2>2. ARecord(x, keys) /\ x.plex = Record(i).plex
    BY <1>3, AliveIsRecord DEF ARecord, Merged
  <2> HIDE DEF x
  <2>3. /\ next.op = "merged" /\ next.ids = {i, j} /\ next.source = j /\ next.into = i
        /\ next.record = x /\ next.snap = req[r].snap
    OBVIOUS
  <2> HIDE DEF next
  <2>4. ARequest(next, keys)
    BY <1>2, <2>3 DEF ARequest, AMerge
  <2>5. GoesOn(r, next) /\ UNCHANGED <<exports, library>> /\ Offside
    BY <1>1, <2>1, ContinueGoesOn DEF Offside
  <2>q. QED
    BY <1>1, <1>2, <1>3, <2>1, <2>2, <2>3, <2>4, <2>5 DEF MergesAway
<1>4. CASE ~(Alive(i) /\ Alive(j))
  <2>1. GoesOn(r, Idle) /\ Inside
    BY <1>1, <1>4, ContinueGoesOn DEF MergeAway, Inside, Offside
  <2>q. QED
    BY <1>1, <2>1 DEF Quits
<1>q. QED
  BY <1>3, <1>4

\* A copy of a deleted playlist is deleted, or passed over in doubt.
Uncopies(r, i, a) ==
    /\ req[r].op = "uncopy" /\ req[r].ids = {i} /\ AnUncopy(req[r], keys)
    /\ a \in DOMAIN req[r].snap.plex \ req[r].done
    /\ \/ plex' = Uncopied(i, a, PriorKey(req[r], a))
       \/ plex' = plex /\ <<"copies", i>> \in unsure'
    /\ keys' = keys
    /\ \E next : /\ GoesOn(r, next) /\ ARequest(next, keys)
                 /\ next.op = "uncopy" /\ next.ids = {i}
                 /\ next.snap = req[r].snap /\ next.done = req[r].done \union {a}
    /\ UNCHANGED <<records, exports, library, meddled>>

\* A copy is deleted, or Plex does not answer and it, or every one, is given up.
LEMMA UncopyDoes ==
    ASSUME TypeInv, OverlapInv, NEW r \in Requests, NEW i \in Ids, NEW a \in Accounts,
           Uncopy(r, i, a)
    PROVE  Uncopies(r, i, a) \/ Quits(r, i)
<1> DEFINE next == [req[r] EXCEPT !.done = @ \union {a}]
<1>1. /\ req[r].op = "uncopy" /\ req[r].ids = {i} /\ a \in DOMAIN req[r].snap.plex \ req[r].done
      /\ UNCHANGED <<records, exports, library, keys>>
  BY DEF Uncopy, disk
<1>2. AnUncopy(req[r], keys) /\ ARecord(req[r].snap, keys) /\ keys \in Nat
  BY <1>1 DEF TypeInv, ARequest, AnUncopy, Idle
<1>3. PriorKey(req[r], a) = req[r].snap.plex[a].key
  BY <1>1, <1>2, PriorIs
<1>n. /\ DOMAIN next = DOMAIN req[r] /\ next.op = "uncopy" /\ next.ids = {i}
      /\ next.snap = req[r].snap /\ next.done = req[r].done \union {a}
  BY <1>1, <1>2 DEF AnUncopy
<1> HIDE DEF next
<1>a. ARequest(next, keys)
  BY <1>2, <1>n DEF ARequest, AnUncopy, OfOne
<1>4. CASE plex' = Uncopied(i, a, req[r].snap.plex[a].key) /\ Continue(r, next)
  <2>1. GoesOn(r, next) /\ UNCHANGED meddled
    BY <1>4, ContinueGoesOn
  <2>q. QED
    BY <1>1, <1>2, <1>3, <1>4, <1>n, <1>a, <2>1 DEF Uncopies
<1>6. CASE /\ req' = [req EXCEPT ![r] = next] /\ unsure' = unsure \union {<<"copies", i>>}
           /\ UNCHANGED <<plex, meddled>>
  <2>1. Holds(next) = Holds(req[r])
    BY <1>1, <1>n DEF Holds
  <2>2. GoesOn(r, next)
    BY <1>6, <2>1 DEF GoesOn, OverlapInv
  <2>q. QED
    BY <1>1, <1>2, <1>6, <1>n, <1>a, <2>2 DEF Uncopies
<1>5. CASE Ends(r, {<<"copies", i>>}) /\ UNCHANGED plex
  <2>1. GoesOn(r, Idle) /\ Inside /\ <<"copies", i>> \in unsure'
    BY <1>1, <1>5, EndsGoesOn DEF Inside, Offside
  <2>q. QED
    BY <1>1, <2>1 DEF Quits
<1>q. QED
  BY <1>4, <1>5, <1>6 DEF Uncopy, next

\* No copy is left to delete.
LEMMA EndUncopyDoes ==
    ASSUME TypeInv, NEW r \in Requests, EndUncopy(r)
    PROVE  \E i \in Ids : Quits(r, i)
<1>1. /\ req[r].op = "uncopy" /\ DOMAIN req[r].snap.plex = req[r].done /\ Continue(r, Idle)
      /\ UNCHANGED <<records, exports, library, plex, keys>>
  BY DEF EndUncopy, disk
<1>2. PICK i \in Ids : req[r].ids = {i}
  BY <1>1 DEF TypeInv, ARequest, OfOne, Idle
<1>3. GoesOn(r, Idle) /\ Inside
  BY <1>1, ContinueGoesOn DEF Inside, Offside
<1>q. QED
  BY <1>1, <1>2, <1>3 DEF Quits

-----------------------------------------------------------------------------
(* What is known after a step.                                             *)

\* Of the copies of i the record says what it said.
SamePlex(i) ==
    \/ Alive(i) /\ Alive(i)' /\ Record(i)'.plex = Record(i).plex
    \/ ~Alive(i) /\ records'[i] = records[i]
    \/ records[i] = Unborn /\ Alive(i)' /\ Record(i)'.plex = <<>>

\* The requests after a step of request r.
LEMMA NextRequests ==
    ASSUME TypeInv, NEW r \in Requests, NEW next, GoesOn(r, next)
    PROVE  req'[r] = next /\ \A s \in Requests \ {r} : req'[s] = req[s]
BY DEF TypeInv, GoesOn

\* A record left alone keeps its copies.
LEMMA SameRecord ==
    ASSUME NEW i \in Ids, SamePlex(i), NEW a, NEW k
    PROVE  InRecord(records[i], a, k)' <=> InRecord(records[i], a, k)
<1>1. CASE records[i] = Unborn /\ Alive(i)' /\ Record(i)'.plex = <<>>
  <2>1. DOMAIN <<>> = {}
    OBVIOUS
  <2>2. a \notin DOMAIN records'[i].plex
    BY <1>1, <2>1, Zenon DEF Record
  <2>3. ~records[i].alive
    BY <1>1 DEF Unborn
  <2>q. QED
    BY <2>2, <2>3 DEF InRecord
<1>q. QED
  BY <1>1 DEF InRecord, SamePlex, Alive, Record

\* Of a playlist whose copies the step leaves alone, the same.
LEMMA AwayKeeps ==
    ASSUME TypeInv, NEW r \in Requests, NEW next, GoesOn(r, next),
           NEW i \in Ids, SamePlex(i),
           next = req[r] \/ (~AtCopies(req[r], i) /\ ~AtCopies(next, i)), NEW a, NEW k
    PROVE  (Knows(i, a, k)' <=> Knows(i, a, k)) /\ (Recalls(i, a, k)' <=> Recalls(i, a, k))
<1>1. \A s \in Requests : /\ AtCopies(req'[s], i) <=> AtCopies(req[s], i)
                          /\ AtCopies(req[s], i) => req'[s] = req[s]
  BY NextRequests
<1>2. InRecord(records[i], a, k)' <=> InRecord(records[i], a, k)
  BY SameRecord
<1>3. Settled(i)' <=> Settled(i)
  BY <1>1 DEF Settled
<1>4. Knows(i, a, k)' <=> Knows(i, a, k)
  BY <1>1, <1>2, <1>3 DEF Knows
<1>5. Recalls(i, a, k)' <=> Recalls(i, a, k)
  BY <1>1, <1>2 DEF Recalls
<1>q. QED
  BY <1>4, <1>5

\* What is known of a sure playlist, one request being at its copies ...
LEMMA HeldKnows ==
    ASSUME OverlapInv, NEW r \in Requests, NEW i \in Ids, Sure(i), AtCopies(req[r], i),
           NEW a, NEW k
    PROVE  Knows(i, a, k) <=> KnownBy(req[r], a, k)
<1>1. \A s \in Requests : AtCopies(req[s], i) => s = r
  BY OneAtCopies
<1>2. ~Settled(i)
  BY DEF Settled
<1>q. QED
  BY <1>1, <1>2 DEF Knows

\* ... or coming to them ...
LEMMA HeldKnowsNext ==
    ASSUME TypeInv, OverlapInv', NEW r \in Requests, NEW next, GoesOn(r, next),
           NEW i \in Ids, Sure(i)', AtCopies(next, i), NEW a, NEW k
    PROVE  /\ Knows(i, a, k)' <=> KnownBy(next, a, k)
           /\ \A s \in Requests \ {r} : ~AtCopies(req[s], i)
<1>1. req'[r] = next /\ \A s \in Requests \ {r} : req'[s] = req[s]
  BY NextRequests
<1>2. \A s \in Requests \ {r} : ~AtCopies(req'[s], i)
  BY <1>1 DEF OverlapInv, AtCopies, Sure
<1>3. ~Settled(i)'
  BY <1>1 DEF Settled
<1>4. Knows(i, a, k)' <=> KnownBy(next, a, k)
  BY <1>1, <1>2, <1>3 DEF Knows
<1>q. QED
  BY <1>1, <1>2, <1>4

\* ... or none, before it and after it.
LEMMA FreeKnows ==
    ASSUME NEW i \in Ids, NEW r \in Requests, \A s \in Requests \ {r} : ~AtCopies(req[s], i),
           ~AtCopies(req[r], i), NEW a, NEW k
    PROVE  Knows(i, a, k) <=> InRecord(records[i], a, k)
BY DEF Knows, Settled

\* The same after a step.
LEMMA FreeKnowsNext ==
    ASSUME TypeInv, OverlapInv, NEW r \in Requests, NEW next, GoesOn(r, next),
           NEW i \in Ids, Sure(i), AtCopies(req[r], i), ~AtCopies(next, i), NEW a, NEW k
    PROVE  Knows(i, a, k)' <=> InRecord(records'[i], a, k)
<1>1. \A s \in Requests : AtCopies(req[s], i) => s = r
  BY OneAtCopies
<1>2. \A s \in Requests : ~AtCopies(req'[s], i)
  BY <1>1, NextRequests
<1>q. QED
  BY <1>2 DEF Knows, Settled

\* What a step adds to what is recalled is in the record or in the request.
LEMMA RecallsNext ==
    ASSUME TypeInv, NEW r \in Requests, NEW next, GoesOn(r, next), NEW i \in Ids,
           NEW a, NEW k, Recalls(i, a, k)'
    PROVE  \/ Recalls(i, a, k)
           \/ InRecord(records'[i], a, k)
           \/ AtCopies(next, i) /\ RecalledBy(next, a, k)
BY NextRequests DEF Recalls

-----------------------------------------------------------------------------
(* What a step does to the copies.                                         *)

\* What is taken for a copy stays one, or not sure.
LEMMA MixedStays ==
    ASSUME unsure \subseteq unsure', NEW i, NEW p, Mixed(i, p)
    PROVE  Mixed(i, p)'
BY DEF Mixed, Sure

\* Key k on account a leads to no playlist but i's own.
GoodKey(i, a, k) ==
    \A c \in plex[a] : c.key = k => Mixed(i, c) /\ (meddled = 0 => c.of = i)

\* No key is 0.
LEMMA NoKeyIsGood ==
    ASSUME TypeInv, NEW i, NEW a \in Accounts
    PROVE  GoodKey(i, a, 0)
BY DEF GoodKey, TypeInv, ACopy

\* A step that leaves the copies alone and forgets no key that one is known by.
LEMMA CopiesStand ==
    ASSUME TypeInv, CopyInv, ReachInv, KeyInv, QuietInv, UNCHANGED <<plex, keys, meddled>>,
           unsure \subseteq unsure',
           \A i \in Ids, a \in Accounts : \A p \in plex[a] :
                Recalls(i, a, p.key)' => Recalls(i, a, p.key) \/ GoodKey(i, a, p.key),
           \A i \in Ids, a \in Accounts : \A p \in plex[a] :
                Sure(i)' /\ Knows(i, a, p.key)' => Knows(i, a, p.key) \/ GoodKey(i, a, p.key),
           \A i \in Ids, a \in Accounts : \A p \in plex[a] : \A k \in 0..keys :
                Traced(i)' /\ p.of = i /\ Knows(i, a, k) /\ (p.mark = i \/ p.key = k) =>
                    Knows(i, a, k)' \/ Knows(i, a, p.key)'
    PROVE  CopyInv' /\ ReachInv' /\ KeyInv' /\ QuietInv'
<1>0. plex' = plex /\ keys' = keys /\ meddled' = meddled /\ keys \in Nat
  BY DEF TypeInv
<1>s. \A i \in Ids : Sure(i)' => Sure(i)
  BY SureBefore
<1>t. \A i \in Ids : Traced(i)' => Traced(i) /\ Sure(i)'
  BY TracedBefore
<1>1. CopyInv'
  <2>1. \A i, p : Mixed(i, p) => Mixed(i, p)'
    BY MixedStays
  <2>q. QED
    BY <1>0, <1>t, <2>1 DEF CopyInv
<1>2. ReachInv'
  <2> SUFFICES ASSUME NEW i \in Ids, Traced(i)', NEW a \in Accounts, NEW p \in plex[a], p.of = i
               PROVE  \E k \in 0..keys : Knows(i, a, k)' /\ (p.mark = i \/ p.key = k)
    BY <1>0 DEF ReachInv
  <2>1. PICK k \in 0..keys : Knows(i, a, k) /\ (p.mark = i \/ p.key = k)
    BY <1>t DEF ReachInv
  <2>2. Knows(i, a, k)' \/ Knows(i, a, p.key)'
    BY <1>t, <2>1
  <2>3. p.key \in 0..keys
    BY <1>0 DEF TypeInv, ACopy
  <2>q. QED
    BY <2>1, <2>2, <2>3
<1>3. KeyInv'
  <2> SUFFICES ASSUME NEW i \in Ids, NEW a \in Accounts, NEW p \in plex[a], StrayKey(i, p)
               PROVE  /\ Recalls(i, a, p.key)' /\ p.of \in Ids => ~Sure(p.of)'
                      /\ Knows(i, a, p.key)' /\ Sure(i)' => MarkedIn(plex[a], i) # {}
    BY <1>0 DEF KeyInv
  <2>1. GoodKey(i, a, p.key) => Mixed(i, p)
    BY DEF GoodKey
  <2>2. p.of # i
    BY DEF StrayKey
  <2>3. ASSUME Recalls(i, a, p.key)', p.of \in Ids
        PROVE  ~Sure(p.of)'
    <3>1. CASE Recalls(i, a, p.key)
      BY <1>s, <2>3, <3>1 DEF KeyInv
    <3>2. CASE GoodKey(i, a, p.key)
      BY <1>s, <2>1, <2>2, <2>3, <3>2 DEF Mixed
    <3>q. QED
      BY <2>3, <3>1, <3>2
  <2>4. ASSUME Knows(i, a, p.key)', Sure(i)'
        PROVE  MarkedIn(plex[a], i) # {}
    <3>1. CASE Knows(i, a, p.key)
      BY <1>s, <2>4, <3>1 DEF KeyInv
    <3>2. CASE GoodKey(i, a, p.key)
      BY <1>s, <2>1, <2>2, <2>4, <3>2 DEF Mixed
    <3>q. QED
      BY <2>4, <3>1, <3>2
  <2>q. QED
    BY <2>3, <2>4
<1>4. QuietInv'
  <2> SUFFICES ASSUME meddled = 0, NEW a \in Accounts, NEW p \in plex[a]
               PROVE  /\ p.mark \in {NoMark, p.of}
                      /\ \A i \in Ids : Recalls(i, a, p.key)' => p.of = i
    BY <1>0 DEF QuietInv
  <2>1. ASSUME NEW i \in Ids, Recalls(i, a, p.key)'
        PROVE  p.of = i
    <3>1. CASE Recalls(i, a, p.key)
      BY <3>1 DEF QuietInv
    <3>2. CASE GoodKey(i, a, p.key)
      BY <3>2 DEF GoodKey
    <3>q. QED
      BY <2>1, <3>1, <3>2
  <2>2. p.mark \in {NoMark, p.of}
    BY DEF QuietInv
  <2>q. QED
    BY <2>1, <2>2
<1>q. QED
  BY <1>1, <1>2, <1>3, <1>4

\* A request that is at no account has found nothing.
LEMMA FindsNone ==
    ASSUME NEW CONSTANT q, q.op = "sync" => q.at = Nowhere
    PROVE  \A i \in Ids : HasFound(q, i)'
BY DEF HasFound

\* What a push has found stays found: no copy changes hands, and a new one is
\* of a playlist that no other request is at, or one that is not sure.
LEMMA FoundStays ==
    ASSUME TypeInv, FoundInv, NEW r \in Requests, NEW next, GoesOn(r, next),
           next = req[r] \/ \A i \in Ids : HasFound(next, i)', meddled' = 0 => meddled = 0,
           \A a \in Accounts : \A c \in plex'[a] :
                \/ \E d \in plex[a] : d.key = c.key /\ d.of = c.of
                \/ /\ c.key = keys + 1
                   /\ \A s \in Requests \ {r} : AtCopies(req[s], c.of) => ~Sure(c.of)'
                   /\ next # req[r]
    PROVE  FoundInv'
<1>r. \A i \in Ids : next # req[r] => HasFound(next, i)'
  OBVIOUS
<1> SUFFICES ASSUME NEW s \in Requests, NEW i \in Ids, req'[s] = req[s],
                    next # req[r] => s # r
             PROVE  HasFound(req[s], i)'
  BY <1>r, NextRequests DEF FoundInv
<1> DEFINE q == req[s]
<1> SUFFICES ASSUME q.op = "sync", i \in q.ids, q.at # Nowhere
             PROVE  HasFound(q, i)'
  BY DEF HasFound
<1>2. /\ ASync(q, keys) /\ ARequest(q, keys) /\ keys \in Nat
      /\ q.op = "sync" /\ i \in q.ids /\ q.at # Nowhere
  BY DEF TypeInv, ARequest, Idle
<1>3. q.at \in Accounts /\ \A p \in q.found : p.key \in 1..keys
  BY <1>2 DEF ASync, ACopy
<1>4. AtCopies(q, i)
  BY <1>2, HoldsIs
<1> HIDE DEF q
<1>5. /\ \A p \in q.found :
            /\ Mixed(i, p) /\ (meddled = 0 => p.of = i)
            /\ \A c \in plex[q.at] : /\ c.key = p.key => c.of = p.of
                                     /\ Traced(i) /\ c.of = i => c.key = p.key
      /\ q.found = {} /\ Traced(i) => \A c \in plex[q.at] : c.of # i
  BY <1>2 DEF FoundInv, HasFound, q
<1>6. Traced(i)' => Traced(i) /\ Sure(i)'
  BY TracedBefore DEF GoesOn
<1>7. \A c \in plex'[q.at] : \/ \E d \in plex[q.at] : d.key = c.key /\ d.of = c.of
                             \/ c.key = keys + 1 /\ (Sure(i)' => c.of # i)
  BY <1>3, <1>4 DEF q
<1>8. ASSUME NEW p \in q.found
      PROVE  /\ Mixed(i, p)' /\ (meddled' = 0 => p.of = i)
             /\ \A c \in plex'[q.at] : /\ c.key = p.key => c.of = p.of
                                       /\ Traced(i)' /\ c.of = i => c.key = p.key
  <2>1. Mixed(i, p)'
    BY <1>5, MixedStays DEF GoesOn
  <2>2. meddled' = 0 => p.of = i
    BY <1>5
  <2>3. ASSUME NEW c \in plex'[q.at]
        PROVE  (c.key = p.key => c.of = p.of) /\ (Traced(i)' /\ c.of = i => c.key = p.key)
    <3>1. CASE \E d \in plex[q.at] : d.key = c.key /\ d.of = c.of
      BY <1>5, <1>6, <3>1
    <3>2. CASE c.key = keys + 1 /\ (Sure(i)' => c.of # i)
      BY <1>2, <1>3, <1>6, <3>2
    <3>q. QED
      BY <1>7, <3>1, <3>2
  <2>q. QED
    BY <2>1, <2>2, <2>3
<1>9. ASSUME q.found = {}, Traced(i)', NEW c \in plex'[q.at]
      PROVE  c.of # i
  BY <1>5, <1>6, <1>7, <1>9
<1>q. QED
  BY <1>8, <1>9 DEF HasFound, q

\* What a request carries of a playlist left alone.
LEMMA CarryKept ==
    ASSUME CarryInv, NEW s \in Requests, NEW i \in Ids, AtCopies(req[s], i), Sure(i),
           SamePlex(i)
    PROVE  IF req[s].op \in {"sync", "delete"}
           THEN Alive(i)' /\ Record(i)'.plex = req[s].snap.plex
           ELSE records'[i] = Gone
<1>1. IF req[s].op \in {"sync", "delete"}
      THEN Alive(i) /\ Record(i).plex = req[s].snap.plex
      ELSE records[i] = Gone
  BY DEF CarryInv
<1>2. ~Alive(i) => records'[i] = records[i] \/ records[i] = Unborn
  BY DEF SamePlex
<1>3. Gone # Unborn /\ (records[i] = Gone => ~Alive(i))
  BY DEF Gone, Unborn, Alive
<1>4. Alive(i) => Alive(i)' /\ Record(i)'.plex = Record(i).plex
  BY DEF SamePlex, Unborn, Alive
<1>q. QED
  BY <1>1, <1>2, <1>3, <1>4

\* What the requests carry, their playlists left alone.
LEMMA CarryStays ==
    ASSUME TypeInv, CarryInv, NEW r \in Requests, NEW next, GoesOn(r, next),
           \A i \in Ids : \A s \in Requests \ {r} :
                AtCopies(req[s], i) /\ Sure(i)' => SamePlex(i),
           \A i \in Ids : AtCopies(next, i) /\ Sure(i)' =>
                IF next.op \in {"sync", "delete"}
                THEN Alive(i)' /\ Record(i)'.plex = next.snap.plex
                ELSE records'[i] = Gone
    PROVE  CarryInv'
<1> SUFFICES ASSUME NEW s \in Requests, NEW i \in Ids, AtCopies(req'[s], i), Sure(i)'
             PROVE  IF req'[s].op \in {"sync", "delete"}
                    THEN Alive(i)' /\ Record(i)'.plex = req'[s].snap.plex
                    ELSE records'[i] = Gone
  BY DEF CarryInv
<1>1. req'[r] = next /\ \A t \in Requests \ {r} : req'[t] = req[t]
  BY NextRequests
<1>2. CASE s = r
  BY <1>1, <1>2
<1>3. CASE s # r
  <2>1. req'[s] = req[s] /\ SamePlex(i) /\ Sure(i)
    BY <1>1, <1>3, SureBefore DEF GoesOn
  <2>q. QED
    BY <2>1, CarryKept
<1>q. QED
  BY <1>2, <1>3

\* What is known of the copies.
Copies == CopyInv /\ CarryInv /\ ReachInv /\ KeyInv /\ FoundInv /\ QuietInv

\* A step that handles no copies.
LEMMA AwayStands ==
    ASSUME TypeInv, Copies, NEW r \in Requests, NEW next, GoesOn(r, next),
           UNCHANGED <<plex, keys, meddled>>,
           \A i \in Ids : SamePlex(i),
           \/ next = req[r]
           \/ /\ next.op # "sync"
              /\ \A i \in Ids : ~AtCopies(req[r], i) /\ ~AtCopies(next, i)
    PROVE  Copies'
<1>0. plex' = plex /\ keys' = keys /\ meddled' = meddled /\ unsure \subseteq unsure'
  BY DEF GoesOn
<1>1. \A i \in Ids : \A a, k : /\ Knows(i, a, k)' <=> Knows(i, a, k)
                               /\ Recalls(i, a, k)' <=> Recalls(i, a, k)
  BY AwayKeeps
<1>2. CopyInv' /\ ReachInv' /\ KeyInv' /\ QuietInv'
  BY <1>0, <1>1, CopiesStand DEF Copies
<1>3. FoundInv'
  BY <1>0, FindsNone, FoundStays DEF Copies
<1>4. CarryInv'
  <2>1. CASE next = req[r]
    BY <1>0, <2>1, CarryKept, CarryStays, SureBefore DEF Copies
  <2>2. CASE \A i \in Ids : ~AtCopies(next, i)
    BY <2>2, CarryStays DEF Copies
  <2>q. QED
    BY <2>1, <2>2
<1>q. QED
  BY <1>2, <1>3, <1>4 DEF Copies

\* The shapes after a step.
LEMMA TypeStays ==
    ASSUME TypeInv, NEW r \in Requests, NEW next, GoesOn(r, next), ARequest(next, keys'),
           keys' \in Nat, keys <= keys', meddled' \in Nat,
           records' = [i \in Ids |-> records'[i]],
           \A i \in Ids : \/ records'[i] \in {Unborn, Gone, records[i]}
                          \/ ARecord(records'[i], keys'),
           exports' = [i \in Ids |-> exports'[i]],
           plex' = [a \in Accounts |-> plex'[a]],
           \A a \in Accounts : \A p \in plex'[a] : p \in plex[a] \/ ACopy(p, keys')
    PROVE  TypeInv'
<1>1. /\ req' = [s \in Requests |-> req'[s]]
      /\ \A s \in Requests : ARequest(req'[s], keys')
  BY RequestsGoOn
<1>2. ASSUME NEW i \in Ids
      PROVE  records'[i] \in {Unborn, Gone} \/ ARecord(records'[i], keys')
  BY RecordsGrow DEF TypeInv
<1>3. ASSUME NEW a \in Accounts, NEW p \in plex'[a]
      PROVE  ACopy(p, keys')
  BY CopiesGrow DEF TypeInv
<1>q. QED
  BY <1>1, <1>2, <1>3 DEF TypeInv

\* A step that changes no keys and no copies.
LEMMA TypeStaysOffside ==
    ASSUME TypeInv, NEW r \in Requests, NEW next, GoesOn(r, next), ARequest(next, keys), Offside,
           records' = [i \in Ids |-> records'[i]],
           \A i \in Ids : \/ records'[i] \in {Unborn, Gone, records[i]}
                          \/ ARecord(records'[i], keys),
           exports' = [i \in Ids |-> exports'[i]]
    PROVE  TypeInv'
<1>1. keys' = keys /\ plex' = plex /\ meddled' = meddled
  BY DEF Offside
<1>2. /\ keys' \in Nat /\ keys <= keys' /\ meddled' \in Nat
      /\ plex' = [a \in Accounts |-> plex'[a]]
  BY <1>1 DEF TypeInv
<1>3. ARequest(next, keys') /\ \A i \in Ids : ARecord(records'[i], keys) => ARecord(records'[i], keys')
  BY <1>1
<1>q. QED
  BY <1>1, <1>2, <1>3, TypeStays

\* What is not handled by copies: edits and exports.
LEMMA EditorsAway ==
    ASSUME NEW q, NEW n, ARequest(q, n), q.op \in Editors
    PROVE  \A i : ~AtCopies(q, i)
BY HoldsIs DEF Editors

\* A record left alone has the same copies.
LEMMA UnchangedSamePlex ==
    ASSUME NEW i \in Ids, records'[i] = records[i]
    PROVE  SamePlex(i)
BY DEF SamePlex, Alive, Record

\* The invariants, but for the exports.
Kept == TypeInv /\ OverlapInv /\ Copies

\* An edit, or an export.
LEMMA EditorStands ==
    ASSUME Kept, NEW r \in Requests, NEW next, GoesOn(r, next), ARequest(next, keys),
           req[r].op \in Editors, next.op \in Editors, Offside,
           records' = [i \in Ids |-> records'[i]],
           \A i \in Ids : records'[i] = records[i] \/ (SamePlex(i) /\ ARecord(records'[i], keys)),
           exports' = [i \in Ids |-> exports'[i]]
    PROVE  Kept'
<1>1. TypeInv'
  BY TypeStaysOffside DEF Kept
<1>2. OverlapInv'
  BY OverlapGoesOn DEF Kept
<1>3. \A i \in Ids : SamePlex(i)
  BY UnchangedSamePlex
<1>4. \A i : ~AtCopies(req[r], i) /\ ~AtCopies(next, i)
  BY EditorsAway DEF Kept, TypeInv
<1>5. next.op # "sync" /\ UNCHANGED <<plex, keys, meddled>>
  BY DEF Editors, Offside
<1>6. Copies'
  BY <1>3, <1>4, <1>5, AwayStands DEF Kept
<1>q. QED
  BY <1>1, <1>2, <1>6 DEF Kept

\* An edit written keeps it ...
LEMMA WritesStands ==
    ASSUME Kept, NEW r \in Requests, NEW i \in Ids, NEW x, Writes(r, i, x)
    PROVE  Kept'
<1>1. PICK next : /\ GoesOn(r, next) /\ ARequest(next, keys)
                  /\ next.op \in {"export", "imported"}
  BY DEF Writes
<1>2. /\ req[r].op \in Editors /\ next.op \in Editors /\ Offside
      /\ exports' = [j \in Ids |-> exports'[j]]
  BY <1>1 DEF Writes, Editors, Kept, TypeInv
<1>3. /\ records' = [j \in Ids |-> records'[j]] /\ records'[i] = x
      /\ \A j \in Ids \ {i} : records'[j] = records[j]
  BY DEF Writes, Kept, TypeInv
<1>4. SamePlex(i) /\ ARecord(records'[i], keys)
  BY <1>3 DEF Writes, ARecord, SamePlex, Alive, Record
<1>q. QED
  BY <1>1, <1>2, <1>3, <1>4, EditorStands

\* ... and a look ...
LEMMA LooksStands ==
    ASSUME Kept, NEW r \in Requests, Looks(r)
    PROVE  Kept'
<1>1. PICK next : GoesOn(r, next) /\ ARequest(next, keys) /\ next.op \in {"idle", "check"}
  BY DEF Looks
<1>2. /\ req[r].op \in Editors /\ next.op \in Editors /\ Offside
      /\ exports' = [j \in Ids |-> exports'[j]] /\ records' = [j \in Ids |-> records'[j]]
      /\ records' = records
  BY <1>1 DEF Looks, Editors, Kept, TypeInv
<1>q. QED
  BY <1>1, <1>2, EditorStands

\* ... an import that comes late ...
LEMMA ComesLateStands ==
    ASSUME Kept, NEW r \in Requests, NEW i \in Ids, ComesLate(r, i)
    PROVE  Kept'
<1> DEFINE next == Exporting(i, req[r].record)
<1>1. GoesOn(r, next) /\ ARequest(next, keys) /\ next.op = "export"
  BY ExportIsRequest DEF ComesLate
<1>2. /\ req[r].op \in Editors /\ next.op \in Editors /\ Offside
      /\ exports' = [j \in Ids |-> exports'[j]] /\ records' = [j \in Ids |-> records'[j]]
      /\ records' = records
  BY <1>1 DEF ComesLate, Editors, Kept, TypeInv
<1> HIDE DEF next
<1>q. QED
  BY <1>1, <1>2, EditorStands

\* ... and a cover.
LEMMA PaintsStands ==
    ASSUME Kept, NEW r \in Requests, NEW i \in Ids, Paints(i)
    PROVE  Kept'
<1>1. PICK x : /\ ARecord(x, keys) /\ x.plex = Record(i).plex
               /\ records' = [records EXCEPT ![i] = x]
  BY DEF Paints
<1>2. Alive(i) /\ req' = req /\ unsure \subseteq unsure' /\ UNCHANGED exports /\ Offside
  BY DEF Paints
<1>3. GoesOn(r, req[r]) /\ ARequest(req[r], keys)
  BY <1>2 DEF GoesOn, Kept, TypeInv, OverlapInv
<1>4. /\ records' = [j \in Ids |-> records'[j]] /\ records'[i] = x
      /\ \A j \in Ids \ {i} : records'[j] = records[j]
      /\ exports' = [j \in Ids |-> exports'[j]]
  BY <1>1, <1>2 DEF Kept, TypeInv
<1>5. SamePlex(i) /\ ARecord(records'[i], keys)
  BY <1>1, <1>2, <1>4 DEF ARecord, SamePlex, Alive, Record
<1>6. TypeInv'
  BY <1>2, <1>3, <1>4, <1>5, TypeStaysOffside DEF Kept
<1>7. OverlapInv'
  BY <1>3, OverlapGoesOn DEF Kept
<1>8. \A j \in Ids : SamePlex(j)
  BY <1>4, <1>5, UnchangedSamePlex
<1>9. Copies'
  BY <1>2, <1>3, <1>8, AwayStands DEF Kept, Offside
<1>q. QED
  BY <1>6, <1>7, <1>9 DEF Kept

\* A step that leaves the records as they are.
LEMMA ExporterStands ==
    ASSUME Kept, NEW r \in Requests, NEW next, GoesOn(r, next), ARequest(next, keys),
           req[r].op \in Editors, next.op \in Editors, Offside, UNCHANGED records,
           exports' = [i \in Ids |-> exports'[i]]
    PROVE  Kept'
<1>1. records' = [i \in Ids |-> records'[i]]
  BY DEF Kept, TypeInv
<1>q. QED
  BY <1>1, EditorStands

\* So does the writing of an export ...
LEMMA ExportStands ==
    ASSUME Kept, NEW r \in Requests, Export(r)
    PROVE  Kept'
<1>1. PICK i \in Ids :
            /\ req[r].op = "export"
            /\ \E e \in Outcomes(req[r].record, exports[i]) : exports' = [exports EXCEPT ![i] = e]
            /\ GoesOn(r, Idle) /\ UNCHANGED records /\ Offside
  BY ExportDoes DEF Kept
<1>2. exports' = [j \in Ids |-> exports'[j]]
  BY <1>1 DEF Kept, TypeInv
<1>q. QED
  BY <1>1, <1>2, IdleIsRequest, ExporterStands DEF Editors

\* ... of several ...
LEMMA ReexportStands ==
    ASSUME Kept, NEW r \in Requests, Reexport(r)
    PROVE  Kept'
<1>1. /\ req[r].op = "reexport" /\ GoesOn(r, Idle) /\ UNCHANGED records /\ Offside
      /\ exports' = [i \in Ids |-> exports'[i]]
  BY ReexportDoes DEF Kept
<1>q. QED
  BY <1>1, IdleIsRequest, ExporterStands DEF Editors

\* ... and the drop of a track.
LEMMA DropTrackStands ==
    ASSUME Kept, NEW r \in Requests, NEW item, DropTrack(r, item)
    PROVE  Kept'
<1>1. PICK next :
            /\ req[r] = Idle /\ GoesOn(r, next) /\ ARequest(next, keys)
            /\ next.op = "reexport" /\ UNCHANGED <<records, exports>> /\ Offside
  BY DropTrackDoes DEF Kept
<1>2. exports' = [j \in Ids |-> exports'[j]] /\ UNCHANGED records
  BY <1>1 DEF Kept, TypeInv
<1>q. QED
  BY <1>1, <1>2, IdleIsRequest, ExporterStands DEF Editors

-----------------------------------------------------------------------------
(* The steps that handle the copies of one playlist, leaving Plex alone.   *)

\* A step hands the copies of i over from the record to a request, from one
\* request to what it does next, or back: what is known of them stays known.
LEMMA HandsOver ==
    ASSUME Kept, TypeInv', NEW r \in Requests, NEW next, GoesOn(r, next), NEW i \in Ids,
           UNCHANGED <<plex, keys, meddled>>, FoundInv',
           \A j \in Ids \ {i} : SamePlex(j) /\ ~AtCopies(req[r], j) /\ ~AtCopies(next, j),
           SamePlex(i) \/ AtCopies(req[r], i),
           \A a \in Accounts : \A k :
                InRecord(records'[i], a, k) \/ (AtCopies(next, i) /\ RecalledBy(next, a, k)) =>
                    Recalls(i, a, k) \/ GoodKey(i, a, k),
           Sure(i)' => \A a \in Accounts : \A k :
                Knows(i, a, k)' => Knows(i, a, k) \/ GoodKey(i, a, k),
           Traced(i)' => \A a \in Accounts : \A p \in plex[a] : \A k \in 0..keys :
                p.of = i /\ Knows(i, a, k) => Knows(i, a, k)' \/ Knows(i, a, p.key)',
           AtCopies(next, i) /\ Sure(i)' =>
                IF next.op \in {"sync", "delete"}
                THEN Alive(i)' /\ Record(i)'.plex = next.snap.plex
                ELSE records'[i] = Gone
    PROVE  Kept'
<1>1. OverlapInv'
  BY OverlapGoesOn DEF Kept
<1>2. \A j \in Ids \ {i} : \A a, k : /\ Knows(j, a, k)' <=> Knows(j, a, k)
                                     /\ Recalls(j, a, k)' <=> Recalls(j, a, k)
  BY AwayKeeps DEF Kept
<1>3. \A a \in Accounts : \A k : Recalls(i, a, k)' => Recalls(i, a, k) \/ GoodKey(i, a, k)
  BY RecallsNext DEF Kept
<1>4. \A j \in Ids, a \in Accounts : \A p \in plex[a] :
            Recalls(j, a, p.key)' => Recalls(j, a, p.key) \/ GoodKey(j, a, p.key)
  BY <1>2, <1>3
<1>5. \A j \in Ids, a \in Accounts : \A p \in plex[a] :
            Sure(j)' /\ Knows(j, a, p.key)' => Knows(j, a, p.key) \/ GoodKey(j, a, p.key)
  BY <1>2
<1>6. \A j \in Ids, a \in Accounts : \A p \in plex[a] : \A k \in 0..keys :
            Traced(j)' /\ p.of = j /\ Knows(j, a, k) /\ (p.mark = j \/ p.key = k) =>
                Knows(j, a, k)' \/ Knows(j, a, p.key)'
  BY <1>2
<1>7. unsure \subseteq unsure'
  BY DEF GoesOn
<1>8. CopyInv' /\ ReachInv' /\ KeyInv' /\ QuietInv'
  BY <1>4, <1>5, <1>6, <1>7, CopiesStand DEF Kept, Copies
<1>9. CarryInv'
  <2>1. \A j \in Ids : \A s \in Requests \ {r} : AtCopies(req[s], j) /\ Sure(j)' => SamePlex(j)
    BY <1>7, OneAtCopies, SureBefore DEF Kept
  <2>q. QED
    BY <2>1, CarryStays DEF Kept, Copies
<1>q. QED
  BY <1>1, <1>8, <1>9 DEF Kept, Copies

\* One after which the playlist, if sure, is known as before.
LEMMA HandsOverSame ==
    ASSUME Kept, TypeInv', NEW r \in Requests, NEW next, GoesOn(r, next), NEW i \in Ids,
           UNCHANGED <<plex, keys, meddled>>, next.op = "sync" => next.at = Nowhere,
           \A j \in Ids \ {i} : SamePlex(j) /\ ~AtCopies(req[r], j) /\ ~AtCopies(next, j),
           SamePlex(i) \/ AtCopies(req[r], i),
           \A a \in Accounts : \A k :
                InRecord(records'[i], a, k) \/ (AtCopies(next, i) /\ RecalledBy(next, a, k)) =>
                    Recalls(i, a, k),
           Sure(i)' => \A a \in Accounts : \A k : Knows(i, a, k)' <=> Knows(i, a, k),
           AtCopies(next, i) /\ Sure(i)' =>
                IF next.op \in {"sync", "delete"}
                THEN Alive(i)' /\ Record(i)'.plex = next.snap.plex
                ELSE records'[i] = Gone
    PROVE  Kept'
<1>1. FoundInv'
  BY FindsNone, FoundStays DEF Kept, Copies
<1>2. Traced(i)' => Sure(i)'
  BY DEF Traced
<1>q. QED
  BY <1>1, <1>2, HandsOver

\* A request that handles one playlist is at no other's copies.
LEMMA OnlyAt ==
    ASSUME NEW q, NEW n, ARequest(q, n), NEW i, NEW j,
           \/ q.op \in {"sync", "delete", "uncopy"} /\ q.ids = {i}
           \/ q.op = "merged" /\ q.source = i
    PROVE  AtCopies(q, i) /\ (AtCopies(q, j) => j = i)
BY HoldsIs

\* A step inside the requests keeps the shapes.
LEMMA InsideType ==
    ASSUME TypeInv, NEW r \in Requests, NEW next, GoesOn(r, next), ARequest(next, keys), Inside
    PROVE  TypeInv' /\ (\A i \in Ids : SamePlex(i)) /\ UNCHANGED <<plex, keys, meddled>>
<1>1. /\ Offside /\ records' = [i \in Ids |-> records'[i]] /\ records' = records
      /\ exports' = [i \in Ids |-> exports'[i]]
  BY DEF Inside, TypeInv
<1>2. TypeInv'
  BY <1>1, TypeStaysOffside
<1>3. \A i \in Ids : SamePlex(i)
  BY <1>1, UnchangedSamePlex
<1>q. QED
  BY <1>1, <1>2, <1>3 DEF Offside

\* A request takes the copies over from the record ...
LEMMA StartsStands ==
    ASSUME Kept, NEW r \in Requests, NEW i \in Ids, Starts(r, i)
    PROVE  Kept'
<1>1. PICK next : /\ GoesOn(r, next) /\ ARequest(next, keys)
                  /\ next.op \in {"sync", "delete"} /\ next.ids = {i}
                  /\ next.snap.plex = Record(i).plex
                  /\ next.op = "sync" => next.at = Nowhere /\ DOMAIN next.states = {}
  BY DEF Starts
<1>2. /\ TypeInv' /\ \A j \in Ids : SamePlex(j)
      /\ UNCHANGED <<plex, keys, meddled>> /\ UNCHANGED records
  BY <1>1, InsideType DEF Starts, Kept, Inside
<1>3. \A j : ~AtCopies(req[r], j)
  BY IdleIsRequest, HoldsIs DEF Starts
<1>4. AtCopies(next, i) /\ \A j : AtCopies(next, j) => j = i
  BY <1>1, OnlyAt
<1>5. records[i].alive /\ Record(i) = records[i] /\ Alive(i)
  BY DEF Starts, Alive, Record
<1>6. \A a, k : /\ KnownBy(next, a, k) <=> InRecord(records[i], a, k)
                /\ RecalledBy(next, a, k) => InRecord(records[i], a, k)
  BY <1>1, <1>5 DEF KnownBy, RecalledBy, InRecord
<1>7. ASSUME Sure(i)', NEW a \in Accounts, NEW k
      PROVE  Knows(i, a, k)' <=> Knows(i, a, k)
  <2>1. OverlapInv'
    BY <1>1, OverlapGoesOn DEF Kept
  <2>2. /\ Knows(i, a, k)' <=> KnownBy(next, a, k)
        /\ \A s \in Requests \ {r} : ~AtCopies(req[s], i)
    BY <1>1, <1>4, <1>7, <2>1, HeldKnowsNext DEF Kept
  <2>3. Knows(i, a, k) <=> InRecord(records[i], a, k)
    BY <1>3, <2>2, FreeKnows
  <2>q. QED
    BY <1>6, <2>2, <2>3
<1>8. \A a \in Accounts : \A k :
            InRecord(records'[i], a, k) \/ (AtCopies(next, i) /\ RecalledBy(next, a, k)) =>
                Recalls(i, a, k)
  BY <1>2, <1>6 DEF Recalls
<1>9. Alive(i)' /\ Record(i)'.plex = next.snap.plex
  BY <1>1, <1>2, <1>5 DEF Alive, Record
<1>q. QED
  BY <1>1, <1>2, <1>3, <1>4, <1>7, <1>8, <1>9, HandsOverSame

\* ... and leaves them to it.
LEMMA QuitsStands ==
    ASSUME Kept, NEW r \in Requests, NEW i \in Ids, Quits(r, i)
    PROVE  Kept'
<1>1. /\ req[r].op \in {"sync", "delete", "uncopy"} /\ req[r].ids = {i}
      /\ GoesOn(r, Idle) /\ Inside /\ ARequest(req[r], keys)
  BY DEF Quits, Kept, TypeInv
<1>2. /\ TypeInv' /\ \A j \in Ids : SamePlex(j)
      /\ UNCHANGED <<plex, keys, meddled>> /\ UNCHANGED records
  BY <1>1, IdleIsRequest, InsideType DEF Kept, Inside
<1>3. \A j : ~AtCopies(Idle, j)
  BY IdleIsRequest, HoldsIs
<1>4. AtCopies(req[r], i) /\ \A j : AtCopies(req[r], j) => j = i
  BY <1>1, OnlyAt
<1>5. ASSUME Sure(i)', NEW a \in Accounts, NEW k
      PROVE  Knows(i, a, k)' <=> Knows(i, a, k)
  <2>1. Sure(i)
    BY <1>1, <1>5, SureBefore DEF GoesOn
  <2>2. Knows(i, a, k)' <=> InRecord(records[i], a, k)
    BY <1>1, <1>2, <1>3, <1>4, <2>1, FreeKnowsNext DEF Kept
  <2>3. Knows(i, a, k) <=> KnownBy(req[r], a, k)
    BY <1>4, <2>1, HeldKnows DEF Kept
  <2>4. IF req[r].op \in {"sync", "delete"}
        THEN Alive(i) /\ Record(i).plex = req[r].snap.plex
        ELSE records[i] = Gone
    BY <1>4, <2>1 DEF Kept, Copies, CarryInv
  <2>5. \/ req[r].op = "delete"
        \/ req[r].op = "sync" /\ DOMAIN req[r].states = {}
        \/ req[r].op = "uncopy" /\ DOMAIN req[r].snap.plex = req[r].done
    BY <1>5 DEF Quits, Sure
  <2>6. CASE req[r].op \in {"sync", "delete"}
    BY <2>2, <2>3, <2>4, <2>5, <2>6 DEF KnownBy, InRecord, Alive, Record
  <2>7. CASE req[r].op = "uncopy"
    <3>1. ~KnownBy(req[r], a, k)
      BY <2>5, <2>7 DEF KnownBy
    <3>2. ~InRecord(records[i], a, k)
      BY <2>4, <2>7 DEF InRecord, Gone
    <3>q. QED
      BY <2>2, <2>3, <3>1, <3>2
  <2>q. QED
    BY <1>1, <2>6, <2>7
<1>6. \A a \in Accounts : \A k : InRecord(records'[i], a, k) => Recalls(i, a, k)
  BY <1>2 DEF Recalls
<1>q. QED
  BY <1>1, <1>2, <1>3, <1>4, <1>5, <1>6, IdleIsRequest, HandsOverSame

\* Of account a, request q knows what it has read of it and no more.
KnowsAsRead(q, a) ==
    \A k : KnownBy(q, a, k) <=> a \in DOMAIN q.snap.plex /\ k = q.snap.plex[a].key

\* What is found by it is a copy of the playlist.
LEMMA FindsFound ==
    ASSUME Kept, NEW r \in Requests, NEW i \in Ids, NEW a \in Accounts,
           AtCopies(req[r], i), KnowsAsRead(req[r], a), ARecord(req[r].snap, keys),
           NEW p \in FindOurs(plex[a], i, PriorKey(req[r], a))
    PROVE  p \in plex[a] /\ Mixed(i, p) /\ (meddled = 0 => p.of = i)
<1> DEFINE key == PriorKey(req[r], a)
<1>0. /\ \A c \in plex[a] : ACopy(c, keys)
      /\ keys \in Nat
  BY DEF Kept, TypeInv
<1>1. /\ p \in plex[a] /\ p.key \in 1..keys /\ p.of \in Ids \union {Someone}
      /\ p.mark = i \/ (p.mark = NoMark /\ p.key = key /\ MarkedIn(plex[a], i) = {})
  BY <1>0, FindOursIs DEF ACopy
<1>2. CASE p.mark = i
  <2>1. Mixed(i, p)
    BY <1>1, <1>2 DEF Kept, Copies, CopyInv
  <2>2. meddled = 0 => p.mark \in {NoMark, p.of}
    BY <1>1 DEF Kept, Copies, QuietInv
  <2>3. i # NoMark
    BY IdsAssumption DEF NoMark
  <2>q. QED
    BY <1>1, <1>2, <2>1, <2>2, <2>3
<1>3. CASE p.mark = NoMark /\ p.key = key /\ MarkedIn(plex[a], i) = {}
  <2>0. p.key = PriorKey(req[r], a) /\ p.key # 0
    BY <1>0, <1>1, <1>3
  <2>1. a \in DOMAIN req[r].snap.plex /\ p.key = req[r].snap.plex[a].key
    BY <1>0, <2>0, PriorIs
  <2>2. Recalls(i, a, p.key)
    BY <2>1 DEF Recalls, RecalledBy
  <2>3. Knows(i, a, p.key)
    BY <2>1 DEF Knows, KnowsAsRead
  <2>4. p.of # i => StrayKey(i, p)
    BY <1>3 DEF StrayKey
  <2>5. p.of # i => ~Sure(i) /\ (p.of \in Ids => ~Sure(p.of))
    BY <1>1, <1>3, <2>2, <2>3, <2>4 DEF Kept, Copies, KeyInv
  <2>6. meddled = 0 => p.of = i
    BY <1>1, <2>2 DEF Kept, Copies, QuietInv
  <2>q. QED
    BY <1>1, <2>5, <2>6 DEF Mixed
<1>q. QED
  BY <1>1, <1>2, <1>3

\* Where nothing is found of a traced playlist, there is no copy of it.
LEMMA FindsAll ==
    ASSUME Kept, NEW r \in Requests, NEW i \in Ids, NEW a \in Accounts,
           AtCopies(req[r], i), KnowsAsRead(req[r], a), ARecord(req[r].snap, keys), Traced(i),
           FindOurs(plex[a], i, PriorKey(req[r], a)) = {}, NEW c \in plex[a]
    PROVE  c.of # i
<1> DEFINE key == PriorKey(req[r], a)
<1>0. /\ \A d \in plex[a] : ACopy(d, keys)
      /\ keys \in Nat
  BY DEF Kept, TypeInv
<1>1. c.mark # i /\ (c.key = key => c.mark # NoMark)
  BY <1>0, FindOursIs DEF MarkedIn
<1> SUFFICES ASSUME c.of = i
             PROVE  FALSE
  OBVIOUS
<1>2. PICK k \in 0..keys : Knows(i, a, k) /\ (c.mark = i \/ c.key = k)
  BY DEF Kept, Copies, ReachInv
<1>3. c.key = k
  BY <1>1, <1>2
<1>4. KnownBy(req[r], a, k)
  BY <1>2, HeldKnows DEF Kept, Traced
<1>5. k = key
  BY <1>0, <1>4, PriorIs DEF KnowsAsRead
<1>6. c.mark \in Ids
  BY <1>0, <1>1, <1>3, <1>5 DEF ACopy
<1>7. Mixed(c.mark, c)
  BY <1>6 DEF Kept, Copies, CopyInv
<1>q. QED
  BY <1>1, <1>7 DEF Mixed, Traced

\* A look at an account keeps it.
LEMMA FindsStands ==
    ASSUME Kept, NEW r \in Requests, NEW i \in Ids, NEW a \in Accounts, Finds(r, i, a)
    PROVE  Kept'
<1>1. /\ req[r].op = "sync" /\ req[r].ids = {i} /\ ASync(req[r], keys)
      /\ a \notin DOMAIN req[r].states /\ ARequest(req[r], keys)
  BY DEF Finds, ASync, Kept, TypeInv
<1>2. PICK next :
        /\ GoesOn(r, next) /\ ARequest(next, keys)
        /\ next.op = "sync" /\ next.ids = {i} /\ next.at = a
        /\ next.snap = req[r].snap /\ next.states = req[r].states
        /\ next.found = FindOurs(plex[a], i, PriorKey(req[r], a))
  BY DEF Finds
<1>3. /\ TypeInv' /\ \A j \in Ids : SamePlex(j)
      /\ UNCHANGED <<plex, keys, meddled>> /\ UNCHANGED records
  BY <1>2, InsideType DEF Finds, Kept, Inside
<1>4. /\ AtCopies(req[r], i) /\ \A j : AtCopies(req[r], j) => j = i
      /\ AtCopies(next, i) /\ \A j : AtCopies(next, j) => j = i
  BY <1>1, <1>2, OnlyAt
<1>5. Sure(i)' => Sure(i)
  BY <1>2, SureBefore DEF GoesOn
<1>t. Traced(i)' => Traced(i) /\ Sure(i)'
  BY <1>2, TracedBefore DEF GoesOn
<1>r. KnowsAsRead(req[r], a) /\ ARecord(req[r].snap, keys)
  BY <1>1 DEF KnowsAsRead, KnownBy, ASync
<1>6. FoundInv'
  <2>1. plex' = plex /\ meddled' = meddled /\ unsure \subseteq unsure'
    BY <1>2, <1>3 DEF GoesOn
  <2>2. ASSUME NEW p \in next.found
        PROVE  /\ Mixed(i, p)' /\ (meddled' = 0 => p.of = i)
               /\ \A c \in plex[a] : /\ c.key = p.key => c.of = p.of
                                     /\ Traced(i)' /\ c.of = i => c.key = p.key
    <3>1. p \in plex[a] /\ Mixed(i, p) /\ (meddled = 0 => p.of = i)
      BY <1>r, <1>2, <1>4, FindsFound
    <3>2. Mixed(i, p)'
      BY <2>1, <3>1, MixedStays
    <3>3. \A c \in plex[a] : c # p => /\ c.key # p.key
                                      /\ c.of = p.of /\ c.of \in Ids => ~Traced(c.of)
      BY <3>1 DEF Kept, Copies, CopyInv
    <3>4. Sure(i)' => p.of = i
      BY <1>5, <3>1 DEF Mixed
    <3>q. QED
      BY <1>t, <2>1, <3>1, <3>2, <3>3, <3>4
  <2>3. next.found = {} /\ Traced(i)' => \A c \in plex[a] : c.of # i
    BY <1>r, <1>2, <1>4, <1>t, FindsAll
  <2>4. \A j \in Ids : HasFound(next, j)'
    BY <1>2, <2>1, <2>2, <2>3 DEF HasFound
  <2>q. QED
    BY <1>2, <2>1, <2>4, FoundStays DEF Kept, Copies
<1>7. ASSUME Sure(i)', NEW b \in Accounts, NEW k
      PROVE  Knows(i, b, k)' <=> Knows(i, b, k)
  <2>1. OverlapInv'
    BY <1>2, OverlapGoesOn DEF Kept
  <2>2. Knows(i, b, k)' <=> KnownBy(next, b, k)
    BY <1>2, <1>4, <1>7, <2>1, HeldKnowsNext DEF Kept
  <2>3. Knows(i, b, k) <=> KnownBy(req[r], b, k)
    BY <1>4, <1>5, <1>7, HeldKnows DEF Kept
  <2>4. KnownBy(next, b, k) <=> KnownBy(req[r], b, k)
    BY <1>1, <1>2 DEF KnownBy
  <2>q. QED
    BY <2>2, <2>3, <2>4
<1>8. \A b \in Accounts : \A k :
            InRecord(records'[i], b, k) \/ (AtCopies(next, i) /\ RecalledBy(next, b, k)) =>
                Recalls(i, b, k)
  BY <1>1, <1>2, <1>3, <1>4 DEF Recalls, RecalledBy
<1>9. Sure(i)' => Alive(i)' /\ Record(i)'.plex = next.snap.plex
  BY <1>1, <1>2, <1>3, <1>4, <1>5, CarryKept DEF Kept, Copies
<1>q. QED
  BY <1>1, <1>2, <1>3, <1>4, <1>t, <1>6, <1>7, <1>8, <1>9, HandsOver

\* A sync that records the state of an account.
LEMMA RecordsIs ==
    ASSUME Kept, NEW r \in Requests, NEW i \in Ids, NEW a, NEW state, Records(r, i, a, state)
    PROVE  \E next :
            /\ GoesOn(r, next) /\ ARequest(next, keys') /\ RecordsState(next, req[r], a, state)
            /\ AtCopies(req[r], i) /\ \A j : AtCopies(req[r], j) => j = i
            /\ AtCopies(next, i) /\ \A j : AtCopies(next, j) => j = i
<1>1. PICK next : /\ GoesOn(r, next) /\ ARequest(next, keys')
                  /\ RecordsState(next, req[r], a, state)
  BY DEF Records
<1>2. req[r].op = "sync" /\ req[r].ids = {i} /\ ARequest(req[r], keys)
  BY DEF Records, Kept, TypeInv
<1>3. next.op = "sync" /\ next.ids = {i}
  BY <1>1, <1>2 DEF RecordsState
<1>q. QED
  BY <1>1, <1>2, <1>3, OnlyAt

\* What it knows then: of the account the new key, of the others the same.
LEMMA RecordsKnows ==
    ASSUME NEW q, NEW next, NEW a, NEW state, q.op = "sync", a \notin DOMAIN q.states,
           RecordsState(next, q, a, state), NEW b, NEW k
    PROVE  /\ b # a => (KnownBy(next, b, k) <=> KnownBy(q, b, k))
           /\ KnownBy(next, a, k) <=> state.status # "absent" /\ k = state.key
           /\ KnownBy(q, a, k) => a \in DOMAIN q.snap.plex /\ k = q.snap.plex[a].key
           /\ RecalledBy(next, b, k) => RecalledBy(q, b, k) \/ (b = a /\ k = state.key)
<1>1. /\ next.op = "sync" /\ next.snap = q.snap
      /\ DOMAIN next.states = DOMAIN q.states \union {a} /\ next.states[a] = state
      /\ \A c \in DOMAIN q.states \ {a} : next.states[c] = q.states[c]
  BY DEF RecordsState
<1>2. b # a => (KnownBy(next, b, k) <=> KnownBy(q, b, k))
  BY <1>1 DEF KnownBy
<1>3. KnownBy(next, a, k) <=> state.status # "absent" /\ k = state.key
  BY <1>1 DEF KnownBy
<1>4. KnownBy(q, a, k) => a \in DOMAIN q.snap.plex /\ k = q.snap.plex[a].key
  BY DEF KnownBy
<1>5. RecalledBy(next, b, k) => RecalledBy(q, b, k) \/ (b = a /\ k = state.key)
  BY <1>1 DEF RecalledBy
<1>q. QED
  BY <1>2, <1>3, <1>4, <1>5

\* A sync that leaves Plex alone and records a key that is good, or was known.
LEMMA RecordsStands ==
    ASSUME Kept, NEW r \in Requests, NEW i \in Ids, NEW a \in Accounts, NEW state,
           Records(r, i, a, state), Inside, state.status # "absent",
           \/ GoodKey(i, a, state.key)
           \/ a \in DOMAIN req[r].snap.plex /\ state.key = req[r].snap.plex[a].key,
           Traced(i) => \A p \in plex[a] : \A k \in 0..keys :
                p.of = i /\ KnownBy(req[r], a, k) => state.key \in {k, p.key}
    PROVE  Kept'
<1>1. PICK next :
        /\ GoesOn(r, next) /\ ARequest(next, keys') /\ RecordsState(next, req[r], a, state)
        /\ AtCopies(req[r], i) /\ \A j : AtCopies(req[r], j) => j = i
        /\ AtCopies(next, i) /\ \A j : AtCopies(next, j) => j = i
  BY RecordsIs
<1>2. /\ req[r].op = "sync" /\ a \notin DOMAIN req[r].states
      /\ next.op = "sync" /\ next.at = Nowhere /\ next.snap = req[r].snap
  BY <1>1 DEF Records, RecordsState
<1>3. keys' = keys
  BY DEF Inside, Offside
<1>4. /\ TypeInv' /\ \A j \in Ids : SamePlex(j)
      /\ UNCHANGED <<plex, keys, meddled>> /\ UNCHANGED records
  BY <1>1, <1>3, InsideType DEF Kept, Inside
<1>5. FoundInv'
  BY <1>1, <1>2, <1>4, FindsNone, FoundStays DEF Kept, Copies
<1>6. Sure(i)' => Sure(i)
  BY <1>1, SureBefore DEF GoesOn
<1>t. Traced(i)' => Traced(i) /\ Sure(i)'
  BY <1>1, TracedBefore DEF GoesOn
<1>7. ASSUME Sure(i)', NEW b \in Accounts, NEW k
      PROVE  /\ Knows(i, b, k)' <=> KnownBy(next, b, k)
             /\ Knows(i, b, k) <=> KnownBy(req[r], b, k)
  <2>1. OverlapInv'
    BY <1>1, OverlapGoesOn DEF Kept
  <2>q. QED
    BY <1>1, <1>6, <1>7, <2>1, HeldKnows, HeldKnowsNext DEF Kept
<1>8. ASSUME Sure(i)', NEW b \in Accounts, NEW k, Knows(i, b, k)'
      PROVE  Knows(i, b, k) \/ GoodKey(i, b, k)
  <2>1. CASE b # a
    BY <1>1, <1>2, <1>7, <1>8, <2>1, RecordsKnows
  <2>2. CASE b = a
    <3>1. k = state.key
      BY <1>1, <1>2, <1>7, <1>8, <2>2, RecordsKnows
    <3>2. a \in DOMAIN req[r].snap.plex /\ k = req[r].snap.plex[a].key
                => KnownBy(req[r], a, k)
      BY <1>2 DEF KnownBy
    <3>q. QED
      BY <1>7, <1>8, <2>2, <3>1, <3>2
  <2>q. QED
    BY <2>1, <2>2
<1>9. ASSUME Traced(i)', NEW b \in Accounts, NEW p \in plex[b], NEW k \in 0..keys,
             p.of = i, Knows(i, b, k)
      PROVE  Knows(i, b, k)' \/ Knows(i, b, p.key)'
  <2>1. CASE b # a
    BY <1>1, <1>2, <1>t, <1>7, <1>9, <2>1, RecordsKnows
  <2>2. CASE b = a
    <3>1. state.key \in {k, p.key}
      BY <1>t, <1>7, <1>9, <2>2
    <3>2. KnownBy(next, a, state.key)
      BY <1>1, <1>2, RecordsKnows
    <3>q. QED
      BY <1>t, <1>7, <1>9, <2>2, <3>1, <3>2
  <2>q. QED
    BY <2>1, <2>2
<1>10. ASSUME NEW b \in Accounts, NEW k,
              InRecord(records'[i], b, k) \/ (AtCopies(next, i) /\ RecalledBy(next, b, k))
       PROVE  Recalls(i, b, k) \/ GoodKey(i, b, k)
  <2>1. CASE InRecord(records'[i], b, k)
    BY <1>4, <2>1 DEF Recalls
  <2>2. CASE RecalledBy(next, b, k)
    <3>1. RecalledBy(req[r], b, k) \/ (b = a /\ k = state.key)
      BY <1>1, <1>2, <2>2, RecordsKnows
    <3>2. a \in DOMAIN req[r].snap.plex /\ state.key = req[r].snap.plex[a].key
                => RecalledBy(req[r], a, state.key)
      BY DEF RecalledBy
    <3>q. QED
      BY <1>1, <3>1, <3>2 DEF Recalls
  <2>q. QED
    BY <1>10, <2>1, <2>2
<1>11. Sure(i)' => Alive(i)' /\ Record(i)'.plex = next.snap.plex
  BY <1>1, <1>2, <1>4, <1>6, CarryKept DEF Kept, Copies
<1>q. QED
  BY <1>1, <1>2, <1>4, <1>5, <1>8, <1>9, <1>10, <1>11, HandsOver

\* So does an account kept as it was known ...
LEMMA KeepsStands ==
    ASSUME Kept, NEW r \in Requests, NEW i \in Ids, NEW a \in Accounts, Keeps(r, i, a)
    PROVE  Kept'
<1>1. PICK state : /\ Records(r, i, a, state) /\ Inside
                   /\ state.key = PriorKey(req[r], a) /\ state.status # "absent"
  BY DEF Keeps
<1>2. ARecord(req[r].snap, keys) /\ keys \in Nat /\ a \notin DOMAIN req[r].states
  BY <1>1 DEF Records, ASync, Kept, TypeInv
<1>3. /\ a \in DOMAIN req[r].snap.plex => state.key = req[r].snap.plex[a].key
      /\ a \notin DOMAIN req[r].snap.plex => state.key = 0
  BY <1>1, <1>2, PriorIs
<1>4. GoodKey(i, a, 0)
  BY NoKeyIsGood DEF Kept
<1>5. req[r].op = "sync"
  BY <1>1 DEF Records
<1>6. \A k : KnownBy(req[r], a, k) => k = state.key
  BY <1>2, <1>3, <1>5 DEF KnownBy
<1>q. QED
  BY <1>1, <1>3, <1>4, <1>6, RecordsStands

\* ... and one with nothing to push.
LEMMA EmptiesStands ==
    ASSUME Kept, NEW r \in Requests, NEW i \in Ids, NEW a \in Accounts, a # Nowhere,
           Empties(r, i, a)
    PROVE  Kept'
<1>1. PICK state : /\ Records(r, i, a, state) /\ state.status # "absent"
                   /\ \/ req[r].found = {} /\ state.key = 0
                      \/ \E p \in req[r].found : state.key = p.key
  BY DEF Empties
<1>2. /\ req[r].op = "sync" /\ req[r].ids = {i} /\ req[r].at = a /\ Inside
  BY <1>1 DEF Empties, Records
<1>3. /\ \A p \in req[r].found :
            /\ Mixed(i, p) /\ (meddled = 0 => p.of = i)
            /\ \A c \in plex[a] : /\ c.key = p.key => c.of = p.of
                                  /\ Traced(i) /\ c.of = i => c.key = p.key
      /\ req[r].found = {} /\ Traced(i) => \A c \in plex[a] : c.of # i
  BY <1>2 DEF Kept, Copies, FoundInv, HasFound
<1>4. CASE req[r].found = {} /\ state.key = 0
  <2>1. GoodKey(i, a, 0)
    BY NoKeyIsGood DEF Kept
  <2>q. QED
    BY <1>1, <1>2, <1>3, <1>4, <2>1, RecordsStands
<1>5. ASSUME NEW p \in req[r].found, state.key = p.key
      PROVE  Kept'
  <2>1. GoodKey(i, a, p.key)
    BY <1>3 DEF GoodKey, Mixed
  <2>q. QED
    BY <1>1, <1>2, <1>3, <1>5, <2>1, RecordsStands
<1>q. QED
  BY <1>1, <1>4, <1>5

\* The end of a sync hands the copies back to the record.
LEMMA SavesStands ==
    ASSUME Kept, NEW r \in Requests, NEW i \in Ids, Saves(r, i)
    PROVE  Kept'
<1>1. /\ req[r].op = "sync" /\ req[r].ids = {i} /\ ARequest(req[r], keys)
      /\ DOMAIN req[r].snap.plex \subseteq DOMAIN req[r].states
      /\ GoesOn(r, Idle) /\ Offside
  BY DEF Saves, Kept, TypeInv
<1>2. \A j : ~AtCopies(Idle, j)
  BY IdleIsRequest, HoldsIs
<1>3. AtCopies(req[r], i) /\ \A j : AtCopies(req[r], j) => j = i
  BY <1>1, OnlyAt
<1>4. /\ records' = [j \in Ids |-> records'[j]] /\ exports' = [j \in Ids |-> exports'[j]]
      /\ \A j \in Ids \ {i} : records'[j] = records[j]
      /\ ~Alive(i) => records'[i] = records[i]
  BY DEF Saves, Kept, TypeInv
<1>5. Alive(i) =>
        /\ ARecord(records'[i], keys) /\ records'[i].alive
        /\ DOMAIN records'[i].plex = {a \in DOMAIN req[r].states :
                                            req[r].states[a].status # "absent"}
        /\ \A a \in DOMAIN records'[i].plex : records'[i].plex[a] = req[r].states[a]
  BY DEF Saves, Kept, TypeInv, ARecord
<1>6. TypeInv'
  BY <1>1, <1>4, <1>5, IdleIsRequest, TypeStaysOffside DEF Kept
<1>7. ASSUME Sure(i)', NEW a \in Accounts, NEW k
      PROVE  Knows(i, a, k)' <=> Knows(i, a, k)
  <2>1. Sure(i)
    BY <1>1, <1>7, SureBefore DEF GoesOn
  <2>2. Alive(i)
    BY <1>1, <1>3, <2>1 DEF Kept, Copies, CarryInv
  <2>3. Knows(i, a, k)' <=> InRecord(records'[i], a, k)
    BY <1>1, <1>2, <1>3, <2>1, FreeKnowsNext DEF Kept
  <2>4. Knows(i, a, k) <=> KnownBy(req[r], a, k)
    BY <1>3, <2>1, HeldKnows DEF Kept
  <2>5. KnownBy(req[r], a, k) <=> InRecord(records'[i], a, k)
    BY <1>1, <1>5, <2>2 DEF KnownBy, InRecord
  <2>q. QED
    BY <2>3, <2>4, <2>5
<1>8. ASSUME NEW a \in Accounts, NEW k, InRecord(records'[i], a, k)
      PROVE  Recalls(i, a, k)
  <2>1. CASE Alive(i)
    <3>1. RecalledBy(req[r], a, k)
      BY <1>1, <1>5, <1>8, <2>1 DEF RecalledBy, InRecord
    <3>q. QED
      BY <1>3, <3>1 DEF Recalls
  <2>2. CASE ~Alive(i)
    BY <1>4, <1>8, <2>2 DEF Recalls
  <2>q. QED
    BY <2>1, <2>2
<1>9. \A j \in Ids \ {i} : SamePlex(j)
  BY <1>4, UnchangedSamePlex
<1>10. UNCHANGED <<plex, keys, meddled>>
  BY <1>1 DEF Offside
<1>q. QED
  BY <1>1, <1>2, <1>3, <1>6, <1>7, <1>8, <1>9, <1>10, IdleIsRequest, HandsOverSame

\* A deletion that goes on with what it has read.
LEMMA DeletionStands ==
    ASSUME Kept, TypeInv', NEW r \in Requests, NEW next, GoesOn(r, next), ARequest(next, keys),
           NEW i \in Ids, UNCHANGED <<plex, keys, meddled>>,
           AtCopies(req[r], i), req[r].op \in {"delete", "merged"},
           \/ next.op = "merged" /\ next.source = i
           \/ next.op = "uncopy" /\ next.ids = {i} /\ next.done = {},
           next.snap = req[r].snap,
           records'[i] = Gone \/ (SamePlex(i) /\ (Sure(i)' => records'[i] = Gone)),
           \A j \in Ids \ {i} : SamePlex(j)
    PROVE  Kept'
<1>1. AtCopies(next, i) /\ \A j : AtCopies(next, j) => j = i
  BY OnlyAt
<1>2. \A j \in Ids : AtCopies(req[r], j) => j = i
  <2>1. ARequest(req[r], keys)
    BY DEF Kept, TypeInv
  <2>2. \/ req[r].op = "delete" /\ OfOne(req[r])
        \/ req[r].op = "merged"
    BY <2>1 DEF ARequest, Idle
  <2>3. CASE req[r].op = "delete" /\ OfOne(req[r])
    <3>1. PICK l \in Ids : req[r].ids = {l}
      BY <2>3 DEF OfOne
    <3>q. QED
      BY <2>1, <2>3, <3>1, HoldsIs
  <2>4. CASE req[r].op = "merged"
    BY <2>1, <2>4, HoldsIs
  <2>q. QED
    BY <2>2, <2>3, <2>4
<1>3. \A a, k : /\ KnownBy(next, a, k) <=> KnownBy(req[r], a, k)
                /\ RecalledBy(next, a, k) => RecalledBy(req[r], a, k)
  BY DEF KnownBy, RecalledBy
<1>4. ASSUME Sure(i)', NEW a \in Accounts, NEW k
      PROVE  Knows(i, a, k)' <=> Knows(i, a, k)
  <2>o. OverlapInv'
    BY OverlapGoesOn DEF Kept
  <2>s. Sure(i)
    BY <1>4, SureBefore DEF GoesOn
  <2>1. Sure(i) /\ OverlapInv'
    BY <2>o, <2>s
  <2>2. Knows(i, a, k)' <=> KnownBy(next, a, k)
    BY <1>1, <1>4, <2>1, HeldKnowsNext DEF Kept
  <2>3. Knows(i, a, k) <=> KnownBy(req[r], a, k)
    BY <2>1, HeldKnows DEF Kept
  <2>q. QED
    BY <1>3, <2>2, <2>3
<1>5. \A a \in Accounts : \A k :
            InRecord(records'[i], a, k) \/ (AtCopies(next, i) /\ RecalledBy(next, a, k)) =>
                Recalls(i, a, k)
  <2>1. ASSUME NEW a, NEW k, InRecord(records'[i], a, k)
        PROVE  InRecord(records[i], a, k)
    <3>1. CASE records'[i] = Gone
      BY <2>1, <3>1 DEF InRecord, Gone
    <3>2. CASE SamePlex(i)
      BY <2>1, <3>2, SameRecord
    <3>q. QED
      BY <3>1, <3>2
  <2>q. QED
    BY <1>3, <2>1 DEF Recalls
<1>6. next.op \notin {"sync", "delete"}
  OBVIOUS
<1>7. \A j \in Ids \ {i} : SamePlex(j) /\ ~AtCopies(req[r], j) /\ ~AtCopies(next, j)
  BY <1>1, <1>2
<1>q. QED
  BY <1>4, <1>5, <1>6, <1>7, HandsOverSame

\* A deletion hands the copies to the request ...
LEMMA DeletesStands ==
    ASSUME Kept, NEW r \in Requests, NEW i \in Ids, Deletes(r, i)
    PROVE  Kept'
<1>1. PICK next : /\ GoesOn(r, next) /\ ARequest(next, keys)
                  /\ next.op = "uncopy" /\ next.ids = {i}
                  /\ next.snap = req[r].snap /\ next.done = {}
  BY DEF Deletes
<1>2. /\ req[r].op = "delete" /\ req[r].ids = {i} /\ Offside /\ ARequest(req[r], keys)
      /\ records' = [j \in Ids |-> records'[j]] /\ exports' = [j \in Ids |-> exports'[j]]
      /\ records'[i] = Gone /\ \A j \in Ids \ {i} : records'[j] = records[j]
  BY DEF Deletes, Kept, TypeInv
<1>3. TypeInv'
  BY <1>1, <1>2, TypeStaysOffside DEF Kept
<1>4. \A j \in Ids \ {i} : SamePlex(j)
  BY <1>2, UnchangedSamePlex
<1>5. AtCopies(req[r], i) /\ UNCHANGED <<plex, keys, meddled>>
  BY <1>2, OnlyAt DEF Offside
<1>q. QED
  BY <1>1, <1>2, <1>3, <1>4, <1>5, DeletionStands

\* ... and so does a merge that takes its source away ...
LEMMA MergesAwayStands ==
    ASSUME Kept, NEW r \in Requests, NEW i \in Ids, NEW j \in Ids, MergesAway(r, i, j)
    PROVE  Kept'
<1>1. PICK x, next :
        /\ ARecord(x, keys) /\ x.plex = Record(i).plex
        /\ records' = [records EXCEPT ![i] = x, ![j] = Gone]
        /\ GoesOn(r, next) /\ ARequest(next, keys)
        /\ next.op = "merged" /\ next.source = j /\ next.snap = req[r].snap
  BY DEF MergesAway
<1>2. /\ req[r].op = "delete" /\ req[r].ids = {j} /\ Offside /\ ARequest(req[r], keys)
      /\ i # j /\ Alive(i) /\ exports' = [l \in Ids |-> exports'[l]]
  BY DEF MergesAway, Kept, TypeInv
<1>3. /\ records' = [l \in Ids |-> records'[l]] /\ records'[j] = Gone /\ records'[i] = x
      /\ \A l \in Ids \ {i, j} : records'[l] = records[l]
  BY <1>1, <1>2 DEF Kept, TypeInv
<1>4. TypeInv'
  BY <1>1, <1>2, <1>3, TypeStaysOffside DEF Kept
<1>5. SamePlex(i)
  BY <1>1, <1>2, <1>3 DEF SamePlex, Alive, Record, ARecord
<1>6. \A l \in Ids \ {j} : SamePlex(l)
  BY <1>3, <1>5, UnchangedSamePlex
<1>7. AtCopies(req[r], j) /\ UNCHANGED <<plex, keys, meddled>>
  BY <1>2, OnlyAt DEF Offside
<1>8. /\ GoesOn(r, next) /\ ARequest(next, keys) /\ next.op = "merged" /\ next.source = j
      /\ next.snap = req[r].snap /\ req[r].op \in {"delete", "merged"} /\ records'[j] = Gone
  BY <1>1, <1>2, <1>3
<1>q. QED
  BY <1>4, <1>6, <1>7, <1>8, DeletionStands, Zenon

\* ... which has them when the exports are written.
LEMMA MergeExportsStands ==
    ASSUME Kept, NEW r \in Requests, MergeExports(r)
    PROVE  Kept'
<1> DEFINE next == Uncopying(req[r].source, req[r].snap)
<1>j. PICK j \in Ids : j = req[r].source
  BY MergeExportsDoes DEF AMerge, Kept
<1>1. /\ req[r].op = "merged" /\ AMerge(req[r], keys)
      /\ GoesOn(r, next) /\ ARequest(next, keys)
      /\ next.op = "uncopy" /\ next.ids = {j} /\ next.snap = req[r].snap
      /\ next.done = {} /\ UNCHANGED records /\ Offside
      /\ exports' = [l \in Ids |-> exports'[l]]
  BY <1>j, MergeExportsDoes DEF Kept, TypeInv
<1> HIDE DEF next
<1>2. /\ ARequest(req[r], keys) /\ records' = records
      /\ records' = [l \in Ids |-> records'[l]]
  BY <1>1 DEF Kept, TypeInv
<1>3. TypeInv'
  BY <1>1, <1>2, TypeStaysOffside DEF Kept
<1>4. \A l \in Ids : SamePlex(l)
  BY <1>2, UnchangedSamePlex
<1>5. AtCopies(req[r], j) /\ UNCHANGED <<plex, keys, meddled>>
  BY <1>1, <1>2, <1>j, OnlyAt DEF Offside
<1>6. Sure(j)' => Sure(j)
  BY <1>1, SureBefore DEF GoesOn
<1>7. Sure(j) => records'[j] = Gone
  BY <1>1, <1>2, <1>5 DEF Kept, Copies, CarryInv
<1>q. QED
  BY <1>1, <1>2, <1>3, <1>4, <1>5, <1>6, <1>7, DeletionStands

-----------------------------------------------------------------------------
(* The steps that change what is on Plex.                                  *)

\* What is known is recalled, and no key beyond those given.
LEMMA KnowsRecalls ==
    ASSUME NEW i \in Ids, NEW a, NEW k, Knows(i, a, k)
    PROVE  Recalls(i, a, k)
BY DEF Knows, Recalls, KnownBy, RecalledBy

\* No key is kept that was not given.
LEMMA RecallsBound ==
    ASSUME TypeInv, NEW i \in Ids, NEW a, NEW k, Recalls(i, a, k)
    PROVE  k \in 0..keys
<1>1. CASE InRecord(records[i], a, k)
  <2>1. ARecord(records[i], keys)
    BY <1>1, AliveIsRecord DEF InRecord, Alive
  <2>q. QED
    BY <1>1, <2>1 DEF InRecord, ARecord, AStates
<1>2. ASSUME NEW r \in Requests, AtCopies(req[r], i), RecalledBy(req[r], a, k)
      PROVE  k \in 0..keys
  <2>1. ARequest(req[r], keys)
    BY DEF TypeInv
  <2>2. req[r].op \in {"sync", "delete", "uncopy", "merged"}
    BY <1>2, <2>1, HoldsIs
  <2>3. /\ ARecord(req[r].snap, keys)
        /\ req[r].op = "sync" => AStates(req[r].states, keys)
    BY <2>1, <2>2 DEF ARequest, ASync, AMerge, AnUncopy, Idle
  <2>q. QED
    BY <1>2, <2>3 DEF RecalledBy, ARecord, AStates
<1>q. QED
  BY <1>1, <1>2 DEF Recalls

\* What recording the state of an account does to what is known.
LEMMA RecordsEffect ==
    ASSUME Kept, NEW r \in Requests, NEW i \in Ids, NEW a, NEW state, Records(r, i, a, state)
    PROVE  /\ OverlapInv' /\ CarryInv' /\ unsure \subseteq unsure'
           /\ \A j \in Ids \ {i} : \A b, k : /\ Knows(j, b, k)' <=> Knows(j, b, k)
                                             /\ Recalls(j, b, k)' <=> Recalls(j, b, k)
           /\ \A b, k : Recalls(i, b, k)' => Recalls(i, b, k) \/ (b = a /\ k = state.key)
           /\ \A b, k : Sure(i)' =>
                /\ b = a => (Knows(i, b, k)' <=> state.status # "absent" /\ k = state.key)
                /\ b # a => (Knows(i, b, k)' <=> Knows(i, b, k))
           /\ \A s \in Requests \ {r} : AtCopies(req[s], i) => ~Sure(i)'
<1>1. PICK next :
        /\ GoesOn(r, next) /\ ARequest(next, keys') /\ RecordsState(next, req[r], a, state)
        /\ AtCopies(req[r], i) /\ \A j : AtCopies(req[r], j) => j = i
        /\ AtCopies(next, i) /\ \A j : AtCopies(next, j) => j = i
  BY RecordsIs
<1>2. /\ req[r].op = "sync" /\ a \notin DOMAIN req[r].states
      /\ next.op = "sync" /\ next.snap = req[r].snap /\ UNCHANGED records
  BY <1>1 DEF Records, RecordsState
<1>3. \A j \in Ids : SamePlex(j)
  BY <1>2, UnchangedSamePlex
<1>4. OverlapInv' /\ unsure \subseteq unsure'
  <2>1. OverlapInv'
    BY <1>1, OverlapGoesOn DEF Kept
  <2>q. QED
    BY <1>1, <2>1 DEF GoesOn
<1>5. Sure(i)' => Sure(i)
  BY <1>4, SureBefore
<1>6. CarryInv'
  <2>1. Sure(i)' => Alive(i)' /\ Record(i)'.plex = next.snap.plex
    BY <1>1, <1>2, <1>3, <1>5, CarryKept DEF Kept, Copies
  <2>2. \A j \in Ids : AtCopies(next, j) /\ Sure(j)' =>
            IF next.op \in {"sync", "delete"}
            THEN Alive(j)' /\ Record(j)'.plex = next.snap.plex
            ELSE records'[j] = Gone
    BY <1>1, <1>2, <2>1
  <2>q. QED
    BY <1>1, <1>3, <2>2, CarryStays DEF Kept, Copies
<1>7. \A j \in Ids \ {i} : \A b, k : /\ Knows(j, b, k)' <=> Knows(j, b, k)
                                     /\ Recalls(j, b, k)' <=> Recalls(j, b, k)
  BY <1>1, <1>3, AwayKeeps DEF Kept
<1>8. ASSUME NEW b, NEW k, Recalls(i, b, k)'
      PROVE  Recalls(i, b, k) \/ (b = a /\ k = state.key)
  <2>1. \/ Recalls(i, b, k)
        \/ InRecord(records'[i], b, k)
        \/ RecalledBy(next, b, k)
    BY <1>1, <1>8, RecallsNext DEF Kept
  <2>2. RecalledBy(next, b, k) => RecalledBy(req[r], b, k) \/ (b = a /\ k = state.key)
    BY <1>1, <1>2, RecordsKnows
  <2>q. QED
    BY <1>1, <1>2, <2>1, <2>2 DEF Recalls
<1>9. ASSUME Sure(i)', NEW b, NEW k
      PROVE  /\ b = a => (Knows(i, b, k)' <=> state.status # "absent" /\ k = state.key)
             /\ b # a => (Knows(i, b, k)' <=> Knows(i, b, k))
             /\ \A s \in Requests \ {r} : ~AtCopies(req[s], i)
  <2>1. /\ Knows(i, b, k)' <=> KnownBy(next, b, k)
        /\ \A s \in Requests \ {r} : ~AtCopies(req[s], i)
    BY <1>1, <1>4, <1>9, HeldKnowsNext DEF Kept
  <2>2. Knows(i, b, k) <=> KnownBy(req[r], b, k)
    BY <1>1, <1>5, <1>9, HeldKnows DEF Kept
  <2>q. QED
    BY <1>1, <1>2, <2>1, <2>2, RecordsKnows
<1>q. QED
  BY <1>4, <1>6, <1>7, <1>8, <1>9

\* What the invariants say of the copies on account a.
AtAccount(a) ==
    /\ \A p, q \in plex[a] :
            p # q => p.key # q.key /\ (p.of = q.of /\ p.of \in Ids => ~Traced(p.of))
    /\ \A p \in plex[a] : p.mark \in Ids => Mixed(p.mark, p)
    /\ \A i \in Ids : Traced(i) =>
            \A p \in plex[a] :
                p.of = i => \E k \in 0..keys : Knows(i, a, k) /\ (p.mark = i \/ p.key = k)
    /\ \A i \in Ids : \A p \in plex[a] :
            /\ StrayKey(i, p) /\ Recalls(i, a, p.key) /\ p.of \in Ids => ~Sure(p.of)
            /\ StrayKey(i, p) /\ Knows(i, a, p.key) /\ Sure(i) => MarkedIn(plex[a], i) # {}
    /\ meddled = 0 =>
            \A p \in plex[a] : /\ p.mark \in {NoMark, p.of}
                               /\ \A i \in Ids : Recalls(i, a, p.key) => p.of = i

\* What is said of the copies is said of each account.
LEMMA AtAccounts ==
    CopyInv /\ ReachInv /\ KeyInv /\ QuietInv <=> \A a \in Accounts : AtAccount(a)
BY DEF AtAccount, CopyInv, ReachInv, KeyInv, QuietInv

\* On an account with the same copies, known as before, they stay so.
LEMMA AccountStays ==
    ASSUME keys \in Nat, keys' \in Nat, keys <= keys', NEW a \in Accounts, AtAccount(a),
           plex'[a] = plex[a],
           unsure \subseteq unsure', meddled' = 0 => meddled = 0,
           \A i \in Ids : \A k : Recalls(i, a, k)' => Recalls(i, a, k),
           \A i \in Ids : \A k : Sure(i)' => (Knows(i, a, k)' <=> Knows(i, a, k))
    PROVE  AtAccount(a)'
<1>1. \A i : Sure(i)' => Sure(i)
  BY SureBefore
<1>t. \A i : Traced(i)' => Traced(i) /\ Sure(i)'
  BY TracedBefore
<1>2. \A p, q \in plex'[a] :
            p # q => p.key # q.key /\ (p.of = q.of /\ p.of \in Ids => ~Traced(p.of)')
  BY <1>t DEF AtAccount
<1>3. \A p \in plex'[a] : p.mark \in Ids => Mixed(p.mark, p)'
  BY MixedStays DEF AtAccount
<1>4. ASSUME NEW i \in Ids, Traced(i)', NEW p \in plex'[a], p.of = i
      PROVE  \E k \in 0..keys' : Knows(i, a, k)' /\ (p.mark = i \/ p.key = k)
  <2>1. PICK k \in 0..keys : Knows(i, a, k) /\ (p.mark = i \/ p.key = k)
    BY <1>t, <1>4 DEF AtAccount
  <2>2. k \in 0..keys'
    OBVIOUS
  <2>q. QED
    BY <1>t, <1>4, <2>1, <2>2
<1>5. ASSUME NEW i \in Ids, NEW p \in plex'[a], StrayKey(i, p)
      PROVE  /\ Recalls(i, a, p.key)' /\ p.of \in Ids => ~Sure(p.of)'
             /\ Knows(i, a, p.key)' /\ Sure(i)' => MarkedIn(plex'[a], i) # {}
  BY <1>1, <1>5 DEF AtAccount
<1>6. meddled' = 0 =>
        \A p \in plex'[a] : /\ p.mark \in {NoMark, p.of}
                            /\ \A i \in Ids : Recalls(i, a, p.key)' => p.of = i
  BY DEF AtAccount
<1>q. QED
  BY <1>2, <1>3, <1>4, <1>5, <1>6 DEF AtAccount, StrayKey, MarkedIn

\* A step that changes the copies of one account.
LEMMA PlexStands ==
    ASSUME Kept, TypeInv', OverlapInv', CarryInv', FoundInv', keys <= keys',
           unsure \subseteq unsure', meddled' = 0 => meddled = 0,
           NEW a \in Accounts, AtAccount(a)', \A b \in Accounts \ {a} : plex'[b] = plex[b],
           \A i \in Ids : \A b, k : b # a => (Recalls(i, b, k)' => Recalls(i, b, k)),
           \A i \in Ids : \A b, k :
                b # a => (Sure(i)' => (Knows(i, b, k)' <=> Knows(i, b, k)))
    PROVE  Kept'
<1>1. keys \in Nat /\ keys' \in Nat
  BY DEF Kept, TypeInv
<1>2. \A b \in Accounts : AtAccount(b)
  BY AtAccounts DEF Kept, Copies
<1>3. \A b \in Accounts \ {a} : AtAccount(b)'
  BY <1>1, <1>2, AccountStays
<1>4. \A b \in Accounts : AtAccount(b)'
  BY <1>3
<1>5. (CopyInv /\ ReachInv /\ KeyInv /\ QuietInv)'
  BY <1>4 DEF AtAccount, CopyInv, ReachInv, KeyInv, QuietInv
<1>q. QED
  BY <1>5 DEF Kept, Copies

\* A push that changes the copies of its account and records the state of it.
LEMMA PushStands ==
    ASSUME Kept, NEW r \in Requests, NEW i \in Ids, NEW a \in Accounts, NEW state,
           Records(r, i, a, state), keys' \in Nat, keys <= keys',
           plex' = [b \in Accounts |-> plex'[b]],
           \A b \in Accounts \ {a} : plex'[b] = plex[b],
           \A c \in plex'[a] : c \in plex[a] \/ ACopy(c, keys'),
           \A c \in plex'[a] :
                \/ \E d \in plex[a] : d.key = c.key /\ d.of = c.of
                \/ c.key = keys + 1 /\ c.of = i /\ req[r].at # Nowhere,
           AtAccount(a)'
    PROVE  Kept'
<1>1. PICK next :
        /\ GoesOn(r, next) /\ ARequest(next, keys') /\ RecordsState(next, req[r], a, state)
        /\ AtCopies(req[r], i) /\ \A j : AtCopies(req[r], j) => j = i
        /\ AtCopies(next, i) /\ \A j : AtCopies(next, j) => j = i
  BY RecordsIs
<1>2. /\ UNCHANGED <<records, exports, meddled>> /\ meddled \in Nat
      /\ records' = [j \in Ids |-> records'[j]] /\ exports' = [j \in Ids |-> exports'[j]]
  BY DEF Records, Kept, TypeInv
<1>4. TypeInv'
  <2>1. \A b \in Accounts : \A p \in plex'[b] : p \in plex[b] \/ ACopy(p, keys')
    OBVIOUS
  <2>2. \A j \in Ids : records'[j] = records[j]
    BY <1>2
  <2>3. meddled' \in Nat
    BY <1>2
  <2>q. QED
    BY <1>1, <1>2, <2>1, <2>2, <2>3, TypeStays DEF Kept
<1>5. /\ OverlapInv' /\ CarryInv' /\ unsure \subseteq unsure'
      /\ \A j \in Ids \ {i} : \A b, k : /\ Knows(j, b, k)' <=> Knows(j, b, k)
                                        /\ Recalls(j, b, k)' <=> Recalls(j, b, k)
      /\ \A b, k : Recalls(i, b, k)' => Recalls(i, b, k) \/ (b = a /\ k = state.key)
      /\ \A b, k : Sure(i)' /\ b # a => (Knows(i, b, k)' <=> Knows(i, b, k))
      /\ \A s \in Requests \ {r} : AtCopies(req[s], i) => ~Sure(i)'
  BY RecordsEffect
<1>6. FoundInv'
  <2>1. next.op = "sync" /\ next.at = Nowhere
    BY <1>1 DEF RecordsState
  <2>2. \A j \in Ids : HasFound(next, j)'
    BY <2>1, FindsNone
  <2>3. req[r].at # Nowhere => next # req[r]
    BY <2>1
  <2>4. \A b \in Accounts : \A c \in plex'[b] :
            \/ \E d \in plex[b] : d.key = c.key /\ d.of = c.of
            \/ /\ c.key = keys + 1
               /\ \A s \in Requests \ {r} : AtCopies(req[s], c.of) => ~Sure(c.of)'
               /\ next # req[r]
    BY <1>5, <2>3
  <2>q. QED
    BY <1>1, <1>2, <2>2, <2>4, FoundStays DEF Kept, Copies
<1>7. \A j \in Ids : \A b, k : b # a => (Recalls(j, b, k)' => Recalls(j, b, k))
  BY <1>5
<1>8. \A j \in Ids : \A b, k : b # a => (Sure(j)' => (Knows(j, b, k)' <=> Knows(j, b, k)))
  BY <1>5
<1>q. QED
  BY <1>2, <1>4, <1>5, <1>6, <1>7, <1>8, PlexStands

\* A copy made keeps it: its key is new, and the sync that made it knows it.
LEMMA MakesStands ==
    ASSUME Kept, NEW r \in Requests, NEW i \in Ids, NEW a \in Accounts, a # Nowhere,
           Makes(r, i, a)
    PROVE  Kept'
<1>1. PICK mark \in {i, NoMark} : \E poster, state :
        /\ Records(r, i, a, state) /\ state.status # "absent"
        /\ \/ state.key = keys + 1
           \/ state.key = PriorKey(req[r], a) /\ (mark = i \/ <<"stamp", i>> \in unsure')
        /\ plex' = [plex EXCEPT ![a] = @ \union
                        {[key |-> keys + 1, mark |-> mark, of |-> i, poster |-> poster]}]
  BY DEF Makes
<1>2. PICK c, state :
        /\ DOMAIN c = {"key", "mark", "of", "poster"}
        /\ c.key = keys + 1 /\ c.mark = mark /\ c.of = i
        /\ Records(r, i, a, state) /\ state.status # "absent"
        /\ \/ state.key = keys + 1
           \/ state.key = PriorKey(req[r], a) /\ (mark = i \/ <<"stamp", i>> \in unsure')
        /\ plex' = [plex EXCEPT ![a] = plex[a] \union {c}]
  <2>1. PICK poster, state :
        /\ Records(r, i, a, state) /\ state.status # "absent"
        /\ \/ state.key = keys + 1
           \/ state.key = PriorKey(req[r], a) /\ (mark = i \/ <<"stamp", i>> \in unsure')
        /\ plex' = [plex EXCEPT ![a] = @ \union
                        {[key |-> keys + 1, mark |-> mark, of |-> i, poster |-> poster]}]
    BY <1>1
  <2> DEFINE c == [key |-> keys + 1, mark |-> mark, of |-> i, poster |-> poster]
  <2>2. /\ DOMAIN c = {"key", "mark", "of", "poster"}
        /\ c.key = keys + 1 /\ c.mark = mark /\ c.of = i
    OBVIOUS
  <2>3. plex' = [plex EXCEPT ![a] = plex[a] \union {c}]
    BY <2>1
  <2> HIDE DEF c
  <2>q. QED
    BY <2>1, <2>2, <2>3
<1>3. /\ keys' = keys + 1 /\ keys \in Nat /\ req[r].at = a /\ req[r].found = {}
      /\ req[r].op = "sync" /\ req[r].ids = {i} /\ meddled' = meddled
      /\ ARecord(req[r].snap, keys)
  BY <1>2 DEF Makes, Records, Kept, TypeInv, ASync
<1> DEFINE list == plex[a] \union {c}
<1>4. plex'[a] = list /\ (\A p \in plex[a] : p.key \in 1..keys) /\ i # NoMark
  BY <1>2, IdsAssumption DEF Kept, TypeInv, ACopy, NoMark
<1>5. ACopy(c, keys')
  BY <1>2, <1>3 DEF ACopy
<1>6. Traced(i) => \A p \in plex[a] : p.of # i
  BY <1>3 DEF Kept, Copies, FoundInv, HasFound
<1>7. /\ \A j \in Ids \ {i} : \A k : /\ Knows(j, a, k)' <=> Knows(j, a, k)
                                     /\ Recalls(j, a, k)' <=> Recalls(j, a, k)
      /\ \A k : Recalls(i, a, k)' => Recalls(i, a, k) \/ k = state.key
      /\ \A k : Sure(i)' => (Knows(i, a, k)' <=> k = state.key)
      /\ unsure \subseteq unsure'
  BY <1>2, RecordsEffect
<1>8. \A j : Sure(j)' => Sure(j)
  BY <1>7, SureBefore
<1>t. \A j : Traced(j)' => Traced(j) /\ Sure(j)'
  BY <1>7, TracedBefore
<1>9. state.key \in 0..(keys + 1)
  <2>1. PriorKey(req[r], a) \in 0..keys
    BY <1>3, PriorIs
  <2>q. QED
    BY <1>2, <1>3, <2>1
<1>10. \A j \in Ids : \A k : Recalls(j, a, k) => k \in 0..keys
  BY RecallsBound DEF Kept
<1>11. \A p \in plex[a] : p.key = state.key => Recalls(i, a, p.key) /\ Knows(i, a, p.key)
  <2> SUFFICES ASSUME NEW p \in plex[a], p.key = state.key
               PROVE  Recalls(i, a, p.key) /\ Knows(i, a, p.key)
    OBVIOUS
  <2>1. p.key = PriorKey(req[r], a) /\ p.key # 0
    BY <1>2, <1>3, <1>4
  <2>2. a \in DOMAIN req[r].snap.plex /\ p.key = req[r].snap.plex[a].key
    BY <1>3, <2>1, PriorIs
  <2>3. AtCopies(req[r], i) /\ req[r].op = "sync" /\ a \notin DOMAIN req[r].states
    BY <1>2, RecordsIs DEF Records
  <2>q. QED
    BY <2>1, <2>2, <2>3 DEF Recalls, RecalledBy, Knows, KnownBy
<1>12. AtAccount(a)
  BY AtAccounts DEF Kept, Copies
<1>13. AtAccount(a)'
  <2>1. \A p, q \in list :
            p # q => p.key # q.key /\ (p.of = q.of /\ p.of \in Ids => ~Traced(p.of)')
    <3>1. \A p, q \in plex[a] :
            p # q => p.key # q.key /\ (p.of = q.of /\ p.of \in Ids => ~Traced(p.of)')
      BY <1>t, <1>12 DEF AtAccount
    <3>2. \A p \in plex[a] : p.key # c.key /\ (p.of = i => ~Traced(i)')
      BY <1>2, <1>3, <1>4, <1>6, <1>t
    <3>q. QED
      BY <1>2, <3>1, <3>2
  <2>2. \A p \in list : p.mark \in Ids => Mixed(p.mark, p)'
    <3>1. \A p \in plex[a] : p.mark \in Ids => Mixed(p.mark, p)'
      BY <1>7, <1>12, MixedStays DEF AtAccount
    <3>2. c.mark \in Ids => Mixed(c.mark, c)'
      BY <1>2, IdsAssumption DEF Mixed, NoMark
    <3>q. QED
      BY <3>1, <3>2
  <2>3. ASSUME NEW j \in Ids, Traced(j)', NEW p \in list, p.of = j
        PROVE  \E k \in 0..keys' : Knows(j, a, k)' /\ (p.mark = j \/ p.key = k)
    <3>1. CASE p = c
      <4>1. Knows(i, a, state.key)' /\ j = i
        BY <1>2, <1>7, <1>t, <2>3, <3>1
      <4>2. c.mark = i \/ c.key = state.key
        BY <1>2, <2>3, <4>1 DEF Traced
      <4>3. state.key \in 0..keys'
        BY <1>3, <1>9
      <4>q. QED
        BY <3>1, <4>1, <4>2, <4>3
    <3>2. CASE p \in plex[a]
      <4>1. Traced(j) /\ j # i
        BY <1>6, <1>t, <2>3, <3>2
      <4>2. PICK k \in 0..keys : Knows(j, a, k) /\ (p.mark = j \/ p.key = k)
        BY <1>12, <2>3, <3>2, <4>1 DEF AtAccount
      <4>3. k \in 0..keys' /\ Knows(j, a, k)'
        BY <1>3, <1>7, <4>1, <4>2
      <4>q. QED
        BY <4>2, <4>3
    <3>q. QED
      BY <3>1, <3>2
  <2>4. ASSUME NEW j \in Ids, NEW p \in list, StrayKey(j, p)
        PROVE  /\ Recalls(j, a, p.key)' /\ p.of \in Ids => ~Sure(p.of)'
               /\ Knows(j, a, p.key)' /\ Sure(j)' => MarkedIn(list, j) # {}
    <3>1. CASE p = c
      <4>1. j # i /\ p.key = keys + 1
        BY <1>2, <2>4, <3>1 DEF StrayKey
      <4>2. ~Recalls(j, a, p.key)
        BY <1>3, <1>10, <4>1
      <4>3. ~Recalls(j, a, p.key)' /\ ~Knows(j, a, p.key)'
        BY <1>7, <4>1, <4>2, KnowsRecalls
      <4>q. QED
        BY <4>3
    <3>2. CASE p \in plex[a]
      <4>1. Recalls(j, a, p.key)' => Recalls(j, a, p.key)
        BY <1>7, <1>11, <3>2
      <4>2. Knows(j, a, p.key)' /\ Sure(j)' => MarkedIn(list, j) # {}
        <5>1. CASE j = i
          <6>1. Knows(j, a, p.key)' /\ Sure(j)' => Knows(j, a, p.key)
            BY <1>7, <1>11, <3>2, <5>1
          <6>2. Knows(j, a, p.key)' /\ Sure(j)' => MarkedIn(plex[a], j) # {}
            BY <1>8, <1>12, <2>4, <3>2, <6>1 DEF AtAccount
          <6>q. QED
            BY <6>2 DEF MarkedIn
        <5>2. CASE j # i
          <6>1. Knows(j, a, p.key)' /\ Sure(j)' => MarkedIn(plex[a], j) # {}
            BY <1>7, <1>8, <1>12, <2>4, <3>2, <5>2 DEF AtAccount
          <6>q. QED
            BY <6>1 DEF MarkedIn
        <5>q. QED
          BY <5>1, <5>2
      <4>3. Recalls(j, a, p.key) /\ p.of \in Ids => ~Sure(p.of)
        BY <1>12, <2>4, <3>2 DEF AtAccount
      <4>q. QED
        BY <1>8, <4>1, <4>2, <4>3
    <3>q. QED
      BY <3>1, <3>2
  <2>5. ASSUME meddled' = 0, NEW p \in list
        PROVE  /\ p.mark \in {NoMark, p.of}
               /\ \A j \in Ids : Recalls(j, a, p.key)' => p.of = j
    <3>1. CASE p = c
      <4>1. \A j \in Ids : ~Recalls(j, a, keys + 1)
        BY <1>3, <1>10
      <4>q. QED
        BY <1>2, <1>7, <3>1, <4>1
    <3>2. CASE p \in plex[a]
      <4>1. /\ p.mark \in {NoMark, p.of}
            /\ \A j \in Ids : Recalls(j, a, p.key) => p.of = j
        BY <1>3, <1>12, <2>5, <3>2 DEF AtAccount
      <4>2. \A j \in Ids : Recalls(j, a, p.key)' => Recalls(j, a, p.key)
        BY <1>7, <1>11, <3>2
      <4>q. QED
        BY <4>1, <4>2
    <3>q. QED
      BY <3>1, <3>2
  <2> HIDE DEF list
  <2>q. QED
    BY <1>4, <2>1, <2>2, <2>3, <2>4, <2>5 DEF AtAccount, StrayKey, MarkedIn
<1>14. \A p \in list : p \in plex[a] \/ ACopy(p, keys')
  BY <1>5
<1>15. \A p \in list : \/ \E d \in plex[a] : d.key = p.key /\ d.of = p.of
                       \/ p.key = keys + 1 /\ p.of = i /\ req[r].at # Nowhere
  BY <1>2, <1>3
<1>16. /\ plex' = [b \in Accounts |-> plex'[b]]
       /\ \A b \in Accounts \ {a} : plex'[b] = plex[b]
  BY <1>2 DEF Kept, TypeInv
<1>17. keys' \in Nat /\ keys <= keys'
  BY <1>3
<1> HIDE DEF list
<1>18. /\ \A p \in plex'[a] : p \in plex[a] \/ ACopy(p, keys')
       /\ \A p \in plex'[a] : \/ \E d \in plex[a] : d.key = p.key /\ d.of = p.of
                              \/ p.key = keys + 1 /\ p.of = i /\ req[r].at # Nowhere
  BY <1>4, <1>14, <1>15
<1>19. Records(r, i, a, state)
  BY <1>2
<1>q. QED
  BY <1>13, <1>16, <1>17, <1>18, <1>19, PushStands, Zenon

\* A copy updated keeps it: what was found is its playlist's, or nobody is sure.
LEMMA ReplacesStands ==
    ASSUME Kept, NEW r \in Requests, NEW i \in Ids, NEW a \in Accounts, a # Nowhere,
           Replaces(r, i, a)
    PROVE  Kept'
<1>1. PICK p \in req[r].found : \E stamps, poster, state :
        /\ Records(r, i, a, state) /\ state.status # "absent" /\ state.key = p.key
        /\ plex' = [plex EXCEPT ![a] = Updated(@, p.key, i, stamps, poster)]
  BY DEF Replaces
<1>2. PICK stamps, poster, state :
        /\ Records(r, i, a, state) /\ state.status # "absent" /\ state.key = p.key
        /\ plex' = [plex EXCEPT ![a] = Updated(@, p.key, i, stamps, poster)]
  BY <1>1
<1>3. /\ keys' = keys /\ keys \in Nat /\ req[r].at = a /\ meddled' = meddled
      /\ req[r].op = "sync" /\ req[r].ids = {i} /\ ASync(req[r], keys)
  BY <1>2 DEF Replaces, Records, Kept, TypeInv
<1>4. /\ plex' = [b \in Accounts |-> plex'[b]] /\ plex'[a] = Updated(plex[a], p.key, i, stamps, poster)
      /\ \A b \in Accounts \ {a} : plex'[b] = plex[b]
      /\ \A d \in plex[a] : ACopy(d, keys)
      /\ i # NoMark /\ p.key \in 0..keys
  <2>1. \A b \in Accounts : \A d \in plex[b] : ACopy(d, keys)
    BY DEF Kept, TypeInv
  <2>2. plex = [b \in Accounts |-> plex[b]]
    BY DEF Kept, TypeInv
  <2>3. /\ plex' = [b \in Accounts |-> plex'[b]] /\ plex'[a] = Updated(plex[a], p.key, i, stamps, poster)
        /\ \A b \in Accounts \ {a} : plex'[b] = plex[b]
    BY <1>2, <2>2
  <2>4. p.key \in 0..keys
    BY <1>3 DEF ASync, ACopy
  <2>5. i # NoMark
    BY IdsAssumption DEF NoMark
  <2>q. QED
    BY <2>1, <2>3, <2>4, <2>5
<1>5. /\ Mixed(i, p) /\ (meddled = 0 => p.of = i)
      /\ \A d \in plex[a] : /\ d.key = p.key => d.of = p.of
                            /\ Traced(i) /\ d.of = i => d.key = p.key
  BY <1>3 DEF Kept, Copies, FoundInv, HasFound
\* A copy there now is one that was there, updated or not.
<1>6. \A c \in plex'[a] : \E d \in plex[a] :
            /\ ACopy(c, keys) /\ c.key = d.key /\ c.of = d.of
            /\ \/ c = d /\ c.key # p.key
               \/ /\ c = [d EXCEPT !.mark = IF stamps THEN i ELSE @, !.poster = poster]
                  /\ c.key = p.key /\ c.mark \in {i, d.mark}
  <2> SUFFICES ASSUME NEW c \in Updated(plex[a], p.key, i, stamps, poster)
               PROVE  \E d \in plex[a] :
            /\ ACopy(c, keys) /\ c.key = d.key /\ c.of = d.of
            /\ \/ c = d /\ c.key # p.key
               \/ /\ c = [d EXCEPT !.mark = IF stamps THEN i ELSE @, !.poster = poster]
                  /\ c.key = p.key /\ c.mark \in {i, d.mark}
    BY <1>4
  <2>1. CASE c \in plex[a] /\ c.key # p.key
    BY <1>4, <2>1
  <2>2. ASSUME NEW d \in plex[a], d.key = p.key,
               c = [d EXCEPT !.mark = IF stamps THEN i ELSE @, !.poster = poster]
        PROVE  c.key = d.key /\ c.of = d.of /\ c.mark \in {i, d.mark} /\ ACopy(c, keys)
    BY <1>4, <2>2 DEF ACopy
  <2>3. \/ c \in plex[a] /\ c.key # p.key
        \/ \E d \in plex[a] :
                /\ d.key = p.key
                /\ c = [d EXCEPT !.mark = IF stamps THEN i ELSE @, !.poster = poster]
    BY DEF Updated
  <2>q. QED
    BY <2>1, <2>2, <2>3
<1>7. \A d \in plex[a] : d.key # p.key => d \in plex'[a]
  BY <1>4 DEF Updated
<1>8. /\ \A j \in Ids \ {i} : \A k : /\ Knows(j, a, k)' <=> Knows(j, a, k)
                                     /\ Recalls(j, a, k)' <=> Recalls(j, a, k)
      /\ \A k : Recalls(i, a, k)' => Recalls(i, a, k) \/ k = p.key
      /\ \A k : Sure(i)' => (Knows(i, a, k)' <=> k = p.key)
      /\ unsure \subseteq unsure'
  BY <1>2, RecordsEffect
<1>9. \A j : Sure(j)' => Sure(j)
  BY <1>8, SureBefore
<1>t. \A j : Traced(j)' => Traced(j) /\ Sure(j)'
  BY <1>8, TracedBefore
<1>10. AtAccount(a)
  BY AtAccounts DEF Kept, Copies
<1>11. AtAccount(a)'
  <2>1. ASSUME NEW c \in plex'[a], NEW e \in plex'[a], c # e
        PROVE  c.key # e.key /\ (c.of = e.of /\ c.of \in Ids => ~Traced(c.of)')
    <3>1. PICK d \in plex[a] :
            /\ c.key = d.key /\ c.of = d.of
            /\ \/ c = d /\ c.key # p.key
               \/ /\ c = [d EXCEPT !.mark = IF stamps THEN i ELSE @, !.poster = poster]
                  /\ c.key = p.key
      BY <1>6
    <3>2. PICK f \in plex[a] :
            /\ e.key = f.key /\ e.of = f.of
            /\ \/ e = f /\ e.key # p.key
               \/ /\ e = [f EXCEPT !.mark = IF stamps THEN i ELSE @, !.poster = poster]
                  /\ e.key = p.key
      BY <1>6
    <3>3. d # f
      <4> SUFFICES ASSUME d = f
                   PROVE  c = e
        BY <2>1
      <4>1. c.key = e.key
        BY <3>1, <3>2
      <4>2. CASE c.key = p.key
        BY <3>1, <3>2, <4>1, <4>2, Zenon
      <4>3. CASE c.key # p.key
        BY <3>1, <3>2, <4>1, <4>3, Zenon
      <4>q. QED
        BY <4>2, <4>3
    <3>4. d.key # f.key /\ (d.of = f.of /\ d.of \in Ids => ~Traced(d.of))
      BY <1>10, <3>3 DEF AtAccount
    <3>5. c.key = d.key /\ c.of = d.of /\ e.key = f.key /\ e.of = f.of
      BY <3>1, <3>2
    <3>q. QED
      BY <1>t, <3>4, <3>5
  <2>2. ASSUME NEW c \in plex'[a], c.mark \in Ids
        PROVE  Mixed(c.mark, c)'
    <3>1. PICK d \in plex[a] : /\ c.key = d.key /\ c.of = d.of
                               /\ c.mark = d.mark \/ (c.key = p.key /\ c.mark = i)
      BY <1>6
    <3>2. CASE c.mark = d.mark
      <4>1. Mixed(d.mark, d)'
        BY <1>8, <1>10, <2>2, <3>2, MixedStays DEF AtAccount
      <4>q. QED
        BY <3>1, <3>2, <4>1 DEF Mixed
    <3>3. CASE c.key = p.key /\ c.mark = i
      <4>1. c.of = p.of
        BY <1>5, <3>1, <3>3
      <4>2. Mixed(i, p)'
        BY <1>5, <1>8, MixedStays
      <4>q. QED
        BY <3>3, <4>1, <4>2 DEF Mixed
    <3>q. QED
      BY <3>1, <3>2, <3>3
  <2>3. ASSUME NEW j \in Ids, Traced(j)', NEW c \in plex'[a], c.of = j
        PROVE  \E k \in 0..keys' : Knows(j, a, k)' /\ (c.mark = j \/ c.key = k)
    <3>1. PICK d \in plex[a] : /\ c.key = d.key /\ c.of = d.of
                               /\ c = d \/ c.key = p.key
      BY <1>6
    <3>2. CASE j = i
      <4>1. c.key = p.key /\ Knows(i, a, p.key)'
        BY <1>5, <1>8, <1>t, <2>3, <3>1, <3>2
      <4>q. QED
        BY <1>3, <1>4, <3>2, <4>1
    <3>3. CASE j # i
      <4>1. c = d
        BY <1>5, <1>9, <1>t, <2>3, <3>1, <3>3 DEF Mixed
      <4>2. PICK k \in 0..keys : Knows(j, a, k) /\ (d.mark = j \/ d.key = k)
        BY <1>t, <1>10, <2>3, <3>1 DEF AtAccount
      <4>3. k \in 0..keys' /\ Knows(j, a, k)'
        BY <1>3, <1>8, <3>3, <4>2
      <4>q. QED
        BY <4>1, <4>2, <4>3
    <3>q. QED
      BY <3>2, <3>3
  <2>4. ASSUME NEW j \in Ids, NEW c \in plex'[a], StrayKey(j, c)
        PROVE  /\ Recalls(j, a, c.key)' /\ c.of \in Ids => ~Sure(c.of)'
               /\ Knows(j, a, c.key)' /\ Sure(j)' => MarkedIn(plex'[a], j) # {}
    <3>1. PICK d \in plex[a] : /\ c.key = d.key /\ c.of = d.of
                               /\ \/ c = d /\ c.key # p.key
                                  \/ c.key = p.key /\ c.mark \in {i, d.mark}
      BY <1>6
    <3>2. d.mark = NoMark \/ c.mark = i
      BY <2>4, <3>1 DEF StrayKey
    <3>3. StrayKey(j, d)
      BY <1>4, <2>4, <3>1, <3>2 DEF StrayKey
    <3>4. c.key = p.key => Mixed(i, c)
      BY <1>5, <3>1 DEF Mixed
    <3>5. CASE j = i /\ c.key = p.key
      <4>1. ~Sure(i) /\ (c.of \in Ids => ~Sure(c.of))
        BY <2>4, <3>4, <3>5 DEF Mixed, StrayKey
      <4>q. QED
        BY <1>9, <3>5, <4>1
    <3>6. CASE ~(j = i /\ c.key = p.key)
      <4>1. Recalls(j, a, c.key)' => Recalls(j, a, d.key)
        BY <1>8, <3>1, <3>6
      <4>2. Recalls(j, a, d.key) /\ d.of \in Ids => ~Sure(d.of)
        BY <1>10, <3>3 DEF AtAccount
      <4>3. ASSUME Knows(j, a, c.key)', Sure(j)'
            PROVE  MarkedIn(plex'[a], j) # {}
        <5>1. j # i /\ Sure(j)
          BY <1>8, <1>9, <3>6, <4>3
        <5>2. MarkedIn(plex[a], j) # {}
          BY <1>8, <1>10, <3>1, <3>3, <4>3, <5>1 DEF AtAccount
        <5>3. PICK m \in plex[a] : m.mark = j
          BY <5>2 DEF MarkedIn
        <5>4. m.of = j
          BY <1>10, <5>1, <5>3 DEF AtAccount, Mixed
        <5>5. m.key # p.key
          BY <1>5, <5>1, <5>4 DEF Mixed
        <5>q. QED
          BY <1>7, <5>3, <5>5 DEF MarkedIn
      <4>q. QED
        BY <1>9, <3>1, <4>1, <4>2, <4>3
    <3>q. QED
      BY <3>5, <3>6
  <2>5. ASSUME meddled' = 0, NEW c \in plex'[a]
        PROVE  /\ c.mark \in {NoMark, c.of}
               /\ \A j \in Ids : Recalls(j, a, c.key)' => c.of = j
    <3>1. PICK d \in plex[a] : /\ c.key = d.key /\ c.of = d.of
                               /\ c.mark = d.mark \/ (c.key = p.key /\ c.mark = i)
      BY <1>6
    <3>2. /\ d.mark \in {NoMark, d.of}
          /\ \A j \in Ids : Recalls(j, a, d.key) => d.of = j
      BY <1>3, <1>10, <2>5 DEF AtAccount
    <3>3. c.key = p.key => c.of = i
      BY <1>3, <1>5, <2>5, <3>1
    <3>4. \A j \in Ids : Recalls(j, a, c.key)' => Recalls(j, a, c.key) \/ (j = i /\ c.key = p.key)
      BY <1>8
    <3>q. QED
      BY <3>1, <3>2, <3>3, <3>4
  <2>q. QED
    BY <2>1, <2>2, <2>3, <2>4, <2>5 DEF AtAccount, StrayKey, MarkedIn
<1>12. \A c \in plex'[a] : ACopy(c, keys') /\ \E d \in plex[a] : d.key = c.key /\ d.of = c.of
  BY <1>3, <1>6
<1>13. keys' \in Nat /\ keys <= keys'
  BY <1>3
<1>q. QED
  BY <1>2, <1>4, <1>11, <1>12, <1>13, PushStands

\* The copy found at an account is deleted from it, and of the account nothing
\* is known any more.
LEMMA UncopiedAt ==
    ASSUME Kept, NEW r \in Requests, NEW i \in Ids, NEW a \in Accounts,
           AtCopies(req[r], i), KnowsAsRead(req[r], a), ARecord(req[r].snap, keys),
           plex'[a] = plex[a] \ FindOurs(plex[a], i, PriorKey(req[r], a)),
           keys' = keys, meddled' = meddled, unsure \subseteq unsure',
           \A j \in Ids \ {i} : \A k : /\ Knows(j, a, k)' <=> Knows(j, a, k)
                                       /\ Recalls(j, a, k)' <=> Recalls(j, a, k),
           \A k : Recalls(i, a, k)' => Recalls(i, a, k) \/ k = 0,
           Sure(i)' => \A k : ~Knows(i, a, k)'
    PROVE  AtAccount(a)'
<1> DEFINE found == FindOurs(plex[a], i, PriorKey(req[r], a))
<1>1. /\ keys \in Nat /\ i # NoMark /\ \A p \in plex[a] : ACopy(p, keys) /\ p.key # 0
      /\ NoMark \notin Ids
  <2>1. NoMark \notin Ids
    BY IdsAssumption DEF NoMark
  <2>2. keys \in Nat /\ \A p \in plex[a] : ACopy(p, keys)
    BY DEF Kept, TypeInv
  <2>3. \A p \in plex[a] : p.key # 0
    BY <2>2 DEF ACopy
  <2>q. QED
    BY <2>1, <2>2, <2>3
<1>2. ASSUME NEW p \in found
      PROVE  p \in plex[a] /\ Mixed(i, p)
  <2>1. p \in FindOurs(plex[a], i, PriorKey(req[r], a))
    OBVIOUS
  <2> HIDE DEF found
  <2>q. QED
    BY <2>1, FindsFound
<1>3. \A p \in found : p.mark \in {i, NoMark}
  BY <1>1, FindOursIs
<1>4. found = {} /\ Traced(i) => \A p \in plex[a] : p.of # i
  BY FindsAll
<1> HIDE DEF found
<1>5. plex'[a] = plex[a] \ found /\ plex'[a] \subseteq plex[a]
  BY DEF found
<1>6. \A j : Sure(j)' => Sure(j)
  BY SureBefore
<1>t. \A j : Traced(j)' => Traced(j) /\ Sure(j)'
  BY TracedBefore
<1>7. AtAccount(a)
  BY AtAccounts DEF Kept, Copies
<1>8. \A p, q \in plex'[a] :
            p # q => p.key # q.key /\ (p.of = q.of /\ p.of \in Ids => ~Traced(p.of)')
  BY <1>5, <1>t, <1>7 DEF AtAccount
<1>9. \A p \in plex'[a] : p.mark \in Ids => Mixed(p.mark, p)'
  BY <1>5, <1>7, MixedStays DEF AtAccount
<1>10. ASSUME NEW j \in Ids, Traced(j)', NEW p \in plex'[a], p.of = j
       PROVE  \E k \in 0..keys' : Knows(j, a, k)' /\ (p.mark = j \/ p.key = k)
  <2>1. CASE j = i
    <3>1. PICK f \in found : TRUE
      BY <1>4, <1>5, <1>t, <1>10, <2>1
    <3>2. f \in plex[a] /\ f.of = i /\ f # p
      BY <1>2, <1>5, <1>6, <1>t, <1>10, <2>1, <3>1 DEF Mixed
    <3>q. QED
      BY <1>5, <1>t, <1>7, <1>10, <2>1, <3>2 DEF AtAccount
  <2>2. CASE j # i
    BY <1>5, <1>t, <1>7, <1>10, <2>2 DEF AtAccount
  <2>q. QED
    BY <2>1, <2>2
<1>11. ASSUME NEW j \in Ids, NEW p \in plex'[a], StrayKey(j, p)
       PROVE  /\ Recalls(j, a, p.key)' /\ p.of \in Ids => ~Sure(p.of)'
              /\ Knows(j, a, p.key)' /\ Sure(j)' => MarkedIn(plex'[a], j) # {}
  <2>1. Recalls(j, a, p.key)' => Recalls(j, a, p.key)
    BY <1>1, <1>5
  <2>2. ASSUME Knows(j, a, p.key)', Sure(j)'
        PROVE  MarkedIn(plex'[a], j) # {}
    <3>1. j # i /\ Knows(j, a, p.key) /\ Sure(j)
      BY <1>6, <2>2
    <3>2. MarkedIn(plex[a], j) # {}
      BY <1>5, <1>7, <1>11, <3>1 DEF AtAccount
    <3>3. PICK m \in plex[a] : m.mark = j
      BY <3>2 DEF MarkedIn
    <3>4. m \notin found
      BY <1>1, <1>3, <3>1, <3>3
    <3>q. QED
      BY <1>5, <3>3, <3>4 DEF MarkedIn
  <2>3. Recalls(j, a, p.key) /\ p.of \in Ids => ~Sure(p.of)
    BY <1>5, <1>7, <1>11 DEF AtAccount
  <2>q. QED
    BY <1>6, <2>1, <2>2, <2>3
<1>12. ASSUME meddled' = 0, NEW p \in plex'[a]
       PROVE  /\ p.mark \in {NoMark, p.of}
              /\ \A j \in Ids : Recalls(j, a, p.key)' => p.of = j
  <2>1. \A j \in Ids : Recalls(j, a, p.key)' => Recalls(j, a, p.key)
    BY <1>1, <1>5
  <2>2. /\ p.mark \in {NoMark, p.of}
        /\ \A j \in Ids : Recalls(j, a, p.key) => p.of = j
    BY <1>5, <1>7, <1>12 DEF AtAccount
  <2>q. QED
    BY <2>1, <2>2
<1>q. QED
  BY <1>8, <1>9, <1>10, <1>11, <1>12, Zenon DEF AtAccount, StrayKey, MarkedIn

\* A copy deleted at an account no longer a target keeps it ...
LEMMA DropsStands ==
    ASSUME Kept, NEW r \in Requests, NEW i \in Ids, NEW a \in Accounts, Drops(r, i, a)
    PROVE  Kept'
<1>1. PICK state : Records(r, i, a, state) /\ state.status = "absent" /\ state.key = 0
  BY DEF Drops
<1>2. /\ req[r].op = "sync" /\ a \notin DOMAIN req[r].states /\ ARecord(req[r].snap, keys)
      /\ keys' = keys /\ keys \in Nat /\ meddled' = meddled
  BY <1>1 DEF Drops, Records, ASync, Kept, TypeInv
<1>3. AtCopies(req[r], i) /\ KnowsAsRead(req[r], a)
  BY <1>1, <1>2, RecordsIs DEF KnowsAsRead, KnownBy
<1>4. /\ plex' = [b \in Accounts |-> plex'[b]]
      /\ plex'[a] = plex[a] \ FindOurs(plex[a], i, PriorKey(req[r], a))
      /\ \A b \in Accounts \ {a} : plex'[b] = plex[b]
  BY DEF Drops, Uncopied, Kept, TypeInv
<1>5. /\ unsure \subseteq unsure'
      /\ \A j \in Ids \ {i} : \A b, k : /\ Knows(j, b, k)' <=> Knows(j, b, k)
                                        /\ Recalls(j, b, k)' <=> Recalls(j, b, k)
      /\ \A k : Recalls(i, a, k)' => Recalls(i, a, k) \/ k = 0
      /\ Sure(i)' => \A k : ~Knows(i, a, k)'
  BY <1>1, RecordsEffect
<1>6. AtAccount(a)'
  BY <1>2, <1>3, <1>4, <1>5, UncopiedAt
<1>7. plex'[a] \subseteq plex[a] /\ keys' \in Nat /\ keys <= keys'
  BY <1>2, <1>4
<1>q. QED
  BY <1>1, <1>4, <1>6, <1>7, PushStands

\* ... and one of a deleted playlist.
LEMMA UncopiesStands ==
    ASSUME Kept, NEW r \in Requests, NEW i \in Ids, NEW a \in Accounts, Uncopies(r, i, a)
    PROVE  Kept'
<1>1. PICK next : /\ GoesOn(r, next) /\ ARequest(next, keys)
                  /\ next.op = "uncopy" /\ next.ids = {i}
                  /\ next.snap = req[r].snap /\ next.done = req[r].done \union {a}
  BY DEF Uncopies
<1>2. /\ req[r].op = "uncopy" /\ req[r].ids = {i} /\ a \in DOMAIN req[r].snap.plex \ req[r].done
      /\ ARecord(req[r].snap, keys) /\ ARequest(req[r], keys)
      /\ keys' = keys /\ keys \in Nat /\ meddled' = meddled /\ meddled \in Nat
      /\ records' = records /\ exports' = exports
      /\ records' = [j \in Ids |-> records'[j]] /\ exports' = [j \in Ids |-> exports'[j]]
  BY DEF Uncopies, AnUncopy, Kept, TypeInv
<1>3. /\ plex' = [b \in Accounts |-> plex'[b]]
      /\ plex'[a] \subseteq plex[a]
      /\ \/ plex'[a] = plex[a] \ FindOurs(plex[a], i, PriorKey(req[r], a))
         \/ plex' = plex /\ ~Sure(i)'
      /\ \A b \in Accounts \ {a} : plex'[b] = plex[b]
  BY DEF Uncopies, Uncopied, Kept, TypeInv, Sure
<1>4. /\ AtCopies(req[r], i) /\ \A j : AtCopies(req[r], j) => j = i
      /\ AtCopies(next, i) /\ \A j : AtCopies(next, j) => j = i
  BY <1>1, <1>2, OnlyAt
<1>5. TypeInv'
  <2>1. \A b \in Accounts : \A p \in plex'[b] : p \in plex[b] \/ ACopy(p, keys')
    BY <1>3
  <2>2. keys' \in Nat /\ keys <= keys' /\ meddled' \in Nat /\ ARequest(next, keys')
    BY <1>1, <1>2
  <2>3. \A j \in Ids : records'[j] = records[j]
    BY <1>2
  <2>q. QED
    BY <1>1, <1>2, <1>3, <2>1, <2>2, <2>3, TypeStays DEF Kept
<1>6. OverlapInv' /\ unsure \subseteq unsure'
  <2>1. OverlapInv'
    BY <1>1, OverlapGoesOn DEF Kept
  <2>q. QED
    BY <1>1, <2>1 DEF GoesOn
<1>7. Sure(i)' => Sure(i)
  BY <1>6, SureBefore
<1>8. \A j \in Ids : SamePlex(j)
  BY <1>2, UnchangedSamePlex
<1>9. CarryInv'
  <2>1. Sure(i)' => records'[i] = Gone
    BY <1>2, <1>4, <1>7 DEF Kept, Copies, CarryInv
  <2>2. \A j \in Ids : AtCopies(next, j) /\ Sure(j)' =>
            IF next.op \in {"sync", "delete"}
            THEN Alive(j)' /\ Record(j)'.plex = next.snap.plex
            ELSE records'[j] = Gone
    BY <1>1, <1>4, <2>1
  <2>q. QED
    BY <1>1, <1>8, <2>2, CarryStays DEF Kept, Copies
<1>10. FoundInv'
  <2>1. \A j \in Ids : HasFound(next, j)'
    BY <1>1, FindsNone
  <2>2. \A b \in Accounts : \A c \in plex'[b] : \E d \in plex[b] : d.key = c.key /\ d.of = c.of
    BY <1>3
  <2>q. QED
    BY <1>1, <1>2, <2>1, <2>2, FoundStays DEF Kept, Copies
<1>11. \A j \in Ids \ {i} : \A b, k : /\ Knows(j, b, k)' <=> Knows(j, b, k)
                                      /\ Recalls(j, b, k)' <=> Recalls(j, b, k)
  BY <1>1, <1>4, <1>8, AwayKeeps DEF Kept
<1>12. \A b, k : Recalls(i, b, k)' => Recalls(i, b, k)
  <2>1. \A b, k : RecalledBy(next, b, k) => RecalledBy(req[r], b, k)
    BY <1>1, <1>2 DEF RecalledBy
  <2>2. \A b, k : InRecord(records'[i], b, k) => InRecord(records[i], b, k)
    BY <1>2
  <2>q. QED
    BY <1>1, <1>4, <2>1, <2>2, RecallsNext DEF Kept, Recalls
<1>13. ASSUME Sure(i)', NEW b, NEW k
       PROVE  /\ ~Knows(i, a, k)'
              /\ b # a => (Knows(i, b, k)' <=> Knows(i, b, k))
  <2>1. /\ Knows(i, b, k)' <=> KnownBy(next, b, k)
        /\ Knows(i, a, k)' <=> KnownBy(next, a, k)
    BY <1>1, <1>4, <1>6, <1>13, HeldKnowsNext DEF Kept
  <2>2. Knows(i, b, k) <=> KnownBy(req[r], b, k)
    BY <1>4, <1>7, <1>13, HeldKnows DEF Kept
  <2>3. ~KnownBy(next, a, k) /\ (b # a => (KnownBy(next, b, k) <=> KnownBy(req[r], b, k)))
    BY <1>1, <1>2 DEF KnownBy
  <2>q. QED
    BY <2>1, <2>2, <2>3
<1>14. KnowsAsRead(req[r], a)
  BY <1>2 DEF KnowsAsRead, KnownBy
<1>15. AtAccount(a)'
  <2>1. CASE plex'[a] = plex[a] \ FindOurs(plex[a], i, PriorKey(req[r], a))
    BY <1>2, <1>4, <1>6, <1>11, <1>12, <1>13, <1>14, <2>1, UncopiedAt
  <2>2. CASE plex' = plex /\ ~Sure(i)'
    <3>1. /\ \A j \in Ids : \A k : Recalls(j, a, k)' => Recalls(j, a, k)
          /\ \A j \in Ids : \A k : Sure(j)' => (Knows(j, a, k)' <=> Knows(j, a, k))
      BY <1>11, <1>12, <2>2
    <3>2. plex'[a] = plex[a] /\ AtAccount(a) /\ keys' \in Nat /\ keys <= keys'
      BY <1>2, <2>2, AtAccounts DEF Kept, Copies
    <3>q. QED
      BY <1>2, <1>6, <3>1, <3>2, AccountStays
  <2>q. QED
    BY <1>3, <2>1, <2>2
<1>16. keys <= keys' /\ (meddled' = 0 => meddled = 0)
  BY <1>2
<1>q. QED
  BY <1>3, <1>5, <1>6, <1>9, <1>10, <1>11, <1>12, <1>13, <1>15, <1>16, PlexStands

\* Somebody changes the copies of an account on Plex itself.
LEMMA MeddlingStands ==
    ASSUME Kept, Meddle, UNCHANGED <<records, exports, keys, req>>, unsure \subseteq unsure',
           NEW a \in Accounts, plex' = [b \in Accounts |-> plex'[b]],
           \A b \in Accounts \ {a} : plex'[b] = plex[b],
           \A c \in plex'[a] : ACopy(c, keys), FoundInv', AtAccount(a)'
    PROVE  Kept'
<1>1. /\ records' = records /\ exports' = exports /\ keys' = keys /\ req' = req
      /\ meddled' \in Nat /\ (meddled' = 0 => meddled = 0)
  BY DEF Meddle, Kept, TypeInv
<1>2. TypeInv'
  BY <1>1 DEF Kept, TypeInv
<1>3. OverlapInv'
  BY <1>1 DEF Kept, OverlapInv
<1>4. CarryInv'
  <2>1. \A i : Sure(i)' => Sure(i)
    BY SureBefore
  <2>q. QED
    BY <1>1, <2>1 DEF Kept, Copies, CarryInv, Alive, Record
<1>5. \A i \in Ids : \A b, k : /\ Recalls(i, b, k)' <=> Recalls(i, b, k)
                               /\ Knows(i, b, k)' <=> Knows(i, b, k)
  BY <1>1 DEF Recalls, Knows, Settled
<1>6. keys <= keys'
  BY <1>1 DEF Kept, TypeInv
<1>q. QED
  BY <1>1, <1>2, <1>3, <1>4, <1>5, <1>6, PlexStands

\* A copy that vanishes keeps it.
LEMMA VanishStands ==
    ASSUME Kept, NEW a \in Accounts, NEW p \in plex[a], Vanish(a, p)
    PROVE  Kept'
<1>1. /\ p.of # Someone /\ Meddle /\ meddled' # 0
      /\ records' = records /\ exports' = exports /\ keys' = keys /\ req' = req
      /\ unsure \subseteq unsure'
      /\ \A i \in Ids : meddled > 0 /\ i = p.of => <<"key", i>> \in unsure'
  BY DEF Vanish, Meddle, disk, Kept, TypeInv
<1>2. /\ plex' = [b \in Accounts |-> plex'[b]] /\ plex'[a] = plex[a] \ {p}
      /\ \A b \in Accounts \ {a} : plex'[b] = plex[b]
  BY DEF Vanish, Kept, TypeInv
<1>3. \A i : Sure(i)' => Sure(i)
  BY <1>1, SureBefore
<1>t. \A i : Traced(i)' => Traced(i) /\ Sure(i)'
  BY <1>1, TracedBefore
<1>4. FoundInv'
  <2> SUFFICES ASSUME NEW r \in Requests
               PROVE  FoundInv'
    BY DEF FoundInv
  <2>1. GoesOn(r, req[r])
    BY <1>1 DEF GoesOn, Kept, TypeInv, OverlapInv
  <2>2. \A b \in Accounts : \A c \in plex'[b] : \E d \in plex[b] : d.key = c.key /\ d.of = c.of
    BY <1>2
  <2>q. QED
    BY <1>1, <2>1, <2>2, FoundStays DEF Kept, Copies
<1>5. \A i \in Ids : \A b, k : /\ Recalls(i, b, k)' <=> Recalls(i, b, k)
                               /\ Knows(i, b, k)' <=> Knows(i, b, k)
  BY <1>1 DEF Recalls, Knows, Settled
<1>6. AtAccount(a)
  BY AtAccounts DEF Kept, Copies
<1>7. AtAccount(a)'
  <2>1. \A c, d \in plex'[a] :
            c # d => c.key # d.key /\ (c.of = d.of /\ c.of \in Ids => ~Traced(c.of)')
    BY <1>2, <1>t, <1>6 DEF AtAccount
  <2>2. \A c \in plex'[a] : c.mark \in Ids => Mixed(c.mark, c)'
    BY <1>1, <1>2, <1>6, MixedStays DEF AtAccount
  <2>3. ASSUME NEW i \in Ids, Traced(i)', NEW c \in plex'[a], c.of = i
        PROVE  \E k \in 0..keys' : Knows(i, a, k)' /\ (c.mark = i \/ c.key = k)
    BY <1>1, <1>2, <1>t, <1>5, <1>6, <2>3 DEF AtAccount
  <2>4. ASSUME NEW i \in Ids, NEW c \in plex'[a], StrayKey(i, c)
        PROVE  /\ Recalls(i, a, c.key)' /\ c.of \in Ids => ~Sure(c.of)'
               /\ Knows(i, a, c.key)' /\ Sure(i)' => MarkedIn(plex'[a], i) # {}
    <3>1. Recalls(i, a, c.key)' /\ c.of \in Ids => ~Sure(c.of)'
      BY <1>2, <1>3, <1>5, <1>6, <2>4 DEF AtAccount
    <3>2. ASSUME Knows(i, a, c.key)', Sure(i)'
          PROVE  MarkedIn(plex'[a], i) # {}
      <4>1. MarkedIn(plex[a], i) # {}
        BY <1>2, <1>3, <1>5, <1>6, <2>4, <3>2 DEF AtAccount
      <4>2. PICK m \in plex[a] : m.mark = i
        BY <4>1 DEF MarkedIn
      \* Had it been the one deleted, c would not be stray: nobody meddled yet.
      <4>3. m # p
        <5>1. m.of = i
          BY <1>3, <1>6, <3>2, <4>2 DEF AtAccount, Mixed
        <5>2. Recalls(i, a, c.key)
          BY <1>5, <3>2, KnowsRecalls
        <5>3. meddled # 0
          BY <1>2, <1>6, <2>4, <5>2 DEF AtAccount, StrayKey
        <5>4. meddled > 0
          BY <5>3 DEF Kept, TypeInv
        <5>q. QED
          BY <1>1, <3>2, <5>1, <5>4 DEF Sure
      <4>q. QED
        BY <1>2, <4>2, <4>3 DEF MarkedIn
    <3>q. QED
      BY <3>1, <3>2
  <2>q. QED
    BY <1>1, <2>1, <2>2, <2>3, <2>4, Zenon DEF AtAccount, StrayKey, MarkedIn
<1>8. \A c \in plex'[a] : ACopy(c, keys)
  BY <1>2 DEF Kept, TypeInv
<1>q. QED
  BY <1>1, <1>2, <1>4, <1>7, <1>8, MeddlingStands

\* So does a rebuild: what has no marker is not sure after it.
LEMMA RebuildStands ==
    ASSUME Kept, NEW a \in Accounts, NEW p \in plex[a], NEW q \in plex[a], Rebuild(a, p, q)
    PROVE  Kept'
<1>1. /\ p # q /\ Meddle /\ meddled' # 0
      /\ records' = records /\ exports' = exports /\ keys' = keys /\ req' = req
      /\ unsure \subseteq unsure'
      /\ \A i \in Ids : MarkedIn(plex[a], i) = {} => <<"key", i>> \in unsure'
      /\ \A c \in {p, q} : c.of \in Ids /\ c.mark # c.of => <<"key", c.of>> \in unsure'
      /\ \A r \in Requests : req[r].op = "sync" => req[r].at = Nowhere
  BY DEF Rebuild, Meddle, disk, Kept, TypeInv
<1> DEFINE NewKey(c) == IF c = p THEN q.key ELSE IF c = q THEN p.key ELSE c.key
<1> DEFINE Rekeyed(c) == IF c = p THEN [p EXCEPT !.key = q.key]
                         ELSE IF c = q THEN [q EXCEPT !.key = p.key] ELSE c
<1>2. /\ plex' = [b \in Accounts |-> plex'[b]]
      /\ plex'[a] = (plex[a] \ {p, q}) \union {[p EXCEPT !.key = q.key], [q EXCEPT !.key = p.key]}
      /\ \A b \in Accounts \ {a} : plex'[b] = plex[b]
  BY DEF Rebuild, Kept, TypeInv
<1>c. \A c \in plex[a] : ACopy(c, keys)
  BY DEF Kept, TypeInv
\* A copy there now is one that was there, but for its key.
<1>3. \A c \in plex'[a] : \E d \in plex[a] :
            /\ c = Rekeyed(d) /\ ACopy(c, keys)
            /\ c.mark = d.mark /\ c.of = d.of /\ c.key = NewKey(d)
  <2> SUFFICES ASSUME NEW c \in plex'[a]
               PROVE  \E d \in plex[a] :
                        /\ c = Rekeyed(d) /\ ACopy(c, keys)
                        /\ c.mark = d.mark /\ c.of = d.of /\ c.key = NewKey(d)
    OBVIOUS
  <2>1. CASE c = [p EXCEPT !.key = q.key]
    BY <1>c, <2>1 DEF ACopy
  <2>2. CASE c = [q EXCEPT !.key = p.key]
    BY <1>1, <1>c, <2>2 DEF ACopy
  <2>3. CASE c \in plex[a] \ {p, q}
    BY <1>c, <2>3 DEF ACopy
  <2>q. QED
    BY <1>2, <2>1, <2>2, <2>3
<1>4. \A m \in plex[a] : \E c \in plex'[a] : c.mark = m.mark
  <2>1. [p EXCEPT !.key = q.key].mark = p.mark /\ [q EXCEPT !.key = p.key].mark = q.mark
    BY <1>c DEF ACopy
  <2>q. QED
    BY <1>2, <2>1
<1>5. \A i : Sure(i)' => Sure(i)
  BY <1>1, SureBefore
<1>t. \A i : Traced(i)' => Traced(i) /\ Sure(i)'
  BY <1>1, TracedBefore
<1>6. FoundInv'
  BY <1>1, <1>t DEF FoundInv, HasFound
<1>7. \A i \in Ids : \A b, k : /\ Recalls(i, b, k)' <=> Recalls(i, b, k)
                               /\ Knows(i, b, k)' <=> Knows(i, b, k)
  BY <1>1 DEF Recalls, Knows, Settled
<1>8. AtAccount(a)
  BY AtAccounts DEF Kept, Copies
\* A playlist that is still traced has one copy here at most, and it is marked.
<1>9. ASSUME NEW i \in Ids, Traced(i)'
      PROVE  \E m \in plex[a] : m.mark = i /\ \A d \in plex[a] : d.of = i => d = m
  <2>1. MarkedIn(plex[a], i) # {}
    BY <1>1, <1>9 DEF Sure, Traced
  <2>2. PICK m \in plex[a] : m.mark = i
    BY <2>1 DEF MarkedIn
  <2>3. m.of = i
    BY <1>t, <1>8, <1>9, <2>2 DEF AtAccount, Mixed, Traced
  <2>q. QED
    BY <1>t, <1>8, <1>9, <2>2, <2>3 DEF AtAccount
<1>10. AtAccount(a)'
  <2>1. ASSUME NEW c \in plex'[a], NEW e \in plex'[a], c # e
        PROVE  c.key # e.key /\ (c.of = e.of /\ c.of \in Ids => ~Traced(c.of)')
    <3>1. PICK d \in plex[a] : c = Rekeyed(d) /\ c.of = d.of /\ c.key = NewKey(d)
      BY <1>3
    <3>2. PICK f \in plex[a] : e = Rekeyed(f) /\ e.of = f.of /\ e.key = NewKey(f)
      BY <1>3
    <3>3. d # f
      BY <2>1, <3>1, <3>2
    <3>4. NewKey(d) # NewKey(f)
      BY <1>8, <3>3 DEF AtAccount
    <3> HIDE DEF NewKey, Rekeyed
    <3>q. QED
      BY <1>t, <1>8, <3>1, <3>2, <3>3, <3>4 DEF AtAccount
  <2>2. ASSUME NEW c \in plex'[a], c.mark \in Ids
        PROVE  Mixed(c.mark, c)'
    <3>1. PICK d \in plex[a] : c.mark = d.mark /\ c.of = d.of
      BY <1>3
    <3>2. Mixed(d.mark, d)
      BY <1>8, <2>2, <3>1 DEF AtAccount
    <3>3. Mixed(d.mark, d)'
      BY <1>1, <3>2, MixedStays
    <3>q. QED
      BY <3>1, <3>3 DEF Mixed
  <2>3. ASSUME NEW i \in Ids, Traced(i)', NEW c \in plex'[a], c.of = i
        PROVE  \E k \in 0..keys' : Knows(i, a, k)' /\ (c.mark = i \/ c.key = k)
    <3>1. PICK d \in plex[a] : c.mark = d.mark /\ c.of = d.of
      BY <1>3
    <3>2. d.mark = i
      BY <1>9, <2>3, <3>1
    <3>3. PICK k \in 0..keys : Knows(i, a, k)
      BY <1>t, <1>8, <2>3, <3>1 DEF AtAccount
    <3>q. QED
      BY <1>1, <1>7, <3>1, <3>2, <3>3
  <2>4. ASSUME NEW i \in Ids, NEW c \in plex'[a], StrayKey(i, c)
        PROVE  /\ Recalls(i, a, c.key)' /\ c.of \in Ids => ~Sure(c.of)'
               /\ Knows(i, a, c.key)' /\ Sure(i)' => MarkedIn(plex'[a], i) # {}
    <3>1. PICK d \in plex[a] : c.mark = d.mark /\ c.of = d.of /\ c.key = NewKey(d)
      BY <1>3
    \* One whose key was given away is not sure; another still has its own.
    <3>2. Recalls(i, a, c.key)' /\ c.of \in Ids => ~Sure(c.of)'
      <4>1. CASE d \in {p, q}
        BY <1>1, <2>4, <3>1, <4>1, IdsAssumption DEF StrayKey, NoMark, Sure
      <4>2. CASE d \notin {p, q}
        <5>1. c.key = d.key
          BY <3>1, <4>2
        <5>q. QED
          BY <1>5, <1>7, <1>8, <2>4, <3>1, <5>1 DEF AtAccount, StrayKey
      <4>q. QED
        BY <4>1, <4>2
    <3>3. Sure(i)' => MarkedIn(plex'[a], i) # {}
      <4>1. Sure(i)' => MarkedIn(plex[a], i) # {}
        BY <1>1 DEF Sure
      <4>q. QED
        BY <1>4, <4>1 DEF MarkedIn
    <3>q. QED
      BY <3>2, <3>3
  <2>q. QED
    BY <1>1, <2>1, <2>2, <2>3, <2>4, Zenon DEF AtAccount, StrayKey, MarkedIn
<1>11. \A c \in plex'[a] : ACopy(c, keys)
  BY <1>3
<1>q. QED
  BY <1>1, <1>2, <1>6, <1>10, <1>11, MeddlingStands

-----------------------------------------------------------------------------
(* The exports after a step.                                               *)

\* The export of i tells its record, unless the last write of it failed.
Tells(i) ==
    ~exports[i].failed => exports[i].file = IF Alive(i) THEN Render(Record(i)) ELSE <<>>

\* What the invariant says of it.
ExportAt(i) ==
    /\ AnExport(exports[i])
    /\ Quiet("export", i) => Tells(i)
    /\ \A r \in Requests :
            AtExport(req[r], i) /\ <<"export", i>> \notin unsure =>
                WillTell(req[r], i, records[i], exports[i])

\* What the invariant says of the exports is said of each.
LEMMA ExportsAt == ExportInv <=> \A i \in Ids : ExportAt(i)
BY DEF ExportInv, ExportTells, ExportAt, Tells

\* An export is quiet when no request holds it.
LEMMA QuietIs ==
    ASSUME NEW i
    PROVE  Quiet("export", i) <=> /\ <<"export", i>> \notin unsure
                                  /\ \A r \in Requests : ~AtExport(req[r], i)
BY DEF Quiet, AtExport

\* The file of a record is told by its entries.
LEMMA RenderIs ==
    ASSUME NEW x, NEW y, x.entries = y.entries
    PROVE  Render(x) = Render(y)
BY DEF Render, Lines

\* A write that did not fail leaves the record in the file ...
LEMMA WritingIs ==
    ASSUME NEW x, NEW e, AnExport(e), NEW f \in Outcomes(x, e)
    PROVE  AnExport(f) /\ (~f.failed => f.file = Render(x))
BY DEF AnExport, Outcomes, Written, Failed

\* ... and a removal that did not, none.
LEMMA RemovingIs ==
    ASSUME NEW e, AnExport(e), NEW f \in Removals(e)
    PROVE  AnExport(f) /\ (~f.failed => f.file = <<>>)
BY DEF AnExport, Removals, NoFile, Failed

\* The record and the file of i are left alone: the entries and the tracks the
\* library has of them are the same.
SameFile(i) ==
    /\ exports'[i] = exports[i] /\ Alive(i)' = Alive(i)
    /\ Alive(i) => /\ records'[i].entries = records[i].entries
                   /\ Render(Record(i))' = Render(Record(i))

\* It is, where record, export and library are.
LEMMA SameRecordSameFile ==
    ASSUME NEW i \in Ids, exports'[i] = exports[i], library' = library,
           \/ records'[i] = records[i]
           \/ Alive(i) /\ Alive(i)' /\ records'[i].entries = records[i].entries
    PROVE  SameFile(i)
<1>1. Alive(i)' = Alive(i) /\ (Alive(i) => records'[i].entries = records[i].entries)
  BY DEF Alive
<1>2. records'[i].entries = records[i].entries => Render(Record(i))' = Render(Record(i))
  BY DEF Render, Lines, Record
<1>q. QED
  BY <1>1, <1>2 DEF SameFile

\* A step leaves the export of i as it is, no request having come to it or gone.
LEMMA ExportStays ==
    ASSUME TypeInv, NEW i \in Ids, ExportAt(i), NEW r \in Requests, NEW next, GoesOn(r, next),
           next = req[r] \/ (~AtExport(req[r], i) /\ ~AtExport(next, i)), SameFile(i)
    PROVE  ExportAt(i)'
<1>1. \A s \in Requests : /\ AtExport(req'[s], i) <=> AtExport(req[s], i)
                          /\ AtExport(req[s], i) => req'[s] = req[s]
  BY NextRequests
<1>2. unsure \subseteq unsure'
  BY DEF GoesOn
<1>3. Quiet("export", i)' => Quiet("export", i)
  BY <1>1, <1>2 DEF Quiet, AtExport
<1>4. AnExport(exports'[i]) /\ (Quiet("export", i)' => Tells(i)')
  BY <1>3 DEF ExportAt, SameFile, Tells
<1>5. ASSUME NEW s \in Requests, AtExport(req'[s], i), <<"export", i>> \notin unsure'
      PROVE  WillTell(req'[s], i, records'[i], exports'[i])
  <2>1. req'[s] = req[s] /\ WillTell(req[s], i, records[i], exports[i])
    BY <1>1, <1>2, <1>5 DEF ExportAt
  <2>q. QED
    BY <2>1 DEF WillTell, SameFile, Alive
<1>q. QED
  BY <1>4, <1>5 DEF ExportAt

\* A request is at the export of i after a step, and will tell.
LEMMA ExportTurns ==
    ASSUME TypeInv, OverlapInv, NEW i \in Ids, NEW r \in Requests, NEW next, GoesOn(r, next),
           AtExport(next, i), AnExport(exports'[i]),
           <<"export", i>> \notin unsure' => WillTell(next, i, records'[i], exports'[i])
    PROVE  ExportAt(i)'
<1>1. req'[r] = next /\ \A s \in Requests \ {r} : req'[s] = req[s]
  BY NextRequests
<1>2. \A s \in Requests \ {r} : AtExport(req[s], i) => <<"export", i>> \in unsure'
  BY DEF GoesOn, AtExport
<1>3. ~Quiet("export", i)'
  BY <1>1 DEF Quiet, AtExport
<1>q. QED
  BY <1>1, <1>2, <1>3 DEF ExportAt

\* A request leaves the export of i, having told.
LEMMA ExportEnds ==
    ASSUME TypeInv, OverlapInv, NEW i \in Ids, NEW r \in Requests, NEW next, GoesOn(r, next),
           AtExport(req[r], i), ~AtExport(next, i), AnExport(exports'[i]),
           <<"export", i>> \notin unsure' => Tells(i)'
    PROVE  ExportAt(i)'
<1>1. req'[r] = next /\ \A s \in Requests \ {r} : req'[s] = req[s]
  BY NextRequests
<1>2. <<"export", i>> \notin unsure' => <<"export", i>> \notin unsure
  BY DEF GoesOn
<1>3. \A s \in Requests : AtExport(req'[s], i) => <<"export", i>> \in unsure'
  BY <1>1, <1>2, OneAtExport
<1>4. Quiet("export", i)' => <<"export", i>> \notin unsure'
  BY DEF Quiet
<1>q. QED
  BY <1>3, <1>4 DEF ExportAt

\* What a request at the export of i is to tell, as long as that is sure.
LEMMA WillTellStill ==
    ASSUME ExportInv, NEW i \in Ids, NEW r \in Requests, AtExport(req[r], i),
           unsure \subseteq unsure', <<"export", i>> \notin unsure'
    PROVE  WillTell(req[r], i, records[i], exports[i])
BY DEF ExportInv

\* A request that does not handle exports is at none.
LEMMA AtNoExport ==
    ASSUME NEW q, NEW n, ARequest(q, n), q.op \in {"idle", "check", "sync", "delete"}
    PROVE  \A i : ~AtExport(q, i)
BY HoldsIs

\* One that handles the export of one playlist is at no other's.
LEMMA OnlyAtExport ==
    ASSUME NEW q, NEW n, ARequest(q, n), NEW i,
           q.op \in {"export", "imported", "uncopy"}, q.ids = {i}
    PROVE  AtExport(q, i) /\ \A j : AtExport(q, j) => j = i
BY HoldsIs

Told == TypeInv /\ OverlapInv /\ ExportInv

\* The exports are told if each is.
LEMMA EachTells ==
    ASSUME \A i \in Ids : ExportAt(i)'
    PROVE  ExportInv'
BY DEF ExportInv, ExportTells, ExportAt, Tells

\* An edit leaves its export to the request that made it ...
LEMMA WritesTells ==
    ASSUME Told, NEW r \in Requests, NEW i \in Ids, NEW x, Writes(r, i, x)
    PROVE  ExportInv'
<1>1. PICK next : /\ GoesOn(r, next) /\ ARequest(next, keys)
                  /\ next.op \in {"export", "imported"} /\ next.ids = {i} /\ next.record = x
  BY DEF Writes
<1>2. /\ ARecord(x, keys) /\ req[r].op \in {"idle", "check", "imported"}
      /\ req[r].op = "imported" => req[r].ids = {i}
      /\ records'[i] = x /\ \A j \in Ids \ {i} : records'[j] = records[j]
      /\ exports' = exports /\ library' = library /\ ARequest(req[r], keys)
  BY DEF Writes, Told, TypeInv
<1>3. AtExport(next, i) /\ \A j : AtExport(next, j) => j = i
  BY <1>1, OnlyAtExport
<1>4. \A j : AtExport(req[r], j) => j = i
  BY <1>2, AtNoExport, OnlyAtExport
<1>5. ExportAt(i)'
  <2>1. WillTell(next, i, records'[i], exports'[i])
    BY <1>1, <1>2 DEF WillTell, ARecord
  <2>2. AnExport(exports'[i])
    BY <1>2 DEF Told, ExportInv
  <2>q. QED
    BY <1>1, <1>3, <2>1, <2>2, ExportTurns DEF Told
<1>6. ASSUME NEW j \in Ids \ {i}
      PROVE  ExportAt(j)'
  <2>1. SameFile(j)
    BY <1>2, SameRecordSameFile
  <2>q. QED
    BY <1>1, <1>3, <1>4, <2>1, ExportStays, ExportsAt DEF Told
<1>q. QED
  BY <1>5, <1>6, EachTells

\* A step of a request that is at no export leaves the files as they are.
LEMMA OffExportTells ==
    ASSUME Told, NEW r \in Requests, NEW next, GoesOn(r, next),
           next = req[r] \/ \A i : ~AtExport(req[r], i) /\ ~AtExport(next, i),
           \A i \in Ids : \/ records'[i] = records[i]
                          \/ Alive(i) /\ Alive(i)' /\ records'[i].entries = records[i].entries,
           exports' = exports, library' = library
    PROVE  ExportInv'
<1>1. \A i \in Ids : SameFile(i)
  BY SameRecordSameFile
<1>2. \A i \in Ids : ExportAt(i)'
  BY <1>1, ExportStays, ExportsAt DEF Told
<1>q. QED
  BY <1>2, EachTells

\* ... a look leaves it alone ...
LEMMA LooksTells ==
    ASSUME Told, NEW r \in Requests, Looks(r)
    PROVE  ExportInv'
<1>1. PICK next : GoesOn(r, next) /\ ARequest(next, keys) /\ next.op \in {"idle", "check"}
  BY DEF Looks
<1>2. /\ req[r].op \in {"idle", "check"} /\ ARequest(req[r], keys)
      /\ records' = records /\ exports' = exports /\ library' = library
  BY DEF Looks, Told, TypeInv
<1>3. \A i : ~AtExport(req[r], i) /\ ~AtExport(next, i)
  BY <1>1, <1>2, AtNoExport
<1>q. QED
  BY <1>1, <1>2, <1>3, OffExportTells

\* ... an import that comes late has its export in doubt already ...
LEMMA ComesLateTells ==
    ASSUME Told, NEW r \in Requests, NEW i \in Ids, ComesLate(r, i)
    PROVE  ExportInv'
<1> DEFINE next == Exporting(i, req[r].record)
<1>1. /\ GoesOn(r, next) /\ ARequest(next, keys) /\ next.op = "export" /\ next.ids = {i}
      /\ req[r].op = "imported" /\ req[r].ids = {i} /\ ~Alive(i) /\ ARequest(req[r], keys)
      /\ records' = records /\ exports' = exports /\ library' = library
  BY ExportIsRequest DEF ComesLate, Told, TypeInv
<1> HIDE DEF next
<1>2. /\ AtExport(next, i) /\ \A j : AtExport(next, j) => j = i
      /\ AtExport(req[r], i) /\ \A j : AtExport(req[r], j) => j = i
  BY <1>1, OnlyAtExport
<1>3. <<"export", i>> \in unsure'
  <2>1. <<"export", i>> \notin unsure' => WillTell(req[r], i, records[i], exports[i])
    BY <1>1, <1>2, WillTellStill DEF Told, GoesOn
  <2>q. QED
    BY <1>1, <2>1 DEF WillTell, Alive
<1>4. ExportAt(i)'
  BY <1>1, <1>2, <1>3, ExportTurns DEF Told, ExportInv
<1>5. ASSUME NEW j \in Ids \ {i}
      PROVE  ExportAt(j)'
  <2>1. SameFile(j)
    BY <1>1, SameRecordSameFile
  <2>q. QED
    BY <1>1, <1>2, <2>1, ExportStays, ExportsAt DEF Told
<1>q. QED
  BY <1>4, <1>5, EachTells

\* ... and a cover is not in it.
LEMMA PaintsTells ==
    ASSUME Told, NEW r \in Requests, NEW i \in Ids, Paints(i)
    PROVE  ExportInv'
<1>1. PICK x : /\ ARecord(x, keys) /\ x.entries = Record(i).entries
               /\ records' = [records EXCEPT ![i] = x]
  BY DEF Paints
<1>2. /\ Alive(i) /\ req' = req /\ unsure \subseteq unsure'
      /\ exports' = exports /\ library' = library
  BY DEF Paints
<1>3. GoesOn(r, req[r])
  BY <1>2 DEF GoesOn, Told, TypeInv, OverlapInv
<1>4. records'[i] = x /\ \A j \in Ids \ {i} : records'[j] = records[j]
  BY <1>1 DEF Told, TypeInv
<1>5. \A j \in Ids : \/ records'[j] = records[j]
                     \/ Alive(j) /\ Alive(j)' /\ records'[j].entries = records[j].entries
  BY <1>1, <1>2, <1>4 DEF ARecord, Alive, Record
<1>q. QED
  BY <1>2, <1>3, <1>5, OffExportTells

\* The export written tells the record it was given ...
LEMMA ExportingTells ==
    ASSUME Told, NEW r \in Requests, Export(r)
    PROVE  ExportInv'
<1>1. PICK i \in Ids :
            /\ req[r].op = "export" /\ req[r].ids = {i}
            /\ \E e \in Outcomes(req[r].record, exports[i]) : exports' = [exports EXCEPT ![i] = e]
            /\ GoesOn(r, Idle) /\ UNCHANGED <<records, library>>
  BY ExportDoes DEF Told
<1>2. /\ records' = records /\ library' = library /\ AnExport(exports'[i])
      /\ ~exports'[i].failed => exports'[i].file = Render(req[r].record)
      /\ \A j \in Ids \ {i} : exports'[j] = exports[j]
      /\ ARequest(req[r], keys)
  <2>1. PICK e \in Outcomes(req[r].record, exports[i]) : exports' = [exports EXCEPT ![i] = e]
    BY <1>1
  <2>2. AnExport(e) /\ (~e.failed => e.file = Render(req[r].record))
    BY <2>1, WritingIs DEF Told, ExportInv
  <2>3. exports'[i] = e /\ \A j \in Ids \ {i} : exports'[j] = exports[j]
    BY <2>1 DEF Told, TypeInv
  <2>q. QED
    BY <1>1, <2>2, <2>3 DEF Told, TypeInv
<1>3. AtExport(req[r], i) /\ \A j : AtExport(req[r], j) => j = i
  BY <1>1, <1>2, OnlyAtExport
<1>4. \A j : ~AtExport(Idle, j)
  BY IdleIsRequest, AtNoExport
<1>5. ExportAt(i)'
  <2>1. ASSUME <<"export", i>> \notin unsure'
        PROVE  Tells(i)'
    <3>1. WillTell(req[r], i, records[i], exports[i])
      BY <1>1, <1>3, <2>1, WillTellStill DEF Told, GoesOn
    <3>2. Alive(i) /\ req[r].record.entries = Record(i).entries
      BY <1>1, <3>1 DEF WillTell, Alive, Record
    <3>3. Render(req[r].record) = Render(Record(i))
      BY <3>2, RenderIs
    <3>4. Alive(i)' /\ Render(Record(i))' = Render(Record(i))
      BY <1>2, <3>2 DEF Alive, Record, Render, Lines
    <3>q. QED
      BY <1>2, <3>3, <3>4 DEF Tells
  <2>q. QED
    BY <1>1, <1>2, <1>3, <1>4, <2>1, ExportEnds DEF Told
<1>6. ASSUME NEW j \in Ids \ {i}
      PROVE  ExportAt(j)'
  <2>1. SameFile(j)
    BY <1>2, SameRecordSameFile
  <2>q. QED
    BY <1>1, <1>3, <1>4, <2>1, ExportStays, ExportsAt DEF Told
<1>q. QED
  BY <1>5, <1>6, EachTells

\* ... so do several ...
LEMMA ReexportTells ==
    ASSUME Told, NEW r \in Requests, Reexport(r)
    PROVE  ExportInv'
<1>1. /\ req[r].op = "reexport" /\ req[r].ids \subseteq Ids
      /\ \A i \in req[r].ids : exports'[i] \in Outcomes(req[r].list[i], exports[i])
      /\ \A i \in Ids \ req[r].ids : exports'[i] = exports[i]
      /\ GoesOn(r, Idle) /\ UNCHANGED <<records, library>>
  BY ReexportDoes DEF Told
<1>2. ARequest(req[r], keys) /\ records' = records /\ library' = library
  BY <1>1 DEF Told, TypeInv
<1>3. \A j : AtExport(req[r], j) <=> j \in req[r].ids
  BY <1>1, <1>2, HoldsIs
<1>4. \A j : ~AtExport(Idle, j)
  BY IdleIsRequest, AtNoExport
<1>5. ASSUME NEW i \in Ids, i \in req[r].ids
      PROVE  ExportAt(i)'
  <2>2. AnExport(exports'[i]) /\ (~exports'[i].failed => exports'[i].file = Render(req[r].list[i]))
    BY <1>1, <1>5, WritingIs DEF Told, ExportInv
  <2>1. ASSUME <<"export", i>> \notin unsure'
        PROVE  Tells(i)'
    <3>1. WillTell(req[r], i, records[i], exports[i])
      BY <1>1, <1>3, <1>5, <2>1, WillTellStill DEF Told, GoesOn
    <3>2. Alive(i) /\ req[r].list[i].entries = Record(i).entries
      BY <1>1, <3>1 DEF WillTell, Alive, Record
    <3>3. Render(req[r].list[i]) = Render(Record(i))
      BY <3>2, RenderIs
    <3>4. Alive(i)' /\ Render(Record(i))' = Render(Record(i))
      BY <1>2, <3>2 DEF Alive, Record, Render, Lines
    <3>q. QED
      BY <2>2, <3>3, <3>4 DEF Tells
  <2>q. QED
    BY <1>1, <1>3, <1>4, <1>5, <2>1, <2>2, ExportEnds DEF Told
<1>6. ASSUME NEW i \in Ids, i \notin req[r].ids
      PROVE  ExportAt(i)'
  <2>1. SameFile(i)
    BY <1>1, <1>2, <1>6, SameRecordSameFile
  <2>q. QED
    BY <1>1, <1>3, <1>4, <1>6, <2>1, ExportStays, ExportsAt DEF Told
<1>q. QED
  BY <1>5, <1>6, EachTells

\* ... which a dropped track leaves to its request ...
LEMMA DropTrackTells ==
    ASSUME Told, NEW r \in Requests, NEW item \in Items, DropTrack(r, item)
    PROVE  ExportInv'
<1>1. PICK next :
            /\ req[r] = Idle /\ GoesOn(r, next) /\ ARequest(next, keys)
            /\ next.op = "reexport"
            /\ next.ids = {i \in Ids : Alive(i) /\ item \in TracksOf(Record(i))}
            /\ \A i \in next.ids : next.list[i] = Record(i)
            /\ library' = library \ {item}
            /\ UNCHANGED <<records, exports>>
  BY DropTrackDoes DEF Told
<1>2. \A j : /\ AtExport(next, j) <=> j \in next.ids
             /\ ~AtExport(req[r], j)
  BY <1>1, HoldsIs, IdleIsRequest, AtNoExport
<1>3. ASSUME NEW i \in Ids, i \in next.ids
      PROVE  ExportAt(i)'
  <2>1. records'[i].alive /\ next.list[i].entries = records'[i].entries
    BY <1>1, <1>3 DEF Alive, Record
  <2>2. WillTell(next, i, records'[i], exports'[i])
    BY <1>1, <2>1 DEF WillTell
  <2>3. AnExport(exports'[i])
    BY <1>1 DEF Told, ExportInv
  <2>q. QED
    BY <1>1, <1>2, <1>3, <2>2, <2>3, ExportTurns DEF Told
<1>4. ASSUME NEW i \in Ids, i \notin next.ids
      PROVE  ExportAt(i)'
  <2>1. ASSUME Alive(i)
        PROVE  Render(Record(i))' = Render(Record(i))
    <3>1. item \notin TracksOf(Record(i)) /\ item # Pending
      BY <1>1, <1>4, <2>1, ItemsAssumption DEF Pending
    <3>2. \A n \in DOMAIN Record(i).entries : Record(i).entries[n].item # item
      BY <3>1 DEF TracksOf
    <3>3. Record(i)' = Record(i)
      BY <1>1 DEF Record
    <3>4. Lines(Record(i))' = Lines(Record(i))
      BY <1>1, <3>2, <3>3 DEF Lines
    <3>q. QED
      BY <3>3, <3>4 DEF Render
  <2>2. SameFile(i)
    BY <1>1, <2>1 DEF SameFile, Alive
  <2>q. QED
    BY <1>1, <1>2, <1>4, <2>2, ExportStays, ExportsAt DEF Told
<1>q. QED
  BY <1>3, <1>4, EachTells

\* ... and those of a merge, where the source's goes.
LEMMA MergeExportsTells ==
    ASSUME Told, NEW r \in Requests, MergeExports(r)
    PROVE  ExportInv'
<1> DEFINE next == Uncopying(req[r].source, req[r].snap)
<1>1. PICK i \in Ids, j \in Ids :
            /\ i = req[r].into /\ j = req[r].source /\ i # j /\ req[r].ids = {i, j}
            /\ req[r].op = "merged"
            /\ \E e \in Outcomes(req[r].record, exports[i]), f \in Removals(exports[j]) :
                    exports' = [exports EXCEPT ![i] = e, ![j] = f]
            /\ GoesOn(r, next) /\ ARequest(next, keys)
            /\ next.op = "uncopy" /\ next.ids = {j}
            /\ UNCHANGED <<records, library>>
  BY MergeExportsDoes DEF Told, AMerge
<1> HIDE DEF next
<1>2. /\ records' = records /\ library' = library
      /\ AnExport(exports'[i]) /\ AnExport(exports'[j])
      /\ ~exports'[i].failed => exports'[i].file = Render(req[r].record)
      /\ ~exports'[j].failed => exports'[j].file = <<>>
      /\ \A l \in Ids \ {i, j} : exports'[l] = exports[l]
      /\ ARequest(req[r], keys)
  <2>1. PICK e \in Outcomes(req[r].record, exports[i]), f \in Removals(exports[j]) :
            exports' = [exports EXCEPT ![i] = e, ![j] = f]
    BY <1>1
  <2>2. /\ AnExport(e) /\ (~e.failed => e.file = Render(req[r].record))
        /\ AnExport(f) /\ (~f.failed => f.file = <<>>)
    BY WritingIs, RemovingIs DEF Told, ExportInv
  <2>3. exports'[i] = e /\ exports'[j] = f /\ \A l \in Ids \ {i, j} : exports'[l] = exports[l]
    BY <1>1, <2>1 DEF Told, TypeInv
  <2>q. QED
    BY <1>1, <2>2, <2>3 DEF Told, TypeInv
<1>3. /\ \A l : AtExport(req[r], l) <=> l \in {i, j}
      /\ \A l : AtExport(next, l) <=> l = j
  <2>1. \A l : AtExport(req[r], l) <=> l \in {i, j}
    BY <1>1, <1>2, HoldsIs
  <2>2. \A l : AtExport(next, l) <=> l = j
    BY <1>1, OnlyAtExport
  <2>q. QED
    BY <2>1, <2>2
<1>4. ExportAt(i)'
  <2>1. ASSUME <<"export", i>> \notin unsure'
        PROVE  Tells(i)'
    <3>1. WillTell(req[r], i, records[i], exports[i])
      BY <1>1, <1>3, <2>1, WillTellStill DEF Told, GoesOn
    <3>2. Alive(i) /\ req[r].record.entries = Record(i).entries
      BY <1>1, <3>1 DEF WillTell, Alive, Record
    <3>3. Render(req[r].record) = Render(Record(i))
      BY <3>2, RenderIs
    <3>4. Alive(i)' /\ Render(Record(i))' = Render(Record(i))
      BY <1>2, <3>2 DEF Alive, Record, Render, Lines
    <3>q. QED
      BY <1>2, <3>3, <3>4 DEF Tells
  <2>2. AtExport(req[r], i) /\ ~AtExport(next, i)
    BY <1>1, <1>3
  <2>q. QED
    BY <1>1, <1>2, <2>1, <2>2, ExportEnds DEF Told
<1>5. ExportAt(j)'
  <2>1. ASSUME <<"export", j>> \notin unsure'
        PROVE  WillTell(next, j, records'[j], exports'[j])
    <3>1. WillTell(req[r], j, records[j], exports[j])
      BY <1>1, <1>3, <2>1, WillTellStill DEF Told, GoesOn
    <3>2. ~records'[j].alive
      BY <1>1, <1>2, <3>1 DEF WillTell
    <3>q. QED
      BY <1>1, <1>2, <3>2 DEF WillTell
  <2>q. QED
    BY <1>1, <1>2, <1>3, <2>1, ExportTurns DEF Told
<1>6. ASSUME NEW l \in Ids \ {i, j}
      PROVE  ExportAt(l)'
  <2>1. SameFile(l)
    BY <1>2, SameRecordSameFile
  <2>2. ~AtExport(req[r], l) /\ ~AtExport(next, l)
    BY <1>3
  <2>q. QED
    BY <1>1, <2>1, <2>2, ExportStays, ExportsAt DEF Told
<1>q. QED
  BY <1>4, <1>5, <1>6, EachTells

\* A request at the copies leaves the exports alone when it starts ...
LEMMA StartsTells ==
    ASSUME Told, NEW r \in Requests, NEW i \in Ids, Starts(r, i)
    PROVE  ExportInv'
<1>1. PICK next : GoesOn(r, next) /\ ARequest(next, keys) /\ next.op \in {"sync", "delete"}
  BY DEF Starts
<1>2. /\ req[r] = Idle /\ records' = records /\ exports' = exports /\ library' = library
  BY DEF Starts, Inside
<1>3. \A j : ~AtExport(req[r], j) /\ ~AtExport(next, j)
  BY <1>1, <1>2, IdleIsRequest, AtNoExport
<1>q. QED
  BY <1>1, <1>2, <1>3, OffExportTells

\* ... and when it ends.
LEMMA QuitsTells ==
    ASSUME Told, NEW r \in Requests, NEW i \in Ids, Quits(r, i)
    PROVE  ExportInv'
<1>1. /\ req[r].op \in {"sync", "delete", "uncopy"} /\ req[r].ids = {i} /\ GoesOn(r, Idle)
      /\ records' = records /\ exports' = exports /\ library' = library
      /\ ARequest(req[r], keys)
  BY DEF Quits, Inside, Told, TypeInv
<1>2. \A j : ~AtExport(Idle, j)
  BY IdleIsRequest, AtNoExport
<1>3. CASE req[r].op \in {"sync", "delete"}
  <2>1. \A j : ~AtExport(req[r], j)
    BY <1>1, <1>3, AtNoExport
  <2>q. QED
    BY <1>1, <1>2, <2>1, OffExportTells
<1>4. CASE req[r].op = "uncopy"
  <2>1. AtExport(req[r], i) /\ \A j : AtExport(req[r], j) => j = i
    BY <1>1, <1>4, OnlyAtExport
  <2>2. ExportAt(i)'
    <3>1. ASSUME <<"export", i>> \notin unsure'
          PROVE  Tells(i)'
      <4>1. WillTell(req[r], i, records[i], exports[i])
        BY <1>1, <2>1, <3>1, WillTellStill DEF Told, GoesOn
      <4>q. QED
        BY <1>1, <1>4, <4>1 DEF WillTell, Alive, Tells
    <3>q. QED
      BY <1>1, <1>2, <2>1, <3>1, ExportEnds DEF Told, ExportInv
  <2>3. ASSUME NEW j \in Ids \ {i}
        PROVE  ExportAt(j)'
    <3>1. SameFile(j)
      BY <1>1, SameRecordSameFile
    <3>q. QED
      BY <1>1, <1>2, <2>1, <3>1, ExportStays, ExportsAt DEF Told
  <2>q. QED
    BY <2>2, <2>3, EachTells
<1>q. QED
  BY <1>1, <1>3, <1>4

\* So does a look at an account ...
LEMMA FindsTells ==
    ASSUME Told, NEW r \in Requests, NEW i \in Ids, NEW a \in Accounts, Finds(r, i, a)
    PROVE  ExportInv'
<1>1. PICK next : GoesOn(r, next) /\ ARequest(next, keys) /\ next.op = "sync"
  BY DEF Finds
<1>2. /\ req[r].op = "sync" /\ ARequest(req[r], keys)
      /\ records' = records /\ exports' = exports /\ library' = library
  BY DEF Finds, Inside, Told, TypeInv
<1>3. \A j : ~AtExport(req[r], j) /\ ~AtExport(next, j)
  BY <1>1, <1>2, AtNoExport
<1>q. QED
  BY <1>1, <1>2, <1>3, OffExportTells

\* ... its state recorded ...
LEMMA RecordsTells ==
    ASSUME Told, NEW r \in Requests, NEW i \in Ids, NEW a, NEW state, Records(r, i, a, state)
    PROVE  ExportInv'
<1>1. PICK next : /\ GoesOn(r, next) /\ ARequest(next, keys')
                  /\ RecordsState(next, req[r], a, state)
  BY DEF Records
<1>2. /\ req[r].op = "sync" /\ ARequest(req[r], keys)
      /\ records' = records /\ exports' = exports /\ library' = library
  BY DEF Records, Told, TypeInv
<1>3. \A j : ~AtExport(req[r], j) /\ ~AtExport(next, j)
  BY <1>1, <1>2, AtNoExport DEF RecordsState
<1>q. QED
  BY <1>1, <1>2, <1>3, OffExportTells

\* ... and the end of a sync, which changes no entry.
LEMMA SavesTells ==
    ASSUME Told, NEW r \in Requests, NEW i \in Ids, Saves(r, i)
    PROVE  ExportInv'
<1>1. /\ req[r].op = "sync" /\ ARequest(req[r], keys) /\ GoesOn(r, Idle)
      /\ exports' = exports /\ library' = library
  BY DEF Saves, Told, TypeInv
<1>2. \A j : ~AtExport(req[r], j) /\ ~AtExport(Idle, j)
  BY <1>1, IdleIsRequest, AtNoExport
<1>3. \A j \in Ids : \/ records'[j] = records[j]
                     \/ Alive(j) /\ Alive(j)' /\ records'[j].entries = records[j].entries
  BY DEF Saves, Told, TypeInv, ARecord, Alive, Record
<1>q. QED
  BY <1>1, <1>2, <1>3, OffExportTells

\* A deletion deletes the export ...
LEMMA DeletesTells ==
    ASSUME Told, NEW r \in Requests, NEW i \in Ids, Deletes(r, i)
    PROVE  ExportInv'
<1>1. PICK next : /\ GoesOn(r, next) /\ ARequest(next, keys)
                  /\ next.op = "uncopy" /\ next.ids = {i}
  BY DEF Deletes
<1>2. /\ req[r].op = "delete" /\ ARequest(req[r], keys)
      /\ records'[i] = Gone /\ library' = library
      /\ AnExport(exports'[i]) /\ (~exports'[i].failed => exports'[i].file = <<>>)
      /\ \A j \in Ids \ {i} : records'[j] = records[j] /\ exports'[j] = exports[j]
  <2>1. PICK e \in Removals(exports[i]) : exports' = [exports EXCEPT ![i] = e]
    BY DEF Deletes
  <2>2. AnExport(e) /\ (~e.failed => e.file = <<>>)
    BY RemovingIs DEF Told, ExportInv
  <2>3. exports'[i] = e /\ \A j \in Ids \ {i} : exports'[j] = exports[j]
    BY <2>1 DEF Told, TypeInv
  <2>q. QED
    BY <2>2, <2>3 DEF Deletes, Told, TypeInv
<1>3. /\ \A j : ~AtExport(req[r], j)
      /\ AtExport(next, i) /\ \A j : AtExport(next, j) => j = i
  BY <1>1, <1>2, AtNoExport, OnlyAtExport
<1>4. ExportAt(i)'
  <2>1. WillTell(next, i, records'[i], exports'[i])
    BY <1>1, <1>2 DEF WillTell, Gone
  <2>q. QED
    BY <1>1, <1>2, <1>3, <2>1, ExportTurns DEF Told
<1>5. ASSUME NEW j \in Ids \ {i}
      PROVE  ExportAt(j)'
  <2>1. SameFile(j)
    BY <1>2, SameRecordSameFile
  <2>q. QED
    BY <1>1, <1>3, <2>1, ExportStays, ExportsAt DEF Told
<1>q. QED
  BY <1>4, <1>5, EachTells

\* ... a merge that takes its source away leaves both to its request ...
LEMMA MergesAwayTells ==
    ASSUME Told, NEW r \in Requests, NEW i \in Ids, NEW j \in Ids, MergesAway(r, i, j)
    PROVE  ExportInv'
<1>1. PICK x, next :
        /\ ARecord(x, keys)
        /\ records' = [records EXCEPT ![i] = x, ![j] = Gone]
        /\ GoesOn(r, next) /\ ARequest(next, keys)
        /\ next.op = "merged" /\ next.ids = {i, j} /\ next.source = j /\ next.into = i
        /\ next.record = x
  BY DEF MergesAway
<1>2. /\ req[r].op = "delete" /\ ARequest(req[r], keys) /\ i # j
      /\ exports' = exports /\ library' = library
  BY DEF MergesAway, Told, TypeInv
<1>3. /\ records'[i] = x /\ records'[j] = Gone
      /\ \A l \in Ids \ {i, j} : records'[l] = records[l]
  BY <1>1, <1>2 DEF Told, TypeInv
<1>4. /\ \A l : ~AtExport(req[r], l)
      /\ \A l : AtExport(next, l) <=> l \in {i, j}
  BY <1>1, <1>2, AtNoExport, HoldsIs
<1>5. ASSUME NEW l \in {i, j}
      PROVE  ExportAt(l)'
  <2>1. WillTell(next, l, records'[l], exports'[l])
    BY <1>1, <1>2, <1>3 DEF WillTell, Gone, ARecord
  <2>q. QED
    BY <1>1, <1>2, <1>4, <2>1, ExportTurns DEF Told, ExportInv
<1>6. ASSUME NEW l \in Ids \ {i, j}
      PROVE  ExportAt(l)'
  <2>1. SameFile(l)
    BY <1>2, <1>3, SameRecordSameFile
  <2>2. ~AtExport(req[r], l) /\ ~AtExport(next, l)
    BY <1>4
  <2>q. QED
    BY <1>1, <2>1, <2>2, ExportStays, ExportsAt DEF Told
<1>q. QED
  BY <1>5, <1>6, EachTells

\* ... and the deletion of the copies leaves it deleted.
LEMMA UncopiesTells ==
    ASSUME Told, NEW r \in Requests, NEW i \in Ids, NEW a \in Accounts, Uncopies(r, i, a)
    PROVE  ExportInv'
<1>1. PICK next : /\ GoesOn(r, next) /\ ARequest(next, keys)
                  /\ next.op = "uncopy" /\ next.ids = {i}
  BY DEF Uncopies
<1>2. /\ req[r].op = "uncopy" /\ req[r].ids = {i} /\ ARequest(req[r], keys)
      /\ records' = records /\ exports' = exports /\ library' = library
  BY DEF Uncopies, Told, TypeInv
<1>3. /\ AtExport(req[r], i) /\ \A j : AtExport(req[r], j) => j = i
      /\ AtExport(next, i) /\ \A j : AtExport(next, j) => j = i
  BY <1>1, <1>2, OnlyAtExport
<1>4. ExportAt(i)'
  <2>1. ASSUME <<"export", i>> \notin unsure'
        PROVE  WillTell(next, i, records'[i], exports'[i])
    <3>1. WillTell(req[r], i, records[i], exports[i])
      BY <1>1, <1>3, <2>1, WillTellStill DEF Told, GoesOn
    <3>q. QED
      BY <1>1, <1>2, <3>1 DEF WillTell
  <2>q. QED
    BY <1>1, <1>2, <1>3, <2>1, ExportTurns DEF Told, ExportInv
<1>5. ASSUME NEW j \in Ids \ {i}
      PROVE  ExportAt(j)'
  <2>1. SameFile(j)
    BY <1>2, SameRecordSameFile
  <2>q. QED
    BY <1>1, <1>3, <2>1, ExportStays, ExportsAt DEF Told
<1>q. QED
  BY <1>4, <1>5, EachTells

\* What happens on Plex itself.
LEMMA ElsewhereTells ==
    ASSUME Told, UNCHANGED <<records, exports, library, req>>, unsure \subseteq unsure'
    PROVE  ExportInv'
<1>1. SUFFICES ASSUME NEW r \in Requests
               PROVE  ExportInv'
  <2>1. CASE Requests = {}
    BY <2>1 DEF Told, ExportInv, ExportTells, Quiet, Alive, Record, Render, Lines
  <2>q. QED
    BY <2>1
<1>2. GoesOn(r, req[r])
  BY DEF GoesOn, Told, TypeInv, OverlapInv
<1>q. QED
  BY <1>2, OffExportTells

-----------------------------------------------------------------------------
(* The invariant.                                                          *)

\* What a step of a request keeps.
Stands == Kept' /\ ExportInv'

\* What an edit does.
LEMMA EditingDoes ==
    ASSUME TypeInv, NEW r \in Requests, NEW i \in Ids, Editing(r, i)
    PROVE  \/ \E x : Writes(r, i, x)
           \/ Looks(r)
           \/ ComesLate(r, i)
           \/ Paints(i)
<1>1. ASSUME NEW items, NEW im, Create(r, i, items, im)
      PROVE  \E x : Writes(r, i, x)
  BY <1>1, CreateDoes
<1>2. ASSUME ImportCover(r, i)
      PROVE  (\E x : Writes(r, i, x)) \/ ComesLate(r, i)
  BY <1>2, ImportCoverDoes
<1>3. ASSUME NEW items, NEW at, AddTracks(r, i, items, at)
      PROVE  \E x : Writes(r, i, x)
  BY <1>3, AddTracksDoes
<1>4. ASSUME NEW targets \in SUBSET Users, Retarget(r, i, targets)
      PROVE  \E x : Writes(r, i, x)
  BY <1>4, RetargetDoes
<1>5. ASSUME Check(r, i)
      PROVE  Looks(r)
  BY <1>5, CheckDoes
<1>6. ASSUME NEW uid, RemoveEntry(r, i, uid)
      PROVE  (\E x : Writes(r, i, x)) \/ Looks(r)
  BY <1>6, RemoveEntryDoes
<1>7. ASSUME NEW uid, NEW item, ResolveEntry(r, i, uid, item)
      PROVE  (\E x : Writes(r, i, x)) \/ Looks(r)
  BY <1>7, ResolveEntryDoes
<1>8. ASSUME NEW uids, Reorder(r, i, uids)
      PROVE  (\E x : Writes(r, i, x)) \/ Looks(r)
  BY <1>8, ReorderDoes
<1>9. ASSUME NEW image, Cover(r, i, image)
      PROVE  Paints(i)
  BY <1>9, CoverDoes
<1>10. \/ \E items, im : Create(r, i, items, im)
       \/ ImportCover(r, i)
       \/ \E items, at : AddTracks(r, i, items, at)
       \/ \E targets \in SUBSET Users : Retarget(r, i, targets)
       \/ Check(r, i)
       \/ \E uid : RemoveEntry(r, i, uid)
       \/ \E uid, item : ResolveEntry(r, i, uid, item)
       \/ \E uids : Reorder(r, i, uids)
       \/ \E image : Cover(r, i, image)
  BY Zenon DEF Editing, SetArtwork, DeleteArtwork
<1>q. QED
  BY <1>1, <1>2, <1>3, <1>4, <1>5, <1>6, <1>7, <1>8, <1>9, <1>10

\* An edit keeps the invariant.
LEMMA EditingStands ==
    ASSUME Kept, Told, NEW r \in Requests, NEW i \in Ids, Editing(r, i)
    PROVE  Stands
<1>1. (\E x : Writes(r, i, x)) \/ Looks(r) \/ ComesLate(r, i) \/ Paints(i)
  BY EditingDoes DEF Kept
<1>q. QED
  BY <1>1, WritesStands, WritesTells, LooksStands, LooksTells, ComesLateStands, ComesLateTells,
     PaintsStands, PaintsTells DEF Stands

\* A sync does, at one account.
LEMMA SyncingStands ==
    ASSUME Kept, Told, NEW r \in Requests, NEW i \in Ids, NEW a \in Accounts,
           Look(r, i, a) \/ PushNew(r, i, a) \/ PushInPlace(r, i, a) \/ Detarget(r, i, a)
    PROVE  Stands
<1>1. \/ Finds(r, i, a) \/ Keeps(r, i, a) \/ Drops(r, i, a)
      \/ a # Nowhere /\ (Empties(r, i, a) \/ Makes(r, i, a) \/ Replaces(r, i, a))
  <2>1. CASE Look(r, i, a)
    BY <2>1, LookDoes DEF Kept
  <2>2. CASE PushNew(r, i, a)
    <3>1. a # Nowhere
      BY <2>2 DEF PushNew
    <3>q. QED
      BY <2>2, <3>1, PushNewDoes DEF Kept
  <2>3. CASE PushInPlace(r, i, a)
    <3>1. a # Nowhere
      BY <2>3 DEF PushInPlace
    <3>q. QED
      BY <2>3, <3>1, PushInPlaceDoes DEF Kept
  <2>4. CASE Detarget(r, i, a)
    BY <2>4, DetargetDoes DEF Kept
  <2>q. QED
    BY <2>1, <2>2, <2>3, <2>4
<1>2. ASSUME NEW state, Records(r, i, a, state)
      PROVE  ExportInv'
  BY <1>2, RecordsTells
<1>3. CASE Finds(r, i, a)
  BY <1>3, FindsStands, FindsTells DEF Stands
<1>4. CASE Keeps(r, i, a)
  BY <1>2, <1>4, KeepsStands DEF Stands, Keeps
<1>5. CASE Drops(r, i, a)
  BY <1>2, <1>5, DropsStands DEF Stands, Drops
<1>6. CASE a # Nowhere /\ Empties(r, i, a)
  BY <1>2, <1>6, EmptiesStands DEF Stands, Empties
<1>7. CASE a # Nowhere /\ Makes(r, i, a)
  <2>1. Kept'
    BY <1>7, MakesStands
  <2>2. \E state : Records(r, i, a, state)
    BY <1>7, Zenon DEF Makes
  <2>q. QED
    BY <1>2, <2>1, <2>2 DEF Stands
<1>8. CASE a # Nowhere /\ Replaces(r, i, a)
  <2>1. Kept'
    BY <1>8, ReplacesStands
  <2>2. \E state : Records(r, i, a, state)
    BY <1>8, Zenon DEF Replaces
  <2>q. QED
    BY <1>2, <2>1, <2>2 DEF Stands
<1>q. QED
  BY <1>1, <1>3, <1>4, <1>5, <1>6, <1>7, <1>8

\* So does every request at the copies.
LEMMA CopyingStands ==
    ASSUME Kept, Told, NEW r \in Requests, NEW i \in Ids, Copying(r, i)
    PROVE  Stands
<1>t. TypeInv /\ OverlapInv
  BY DEF Kept
<1>1. ASSUME NEW j \in Ids, Starts(r, j)
      PROVE  Stands
  BY <1>1, StartsStands, StartsTells DEF Stands
<1>2. ASSUME NEW j \in Ids, Quits(r, j)
      PROVE  Stands
  BY <1>2, QuitsStands, QuitsTells DEF Stands
<1>3. CASE StartSync(r, i) \/ StartDelete(r, i)
  BY <1>t, <1>1, <1>3, StartSyncDoes, StartDeleteDoes
<1>4. CASE SyncRefused(r, i)
  BY <1>t, <1>2, <1>4, SyncRefusedDoes
<1>5. CASE EndSync(r, i)
  BY <1>t, <1>2, <1>5, EndSyncDoes, SavesStands, SavesTells DEF Stands
<1>6. ASSUME NEW a \in Accounts, Uncopy(r, i, a)
      PROVE  Stands
  BY <1>t, <1>2, <1>6, UncopyDoes, UncopiesStands, UncopiesTells DEF Stands
<1>7. CASE Delete(r, i)
  BY <1>t, <1>2, <1>7, DeleteDoes, DeletesStands, DeletesTells DEF Stands
<1>8. ASSUME NEW j \in Ids, Merge(r, i, j)
      PROVE  Stands
  BY <1>t, <1>8, MergeDoes, WritesStands, WritesTells DEF Stands
<1>9. ASSUME NEW j \in Ids, StartMergeAway(r, i, j)
      PROVE  Stands
  BY <1>t, <1>1, <1>9, StartMergeAwayDoes
<1>10. ASSUME NEW j \in Ids, MergeAway(r, i, j)
       PROVE  Stands
  BY <1>t, <1>2, <1>10, MergeAwayDoes, MergesAwayStands, MergesAwayTells DEF Stands
<1>q. QED
  BY <1>3, <1>4, <1>5, <1>6, <1>7, <1>8, <1>9, <1>10, SyncingStands DEF Copying

\* So do the requests that write exports.
LEMMA WritingStands ==
    ASSUME Kept, Told, NEW r \in Requests,
           \/ Export(r) \/ Reexport(r) \/ EndUncopy(r) \/ MergeExports(r)
           \/ \E item \in Items : DropTrack(r, item)
    PROVE  Stands
<1>1. CASE Export(r)
  BY <1>1, ExportStands, ExportingTells DEF Stands
<1>2. CASE Reexport(r)
  BY <1>2, ReexportStands, ReexportTells DEF Stands
<1>3. CASE EndUncopy(r)
  BY <1>3, EndUncopyDoes, QuitsStands, QuitsTells DEF Stands, Kept
<1>4. CASE MergeExports(r)
  <2>1. Kept'
    BY <1>4, MergeExportsStands
  <2>2. ExportInv'
    BY <1>4, MergeExportsTells
  <2>q. QED
    BY <2>1, <2>2 DEF Stands
<1>5. ASSUME NEW item \in Items, DropTrack(r, item)
      PROVE  Stands
  BY <1>5, DropTrackStands, DropTrackTells DEF Stands
<1>q. QED
  BY <1>1, <1>2, <1>3, <1>4, <1>5

\* So does what happens on Plex itself.
LEMMA ElsewhereStands ==
    ASSUME Kept, Told, NEW a \in Accounts, NEW p \in plex[a], NEW q \in plex[a],
           Vanish(a, p) \/ Rebuild(a, p, q)
    PROVE  Stands
<1>1. UNCHANGED <<records, exports, library, req>> /\ unsure \subseteq unsure'
  BY DEF Vanish, Rebuild, disk
<1>2. ExportInv'
  BY <1>1, ElsewhereTells
<1>q. QED
  BY <1>2, VanishStands, RebuildStands DEF Stands

\* Each account has a first key of its own, the accounts being finite in number.
LEMMA FirstKeysAre ==
    /\ Cardinality(Accounts) \in Nat
    /\ FirstKeys \in [Accounts -> 2..(Cardinality(Accounts) + 1)]
    /\ \A a, b \in Accounts : a # b => FirstKeys[a] # FirstKeys[b]
<1> DEFINE n == Cardinality(Accounts)
<1>1. IsFiniteSet(Accounts)
  <2>1. IsFiniteSet({"admin"})
    BY FS_Singleton
  <2>q. QED
    BY <2>1, FS_Union, UsersAssumption DEF Accounts
<1>2. n \in Nat /\ ExistsBijection(1..n, Accounts)
  BY <1>1, FS_CardinalityType
<1>3. PICK g : g \in Bijection(1..n, Accounts)
  BY <1>2 DEF ExistsBijection
<1>4. /\ g \in [1..n -> Accounts] /\ \A a \in Accounts : \E k \in 1..n : g[k] = a
  BY <1>3 DEF Bijection, Injection, Surjection
<1> DEFINE f == [a \in Accounts |-> (CHOOSE k \in 1..n : g[k] = a) + 1]
<1>5. \A a \in Accounts : f[a] \in 2..(n + 1) /\ g[f[a] - 1] = a
  <2>1. SUFFICES ASSUME NEW a \in Accounts
                 PROVE  f[a] \in 2..(n + 1) /\ g[f[a] - 1] = a
    OBVIOUS
  <2> DEFINE k == CHOOSE k \in 1..n : g[k] = a
  <2>2. k \in 1..n /\ g[k] = a
    BY <1>4
  <2>3. f[a] = k + 1
    OBVIOUS
  <2> HIDE DEF k, f, n
  <2>4. k \in Int /\ 1 <= k /\ k <= n
    BY <2>2, <1>2
  <2>5. f[a] - 1 = k
    BY <2>3, <2>4
  <2>6. f[a] \in 2..(n + 1)
    BY <2>3, <2>4, <1>2
  <2>q. QED
    BY <2>2, <2>5, <2>6
<1>6. f \in [Accounts -> 2..(n + 1)]
  <2>1. f = [a \in Accounts |-> f[a]]
    OBVIOUS
  <2> HIDE DEF f, n
  <2>q. QED
    BY <2>1, <1>5
<1>7. \A a, b \in Accounts : a # b => f[a] # f[b]
  <2> HIDE DEF f, n
  <2>q. QED
    BY <1>5
<1>8. \E h \in [Accounts -> 2..(n + 1)] : \A a, b \in Accounts : a # b => h[a] # h[b]
  <2> HIDE DEF f, n
  <2>q. QED
    BY <1>6, <1>7
<1>q. QED
  BY <1>2, <1>8 DEF FirstKeys

\* What is known of the first state: playlist i lives, and has been synced to
\* every account or to none; the admin has a playlist of his own.
Fresh(i, synced) ==
    /\ \A j \in Ids : j # i => records[j] = Unborn
    /\ ARecord(records[i], keys)
    /\ \A a, k : InRecord(records[i], a, k) <=> synced /\ a \in Accounts /\ k = FirstKeys[a]
    /\ \A a \in Accounts : \A p \in plex[a] :
        \/ p.key = 1 /\ p.mark = NoMark /\ p.of = Someone
        \/ synced /\ p.key = FirstKeys[a] /\ p.mark = i /\ p.of = i
    /\ \A a \in Accounts : \A p, q \in plex[a] : p.of = q.of => p = q

\* The first state is so.
LEMMA InitFresh ==
    ASSUME Init
    PROVE  /\ \E i \in Ids, synced \in BOOLEAN : Fresh(i, synced)
           /\ TypeInv /\ meddled = 0
           /\ \A r \in Requests : req[r] = Idle
           /\ \A i \in Ids : AnExport(exports[i]) /\ Tells(i)
<1>1. PICK i \in Ids, item \in Items, image \in Images, synced \in BOOLEAN :
            /\ records = [j \in Ids |-> IF j # i THEN Unborn
                                       ELSE FirstRecord(item, image, synced)]
            /\ images = [j \in Ids |-> IF j = i /\ synced THEN {image} ELSE {}]
            /\ library = Items
            /\ exports = [j \in Ids |-> IF j = i THEN Written(FirstRecord(item, image, synced))
                                        ELSE NoFile]
            /\ plex = [a \in Accounts |->
                    (IF a = "admin" THEN {Stranger(1)} ELSE {})
                        \union (IF synced THEN {Copy(FirstKeys[a], i, image)} ELSE {})]
            /\ keys = Cardinality(Accounts) + 1
            /\ req = [r \in Requests |-> Idle]
            /\ started = 0 /\ faults = 0 /\ meddled = 0 /\ unsure = {}
  BY Zenon DEF Init
<1> DEFINE y == FirstRecord(item, image, synced)
<1> DEFINE states == [a \in Accounts |-> State(FirstKeys[a], image, "ok")]
<1>2. /\ keys \in Nat /\ 1 <= keys /\ \A a \in Accounts : FirstKeys[a] \in 2..keys
      /\ \A a, b \in Accounts : a # b => FirstKeys[a] # FirstKeys[b]
  <2>1. keys = Cardinality(Accounts) + 1
    BY <1>1
  <2>q. QED
    BY <2>1, FirstKeysAre
<1>3. /\ DOMAIN y = {"alive", "entries", "targets", "plex", "art"} /\ y.alive
      /\ y.targets \subseteq Users /\ y.plex = IF synced THEN states ELSE <<>>
  BY DEF NewRecord, FirstRecord
<1>4. /\ DOMAIN states = Accounts
      /\ \A a \in Accounts : /\ states[a].key = FirstKeys[a]
                             /\ states[a].status = "ok"
  BY DEF State
<1>5. DOMAIN <<>> = {}
  OBVIOUS
<1>6. AStates(y.plex, keys) /\ Present(y.plex)
  <2> HIDE DEF y, states
  <2>1. CASE synced
    BY <2>1, <1>2, <1>3, <1>4 DEF AStates, Present
  <2>2. CASE ~synced
    BY <2>2, <1>3, <1>5 DEF AStates, Present
  <2>q. QED
    BY <2>1, <2>2
<1>7. ARecord(y, keys)
  <2> HIDE DEF y, states
  <2>q. QED
    BY <1>3, <1>6 DEF ARecord
<1>8. /\ records[i] = y /\ \A j \in Ids : j # i => records[j] = Unborn
      /\ records = [j \in Ids |-> records[j]]
  BY <1>1
<1>9. \A a, k : InRecord(y, a, k) <=> synced /\ a \in Accounts /\ k = FirstKeys[a]
  <2> HIDE DEF y, states
  <2>1. CASE synced
    BY <2>1, <1>3, <1>4 DEF InRecord
  <2>2. CASE ~synced
    BY <2>2, <1>3, <1>5 DEF InRecord
  <2>q. QED
    BY <2>1, <2>2
<1>10. ASSUME NEW a \in Accounts, NEW p \in plex[a]
       PROVE  p = Stranger(1) \/ (synced /\ p = Copy(FirstKeys[a], i, image))
  BY <1>1, <1>10
<1>11. ASSUME NEW a \in Accounts, NEW p \in plex[a]
       PROVE  /\ ACopy(p, keys)
              /\ \/ p.key = 1 /\ p.mark = NoMark /\ p.of = Someone
                 \/ synced /\ p.key = FirstKeys[a] /\ p.mark = i /\ p.of = i
  BY <1>2, <1>10, <1>11 DEF Stranger, Copy, ACopy
<1>12. ASSUME NEW a \in Accounts, NEW p \in plex[a], NEW q \in plex[a], p.of = q.of
       PROVE  p = q
  <2>1. i # Someone
    BY IdsAssumption DEF Someone
  <2>2. Stranger(1).of = Someone /\ Copy(FirstKeys[a], i, image).of = i
    BY DEF Stranger, Copy
  <2>q. QED
    BY <1>10, <1>12, <2>1, <2>2
<1>13. Fresh(i, synced)
  <2> HIDE DEF y, states
  <2>q. QED
    BY <1>7, <1>8, <1>9, <1>11, <1>12 DEF Fresh
<1>14. TypeInv
  <2>1. exports = [j \in Ids |-> exports[j]] /\ plex = [a \in Accounts |-> plex[a]]
    BY <1>1
  <2>2. req = [r \in Requests |-> req[r]] /\ \A r \in Requests : req[r] = Idle
    BY <1>1
  <2>3. \A r \in Requests : ARequest(req[r], keys)
    BY <2>2, IdleIsRequest
  <2> HIDE DEF y, states
  <2>q. QED
    BY <1>1, <1>2, <1>7, <1>8, <1>11, <2>1, <2>2, <2>3 DEF TypeInv
<1>15. ASSUME NEW j \in Ids
       PROVE  AnExport(exports[j]) /\ Tells(j)
  <2>1. CASE j # i
    <3>1. ~Alive(j)
      BY <2>1, <1>8 DEF Alive, Unborn
    <3>2. exports[j] = NoFile
      BY <1>1, <2>1
    <3>q. QED
      BY <3>1, <3>2 DEF NoFile, AnExport, Tells
  <2>2. CASE j = i
    <3>1. Alive(i) /\ Record(i) = y
      BY <1>3, <1>8 DEF Alive, Record
    <3>2. exports[i] = Written(y)
      BY <1>1
    <3> HIDE DEF y
    <3>q. QED
      BY <2>2, <3>1, <3>2 DEF Written, AnExport, Tells
  <2>q. QED
    BY <2>1, <2>2
<1>16. \A r \in Requests : req[r] = Idle
  BY <1>1
<1> HIDE DEF y, states
<1>q. QED
  BY <1>1, <1>13, <1>14, <1>15, <1>16

\* The first state meets the invariant.
LEMMA InitInv == Init => IInv
<1>1. SUFFICES ASSUME Init
               PROVE  IInv
  OBVIOUS
<1>2. PICK i \in Ids, synced \in BOOLEAN : Fresh(i, synced)
  BY <1>1, InitFresh
<1>3. TypeInv /\ meddled = 0 /\ \A r \in Requests : req[r] = Idle
  BY <1>1, InitFresh
<1>4. Holds(Idle) = {} /\ Idle.op = "idle"
  BY DEF Holds, Idle
<1>5. \A r \in Requests, j \in Ids : ~AtCopies(req[r], j) /\ ~AtExport(req[r], j)
  BY <1>3, <1>4 DEF AtCopies, AtExport
<1>6. \A j \in Ids : Settled(j)
  BY <1>5 DEF Settled
<1>7. ASSUME NEW j \in Ids, NEW a, NEW k
      PROVE  InRecord(records[j], a, k) <=>
                    j = i /\ synced /\ a \in Accounts /\ k = FirstKeys[a]
  BY <1>2 DEF Fresh, InRecord, Unborn
<1>8. ASSUME NEW j \in Ids, NEW a, NEW k
      PROVE  /\ Recalls(j, a, k) <=> j = i /\ synced /\ a \in Accounts /\ k = FirstKeys[a]
             /\ Knows(j, a, k) <=> j = i /\ synced /\ a \in Accounts /\ k = FirstKeys[a]
  BY <1>5, <1>6, <1>7 DEF Recalls, Knows
<1>9. ASSUME NEW a \in Accounts, NEW p \in plex[a]
      PROVE  \/ p.key = 1 /\ p.mark = NoMark /\ p.of = Someone
             \/ synced /\ p.key = FirstKeys[a] /\ p.mark = i /\ p.of = i
  BY <1>2, <1>9 DEF Fresh
<1>10. \A a \in Accounts : FirstKeys[a] \in Int /\ FirstKeys[a] # 1
  BY FirstKeysAre
<1>11. Someone \notin Ids /\ NoMark \notin Ids
  BY IdsAssumption DEF Someone, NoMark
<1>12. OverlapInv
  BY <1>3, <1>4 DEF OverlapInv
<1>13. ExportInv
  BY <1>1, <1>5, InitFresh DEF ExportInv, ExportTells, Tells
<1>14. CopyInv
  <2>1. ASSUME NEW a \in Accounts, NEW p \in plex[a], NEW q \in plex[a], p # q
        PROVE  p.key # q.key /\ p.of # q.of
    <3>1. p.of # q.of
      BY <1>2, <2>1 DEF Fresh
    <3>2. p.key # q.key
      BY <1>9, <1>10, <2>1, <3>1
    <3>q. QED
      BY <3>1, <3>2
  <2>2. ASSUME NEW a \in Accounts, NEW p \in plex[a], p.mark \in Ids
        PROVE  Mixed(p.mark, p)
    BY <1>9, <1>11, <2>2 DEF Mixed
  <2>q. QED
    BY <2>1, <2>2, Zenon DEF CopyInv
<1>15. CarryInv
  BY <1>5 DEF CarryInv
<1>16. ReachInv
  <2>1. ASSUME NEW j \in Ids, NEW a \in Accounts, NEW p \in plex[a], p.of = j
        PROVE  \E k \in 0..keys : Knows(j, a, k) /\ (p.mark = j \/ p.key = k)
    <3>1. j = i /\ synced /\ p.key = FirstKeys[a]
      BY <1>9, <1>11, <2>1
    <3>2. Knows(j, a, p.key)
      BY <1>8, <3>1
    <3>3. p.key \in 0..keys
      BY <1>3 DEF TypeInv, ACopy
    <3>q. QED
      BY <3>2, <3>3
  <2>q. QED
    BY <2>1 DEF ReachInv
<1>17. ASSUME NEW j \in Ids, NEW a \in Accounts, NEW p \in plex[a],
              Recalls(j, a, p.key) \/ Knows(j, a, p.key)
       PROVE  p.of = j
  BY <1>8, <1>9, <1>10, <1>17
<1>18. KeyInv
  BY <1>17 DEF KeyInv, StrayKey
<1>19. FoundInv
  BY <1>3, <1>4 DEF FoundInv, HasFound
<1>20. QuietInv
  BY <1>9, <1>17 DEF QuietInv
<1>q. QED
  BY <1>3, <1>12, <1>13, <1>14, <1>15, <1>16, <1>18, <1>19, <1>20 DEF IInv

\* A step of the system keeps the invariant.
LEMMA NextStands ==
    ASSUME IInv, Next
    PROVE  IInv'
<1>1. Kept /\ Told
  BY DEF IInv, Kept, Copies, Told
<1>2. ASSUME NEW r \in Requests, NEW i \in Ids, Editing(r, i) \/ Copying(r, i)
      PROVE  Stands
  BY <1>1, <1>2, EditingStands, CopyingStands
<1>3. ASSUME NEW r \in Requests,
             \/ Export(r) \/ Reexport(r) \/ EndUncopy(r) \/ MergeExports(r)
             \/ \E item \in Items : DropTrack(r, item)
      PROVE  Stands
  BY <1>1, <1>3, WritingStands
<1>4. ASSUME NEW a \in Accounts, NEW p \in plex[a], NEW q \in plex[a],
             Vanish(a, p) \/ Rebuild(a, p, q)
      PROVE  Stands
  BY <1>1, <1>4, ElsewhereStands
<1>5. Stands
  BY <1>2, <1>3, <1>4, Zenon DEF Next
<1>q. QED
  BY <1>5 DEF Stands, IInv, Kept, Copies

\* So does a step that changes nothing.
LEMMA StutterStands ==
    ASSUME IInv, UNCHANGED vars
    PROVE  IInv'
<1>1. UNCHANGED <<records, exports, library, plex, keys, req, meddled, unsure>>
  BY DEF vars
<1>2. TypeInv' /\ OverlapInv'
  BY <1>1 DEF IInv, TypeInv, OverlapInv
<1>3. ExportInv'
  BY <1>1 DEF IInv, ExportInv, ExportTells, Quiet, Alive, Record, Render, Lines
<1>4. CopyInv' /\ CarryInv'
  BY <1>1 DEF IInv, CopyInv, Mixed, Traced, Sure, CarryInv, Alive, Record
<1>5. \A i, a, k : Knows(i, a, k)' = Knows(i, a, k) /\ Recalls(i, a, k)' = Recalls(i, a, k)
  BY <1>1 DEF Knows, Recalls, Settled
<1>6. ReachInv'
  BY <1>1, <1>5 DEF IInv, ReachInv, Traced, Sure
<1>7. KeyInv' /\ QuietInv'
  BY <1>1, <1>5 DEF IInv, KeyInv, QuietInv, Sure
<1>8. FoundInv'
  BY <1>1 DEF IInv, FoundInv, HasFound, Mixed, Traced, Sure
<1>q. QED
  BY <1>2, <1>3, <1>4, <1>6, <1>7, <1>8 DEF IInv

\* The invariant holds of every behaviour.
THEOREM Invariant == Spec => []IInv
<1>1. Init => IInv
  BY InitInv
<1>2. IInv /\ [Next]_vars => IInv'
  BY NextStands, StutterStands
<1>q. QED
  BY <1>1, <1>2, PTL DEF Spec

-----------------------------------------------------------------------------
(* What it promises.                                                       *)

\* When nothing that writes it is under way, the .m3u8 of a playlist is the
\* tracks it lists that the library still has, and a deleted one has none
\* (reexport.py), unless two writers overlapped or the last write failed.
THEOREM ExportsTell == Spec => []ExportTells
<1>1. IInv => ExportTells
  BY DEF IInv, ExportInv
<1>q. QED
  BY <1>1, Invariant, PTL

\* A traced playlist no request is at the copies of is known by its record alone.
LEMMA SettledIsReached ==
    ASSUME IInv
    PROVE  CopiesAreReachable
<1>1. SUFFICES ASSUME NEW a \in Accounts, NEW p \in plex[a], p.of \in Ids,
                      Undisturbed(p.of), <<"stamp", p.of>> \notin unsure
               PROVE  InReach(a, p)
  BY DEF CopiesAreReachable
<1>2. Traced(p.of)
  BY <1>1 DEF Undisturbed, Quiet, Sure, Traced
<1>3. \A r \in Requests : ~AtCopies(req[r], p.of)
  BY <1>1 DEF Undisturbed, Quiet, AtCopies
<1>4. PICK k \in 0..keys : Knows(p.of, a, k) /\ (p.mark = p.of \/ p.key = k)
  BY <1>1, <1>2 DEF IInv, ReachInv
<1>5. InRecord(records[p.of], a, k)
  BY <1>3, <1>4 DEF Knows
<1>q. QED
  BY <1>4, <1>5 DEF InReach, InRecord, Record

\* A copy MusicDrop made on Plex stays within reach of a later sync or deletion
\* (api/playlists.py, what is kept of a de-targeted account; plex/sync.py,
\* _safe_reconcile), with the excuses of CopiesAreReachable.
THEOREM CopiesStayReachable == Spec => []CopiesAreReachable
<1>1. IInv => CopiesAreReachable
  BY SettledIsReached
<1>q. QED
  BY <1>1, Invariant, PTL

\* Request r, at work on i, may take what is at hand for a copy of i.
Excused(r, p) ==
    /\ req'[r] # req[r]
    /\ \E i \in req[r].ids : i = p.of \/ {<<"key", i>>, <<"copies", i>>} \cap unsure # {}

\* What a rule of request r takes for a copy of its playlist is one, or is not
\* sure to be.
LEMMA TakenIsExcused ==
    ASSUME NEW r \in Requests, NEW i, req[r].ids = {i}, req'[r] # req[r], NEW p, Mixed(i, p)
    PROVE  Excused(r, p)
BY DEF Excused, Mixed, Sure

\* The next state of a request is the one it goes on to.
LEMMA NextRequest ==
    ASSUME TypeInv, NEW r \in Requests, NEW next, GoesOn(r, next)
    PROVE  req'[r] = next
BY DEF GoesOn, TypeInv

\* A copy of another playlist, or a stranger, that the rule to find ours picks.
LEMMA FoundIsMixed ==
    ASSUME IInv, NEW i \in Ids, NEW a \in Accounts, NEW key, Knows(i, a, key),
           NEW p \in FindOurs(plex[a], i, key)
    PROVE  Mixed(i, p)
<1>1. /\ p \in plex[a]
      /\ \/ p.mark = i
         \/ p.mark = NoMark /\ p.key = key /\ MarkedIn(plex[a], i) = {}
  BY FindOursIs DEF IInv, TypeInv
<1>2. CASE p.mark = i
  BY <1>1, <1>2 DEF IInv, CopyInv
<1>3. CASE p.mark = NoMark /\ p.key = key /\ MarkedIn(plex[a], i) = {}
  <2>1. p.of # i => ~Sure(i)
    BY <1>1, <1>3 DEF IInv, KeyInv, StrayKey
  <2>2. p.of # i /\ p.of \in Ids => ~Sure(p.of)
    <3>1. Knows(i, a, key) => Recalls(i, a, key)
      BY KnowsRecalls DEF IInv
    <3>q. QED
      BY <1>1, <1>3, <3>1 DEF IInv, KeyInv, StrayKey
  <2>q. QED
    BY <2>1, <2>2 DEF Mixed
<1>q. QED
  BY <1>1, <1>2, <1>3

\* No one else's playlist is taken by an update of what was found ...
LEMMA ReplacesSafely ==
    ASSUME IInv, NEW r \in Requests, NEW i \in Ids, NEW a \in Accounts, a # Nowhere,
           Replaces(r, i, a), NEW b \in Accounts, NEW p \in plex[b], p \notin plex'[b]
    PROVE  Excused(r, p)
<1>1. PICK f \in req[r].found : \E stamps, poster, state :
        /\ Records(r, i, a, state) /\ state.status # "absent" /\ state.key = f.key
        /\ plex' = [plex EXCEPT ![a] = Updated(@, f.key, i, stamps, poster)]
  BY Zenon DEF Replaces
<1>2. PICK stamps, poster, state :
        /\ Records(r, i, a, state)
        /\ plex' = [plex EXCEPT ![a] = Updated(@, f.key, i, stamps, poster)]
  BY <1>1, Zenon
<1>3. plex'[a] = Updated(plex[a], f.key, i, stamps, poster) /\ \A c \in Accounts \ {a} : plex'[c] = plex[c]
  BY <1>2 DEF IInv, TypeInv
<1>4. b = a /\ p.key = f.key
  BY <1>3 DEF Updated
<1>5. req[r].op = "sync" /\ req[r].ids = {i} /\ req[r].at = a
  BY <1>2 DEF Records, Replaces
<1>6. HasFound(req[r], i)
  BY DEF IInv, FoundInv
<1>7. Mixed(i, f) /\ p.of = f.of
  BY <1>1, <1>4, <1>5, <1>6 DEF HasFound
<1>8. Mixed(i, p)
  BY <1>7 DEF Mixed
<1>9. req'[r] # req[r]
  <2>1. PICK next : GoesOn(r, next) /\ RecordsState(next, req[r], a, state)
    BY <1>2 DEF Records
  <2>2. req'[r] = next /\ next.at = Nowhere
    BY <2>1, NextRequest DEF IInv, RecordsState
  <2>q. QED
    BY <1>5, <2>2
<1>q. QED
  BY <1>5, <1>8, <1>9, TakenIsExcused

\* ... nor by a deletion at an account no longer a target ...
LEMMA DropsSafely ==
    ASSUME IInv, NEW r \in Requests, NEW i \in Ids, NEW a \in Accounts,
           Drops(r, i, a), NEW b \in Accounts, NEW p \in plex[b], p \notin plex'[b]
    PROVE  Excused(r, p)
<1>1. PICK state : Records(r, i, a, state)
  BY DEF Drops
<1>2. /\ req[r].op = "sync" /\ req[r].ids = {i} /\ a \notin DOMAIN req[r].states
      /\ a \in DOMAIN req[r].snap.plex /\ ARecord(req[r].snap, keys) /\ keys \in Nat
  BY <1>1 DEF Drops, Records, ASync, IInv, TypeInv
<1>3. AtCopies(req[r], i)
  BY <1>2, HoldsIs DEF IInv, TypeInv
<1>4. Knows(i, a, PriorKey(req[r], a))
  BY <1>2, <1>3, PriorIs DEF Knows, KnownBy
<1>5. /\ plex'[a] = plex[a] \ FindOurs(plex[a], i, PriorKey(req[r], a))
      /\ \A c \in Accounts \ {a} : plex'[c] = plex[c]
  BY DEF Drops, Uncopied, IInv, TypeInv
<1>6. b = a /\ p \in FindOurs(plex[a], i, PriorKey(req[r], a))
  BY <1>5
<1>7. Mixed(i, p)
  BY <1>4, <1>6, FoundIsMixed
<1>8. req'[r] # req[r]
  <2>1. PICK next : GoesOn(r, next) /\ RecordsState(next, req[r], a, state)
    BY <1>1 DEF Records
  <2>2. req'[r] = next /\ a \in DOMAIN next.states
    BY <2>1, NextRequest DEF IInv, RecordsState
  <2>q. QED
    BY <1>2, <2>2
<1>q. QED
  BY <1>2, <1>7, <1>8, TakenIsExcused

\* ... nor by one for a deleted playlist.
LEMMA UncopiesSafely ==
    ASSUME IInv, NEW r \in Requests, NEW i \in Ids, NEW a \in Accounts,
           Uncopies(r, i, a), NEW b \in Accounts, NEW p \in plex[b], p \notin plex'[b]
    PROVE  Excused(r, p)
<1>1. PICK next : GoesOn(r, next) /\ next.done = req[r].done \union {a}
  BY DEF Uncopies
<1>2. /\ req[r].op = "uncopy" /\ req[r].ids = {i}
      /\ a \in DOMAIN req[r].snap.plex \ req[r].done
      /\ ARecord(req[r].snap, keys) /\ keys \in Nat
  BY DEF Uncopies, AnUncopy, IInv, TypeInv
<1>3. AtCopies(req[r], i)
  BY <1>2, HoldsIs DEF IInv, TypeInv
<1>4. Knows(i, a, PriorKey(req[r], a))
  BY <1>2, <1>3, PriorIs DEF Knows, KnownBy
<1>5. /\ plex[a] \ FindOurs(plex[a], i, PriorKey(req[r], a)) \subseteq plex'[a]
      /\ \A c \in Accounts \ {a} : plex'[c] = plex[c]
  BY DEF Uncopies, Uncopied, IInv, TypeInv
<1>6. b = a /\ p \in FindOurs(plex[a], i, PriorKey(req[r], a))
  BY <1>5
<1>7. Mixed(i, p)
  BY <1>4, <1>6, FoundIsMixed
<1>8. req'[r] # req[r]
  BY <1>1, <1>2, NextRequest DEF IInv
<1>q. QED
  BY <1>2, <1>7, <1>8, TakenIsExcused

\* A step keeps every copy where it is, or takes one it may.
Safe == \A a \in Accounts : \A p \in plex[a] :
            p \notin plex'[a] /\ meddled' = meddled => \E r \in Requests : Excused(r, p)

\* A step that leaves Plex alone is safe.
LEMMA SamePlexSafe == ASSUME plex' = plex PROVE Safe
BY DEF Safe

\* A push or a deletion at an account is safe.
LEMMA SyncingSafe ==
    ASSUME IInv, NEW r \in Requests, NEW i \in Ids, NEW a \in Accounts,
           Look(r, i, a) \/ PushNew(r, i, a) \/ PushInPlace(r, i, a) \/ Detarget(r, i, a)
    PROVE  Safe
<1>t. TypeInv /\ OverlapInv
  BY DEF IInv
<1>1. CASE Look(r, i, a) \/ PushNew(r, i, a)
  <2>1. Inside \/ (a # Nowhere /\ (Keeps(r, i, a) \/ Empties(r, i, a) \/ Makes(r, i, a)))
    <3>1. CASE Look(r, i, a)
      BY <1>t, <3>1, LookDoes DEF Finds, Keeps
    <3>2. CASE PushNew(r, i, a)
      <4>1. a # Nowhere
        BY <3>2 DEF PushNew
      <4>q. QED
        BY <1>t, <3>2, <4>1, PushNewDoes
    <3>q. QED
      BY <1>1, <3>1, <3>2
  <2>2. CASE Inside \/ Keeps(r, i, a) \/ Empties(r, i, a)
    BY <2>2, SamePlexSafe DEF Inside, Offside, Keeps, Empties
  <2>3. CASE Makes(r, i, a)
    <3>1. \E c : plex' = [plex EXCEPT ![a] = @ \union {c}]
      BY <2>3, Zenon DEF Makes
    <3>2. \A b \in Accounts : plex[b] \subseteq plex'[b]
      BY <1>t, <3>1 DEF TypeInv
    <3>q. QED
      BY <3>2 DEF Safe
  <2>q. QED
    BY <2>1, <2>2, <2>3
<1>2. CASE PushInPlace(r, i, a)
  <2>1. a # Nowhere
    BY <1>2 DEF PushInPlace
  <2>2. Keeps(r, i, a) \/ Empties(r, i, a) \/ Replaces(r, i, a)
    BY <1>t, <1>2, <2>1, PushInPlaceDoes
  <2>3. CASE Keeps(r, i, a) \/ Empties(r, i, a)
    BY <2>3, SamePlexSafe DEF Inside, Offside, Keeps, Empties
  <2>4. CASE Replaces(r, i, a)
    BY <2>1, <2>4, ReplacesSafely DEF Safe
  <2>q. QED
    BY <2>2, <2>3, <2>4
<1>3. CASE Detarget(r, i, a)
  <2>1. Drops(r, i, a) \/ Keeps(r, i, a)
    BY <1>t, <1>3, DetargetDoes
  <2>2. CASE Keeps(r, i, a)
    BY <2>2, SamePlexSafe DEF Inside, Offside, Keeps
  <2>3. CASE Drops(r, i, a)
    BY <2>3, DropsSafely DEF Safe
  <2>q. QED
    BY <2>1, <2>2, <2>3
<1>q. QED
  BY <1>1, <1>2, <1>3

\* So is whatever else a request does.
LEMMA CopyingSafe ==
    ASSUME IInv, NEW r \in Requests, NEW i \in Ids, Editing(r, i) \/ Copying(r, i)
    PROVE  Safe
<1>t. TypeInv /\ OverlapInv
  BY DEF IInv
<1>1. CASE Editing(r, i)
  BY <1>t, <1>1, EditingDoes, SamePlexSafe
     DEF Writes, Looks, ComesLate, Paints, Offside
<1>2. ASSUME NEW a \in Accounts, Uncopy(r, i, a)
      PROVE  Safe
  <2>1. CASE Quits(r, i)
    BY <2>1, SamePlexSafe DEF Quits, Inside, Offside
  <2>2. CASE Uncopies(r, i, a)
    BY <2>2, UncopiesSafely DEF Safe
  <2>q. QED
    BY <1>t, <1>2, <2>1, <2>2, UncopyDoes
<1>3. CASE \/ StartSync(r, i) \/ SyncRefused(r, i) \/ EndSync(r, i)
           \/ StartDelete(r, i) \/ Delete(r, i)
           \/ \E j \in Ids : Merge(r, i, j) \/ StartMergeAway(r, i, j) \/ MergeAway(r, i, j)
  BY <1>3, SamePlexSafe
     DEF StartSync, SyncRefused, EndSync, StartDelete, Delete, Merge, StartMergeAway, MergeAway,
         Write
<1>q. QED
  BY <1>1, <1>2, <1>3, SyncingSafe DEF Copying

\* Every step is safe.
LEMMA StepIsSafe == ASSUME IInv, [Next]_vars PROVE Safe
<1>1. ASSUME NEW r \in Requests,
             \/ Export(r) \/ Reexport(r) \/ EndUncopy(r) \/ MergeExports(r)
             \/ \E item \in Items : DropTrack(r, item)
      PROVE  Safe
  BY <1>1, SamePlexSafe DEF Export, Reexport, EndUncopy, MergeExports, DropTrack
<1>2. ASSUME NEW a \in Accounts, NEW p \in plex[a], NEW q \in plex[a],
             Vanish(a, p) \/ Rebuild(a, p, q)
      PROVE  Safe
  <2>1. meddled' # meddled
    BY <1>2 DEF Vanish, Rebuild, Meddle, IInv, TypeInv
  <2>q. QED
    BY <2>1 DEF Safe
<1>3. CASE UNCHANGED vars
  BY <1>3, SamePlexSafe DEF vars
<1>4. CASE Next
  BY <1>1, <1>2, <1>4, CopyingSafe, Zenon DEF Next
<1>q. QED
  BY <1>3, <1>4

\* Nobody else's playlist, and no other playlist's copy, is changed or deleted
\* by a request (_find_our_playlist), but for one whose key a rebuild took away
\* before it had a marker, or that two requests had at once.
THEOREM StrangersStaySafe == Spec => StrangersAreSafe
<1>1. ASSUME IInv, [Next]_vars
      PROVE  [\A a \in Accounts : \A p \in plex[a] :
                p \notin plex'[a] /\ meddled' = meddled =>
                    \E r \in Requests : /\ req'[r] # req[r]
                                       /\ \E i \in req[r].ids :
                                            i = p.of \/ {<<"key", i>>, <<"copies", i>>} \cap unsure # {}]_vars
  BY <1>1, StepIsSafe DEF Safe, Excused
<1>q. QED
  BY <1>1, Invariant, PTL DEF Spec, StrangersAreSafe
=============================================================================
