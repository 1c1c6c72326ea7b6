------------------------------ MODULE PlexPush ------------------------------
(***************************************************************************)
(* One push of a playlist to one Plex account (plex/mapping.py, and the    *)
(* reconcile of plex/sync.py): the library tracks are matched to Plex      *)
(* tracks, then the rows of the Plex playlist are made to be those tracks  *)
(* in that order, one request at a time, never by deleting the playlist.   *)
(*                                                                         *)
(* Plex may answer a request and not do it, once, and any request may fail *)
(* on the wire.  Whether it holds one track twice is the server's own way  *)
(* (honours).                                                              *)
(***************************************************************************)
EXTENDS Integers, Sequences, SequencesExt, FiniteSets

CONSTANTS
    Inputs,        \* [section, specs, exists, rows, honours]: what a push may meet
    Strangers      \* pairs of artists whose names contradict each other

None == 0          \* no number, no length, no track
Tolerance == 2     \* seconds two lengths may differ by

VARIABLES
    input,         \* the push under way
    pc,            \* where it is
    rows,          \* Plex: the rows of our playlist, [id, key]
    seen,          \* the rows as this push last read them
    answer,        \* [matches, missing]: what the tracks resolved to
    collapsed,     \* indices of the occurrences Plex would not hold again
    todo,          \* requests still to be made: rows to remove, or moves
    fault          \* "none", or what went wrong on the way

vars == <<input, pc, rows, seen, answer, collapsed, todo, fault>>

-----------------------------------------------------------------------------
(* Matching library tracks to Plex tracks.                                 *)

ByPath(section, path) ==
    LET at == {i \in DOMAIN section : path \in section[i].locations}
    IN  IF at = {} THEN None
        ELSE section[CHOOSE i \in at : \A j \in at : j <= i].key

LengthsAgree(a, b) ==
    /\ None \notin {a, b}
    /\ a - b \in -Tolerance..Tolerance

\* Mutant: a claim is not looked at.
UnclaimedFree(section, at, spec, claimed) == at

\* The candidates no other item has claimed.  claimed: Plex key -> item id.
Free(section, at, spec, claimed) ==
    {i \in at : section[i].key \in DOMAIN claimed =>
                    claimed[section[i].key] = spec.item}

Missed(why) == [key |-> None, method |-> "none", why |-> why]
Found(section, i, how) == [key |-> section[i].key, method |-> how, why |-> ""]
Only(S) == CHOOSE x \in S : S = {x}

\* Same artist and title, narrowed by album and then by track number.
MetaMatch(section, spec, claimed) ==
    LET all == {i \in DOMAIN section : /\ section[i].artist = spec.artist
                                       /\ section[i].title = spec.title}
        free == Free(section, all, spec, claimed)
        sameAlbum == {i \in free : section[i].album = spec.album}
        pool == IF sameAlbum = {} THEN free ELSE sameAlbum
        numbered == {i \in pool : section[i].no = spec.no}
    IN  CASE "" \in {spec.artist, spec.title} \/ all = {} -> Missed("not_found")
          [] all # {} /\ free = {} -> Missed("claimed_by_other_track")
          [] Cardinality(free) = 1 -> Found(section, Only(free), "artist_title")
          [] Cardinality(free) > 1 /\ Cardinality(pool) = 1 ->
                Found(section, Only(pool), "artist_title")
          [] Cardinality(pool) > 1 /\ spec.no # None /\ Cardinality(numbered) = 1 ->
                Found(section, Only(numbered), "artist_title")
          [] OTHER -> Missed("ambiguous")

\* Same album and title, the length vouching and the artist not contradicting.
AlbumMatch(section, spec, claimed) ==
    LET vouched == {i \in DOMAIN section :
                        /\ section[i].album = spec.album
                        /\ section[i].title = spec.title
                        /\ LengthsAgree(section[i].length, spec.length)
                        /\ <<spec.artist, section[i].artist>> \notin Strangers}
        free == Free(section, vouched, spec, claimed)
    IN  CASE "" \in {spec.album, spec.title, spec.artist} \/ spec.length = None ->
                Missed("not_found")
          [] Cardinality(free) = 1 -> Found(section, Only(free), "album_length")
          [] Cardinality(free) > 1 -> Missed("ambiguous")
          [] OTHER -> Missed(IF vouched = {} THEN "not_found"
                             ELSE "claimed_by_other_track")

ResolveOne(section, spec, claimed) ==
    LET path == ByPath(section, spec.path)
        meta == MetaMatch(section, spec, claimed)
        album == AlbumMatch(section, spec, claimed)
    IN  CASE path # None -> [key |-> path, method |-> "path", why |-> ""]
          [] path = None /\ (meta.key # None \/ meta.why = "ambiguous") -> meta
          [] OTHER -> IF album.why = "not_found" /\ meta.why # "not_found"
                      THEN meta ELSE album

Claim(claimed, key, item) ==
    IF key = None \/ key \in DOMAIN claimed THEN claimed
    ELSE [k \in DOMAIN claimed \union {key} |-> IF k = key THEN item ELSE claimed[k]]

\* Every path in the list claims its track before any guess is made.
PathClaims(section, specs) ==
    FoldLeft(LAMBDA c, s : Claim(c, ByPath(section, s.path), s.item), <<>>, specs)

\* All the specs in order: what each resolved to, and the claims after it.
Resolved(section, specs) ==
    FoldLeft(LAMBDA r, s :
                LET one == ResolveOne(section, s, r.claimed)
                IN  [claimed |-> Claim(r.claimed, one.key, s.item),
                     all |-> Append(r.all, [item |-> s.item, got |-> one])],
             [claimed |-> PathClaims(section, specs), all |-> <<>>], specs).all

ResolveOrderedTracks(section, specs) ==
    LET all == Resolved(section, specs)
    IN  [matches |-> SelectSeq(all, LAMBDA m : m.got.key # None),
         missing |-> SelectSeq(all, LAMBDA m : m.got.key = None)]

-----------------------------------------------------------------------------
(* The rows of the playlist, and what is asked of them.                    *)

Keys(rs) == [i \in DOMAIN rs |-> rs[i].key]
Count(list, x) == Cardinality({i \in DOMAIN list : list[i] = x})
SameBag(a, b) == \A x \in ToSet(a) \union ToSet(b) : Count(a, x) = Count(b, x)
Repeats(list) == Len(list) # Cardinality(ToSet(list))

FirstOccurrences(list) ==
    FoldLeft(LAMBDA acc, x : IF x \in ToSet(acc) THEN acc ELSE Append(acc, x),
             <<>>, list)

Desired == [i \in DOMAIN answer.matches |-> answer.matches[i].got.key]

\* The desired keys Plex holds no row of, each once.
Absent == LET held == ToSet(Keys(seen))
          IN  SelectSeq(FirstOccurrences(Desired), LAMBDA k : k \notin held)

\* Mutant: the last row a key may keep counts as surplus.
GreedySurplusRows(rs, want) ==
    FoldLeft(LAMBDA acc, i :
                IF Count(SubSeq(Keys(rs), 1, i), rs[i].key) >= Count(want, rs[i].key)
                THEN Append(acc, rs[i]) ELSE acc,
             <<>>, [i \in DOMAIN rs |-> i])

\* The rows beyond as many of each key as are wanted.
SurplusRows(rs, want) ==
    FoldLeft(LAMBDA acc, i :
                IF Count(SubSeq(Keys(rs), 1, i), rs[i].key) > Count(want, rs[i].key)
                THEN Append(acc, rs[i]) ELSE acc,
             <<>>, [i \in DOMAIN rs |-> i])

\* Where bisect_left puts x in an increasing list.
Slot(list, x) == 1 + Cardinality({i \in DOMAIN list : list[i] < x})

\* Indices already in the right relative order: a longest increasing
\* subsequence, by the smallest tail of each length and a way back.
StableRows(positions) ==
    LET Put(list, at, x) == IF at > Len(list) THEN Append(list, x)
                            ELSE [list EXCEPT ![at] = x]
        piles == FoldLeft(
            LAMBDA p, i : LET at == Slot(p.tails, positions[i])
                          IN  [tails |-> Put(p.tails, at, positions[i]),
                               index |-> Put(p.index, at, i),
                               parent |-> Append(p.parent,
                                    IF at = 1 THEN 0 ELSE p.index[at - 1])],
            [tails |-> <<>>, index |-> <<>>, parent |-> <<>>],
            [i \in DOMAIN positions |-> i])
        last == Len(piles.tails)
        back[n \in 0..last] == IF n = 0 THEN piles.index[last]
                               ELSE IF back[n - 1] = 0 THEN 0
                               ELSE piles.parent[back[n - 1]]
    IN  IF last = 0 THEN {} ELSE {back[n] : n \in 0..last} \ {0}

\* The rows for the target, occurrences in row order.
RowsFor(rs, target) ==
    [i \in DOMAIN target |->
        rs[CHOOSE j \in DOMAIN rs :
                /\ rs[j].key = target[i]
                /\ Count(SubSeq(Keys(rs), 1, j), target[i])
                        = Count(SubSeq(target, 1, i), target[i])]]

\* Mutant: a kept row is told from a moved one by the row before it.
ShiftedMoves(rs, target) ==
    LET placed == RowsFor(rs, target)
        At(row) == CHOOSE j \in DOMAIN rs : rs[j].id = row.id
        keep == StableRows([i \in DOMAIN placed |-> At(placed[i])])
    IN  FoldLeft(LAMBDA acc, i :
                    IF i - 1 \in keep THEN acc
                    ELSE Append(acc, [row |-> placed[i].id,
                                      after |-> IF i = 1 THEN 0 ELSE placed[i - 1].id]),
                 <<>>, [i \in DOMAIN placed |-> i])

\* The moves that bring the rows into the target's order: every row that is
\* not kept goes after the one before it.  after = 0: to the front.
Moves(rs, target) ==
    LET placed == RowsFor(rs, target)
        At(row) == CHOOSE j \in DOMAIN rs : rs[j].id = row.id
        keep == StableRows([i \in DOMAIN placed |-> At(placed[i])])
    IN  FoldLeft(LAMBDA acc, i :
                    IF i \in keep THEN acc
                    ELSE Append(acc, [row |-> placed[i].id,
                                      after |-> IF i = 1 THEN 0 ELSE placed[i - 1].id]),
                 <<>>, [i \in DOMAIN placed |-> i])

-----------------------------------------------------------------------------
(* The Plex server.                                                        *)

NextId(rs) == 1 + FoldLeft(LAMBDA m, r : IF r.id > m THEN r.id ELSE m, 0, rs)

\* Rows appended for the keys; one already held is collapsed into its row
\* unless the server honours a repeat.
Added(rs, keys) ==
    FoldLeft(LAMBDA acc, k :
                IF ~input.honours /\ k \in ToSet(Keys(acc)) THEN acc
                ELSE Append(acc, [id |-> NextId(acc), key |-> k]), rs, keys)

Removed(rs, row) == SelectSeq(rs, LAMBDA r : r.id # row.id)

Moved(rs, move) ==
    LET row == SelectSeq(rs, LAMBDA r : r.id = move.row)
        rest == SelectSeq(rs, LAMBDA r : r.id # move.row)
        at == IF move.after = 0 THEN 0
              ELSE CHOOSE i \in DOMAIN rest : rest[i].id = move.after
    IN  SubSeq(rest, 1, at) \o row \o SubSeq(rest, at + 1, Len(rest))

\* One request: done, or answered and not done (named by what it was).
Request(done, ignored) ==
    \/ rows' = done /\ UNCHANGED fault
    \/ fault = "none" /\ fault' = ignored /\ UNCHANGED rows

\* A request that fails on the wire ends the push: nothing after it is asked.
Fail == /\ pc \notin {"start", "ok", "empty", "failed"}
        /\ pc' = "failed" /\ todo' = <<>>
        /\ UNCHANGED <<input, rows, seen, answer, collapsed, fault>>

NotApplied == pc' = "failed" /\ todo' = <<>>

-----------------------------------------------------------------------------
(* The push, one request a step.                                           *)

Init == /\ input \in Inputs
        /\ pc = "start"
        /\ rows = input.rows /\ seen = <<>>
        /\ answer = [matches |-> <<>>, missing |-> <<>>]
        /\ collapsed = {} /\ todo = <<>> /\ fault = "none"

\* The tracks are matched, the playlist is looked up and its rows are read.
\* Nothing to push touches nothing.
Resolve ==
    /\ pc = "start"
    /\ answer' = ResolveOrderedTracks(input.section, input.specs)
    /\ seen' = rows
    /\ pc' = CASE answer'.matches = <<>> -> "empty"
               [] answer'.matches # <<>> /\ ~input.exists -> "create"
               [] answer'.matches # <<>> /\ input.exists -> "compare"
    /\ UNCHANGED <<input, rows, collapsed, todo, fault>>

\* There is no playlist of ours: one is made of the distinct tracks.
Create ==
    /\ pc = "create"
    /\ rows' = Added(<<>>, FirstOccurrences(Desired))
    /\ seen' = rows'
    /\ pc' = IF Repeats(Desired) THEN "compare" ELSE "ok"
    /\ UNCHANGED <<input, answer, collapsed, todo, fault>>

\* By row when a key repeats on either side, else by a plain difference.
Compare ==
    /\ pc = "compare"
    /\ pc' = CASE Keys(seen) = Desired -> "ok"
               [] Keys(seen) # Desired /\ (Repeats(Keys(seen)) \/ Repeats(Desired)) -> "fill"
               [] OTHER -> "diff"
    /\ UNCHANGED <<input, rows, seen, answer, collapsed, todo, fault>>

\* By row: what is absent is added in one call and read back, and only then
\* is there anything to remove.
Fill ==
    /\ pc = "fill"
    /\ \/ Absent = <<>> /\ UNCHANGED <<rows, fault>>
       \/ Absent # <<>> /\ Request(Added(rows, Absent), "add")
    /\ IF SameBag(Keys(rows'), Keys(seen) \o Absent)
       THEN pc' = "trim" /\ todo' = SurplusRows(rows', Desired)
       ELSE NotApplied
    /\ seen' = rows'
    /\ UNCHANGED <<input, answer, collapsed>>

Trim ==
    /\ pc = "trim"
    /\ \/ /\ todo # <<>>
          /\ Request(Removed(rows, Head(todo)), "remove")
          /\ todo' = Tail(todo)
          /\ UNCHANGED <<pc, seen>>
       \/ /\ todo = <<>>
          /\ seen' = rows /\ pc' = "topup"
          /\ UNCHANGED <<rows, todo, fault>>
    /\ UNCHANGED <<input, answer, collapsed>>

\* The occurrences no row is left for, in the desired order.
Unheld == {i \in DOMAIN Desired :
                Count(SubSeq(Desired, 1, i), Desired[i]) > Count(Keys(seen), Desired[i])}

\* Repeats one at a time: a server that does not grow by the one row asked
\* for is not asked again, and the occurrences left over are reported.
TopUp ==
    /\ pc = "topup"
    /\ \/ /\ Unheld = {}
          /\ pc' = "order"
          /\ UNCHANGED <<rows, seen, collapsed, todo, fault>>
       \/ /\ Unheld # {}
          /\ LET i == CHOOSE n \in Unheld : \A m \in Unheld : n <= m
             IN  Request(Added(rows, <<Desired[i]>>), "add")
          /\ seen' = rows'
          /\ IF rows' = rows
             THEN collapsed' = Unheld /\ pc' = "order"
             ELSE UNCHANGED <<pc, collapsed>>
          /\ UNCHANGED todo
    /\ UNCHANGED <<input, answer>>

\* What the playlist is to hold: the desired rows less those collapsed.
Target == FoldLeft(LAMBDA acc, i : IF i \in collapsed THEN acc
                                   ELSE Append(acc, Desired[i]),
                   <<>>, [i \in DOMAIN Desired |-> i])

Order ==
    /\ pc = "order"
    /\ CASE ~SameBag(Keys(seen), Target) -> NotApplied
         [] Keys(seen) = Target -> pc' = "ok" /\ UNCHANGED todo
         [] OTHER -> pc' = "move" /\ todo' = Moves(seen, Target)
    /\ UNCHANGED <<input, rows, seen, answer, collapsed, fault>>

\* Moves by row, and the order is read back.
Move ==
    /\ pc = "move"
    /\ \/ /\ todo # <<>>
          /\ Request(Moved(rows, Head(todo)), "move")
          /\ todo' = Tail(todo) /\ UNCHANGED pc
       \/ /\ todo = <<>>
          /\ pc' = IF Keys(rows) = Target THEN "ok" ELSE "failed"
          /\ UNCHANGED <<rows, todo, fault>>
    /\ UNCHANGED <<input, seen, answer, collapsed>>

\* Unique keys: what is missing is added in one call, what is stale goes, and
\* the rows are read back once, before the moves.
Diff ==
    /\ pc = "diff"
    /\ \/ Absent = <<>> /\ UNCHANGED <<rows, fault>>
       \/ Absent # <<>> /\ Request(Added(rows, Absent), "blind add")
    /\ todo' = SelectSeq(seen, LAMBDA r : r.key \notin ToSet(Desired))
    /\ pc' = "prune"
    /\ UNCHANGED <<input, seen, answer, collapsed>>

Prune ==
    /\ pc = "prune"
    /\ \/ /\ todo # <<>>
          /\ Request(Removed(rows, Head(todo)), "remove")
          /\ todo' = Tail(todo) /\ UNCHANGED <<pc, seen>>
       \/ /\ todo = <<>>
          /\ seen' = rows
          /\ IF SameBag(Keys(rows), Desired)
             THEN pc' = "place" /\ todo' = Moves(rows, Desired)
             ELSE NotApplied
          /\ UNCHANGED <<rows, fault>>
    /\ UNCHANGED <<input, answer, collapsed>>

\* Moves by key; nothing is read back after them.
Place ==
    /\ pc = "place"
    /\ \/ /\ todo # <<>>
          /\ Request(Moved(rows, Head(todo)), "blind move")
          /\ todo' = Tail(todo) /\ UNCHANGED pc
       \/ /\ todo = <<>>
          /\ pc' = "ok"
          /\ UNCHANGED <<rows, todo, fault>>
    /\ UNCHANGED <<input, seen, answer, collapsed>>

Next == \/ Resolve \/ Create \/ Compare \/ Fill \/ Trim \/ TopUp \/ Order \/ Move
        \/ Diff \/ Prune \/ Place \/ Fail

Spec == Init /\ [][Next]_vars

-----------------------------------------------------------------------------
(* Properties.                                                             *)

Longest(positions) ==
    LET Increasing(S) == \A i, j \in S : i < j => positions[i] < positions[j]
    IN  CHOOSE n \in 0..Len(positions) :
            /\ \E S \in SUBSET DOMAIN positions : Cardinality(S) = n /\ Increasing(S)
            /\ \A S \in SUBSET DOMAIN positions : Increasing(S) => Cardinality(S) <= n

\* A push that ends well (plex/sync.py _update_our_playlist: ok, or partial with
\* its misses) left on Plex the tracks of the playlist in its order, and every
\* entry is a row there or one of the misses it reports.  Moves made by key
\* (_move_into_order) are not read back: when Plex ignored one of those, the
\* rows are right and the order may not be.
PushLands ==
    pc = "ok" =>
        /\ SameBag(Keys(rows), Target)
        /\ fault # "blind move" => Keys(rows) = Target
        /\ Len(rows) + Cardinality(collapsed) + Len(answer.missing) = Len(input.specs)

\* No request of a push takes the last row of a track the playlist is to hold,
\* nor empties the playlist, even where Plex ignored the addition before it
\* (_fill_and_trim: confirmed present first) - but for the difference of unique
\* keys (_diff_then_reorder), which removes before it reads back.
NothingIsLost ==
    [][/\ \A k \in ToSet(Desired) \cap ToSet(Keys(rows)) : k \in ToSet(Keys(rows'))
       /\ rows # <<>> /\ rows' = <<>> => fault = "blind add"]_vars

\* Two different library tracks never stand for one Plex track unless the path
\* of each names it: a guess never takes what another track has claimed
\* (plex/mapping.py _free, _path_claims).
OneTrackOneItem ==
    \A i, j \in DOMAIN answer.matches :
        LET m == answer.matches[i]
            n == answer.matches[j]
        IN  m.got.key = n.got.key /\ m.item # n.item =>
                m.got.method = "path" /\ n.got.method = "path"

=============================================================================
