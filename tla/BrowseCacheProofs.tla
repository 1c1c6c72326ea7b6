-------------------------- MODULE BrowseCacheProofs --------------------------
(***************************************************************************)
(* Kept rows are the library's, and a settled tab shows the library, for   *)
(* every number of tabs, requests, editors and changes, and every length   *)
(* of a stream's queue that is not zero.                                   *)
(*                                                                         *)
(* The argument: what is out of date is out of date by a change that has   *)
(* still to be announced, or whose announcement is still on its way. For   *)
(* the rows and for a scan it is enough that the part is Unannounced, as   *)
(* the generation tells a scan of an announcement; for a tab the event is  *)
(* followed through the loop, the queue and the timer (Coming), and what   *)
(* its request has read so far is as good as the rows it was read from.    *)
(***************************************************************************)
EXTENDS BrowseCache, TLAPS

Rows == [albums : Int, items : Int]
Requesting == {"idle", "check", "wait", "locked", "facts", "albums", "store", "page"}
Editing == {"idle", "edit", "emit", "publish", "schedule"}
Connection == {"closed", "connecting", "subscribed", "open", "refused"}
Page == [albums : Int, items : Int, shown : Int]

Request == [at : Requesting, gen : Nat, rows : Rows]
Editor == [at : Editing, done : SUBSET Parts]
Stream == [on : BOOLEAN, queued : Nat]
Tab == [at : Connection, connected : BOOLEAN, armed : BOOLEAN, stale : BOOLEAN,
        fetch : Requests \union {Nobody}, retried : BOOLEAN, failed : BOOLEAN,
        page : Page, missed : BOOLEAN, joined : BOOLEAN]

TypeOK ==
    /\ library \in [Parts -> Nat]
    /\ rows \in Rows
    /\ generation \in Nat
    /\ request \in [Requests -> Request]
    /\ editor \in [Editors -> Editor]
    /\ scheduled \in Nat
    /\ streams \in [Tabs -> Stream]
    /\ tab \in [Tabs -> Tab]
    /\ unannounced \in SUBSET Parts

\* A change of part has not dropped the rows for the last time.
Unannounced(part) ==
    \/ part \in unannounced
    \/ \E e \in Editors : editor[e].at \in {"edit", "emit", "publish"} /\ part \in editor[e].done

\* What some rows say of part is good, or will be dropped.
Good(some, part) == some[part] = library[part] \/ Unannounced(part)

\* The rows that are kept, and those a scan may keep.
RowsInv == rows # NoRows => \A part \in Parts : Good(rows, part)
ScanInv == \A r \in Requests :
    /\ request[r].gen <= generation
    /\ request[r].gen = generation =>
        /\ request[r].at \in {"albums", "store"} => Good(request[r].rows, "items")
        /\ request[r].at = "store" => Good(request[r].rows, "albums")

\* An event is on its way to the tab, or will be, or one of the excuses holds: it
\* was missed or told in vain, or the request for it was given up.
Coming(t) ==
    \/ \E part \in Parts : Unannounced(part)
    \/ \E e \in Editors : editor[e].at \in {"emit", "publish", "schedule"}
    \/ scheduled > 0
    \/ streams[t].queued > 0
    \/ tab[t].armed \/ tab[t].missed \/ tab[t].joined \/ tab[t].failed
    \/ tab[t].at \in {"connecting", "subscribed"} /\ tab[t].connected
    \/ tab[t].at = "refused"

\* What a request has read so far is what the library holds.
ReadsTrue(r) ==
    /\ request[r].at # "idle"
    /\ request[r].at \in {"albums", "store", "page"} =>
            request[r].rows.items = library["items"]
    /\ request[r].at \in {"store", "page"} =>
            request[r].rows.albums = library["albums"]

\* A stream is there while its tab is connected, and empty while it is not; a
\* page that is not open yet waits for nothing.
StreamInv == \A t \in Tabs :
    /\ streams[t].on <=> tab[t].at \in {"subscribed", "open"}
    /\ ~streams[t].on => streams[t].queued = 0
    /\ tab[t].at = "open" => tab[t].connected
    /\ tab[t].at = "closed" => ~tab[t].armed /\ ~tab[t].stale /\ tab[t].fetch = Nobody

\* A tab that nothing is coming for shows the library, or will.
UpToDate(t) ==
    \/ tab[t].at = "closed"
    \/ Coming(t) \/ tab[t].stale
    \/ tab[t].fetch = Nobody /\ ShowsLibrary(t)
    \/ tab[t].fetch \in Requests /\ ReadsTrue(tab[t].fetch)
TabInv == \A t \in Tabs : UpToDate(t)

IInv == TypeOK /\ RowsInv /\ ScanInv /\ StreamInv /\ TabInv

USE QueueAssumption, NobodyAssumption

-----------------------------------------------------------------------------
(* What a step makes of a record.                                          *)

\* A function changed at one point.
LEMMA Changed ==
  ASSUME NEW S, NEW T, NEW f \in [S -> T], NEW x \in S, NEW v \in T
  PROVE  /\ [f EXCEPT ![x] = v] \in [S -> T]
         /\ [f EXCEPT ![x] = v][x] = v
         /\ \A y \in S : y # x => [f EXCEPT ![x] = v][y] = f[y]
OBVIOUS

\* A part is read.
LEMMA RowsRead ==
  ASSUME NEW some \in Rows, NEW n \in Nat
  PROVE  /\ [some EXCEPT !["items"] = n] \in Rows
         /\ [some EXCEPT !["items"] = n].items = n
         /\ [some EXCEPT !["items"] = n].albums = some.albums
         /\ [some EXCEPT !["albums"] = n] \in Rows
         /\ [some EXCEPT !["albums"] = n].albums = n
         /\ [some EXCEPT !["albums"] = n].items = some.items
BY DEF Rows

\* A tab starts over, or waits for its first page and was told in vain.
LEMMA TabAgain ==
  ASSUME NEW s \in Tab, NEW new, new = Again(s)
  PROVE  /\ new \in Tab /\ new.at = s.at /\ new.connected = s.connected
         /\ new.page = s.page /\ (new.stale \/ new.joined)
<1>1. CASE s.page = NoPage /\ (s.stale \/ s.fetch # Nobody)
  <2>1. new = [s EXCEPT !.armed = FALSE, !.joined = s.fetch # Nobody]
    BY <1>1 DEF Again
  <2>2. (s.fetch # Nobody) \in BOOLEAN
    OBVIOUS
  <2>q. QED
    BY <1>1, <2>1, <2>2 DEF Tab
<1>2. CASE ~(s.page = NoPage /\ (s.stale \/ s.fetch # Nobody))
  <2>1. new = [s EXCEPT !.stale = TRUE, !.fetch = Nobody, !.retried = FALSE, !.armed = FALSE]
    BY <1>2 DEF Again
  <2>q. QED
    BY <2>1 DEF Tab
<1>q. QED
  BY <1>1, <1>2

\* A tab whose request is not answered asks once more, or gives up.
LEMMA TabUnanswered ==
  ASSUME NEW s \in Tab, NEW new, new = Unanswered(s)
  PROVE  /\ new \in Tab /\ new.at = s.at /\ new.connected = s.connected
         /\ new.armed = s.armed /\ new.fetch = Nobody /\ (new.stale \/ new.failed)
<1>1. CASE s.retried
  <2>1. new = [s EXCEPT !.fetch = Nobody, !.retried = FALSE, !.failed = TRUE]
    BY <1>1 DEF Unanswered
  <2>q. QED
    BY <2>1 DEF Tab
<1>2. CASE ~s.retried
  <2>1. new = [s EXCEPT !.fetch = Nobody, !.retried = TRUE, !.stale = TRUE]
    BY <1>2 DEF Unanswered
  <2>q. QED
    BY <2>1 DEF Tab
<1>q. QED
  BY <1>1, <1>2

-----------------------------------------------------------------------------
(* What the steps of a request do.                                         *)

OtherRequests(r) == \A q \in Requests : q # r => request'[q] = request[q]
SameRows(r) == request'[r].rows = request[r].rows
SameGen(r) == request'[r].gen = request[r].gen

\* A request goes on, with what it has read or with new rows, or begins a scan.
Goes(r, at) == [request[r] EXCEPT !.at = at]
Takes(r, at, some) == [request[r] EXCEPT !.at = at, !.rows = some]
Begins(r, at, gen) == [request[r] EXCEPT !.at = at, !.gen = gen]

\* One request changes, to a record that is a request.
LEMMA RequestBecomes ==
  ASSUME TypeOK, NEW r \in Requests, NEW what \in Request, Becomes(r, what)
  PROVE  request' \in [Requests -> Request] /\ OtherRequests(r) /\ request'[r] = what
BY Changed DEF Becomes, TypeOK, OtherRequests

\* A request that goes on keeps its generation and its rows.
LEMMA RequestGoes ==
  ASSUME TypeOK, NEW r \in Requests, NEW at \in Requesting, Becomes(r, Goes(r, at))
  PROVE  /\ request' \in [Requests -> Request] /\ OtherRequests(r)
         /\ request'[r].at = at /\ SameGen(r) /\ SameRows(r)
<1>1. /\ Goes(r, at) \in Request /\ Goes(r, at).at = at
      /\ Goes(r, at).gen = request[r].gen /\ Goes(r, at).rows = request[r].rows
  BY DEF Request, Goes, TypeOK
<1>q. QED
  BY <1>1, RequestBecomes DEF SameGen, SameRows

\* A request that takes rows keeps its generation.
LEMMA RequestTakes ==
  ASSUME TypeOK, NEW r \in Requests, NEW at \in Requesting, NEW some \in Rows,
         Becomes(r, Takes(r, at, some))
  PROVE  /\ request' \in [Requests -> Request] /\ OtherRequests(r)
         /\ request'[r].at = at /\ SameGen(r) /\ request'[r].rows = some
<1>1. /\ Takes(r, at, some) \in Request /\ Takes(r, at, some).at = at
      /\ Takes(r, at, some).gen = request[r].gen /\ Takes(r, at, some).rows = some
  BY DEF Request, Takes, TypeOK
<1>q. QED
  BY <1>1, RequestBecomes DEF SameGen

\* A request that begins a scan notes the generation.
LEMMA RequestBegins ==
  ASSUME TypeOK, NEW r \in Requests, NEW at \in Requesting, NEW gen \in Nat,
         Becomes(r, Begins(r, at, gen))
  PROVE  /\ request' \in [Requests -> Request] /\ OtherRequests(r)
         /\ request'[r].at = at /\ request'[r].gen = gen /\ SameRows(r)
<1>1. /\ Begins(r, at, gen) \in Request /\ Begins(r, at, gen).at = at
      /\ Begins(r, at, gen).gen = gen /\ Begins(r, at, gen).rows = request[r].rows
  BY ZenonT(40) DEF Request, Begins, TypeOK
<1>q. QED
  BY <1>1, RequestBecomes DEF SameRows

RequestWaits(r) ==
    /\ request[r].at \in {"check", "wait"} /\ request'[r].at \in {"wait", "locked"}
    /\ SameGen(r) /\ SameRows(r)
    /\ UNCHANGED <<rows, tab>>
RequestHits(r) ==
    /\ request[r].at \in {"check", "locked"} /\ rows # NoRows
    /\ request'[r].at = "page" /\ request'[r].rows = rows /\ SameGen(r)
    /\ UNCHANGED <<rows, tab>>
RequestScans(r) ==
    /\ request[r].at = "locked"
    /\ request'[r].at = "facts" /\ request'[r].gen = generation /\ SameRows(r)
    /\ UNCHANGED <<rows, tab>>
RequestReads(r) ==
    /\ \/ /\ request[r].at = "facts" /\ request'[r].at = "albums"
          /\ request'[r].rows.items = library["items"]
       \/ /\ request[r].at = "albums" /\ request'[r].at = "store"
          /\ request'[r].rows.albums = library["albums"]
          /\ request'[r].rows.items = request[r].rows.items
    /\ SameGen(r)
    /\ UNCHANGED <<rows, tab>>
RequestStores(r) ==
    /\ request[r].at = "store" /\ request'[r].at = "page"
    /\ rows' = IF generation = request[r].gen THEN request[r].rows ELSE rows
    /\ SameGen(r) /\ SameRows(r)
    /\ UNCHANGED tab
PageOf(r) == [albums |-> request[r].rows.albums, items |-> request[r].rows.items,
              shown |-> library["albums"]]
RequestAnswers(r) ==
    /\ request[r].at = "page" /\ request'[r] = Idle
    /\ tab' = [t \in Tabs |-> IF tab[t].fetch = r
                              THEN [tab[t] EXCEPT !.fetch = Nobody, !.retried = FALSE,
                                                  !.page = PageOf(r)]
                              ELSE tab[t]]
    /\ UNCHANGED rows
RequestFails(r) ==
    /\ request'[r] = Idle
    /\ tab' = [t \in Tabs |-> IF tab[t].fetch = r THEN Unanswered(tab[t]) ELSE tab[t]]
    /\ UNCHANGED rows

\* A step of a request is one of seven, and changes nothing else.
LEMMA ServeEffect ==
  ASSUME TypeOK, NEW r \in Requests, Serve(r)
  PROVE  /\ request' \in [Requests -> Request] /\ OtherRequests(r) /\ rows' \in Rows
         /\ UNCHANGED <<library, generation, editor, scheduled, streams, unannounced>>
         /\ \/ RequestWaits(r) \/ RequestHits(r) \/ RequestScans(r) \/ RequestReads(r)
            \/ RequestStores(r) \/ RequestAnswers(r) \/ RequestFails(r)
<1>t. /\ request[r].rows \in Rows /\ rows \in Rows /\ generation \in Nat
      /\ library["items"] \in Nat /\ library["albums"] \in Nat
  BY DEF TypeOK, Request, Parts
<1>a. /\ "wait" \in Requesting /\ "locked" \in Requesting /\ "facts" \in Requesting
      /\ "albums" \in Requesting /\ "store" \in Requesting /\ "page" \in Requesting
  BY DEF Requesting
<1>f. UNCHANGED <<library, generation, editor, scheduled, streams, unannounced>>
  BY DEF Serve, Check, Lock, Recheck, CollectFacts, BuildRows, Store, Answer, Fail,
         RequestFrame, wire, cache
<1>1. CASE Check(r)
  <2>0. UNCHANGED <<rows, tab>> /\ request[r].at = "check"
    BY <1>1 DEF Check, cache, RequestFrame
  <2>1. CASE rows = NoRows
    <3>1. Becomes(r, Goes(r, "wait"))
      BY <1>1, <2>1 DEF Check, Goes
    <3>q. QED
      BY <1>t, <1>a, <1>f, <2>0, <3>1, RequestGoes DEF RequestWaits
  <2>2. CASE rows # NoRows
    <3>1. Becomes(r, Takes(r, "page", rows))
      BY <1>1, <2>2 DEF Check, Takes
    <3>q. QED
      BY <1>t, <1>a, <1>f, <2>0, <2>2, <3>1, RequestTakes DEF RequestHits
  <2>q. QED
    BY <2>1, <2>2
<1>2. CASE Lock(r)
  <2>1. Becomes(r, Goes(r, "locked")) /\ UNCHANGED <<rows, tab>> /\ request[r].at = "wait"
    BY <1>2 DEF Lock, Goes, RequestFrame
  <2>q. QED
    BY <1>t, <1>a, <1>f, <2>1, RequestGoes DEF RequestWaits
<1>3. CASE Recheck(r)
  <2>0. UNCHANGED <<rows, tab>> /\ request[r].at = "locked"
    BY <1>3 DEF Recheck, RequestFrame
  <2>1. CASE rows = NoRows
    <3>1. Becomes(r, Begins(r, "facts", generation))
      BY <1>3, <2>1 DEF Recheck, Begins
    <3>q. QED
      BY <1>t, <1>a, <1>f, <2>0, <3>1, RequestBegins DEF RequestScans
  <2>2. CASE rows # NoRows
    <3>1. Becomes(r, Takes(r, "page", rows))
      BY <1>3, <2>2 DEF Recheck, Takes
    <3>q. QED
      BY <1>t, <1>a, <1>f, <2>0, <2>2, <3>1, RequestTakes DEF RequestHits
  <2>q. QED
    BY <2>1, <2>2
<1>4. CASE CollectFacts(r)
  <2>1. /\ Becomes(r, Takes(r, "albums", WithPart(r, "items")))
        /\ UNCHANGED <<rows, tab>> /\ request[r].at = "facts"
    BY <1>4 DEF CollectFacts, Takes, cache, RequestFrame
  <2>2. WithPart(r, "items") \in Rows /\ WithPart(r, "items").items = library["items"]
    BY <1>t, RowsRead DEF WithPart
  <2>q. QED
    BY <1>t, <1>a, <1>f, <2>1, <2>2, RequestTakes DEF RequestReads
<1>5. CASE BuildRows(r)
  <2>1. /\ Becomes(r, Takes(r, "store", WithPart(r, "albums")))
        /\ UNCHANGED <<rows, tab>> /\ request[r].at = "albums"
    BY <1>5 DEF BuildRows, Takes, cache, RequestFrame
  <2>2. /\ WithPart(r, "albums") \in Rows /\ WithPart(r, "albums").albums = library["albums"]
        /\ WithPart(r, "albums").items = request[r].rows.items
    BY <1>t, RowsRead DEF WithPart
  <2>q. QED
    BY <1>t, <1>a, <1>f, <2>1, <2>2, RequestTakes DEF RequestReads
<1>6. CASE Store(r)
  <2>1. /\ Becomes(r, Goes(r, "page")) /\ request[r].at = "store" /\ UNCHANGED tab
        /\ rows' = IF generation = request[r].gen THEN request[r].rows ELSE rows
    BY <1>6 DEF Store, Goes, RequestFrame
  <2>2. rows' \in Rows
    BY <1>t, <2>1
  <2>3. /\ request' \in [Requests -> Request] /\ OtherRequests(r)
        /\ request'[r].at = "page" /\ SameGen(r) /\ SameRows(r)
    BY <1>a, <2>1, RequestGoes
  <2>4. RequestStores(r)
    BY <2>1, <2>3 DEF RequestStores
  <2>q. QED
    BY <1>f, <2>2, <2>3, <2>4
<1>7. CASE Answer(r)
  <2>1. Becomes(r, Idle) /\ rows' = rows
    BY <1>7 DEF Answer, cache
  <2>2. Idle \in Request
    BY DEF Idle, Request, Requesting, Rows, NoRows
  <2>q. QED
    BY <1>t, <1>f, <1>7, <2>1, <2>2, RequestBecomes DEF Answer, RequestAnswers, PageOf
<1>8. CASE Fail(r)
  <2>1. Becomes(r, Idle) /\ rows' = rows
    BY <1>8 DEF Fail
  <2>2. Idle \in Request
    BY DEF Idle, Request, Requesting, Rows, NoRows
  <2>q. QED
    BY <1>t, <1>f, <1>8, <2>1, <2>2, RequestBecomes DEF Fail, RequestFails
<1>q. QED
  BY <1>1, <1>2, <1>3, <1>4, <1>5, <1>6, <1>7, <1>8 DEF Serve

-----------------------------------------------------------------------------
(* What the steps of an editor do.                                         *)

OtherEditors(e) == \A f \in Editors : f # e => editor'[f] = editor[f]
SameDone(e) == editor'[e].done = editor[e].done

EditStarts(e) ==
    /\ editor[e].at = "idle" /\ editor'[e].at = "edit" /\ editor'[e].done = {}
    /\ UNCHANGED <<library, rows, generation, scheduled, unannounced>>
EditChanges(e) == \E part \in Parts :
    /\ editor[e].at = "edit" /\ editor'[e].at = "edit"
    /\ editor'[e].done = editor[e].done \union {part}
    /\ library' = [library EXCEPT ![part] = @ + 1]
    /\ UNCHANGED <<rows, generation, scheduled, unannounced>>
EditEnds(e) ==
    /\ editor[e].at = "edit" /\ editor'[e].at \in {"emit", "publish"} /\ SameDone(e)
    /\ UNCHANGED <<library, rows, generation, scheduled, unannounced>>
EditFails(e) ==
    /\ editor[e].at = "edit" /\ editor'[e].at = "idle"
    /\ unannounced' = unannounced \union editor[e].done
    /\ UNCHANGED <<library, rows, generation, scheduled>>
EditDrops(e) ==
    /\ editor[e].at \in {"emit", "publish"} /\ editor'[e].at \in {"publish", "schedule"}
    /\ SameDone(e)
    /\ Invalidate
    /\ UNCHANGED <<library, scheduled>>
EditPublishes(e) ==
    /\ editor[e].at = "schedule" /\ editor'[e].at = "idle"
    /\ scheduled' = scheduled + 1
    /\ UNCHANGED <<library, rows, generation, unannounced>>

\* One editor changes, to a record that is an editor.
LEMMA EditorBecomes ==
  ASSUME TypeOK, NEW e \in Editors, NEW what \in Editor,
         editor' = [editor EXCEPT ![e] = what]
  PROVE  editor' \in [Editors -> Editor] /\ OtherEditors(e) /\ editor'[e] = what
BY Changed DEF TypeOK, OtherEditors

\* An editor that moves on keeps what it has changed.
LEMMA EditorMoves ==
  ASSUME TypeOK, NEW e \in Editors, NEW at \in Editing, Moves(e, at)
  PROVE  /\ editor' \in [Editors -> Editor] /\ OtherEditors(e)
         /\ editor'[e].at = at /\ SameDone(e)
<1> DEFINE what == [editor[e] EXCEPT !.at = at]
<1>1. what \in Editor /\ what.at = at /\ what.done = editor[e].done
  BY DEF TypeOK, Editor
<1>2. editor' = [editor EXCEPT ![e] = what]
  BY DEF Moves
<1> HIDE DEF what
<1>q. QED
  BY <1>1, <1>2, EditorBecomes DEF SameDone

\* A step of an editor is one of six, and changes nothing else.
LEMMA EditEffect ==
  ASSUME TypeOK, NEW e \in Editors, Edit(e)
  PROVE  /\ editor' \in [Editors -> Editor] /\ OtherEditors(e)
         /\ UNCHANGED <<request, streams, tab>>
         /\ \/ EditStarts(e) \/ EditChanges(e) \/ EditEnds(e) \/ EditFails(e)
            \/ EditDrops(e) \/ EditPublishes(e)
<1>f. UNCHANGED <<request, streams, tab>>
  BY DEF Edit, StartEdit, EndEdit, FailEdit, Change, EmitLibraryChanged,
         PublishLibraryChanged, Publish, EditFrame
<1>a. /\ "idle" \in Editing /\ "edit" \in Editing /\ "emit" \in Editing
      /\ "publish" \in Editing /\ "schedule" \in Editing
  BY DEF Editing
<1>r. AtRest \in Editor /\ AtRest.at = "idle"
  BY DEF AtRest, Editor, Editing
<1>1. CASE StartEdit(e)
  <2> DEFINE begun == [at |-> "edit", done |-> {}]
  <2>1. begun \in Editor /\ begun.at = "edit" /\ begun.done = {}
    BY DEF Editor, Editing
  <2>2. editor' = [editor EXCEPT ![e] = begun] /\ editor[e].at = "idle"
        /\ UNCHANGED <<library, rows, generation, scheduled, unannounced>>
    BY <1>1 DEF StartEdit
  <2> HIDE DEF begun
  <2>q. QED
    BY <1>f, <2>1, <2>2, EditorBecomes DEF EditStarts
<1>2. CASE EndEdit(e)
  <2>1. editor[e].at = "edit" /\ (Moves(e, "emit") \/ Moves(e, "publish"))
        /\ UNCHANGED <<library, rows, generation, scheduled, unannounced>>
    BY <1>2 DEF EndEdit
  <2>q. QED
    BY <1>a, <1>f, <2>1, EditorMoves DEF EditEnds
<1>3. CASE FailEdit(e)
  <2>1. editor' = [editor EXCEPT ![e] = AtRest] /\ editor[e].at = "edit"
        /\ unannounced' = unannounced \union editor[e].done
        /\ UNCHANGED <<library, rows, generation, scheduled>>
    BY <1>3 DEF FailEdit
  <2>q. QED
    BY <1>r, <1>f, <2>1, EditorBecomes DEF EditFails
<1>4. ASSUME NEW part \in Parts, Change(e, part)
      PROVE  editor' \in [Editors -> Editor] /\ OtherEditors(e) /\ EditChanges(e)
  <2> DEFINE more == [editor[e] EXCEPT !.done = @ \union {part}]
  <2>1. more \in Editor /\ more.at = editor[e].at /\ more.done = editor[e].done \union {part}
    BY DEF TypeOK, Editor
  <2>2. editor' = [editor EXCEPT ![e] = more] /\ editor[e].at = "edit"
        /\ library' = [library EXCEPT ![part] = @ + 1]
        /\ UNCHANGED <<rows, generation, scheduled, unannounced>>
    BY <1>4 DEF Change
  <2> HIDE DEF more
  <2>q. QED
    BY <2>1, <2>2, EditorBecomes DEF EditChanges
<1>5. CASE EmitLibraryChanged(e)
  <2>1. editor[e].at = "emit" /\ Moves(e, "publish") /\ Invalidate
        /\ UNCHANGED <<library, scheduled>>
    BY <1>5 DEF EmitLibraryChanged
  <2>q. QED
    BY <1>a, <1>f, <2>1, EditorMoves DEF EditDrops
<1>6. CASE PublishLibraryChanged(e)
  <2>1. editor[e].at = "publish" /\ Moves(e, "schedule") /\ Invalidate
        /\ UNCHANGED <<library, scheduled>>
    BY <1>6 DEF PublishLibraryChanged
  <2>q. QED
    BY <1>a, <1>f, <2>1, EditorMoves DEF EditDrops
<1>7. CASE Publish(e)
  <2>1. editor' = [editor EXCEPT ![e] = AtRest] /\ editor[e].at = "schedule"
        /\ scheduled' = scheduled + 1
        /\ UNCHANGED <<library, rows, generation, unannounced>>
    BY <1>7 DEF Publish
  <2>q. QED
    BY <1>r, <1>f, <2>1, EditorBecomes DEF EditPublishes
<1>q. QED
  BY <1>f, <1>1, <1>2, <1>3, <1>4, <1>5, <1>6, <1>7 DEF Edit

-----------------------------------------------------------------------------
(* What the steps of a tab do.                                             *)

OtherTabs(t) == \A u \in Tabs : u # t => tab'[u] = tab[u]
OtherStreams(t) == \A u \in Tabs : u # t => streams'[u] = streams[u]
SameFetch(t) == tab'[t].stale = tab[t].stale /\ tab'[t].fetch = tab[t].fetch
SamePage(t) == tab'[t].page = tab[t].page
SameTold(t) == tab'[t].failed = tab[t].failed /\ tab'[t].joined = tab[t].joined
SameMarks(t) == /\ tab'[t].connected = tab[t].connected
                /\ tab'[t].armed = tab[t].armed /\ tab'[t].missed = tab[t].missed
                /\ SameTold(t)
StartsOver(t) == tab'[t].stale \/ tab'[t].joined

TabOpens(t) ==
    /\ tab[t].at = "closed" /\ tab'[t].at = "connecting" /\ tab'[t].stale
    /\ SameMarks(t)
    /\ UNCHANGED <<streams, request>>
TabSubscribes(t) ==
    /\ tab[t].at = "connecting" /\ SameMarks(t) /\ SameFetch(t)
    /\ \/ /\ tab'[t].at = "subscribed"
          /\ streams'[t].on /\ streams'[t].queued = 0
       \/ /\ tab'[t].at = "refused" /\ streams' = streams
    /\ UNCHANGED request
TabConnects(t) ==
    /\ tab[t].at = "subscribed" /\ tab'[t].at = "open" /\ tab'[t].connected
    /\ IF tab[t].connected THEN StartsOver(t)
       ELSE /\ SameFetch(t)
            /\ tab'[t].armed = tab[t].armed /\ tab'[t].missed = tab[t].missed
            /\ SameTold(t)
    /\ UNCHANGED <<streams, request>>
TabDrops(t) ==
    /\ tab[t].at \in {"subscribed", "open"} /\ tab'[t].at = "connecting"
    /\ ~streams'[t].on /\ streams'[t].queued = 0
    /\ tab'[t].missed = (tab[t].missed \/ ~tab[t].connected)
    /\ tab'[t].connected = tab[t].connected /\ tab'[t].armed = tab[t].armed
    /\ SameFetch(t) /\ SameTold(t)
    /\ UNCHANGED request
TabHears(t) ==
    /\ tab[t].at = "open" /\ streams'[t].on = streams[t].on
    /\ tab'[t].at = "open" /\ tab'[t].armed /\ tab'[t].connected = tab[t].connected
    /\ UNCHANGED request
TabFlushes(t) ==
    /\ tab[t].armed
    /\ tab'[t].at = tab[t].at /\ tab'[t].connected = tab[t].connected /\ StartsOver(t)
    /\ UNCHANGED <<streams, request>>
TabFetches(t) == \E r \in Requests :
    /\ tab[t].stale
    /\ request[r].at = "idle" /\ request'[r].at = "check" /\ request'[r].gen = 0
    /\ OtherRequests(r)
    /\ tab'[t].fetch = r /\ tab'[t].at = tab[t].at
    /\ tab'[t].connected = tab[t].connected /\ tab'[t].armed = tab[t].armed
    /\ UNCHANGED streams

\* One tab changes, to a record that is a tab.
LEMMA TabBecomes ==
  ASSUME TypeOK, NEW t \in Tabs, NEW what \in Tab, tab' = [tab EXCEPT ![t] = what]
  PROVE  tab' \in [Tabs -> Tab] /\ OtherTabs(t) /\ tab'[t] = what
BY Changed DEF TypeOK, OtherTabs

\* One stream changes, to a record that is a stream.
LEMMA StreamBecomes ==
  ASSUME TypeOK, NEW t \in Tabs, NEW what \in Stream, streams' = [streams EXCEPT ![t] = what]
  PROVE  streams' \in [Tabs -> Stream] /\ OtherStreams(t) /\ streams'[t] = what
BY Changed DEF TypeOK, OtherStreams

\* A step of a tab is one of seven, and changes nothing else.
LEMMA TabEffect ==
  ASSUME TypeOK, NEW t \in Tabs, TabStep(t)
  PROVE  /\ tab' \in [Tabs -> Tab] /\ streams' \in [Tabs -> Stream]
         /\ request' \in [Requests -> Request]
         /\ OtherTabs(t) /\ OtherStreams(t) /\ SamePage(t)
         /\ UNCHANGED <<library, rows, generation, editor, scheduled, unannounced>>
         /\ \/ TabOpens(t) \/ TabSubscribes(t) \/ TabConnects(t) \/ TabDrops(t)
            \/ TabHears(t) \/ TabFlushes(t) \/ TabFetches(t)
<1>f. UNCHANGED <<library, rows, generation, editor, scheduled, unannounced>>
  BY DEF TabStep, Open, Subscribe, OnOpen, Drop, OnMessage, Flush, Fetch, StreamFrame,
         cache, wire
<1>t. /\ tab[t] \in Tab /\ streams[t] \in Stream /\ tab \in [Tabs -> Tab]
      /\ streams \in [Tabs -> Stream] /\ request \in [Requests -> Request]
  BY DEF TypeOK
<1>off. [on |-> FALSE, queued |-> 0] \in Stream /\ [on |-> TRUE, queued |-> 0] \in Stream
  BY DEF Stream
<1>1. CASE Open(t)
  <2> DEFINE what == [tab[t] EXCEPT !.at = "connecting", !.stale = TRUE]
  <2>1. /\ what \in Tab /\ what.at = "connecting" /\ what.stale
        /\ what.connected = tab[t].connected /\ what.armed = tab[t].armed
        /\ what.missed = tab[t].missed /\ what.page = tab[t].page
        /\ what.failed = tab[t].failed /\ what.joined = tab[t].joined
    BY <1>t DEF Tab, Connection
  <2>2. tab' = [tab EXCEPT ![t] = what] /\ tab[t].at = "closed" /\ UNCHANGED <<streams, request>>
    BY <1>1, <1>t DEF Open, wire
  <2> HIDE DEF what
  <2>3. tab' \in [Tabs -> Tab] /\ OtherTabs(t) /\ tab'[t] = what
    BY <2>1, <2>2, TabBecomes
  <2>q. QED
    BY <1>f, <1>t, <2>1, <2>2, <2>3 DEF TabOpens, SameMarks, SameTold, SamePage, OtherStreams

<1>2. CASE Subscribe(t)
  <2>0. tab[t].at = "connecting" /\ UNCHANGED request
    BY <1>2 DEF Subscribe
  <2>1. CASE Subscribers < MaxSubscribers
    <3> DEFINE what == [tab[t] EXCEPT !.at = "subscribed"]
               stream == [on |-> TRUE, queued |-> 0]
    <3>1. /\ what \in Tab /\ what.at = "subscribed"
          /\ what.connected = tab[t].connected /\ what.armed = tab[t].armed
          /\ what.missed = tab[t].missed /\ what.page = tab[t].page
          /\ what.failed = tab[t].failed /\ what.joined = tab[t].joined
          /\ what.stale = tab[t].stale /\ what.fetch = tab[t].fetch
      BY <1>t DEF Tab, Connection
    <3>2. tab' = [tab EXCEPT ![t] = what] /\ streams' = [streams EXCEPT ![t] = stream]
      BY <1>2, <1>t, <2>1 DEF Subscribe
    <3>3. stream.on /\ stream.queued = 0 /\ stream \in Stream
      BY <1>off
    <3> HIDE DEF what, stream
    <3>4. tab' \in [Tabs -> Tab] /\ OtherTabs(t) /\ tab'[t] = what
      BY <3>1, <3>2, TabBecomes
    <3>5. streams' \in [Tabs -> Stream] /\ OtherStreams(t) /\ streams'[t] = stream
      BY <3>2, <3>3, StreamBecomes
    <3>q. QED
      BY <1>f, <1>t, <2>0, <3>1, <3>3, <3>4, <3>5
         DEF TabSubscribes, SameMarks, SameTold, SameFetch, SamePage
  <2>2. CASE ~(Subscribers < MaxSubscribers)
    <3> DEFINE what == [tab[t] EXCEPT !.at = "refused"]
    <3>1. /\ what \in Tab /\ what.at = "refused"
          /\ what.connected = tab[t].connected /\ what.armed = tab[t].armed
          /\ what.missed = tab[t].missed /\ what.page = tab[t].page
          /\ what.failed = tab[t].failed /\ what.joined = tab[t].joined
          /\ what.stale = tab[t].stale /\ what.fetch = tab[t].fetch
      BY <1>t DEF Tab, Connection
    <3>2. tab' = [tab EXCEPT ![t] = what] /\ streams' = streams
      BY <1>2, <1>t, <2>2 DEF Subscribe
    <3> HIDE DEF what
    <3>3. tab' \in [Tabs -> Tab] /\ OtherTabs(t) /\ tab'[t] = what
      BY <3>1, <3>2, TabBecomes
    <3>q. QED
      BY <1>f, <1>t, <2>0, <3>1, <3>2, <3>3
         DEF TabSubscribes, SameMarks, SameTold, SameFetch, SamePage, OtherStreams
  <2>q. QED
    BY <2>1, <2>2
<1>3. CASE OnOpen(t)
  <2> DEFINE now == IF tab[t].connected THEN Again(tab[t]) ELSE tab[t]
             what == [now EXCEPT !.at = "open", !.connected = TRUE]
  <2>1. /\ now \in Tab /\ now.page = tab[t].page
        /\ IF tab[t].connected THEN now.stale \/ now.joined ELSE now = tab[t]
    BY <1>t, TabAgain
  <2>2. tab' = [tab EXCEPT ![t] = what] /\ tab[t].at = "subscribed"
        /\ UNCHANGED <<streams, request>>
    BY <1>3, <1>t DEF OnOpen, wire
  <2> HIDE DEF now
  <2>3. /\ what \in Tab /\ what.at = "open" /\ what.connected
        /\ what.page = now.page /\ what.stale = now.stale /\ what.fetch = now.fetch
        /\ what.armed = now.armed /\ what.missed = now.missed
        /\ what.failed = now.failed /\ what.joined = now.joined
    BY <2>1 DEF Tab, Connection
  <2> HIDE DEF what
  <2>4. tab' \in [Tabs -> Tab] /\ OtherTabs(t) /\ tab'[t] = what
    BY <2>2, <2>3, TabBecomes
  <2>5. TabConnects(t)
    BY <2>1, <2>2, <2>3, <2>4 DEF TabConnects, StartsOver, SameFetch, SameTold
  <2>q. QED
    BY <1>f, <1>t, <2>1, <2>2, <2>3, <2>4, <2>5 DEF SamePage, OtherStreams
<1>4. CASE Drop(t)
  <2> DEFINE what == [tab[t] EXCEPT !.at = "connecting",
                                    !.missed = tab[t].missed \/ ~tab[t].connected]
             stream == [on |-> FALSE, queued |-> 0]
  <2>1. /\ what \in Tab /\ what.at = "connecting"
        /\ what.connected = tab[t].connected /\ what.armed = tab[t].armed
        /\ what.missed = (tab[t].missed \/ ~tab[t].connected) /\ what.page = tab[t].page
        /\ what.stale = tab[t].stale /\ what.fetch = tab[t].fetch
        /\ what.failed = tab[t].failed /\ what.joined = tab[t].joined
    BY <1>t DEF Tab, Connection
  <2>2. /\ tab' = [tab EXCEPT ![t] = what] /\ streams' = [streams EXCEPT ![t] = stream]
        /\ tab[t].at \in {"subscribed", "open"} /\ UNCHANGED request
    BY <1>4, <1>t DEF Drop
  <2>3. ~stream.on /\ stream.queued = 0 /\ stream \in Stream
    BY <1>off
  <2> HIDE DEF what, stream
  <2>4. tab' \in [Tabs -> Tab] /\ OtherTabs(t) /\ tab'[t] = what
    BY <2>1, <2>2, TabBecomes
  <2>5. streams' \in [Tabs -> Stream] /\ OtherStreams(t) /\ streams'[t] = stream
    BY <2>2, <2>3, StreamBecomes
  <2>6. TabDrops(t)
    BY <2>1, <2>2, <2>3, <2>4, <2>5 DEF TabDrops, SameFetch, SameTold
  <2>q. QED
    BY <1>f, <1>t, <2>1, <2>2, <2>4, <2>5, <2>6 DEF SamePage
<1>5. CASE OnMessage(t)
  <2> DEFINE what == [tab[t] EXCEPT !.armed = TRUE]
             stream == [streams[t] EXCEPT !.queued = @ - 1]
  <2>1. /\ what \in Tab /\ what.at = tab[t].at /\ what.armed
        /\ what.connected = tab[t].connected /\ what.page = tab[t].page
    BY <1>t DEF Tab
  <2>2. /\ tab' = [tab EXCEPT ![t] = what] /\ streams' = [streams EXCEPT ![t] = stream]
        /\ tab[t].at = "open" /\ streams[t].queued > 0 /\ UNCHANGED request
    BY <1>5, <1>t DEF OnMessage
  <2>3. stream \in Stream /\ stream.on = streams[t].on
    BY <1>t, <2>2 DEF Stream
  <2> HIDE DEF what, stream
  <2>4. tab' \in [Tabs -> Tab] /\ OtherTabs(t) /\ tab'[t] = what
    BY <2>1, <2>2, TabBecomes
  <2>5. streams' \in [Tabs -> Stream] /\ OtherStreams(t) /\ streams'[t] = stream
    BY <2>2, <2>3, StreamBecomes
  <2>q. QED
    BY <1>f, <1>t, <2>1, <2>2, <2>3, <2>4, <2>5 DEF TabHears, SamePage
<1>6. CASE Flush(t)
  <2> DEFINE what == Again(tab[t])
  <2>1. /\ what \in Tab /\ what.at = tab[t].at /\ what.connected = tab[t].connected
        /\ (what.stale \/ what.joined) /\ what.page = tab[t].page
    BY <1>t, TabAgain
  <2>2. tab' = [tab EXCEPT ![t] = what] /\ tab[t].armed /\ UNCHANGED <<streams, request>>
    BY <1>6, <1>t DEF Flush, wire
  <2> HIDE DEF what
  <2>3. tab' \in [Tabs -> Tab] /\ OtherTabs(t) /\ tab'[t] = what
    BY <2>1, <2>2, TabBecomes
  <2>q. QED
    BY <1>f, <1>t, <2>1, <2>2, <2>3 DEF TabFlushes, StartsOver, SamePage, OtherStreams
<1>7. ASSUME NEW r \in Requests, Fetch(t, r)
      PROVE  /\ tab' \in [Tabs -> Tab] /\ OtherTabs(t) /\ SamePage(t)
             /\ request' \in [Requests -> Request]
             /\ TabFetches(t)
  <2> DEFINE what == [tab[t] EXCEPT !.stale = FALSE, !.fetch = r, !.failed = FALSE,
                                    !.missed = FALSE, !.joined = FALSE]
             asked == [Idle EXCEPT !.at = "check"]
  <2>1. /\ what \in Tab /\ what.at = tab[t].at /\ what.fetch = r
        /\ what.connected = tab[t].connected /\ what.armed = tab[t].armed
        /\ what.page = tab[t].page
    BY <1>t DEF Tab
  <2>2. /\ tab' = [tab EXCEPT ![t] = what] /\ UNCHANGED streams
        /\ tab[t].stale /\ request[r].at = "idle" /\ Becomes(r, asked)
    BY <1>7, <1>t DEF Fetch, wire
  <2>3. asked \in Request /\ asked.at = "check" /\ asked.gen = 0
    BY DEF Idle, Request, Requesting, Rows, NoRows
  <2> HIDE DEF what, asked
  <2>4. tab' \in [Tabs -> Tab] /\ OtherTabs(t) /\ tab'[t] = what
    BY <2>1, <2>2, TabBecomes
  <2>5. request' \in [Requests -> Request] /\ OtherRequests(r) /\ request'[r] = asked
    BY <2>2, <2>3, RequestBecomes
  <2>q. QED
    BY <1>t, <2>1, <2>2, <2>3, <2>4, <2>5 DEF TabFetches, SamePage
<1>8. ASSUME NEW r \in Requests, Fetch(t, r)
      PROVE  streams' = streams
  BY <1>8 DEF Fetch, wire
<1>q. QED
  BY <1>f, <1>t, <1>1, <1>2, <1>3, <1>4, <1>5, <1>6, <1>7, <1>8 DEF TabStep, OtherStreams

\* An event put on the queues: each stream has one now, and a tab without a
\* stream and without a past has missed it.
Hears(t) ==
    /\ streams'[t].on = streams[t].on
    /\ streams[t].on => streams'[t].queued > 0
    /\ ~streams[t].on => streams'[t].queued = streams[t].queued
    /\ tab'[t].at = tab[t].at /\ tab'[t].connected = tab[t].connected
    /\ tab'[t].armed = tab[t].armed
    /\ tab'[t].missed = (tab[t].missed \/ (tab[t].at = "connecting" /\ ~tab[t].connected))
    /\ SameFetch(t) /\ SamePage(t) /\ SameTold(t)

\* Every stream and tab hears of an event that is fanned out.
LEMMA FanoutEffect ==
  ASSUME TypeOK, Fanout
  PROVE  /\ tab' \in [Tabs -> Tab] /\ streams' \in [Tabs -> Stream] /\ scheduled' \in Nat
         /\ \A t \in Tabs : Hears(t)
         /\ UNCHANGED <<library, rows, generation, editor, request, unannounced>>
<1>1. /\ UNCHANGED <<library, rows, generation, editor, request, unannounced>>
      /\ scheduled' \in Nat
  BY DEF Fanout, StreamFrame, cache, TypeOK
<1> DEFINE stream(t) == IF streams[t].on /\ streams[t].queued < MaxQueue
                        THEN [streams[t] EXCEPT !.queued = @ + 1] ELSE streams[t]
           what(t) == IF tab[t].at = "connecting" /\ ~tab[t].connected
                      THEN [tab[t] EXCEPT !.missed = TRUE] ELSE tab[t]
<1>2. /\ streams' = [t \in Tabs |-> stream(t)]
      /\ tab' = [t \in Tabs |-> what(t)]
  BY DEF Fanout
<1>3. ASSUME NEW t \in Tabs
      PROVE  /\ stream(t) \in Stream /\ stream(t).on = streams[t].on
             /\ streams[t].on => stream(t).queued > 0
             /\ ~streams[t].on => stream(t).queued = streams[t].queued
  <2>1. streams[t] \in Stream
    BY DEF TypeOK
  <2>2. CASE streams[t].on /\ streams[t].queued < MaxQueue
    <3>1. stream(t) = [streams[t] EXCEPT !.queued = @ + 1]
      BY <2>2
    <3>2. stream(t) \in Stream /\ stream(t).on = streams[t].on
          /\ stream(t).queued = streams[t].queued + 1
      BY <2>1, <3>1 DEF Stream
    <3>3. streams[t].queued + 1 > 0
      BY <2>1 DEF Stream
    <3> HIDE DEF stream
    <3>q. QED
      BY <2>2, <3>2, <3>3
  <2>3. CASE ~(streams[t].on /\ streams[t].queued < MaxQueue)
    BY <2>1, <2>3 DEF Stream
  <2>q. QED
    BY <2>2, <2>3
<1>4. ASSUME NEW t \in Tabs
      PROVE  /\ what(t) \in Tab /\ what(t).at = tab[t].at
             /\ what(t).connected = tab[t].connected /\ what(t).armed = tab[t].armed
             /\ what(t).missed = (tab[t].missed \/ (tab[t].at = "connecting"
                                                    /\ ~tab[t].connected))
             /\ what(t).stale = tab[t].stale /\ what(t).fetch = tab[t].fetch
             /\ what(t).page = tab[t].page
             /\ what(t).failed = tab[t].failed /\ what(t).joined = tab[t].joined
  BY DEF Tab, TypeOK
<1> HIDE DEF stream, what
<1>q. QED
  BY <1>1, <1>2, <1>3, <1>4 DEF Hears, SameFetch, SamePage, SameTold

\* The answer goes to the tabs that wait for it.
Served(t, r) ==
    /\ tab'[t].at = tab[t].at /\ SameMarks(t) /\ tab'[t].stale = tab[t].stale
    /\ IF tab[t].fetch = r THEN tab'[t].fetch = Nobody /\ tab'[t].page = PageOf(r)
       ELSE tab'[t] = tab[t]

\* An answer is taken by the tabs that wait for it, and by no other.
LEMMA AnswerEffect ==
  ASSUME TypeOK, NEW r \in Requests, RequestAnswers(r)
  PROVE  tab' \in [Tabs -> Tab] /\ \A t \in Tabs : Served(t, r)
<1>1. PageOf(r) \in Page
  <2>1. request[r] \in Request /\ library["albums"] \in Nat
    BY DEF TypeOK, Parts
  <2>q. QED
    BY <2>1 DEF PageOf, Page, Request, Rows
<1> DEFINE what(t) == IF tab[t].fetch = r
                      THEN [tab[t] EXCEPT !.fetch = Nobody, !.retried = FALSE,
                                          !.page = PageOf(r)]
                      ELSE tab[t]
<1>2. tab' = [t \in Tabs |-> what(t)]
  BY DEF RequestAnswers
<1>3. ASSUME NEW t \in Tabs
      PROVE  /\ what(t) \in Tab /\ what(t).at = tab[t].at
             /\ what(t).connected = tab[t].connected /\ what(t).armed = tab[t].armed
             /\ what(t).missed = tab[t].missed /\ what(t).stale = tab[t].stale
             /\ what(t).failed = tab[t].failed /\ what(t).joined = tab[t].joined
             /\ tab[t].fetch = r => what(t).fetch = Nobody /\ what(t).page = PageOf(r)
             /\ tab[t].fetch # r => what(t) = tab[t]
  BY <1>1 DEF Tab, TypeOK
<1> HIDE DEF what
<1>q. QED
  BY <1>2, <1>3 DEF Served, SameMarks, SameTold

\* A request that fails leaves the tabs that wait for it asking, or giving up.
Unserved(t, r) ==
    /\ tab'[t].at = tab[t].at /\ tab'[t].connected = tab[t].connected
    /\ tab'[t].armed = tab[t].armed
    /\ IF tab[t].fetch = r THEN tab'[t].fetch = Nobody /\ (tab'[t].stale \/ tab'[t].failed)
       ELSE tab'[t] = tab[t]

\* It leaves the others alone.
LEMMA FailEffect ==
  ASSUME TypeOK, NEW r \in Requests, RequestFails(r)
  PROVE  tab' \in [Tabs -> Tab] /\ \A t \in Tabs : Unserved(t, r)
<1> DEFINE what(t) == IF tab[t].fetch = r THEN Unanswered(tab[t]) ELSE tab[t]
<1>1. tab' = [t \in Tabs |-> what(t)]
  BY DEF RequestFails
<1>2. ASSUME NEW t \in Tabs
      PROVE  /\ what(t) \in Tab /\ what(t).at = tab[t].at
             /\ what(t).connected = tab[t].connected /\ what(t).armed = tab[t].armed
             /\ tab[t].fetch = r => what(t).fetch = Nobody /\ (what(t).stale \/ what(t).failed)
             /\ tab[t].fetch # r => what(t) = tab[t]
  <2>1. tab[t] \in Tab
    BY DEF TypeOK
  <2>q. QED
    BY <2>1, TabUnanswered
<1> HIDE DEF what
<1>q. QED
  BY <1>1, <1>2 DEF Unserved

-----------------------------------------------------------------------------
(* Types.                                                                  *)

\* The initial state has the types.
LEMMA TypeOKInit == Init => TypeOK
BY DEF Init, TypeOK, Parts, Rows, NoRows, Request, Requesting, Idle, Editor, Editing, AtRest,
       Stream, Tab, Connection, Page, NoPage

\* Every step keeps them.
LEMMA TypeOKStep == TypeOK /\ [Next]_vars => TypeOK'
<1> SUFFICES ASSUME TypeOK, [Next]_vars
             PROVE  TypeOK'
  OBVIOUS
<1>1. ASSUME NEW r \in Requests, Serve(r)
      PROVE  TypeOK'
  <2>1. tab' \in [Tabs -> Tab]
    <3>1. CASE RequestAnswers(r)
      BY <3>1, AnswerEffect
    <3>2. CASE tab' = tab
      BY <3>2 DEF TypeOK
    <3>3. CASE RequestFails(r)
      BY <3>3, FailEffect
    <3>q. QED
      BY <1>1, <3>1, <3>2, <3>3, ServeEffect
         DEF RequestWaits, RequestHits, RequestScans, RequestReads, RequestStores
  <2>q. QED
    BY <1>1, <2>1, ServeEffect DEF TypeOK
<1>2. ASSUME NEW e \in Editors, Edit(e)
      PROVE  TypeOK'
  <2>1. /\ library' \in [Parts -> Nat] /\ rows' \in Rows /\ generation' \in Nat
        /\ scheduled' \in Nat /\ unannounced' \in SUBSET Parts
    <3>1. NoRows \in Rows /\ editor[e] \in Editor
      BY DEF NoRows, Rows, TypeOK
    <3>2. editor[e].done \in SUBSET Parts
      BY <3>1 DEF Editor
    <3>3. CASE EditChanges(e)
      BY <3>3 DEF EditChanges, TypeOK
    <3>4. CASE EditDrops(e)
      BY <3>1, <3>4 DEF EditDrops, Invalidate, TypeOK
    <3>5. CASE EditFails(e)
      BY <3>2, <3>5 DEF EditFails, TypeOK
    <3>6. CASE EditStarts(e) \/ EditEnds(e) \/ EditPublishes(e)
      BY <3>6 DEF EditStarts, EditEnds, EditPublishes, TypeOK
    <3>q. QED
      BY <1>2, <3>3, <3>4, <3>5, <3>6, EditEffect
  <2>q. QED
    BY <1>2, <2>1, EditEffect DEF TypeOK
<1>3. ASSUME NEW t \in Tabs, TabStep(t)
      PROVE  TypeOK'
  BY <1>3, TabEffect DEF TypeOK
<1>4. CASE Fanout
  BY <1>4, FanoutEffect DEF TypeOK
<1>5. CASE Unsubscribe
  BY <1>5 DEF Unsubscribe, StreamFrame, cache, TypeOK
<1>6. CASE UNCHANGED vars
  BY <1>6 DEF vars, cache, wire, counts, TypeOK
<1>q. QED
  BY <1>1, <1>2, <1>3, <1>4, <1>5, <1>6 DEF Next

-----------------------------------------------------------------------------
(* The rows.                                                               *)

\* What an editor does to the parts that are not announced.
LEMMA EditUnannounced ==
  ASSUME TypeOK, NEW e \in Editors, Edit(e), NEW part \in Parts
  PROVE  \/ EditDrops(e)
         \/ /\ rows' = rows /\ generation' = generation
            /\ Unannounced(part) => Unannounced(part)'
            /\ library'[part] # library[part] => Unannounced(part)'
<1> USE DEF Unannounced, OtherEditors, SameDone
<1>1. CASE EditStarts(e)
  BY <1>1, EditEffect DEF EditStarts
<1>2. CASE EditChanges(e)
  BY <1>2, EditEffect DEF EditChanges, TypeOK
<1>3. CASE EditEnds(e)
  BY <1>3, EditEffect DEF EditEnds
<1>4. CASE EditFails(e)
  BY <1>4, EditEffect DEF EditFails
<1>5. CASE EditPublishes(e)
  BY <1>5, EditEffect DEF EditPublishes
<1>q. QED
  BY <1>1, <1>2, <1>3, <1>4, <1>5, EditEffect

\* Steps that touch neither the library nor the editors keep what is announced.
LEMMA SameUnannounced ==
  ASSUME UNCHANGED <<library, editor, unannounced>>, NEW part
  PROVE  Unannounced(part)' <=> Unannounced(part)
BY DEF Unannounced

\* At first nothing is kept and nothing is scanned.
LEMMA RowsInit == Init => RowsInv /\ ScanInv
BY DEF Init, RowsInv, ScanInv, Idle

\* Rows stay good: a scan an announcement crossed is not kept.
LEMMA RowsStep == TypeOK /\ RowsInv /\ ScanInv /\ [Next]_vars => RowsInv' /\ ScanInv'
<1> SUFFICES ASSUME TypeOK, RowsInv, ScanInv, [Next]_vars
             PROVE  RowsInv' /\ ScanInv'
  OBVIOUS
<1>0. ASSUME UNCHANGED <<library, rows, generation, request, editor, unannounced>>
      PROVE  RowsInv' /\ ScanInv'
  BY <1>0 DEF RowsInv, ScanInv, Good, Unannounced
<1>1. ASSUME NEW r \in Requests, Serve(r)
      PROVE  RowsInv' /\ ScanInv'
  <2>0. /\ OtherRequests(r) /\ UNCHANGED <<library, generation, editor, unannounced>>
        /\ \/ RequestWaits(r) \/ RequestHits(r) \/ RequestScans(r) \/ RequestReads(r)
           \/ RequestStores(r) \/ RequestAnswers(r) \/ RequestFails(r)
    BY <1>1, ServeEffect
  <2>t. generation \in Nat /\ request[r].gen \in Nat
    BY DEF TypeOK, Request
  <2>1. \A part : Unannounced(part)' <=> Unannounced(part)
    BY <2>0, SameUnannounced
  <2>2. RowsInv'
    <3>1. CASE RequestStores(r) /\ generation = request[r].gen
      <4>1. Good(request[r].rows, "items") /\ Good(request[r].rows, "albums")
            /\ rows' = request[r].rows
        BY <3>1 DEF ScanInv, RequestStores
      <4>q. QED
        BY <2>0, <2>1, <4>1 DEF RowsInv, Good, Parts
    <3>2. CASE rows' = rows
      BY <2>0, <2>1, <3>2 DEF RowsInv, Good
    <3>q. QED
      BY <2>0, <3>1, <3>2 DEF RequestWaits, RequestHits, RequestScans, RequestReads,
         RequestStores, RequestAnswers, RequestFails
  <2>3. ASSUME NEW q \in Requests
        PROVE  /\ request'[q].gen <= generation'
               /\ request'[q].gen = generation' =>
                   /\ request'[q].at \in {"albums", "store"} => Good(request[q].rows, "items")'
                   /\ request'[q].at = "store" => Good(request[q].rows, "albums")'
    <3>1. CASE q # r
      BY <2>0, <2>1, <3>1 DEF OtherRequests, ScanInv, Good
    <3>2. CASE q = r
      <4>1. CASE RequestReads(r)
        BY <2>0, <2>1, <3>2, <4>1 DEF RequestReads, SameGen, ScanInv, Good
      <4>2. CASE RequestAnswers(r) \/ RequestFails(r)
        <5>0. Idle.gen = 0 /\ Idle.at = "idle" /\ 0 <= generation
          BY <2>t DEF Idle
        <5>1. request'[r].gen = 0 /\ request'[r].at = "idle"
          BY <4>2, <5>0 DEF RequestAnswers, RequestFails
        <5>2. request'[q].at \notin {"albums", "store"} /\ request'[q].gen <= generation'
          BY <2>0, <3>2, <5>0, <5>1
        <5>q. QED
          BY <5>2
      <4>3. CASE RequestScans(r)
        BY <2>0, <2>t, <3>2, <4>3 DEF RequestScans
      <4>4. CASE RequestWaits(r) \/ RequestHits(r) \/ RequestStores(r)
        BY <2>0, <3>2, <4>4 DEF RequestWaits, RequestHits, RequestStores, SameGen, ScanInv
      <4>q. QED
        BY <2>0, <4>1, <4>2, <4>3, <4>4
    <3>q. QED
      BY <3>1, <3>2
  <2>q. QED
    BY <2>2, <2>3 DEF ScanInv
<1>2. ASSUME NEW e \in Editors, Edit(e)
      PROVE  RowsInv' /\ ScanInv'
  <2>0. request' = request
    BY <1>2, EditEffect
  <2>1. CASE EditDrops(e)
    \* The rows are gone, and no scan has begun since.
    <3>1. rows' = NoRows /\ generation' = generation + 1
      BY <2>1 DEF EditDrops, Invalidate
    <3>2. \A r \in Requests : request[r].gen \in Nat /\ generation \in Nat
      BY DEF TypeOK, Request
    <3>q. QED
      BY <2>0, <3>1, <3>2 DEF RowsInv, ScanInv
  <2>2. CASE ~EditDrops(e)
    <3>1. /\ rows' = rows /\ generation' = generation
          /\ \A part \in Parts : /\ Unannounced(part) => Unannounced(part)'
                                 /\ library'[part] # library[part] => Unannounced(part)'
      BY <1>2, <2>2, EditUnannounced DEF Parts
    <3>2. "items" \in Parts /\ "albums" \in Parts
      BY DEF Parts
    <3>q. QED
      BY <2>0, <3>1, <3>2 DEF RowsInv, ScanInv, Good
  <2>q. QED
    BY <2>1, <2>2
<1>3. ASSUME NEW t \in Tabs, TabStep(t)
      PROVE  RowsInv' /\ ScanInv'
  <2>0. UNCHANGED <<library, rows, generation, editor, unannounced>>
    BY <1>3, TabEffect
  <2>1. CASE request' = request
    BY <1>0, <2>0, <2>1
  <2>2. CASE TabFetches(t)
    <3>1. PICK r \in Requests : /\ request'[r].at = "check" /\ request'[r].gen = 0
                                /\ OtherRequests(r)
      BY <2>2 DEF TabFetches
    <3>2. \A part : Unannounced(part)' <=> Unannounced(part)
      BY <2>0, SameUnannounced
    <3>3. RowsInv'
      BY <2>0, <3>2 DEF RowsInv, Good
    <3>4. 0 <= generation
      BY DEF TypeOK
    <3>q. QED
      BY <2>0, <3>1, <3>2, <3>3, <3>4 DEF ScanInv, Good, OtherRequests
  <2>q. QED
    BY <1>3, <2>1, <2>2, TabEffect DEF TabOpens, TabSubscribes, TabConnects, TabDrops,
       TabHears, TabFlushes
<1>4. CASE Fanout
  BY <1>0, <1>4, FanoutEffect
<1>5. CASE Unsubscribe
  BY <1>0, <1>5 DEF Unsubscribe, StreamFrame, cache
<1>6. CASE UNCHANGED vars
  BY <1>0, <1>6 DEF vars, cache
<1>q. QED
  BY <1>1, <1>2, <1>3, <1>4, <1>5, <1>6 DEF Next

-----------------------------------------------------------------------------
(* The streams and the tabs.                                               *)

\* At first no tab is connected.
LEMMA StreamInit == Init => StreamInv
BY DEF Init, StreamInv

\* A stream is there for the tabs that are connected, whatever is done to either.
LEMMA StreamStep == TypeOK /\ StreamInv /\ [Next]_vars => StreamInv'
<1> SUFFICES ASSUME TypeOK, StreamInv, [Next]_vars
             PROVE  StreamInv'
  OBVIOUS
<1>0. ASSUME UNCHANGED <<streams, tab>>
      PROVE  StreamInv'
  BY <1>0 DEF StreamInv
<1>1. ASSUME NEW r \in Requests, Serve(r)
      PROVE  StreamInv'
  <2>1. CASE RequestAnswers(r)
    <3>1. streams' = streams /\ \A t \in Tabs : Served(t, r)
      BY <1>1, <2>1, ServeEffect, AnswerEffect
    <3>q. QED
      BY <3>1 DEF StreamInv, Served, SameMarks
  <2>2. CASE tab' = tab
    BY <1>0, <1>1, <2>2, ServeEffect
  <2>3. CASE RequestFails(r)
    <3>1. streams' = streams /\ \A t \in Tabs : Unserved(t, r)
      BY <1>1, <2>3, ServeEffect, FailEffect
    <3>q. QED
      BY <3>1, NobodyAssumption DEF StreamInv, Unserved
  <2>q. QED
    BY <1>1, <2>1, <2>2, <2>3, ServeEffect
       DEF RequestWaits, RequestHits, RequestScans, RequestReads, RequestStores
<1>2. ASSUME NEW e \in Editors, Edit(e)
      PROVE  StreamInv'
  BY <1>0, <1>2, EditEffect
<1>3. ASSUME NEW t \in Tabs, TabStep(t)
      PROVE  StreamInv'
  <2>0. /\ OtherTabs(t) /\ OtherStreams(t)
        /\ \/ TabOpens(t) \/ TabSubscribes(t) \/ TabConnects(t) \/ TabDrops(t)
           \/ TabHears(t) \/ TabFlushes(t) \/ TabFetches(t)
    BY <1>3, TabEffect
  <2>1. /\ streams'[t].on <=> tab'[t].at \in {"subscribed", "open"}
        /\ ~streams'[t].on => streams'[t].queued = 0
        /\ tab'[t].at = "open" => tab'[t].connected
    BY <2>0 DEF StreamInv, TabOpens, TabSubscribes, TabConnects, TabDrops, TabHears,
       TabFlushes, TabFetches, SameMarks
  <2>2. tab'[t].at = "closed" =>
            ~tab'[t].armed /\ ~tab'[t].stale /\ tab'[t].fetch = Nobody
    <3>1. CASE TabFlushes(t)
      BY <3>1 DEF StreamInv, TabFlushes
    <3>2. CASE TabFetches(t)
      BY <3>2 DEF StreamInv, TabFetches
    <3>q. QED
      BY <2>0, <3>1, <3>2 DEF TabOpens, TabSubscribes, TabConnects, TabDrops, TabHears
  <2>q. QED
    BY <2>0, <2>1, <2>2 DEF StreamInv, OtherTabs, OtherStreams
<1>4. CASE Fanout
  <2>1. \A t \in Tabs : Hears(t)
    BY <1>4, FanoutEffect
  <2>q. QED
    BY <2>1 DEF StreamInv, Hears, SameFetch
<1>5. CASE Unsubscribe
  BY <1>0, <1>5 DEF Unsubscribe
<1>6. CASE UNCHANGED vars
  BY <1>0, <1>6 DEF vars, wire
<1>q. QED
  BY <1>1, <1>2, <1>3, <1>4, <1>5, <1>6 DEF Next

\* At first every tab is closed.
LEMMA TabInit == Init => TabInv
BY DEF Init, TabInv, UpToDate

\* A tab is untouched by what leaves it, the library and the editors alone.
LEMMA SameTab ==
  ASSUME TypeOK, NEW t \in Tabs, UpToDate(t), tab'[t] = tab[t], streams'[t] = streams[t],
         UNCHANGED <<library, editor, unannounced, scheduled>>,
         tab[t].fetch \in Requests /\ ReadsTrue(tab[t].fetch) =>
            Coming(t)' \/ ReadsTrue(tab[t].fetch)'
  PROVE  UpToDate(t)'
<1>1. Coming(t) => Coming(t)'
  BY DEF Coming, Unannounced
<1>2. ShowsLibrary(t) => ShowsLibrary(t)'
  BY DEF ShowsLibrary
<1>q. QED
  BY <1>1, <1>2 DEF UpToDate

\* A request that reads true goes on to, unless something is coming.
LEMMA ServeTabs ==
  ASSUME TypeOK, RowsInv, NEW r \in Requests, Serve(r), NEW t \in Tabs, UpToDate(t)
  PROVE  UpToDate(t)'
<1>0. /\ OtherRequests(r)
      /\ UNCHANGED <<library, editor, scheduled, streams, unannounced>>
      /\ \/ RequestWaits(r) \/ RequestHits(r) \/ RequestScans(r) \/ RequestReads(r)
         \/ RequestStores(r) \/ RequestAnswers(r) \/ RequestFails(r)
  BY ServeEffect
<1>1. ASSUME NEW q \in Requests, q # r, ReadsTrue(q)
      PROVE  ReadsTrue(q)'
  BY <1>0, <1>1 DEF OtherRequests, ReadsTrue
<1>2. CASE RequestAnswers(r)
  <2>1. Served(t, r)
    BY <1>2, AnswerEffect
  <2>2. CASE tab[t].fetch = r
    <3>1. /\ tab'[t].at = tab[t].at /\ SameMarks(t) /\ tab'[t].stale = tab[t].stale
          /\ tab'[t].fetch = Nobody /\ tab'[t].page = PageOf(r)
      BY <2>1, <2>2 DEF Served
    <3>2. Coming(t) => Coming(t)'
      BY <1>0, <3>1 DEF Coming, Unannounced, SameMarks, SameTold
    <3>3. ReadsTrue(r) => ShowsLibrary(t)'
      BY <1>0, <1>2, <3>1 DEF ReadsTrue, RequestAnswers, PageOf, ShowsLibrary
    <3>q. QED
      BY <2>2, <3>1, <3>2, <3>3, NobodyAssumption DEF UpToDate
  <2>3. CASE tab[t].fetch # r
    <3>1. tab'[t] = tab[t]
      BY <2>1, <2>3 DEF Served
    <3>q. QED
      BY <1>0, <1>1, <2>3, <3>1, SameTab
  <2>q. QED
    BY <2>2, <2>3
<1>3. CASE RequestFails(r)
  <2>1. Unserved(t, r)
    BY <1>3, FailEffect
  <2>2. CASE tab[t].fetch = r
    BY <2>1, <2>2 DEF Unserved, UpToDate, Coming
  <2>3. CASE tab[t].fetch # r
    <3>1. tab'[t] = tab[t]
      BY <2>1, <2>3 DEF Unserved
    <3>q. QED
      BY <1>0, <1>1, <2>3, <3>1, SameTab
  <2>q. QED
    BY <2>2, <2>3
<1>4. CASE ~RequestAnswers(r) /\ ~RequestFails(r)
  <2>1. tab' = tab
    BY <1>0, <1>4 DEF RequestWaits, RequestHits, RequestScans, RequestReads, RequestStores
  <2>2. ReadsTrue(r) => Coming(t)' \/ ReadsTrue(r)'
    <3>1. CASE RequestHits(r)
      <4>1. Good(rows, "items") /\ Good(rows, "albums")
        BY <3>1 DEF RowsInv, RequestHits, Parts
      <4>2. CASE \E part \in Parts : Unannounced(part)
        BY <1>0, <4>2, SameUnannounced DEF Coming
      <4>3. CASE rows["items"] = library["items"] /\ rows["albums"] = library["albums"]
        BY <1>0, <3>1, <4>3 DEF ReadsTrue, RequestHits
      <4>q. QED
        BY <4>1, <4>2, <4>3 DEF Good, Parts
    <3>2. CASE RequestReads(r)
      BY <1>0, <3>2 DEF ReadsTrue, RequestReads
    <3>3. CASE RequestWaits(r) \/ RequestScans(r)
      BY <1>0, <3>3 DEF ReadsTrue, RequestWaits, RequestScans
    <3>4. CASE RequestStores(r)
      BY <1>0, <3>4 DEF ReadsTrue, RequestStores, SameRows
    <3>q. QED
      BY <1>0, <1>4, <3>1, <3>2, <3>3, <3>4
  <2>q. QED
    BY <1>0, <1>1, <2>1, <2>2, SameTab
<1>q. QED
  BY <1>2, <1>3, <1>4

\* A change of the library is coming to every tab until it is fanned out.
LEMMA EditTabs ==
  ASSUME TypeOK, NEW e \in Editors, Edit(e), NEW t \in Tabs, UpToDate(t)
  PROVE  UpToDate(t)'
<1>0. /\ OtherEditors(e) /\ UNCHANGED <<request, streams, tab>> /\ scheduled \in Nat
      /\ \/ EditStarts(e) \/ EditChanges(e) \/ EditEnds(e) \/ EditFails(e)
         \/ EditDrops(e) \/ EditPublishes(e)
  BY EditEffect DEF TypeOK
<1>1. CASE EditEnds(e) \/ EditDrops(e)
  BY <1>0, <1>1 DEF EditEnds, EditDrops, UpToDate, Coming
<1>2. CASE EditPublishes(e)
  <2>1. scheduled' > 0
    BY <1>0, <1>2 DEF EditPublishes
  <2>q. QED
    BY <2>1 DEF UpToDate, Coming
<1>3. CASE EditChanges(e)
  <2>1. \E part \in Parts : Unannounced(part)'
    BY <1>0, <1>3 DEF EditChanges, Unannounced
  <2>q. QED
    BY <2>1 DEF UpToDate, Coming
<1>4. CASE EditStarts(e) \/ EditFails(e)
  <2>1. \A part \in Parts : Unannounced(part) => Unannounced(part)'
    BY <1>0, <1>4 DEF EditStarts, EditFails, Unannounced, OtherEditors
  <2>2. /\ UNCHANGED <<library, scheduled>>
        /\ \A f \in Editors : editor[f].at \in {"emit", "publish", "schedule"} =>
              editor'[f].at = editor[f].at
    BY <1>0, <1>4 DEF EditStarts, EditFails, OtherEditors
  <2>3. Coming(t) => Coming(t)'
    BY <1>0, <2>1, <2>2 DEF Coming
  <2>4. /\ ShowsLibrary(t) => ShowsLibrary(t)'
        /\ \A r \in Requests : ReadsTrue(r) => ReadsTrue(r)'
    BY <1>0, <2>2 DEF ShowsLibrary, ReadsTrue
  <2>q. QED
    BY <1>0, <2>3, <2>4 DEF UpToDate
<1>q. QED
  BY <1>0, <1>1, <1>2, <1>3, <1>4

\* A tab that connects again starts over; one that never was has missed what it
\* has missed.
LEMMA TabTabs ==
  ASSUME TypeOK, StreamInv, NEW t \in Tabs, TabStep(t), NEW u \in Tabs, UpToDate(u)
  PROVE  UpToDate(u)'
<1>0. /\ OtherTabs(t) /\ OtherStreams(t) /\ SamePage(t)
      /\ UNCHANGED <<library, editor, scheduled, unannounced>>
      /\ \/ TabOpens(t) \/ TabSubscribes(t) \/ TabConnects(t) \/ TabDrops(t)
         \/ TabHears(t) \/ TabFlushes(t) \/ TabFetches(t)
  BY TabEffect
<1>1. \A part : Unannounced(part)' <=> Unannounced(part)
  BY <1>0, SameUnannounced
<1>2. CASE u # t
  <2>1. \A q \in Requests : ReadsTrue(q) => ReadsTrue(q)'
    <3>1. CASE request' = request
      BY <1>0, <3>1 DEF ReadsTrue
    <3>2. CASE TabFetches(t)
      BY <1>0, <3>2 DEF ReadsTrue, TabFetches, OtherRequests
    <3>q. QED
      BY <1>0, <3>1, <3>2 DEF TabOpens, TabSubscribes, TabConnects, TabDrops, TabHears,
         TabFlushes
  <2>q. QED
    BY <1>0, <1>2, <2>1, SameTab DEF OtherTabs, OtherStreams
<1>3. CASE u = t
  <2>1. CASE TabOpens(t)
    BY <1>3, <2>1 DEF TabOpens, UpToDate
  <2>2. CASE TabSubscribes(t)
    <3>1. Coming(t) => Coming(t)'
      BY <1>0, <1>1, <2>2 DEF Coming, TabSubscribes, SameMarks, SameTold, StreamInv
    <3>2. /\ ShowsLibrary(t) => ShowsLibrary(t)'
          /\ \A r \in Requests : ReadsTrue(r) => ReadsTrue(r)'
      BY <1>0, <2>2 DEF ShowsLibrary, ReadsTrue, SamePage, TabSubscribes
    <3>q. QED
      BY <1>3, <2>2, <3>1, <3>2 DEF UpToDate, TabSubscribes, SameFetch
  <2>3. CASE TabConnects(t) /\ tab[t].connected
    BY <1>3, <2>3 DEF TabConnects, StartsOver, UpToDate, Coming
  <2>4. CASE TabConnects(t) /\ ~tab[t].connected
    <3>1. Coming(t) => Coming(t)'
      BY <1>0, <1>1, <2>4 DEF Coming, TabConnects, SameTold
    <3>2. /\ ShowsLibrary(t) => ShowsLibrary(t)'
          /\ \A r \in Requests : ReadsTrue(r) => ReadsTrue(r)'
      BY <1>0, <2>4 DEF ShowsLibrary, ReadsTrue, SamePage, TabConnects
    <3>q. QED
      BY <1>3, <2>4, <3>1, <3>2 DEF UpToDate, TabConnects, SameFetch
  <2>5. CASE TabDrops(t)
    BY <1>3, <2>5 DEF TabDrops, UpToDate, Coming
  <2>6. CASE TabHears(t)
    BY <1>3, <2>6 DEF TabHears, UpToDate, Coming
  <2>7. CASE TabFlushes(t)
    BY <1>3, <2>7 DEF TabFlushes, StartsOver, UpToDate, Coming
  <2>8. CASE TabFetches(t)
    BY <1>3, <2>8 DEF TabFetches, UpToDate, ReadsTrue
  <2>q. QED
    BY <1>0, <2>1, <2>2, <2>3, <2>4, <2>5, <2>6, <2>7, <2>8
<1>q. QED
  BY <1>2, <1>3

\* An event that is fanned out is queued, or was missed, or is not needed.
LEMMA FanoutTabs ==
  ASSUME TypeOK, StreamInv, Fanout, NEW t \in Tabs, UpToDate(t)
  PROVE  UpToDate(t)'
<1>1. Hears(t) /\ tab[t].at \in Connection
  BY FanoutEffect DEF TypeOK, Tab
<1>2. CASE tab[t].at = "closed"
  BY <1>1, <1>2 DEF UpToDate, Hears
<1>3. CASE streams[t].on
  BY <1>1, <1>3 DEF UpToDate, Hears, Coming
<1>4. CASE tab[t].at = "connecting" \/ tab[t].at = "refused"
  BY <1>1, <1>4 DEF UpToDate, Hears, Coming
<1>q. QED
  BY <1>1, <1>2, <1>3, <1>4 DEF Connection, StreamInv

\* No step makes a tab out of date that nothing is coming for.
LEMMA TabInvStep == TypeOK /\ RowsInv /\ StreamInv /\ TabInv /\ [Next]_vars => TabInv'
<1> SUFFICES ASSUME TypeOK, RowsInv, StreamInv, TabInv, [Next]_vars, NEW t \in Tabs
             PROVE  UpToDate(t)'
  BY DEF TabInv
<1>0. UpToDate(t)
  BY DEF TabInv
<1>1. CASE \E r \in Requests : Serve(r)
  BY <1>0, <1>1, ServeTabs
<1>2. CASE \E e \in Editors : Edit(e)
  BY <1>0, <1>2, EditTabs
<1>3. CASE \E u \in Tabs : TabStep(u)
  BY <1>0, <1>3, TabTabs
<1>4. CASE Fanout
  BY <1>0, <1>4, FanoutTabs
<1>5. CASE Unsubscribe \/ UNCHANGED vars
  <2>1. UNCHANGED <<library, editor, unannounced, scheduled, request, streams, tab>>
    BY <1>5 DEF Unsubscribe, StreamFrame, vars, wire
  <2>2. \A r \in Requests : ReadsTrue(r) => ReadsTrue(r)'
    BY <2>1 DEF ReadsTrue
  <2>q. QED
    BY <1>0, <2>1, <2>2, SameTab
<1>q. QED
  BY <1>1, <1>2, <1>3, <1>4, <1>5 DEF Next

-----------------------------------------------------------------------------
(* The theorems.                                                           *)

\* The inductive invariant holds of every behaviour.
THEOREM Invariant == Spec => []IInv
<1>1. Init => IInv
  BY TypeOKInit, RowsInit, StreamInit, TabInit DEF IInv
<1>2. IInv /\ [Next]_vars => IInv'
  BY TypeOKStep, RowsStep, StreamStep, TabInvStep DEF IInv
<1>q. QED
  BY <1>1, <1>2, PTL DEF Spec

\* What has been announced has nothing left to announce.
LEMMA AnnouncedIsAll == Announced => \A part \in Parts : ~Unannounced(part)
BY DEF Announced, Unannounced

\* Rows that are kept are the library's once every change is announced, for
\* every interleaving of scans, edits and edits that fail (browse.py:72-107,
\* 373-403).
THEOREM RowsStayCurrent == Spec => []RowsAreCurrent
<1>1. IInv => RowsAreCurrent
  BY AnnouncedIsAll DEF IInv, RowsInv, RowsAreCurrent, Good
<1>q. QED
  BY <1>1, Invariant, PTL

\* A settled tab shows the library, but for a request given up, an event missed
\* before its first connection or told before its first page, for every number of
\* tabs, lost connections, full queues and requests without an answer
\* (broker.py:37-70, useEventStream.ts:31-98, queryClient.ts:26-28).
THEOREM TabsBecomeCurrent == Spec => []TabsAreCurrent
<1>1. ASSUME IInv, NEW t \in Tabs, Settled(t),
             ~tab[t].failed, ~tab[t].missed, ~tab[t].joined
      PROVE  ShowsLibrary(t)
  <2>1. UpToDate(t)
    BY <1>1 DEF IInv, TabInv
  <2>2. ~Coming(t)
    BY <1>1, AnnouncedIsAll DEF Coming, Settled
  <2>q. QED
    BY <1>1, <2>1, <2>2 DEF UpToDate, Settled
<1>2. IInv => TabsAreCurrent
  BY <1>1 DEF TabsAreCurrent
<1>q. QED
  BY <1>2, Invariant, PTL

=============================================================================
