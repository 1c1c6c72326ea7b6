---------------------------- MODULE BrowseCache ----------------------------
(***************************************************************************)
(* The rows the Browse pages are made of, kept between changes             *)
(* (beets/browse.py), and how a browser tab hears of a change: the writer  *)
(* drops the rows and publishes (events/emit.py, events/broker.py), the    *)
(* loop puts the event on every stream's queue (api/events.py), and the    *)
(* tab asks again (useEventStream.ts).                                     *)
(*                                                                         *)
(* The library is the version of its album rows and of its item rows: a    *)
(* scan reads them one after the other, and a page reads the albums it     *)
(* shows once more.                                                        *)
(***************************************************************************)
EXTENDS Integers, FiniteSets

CONSTANTS
    Tabs,            \* browser tabs on a Browse page
    Requests,        \* threads that answer a page
    Editors,         \* threads that change the library
    MaxQueue,        \* events a stream's queue holds
    MaxSubscribers,  \* streams at once
    MaxEdits,        \* changes of the library
    MaxDrops,        \* connections lost
    MaxFailures      \* requests that get no answer

Nobody == "nobody"

ASSUME QueueAssumption == MaxQueue \in Nat \ {0}
ASSUME NobodyAssumption == Nobody \notin Requests

Parts == {"albums", "items"}
NoRows == [albums |-> -1, items |-> -1]
NoPage == [albums |-> -1, items |-> -1, shown |-> -1]

VARIABLES
    library,      \* part -> its version
    rows,         \* _ROWS of the library's path
    generation,   \* _GENERATION
    builder,      \* who holds _BUILD_LOCK
    request,      \* request -> what it is doing
    editor,       \* editor -> what it is doing
    scheduled,    \* events on their way to the loop
    streams,      \* tab -> subscribed, its queue
    lingering,    \* subscriptions whose tab is gone
    tab,          \* tab -> its connection, timer, fetch and page; and, ghosts, an
                  \* event missed before it first connected, or told of in vain
    edits, drops, failures,   \* counts, bounded
    unannounced   \* ghost: parts an edit that failed has changed since the rows were dropped

cache == <<rows, generation, builder>>
wire == <<scheduled, streams, lingering>>
counts == <<edits, drops, failures>>
vars == <<library, cache, request, editor, wire, tab, counts, unannounced>>

AtRest == [at |-> "idle", done |-> {}]
Idle == [at |-> "idle", gen |-> 0, rows |-> NoRows]
Subscribers == Cardinality({t \in Tabs : streams[t].on}) + lingering

-----------------------------------------------------------------------------
(* _rows, in the thread of a request.                                      *)

RequestFrame == UNCHANGED <<library, editor, wire, tab, counts, unannounced>>
Becomes(r, what) == request' = [request EXCEPT ![r] = what]

\* What the scan has read, and now part of the library.
WithPart(r, part) == [request[r].rows EXCEPT ![part] = library[part]]

\* A look at the rows under the state lock.
Check(r) ==
    /\ request[r].at = "check"
    /\ Becomes(r, IF rows = NoRows THEN [request[r] EXCEPT !.at = "wait"]
                  ELSE [request[r] EXCEPT !.at = "page", !.rows = rows])
    /\ UNCHANGED cache /\ RequestFrame

\* One builder at a time; who waited for it looks again.
Lock(r) ==
    /\ request[r].at = "wait" /\ builder = Nobody
    /\ builder' = r
    /\ Becomes(r, [request[r] EXCEPT !.at = "locked"])
    /\ UNCHANGED <<rows, generation>> /\ RequestFrame

Recheck(r) ==
    /\ request[r].at = "locked"
    /\ IF rows = NoRows
       THEN /\ Becomes(r, [request[r] EXCEPT !.at = "facts", !.gen = generation])
            /\ UNCHANGED builder
       ELSE /\ Becomes(r, [request[r] EXCEPT !.at = "page", !.rows = rows])
            /\ builder' = Nobody
    /\ UNCHANGED <<rows, generation>> /\ RequestFrame

CollectFacts(r) ==
    /\ request[r].at = "facts"
    /\ Becomes(r, [request[r] EXCEPT !.at = "albums", !.rows = WithPart(r, "items")])
    /\ UNCHANGED cache /\ RequestFrame

BuildRows(r) ==
    /\ request[r].at = "albums"
    /\ Becomes(r, [request[r] EXCEPT !.at = "store", !.rows = WithPart(r, "albums")])
    /\ UNCHANGED cache /\ RequestFrame

\* Mutant: the rows are kept whatever has happened during the scan.
StoreAnyway(r) ==
    /\ request[r].at = "store"
    /\ rows' = request[r].rows
    /\ builder' = Nobody
    /\ Becomes(r, [request[r] EXCEPT !.at = "page"])
    /\ UNCHANGED generation /\ RequestFrame

\* Kept if nothing was announced since the scan began; served either way.
Store(r) ==
    /\ request[r].at = "store"
    /\ rows' = IF generation = request[r].gen THEN request[r].rows ELSE rows
    /\ builder' = Nobody
    /\ Becomes(r, [request[r] EXCEPT !.at = "page"])
    /\ UNCHANGED generation /\ RequestFrame

\* Matched, sorted and counted by the rows, shown as the albums are now; the
\* tab takes it if it still waits for it.
Answer(r) ==
    LET page == [albums |-> request[r].rows.albums, items |-> request[r].rows.items,
                 shown |-> library["albums"]] IN
    /\ request[r].at = "page"
    /\ Becomes(r, Idle)
    /\ tab' = [t \in Tabs |-> IF tab[t].fetch = r
                              THEN [tab[t] EXCEPT !.fetch = Nobody, !.retried = FALSE,
                                                  !.page = page]
                              ELSE tab[t]]
    /\ UNCHANGED <<library, cache, editor, wire, counts, unannounced>>

\* The thread raises, or its answer is lost: the tab asks once more, and then
\* gives up and goes on showing what it has.
Unanswered(s) ==
    IF s.retried THEN [s EXCEPT !.fetch = Nobody, !.retried = FALSE, !.failed = TRUE]
    ELSE [s EXCEPT !.fetch = Nobody, !.retried = TRUE, !.stale = TRUE]

Fail(r) ==
    /\ request[r].at # "idle" /\ failures < MaxFailures
    /\ failures' = failures + 1
    /\ Becomes(r, Idle)
    /\ builder' = IF builder = r THEN Nobody ELSE builder
    /\ tab' = [t \in Tabs |-> IF tab[t].fetch = r THEN Unanswered(tab[t]) ELSE tab[t]]
    /\ UNCHANGED <<library, rows, generation, editor, wire, edits, drops, unannounced>>

-----------------------------------------------------------------------------
(* A change of the library and its announcement.                           *)

EditFrame == UNCHANGED <<builder, request, streams, lingering, tab, drops, failures>>
Moves(e, where) == editor' = [editor EXCEPT ![e].at = where]

\* One writes at a time; the announcement is made when the next may write.
StartEdit(e) ==
    /\ editor[e].at = "idle" /\ edits < MaxEdits
    /\ \A other \in Editors : editor[other].at # "edit"
    /\ edits' = edits + 1
    /\ editor' = [editor EXCEPT ![e] = [at |-> "edit", done |-> {}]]
    /\ UNCHANGED <<library, rows, generation, scheduled, unannounced>> /\ EditFrame

Change(e, part) ==
    /\ editor[e].at = "edit" /\ part \notin editor[e].done
    /\ library' = [library EXCEPT ![part] = @ + 1]
    /\ editor' = [editor EXCEPT ![e].done = @ \union {part}]
    /\ UNCHANGED <<rows, generation, scheduled, edits, unannounced>> /\ EditFrame

\* An import publishes through the broker alone, the others through emit.py.
EndEdit(e) ==
    /\ editor[e].at = "edit"
    /\ \/ Moves(e, "emit") \/ Moves(e, "publish")
    /\ UNCHANGED <<library, rows, generation, scheduled, edits, unannounced>> /\ EditFrame

\* An edit that raises part of the way announces nothing.
FailEdit(e) ==
    /\ editor[e].at = "edit"
    /\ editor' = [editor EXCEPT ![e] = AtRest]
    /\ unannounced' = unannounced \union editor[e].done
    /\ UNCHANGED <<library, rows, generation, scheduled, edits>> /\ EditFrame

\* The rows go and a scan under way is told not to keep its own.
Invalidate ==
    /\ generation' = generation + 1
    /\ rows' = NoRows
    /\ unannounced' = {}

EmitLibraryChanged(e) ==
    /\ editor[e].at = "emit"
    /\ Moves(e, "publish")
    /\ Invalidate
    /\ UNCHANGED <<library, scheduled, edits>> /\ EditFrame

PublishLibraryChanged(e) ==
    /\ editor[e].at = "publish"
    /\ Moves(e, "schedule")
    /\ Invalidate
    /\ UNCHANGED <<library, scheduled, edits>> /\ EditFrame

Publish(e) ==
    /\ editor[e].at = "schedule"
    /\ editor' = [editor EXCEPT ![e] = AtRest]
    /\ scheduled' = scheduled + 1
    /\ UNCHANGED <<library, rows, generation, edits, unannounced>> /\ EditFrame

-----------------------------------------------------------------------------
(* The streams.                                                            *)

StreamFrame == UNCHANGED <<library, cache, editor, edits, failures, unannounced>>

\* A full queue drops the event: each of them makes the tab ask again.
Fanout ==
    /\ scheduled > 0 /\ scheduled' = scheduled - 1
    /\ streams' = [t \in Tabs |->
            IF streams[t].on /\ streams[t].queued < MaxQueue
            THEN [streams[t] EXCEPT !.queued = @ + 1] ELSE streams[t]]
    /\ tab' = [t \in Tabs |-> IF tab[t].at = "connecting" /\ ~tab[t].connected
                              THEN [tab[t] EXCEPT !.missed = TRUE] ELSE tab[t]]
    /\ UNCHANGED <<request, lingering, drops>> /\ StreamFrame

\* A page is opened: it asks for its rows and connects.
Open(t) ==
    /\ tab[t].at = "closed"
    /\ tab' = [tab EXCEPT ![t].at = "connecting", ![t].stale = TRUE]
    /\ UNCHANGED <<request, wire, drops>> /\ StreamFrame

Subscribe(t) ==
    /\ tab[t].at = "connecting"
    /\ IF Subscribers < MaxSubscribers
       THEN /\ streams' = [streams EXCEPT ![t] = [on |-> TRUE, queued |-> 0]]
            /\ tab' = [tab EXCEPT ![t].at = "subscribed"]
       ELSE /\ tab' = [tab EXCEPT ![t].at = "refused"]
            /\ UNCHANGED streams
    /\ UNCHANGED <<request, scheduled, lingering, drops>> /\ StreamFrame

\* What the tab shows is to be fetched again, what is on its way is dropped; but
\* where nothing is shown yet, what is on its way is all it waits for.
Again(s) ==
    IF s.page = NoPage /\ (s.stale \/ s.fetch # Nobody)
    THEN [s EXCEPT !.armed = FALSE, !.joined = s.fetch # Nobody]
    ELSE [s EXCEPT !.stale = TRUE, !.fetch = Nobody, !.retried = FALSE, !.armed = FALSE]

\* Mutant: no connection has anything to catch up on.
OnOpenOnly(t) ==
    /\ tab[t].at = "subscribed"
    /\ tab' = [tab EXCEPT ![t].at = "open", ![t].connected = TRUE]
    /\ UNCHANGED <<request, wire, drops>> /\ StreamFrame

\* The first connection has nothing to catch up on, a later one has.
OnOpen(t) ==
    /\ tab[t].at = "subscribed"
    /\ tab' = [tab EXCEPT ![t] =
            [(IF @.connected THEN Again(@) ELSE @) EXCEPT !.at = "open", !.connected = TRUE]]
    /\ UNCHANGED <<request, wire, drops>> /\ StreamFrame

\* The server learns of it when it writes to the stream.
Drop(t) ==
    /\ tab[t].at \in {"subscribed", "open"} /\ drops < MaxDrops
    /\ drops' = drops + 1
    /\ streams' = [streams EXCEPT ![t] = [on |-> FALSE, queued |-> 0]]
    /\ lingering' = lingering + 1
    /\ tab' = [tab EXCEPT ![t].at = "connecting", ![t].missed = @ \/ ~tab[t].connected]
    /\ UNCHANGED <<request, scheduled>> /\ StreamFrame

Unsubscribe ==
    /\ lingering > 0 /\ lingering' = lingering - 1
    /\ UNCHANGED <<request, scheduled, streams, tab, drops>> /\ StreamFrame

OnMessage(t) ==
    /\ tab[t].at = "open" /\ streams[t].queued > 0
    /\ streams' = [streams EXCEPT ![t].queued = @ - 1]
    /\ tab' = [tab EXCEPT ![t].armed = TRUE]
    /\ UNCHANGED <<request, scheduled, lingering, drops>> /\ StreamFrame

\* A burst is one round of requests, made when it is over.
Flush(t) ==
    /\ tab[t].armed
    /\ tab' = [tab EXCEPT ![t] = Again(@)]
    /\ UNCHANGED <<request, wire, drops>> /\ StreamFrame

Fetch(t, r) ==
    /\ tab[t].stale /\ request[r].at = "idle"
    /\ tab' = [tab EXCEPT ![t] = [@ EXCEPT !.stale = FALSE, !.fetch = r, !.failed = FALSE,
                                           !.missed = FALSE, !.joined = FALSE]]
    /\ Becomes(r, [Idle EXCEPT !.at = "check"])
    /\ UNCHANGED <<wire, drops>> /\ StreamFrame

-----------------------------------------------------------------------------
Init ==
    /\ library = [part \in Parts |-> 0]
    /\ rows = NoRows /\ generation = 0 /\ builder = Nobody
    /\ request = [r \in Requests |-> Idle]
    /\ editor = [e \in Editors |-> AtRest]
    /\ scheduled = 0
    /\ streams = [t \in Tabs |-> [on |-> FALSE, queued |-> 0]]
    /\ lingering = 0
    /\ tab = [t \in Tabs |-> [at |-> "closed", connected |-> FALSE, armed |-> FALSE,
                              stale |-> FALSE, fetch |-> Nobody, retried |-> FALSE,
                              failed |-> FALSE, page |-> NoPage,
                              missed |-> FALSE, joined |-> FALSE]]
    /\ edits = 0 /\ drops = 0 /\ failures = 0 /\ unannounced = {}

Serve(r) == \/ Check(r) \/ Lock(r) \/ Recheck(r) \/ CollectFacts(r) \/ BuildRows(r)
            \/ Store(r) \/ Answer(r) \/ Fail(r)
Edit(e) == \/ StartEdit(e) \/ EndEdit(e) \/ FailEdit(e)
           \/ \E part \in Parts : Change(e, part)
           \/ EmitLibraryChanged(e) \/ PublishLibraryChanged(e) \/ Publish(e)
TabStep(t) == \/ Open(t) \/ Subscribe(t) \/ OnOpen(t) \/ Drop(t) \/ OnMessage(t) \/ Flush(t)
              \/ \E r \in Requests : Fetch(t, r)

Next == \/ \E r \in Requests : Serve(r)
        \/ \E e \in Editors : Edit(e)
        \/ \E t \in Tabs : TabStep(t)
        \/ Fanout \/ Unsubscribe

Spec == Init /\ [][Next]_vars

-----------------------------------------------------------------------------
(* Properties.                                                             *)

\* Nothing has been changed that is not announced yet.
Announced == unannounced = {} /\ \A e \in Editors :
    editor[e].at \in {"idle", "schedule"} \/ editor[e].done = {}

\* Rows that are kept are the library's: no scan a change crossed is kept
\* past its announcement (browse.py:72-107, 373-403), and only an edit that
\* failed part of the way leaves old ones (api/albums.py:225-228).
RowsAreCurrent ==
    Announced /\ rows # NoRows =>
        \A part \in Parts : rows[part] = library[part]

\* What browse.py says of the rows: every change announces itself to them, so
\* those kept while nobody changes anything are current.
KeptRowsAreCurrent ==
    (\A e \in Editors : editor[e].at \in {"idle", "schedule"}) /\ rows # NoRows =>
        \A part \in Parts : rows[part] = library[part]

ShowsLibrary(t) ==
    tab[t].page = [albums |-> library["albums"], items |-> library["items"],
                   shown |-> library["albums"]]

\* Every change has been announced and fanned out, and tab t, connected, waits
\* for nothing.
Settled(t) ==
    /\ Announced /\ scheduled = 0 /\ \A e \in Editors : editor[e].at = "idle"
    /\ tab[t].at = "open" /\ streams[t].queued = 0
    /\ ~tab[t].armed /\ ~tab[t].stale /\ tab[t].fetch = Nobody

\* Such a tab shows the library, whatever was dropped by a full queue, cut off
\* with its connection, overtaken by a slower answer or asked for twice; but for
\* a request given up, and a page asked for before a change announced ahead of
\* the first connection, or told to the tab while it had nothing to show yet
\* (broker.py:37-70, useEventStream.ts:31-98, queryClient.ts:26-28).
TabsAreCurrent ==
    \A t \in Tabs : Settled(t) =>
        tab[t].failed \/ tab[t].missed \/ tab[t].joined \/ ShowsLibrary(t)

\* What useEventStream says of a first connection: it has nothing to catch up on.
FirstConnectionMissesNothing ==
    \A t \in Tabs : Settled(t) => tab[t].failed \/ tab[t].joined \/ ShowsLibrary(t)

\* What it says of an event: the views are fetched again when the server says the
\* library changed.
ToldTabsAskAgain ==
    \A t \in Tabs : Settled(t) => tab[t].failed \/ tab[t].missed \/ ShowsLibrary(t)

=============================================================================
