----------------------------- MODULE ImportJob ------------------------------
(***************************************************************************)
(* One import job: the worker thread that runs beets' serial pipeline      *)
(* (import_session.py), the bridge it parks on and emits through, the      *)
(* registry's feed (import_jobs/registry.py) and the requests that decide  *)
(* and stop. Requests run one at a time on the event loop; any thread may  *)
(* poll. A poll, and the first half of a decision, drains the bridge in    *)
(* two passes, outcomes then parks, and the worker goes on between them.   *)
(***************************************************************************)
EXTENDS Naturals, FiniteSets, Sequences, SequencesExt

CONSTANTS
  None,
  Modes,        \* how the job answers its questions, subset of AllModes
  Actions,      \* what a request may answer a candidate with
  MaxAlbums,    \* bound: feed indexes
  MaxRequests,  \* bound: decisions sent
  Raises        \* whether beets may raise

ImportActions == {"apply", "asis", "astracks", "skip", "search", "rescan"}
DupActions == {"skip_new", "keep_both", "replace", "merge"}
\* The decision of a banked row: a match, or an answer to its duplicate.
Directives == {"pinned", "asis", "astracks"} \cup DupActions
AllModes == {"attended", "unattended", "sweep"} \cup Directives

ASSUME ModesAssumption == Modes \subseteq AllModes /\ Actions \subseteq ImportActions
ASSUME BoundsAssumption == MaxAlbums \in Nat /\ MaxRequests \in Nat

Indexes == 0..(MaxAlbums - 1)
Revisions == 0..MaxRequests
LANDING == {"apply", "asis", "astracks"}           \* _APPLY_ACTIONS
DUP_LANDING == {"keep_both", "replace", "merge"}   \* _DUP_IMPORTED_ACTIONS
SET_ASIDE == {"needs_review", "needs_dup_resolution"}

\* rev: the list the person was looking at; echo: whether the client says so.
Decision == [act : ImportActions \cup DupActions, rev : Revisions, echo : BOOLEAN]
Stopped == [act |-> "stop", rev |-> 0, echo |-> FALSE]  \* _STOP_REQUESTED
Answers == Decision \cup {Stopped, None}
Slot == [answer : Answers, answered : BOOLEAN]  \* _ReplySlot

ASSUME NoneAssumption ==
  None \notin Decision \cup {Stopped} /\ None \notin Slot /\ None \notin {"poll", "loop"}

VARIABLES
  mode,
  \* the worker thread
  worker,     \* where it is, its album, the park's revision, the list's revision, its answer
  next,       \* the next feed index
  awaiting,   \* the album whose library id is still to be emitted
  inWindow,   \* _astracks_in_flight
  merging,    \* a merged task waits to be looked up
  fate,       \* history: what became of each album
  \* the bridge
  stop, aborted,
  slot,       \* the registered park: its answer and the answered mark
  outcomes, parks, prompts,
  \* the registry
  phase, rows,
  heldParks, heldPrompts,  \* pending_parked, pending_duplicate
  counts,     \* the sweep's counters
  lock,       \* who drains
  recorded,   \* the folder was handed to the recorder as fully landed
  \* the event loop's decision request
  request, sent,
  seen, twice  \* history: the questions answered, and whether one was twice

workerVars == <<worker, next, awaiting, inWindow, merging, fate>>
bridgeVars == <<stop, aborted, slot, outcomes, parks, prompts>>
feedVars == <<rows, heldParks, heldPrompts, counts>>
jobVars == <<phase, recorded>>
requestVars == <<request, sent, seen, twice>>
vars == <<mode, workerVars, bridgeVars, feedVars, jobVars, lock, requestVars>>

Fates == {"open", "landed", "skipped", "aside", "refused", "merged", "there"}
Row == [status : {"applied", "skipped", "decided"} \cup SET_ASIDE,
        action : ImportActions \cup {None}, dup : DupActions \cup {None},
        id : BOOLEAN, note : BOOLEAN,
        parked : Revisions \cup {None}, prompt : BOOLEAN]

WorkerIdle == [pc |-> "choose", i |-> 0, rev |-> 0, list |-> 0, answer |-> None]
RequestIdle == [pc |-> "idle", i |-> 0, d |-> None]

Init ==
  /\ mode \in Modes
  /\ worker = WorkerIdle /\ next = 0 /\ awaiting = None
  /\ inWindow = FALSE /\ merging = FALSE
  /\ fate = [i \in Indexes |-> "open"]
  /\ stop = FALSE /\ aborted = FALSE /\ slot = None
  /\ outcomes = <<>> /\ parks = <<>> /\ prompts = <<>>
  /\ phase = "running" /\ recorded = FALSE
  /\ rows = [i \in Indexes |-> None]
  /\ heldParks = [i \in Indexes |-> None] /\ heldPrompts = {}
  /\ counts = [processed |-> 0, banked |-> 0, landed |-> 0]
  /\ lock = None
  /\ request = RequestIdle /\ sent = 0 /\ seen = {} /\ twice = FALSE

(***************************************************************************)
(* The worker.                                                             *)
(***************************************************************************)
At(pc) == worker.pc = pc
To(pc) == worker' = [worker EXCEPT !.pc = pc]
Emitted(kinds) == outcomes \o [k \in DOMAIN kinds |-> [i |-> worker.i, kind |-> kinds[k]]]
Ends(f) == fate' = [fate EXCEPT ![worker.i] = f] /\ To("choose")
Unattended == mode # "attended"
\* _flush_album_ids: only a task beets added has an album.
Flushed ==
  IF awaiting # None /\ fate[awaiting] = "landed"
    THEN Append(outcomes, [i |-> awaiting, kind |-> "album_id"]) ELSE outcomes

\* abort_now, beets' own handler, and the flush at the end of run().
Abort ==
  /\ aborted' = TRUE
  /\ To("ended")
  /\ outcomes' = Flushed
  /\ awaiting' = None
  /\ UNCHANGED <<mode, next, inWindow, merging, fate, stop, slot, parks, prompts,
                 feedVars, jobVars, lock, requestVars>>

StopLands == stop /\ (At("choose") \/ (At("expand") /\ ~inWindow)) /\ Abort

PipelineEnds ==
  /\ At("choose") /\ ~merging
  /\ To("ended")
  /\ outcomes' = Flushed
  /\ awaiting' = None
  /\ UNCHANGED <<mode, next, inWindow, merging, fate, stop, aborted, slot, parks, prompts,
                 feedVars, jobVars, lock, requestVars>>

\* choose_match up to the claim of its feed index.
ChooseMatch ==
  /\ At("choose") /\ ~stop /\ next < MaxAlbums
  /\ outcomes' = Flushed
  /\ awaiting' = None
  /\ inWindow' = FALSE
  /\ merging' = FALSE
  /\ worker' = [WorkerIdle EXCEPT !.pc = "matched", !.i = next]
  /\ next' = next + 1
  /\ UNCHANGED <<mode, fate, stop, aborted, slot, parks, prompts, feedVars, jobVars,
                 lock, requestVars>>

Emits(kind, awaits) ==
  /\ At("matched")
  /\ outcomes' = Emitted(<<kind>>)
  /\ awaiting' = IF awaits THEN worker.i ELSE None
  /\ UNCHANGED <<mode, next, merging, stop, aborted, slot, parks, prompts, feedVars,
                 jobVars, lock, requestVars>>

StrongMatch ==
  /\ mode \notin Directives
  /\ Emits("applied", TRUE)
  /\ To("resolve")
  /\ UNCHANGED <<inWindow, fate>>

NoCandidates ==
  /\ mode \notin {"asis", "astracks"}
  /\ Emits("skipped", FALSE)
  /\ Ends("skipped")
  /\ UNCHANGED inWindow

UncertainMatch ==
  /\ mode \notin Directives
  /\ Emits("needs_review", TRUE)
  /\ IF Unattended THEN Ends("aside") ELSE To("parking") /\ UNCHANGED fate
  /\ UNCHANGED inWindow

\* _directive_choice.
DirectiveChoice ==
  /\ mode \in Directives
  /\ Emits("applied", mode # "astracks")
  /\ To(IF mode = "astracks" THEN "expand" ELSE "resolve")
  /\ inWindow' = (mode = "astracks")
  /\ UNCHANGED fate

\* Mutant: a stop is only looked at by the hooks.
ParkUnderStop ==
  /\ At("parking")
  /\ slot' = [answer |-> None, answered |-> FALSE]
  /\ parks' = Append(parks, [i |-> worker.i, rev |-> worker.rev])
  /\ To("parked")
  /\ UNCHANGED <<mode, next, awaiting, inWindow, merging, fate, stop, aborted,
                 outcomes, prompts, feedVars, jobVars, lock, requestVars>>

\* park: refuse under a stop, or register the slot and hand the album over.
Park ==
  /\ At("parking")
  /\ IF stop
       THEN Abort
       ELSE /\ slot' = [answer |-> None, answered |-> FALSE]
            /\ parks' = Append(parks, [i |-> worker.i, rev |-> worker.rev])
            /\ To("parked")
            /\ UNCHANGED <<mode, next, awaiting, inWindow, merging, fate, stop, aborted,
                           outcomes, prompts, feedVars, jobVars, lock, requestVars>>

ParkDuplicate ==
  /\ At("asking")
  /\ IF stop
       THEN Abort
       ELSE /\ slot' = [answer |-> None, answered |-> FALSE]
            /\ prompts' = Append(prompts, worker.i)
            /\ To("asked")
            /\ UNCHANGED <<mode, next, awaiting, inWindow, merging, fate, stop, aborted,
                           outcomes, parks, feedVars, jobVars, lock, requestVars>>

\* reply.get() returns; the slot stays registered, its queue empty.
TakeReply ==
  /\ worker.pc \in {"parked", "asked"}
  /\ slot.answer # None
  /\ worker' = [worker EXCEPT !.pc = IF At("parked") THEN "woken" ELSE "told",
                              !.answer = slot.answer]
  /\ slot' = [slot EXCEPT !.answer = None]
  /\ UNCHANGED <<mode, next, awaiting, inWindow, merging, fate, stop, aborted, outcomes,
                 parks, prompts, feedVars, jobVars, lock, requestVars>>

ReleaseStopped ==
  /\ worker.pc \in {"woken", "told"}
  /\ worker.answer = Stopped
  /\ slot' = None
  /\ aborted' = TRUE
  /\ To("ended")
  /\ outcomes' = Flushed
  /\ awaiting' = None
  /\ UNCHANGED <<mode, next, inWindow, merging, fate, stop, parks, prompts, feedVars,
                 jobVars, lock, requestVars>>

\* Mutant: an apply is checked against the length of the list alone.
IsOutOfRange(outOfRange) == worker.answer.act = "apply" /\ outOfRange

\* _park_stale_apply: the index names nothing in the list, or the client sent
\* the revision of another one; a client that sends none passes with any index
\* in range.
IsStaleApply(outOfRange) ==
  /\ worker.answer.act = "apply"
  /\ outOfRange \/ (worker.answer.echo /\ worker.answer.rev # worker.rev)

\* The slot is released and the answer is acted on (_park_with_research,
\* _apply_choice).  An index of the list that was shown may be out of range in
\* one swapped in since.
ReleaseAnswered ==
  /\ At("woken") /\ worker.answer # Stopped
  /\ slot' = None
  /\ \E outOfRange \in {FALSE, worker.list > worker.answer.rev} :
       LET act == worker.answer.act
           stale == IsStaleApply(outOfRange)
       IN  \/ (act \in {"search", "rescan"} \/ stale) /\ To("relook") /\ UNCHANGED <<inWindow, fate>>
           \/ act \in {"apply", "asis"} /\ ~stale /\ To("resolve") /\ UNCHANGED <<inWindow, fate>>
           \/ act = "astracks" /\ To("expand") /\ inWindow' = TRUE /\ UNCHANGED fate
           \/ act = "skip" /\ Ends("skipped") /\ UNCHANGED inWindow
  /\ UNCHANGED <<mode, next, awaiting, merging, stop, aborted, outcomes, parks, prompts,
                 feedVars, jobVars, lock, requestVars>>

\* A re-park: the list is swapped by a lookup that found something, the
\* revision grows, needs_review is emitted again.
Relook ==
  /\ At("relook")
  /\ \E found \in BOOLEAN :
       /\ worker.answer.act = "apply" => ~found
       /\ worker' = [worker EXCEPT !.pc = "parking", !.rev = @ + 1,
                                   !.list = IF found THEN worker.rev + 1 ELSE @]
  /\ outcomes' = Emitted(<<"needs_review">>)
  /\ UNCHANGED <<mode, next, awaiting, inWindow, merging, fate, stop, aborted, slot, parks,
                 prompts, feedVars, jobVars, lock, requestVars>>

NoDuplicate ==
  /\ At("resolve")
  /\ To("place")
  /\ UNCHANGED <<mode, next, awaiting, inWindow, merging, fate, bridgeVars, feedVars,
                 jobVars, lock, requestVars>>

\* get_duplicate_action.
FoundDuplicate ==
  /\ At("resolve")
  /\ mode = "merge" => next < MaxAlbums
  /\ IF stop
       THEN Abort
       ELSE /\ outcomes' = Emitted(<<"needs_dup_resolution">>)
            /\ IF mode \in DupActions
                 THEN /\ worker' = [worker EXCEPT !.pc = "act", !.answer = [act |-> mode, rev |-> 0, echo |-> FALSE]]
                      /\ UNCHANGED fate
                 ELSE IF Unattended THEN Ends("aside") ELSE To("asking") /\ UNCHANGED fate
            /\ UNCHANGED <<mode, next, awaiting, inWindow, merging, stop, aborted, slot, parks,
                           prompts, feedVars, jobVars, lock, requestVars>>

ReleaseDuplicate ==
  /\ At("told") /\ worker.answer # Stopped
  /\ slot' = None
  /\ To("act")
  /\ UNCHANGED <<mode, next, awaiting, inWindow, merging, fate, stop, aborted, outcomes,
                 parks, prompts, feedVars, jobVars, lock, requestVars>>

\* _beets_dup_action; a replace disposes of the old copies first.
ActOnDuplicate ==
  /\ At("act")
  /\ LET act == worker.answer.act IN
       \/ act = "skip_new" /\ Ends("skipped") /\ UNCHANGED merging
       \/ act \in {"keep_both", "replace"} /\ To("place") /\ UNCHANGED <<fate, merging>>
       \/ act = "merge" /\ Ends("merged") /\ merging' = TRUE
  /\ UNCHANGED <<mode, next, awaiting, inWindow, bridgeVars, feedVars, jobVars, lock, requestVars>>

\* _replace_duplicates_now refuses: a note, and with stale consent the prompt.
RefuseReplace ==
  /\ At("act") /\ worker.answer.act = "replace"
  /\ outcomes' = Emitted(<<"note">>)
  /\ prompts' \in {prompts} \cup (IF mode = "replace" THEN {Append(prompts, worker.i)} ELSE {})
  /\ Ends("refused")
  /\ UNCHANGED <<mode, next, awaiting, inWindow, merging, stop, aborted, slot, parks, feedVars,
                 jobVars, lock, requestVars>>

\* task.add and the placement; an expansion reaches its last track.
Land ==
  /\ worker.pc \in {"place", "expand"}
  /\ Ends("landed")
  /\ UNCHANGED <<mode, next, awaiting, inWindow, merging, bridgeVars, feedVars, jobVars,
                 lock, requestVars>>

\* A track beets finds in the library is skipped (get_duplicate_action's
\* singleton arm); here every track of the expansion is.
SkipTracks ==
  /\ At("expand")
  /\ Ends("there")
  /\ UNCHANGED <<mode, next, awaiting, inWindow, merging, bridgeVars, feedVars, jobVars,
                 lock, requestVars>>

(***************************************************************************)
(* The feed.                                                               *)
(***************************************************************************)
FreshRow(kind) ==
  [status |-> CASE kind = "album_id" -> "applied" [] kind = "note" -> "needs_dup_resolution"
                [] OTHER -> kind,
   action |-> None, dup |-> None, id |-> (kind = "album_id"), note |-> (kind = "note"),
   parked |-> None, prompt |-> FALSE]

\* _drain_outcomes_locked, one outcome.
WithOutcome(feed, o) ==
  CASE feed[o.i] = None -> [feed EXCEPT ![o.i] = FreshRow(o.kind)]
    [] feed[o.i] # None /\ o.kind = "note" -> [feed EXCEPT ![o.i].note = TRUE]
    [] feed[o.i] # None /\ o.kind = "needs_review" ->
         [feed EXCEPT ![o.i].status = o.kind, ![o.i].note = FALSE]
    [] feed[o.i] # None /\ o.kind = "needs_dup_resolution" -> [feed EXCEPT ![o.i].status = o.kind]
    [] feed[o.i] # None /\ o.kind = "album_id" -> [feed EXCEPT ![o.i].id = TRUE]
    [] OTHER -> feed

Prompted(row) == [row EXCEPT !.prompt = TRUE, !.status = "needs_dup_resolution"]

\* _drain_pending_locked: what an earlier pass popped before its row existed.
Replayed(feed) ==
  [i \in Indexes |->
     IF feed[i] = None THEN None
     ELSE LET parked == IF heldParks[i] = None THEN feed[i]
                        ELSE [feed[i] EXCEPT !.parked = heldParks[i]]
          IN IF i \in heldPrompts THEN Prompted(parked) ELSE parked]

\* _drain_sweep_locked, one outcome.
Counted(c, o) ==
  CASE o.kind = "album_id" -> [c EXCEPT !.landed = @ + 1]
    [] o.kind = "needs_dup_resolution" -> [c EXCEPT !.banked = @ + 1]
    [] o.kind = "applied" -> [c EXCEPT !.processed = @ + 1]
    [] OTHER -> [c EXCEPT !.processed = @ + 1, !.banked = @ + 1]

\* The first pass: outcomes, then the buffers.
FirstPass ==
  IF mode = "sweep"
    THEN /\ counts' = FoldLeft(Counted, counts, outcomes)
         /\ UNCHANGED <<rows, heldParks, heldPrompts>>
    ELSE LET feed == FoldLeft(WithOutcome, rows, outcomes) IN
         /\ rows' = Replayed(feed)
         /\ heldParks' = [i \in Indexes |-> IF feed[i] = None THEN heldParks[i] ELSE None]
         /\ heldPrompts' = {i \in heldPrompts : feed[i] = None}
         /\ UNCHANGED counts

\* The second pass: parks and prompts, buffered where there is no row yet.
NewPark(i) ==
  LET own == SelectSeq(parks, LAMBDA p : p.i = i) IN
  IF own = <<>> THEN None ELSE Last(own).rev
WithParks(feed) ==
  [i \in Indexes |->
     IF feed[i] = None THEN None
     ELSE LET parked == IF NewPark(i) = None THEN feed[i]
                        ELSE [feed[i] EXCEPT !.parked = NewPark(i)]
          IN IF i \in ToSet(prompts) THEN Prompted(parked) ELSE parked]
\* Mutant: a park without a row is discarded.
SecondPassDiscards(feed, held, heldP) ==
  /\ rows' = WithParks(feed)
  /\ heldParks' = held
  /\ heldPrompts' = heldP

SecondPass(feed, held, heldP) ==
  /\ rows' = WithParks(feed)
  /\ heldParks' = [i \in Indexes |->
       IF feed[i] = None /\ NewPark(i) # None THEN NewPark(i) ELSE held[i]]
  /\ heldPrompts' = heldP \cup {i \in ToSet(prompts) : feed[i] = None}

DrainOutcomes ==
  /\ FirstPass
  /\ outcomes' = <<>>
  /\ UNCHANGED <<mode, workerVars, stop, aborted, slot, parks, prompts, jobVars>>

DrainParks ==
  /\ SecondPass(rows, heldParks, heldPrompts)
  /\ parks' = <<>> /\ prompts' = <<>>
  /\ UNCHANGED <<mode, workerVars, stop, aborted, slot, outcomes, counts, jobVars>>

PollOutcomes ==
  /\ lock = None
  /\ DrainOutcomes
  /\ lock' = "poll"
  /\ UNCHANGED requestVars

PollParks ==
  /\ lock = "poll"
  /\ DrainParks
  /\ lock' = None
  /\ UNCHANGED requestVars

(***************************************************************************)
(* The requests.                                                           *)
(***************************************************************************)
Room(act) == act = "merge" => next < MaxAlbums

\* A decision about a question that was shown, by any tab that shows it; its
\* drain's first pass.
SubmitDrain(question, d) ==
  /\ lock = None /\ request.pc = "idle" /\ sent < MaxRequests
  /\ request' = [pc |-> "draining", i |-> question[2], d |-> d]
  /\ sent' = sent + 1
  /\ seen' = seen \cup {question}
  /\ twice' = (twice \/ question \in seen)
  /\ DrainOutcomes
  /\ lock' = "loop"

\* Only of an apply does it matter whether the client echoes the revision.
SubmitChoice(i, act, rev, echo) ==
  /\ echo \/ act = "apply"
  /\ rows[i] # None
  /\ rows[i].parked # None
  /\ rev \in 0..rows[i].parked
  /\ SubmitDrain(<<"match", i, rev>>, [act |-> act, rev |-> rev, echo |-> echo])

SubmitDuplicate(i, act) ==
  /\ rows[i] # None
  /\ rows[i].prompt
  /\ Room(act)
  /\ SubmitDrain(<<"duplicate", i, 0>>, [act |-> act, rev |-> 0, echo |-> FALSE])

SubmitParks ==
  /\ lock = "loop"
  /\ DrainParks
  /\ request' = [request EXCEPT !.pc = "drained"]
  /\ lock' = None
  /\ UNCHANGED <<sent, seen, twice>>

\* push_choice, push_duplicate_decision: refused under a stop (404), with no
\* park at that index (404) or with an answer still in the slot (409).
Channel(d) == IF d.act \in DupActions THEN {"asked", "told"} ELSE {"parked", "woken"}
Accepts(i, d) ==
  /\ ~stop
  /\ slot # None /\ worker.i = i /\ worker.pc \in Channel(d)
  /\ slot.answer = None

\* record_choice and record_duplicate_decision mark the row with the push.
Marked(row, d) ==
  CASE d.act \in DupActions -> [row EXCEPT !.status = "decided", !.dup = d.act]
    [] d.act = "search" -> row
    [] OTHER -> [row EXCEPT !.status = "decided", !.action = d.act]

\* Mutant: an answer is put without the mark.
PushUnmarked ==
  /\ lock = None /\ request.pc = "drained"
  /\ request' = RequestIdle
  /\ IF Accepts(request.i, request.d)
       THEN /\ slot' = [answer |-> request.d, answered |-> FALSE]
            /\ rows' = [rows EXCEPT ![request.i] = Marked(@, request.d)]
       ELSE UNCHANGED <<slot, rows>>
  /\ UNCHANGED <<mode, workerVars, stop, aborted, outcomes, parks, prompts, heldParks,
                 heldPrompts, counts, jobVars, lock, sent, seen, twice>>

Push ==
  /\ lock = None /\ request.pc = "drained"
  /\ request' = RequestIdle
  /\ IF Accepts(request.i, request.d)
       THEN /\ slot' = [answer |-> request.d, answered |-> TRUE]
            /\ rows' = [rows EXCEPT ![request.i] = Marked(@, request.d)]
       ELSE UNCHANGED <<slot, rows>>
  /\ UNCHANGED <<mode, workerVars, stop, aborted, outcomes, parks, prompts, heldParks,
                 heldPrompts, counts, jobVars, lock, sent, seen, twice>>

\* Mutant: a stop is the flag alone.
RaiseFlag ==
  /\ lock = None /\ request.pc = "idle" /\ phase = "running"
  /\ stop' = TRUE
  /\ UNCHANGED <<mode, workerVars, aborted, slot, outcomes, parks, prompts, feedVars,
                 jobVars, lock, requestVars>>

\* Mutant: a stop takes the place of an answer already given.
OverrideAnswer ==
  /\ lock = None /\ request.pc = "idle" /\ phase = "running"
  /\ stop' = TRUE
  /\ slot' = IF slot # None THEN [answer |-> Stopped, answered |-> TRUE] ELSE slot
  /\ UNCHANGED <<mode, workerVars, aborted, outcomes, parks, prompts, feedVars, jobVars,
                 lock, requestVars>>

\* request_stop, with _release_on_stop.
RequestStop ==
  /\ lock = None /\ request.pc = "idle" /\ phase = "running"
  /\ stop' = TRUE
  /\ slot' = IF slot # None /\ ~slot.answered
               THEN [answer |-> Stopped, answered |-> TRUE] ELSE slot
  /\ UNCHANGED <<mode, workerVars, aborted, outcomes, parks, prompts, feedVars, jobVars,
                 lock, requestVars>>

(***************************************************************************)
(* The end of the job, and what the page and the ledger are told.          *)
(***************************************************************************)
ResolvedAsLanding(row) ==
  IF row.dup # None THEN row.dup \in DUP_LANDING
  ELSE row.status = "applied" \/ (row.status = "decided" /\ row.action \in LANDING)

DidNotLand(row, nextLanded) ==
  \/ row.note
  \/ /\ ~row.id
     /\ \/ row.dup = "merge" /\ ~nextLanded
        \/ row.dup \in {"keep_both", "replace"}
        \/ row.dup = None /\ row.status = "applied" /\ mode # "astracks"
        \/ row.dup = None /\ row.status = "decided" /\ row.action \in {"apply", "asis"}

IsImported(row, nextLanded) ==
  ~row.note /\ ResolvedAsLanding(row) /\ ~DidNotLand(row, nextLanded)
IsSetAside(row) == row.status \in SET_ASIDE /\ ~row.note
\* Mutant: the answer to a duplicate is not looked at.
IsSkippedByMatch(row) ==
  row.status = "skipped" \/ (row.status = "decided" /\ row.action \notin LANDING)
IsSkipped(row) ==
  IF row.dup # None THEN row.dup \notin DUP_LANDING
  ELSE row.status = "skipped" \/ (row.status = "decided" /\ row.action \notin LANDING)

\* _landing_map, from the last row backwards: a merge's verdict is the next row's.
LandingMap(feed) ==
  LET landed[i \in 0..MaxAlbums] ==
        i < MaxAlbums /\ feed[i] # None /\ IsImported(feed[i], landed[i + 1])
  IN landed

\* Mutant: a run cut short is judged by the rows it got to.
LandedSoFar(feed) ==
  /\ \E i \in Indexes : feed[i] # None
  /\ \A i \in Indexes : feed[i] # None => LandingMap(feed)[i]

FullyLanded(feed) ==
  /\ ~aborted
  /\ \E i \in Indexes : feed[i] # None
  /\ \A i \in Indexes : feed[i] # None => LandingMap(feed)[i]

\* _on_finish: drain, done, and the recorder.
FinishJob ==
  /\ At("ended") /\ phase = "running" /\ lock = None
  /\ phase' = "done"
  /\ outcomes' = <<>> /\ parks' = <<>> /\ prompts' = <<>>
  /\ IF mode = "sweep"
       THEN /\ counts' = FoldLeft(Counted, counts, outcomes)
            /\ UNCHANGED <<rows, heldParks, heldPrompts, recorded>>
       ELSE LET feed == FoldLeft(WithOutcome, rows, outcomes) IN
            /\ SecondPass(Replayed(feed),
                          [i \in Indexes |-> IF feed[i] = None THEN heldParks[i] ELSE None],
                          {i \in heldPrompts : feed[i] = None})
            /\ recorded' = FullyLanded(rows')
            /\ UNCHANGED counts
  /\ UNCHANGED <<mode, workerVars, stop, aborted, slot, lock, requestVars>>

\* beets or a bank write raises; run() is left without its flush.
WorkerRaises ==
  /\ Raises
  /\ worker.pc \in {"choose", "matched", "relook", "resolve", "act", "place", "expand"}
  /\ To("raised")
  /\ UNCHANGED <<mode, next, awaiting, inWindow, merging, fate, bridgeVars, feedVars,
                 jobVars, lock, requestVars>>

\* _on_error.
FailJob ==
  /\ At("raised") /\ phase = "running" /\ lock = None
  /\ phase' = "failed"
  /\ UNCHANGED <<mode, workerVars, bridgeVars, feedVars, recorded, lock, requestVars>>

Works ==
  \/ StopLands \/ PipelineEnds \/ ChooseMatch
  \/ StrongMatch \/ NoCandidates \/ UncertainMatch \/ DirectiveChoice
  \/ Park \/ ParkDuplicate \/ TakeReply
  \/ ReleaseStopped \/ ReleaseAnswered \/ ReleaseDuplicate
  \/ Relook \/ NoDuplicate \/ FoundDuplicate
  \/ ActOnDuplicate \/ RefuseReplace \/ Land \/ SkipTracks \/ WorkerRaises

Next ==
  \/ Works
  \/ FinishJob \/ FailJob
  \/ PollOutcomes \/ PollParks
  \/ \E i \in Indexes, act \in Actions, rev \in Revisions, echo \in BOOLEAN :
       SubmitChoice(i, act, rev, echo)
  \/ \E i \in Indexes, act \in DupActions : SubmitDuplicate(i, act)
  \/ SubmitParks \/ Push \/ RequestStop

Spec == Init /\ [][Next]_vars
\* The worker runs; a drain and a request come to their end; a thread that
\* waits for the registry lock gets it.
FairSpec ==
  /\ Spec
  /\ WF_vars(Works)
  /\ WF_vars(PollParks) /\ WF_vars(SubmitParks) /\ SF_vars(Push)
  /\ SF_vars(FinishJob) /\ SF_vars(FailJob)
(***************************************************************************)
(* Properties.                                                             *)
(***************************************************************************)
\* Every value a run of the job can hold.
TypeOK ==
  /\ mode \in AllModes
  /\ worker \in [pc : {"choose", "matched", "parking", "parked", "woken", "relook", "resolve",
                       "asking", "asked", "told", "act", "place", "expand", "ended", "raised"},
                 i : 0..MaxAlbums, rev : Revisions, list : Revisions,
                 answer : Answers]
  /\ next \in 0..MaxAlbums /\ awaiting \in Indexes \cup {None}
  /\ inWindow \in BOOLEAN /\ merging \in BOOLEAN
  /\ fate \in [Indexes -> Fates]
  /\ stop \in BOOLEAN /\ aborted \in BOOLEAN
  /\ slot \in Slot \cup {None}
  /\ phase \in {"running", "done", "failed"} /\ recorded \in BOOLEAN
  /\ rows \in [Indexes -> Row \cup {None}]
  /\ heldParks \in [Indexes -> Revisions \cup {None}] /\ heldPrompts \subseteq Indexes
  /\ counts \in [processed : Nat, banked : Nat, landed : Nat]
  /\ lock \in {None, "poll", "loop"}
  /\ request \in [pc : {"idle", "draining", "drained"}, i : 0..MaxAlbums,
                  d : Decision \cup {None}]
  /\ sent \in 0..MaxRequests
  /\ seen \subseteq ({"match", "duplicate"} \X Indexes \X Revisions) /\ twice \in BOOLEAN

Blocked == worker.pc \in {"parked", "asked"}
Answering == worker.pc \in {"woken", "told"}

\* "Waiting for you" is said exactly while the worker waits and nothing is on
\* its way to it, the moment between reply.get() and the release included
\* (has_unanswered_park).
AwaitingIsTrue ==
  /\ slot # None <=> Blocked \/ Answering
  /\ slot # None => (slot.answered <=> Answering \/ slot.answer # None)

\* A stop reaches a worker already blocked: no flag alone would wake it
\* (request_stop, park).
StopReachesThePark == stop /\ Blocked => slot.answer # None

\* The park the worker waits on is the newest the feed has or will be given,
\* and one buffered without a row has the row's outcome on its way: a lost or
\* a stale one leaves the worker blocked for good.
NewestPark(i) ==
  IF NewPark(i) # None THEN NewPark(i)
  ELSE IF heldParks[i] # None THEN heldParks[i]
  ELSE IF rows[i] # None THEN rows[i].parked ELSE None
Due(i) == rows[i] # None \/ \E k \in DOMAIN outcomes : outcomes[k].i = i
ParkIsShown ==
  /\ At("parked") /\ ~slot.answered => NewestPark(worker.i) = worker.rev /\ Due(worker.i)
  /\ At("asked") /\ ~slot.answered =>
       /\ worker.i \in ToSet(prompts) \cup heldPrompts \/ (rows[worker.i] # None /\ rows[worker.i].prompt)
       /\ Due(worker.i)

\* The page adds the counters up, so an album is in at most one of them, in
\* every state a poll can meet, while no question is answered twice.
Terminal == phase # "running"
InBuckets(feed, i) ==
  LET landed == LandingMap(feed)
      next1 == landed[i + 1]
  IN {b \in {"imported", "skipped", "set aside", "not landed"} :
       CASE b = "imported" -> IF Terminal THEN landed[i]
                              ELSE ~feed[i].note /\ ResolvedAsLanding(feed[i])
         [] b = "skipped" -> IsSkipped(feed[i])
         [] b = "set aside" -> IsSetAside(feed[i])
         [] b = "not landed" -> (Terminal \/ feed[i].note) /\ DidNotLand(feed[i], next1)}
BucketsAreDisjoint ==
  lock = None /\ ~twice => \A i \in Indexes : rows[i] # None => Cardinality(InBuckets(rows, i)) <= 1

\* Whether the library has the album: it landed, its tracks were there before, or
\* it was merged and its merged task is.
Truth == LET landed[i \in 0..MaxAlbums] ==
               i < MaxAlbums /\ (fate[i] \in {"landed", "there"} \/ (fate[i] = "merged" /\ landed[i + 1]))
         IN landed

\* An album counted as imported is in the library, however the job ended, while
\* no question is answered twice; an expansion into tracks is taken at its word,
\* as nothing reports what it landed.
Expanded(i) == mode = "astracks" \/ rows[i].action = "astracks"
SingleAnswersAreCounted ==
  Terminal /\ ~twice => \A i \in Indexes :
    LET landed == LandingMap(rows)
    IN landed[i] /\ ~Expanded(i) => fate[i] = "landed" \/ (fate[i] = "merged" /\ landed[i + 1])

\* The feed of a finished job has a row for each album and tells its fate (a
\* banked duplicate's row keeps the status of the question it answers), while
\* no question is answered twice.
FeedTellsFate ==
  phase = "done" /\ ~twice /\ mode \notin DupActions \cup {"sweep"} => \A i \in 0..(next - 1) :
    /\ rows[i] # None
    /\ Truth[i] <=> LandingMap(rows)[i]
    /\ fate[i] = "skipped" <=> IsSkipped(rows[i])
    /\ IsSetAside(rows[i]) => fate[i] \in {"aside", "open"}

\* The folder is remembered as imported, and hidden from "Not imported yet",
\* only when the run was not cut short and every album of it landed.
RecordedIsLanded ==
  recorded => ~aborted /\ next > 0 /\ \A i \in 0..(next - 1) : Truth[i]

\* The same while no question is answered twice.
SingleAnswersAreRecorded == ~twice => RecordedIsLanded

\* The counters of a finished sweep add up to what it did.
SweepCountsAreTrue ==
  phase = "done" /\ mode = "sweep" =>
    /\ counts.processed = next
    /\ counts.landed = Cardinality({i \in Indexes : fate[i] = "landed"})
    /\ counts.banked = Cardinality({i \in Indexes : fate[i] \in {"skipped", "aside"}})

\* The numbers the page shows, while a job runs and after it.
CountsAreTrue == BucketsAreDisjoint /\ SingleAnswersAreCounted /\ SweepCountsAreTrue

\* What is told of each album when the job is over, in its rows and its record.
OutcomeIsTrue == FeedTellsFate /\ SingleAnswersAreRecorded

\* A release is applied only from a list the person was shown: no search or
\* rescan swapped it since.  Excused: a client that does not echo the revision,
\* for which the code compares lengths only (models/import_models.py:321-325).
ApplyIsOfShownList ==
  [][At("woken") /\ worker'.pc = "resolve" /\ worker.answer.act = "apply" /\ worker.answer.echo
       => worker.list <= worker.answer.rev]_vars

\* A stopped job ends, whatever it was waiting for.
StopEndsJob == stop ~> Terminal

\* The park and its slot keep the promise of ImportRendezvous.
Rendezvous == INSTANCE ImportRendezvous WITH
  Decisions <- ImportActions \cup DupActions,
  StopAnswer <- "stop",
  question <- IF Blocked THEN IF slot.answer = None THEN "open" ELSE slot.answer.act
              ELSE IF Answering THEN worker.answer.act ELSE "none",
  stopping <- stop
KeepsRendezvous == Rendezvous!Spec

=============================================================================
