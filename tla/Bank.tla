-------------------------------- MODULE Bank --------------------------------
(***************************************************************************)
(* The review bank: albums an unattended import set aside, the decisions a *)
(* user makes about them, and the one thread that applies the decisions.   *)
(*                                                                         *)
(* Sources: backend/app/bank/store.py (the rows, every access under one    *)
(* lock), bank/apply_runner.py (the drain thread), api/bank.py (search and *)
(* rescan, which leave the lock between their reads and their writes),     *)
(* models/bank.py (which rows can be read back at all).                    *)
(*                                                                         *)
(* A folder's audio is a version number, which is what its fingerprint     *)
(* tells apart; a payload (the match candidates) is the version it was     *)
(* looked up from.  A decision gets a stamp, its decided_at.               *)
(***************************************************************************)
EXTENDS Naturals, FiniteSets

CONSTANTS
  Folders,      \* download folders
  Requests,     \* API requests that can be in flight
  Kinds,        \* which of them there are: {"search"}, {"rescan"} or both
  Actions,      \* the decisions the user may take
  MaxVersion,   \* bound: contents a folder goes through
  MaxId,        \* bound: rows ever created
  MaxStamp,     \* bound: decisions ever taken
  Faults,       \* whether a runner step or its write may raise, and the
                \* process restart
  None

ApplyActions == {"apply", "asis", "astracks",
                 "keep_both", "skip_new", "replace", "merge"}

ASSUME ActionsAssumption == Actions \subseteq ApplyActions \cup {"ignore"}
ASSUME KindsAssumption == Kinds \subseteq {"search", "rescan"}
ASSUME BankBounds == /\ {MaxVersion, MaxId, MaxStamp} \subseteq Nat
                     /\ Faults \in BOOLEAN

Statuses == {"needs_review", "queued", "applying", "failed", "stale", "done",
             "ignored"}
Reasons == {"needs_review", "no_match", "needs_dup_resolution"}
Recoveries == {"decide_again", "fix_folder", "remove_duplicate"}

Row == [id : Nat, fp : Nat, reason : Reasons,
        payload : Nat,                        \* 0: no candidates
        by : {"import", "search", "rescan"},  \* who looked the payload up
        dup : BOOLEAN,                        \* a duplicate prompt is stored
        status : Statuses, recovery : Recoveries,
        decided : ApplyActions \cup {"ignore", None}, stamp : Nat]

\* What an import came to, over every album of its folder: the job failed; an
\* album carries a refusal note; the duplicate hook ran; something landed; an
\* album was handed over as tracks; an album landed that the hook was asked about.
Outcome == [failed : BOOLEAN, note : BOOLEAN, hook : BOOLEAN, landed : BOOLEAN,
            tracks : BOOLEAN, resolved : BOOLEAN]

\* What became of a decision: carried out; a merge that only a sibling album of
\* the folder speaks for; neither.
Ends == {"kept", "sibling", "lost"}

ASSUME NoneAssumption == None \notin Outcome /\ None \notin Ends

VARIABLES
  disk,      \* folder -> its content version and whether it is there
  rows,      \* folder -> its row, or None
  nextId,    \* row ids are fresh (uuid4)
  clock,     \* the last decision's stamp
  slot,      \* the import slot: "free", "drain" (an unattended import), "apply"
  seen,      \* folder -> the version the unattended import looked up, 0: none
  runner,    \* the apply thread: where it is and the row it works on
  work,      \* the apply's import: what the registry knows of it, or None
  requests,  \* the API requests in flight
  landings,  \* stamp -> how often its decision put the album in the library
  ending,    \* stamp -> what became of it in its last import, or None
  flipped    \* stamps whose row a search called stale without looking at it

vars == <<disk, rows, nextId, clock, slot, seen, runner, work, requests,
          landings, ending, flipped>>
apiVars == <<seen, requests, flipped>>
importVars == <<slot, work, landings, ending>>
userVars == <<nextId, clock>>

-----------------------------------------------------------------------------
(* The store.                                                              *)

DECIDABLE == {"needs_review", "failed", "stale"}
SEARCHABLE == {"needs_review", "failed"}
RESCANNABLE == {"needs_review", "failed", "stale"}

HasRow(f, id) == rows[f] # None /\ rows[f].id = id

Marked(row, status, recovery) ==
  [row EXCEPT !.status = status, !.recovery = recovery]

\* Mutant: the write compares the id only.
CasIgnoresStatus(f, id, expected, status, recovery) ==
  rows' = IF HasRow(f, id) THEN [rows EXCEPT ![f] = Marked(@, status, recovery)] ELSE rows

\* set_status(expected = ...): compare and set.
CasStatus(f, id, expected, status, recovery) ==
  rows' = IF HasRow(f, id) /\ rows[f].status = expected
          THEN [rows EXCEPT ![f] = Marked(@, status, recovery)]
          ELSE rows

\* set_status without expected: whatever the row's status is.
BlindStatus(f, id, status, recovery) ==
  rows' = IF HasRow(f, id)
          THEN [rows EXCEPT ![f] = Marked(@, status, recovery)]
          ELSE rows

BankedRow(id, fp, reason, payload) ==
  [id |-> id, fp |-> fp, reason |-> reason, payload |-> payload,
   by |-> "import", dup |-> reason = "needs_dup_resolution",
   status |-> "needs_review", recovery |-> "decide_again",
   decided |-> None, stamp |-> 0]

\* upsert_by_folder: a new row, an untouched row under the same fingerprint, or
\* the same row started afresh, whatever its status was.
Upsert(f, fp, reason, payload) ==
  IF rows[f] = None
  THEN /\ rows' = [rows EXCEPT ![f] = BankedRow(nextId + 1, fp, reason, payload)]
       /\ nextId' = nextId + 1
  ELSE /\ rows' = IF rows[f].fp = fp THEN rows
                  ELSE [rows EXCEPT ![f] = BankedRow(@.id, fp, reason, payload)]
       /\ UNCHANGED nextId

\* next_queued: the queued row decided first.
IsNextQueued(f) ==
  /\ rows[f] # None /\ rows[f].status = "queued"
  /\ \A g \in Folders : rows[g] # None /\ rows[g].status = "queued"
                        => rows[f].stamp <= rows[g].stamp

\* Mutants: an interrupted row is queued again, or gets a status of its own.
ReconciledToQueue(row) ==
  IF row # None /\ row.status = "applying" THEN Marked(row, "queued", "decide_again") ELSE row
\* reconcile_interrupted: never back to queued.
Reconciled(row) ==
  IF row # None /\ row.status = "applying"
  THEN Marked(row, "needs_review", "decide_again") ELSE row

-----------------------------------------------------------------------------

RunnerPcs == {"idle", "picked", "gated", "claimed", "checked", "running"}
RequestPcs == {"idle", "checked", "changed", "matched", "found"}

RunnerIdle == [pc |-> "idle", f |-> None, id |-> 0, row |-> None, gone |-> FALSE]
RequestIdle == [pc |-> "idle", kind |-> None, f |-> None, id |-> 0, fp |-> 0,
                payload |-> 0]

Init ==
  /\ disk = [f \in Folders |-> [ver |-> 1, here |-> TRUE]]
  /\ rows = [f \in Folders |-> None]
  /\ nextId = 0
  /\ clock = 0
  /\ slot = "free"
  /\ seen = [f \in Folders |-> 0]
  /\ runner = RunnerIdle
  /\ work = None
  /\ requests = [q \in Requests |-> RequestIdle]
  /\ landings = [n \in 1..MaxStamp |-> 0]
  /\ ending = [n \in 1..MaxStamp |-> None]
  /\ flipped = {}

(* The download folders.                                                   *)

\* slskd finishes a file, or somebody edits the folder (or puts it back).
ChangeFolder(f) ==
  /\ disk[f].ver < MaxVersion
  /\ disk' = [disk EXCEPT ![f] = [ver |-> @.ver + 1, here |-> TRUE]]
  /\ UNCHANGED <<rows, userVars, importVars, apiVars, runner>>

RemoveFolder(f) ==
  /\ disk[f].here
  /\ disk' = [disk EXCEPT ![f].here = FALSE]
  /\ UNCHANGED <<rows, userVars, importVars, apiVars, runner>>

(* Any other import; an unattended one (a sweep, the queue's drain) banks.  *)

StartUnattended ==
  /\ slot = "free"
  /\ slot' = "drain"
  /\ work' = None
  /\ UNCHANGED <<disk, rows, userVars, apiVars, runner, landings, ending>>

LookUp(f) ==
  /\ slot = "drain"
  /\ disk[f].here
  /\ seen' = [seen EXCEPT ![f] = disk[f].ver]
  /\ UNCHANGED <<disk, rows, userVars, importVars, requests, flipped, runner>>

\* _bank_row: the fingerprint is taken as the row is written.
BankRow(f) ==
  /\ slot = "drain"
  /\ seen[f] # 0
  /\ disk[f].here
  /\ rows[f] = None => nextId < MaxId
  /\ \E reason \in Reasons :
       Upsert(f, disk[f].ver, reason, IF reason = "no_match" THEN 0 ELSE seen[f])
  /\ seen' = [seen EXCEPT ![f] = 0]
  /\ UNCHANGED <<disk, clock, importVars, requests, flipped, runner>>

EndUnattended ==
  /\ slot = "drain"
  /\ slot' = "free"
  /\ seen' = [f \in Folders |-> 0]
  /\ UNCHANGED <<disk, rows, userVars, work, landings, ending, requests, flipped, runner>>

(* The user.                                                               *)

Decide(f, action) ==
  /\ rows[f] # None /\ rows[f].status \in DECIDABLE
  /\ clock < MaxStamp
  /\ clock' = clock + 1
  /\ rows' = [rows EXCEPT ![f] =
       [Marked(@, IF action = "ignore" THEN "ignored" ELSE "queued", "decide_again")
        EXCEPT !.decided = action, !.stamp = clock + 1]]
  /\ UNCHANGED <<disk, nextId, importVars, apiVars, runner>>

\* bulk_ignore: undecided rows only, decision and recovery left alone.
Ignore(f) ==
  /\ rows[f] # None /\ rows[f].status = "needs_review"
  /\ rows' = [rows EXCEPT ![f].status = "ignored"]
  /\ UNCHANGED <<disk, userVars, importVars, apiVars, runner>>

\* delete_item and bulk_delete.
Delete(f) ==
  /\ rows[f] # None /\ rows[f].status # "applying"
  /\ rows' = [rows EXCEPT ![f] = None]
  /\ UNCHANGED <<disk, userVars, importVars, apiVars, runner>>

-----------------------------------------------------------------------------
(* The apply runner's thread.                                              *)

RunnerAt(pc) == runner.pc = pc
To(pc) == runner' = [runner EXCEPT !.pc = pc]
NextRow == runner' = RunnerIdle
Cas(status, recovery) ==
  CasStatus(runner.f, runner.id, "applying", status, recovery)

PickNext(f) ==
  /\ RunnerAt("idle")
  /\ IsNextQueued(f)
  /\ runner' = [RunnerIdle EXCEPT !.pc = "picked", !.f = f, !.id = rows[f].id]
  /\ UNCHANGED <<disk, rows, userVars, importVars, apiVars>>

\* import_gate_clear.
PassGate ==
  /\ RunnerAt("picked")
  /\ slot = "free"
  /\ To("gated")
  /\ UNCHANGED <<disk, rows, userVars, importVars, apiVars>>

\* The compare-and-set claim; the claimed row is the one as it is now.
Claim ==
  /\ RunnerAt("gated")
  /\ IF HasRow(runner.f, runner.id) /\ rows[runner.f].status = "queued"
     THEN /\ rows' = [rows EXCEPT ![runner.f] = Marked(@, "applying", "decide_again")]
          /\ runner' = [runner EXCEPT !.pc = "claimed", !.row = rows[runner.f]]
     ELSE NextRow /\ UNCHANGED rows
  /\ UNCHANGED <<disk, userVars, importVars, apiVars>>

Unchanged(f, fp) == disk[f].here /\ disk[f].ver = fp

\* _row_stopped_by_folder_check: gone or changed, unreadable, or as banked.
CheckFolder ==
  /\ RunnerAt("claimed")
  /\ \/ Unchanged(runner.f, runner.row.fp) /\ To("checked") /\ UNCHANGED rows
     \/ ~Unchanged(runner.f, runner.row.fp) /\ Cas("stale", "decide_again") /\ NextRow
     \/ Cas("failed", "fix_folder") /\ NextRow
  /\ UNCHANGED <<disk, userVars, importVars, apiVars>>

\* _skip_new_is_enforced: the copy the user keeps is there, so import nothing.
EnforceSkipNew ==
  /\ RunnerAt("checked")
  /\ runner.row.decided = "skip_new" /\ runner.row.dup
  /\ Cas("done", "decide_again")
  /\ NextRow
  /\ UNCHANGED <<disk, userVars, importVars, apiVars>>

\* _replace_targets_are_gone: a replace with a stored prompt may find that none
\* of the copies it was to trash survives; nothing else is asked.
TargetsMayBeGone == runner.row.decided = "replace" /\ runner.row.dup

\* registry.start: the import takes the slot.
StartImport ==
  /\ RunnerAt("checked")
  /\ slot = "free"
  /\ slot' = "apply"
  /\ work' = None
  /\ \E gone \in BOOLEAN :
       /\ gone => TargetsMayBeGone
       /\ runner' = [runner EXCEPT !.pc = "running", !.gone = gone]
  /\ UNCHANGED <<disk, rows, userVars, apiVars, landings, ending>>

\* Mutant: a busy slot leaves the claimed row as it is.
StartRefusedForgetsRow ==
  /\ RunnerAt("checked")
  /\ NextRow
  /\ UNCHANGED <<disk, rows, userVars, importVars, apiVars>>

\* start raised: busy or no library root; the source gone; the source
\* unreadable or refused.
StartRefused ==
  /\ RunnerAt("checked")
  /\ \/ Cas("queued", "decide_again")
     \/ ~disk[runner.f].here /\ Cas("stale", "decide_again")
     \/ Cas("failed", "fix_folder")
  /\ NextRow
  /\ UNCHANGED <<disk, userVars, importVars, apiVars>>

\* How one album of the folder can end.  The directive answers the duplicate
\* hook: an apply, an asis and a skip_new then skip, a replace disposes of the
\* old copy or refuses with a note, a merge is looked up again and may be cut.
\* An astracks hands its album over and never asks; a track the library has is
\* skipped.
AlbumEnds(action) ==
  {e \in [note : BOOLEAN, hook : BOOLEAN, landed : BOOLEAN, tracks : BOOLEAN] :
     /\ e.note => e.hook
     /\ e.tracks => action = "astracks"
     /\ action = "astracks" => ~e.hook /\ (e.landed => e.tracks)
     /\ e.note => action = "replace"
     /\ e.hook =>
          CASE action \in {"apply", "asis", "skip_new"} -> ~e.landed
            [] action = "keep_both" -> e.landed
            [] action = "replace" -> e.landed = ~e.note
            [] OTHER -> TRUE}

\* The album a job that failed was at.
CutShort(action) ==
  {e \in [note : {FALSE}, hook : BOOLEAN, landed : {FALSE}, tracks : BOOLEAN] :
     IF action = "astracks" THEN ~e.hook ELSE ~e.tracks}

Summary(failed, ends) ==
  [failed |-> failed,
   note |-> \E e \in ends : e.note, hook |-> \E e \in ends : e.hook,
   landed |-> \E e \in ends : e.landed, tracks |-> \E e \in ends : e.tracks,
   resolved |-> \E e \in ends : e.hook /\ e.landed]

\* What the import of a decision can come to, for a folder of any albums.
Results(action) ==
  {Summary(FALSE, ends) : ends \in SUBSET AlbumEnds(action)}
  \cup {Summary(TRUE, ends) : ends \in SUBSET (AlbumEnds(action) \cup CutShort(action))}

\* What the decision asked for, and whether it was done: the album landed, beside
\* the old copy or in its place; the collision was merged; the user's copy was
\* kept; the tracks were handed over.
BecameOf(action, o, gone) ==
  CASE action = "astracks" -> IF o.tracks THEN "kept" ELSE "lost"
    [] action = "skip_new" -> IF o.landed \/ o.hook THEN "kept" ELSE "lost"
    [] action = "replace" ->
         IF o.landed /\ (o.resolved \/ ~gone) THEN "kept" ELSE "lost"
    [] action = "merge" ->
         IF o.resolved THEN "kept" ELSE IF o.hook /\ o.landed THEN "sibling" ELSE "lost"
    [] OTHER -> IF o.landed THEN "kept" ELSE "lost"

\* The import places albums (moving the folder away, or copying it), or places
\* nothing.
RunImport ==
  LET decided == runner.row.decided
      n == runner.row.stamp
  IN  /\ slot = "apply"
      /\ work = None
      /\ \E o \in Results(decided), moved \in BOOLEAN :
           /\ moved => o.landed
           /\ work' = o
           /\ disk' = [disk EXCEPT ![runner.f].here = @ /\ ~moved]
           /\ landings' = [landings EXCEPT ![n] = @ + IF o.landed THEN 1 ELSE 0]
           /\ ending' = [ending EXCEPT ![n] = BecameOf(decided, o, runner.gone)]
      /\ UNCHANGED <<rows, userVars, slot, apiVars, runner>>

EndImport ==
  /\ slot = "apply"
  /\ work # None
  /\ slot' = "free"
  /\ UNCHANGED <<disk, rows, userVars, work, landings, ending, apiVars, runner>>

Failed(recovery) == [status |-> "failed", recovery |-> recovery]
Done == [status |-> "done", recovery |-> "decide_again"]

\* Mutant: an album in the library is success, whatever the decision was.
ClassifyByLanding(action, o, gone) ==
  IF o.hook \/ o.landed THEN Done ELSE Failed("decide_again")

\* _classify_duplicate.
ClassifyDuplicate(action, o, gone) ==
  LET unresolved == o.landed /\ ~o.hook
  IN  CASE unresolved /\ (action = "merge" \/ (action = "replace" /\ gone))
             -> Failed("remove_duplicate")
        [] action = "merge" /\ ~o.landed -> Failed("decide_again")
        [] ~o.hook /\ ~o.landed -> Failed("decide_again")
        [] OTHER -> Done

\* _classify: phase alone proves nothing landed, and one refusal fails the row.
Classify(action, o, gone) ==
  CASE o.failed \/ o.note -> Failed("decide_again")
    [] ~(o.failed \/ o.note) /\ action \in {"keep_both", "skip_new", "replace", "merge"}
         -> ClassifyDuplicate(action, o, gone)
    [] OTHER -> IF /\ ~o.hook
                   /\ IF action = "astracks" THEN o.tracks ELSE o.landed
                THEN Done ELSE Failed("decide_again")

Finished(row, v, note) ==
  [Marked(row, v.status, v.recovery) EXCEPT !.dup = @ \/ (v.status = "failed" /\ note)]

\* The job ended: classify it.  A refused replace also stores the collision it
\* met (refresh_duplicate, under the same compare).
FinishApply ==
  /\ RunnerAt("running")
  /\ slot # "apply" /\ work # None
  /\ rows' = IF HasRow(runner.f, runner.id) /\ rows[runner.f].status = "applying"
             THEN [rows EXCEPT ![runner.f] =
                    Finished(@, Classify(runner.row.decided, work, runner.gone), work.note)]
             ELSE rows
  /\ NextRow
  /\ UNCHANGED <<disk, userVars, importVars, apiVars>>

\* Mutant: a result nobody can confirm is tried again.
FinishUnconfirmedRetries ==
  /\ RunnerAt("running")
  /\ slot # "apply" /\ work = None
  /\ Cas("queued", "decide_again")
  /\ NextRow
  /\ UNCHANGED <<disk, userVars, importVars, apiVars>>

\* registry.state raised KeyError: another job replaced this one.
FinishUnconfirmed ==
  /\ RunnerAt("running")
  /\ slot # "apply" /\ work = None
  /\ Cas("failed", "decide_again")
  /\ NextRow
  /\ UNCHANGED <<disk, userVars, importVars, apiVars>>

\* _drain's catch-all: recorded blind, or (the same disk fault) not at all.
RunnerRaises ==
  /\ Faults
  /\ runner.pc \in {"gated", "claimed", "checked", "running"}
  /\ slot # "apply"
  /\ \/ BlindStatus(runner.f, runner.id, "failed", "decide_again")
     \/ UNCHANGED rows
  /\ NextRow
  /\ UNCHANGED <<disk, userVars, importVars, apiVars>>

\* The process stops wherever it is; the next one reconciles before it drains.
Restart ==
  /\ Faults
  /\ rows' = [f \in Folders |-> Reconciled(rows[f])]
  /\ slot' = "free"
  /\ seen' = [f \in Folders |-> 0]
  /\ work' = None
  /\ NextRow
  /\ requests' = [q \in Requests |-> RequestIdle]
  /\ UNCHANGED <<disk, userVars, landings, ending, flipped>>

-----------------------------------------------------------------------------
(* Search and rescan: the row, the folder and the lookup are read one after *)
(* the other, each off the lock, and the answer is written at the end.      *)

At(q, kind, pc) == requests[q].kind = kind /\ requests[q].pc = pc
Reply(q) == requests' = [requests EXCEPT ![q] = RequestIdle]
Step(q, pc) == requests' = [requests EXCEPT ![q].pc = pc]
Target(q) == rows[requests[q].f]
TargetThere(q) == HasRow(requests[q].f, requests[q].id)

\* The status pre-check, read without a lock held to the write.
BeginRequest(q, kind, f) ==
  /\ requests[q].pc = "idle"
  /\ rows[f] # None
  /\ IF kind = "search"
     THEN rows[f].status \in SEARCHABLE /\ rows[f].reason # "needs_dup_resolution"
     ELSE rows[f].status \in RESCANNABLE
  /\ requests' = [requests EXCEPT ![q] =
       [RequestIdle EXCEPT !.pc = "checked", !.kind = kind, !.f = f,
                           !.id = rows[f].id, !.fp = rows[f].fp]]
  /\ UNCHANGED <<disk, rows, userVars, importVars, seen, flipped, runner>>

\* A search goes on only over the banked files; a rescan takes the fingerprint
\* it will store.
ReadFingerprint(q) ==
  /\ \/ /\ At(q, "search", "checked")
        /\ Step(q, IF Unchanged(requests[q].f, requests[q].fp) THEN "matched" ELSE "changed")
     \/ /\ At(q, "rescan", "checked")
        /\ disk[requests[q].f].here
        /\ requests' = [requests EXCEPT ![q].pc = "matched",
                                        ![q].fp = disk[requests[q].f].ver]
  /\ UNCHANGED <<disk, rows, userVars, importVars, seen, flipped, runner>>

\* research_folder, rescan_folder.
LookUpAgain(q) ==
  /\ requests[q].pc = "matched"
  /\ disk[requests[q].f].here
  /\ requests' = [requests EXCEPT ![q].pc = "found",
                                  ![q].payload = disk[requests[q].f].ver]
  /\ UNCHANGED <<disk, rows, userVars, importVars, seen, flipped, runner>>

\* Unreadable, gone, no audio, or a search that found nothing: no write.
GiveUpRequest(q) ==
  /\ requests[q].pc \in {"checked", "matched"}
  /\ Reply(q)
  /\ UNCHANGED <<disk, rows, userVars, importVars, seen, flipped, runner>>

\* The unguarded flip.
FlipStale(q) ==
  /\ At(q, "search", "changed")
  /\ BlindStatus(requests[q].f, requests[q].id, "stale", "decide_again")
  /\ flipped' = flipped \cup IF TargetThere(q) THEN {Target(q).stamp} ELSE {}
  /\ Reply(q)
  /\ UNCHANGED <<disk, userVars, importVars, seen, runner>>

\* research_item: checks the status and the reason again, not the fingerprint.
StoreSearch(q) ==
  /\ At(q, "search", "found")
  /\ rows' = IF /\ TargetThere(q) /\ Target(q).status \in SEARCHABLE
                /\ Target(q).reason # "needs_dup_resolution"
             THEN [rows EXCEPT ![requests[q].f] =
                    [@ EXCEPT !.payload = requests[q].payload, !.by = "search",
                              !.reason = "needs_review"]]
             ELSE rows
  /\ Reply(q)
  /\ UNCHANGED <<disk, userVars, importVars, seen, flipped, runner>>

\* Mutant: the folder is fingerprinted last.
RescannedFingerprintLast(row, fp, payload) ==
  [row EXCEPT !.fp = CHOOSE v \in {disk[f].ver : f \in Folders} : v >= fp,
              !.payload = payload, !.by = "rescan", !.dup = FALSE,
              !.reason = IF payload = 0 THEN "no_match" ELSE "needs_review"]

Rescanned(row, fp, payload) ==
  [row EXCEPT !.fp = fp, !.payload = payload, !.by = "rescan", !.dup = FALSE,
              !.reason = IF payload = 0 THEN "no_match" ELSE "needs_review"]

\* A stale row, and one whose folder would not answer, start afresh.
Answered(row) ==
  IF row.status = "stale" \/ (row.status = "failed" /\ row.recovery = "fix_folder")
  THEN [Marked(row, "needs_review", "decide_again") EXCEPT !.decided = None]
  ELSE row

\* rescan_item; a lookup without a match stores no candidates.
StoreRescan(q) ==
  /\ At(q, "rescan", "found")
  /\ \E payload \in {0, requests[q].payload} :
       rows' = IF TargetThere(q) /\ Target(q).status \in RESCANNABLE
               THEN [rows EXCEPT ![requests[q].f] =
                      Answered(Rescanned(@, requests[q].fp, payload))]
               ELSE rows
  /\ Reply(q)
  /\ UNCHANGED <<disk, userVars, importVars, seen, flipped, runner>>

-----------------------------------------------------------------------------

FolderStep(f) == ChangeFolder(f) \/ RemoveFolder(f)

OtherImportStep ==
  StartUnattended \/ EndUnattended \/ \E f \in Folders : LookUp(f) \/ BankRow(f)

UserStep(f) ==
  (\E action \in Actions : Decide(f, action)) \/ Ignore(f) \/ Delete(f)

RunnerStep ==
  \/ \E f \in Folders : PickNext(f)
  \/ PassGate \/ Claim \/ CheckFolder \/ EnforceSkipNew
  \/ StartImport \/ StartRefused \/ FinishApply \/ FinishUnconfirmed \/ RunnerRaises

RequestStep(q) ==
  \/ \E kind \in Kinds, f \in Folders : BeginRequest(q, kind, f)
  \/ ReadFingerprint(q) \/ LookUpAgain(q) \/ GiveUpRequest(q)
  \/ FlipStale(q) \/ StoreSearch(q) \/ StoreRescan(q)

Next ==
  \/ \E f \in Folders : FolderStep(f) \/ UserStep(f)
  \/ OtherImportStep
  \/ RunnerStep
  \/ RunImport \/ EndImport
  \/ \E q \in Requests : RequestStep(q)
  \/ Restart

Spec == Init /\ [][Next]_vars

\* The thread runs on, an import ends, and a start that is possible again and
\* again (the other library jobs end, the root comes back) is made one day.
Fairness ==
  /\ WF_vars(\E f \in Folders : PickNext(f))
  /\ SF_vars(PassGate)
  /\ WF_vars(Claim)
  /\ WF_vars(CheckFolder)
  /\ SF_vars(StartImport)
  /\ WF_vars(EnforceSkipNew \/ StartImport \/ StartRefused)
  /\ WF_vars(RunImport)
  /\ WF_vars(EndImport)
  /\ WF_vars(EndUnattended)
  /\ WF_vars(FinishApply \/ FinishUnconfirmed)

FairSpec == Spec /\ Fairness

-----------------------------------------------------------------------------
(* Properties.                                                             *)

Runner == [pc : RunnerPcs, f : Folders \cup {None}, id : Nat,
           row : Row \cup {None}, gone : BOOLEAN]
Request == [pc : RequestPcs, kind : {"search", "rescan", None},
            f : Folders \cup {None}, id : Nat, fp : Nat, payload : Nat]

\* Every variable has its type (models/bank.py, the enumerations).
TypeOK ==
  /\ disk \in [Folders -> [ver : Nat, here : BOOLEAN]]
  /\ rows \in [Folders -> Row \cup {None}]
  /\ nextId \in Nat /\ clock \in 0..MaxStamp
  /\ slot \in {"free", "drain", "apply"}
  /\ seen \in [Folders -> Nat]
  /\ runner \in Runner
  /\ work \in Outcome \cup {None}
  /\ requests \in [Requests -> Request]
  /\ landings \in [1..MaxStamp -> Nat]
  /\ ending \in [1..MaxStamp -> Ends \cup {None}]
  /\ flipped \subseteq Nat

Stored == {f \in Folders : rows[f] # None}

\* No write leaves a row that models/bank.py refuses to read back (the row
\* would vanish from every listing): a row on its way to the library has the
\* decision that sent it there, and a row's reason has its payload.  Searches,
\* rescans, re-banks and the runner's blind failure all write concurrently.
RowsAreReadable ==
  \A f \in Stored :
    /\ rows[f].status \in {"queued", "applying", "done"}
         => rows[f].decided \in ApplyActions
    /\ rows[f].reason = "needs_review" => rows[f].payload # 0
    /\ rows[f].reason = "needs_dup_resolution" => rows[f].dup

\* One decision puts its album in the library at most once, over requeues,
\* crashes and restarts (reconcile_interrupted: "never blind-requeued").
DecisionLandsOnce == \A n \in 1..MaxStamp : landings[n] <= 1

\* What "done" says: the decision was carried out (apply_runner._classify).  A
\* skip_new may be done without an import.  Excused: a merge of which only a
\* sibling album of the folder landed.
DoneIsKept ==
  \A f \in Stored : rows[f].status = "done" =>
    \/ ending[rows[f].stamp] \in {"kept", "sibling"}
    \/ rows[f].decided = "skip_new" /\ ending[rows[f].stamp] = None

\* Without the excuse: a merge that reads "done" merged an album
\* (apply_runner._classify_duplicate: without its last arm a merge cut short
\* "reads done with the old copy alone in the library").
DoneMergeIsMerged ==
  \A f \in Stored : rows[f].status = "done" => ending[rows[f].stamp] # "sibling"

\* "Stale" says nothing was imported: a row whose decision put its album in the
\* library never reads stale.  Excused: a row a search flipped.
StaleMeansNotImported ==
  \A f \in Stored :
    rows[f].status = "stale" /\ rows[f].stamp \notin flipped \cup {0}
      => landings[rows[f].stamp] = 0

\* Without the excuse (api/bank.py: the flip is "intentionally unguarded", for a
\* decision racing past the check would "land on stale anyway").
StaleAlwaysMeansNotImported ==
  \A f \in Stored : rows[f].status = "stale" /\ rows[f].stamp # 0
                     => landings[rows[f].stamp] = 0

\* Candidates are never about an older folder than the fingerprint they are
\* stored under: the apply's fingerprint check would pass and file new audio
\* under candidates looked up for the old.  For rescans ("fingerprint first").
PayloadIsNotOlder(by) ==
  \A f \in Stored : rows[f].by = by /\ rows[f].payload # 0
                     => rows[f].payload >= rows[f].fp

RescanIsCurrent == PayloadIsNotOlder("rescan")

\* The same of a search (api/bank.py: "A searched payload must describe the
\* banked files").
SearchIsCurrent == PayloadIsNotOlder("search")

\* A decision that was queued is dealt with: the row leaves the queue for good
\* or goes back to the user, once other imports leave the slot alone.
QueuedIsSettled ==
  <>[](slot # "drain") =>
    \A f \in Folders :
      rows[f] # None /\ rows[f].status = "queued"
        ~> rows[f] = None \/ rows[f].status \notin {"queued", "applying"}

=============================================================================
