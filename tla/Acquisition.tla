----------------------------- MODULE Acquisition -----------------------------
(***************************************************************************)
(* The inbox: webhooks that report finished downloads (api/slskd.py), the  *)
(* queue with its drain thread (acquisition/queue.py), the ledger of what  *)
(* was handled (acquisition/ledger.py) and the one import slot they share  *)
(* with the imports people start. A folder holds one album or two; the     *)
(* directory has an identity (mtime and size) and a content, the newest    *)
(* download in it. Webhooks, drain, worker and recorder interleave.        *)
(***************************************************************************)
EXTENDS Naturals, FiniteSets, Sequences, SequencesExt

CONSTANTS
  None,
  Folders,      \* the album folders of the inbox
  Hooks,        \* webhooks handled at once (_INBOX_SCAN_SLOTS)
  MaxClock,     \* bound: changes of folders
  Faults        \* whether a write of the ledger may fail

ASSUME NoneAssumption == None \notin Folders
ASSUME HooksAssumption == IsFiniteSet(Hooks)
ASSUME MaxClockAssumption == MaxClock \in Nat

Outcomes == {"imported", "set_aside", "failed"}
DrainPcs == {"get", "gate", "start", "wait", "classify", "state", "mark", "finish",
             "deferring", "ended"}

VARIABLES
  moves,      \* whether beets' file operation empties the folder
  disk,       \* per folder, its identity (0: gone) and its content (0: no audio)
  clock,
  ledger,     \* the rows on disk and in memory, which agree
  hooks,      \* the webhooks under way
  queue,      \* None is the shutdown sentinel
  dedupe,
  stopping,   \* _stop
  status,     \* phase and current
  drain,      \* the drain thread: where it is, its folder, what it read
  slot,       \* the import in the slot, the last one while none runs
  recording,  \* folders a finished run still has to hand to the recorder
  blocked,    \* another library operation, a swap or a missing music share
  landed,     \* history: the folders whose content is in the library,
  silent      \* and whose content came without a word to the ledger

history == <<landed, silent>>
folderVars == <<disk, clock, history>>
queueVars == <<queue, dedupe, stopping, status>>
vars == <<moves, folderVars, ledger, hooks, queueVars, drain, slot, recording, blocked>>

HookIdle == [pc |-> "idle", f |-> None]
DrainIdle == [pc |-> "get", f |-> None, aborted |-> FALSE, outcome |-> None]

StatusIdle == [phase |-> "idle", current |-> None]

Init ==
  /\ moves \in BOOLEAN
  /\ disk = [f \in Folders |-> [id |-> 1, drop |-> 1]] /\ clock = 1
  /\ ledger = [f \in Folders |-> None]
  /\ hooks = [w \in Hooks |-> HookIdle]
  /\ queue = <<>> /\ dedupe = {} /\ stopping = FALSE /\ status = StatusIdle
  /\ drain = DrainIdle
  /\ slot = None /\ recording = {} /\ blocked = FALSE
  /\ landed = {} /\ silent = {}

(***************************************************************************)
(* The ledger.                                                             *)
(***************************************************************************)
Seen(f) == disk[f].id # 0 /\ ledger[f] # None /\ ledger[f].id = disk[f].id

Mark(f, outcome) == ledger' = [ledger EXCEPT ![f] = [id |-> disk[f].id, outcome |-> outcome]]

\* What "Not imported yet" leaves out (_imported_unchanged).
Hidden(f) == Seen(f) /\ ledger[f].outcome = "imported"

(***************************************************************************)
(* The folders.                                                            *)
(***************************************************************************)
Running == slot # None /\ slot.phase = "running"

\* A run has looked into the folder and its outcome is still to be recorded: a
\* download that arrives now has the identity the record will have.
InHand(f) ==
  \/ Running /\ f \in slot.sources /\ (f \notin slot.todo \/ slot.album = f
                                           \/ slot.result[f] # "none")
  \/ f \in recording
  \/ drain.f = f /\ drain.pc \in {"wait", "classify", "state", "mark"}
       /\ ~(Running /\ slot.mine /\ f \in slot.todo)

\* A download, of a subfolder (nested: the identity stays) or of the folder.
DropArrives(f) ==
  /\ clock < MaxClock
  /\ clock' = clock + 1
  /\ \E nested \in {FALSE, disk[f].id # 0} :
       /\ disk' = [disk EXCEPT ![f] = [id |-> IF nested THEN @.id ELSE clock + 1,
                                       drop |-> clock + 1]]
       /\ silent' = IF nested \/ InHand(f) THEN silent \cup {f} ELSE silent \ {f}
  /\ landed' = landed \ {f}
  /\ UNCHANGED <<moves, ledger, hooks, queueVars, drain, slot, recording, blocked>>

FolderRemoved(f) ==
  /\ disk[f].id # 0
  /\ disk' = [disk EXCEPT ![f] = [id |-> 0, drop |-> 0]]
  /\ landed' = landed \ {f} /\ silent' = silent \ {f}
  /\ UNCHANGED <<moves, clock, ledger, hooks, queueVars, drain, slot, recording, blocked>>

Blocks ==
  /\ blocked' = ~blocked
  /\ UNCHANGED <<moves, folderVars, ledger, hooks, queueVars, drain, slot, recording>>

(***************************************************************************)
(* The webhook: enqueue checks _stop, then the two records under the       *)
(* queue's lock, then puts the folder.                                     *)
(***************************************************************************)
Hook(w, pc, f) == hooks' = [hooks EXCEPT ![w] = [pc |-> pc, f |-> f]]

HookArrives(w, f) ==
  /\ hooks[w].pc = "idle" /\ ~stopping
  /\ Hook(w, "checked", f)
  /\ UNCHANGED <<moves, folderVars, ledger, queueVars, drain, slot, recording, blocked>>

Admit(w) ==
  /\ hooks[w].pc = "checked"
  /\ LET f == hooks[w].f IN
     IF f \in dedupe \/ Seen(f)
       THEN /\ hooks' = [hooks EXCEPT ![w] = HookIdle]
            /\ UNCHANGED dedupe
       ELSE /\ dedupe' = dedupe \cup {f}
            /\ Hook(w, "admitted", f)
  /\ UNCHANGED <<moves, folderVars, ledger, queue, stopping, status, drain, slot, recording,
                 blocked>>

Put(w) ==
  /\ hooks[w].pc = "admitted"
  /\ queue' = Append(queue, hooks[w].f)
  /\ hooks' = [hooks EXCEPT ![w] = HookIdle]
  /\ UNCHANGED <<moves, folderVars, ledger, dedupe, stopping, status, drain, slot, recording,
                 blocked>>

(***************************************************************************)
(* The import in the slot.                                                 *)
(***************************************************************************)
NewJob(mine, sources) ==
  [mine |-> mine, sources |-> sources, todo |-> sources, album |-> None, got |-> 0,
   result |-> [f \in sources |-> "none"],
   phase |-> "running", stopped |-> FALSE, aborted |-> FALSE]

\* A run somebody starts, of inbox folders or of others (the empty set).
StartOther(sources) ==
  /\ ~Running /\ ~blocked /\ ~stopping
  /\ sources = {} \/ \E f \in sources : disk[f].id # 0
  /\ slot' = NewJob(FALSE, sources)
  /\ UNCHANGED <<moves, folderVars, ledger, hooks, queueVars, drain, recording, blocked>>

\* beets walks a folder: its next album, the last one or the first of two, or
\* nothing to feed.
Walk(f) ==
  /\ Running /\ slot.album = None /\ f \in slot.todo
  /\ \E last \in {TRUE, disk[f].drop = 0 \/ slot.result[f] # "none"} :
       slot' = [slot EXCEPT !.todo = IF last THEN @ \ {f} ELSE @, !.got = disk[f].drop,
                            !.album = IF disk[f].drop = 0 THEN None ELSE f]
  /\ UNCHANGED <<moves, folderVars, ledger, hooks, queueVars, drain, recording, blocked>>

\* The album is set aside, or skipped: what it is banked for is its row's.
SetAside ==
  /\ Running /\ slot.album # None
  /\ slot' = [slot EXCEPT !.album = None, !.got = 0,
                          !.result = [@ EXCEPT ![slot.album] = "aside"]]
  /\ UNCHANGED <<moves, folderVars, ledger, hooks, queueVars, drain, recording, blocked>>

\* The last album: a move leaves nothing of what was walked, and changes the
\* identity. (Two albums are two subfolders: one of them leaves it alone.)
LandAlbum ==
  /\ Running /\ slot.album # None
  /\ LET f == slot.album
         all == f \notin slot.todo /\ slot.result[f] # "aside"
         what == IF slot.result[f] = "aside" THEN "aside" ELSE "landed"
     IN
     /\ slot' = [slot EXCEPT !.album = None, !.got = 0,
                             !.result = [@ EXCEPT ![f] = what]]
     /\ landed' = IF all /\ disk[f].drop = slot.got THEN landed \cup {f} ELSE landed
     /\ IF all /\ moves /\ disk[f].id # 0
          THEN /\ clock' = clock + 1
               /\ disk' = [disk EXCEPT ![f] = [id |-> clock + 1,
                                               drop |-> IF @.drop = slot.got THEN 0 ELSE @.drop]]
          ELSE UNCHANGED <<clock, disk>>
  /\ UNCHANGED <<moves, silent, ledger, hooks, queueVars, drain, recording, blocked>>

RequestStop ==
  /\ Running /\ ~slot.stopped
  /\ slot' = [slot EXCEPT !.stopped = TRUE]
  /\ UNCHANGED <<moves, folderVars, ledger, hooks, queueVars, drain, recording, blocked>>

\* An abort point is inside an album.
Abort ==
  /\ Running /\ slot.stopped /\ slot.album # None
  /\ slot' = [slot EXCEPT !.todo = {}, !.album = None, !.got = 0, !.aborted = TRUE]
  /\ UNCHANGED <<moves, folderVars, ledger, hooks, queueVars, drain, recording, blocked>>

\* _fully_landed_sources.
FullyLanded(job) ==
  IF job.aborted THEN {} ELSE {f \in job.sources : job.result[f] = "landed"}

\* Of a run that is not the drain's, nobody here reads how it ended.
Ended(job, phase) ==
  [IF job.mine THEN job ELSE NewJob(FALSE, {})
     EXCEPT !.phase = phase, !.todo = {}, !.album = None, !.got = 0]

\* _on_finish: the phase, then, off the lock, the recorder. One record of a
\* folder is under way at a time (a bound).
FinishJob ==
  /\ Running /\ slot.todo = {} /\ slot.album = None
  /\ FullyLanded(slot) \cap recording = {}
  /\ slot' = Ended(slot, "done")
  /\ recording' = recording \cup FullyLanded(slot)
  /\ UNCHANGED <<moves, folderVars, ledger, hooks, queueVars, drain, blocked>>

\* _on_error.
FailJob ==
  /\ Running
  /\ slot' = Ended(slot, "failed")
  /\ UNCHANGED <<moves, folderVars, ledger, hooks, queueVars, drain, recording, blocked>>

\* record_imported, one folder; a refused write leaves it listed.
Record(f) ==
  /\ f \in recording
  /\ recording' = recording \ {f}
  /\ Mark(f, "imported") \/ (Faults /\ UNCHANGED ledger)
  /\ UNCHANGED <<moves, folderVars, hooks, queueVars, drain, slot, blocked>>

(***************************************************************************)
(* The drain thread.                                                       *)
(***************************************************************************)
DrainAt(pc) == drain.pc = pc
DrainTo(pc) == drain' = [drain EXCEPT !.pc = pc]

\* queue.get(), and the status for the folder it returned.
TakeFolder ==
  /\ DrainAt("get") /\ ~stopping /\ queue # <<>> /\ Head(queue) # None
  /\ queue' = Tail(queue)
  /\ drain' = [DrainIdle EXCEPT !.pc = "gate", !.f = Head(queue)]
  /\ status' = [phase |-> "running", current |-> Head(queue)]
  /\ UNCHANGED <<moves, folderVars, ledger, hooks, dedupe, stopping, slot, recording, blocked>>

\* Wherever it waits, the thread ends when it sees _stop.
EndDrain ==
  /\ stopping /\ drain.pc \in {"get", "gate", "wait", "deferring"}
  /\ DrainTo("ended")
  /\ UNCHANGED <<moves, folderVars, ledger, hooks, queueVars, slot, recording, blocked>>

\* import_gate_clear, a hint: the slot may be taken before start().
PassGate ==
  /\ DrainAt("gate") /\ ~Running /\ ~blocked
  /\ DrainTo("start")
  /\ UNCHANGED <<moves, folderVars, ledger, hooks, queueVars, slot, recording, blocked>>

\* start() is refused: its own reasons first, then a missing folder, then the slot.
StartRefused == blocked \/ (Running /\ disk[drain.f].id # 0)

\* Mutant: a refusal escapes and ends the thread.
RefusalEndsThread ==
  /\ DrainAt("start") /\ StartRefused
  /\ DrainTo("ended")
  /\ UNCHANGED <<moves, folderVars, ledger, hooks, queueVars, slot, recording, blocked>>

\* start() refuses: the folder waits its turn again (_defer).
Defer ==
  /\ DrainAt("start") /\ StartRefused
  /\ DrainTo("deferring")
  /\ status' = [status EXCEPT !.current = None]
  /\ UNCHANGED <<moves, folderVars, ledger, hooks, queue, dedupe, stopping, slot, recording,
                 blocked>>

Requeue ==
  /\ DrainAt("deferring") /\ ~stopping
  /\ queue' = Append(queue, drain.f)
  /\ drain' = DrainIdle
  /\ UNCHANGED <<moves, folderVars, ledger, hooks, dedupe, stopping, status, slot, recording,
                 blocked>>

\* The folder is gone: failed, with no row.
RefuseSource ==
  /\ DrainAt("start") /\ disk[drain.f].id = 0
  /\ DrainTo("finish")
  /\ UNCHANGED <<moves, folderVars, ledger, hooks, queueVars, slot, recording, blocked>>

StartDrained ==
  /\ DrainAt("start") /\ ~Running /\ ~blocked
  /\ disk[drain.f].id # 0
  /\ slot' = NewJob(TRUE, {drain.f})
  /\ DrainTo("wait")
  /\ UNCHANGED <<moves, folderVars, ledger, hooks, queueVars, recording, blocked>>

Mine == slot # None /\ slot.mine

\* _wait_for_import: our run is over, or another has the slot (_raced_handoff).
SeeEnd ==
  /\ DrainAt("wait") /\ ~(Mine /\ Running)
  /\ IF Mine THEN DrainTo("classify")
             ELSE drain' = [drain EXCEPT !.pc = "mark", !.outcome = "failed"]
  /\ UNCHANGED <<moves, folderVars, ledger, hooks, queueVars, slot, recording, blocked>>

ReadAborted ==
  /\ DrainAt("classify")
  /\ drain' = [drain EXCEPT !.pc = "state", !.aborted = Mine /\ slot.aborted]
  /\ UNCHANGED <<moves, folderVars, ledger, hooks, queueVars, slot, recording, blocked>>

\* Mutant: a stop is not looked at.
VerdictOfFeed(f) ==
  CASE ~Mine -> "failed"
    [] Mine /\ slot.phase = "failed" -> "failed"
    [] Mine /\ slot.phase = "done" ->
         IF slot.result[f] = "aside" THEN "set_aside" ELSE "imported"

\* _result_for, from state().
Verdict(f) ==
  CASE ~Mine -> "failed"
    [] Mine /\ slot.phase = "failed" -> "failed"
    [] Mine /\ slot.phase = "done" ->
         IF slot.stopped /\ drain.aborted THEN "failed"
         ELSE IF slot.result[f] = "aside" THEN "set_aside"
         ELSE IF slot.result[f] = "none" THEN "failed" ELSE "imported"

ReadState ==
  /\ DrainAt("state")
  /\ drain' = [drain EXCEPT !.pc = "mark", !.outcome = Verdict(drain.f)]
  /\ UNCHANGED <<moves, folderVars, ledger, hooks, queueVars, slot, recording, blocked>>

MarkHandled ==
  /\ DrainAt("mark")
  /\ \/ Mark(drain.f, drain.outcome)
     \/ Faults /\ UNCHANGED ledger
  /\ DrainTo("finish")
  /\ UNCHANGED <<moves, disk, clock, landed, silent, hooks, queueVars, slot, recording, blocked>>

\* _finish.
Finish ==
  /\ DrainAt("finish")
  /\ dedupe' = dedupe \ {drain.f}
  /\ status' = [phase |-> IF dedupe' = {} THEN "idle" ELSE status.phase, current |-> None]
  /\ drain' = DrainIdle
  /\ UNCHANGED <<moves, folderVars, ledger, hooks, queue, stopping, slot, recording, blocked>>

(***************************************************************************)
(* The process.                                                            *)
(***************************************************************************)
\* stop(): the flag, and the sentinel behind whatever is queued.
Stop ==
  /\ ~stopping
  /\ stopping' = TRUE
  /\ queue' = Append(queue, None)
  /\ UNCHANGED <<moves, folderVars, ledger, hooks, dedupe, status, drain, slot, recording,
                 blocked>>

\* The process ends, stopped or not, and starts again with the ledger's file.
Restart ==
  /\ hooks' = [w \in Hooks |-> HookIdle]
  /\ queue' = <<>> /\ dedupe' = {} /\ stopping' = FALSE /\ status' = StatusIdle
  /\ drain' = DrainIdle
  /\ slot' = None /\ recording' = {}
  /\ UNCHANGED <<moves, folderVars, ledger, blocked>>

FolderStep == \E f \in Folders : DropArrives(f) \/ FolderRemoved(f)
HookStep(w) == (\E f \in Folders : HookArrives(w, f)) \/ Admit(w) \/ Put(w)
WorkerStep == (\E f \in Folders : Walk(f)) \/ SetAside \/ LandAlbum \/ Abort \/ FinishJob \/ FailJob
DrainStep ==
  \/ TakeFolder \/ EndDrain \/ PassGate \/ Defer \/ Requeue \/ RefuseSource \/ StartDrained
  \/ SeeEnd \/ ReadAborted \/ ReadState \/ MarkHandled \/ Finish

Next ==
  \/ FolderStep \/ Blocks
  \/ \E w \in Hooks : HookStep(w)
  \/ \E sources \in SUBSET Folders : StartOther(sources)
  \/ WorkerStep \/ RequestStop
  \/ \E f \in Folders : Record(f)
  \/ DrainStep
  \/ Stop \/ Restart

Spec == Init /\ [][Next]_vars

(***************************************************************************)
(* Properties.                                                             *)
(***************************************************************************)
\* The dedupe set holds exactly the folders that are on their way, each in one
\* place: an entry without its folder would refuse every webhook for it until a
\* restart, a folder twice on its way would be imported twice.
InDrain == IF drain.pc \in {"get", "ended"} THEN {} ELSE {drain.f}
Admitted == {w \in Hooks : hooks[w].pc = "admitted"}
DedupeIsWork ==
  ~stopping =>
    /\ dedupe = ToSet(queue) \cup InDrain \cup {hooks[w].f : w \in Admitted}
    /\ Cardinality(dedupe) = Len(queue) + Cardinality(InDrain) + Cardinality(Admitted)

\* The page names a folder only while the drain has it and has not put it back,
\* and is idle only when nothing is in its hands.
StatusIsTrue ==
  /\ status.current # None => status.current \in dedupe /\ status.current = drain.f
                              /\ drain.pc # "deferring"
  /\ status.phase = "running" => dedupe # {}
  /\ ~stopping /\ drain.pc # "get" => status.phase = "running"

\* What is on its way, and what the page says of it.
WorkIsTrue == DedupeIsWork /\ StatusIsTrue

\* What "Not imported yet" leaves out is in the library.
HiddenIsImported == \A f \in Folders : Hidden(f) => disk[f].drop = 0 \/ f \in landed

\* The same of downloads the folder's identity tells: not in a subfolder, and
\* not between the walk and the record.
QuietHiddenIsImported ==
  \A f \in Folders : Hidden(f) => disk[f].drop = 0 \/ f \in landed \cup silent

=============================================================================
