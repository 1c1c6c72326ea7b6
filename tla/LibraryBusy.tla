----------------------------- MODULE LibraryBusy -----------------------------
(***************************************************************************)
(* Who may touch the beets library: five single-slot background jobs, the  *)
(* claim lock that serialises their starts, and the beets swap lock that   *)
(* config Apply and the other in-process mutations hold.                   *)
(*                                                                         *)
(* Sources: backend/app/library_busy.py, jobs/base.py, the five registries *)
(* and their start routes, and the swap-lock holders (beets/config_editor, *)
(* duplicates, delete, edit, rename, cover, api/trash.py, api/artists.py). *)
(*                                                                         *)
(* A RUN is one start of one job type: the request (or daemon) thread that *)
(* passes a gate and claims the slot, and then the worker it spawns.  A    *)
(* HOLDER is one request that takes the swap lock.                         *)
(***************************************************************************)
EXTENDS Naturals, Sequences, FiniteSets

CONSTANTS
  Runs,         \* job starts
  JobOf,        \* the job type of each run
  CaptureAt,    \* where each run's start reads the library handle
  Holders,      \* swap-lock requests
  Kind,         \* which kind of holder each one is
  MaxApplies,   \* bound: how many library handles Apply may build
  CloseCrash,   \* whether a worker may raise after it reported its end
  None

JobTypes == {"import", "lyrics", "artist_art", "reorganize", "disk_sync"}

\* "apply": waits for the lock, no gate of its own.  "mutation": duplicates,
\* delete, edit, rename, cover.  "trash": restore and empty.  "reset": the
\* artist-image reset, whose job gate is the artist-art job alone.
HolderKinds == {"apply", "mutation", "trash", "reset"}

CapturePoints == {"before_gate", "before_claim", "after_claim"}

ASSUME RunsAssumption ==
  /\ JobOf \in [Runs -> JobTypes]
  /\ CaptureAt \in [Runs -> CapturePoints]
ASSUME HoldersAssumption == Kind \in [Holders -> HolderKinds]
ASSUME BoundsAssumption == MaxApplies \in Nat /\ CloseCrash \in BOOLEAN
ASSUME NoneAssumption == None \notin Runs /\ None \notin Holders
ASSUME DisjointAssumption == Runs \cap Holders = {}

VARIABLES
  slot,        \* job type -> the run whose job is in an active phase, or None
  claimLock,   \* _CLAIM_LOCK: the run between its check and its slot, or None
  swapLock,    \* beets_swap_lock: its holder, or None
  waiters,     \* the tasks queued on the swap lock, oldest first
  libGen,      \* which library handle app.state.beets_library is
  handle,      \* the handle each run captured (0 = none)
  rpc,         \* where each run is
  hpc,         \* where each holder is
  disowned     \* ghost: runs in flight whose job the end of another run ended

runVars == <<slot, claimLock, handle, rpc, disowned>>
holderVars == <<swapLock, waiters, hpc>>
vars == <<slot, claimLock, swapLock, waiters, libGen, handle, rpc, hpc, disowned>>

RunPcs == {"idle", "captured", "gated", "resolved", "claiming", "installing",
           "claimed", "ready", "working", "closing"}
HolderPcs == {"idle", "waiting", "holding", "working", "swapped"}

TypeOK ==
  /\ slot \in [JobTypes -> Runs \cup {None}]
  /\ claimLock \in Runs \cup {None}
  /\ swapLock \in Holders \cup {None}
  /\ waiters \in Seq(Holders)
  /\ libGen \in Nat
  /\ handle \in [Runs -> Nat]
  /\ rpc \in [Runs -> RunPcs]
  /\ hpc \in [Holders -> HolderPcs]
  /\ disowned \subseteq Runs

Init ==
  /\ slot = [j \in JobTypes |-> None]
  /\ claimLock = None
  /\ swapLock = None
  /\ waiters = <<>>
  /\ libGen = 1
  /\ handle = [r \in Runs |-> 0]
  /\ rpc = [r \in Runs |-> "idle"]
  /\ hpc = [h \in Holders |-> "idle"]
  /\ disowned = {}

-----------------------------------------------------------------------------
(* The slots.                                                              *)

\* library_job_active(exclude = X): some other job type holds the library.
LibraryJobActive(X) == \E j \in JobTypes \ X : slot[j] # None

\* _swap_in_progress: asyncio.Lock.locked().
SwapInProgress == swapLock # None

Goto(r, pc) == rpc' = [rpc EXCEPT ![r] = pc]

\* A start that is refused drops what it captured.
GiveUp(r) ==
  /\ Goto(r, "idle")
  /\ handle' = [handle EXCEPT ![r] = 0]

\* The end of a job.  The import registry checks the job id first; the shared
\* single-slot registry ends whichever job its slot holds.
SlotAfterEnd(r) ==
  IF JobOf[r] = "import" /\ slot["import"] # r
  THEN slot
  ELSE [slot EXCEPT ![JobOf[r]] = None]

\* A worker that is late ends the job of the run that came after it.
EndJob(r) ==
  /\ slot' = SlotAfterEnd(r)
  /\ disowned' = (disowned \cup {s \in Runs : slot[JobOf[r]] = s /\ slot'[JobOf[r]] # s})
                   \ {r}

-----------------------------------------------------------------------------
(* A run: gate, handle, claim, worker.                                     *)

\* The start reads the library handle: an album reorganize before an await
\* and the gate, an import when it resolves its runner (before validate and
\* the claim), the other jobs once the slot is theirs.
CaptureHandle(r) ==
  /\ \/ CaptureAt[r] = "before_gate" /\ rpc[r] = "idle" /\ Goto(r, "captured")
     \/ CaptureAt[r] = "before_claim" /\ rpc[r] = "gated" /\ Goto(r, "resolved")
     \/ CaptureAt[r] = "after_claim" /\ rpc[r] = "claimed" /\ Goto(r, "ready")
  /\ handle' = [handle EXCEPT ![r] = libGen]
  /\ UNCHANGED <<slot, claimLock, libGen, disowned, holderVars>>

AtGate(r) == rpc[r] = IF CaptureAt[r] = "before_gate" THEN "captured" ELSE "idle"

\* Every start but an import's runs from its gate to its worker's spawn in one
\* step of the event loop (no await), and every holder's steps run on that
\* loop.  An import starts on a thread of its own.
OnLoop(r) == JobOf[r] # "import"
LoopFree ==
  \A r \in Runs : OnLoop(r) =>
    rpc[r] \notin {"gated", "claiming", "installing", "claimed", "ready"}

\* raise_if_library_busy / ensure_import_can_start / import_gate_clear: read
\* without the claim lock, so only a fast refusal.
PassGate(r) ==
  /\ AtGate(r)
  /\ OnLoop(r) => LoopFree
  /\ ~LibraryJobActive({JobOf[r]})
  /\ ~SwapInProgress
  /\ Goto(r, "gated")
  /\ UNCHANGED <<slot, claimLock, handle, libGen, disowned, holderVars>>

\* A refusal at the gate, by validate, or of an unknown album.
RefuseStart(r) ==
  /\ rpc[r] \in {"captured", "gated", "resolved"}
  /\ GiveUp(r)
  /\ UNCHANGED <<slot, claimLock, libGen, disowned, holderVars>>

\* claim_slot takes _CLAIM_LOCK.
EnterClaim(r) ==
  /\ rpc[r] = IF CaptureAt[r] = "before_claim" THEN "resolved" ELSE "gated"
  /\ claimLock = None
  /\ claimLock' = r
  /\ Goto(r, "claiming")
  /\ UNCHANGED <<slot, handle, libGen, disowned, holderVars>>

\* Mutants: the claim forgets one half of its check.
ClaimIgnoresJobs(r) == SwapInProgress
ClaimBlocked(r) == LibraryJobActive({JobOf[r]}) \/ SwapInProgress

\* Under the claim lock: refused while another job type or a swap holder is in.
RefuseClaim(r) ==
  /\ rpc[r] = "claiming"
  /\ ClaimBlocked(r)
  /\ claimLock' = None
  /\ GiveUp(r)
  /\ UNCHANGED <<slot, libGen, disowned, holderVars>>

PassClaim(r) ==
  /\ rpc[r] = "claiming"
  /\ ~ClaimBlocked(r)
  /\ Goto(r, "installing")
  /\ UNCHANGED <<slot, claimLock, handle, libGen, disowned, holderVars>>

\* The body of the with: refuse if the own slot is active, else install.
Install(r) ==
  /\ rpc[r] = "installing"
  /\ claimLock' = None
  /\ IF slot[JobOf[r]] # None
     THEN GiveUp(r) /\ UNCHANGED slot
     ELSE /\ slot' = [slot EXCEPT ![JobOf[r]] = r]
          /\ Goto(r, "claimed")
          /\ UNCHANGED handle
  /\ UNCHANGED <<libGen, disowned, holderVars>>

AtSpawn(r) == rpc[r] = IF CaptureAt[r] = "after_claim" THEN "ready" ELSE "claimed"

SpawnWorker(r) ==
  /\ AtSpawn(r)
  /\ Goto(r, "working")
  /\ UNCHANGED <<slot, claimLock, handle, libGen, disowned, holderVars>>

\* Mutant: the refused thread leaves its job running.
SpawnRefusedKeepsSlot(r) ==
  /\ AtSpawn(r)
  /\ GiveUp(r)
  /\ UNCHANGED <<slot, claimLock, libGen, disowned, holderVars>>

\* Thread.start() raises: spawn_worker fails the job, the import registry
\* clears its slot, and the error is re-raised.
SpawnRefused(r) ==
  /\ AtSpawn(r)
  /\ EndJob(r)
  /\ GiveUp(r)
  /\ UNCHANGED <<claimLock, libGen, holderVars>>

\* The worker reports its end: finish("done" | "stopped"), fail, _on_finish or
\* _on_error.  The job's phase is terminal from here.
EndWork(r) ==
  /\ rpc[r] = "working"
  /\ EndJob(r)
  /\ Goto(r, "closing")
  /\ UNCHANGED <<claimLock, handle, libGen, holderVars>>

\* A raise between finish() and the end of the worker's try block (a context
\* manager's __exit__) reaches fail(), which is not gated on a running job.
FailAfterEnd(r) ==
  /\ CloseCrash
  /\ JobOf[r] # "import"
  /\ rpc[r] = "closing"
  /\ EndJob(r)
  /\ GiveUp(r)
  /\ UNCHANGED <<claimLock, libGen, holderVars>>

\* The worker thread ends; the same client may ask again.
WorkerReturns(r) ==
  /\ rpc[r] = "closing"
  /\ GiveUp(r)
  /\ UNCHANGED <<slot, claimLock, libGen, disowned, holderVars>>

RunStep(r) ==
  \/ CaptureHandle(r) \/ PassGate(r) \/ RefuseStart(r)
  \/ EnterClaim(r) \/ RefuseClaim(r) \/ PassClaim(r) \/ Install(r)
  \/ SpawnWorker(r) \/ SpawnRefused(r)
  \/ EndWork(r) \/ FailAfterEnd(r) \/ WorkerReturns(r)

-----------------------------------------------------------------------------
(* A swap-lock holder, on the event loop.                                  *)

\* The gate each holder reads before it asks for the lock.
PreGate(h) ==
  CASE Kind[h] = "apply" -> TRUE
    [] Kind[h] = "mutation" -> ~LibraryJobActive({})
    [] Kind[h] = "trash" -> ~LibraryJobActive({}) /\ ~SwapInProgress
    [] Kind[h] = "reset" -> slot["artist_art"] = None /\ ~SwapInProgress

\* asyncio.Lock.acquire: straight in when free and nobody waits, else queue.
RequestLock(h) ==
  /\ hpc[h] = "idle"
  /\ PreGate(h)
  /\ IF swapLock = None /\ waiters = <<>>
     THEN /\ swapLock' = h
          /\ hpc' = [hpc EXCEPT ![h] = "holding"]
          /\ UNCHANGED waiters
     ELSE /\ waiters' = Append(waiters, h)
          /\ hpc' = [hpc EXCEPT ![h] = "waiting"]
          /\ UNCHANGED swapLock
  /\ UNCHANGED <<runVars, libGen>>

\* Mutant: a waiter resumes without looking whether somebody barged in.
WakeWaiterBarging(h) ==
  /\ waiters # <<>> /\ Head(waiters) = h
  /\ swapLock' = h
  /\ waiters' = Tail(waiters)
  /\ hpc' = [hpc EXCEPT ![h] = "holding"]
  /\ UNCHANGED <<runVars, libGen>>

\* release() cleared locked() in an earlier loop step; the oldest waiter now
\* resumes and takes the lock.
WakeWaiter(h) ==
  /\ swapLock = None
  /\ waiters # <<>> /\ Head(waiters) = h
  /\ swapLock' = h
  /\ waiters' = Tail(waiters)
  /\ hpc' = [hpc EXCEPT ![h] = "holding"]
  /\ UNCHANGED <<runVars, libGen>>

\* Which jobs a holder must not overlap.
Excludes(h, j) == Kind[h] # "reset" \/ j = "artist_art"

\* swap_blocked_by_job, or the reset's gate inside no_claim_in_flight.
HolderBlocked(h) == \E j \in JobTypes : Excludes(h, j) /\ slot[j] # None

\* Mutant: the gate is only read before the lock was asked for.
AdmitUnchecked(h) ==
  /\ hpc[h] = "holding"
  /\ claimLock = None
  /\ hpc' = [hpc EXCEPT ![h] = "working"]
  /\ UNCHANGED <<runVars, libGen, swapLock, waiters>>

Admit(h) ==
  /\ hpc[h] = "holding"
  /\ claimLock = None
  /\ ~HolderBlocked(h)
  /\ hpc' = [hpc EXCEPT ![h] = "working"]
  /\ UNCHANGED <<runVars, libGen, swapLock, waiters>>

\* 409: the lock is released on the way out.
Refuse(h) ==
  /\ hpc[h] = "holding"
  /\ claimLock = None
  /\ HolderBlocked(h)
  /\ swapLock' = None
  /\ hpc' = [hpc EXCEPT ![h] = "idle"]
  /\ UNCHANGED <<runVars, libGen, waiters>>

\* Apply's _reload: a new (or restored) handle replaces the library.
SwapLibrary(h) ==
  /\ hpc[h] = "working"
  /\ Kind[h] = "apply"
  /\ libGen < MaxApplies
  /\ libGen' = libGen + 1
  /\ hpc' = [hpc EXCEPT ![h] = "swapped"]
  /\ UNCHANGED <<runVars, swapLock, waiters>>

\* The work is done, or was refused before anything was torn down.
Release(h) ==
  /\ hpc[h] \in {"working", "swapped"}
  /\ swapLock' = None
  /\ hpc' = [hpc EXCEPT ![h] = "idle"]
  /\ UNCHANGED <<runVars, libGen, waiters>>

HolderStep(h) ==
  /\ LoopFree
  /\ \/ RequestLock(h) \/ WakeWaiter(h) \/ Admit(h) \/ Refuse(h)
     \/ SwapLibrary(h) \/ Release(h)

-----------------------------------------------------------------------------

Next ==
  \/ \E r \in Runs : RunStep(r)
  \/ \E h \in Holders : HolderStep(h)

Spec == Init /\ [][Next]_vars

\* A claimed run reads its handle and spawns its worker, and the worker of a
\* sweep ends: a sweep is finite and honours Stop.  The worker of an import may
\* wait for an answer of the user, so nothing is assumed of its end.
Fairness ==
  \A r \in Runs :
    /\ WF_vars(CaptureAt[r] = "after_claim" /\ CaptureHandle(r))
    /\ WF_vars(SpawnWorker(r) \/ SpawnRefused(r))
    /\ WF_vars(OnLoop(r) /\ EndWork(r))

FairSpec == Spec /\ Fairness

-----------------------------------------------------------------------------
(* Properties.                                                             *)

InsideRuns == {r \in Runs : rpc[r] \in {"claimed", "ready", "working"}}
InsideHolders == {h \in Holders : hpc[h] \in {"working", "swapped"}}

\* The runs whose job is in flight as far as anybody can see.
Owners == InsideRuns \ disowned

\* Two library jobs are never in flight together, of one type or of two
\* (library_busy.claim_slot: "one atomic step rather than two racy ones").
OneJob == \A r, s \in Owners : r = s

\* No job is in flight while a swap-lock holder that excludes it does its
\* work: the holder's read after the acquire and the claim's read of locked()
\* are ordered by _CLAIM_LOCK.
JobsExcludeHolders ==
  \A r \in Owners, h \in InsideHolders : ~Excludes(h, JobOf[r])

\* No two of them are at work together, not two jobs and not a job and a holder,
\* but for a job that another worker, late, has ended under its worker.
Exclusion == OneJob /\ JobsExcludeHolders

\* The same for every worker there is.  jobs/base.py:119-124 calls "the rare
\* double-stamp of finished_at" the price of a fail() that does not look whether
\* its job is still the one in the slot; the price is this.
EveryWorkerExcludes ==
  /\ \A r, s \in InsideRuns : r = s
  /\ \A r \in InsideRuns, h \in InsideHolders : ~Excludes(h, JobOf[r])

\* Nothing but the late fail() of one worker disowns another of its type, or
\* one that was disowned itself and comes to its end.
OnlyLateEndsDisown ==
  [][\A s \in disowned' \ disowned : \E r \in Runs \ {s} :
        /\ JobOf[r] = JobOf[s]
        /\ rpc[r] = "closing" \/ r \in disowned]_vars

\* A worker whose start reads the handle after the claim runs on the library
\* the app serves, not on one an Apply has replaced and closed.
LateCaptureIsCurrent ==
  \A r \in Runs \ disowned : rpc[r] = "working" /\ CaptureAt[r] = "after_claim"
                             => handle[r] = libGen

\* The same for every job, which is what Apply's re-attach is for
\* (beets/config_editor.py:1191: "ONE library after Apply, whatever the outcome").
WorkerUsesCurrentLibrary ==
  \A r \in Runs \ disowned : rpc[r] = "working" => handle[r] = libGen

\* The library is swapped under nobody: not under a claimed job, and a job
\* only ever sees the handle change before its claim.
NoSwapUnderJob == [][libGen' # libGen => Owners = {}]_vars

\* A claimed slot is freed in the end, also when the thread never started: a
\* stuck slot refuses every library mutation until a restart.  The worker of an
\* import may be waiting for the user; what ends that wait is ImportJob's.
SlotIsFreed ==
  \A j \in JobTypes : slot[j] # None
    ~> \/ slot[j] = None
       \/ j = "import" /\ \E r \in Runs : slot[j] = r /\ rpc[r] = "working"

\* The library lock implements the abstract one.
Participants == Runs \cup Holders
Conflicts ==
  (Runs \X Runs) \cup (Holders \X Holders)
    \cup {p \in Runs \X Holders : Excludes(p[2], JobOf[p[1]])}

Mutex == INSTANCE LibraryMutex WITH inside <- Owners \cup InsideHolders

MutexSpec == Mutex!Spec

=============================================================================
