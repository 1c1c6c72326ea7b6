-------------------------- MODULE LibraryBusyProofs --------------------------
(***************************************************************************)
(* The library lock excludes, for every set of runs and holders, whoever   *)
(* raises when: a worker whose job the late fail() of another has ended is *)
(* out of the game (disowned), and nothing else disowns one.               *)
(*                                                                         *)
(* The argument: a claim reads the slots and locked() under _CLAIM_LOCK    *)
(* and a holder reads the slots under it after acquiring, so a claim that  *)
(* passed its check ("installing") still finds the other slots empty and   *)
(* no holder past its own check when it installs.                          *)
(***************************************************************************)
EXTENDS LibraryBusy, TLAPS

InLock == {"claiming", "installing"}
Inside == {"claimed", "ready", "working"}
HasSwap == {"holding", "working", "swapped"}

\* The run that holds the claim lock is the one between its check and its slot.
ClaimLockInv == \A r \in Runs : rpc[r] \in InLock <=> claimLock = r

\* The task that holds the swap lock is the one past its acquire.
SwapLockInv == \A h \in Holders : hpc[h] \in HasSwap <=> swapLock = h

\* A slot is active exactly while its run is between its claim and its end, or
\* the end another run has brought on it.
SlotInv == \A j \in JobTypes, r \in Runs :
             slot[j] = r <=> (rpc[r] \in Inside /\ r \notin disowned /\ JobOf[r] = j)
DisownedInv == \A r \in disowned : rpc[r] \in Inside

\* What a claim read under the lock still holds when it installs its job.
InstallInv == \A r \in Runs : rpc[r] = "installing" =>
                 /\ \A j \in JobTypes : j # JobOf[r] => slot[j] = None
                 /\ \A h \in Holders : hpc[h] \notin {"working", "swapped"}

\* A handle read after the claim stays the current one until the job ends.
HandleInv == \A r \in Runs :
               rpc[r] \in {"ready", "working"} /\ r \notin disowned
                 /\ CaptureAt[r] = "after_claim"
                 => handle[r] = libGen

IInv == /\ TypeOK
        /\ ClaimLockInv /\ SwapLockInv /\ SlotInv /\ DisownedInv /\ InstallInv
        /\ OneJob /\ JobsExcludeHolders
        /\ HandleInv

USE RunsAssumption, HoldersAssumption, BoundsAssumption, NoneAssumption,
    DisjointAssumption

\* The invariant holds before any run or holder moves.
LEMMA InitIInv == Init => IInv
BY DEF Init, IInv, TypeOK, ClaimLockInv, SwapLockInv, SlotInv, DisownedInv, InstallInv, OneJob,
       JobsExcludeHolders, HandleInv, InLock, Inside, HasSwap, InsideRuns,
       InsideHolders, Owners, RunPcs, HolderPcs, JobTypes

\* Each step of a run preserves the invariant.
LEMMA RunStepIInv ==
  ASSUME IInv, NEW r \in Runs, RunStep(r)
  PROVE  IInv'
<1> USE DEF IInv, TypeOK, ClaimLockInv, SwapLockInv, SlotInv, DisownedInv, InstallInv, OneJob,
            JobsExcludeHolders, HandleInv, InLock, Inside, HasSwap, InsideRuns,
            InsideHolders, Owners, RunPcs, HolderPcs, Goto, GiveUp, holderVars
<1>1. CASE CaptureHandle(r)
  <2>1. CASE CaptureAt[r] = "before_gate" /\ rpc[r] = "idle" /\ Goto(r, "captured")
    BY <1>1, <2>1 DEF CaptureHandle
  <2>2. CASE CaptureAt[r] = "before_claim" /\ rpc[r] = "gated" /\ Goto(r, "resolved")
    BY <1>1, <2>2 DEF CaptureHandle
  <2>3. CASE CaptureAt[r] = "after_claim" /\ rpc[r] = "claimed" /\ Goto(r, "ready")
    BY <1>1, <2>3 DEF CaptureHandle
  <2>q. QED
    BY <1>1, <2>1, <2>2, <2>3 DEF CaptureHandle
<1>2. CASE PassGate(r)
  BY <1>2 DEF PassGate, AtGate
<1>3. CASE RefuseStart(r)
  BY <1>3 DEF RefuseStart
<1>4. CASE EnterClaim(r)
  BY <1>4 DEF EnterClaim
<1>5. CASE RefuseClaim(r)
  BY <1>5 DEF RefuseClaim
<1>6. CASE PassClaim(r)
  BY <1>6 DEF PassClaim, ClaimBlocked, LibraryJobActive, SwapInProgress
<1>7. CASE Install(r)
  <2>1. CASE slot[JobOf[r]] # None
    <3>1. /\ rpc' = [rpc EXCEPT ![r] = "idle"]
          /\ handle' = [handle EXCEPT ![r] = 0]
          /\ claimLock' = None
          /\ UNCHANGED <<slot, libGen, swapLock, waiters, hpc, disowned>>
      BY <1>7, <2>1 DEF Install
    <3>2. TypeOK' /\ ClaimLockInv' /\ SwapLockInv' /\ SlotInv' /\ DisownedInv' /\ InstallInv'
      BY <1>7, <3>1 DEF Install
    <3>3. OneJob' /\ JobsExcludeHolders' /\ HandleInv'
      BY <1>7, <3>1 DEF Install
    <3>q. QED
      BY <3>2, <3>3
  <2>2. CASE slot[JobOf[r]] = None
    <3>1. /\ slot' = [slot EXCEPT ![JobOf[r]] = r]
          /\ rpc' = [rpc EXCEPT ![r] = "claimed"]
          /\ claimLock' = None
          /\ UNCHANGED <<handle, libGen, swapLock, waiters, hpc, disowned>>
      BY <1>7, <2>2 DEF Install
    \* No run is inside: its own slot would be active, or another one would.
    <3>2. Owners = {}
      BY <1>7, <2>2 DEF Install
    <3>3. InsideHolders = {}
      BY <1>7 DEF Install
    <3>4. TypeOK' /\ ClaimLockInv' /\ SwapLockInv'
      BY <1>7, <3>1 DEF Install
    <3>5. SlotInv' /\ DisownedInv' /\ InstallInv'
      BY <1>7, <3>1, <3>2 DEF Install
    <3>6. OneJob' /\ JobsExcludeHolders' /\ HandleInv'
      BY <3>1, <3>2, <3>3
    <3>q. QED
      BY <3>4, <3>5, <3>6
  <2>q. QED
    BY <2>1, <2>2
<1>8. CASE SpawnWorker(r)
  BY <1>8 DEF SpawnWorker, AtSpawn
<1>9. CASE SpawnRefused(r)
  BY <1>9 DEF SpawnRefused, AtSpawn, EndJob, SlotAfterEnd
<1>10. CASE EndWork(r)
  BY <1>10 DEF EndWork, EndJob, SlotAfterEnd
<1>11. CASE FailAfterEnd(r)
  BY <1>11 DEF FailAfterEnd, EndJob, SlotAfterEnd
<1>12. CASE WorkerReturns(r)
  BY <1>12 DEF WorkerReturns
<1>q. QED
  BY <1>1, <1>2, <1>3, <1>4, <1>5, <1>6, <1>7, <1>8, <1>9, <1>10, <1>11, <1>12
     DEF RunStep

\* Each step of a swap-lock holder preserves the invariant.
LEMMA HolderStepIInv ==
  ASSUME IInv, NEW h \in Holders, HolderStep(h)
  PROVE  IInv'
<1> USE DEF IInv, TypeOK, ClaimLockInv, SwapLockInv, SlotInv, DisownedInv, InstallInv, OneJob,
            JobsExcludeHolders, HandleInv, InLock, Inside, HasSwap, InsideRuns,
            InsideHolders, Owners, RunPcs, HolderPcs, runVars
<1>1. CASE RequestLock(h)
  <2>1. CASE swapLock = None /\ waiters = <<>>
    <3>1. /\ swapLock' = h
          /\ hpc' = [hpc EXCEPT ![h] = "holding"]
          /\ UNCHANGED <<slot, claimLock, handle, rpc, disowned, libGen, waiters>>
      BY <1>1, <2>1 DEF RequestLock
    <3>2. TypeOK' /\ ClaimLockInv' /\ SwapLockInv'
      BY <1>1, <2>1, <3>1 DEF RequestLock
    <3>3. SlotInv' /\ DisownedInv' /\ InstallInv' /\ OneJob' /\ JobsExcludeHolders' /\ HandleInv'
      BY <1>1, <3>1 DEF RequestLock, Excludes
    <3>q. QED
      BY <3>2, <3>3
  <2>2. CASE ~(swapLock = None /\ waiters = <<>>)
    <3>1. /\ waiters' = Append(waiters, h)
          /\ hpc' = [hpc EXCEPT ![h] = "waiting"]
          /\ UNCHANGED <<slot, claimLock, handle, rpc, disowned, libGen, swapLock>>
      BY <1>1, <2>2 DEF RequestLock
    <3>2. waiters' \in Seq(Holders)
      BY <3>1
    <3>q. QED
      BY <1>1, <3>1, <3>2 DEF RequestLock
  <2>q. QED
    BY <2>1, <2>2
<1>2. CASE WakeWaiter(h)
  BY <1>2 DEF WakeWaiter
<1>3. CASE Admit(h)
  BY <1>3 DEF Admit, HolderBlocked
<1>4. CASE Refuse(h)
  BY <1>4 DEF Refuse
<1>5. CASE SwapLibrary(h)
  \* An Apply past its check excludes every job type, so no run is inside.
  <2>1. \A r \in Runs : rpc[r] \notin Inside \/ r \in disowned
    BY <1>5 DEF SwapLibrary, Excludes
  <2>2. TypeOK' /\ ClaimLockInv' /\ SwapLockInv' /\ SlotInv' /\ DisownedInv' /\ InstallInv'
    BY <1>5 DEF SwapLibrary
  <2>3. OneJob' /\ JobsExcludeHolders' /\ HandleInv'
    BY <1>5, <2>1 DEF SwapLibrary
  <2>q. QED
    BY <2>2, <2>3
<1>6. CASE Release(h)
  BY <1>6 DEF Release
<1>q. QED
  BY <1>1, <1>2, <1>3, <1>4, <1>5, <1>6 DEF HolderStep

\* Stuttering preserves the invariant.
LEMMA StutterIInv == IInv /\ UNCHANGED vars => IInv'
BY DEF IInv, TypeOK, ClaimLockInv, SwapLockInv, SlotInv, DisownedInv, InstallInv, OneJob,
       JobsExcludeHolders, HandleInv, InsideRuns, InsideHolders, Owners, Excludes, vars

\* Every step preserves the invariant.
LEMMA NextIInv == IInv /\ [Next]_vars => IInv'
BY RunStepIInv, HolderStepIInv, StutterIInv DEF Next

\* Every reachable state satisfies the invariant.
LEMMA Invariant == Spec => []IInv
<1>1. IInv /\ [Next]_vars => IInv'
  BY NextIInv
<1>q. QED
  BY InitIInv, <1>1, PTL DEF Spec

-----------------------------------------------------------------------------
(* Theorems.                                                               *)

\* Every variable keeps its type.
THEOREM TypeCorrect == Spec => []TypeOK
<1>1. IInv => TypeOK
  BY DEF IInv
<1>q. QED
  BY Invariant, <1>1, PTL

\* At most one job is in flight, and none beside a holder that excludes it.
THEOREM JobsAndHoldersExclude == Spec => []Exclusion
<1>1. IInv => Exclusion
  BY DEF IInv, Exclusion
<1>q. QED
  BY Invariant, <1>1, PTL

\* A job that reads its handle after the claim works on the served library.
THEOREM LateCaptureCurrent == Spec => []LateCaptureIsCurrent
<1>1. IInv => LateCaptureIsCurrent
  BY DEF IInv, HandleInv, LateCaptureIsCurrent
<1>q. QED
  BY Invariant, <1>1, PTL

\* Apply replaces the library under nobody.
THEOREM NoSwapUnderAnyJob == Spec => NoSwapUnderJob
<1>1. IInv /\ [Next]_vars => [libGen' # libGen => Owners = {}]_vars
  <2> SUFFICES ASSUME IInv, [Next]_vars, libGen' # libGen
               PROVE  Owners = {}
    OBVIOUS
  <2>1. PICK h \in Holders : SwapLibrary(h)
    BY DEF Next, vars, RunStep, HolderStep, CaptureHandle, PassGate, RefuseStart,
           EnterClaim, RefuseClaim, PassClaim, Install, SpawnWorker, SpawnRefused,
           EndWork, FailAfterEnd, WorkerReturns, RequestLock, WakeWaiter, Admit,
           Refuse, Release
  <2>2. h \in InsideHolders /\ \A j \in JobTypes : Excludes(h, j)
    BY <2>1 DEF SwapLibrary, InsideHolders, Excludes
  <2>q. QED
    BY <2>2 DEF IInv, JobsExcludeHolders, Owners, InsideRuns
<1>q. QED
  BY Invariant, <1>1, PTL DEF Spec, NoSwapUnderJob

\* Only the late fail() of a worker takes another's job from it, and then the
\* end of the one it was taken from.
THEOREM OnlyLateEnds == Spec => OnlyLateEndsDisown
<1>1. ASSUME IInv, NEW r \in Runs, EndJob(r), NEW s \in disowned' \ disowned
      PROVE  s \in Runs \ {r} /\ JobOf[r] = JobOf[s] /\ slot[JobOf[r]] # r
  <2>1. s \in Runs \ {r} /\ slot[JobOf[r]] = s /\ JobOf[r] \in JobTypes
    BY <1>1 DEF EndJob
  <2> QED BY <1>1, <2>1 DEF IInv, SlotInv
<1>2. ASSUME IInv, NEW r \in Runs, RunStep(r), NEW s \in disowned' \ disowned
      PROVE  \E q \in Runs \ {s} : JobOf[q] = JobOf[s]
                                   /\ (rpc[q] = "closing" \/ q \in disowned)
  <2>1. (SpawnRefused(r) \/ EndWork(r) \/ FailAfterEnd(r)) /\ EndJob(r)
    BY <1>2 DEF RunStep, CaptureHandle, PassGate, RefuseStart, EnterClaim, RefuseClaim,
       PassClaim, Install, SpawnWorker, SpawnRefused, EndWork, FailAfterEnd, WorkerReturns
  <2>2. s \in Runs \ {r} /\ JobOf[r] = JobOf[s] /\ slot[JobOf[r]] # r
    BY <1>1, <1>2, <2>1
  <2>3. CASE FailAfterEnd(r)
    BY <2>2, <2>3 DEF FailAfterEnd
  <2>4. CASE SpawnRefused(r) \/ EndWork(r)
    <3>1. rpc[r] \in Inside
      BY <2>4 DEF SpawnRefused, AtSpawn, EndWork, Inside
    <3>2. r \in disowned
      BY <1>2, <2>2, <3>1 DEF IInv, SlotInv
    <3> QED BY <2>2, <3>2
  <2> QED BY <2>1, <2>3, <2>4
<1>3. ASSUME NEW h \in Holders, HolderStep(h) PROVE disowned' = disowned
  BY <1>3 DEF HolderStep, RequestLock, WakeWaiter, Admit, Refuse, SwapLibrary, Release,
     runVars
<1>4. IInv /\ [Next]_vars => [\A s \in disowned' \ disowned : \E r \in Runs \ {s} :
        /\ JobOf[r] = JobOf[s]
        /\ rpc[r] = "closing" \/ r \in disowned]_vars
  BY <1>2, <1>3 DEF Next, vars
<1> QED BY Invariant, <1>4, PTL DEF Spec, OnlyLateEndsDisown

-----------------------------------------------------------------------------
(* The refinement: inside is who has been let in and has not left yet.     *)

Occupants == Owners \cup InsideHolders

\* What a step of a run does to the owners: it adds the run, it takes somebody
\* out, or neither.
LEMMA RunEffect ==
  ASSUME IInv, NEW r \in Runs, RunStep(r)
  PROVE  /\ Owners' \subseteq Owners \cup {r}
         /\ r \in Owners' /\ r \notin Owners => Owners' = Owners \cup {r}
<1> USE DEF IInv, TypeOK, RunPcs, Owners, InsideRuns, Goto, GiveUp, holderVars
<1>1. CASE CaptureHandle(r) \/ PassGate(r) \/ RefuseStart(r)
  BY <1>1 DEF CaptureHandle, PassGate, AtGate, RefuseStart
<1>2. CASE EnterClaim(r) \/ RefuseClaim(r) \/ PassClaim(r)
  BY <1>2 DEF EnterClaim, RefuseClaim, PassClaim
<1>3. CASE Install(r)
  BY <1>3 DEF Install, DisownedInv, Inside
<1>4. CASE SpawnWorker(r)
  BY <1>4 DEF SpawnWorker, AtSpawn
<1>5. CASE SpawnRefused(r) \/ EndWork(r) \/ FailAfterEnd(r) \/ WorkerReturns(r)
  BY <1>5 DEF SpawnRefused, AtSpawn, EndWork, FailAfterEnd, WorkerReturns, EndJob
<1>q. QED
  BY <1>1, <1>2, <1>3, <1>4, <1>5 DEF RunStep

\* A run enters when it installs its job and leaves when its job ends, by its
\* own worker or by another's.
LEMMA RunRefines ==
  ASSUME IInv, IInv', NEW r \in Runs, RunStep(r)
  PROVE  Mutex!Next \/ Occupants' = Occupants
<1>1. InsideHolders' = InsideHolders
  BY DEF RunStep, InsideHolders, CaptureHandle, PassGate, RefuseStart, EnterClaim,
         RefuseClaim, PassClaim, Install, SpawnWorker, SpawnRefused, EndWork,
         FailAfterEnd, WorkerReturns, holderVars
<1>2. Owners \subseteq Runs /\ InsideHolders \subseteq Holders
  BY DEF Owners, InsideRuns, InsideHolders
<1>3. CASE r \in Owners' /\ r \notin Owners
  <2>1. Occupants' = Occupants \cup {r} /\ r \notin Occupants
    BY <1>1, <1>2, <1>3, RunEffect, DisjointAssumption DEF Occupants
  <2>2. Owners = {}
    BY <1>3, RunEffect DEF IInv, OneJob
  <2>3. \A h \in InsideHolders : ~Excludes(h, JobOf[r])
    BY <1>1, <1>3 DEF IInv, JobsExcludeHolders
  <2>4. \A q \in Occupants : ~Mutex!Conflict(r, q)
    BY <1>2, <2>2, <2>3, DisjointAssumption DEF Occupants, Mutex!Conflict, Conflicts
  <2>q. QED
    BY <2>1, <2>4 DEF Mutex!Next, Mutex!Enter, Participants, Occupants
<1>4. CASE ~(r \in Owners' /\ r \notin Owners)
  <2>1. Owners' \subseteq Owners
    BY <1>4, RunEffect
  <2>2. CASE Owners' # Owners
    <3>1. PICK s \in Owners : s \notin Owners'
      BY <2>1, <2>2
    <3>2. Owners = {s} /\ Owners' = {}
      BY <2>1, <3>1 DEF IInv, OneJob
    <3>3. Occupants' = Occupants \ {s} /\ s \in Occupants /\ s \in Runs
      BY <1>1, <1>2, <3>2, DisjointAssumption DEF Occupants
    <3>q. QED
      BY <3>3 DEF Mutex!Next, Mutex!Leave, Participants, Occupants
  <2>q. QED
    BY <1>1, <2>2 DEF Occupants
<1>q. QED
  BY <1>3, <1>4

\* A holder enters when its check under the claim lock admits it, and leaves
\* when it releases the swap lock.
LEMMA HolderRefines ==
  ASSUME IInv, IInv', NEW h \in Holders, HolderStep(h)
  PROVE  Mutex!Next \/ Occupants' = Occupants
<1>1. Owners' = Owners /\ Owners \subseteq Runs
  BY DEF HolderStep, Owners, InsideRuns, RequestLock, WakeWaiter, Admit, Refuse,
         SwapLibrary, Release, runVars
<1>2. hpc \in [Holders -> HolderPcs] /\ \E pc \in HolderPcs : hpc' = [hpc EXCEPT ![h] = pc]
  BY DEF IInv, TypeOK, HolderStep, RequestLock, WakeWaiter, Admit, Refuse,
         SwapLibrary, Release, HolderPcs
<1>3. CASE h \in InsideHolders <=> h \in InsideHolders'
  BY <1>1, <1>2, <1>3 DEF Occupants, InsideHolders
<1>4. CASE h \notin InsideHolders /\ h \in InsideHolders'
  <2>1. Occupants' = Occupants \cup {h} /\ h \notin Occupants
    BY <1>1, <1>2, <1>4, DisjointAssumption DEF Occupants, InsideHolders
  \* The swap lock is h's, so no other holder is past its check.
  <2>2. InsideHolders = {}
    <3>1. hpc[h] \in HasSwap
      BY <1>4 DEF HolderStep, InsideHolders, HasSwap, RequestLock, WakeWaiter, Admit,
             Refuse, SwapLibrary, Release, IInv, TypeOK
    <3>2. \A g \in InsideHolders : g = h
      BY <3>1 DEF IInv, SwapLockInv, InsideHolders, HasSwap
    <3>q. QED
      BY <1>4, <3>2
  <2>3. \A r \in Owners : ~Excludes(h, JobOf[r])
    BY <1>1, <1>4 DEF IInv, JobsExcludeHolders
  <2>4. \A q \in Occupants : ~Mutex!Conflict(h, q)
    BY <1>1, <2>2, <2>3, DisjointAssumption
       DEF Occupants, Mutex!Conflict, Conflicts
  <2>q. QED
    BY <2>1, <2>4 DEF Mutex!Next, Mutex!Enter, Participants, Occupants
<1>5. CASE h \in InsideHolders /\ h \notin InsideHolders'
  <2>1. Occupants' = Occupants \ {h} /\ h \in Occupants
    BY <1>1, <1>2, <1>5, DisjointAssumption DEF Occupants, InsideHolders
  <2>q. QED
    BY <2>1 DEF Mutex!Next, Mutex!Leave, Participants, Occupants
<1>q. QED
  BY <1>3, <1>4, <1>5

\* library_busy implements the abstract library lock.
THEOREM ImplementsLibraryMutex == Spec => MutexSpec
<1>1. Init => Mutex!Init
  BY DEF Init, Mutex!Init, Owners, InsideRuns, InsideHolders
<1>2. IInv /\ IInv' /\ [Next]_vars => [Mutex!Next]_(Owners \cup InsideHolders)
  <2>1. CASE UNCHANGED vars
    BY <2>1 DEF vars, Owners, InsideRuns, InsideHolders
  <2>2. ASSUME IInv, IInv', NEW r \in Runs, RunStep(r)
        PROVE  [Mutex!Next]_(Owners \cup InsideHolders)
    BY <2>2, RunRefines DEF Occupants
  <2>3. ASSUME IInv, IInv', NEW h \in Holders, HolderStep(h)
        PROVE  [Mutex!Next]_(Owners \cup InsideHolders)
    BY <2>3, HolderRefines DEF Occupants
  <2>q. QED
    BY <2>1, <2>2, <2>3 DEF Next
<1>q. QED
  BY Invariant, <1>1, <1>2, PTL DEF Spec, MutexSpec, Mutex!Spec

=============================================================================
