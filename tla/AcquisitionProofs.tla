-------------------------- MODULE AcquisitionProofs --------------------------
(***************************************************************************)
(* What is on its way is in one place, and what the page leaves out is in  *)
(* the library, for every number of folders, webhooks and changes, with    *)
(* and without failing writes of the ledger.                               *)
(*                                                                         *)
(* Two arguments that share only the type. The first follows a folder      *)
(* from its webhook through the queue and the drain; while the thread      *)
(* stops, only what it holds itself is claimed. The second follows an      *)
(* outcome from the album that lands, through the run's results, the       *)
(* drain's verdict or the recorder, to the ledger: whoever carries the     *)
(* word "imported" carries it of a folder that is in the library, or that  *)
(* changed while it was in hand.                                           *)
(***************************************************************************)
EXTENDS Acquisition, FiniteSetTheorems, TLAPS

Disk == [id : Nat, drop : Nat]
Row == [id : Nat, outcome : Outcomes]
Hooked == [pc : {"idle", "checked", "admitted"}, f : Folders \cup {None}]
Drain == [pc : DrainPcs, f : Folders \cup {None}, aborted : BOOLEAN,
          outcome : Outcomes \cup {None}]
Results == {"none", "aside", "landed"}
JobOf(some) == [mine : BOOLEAN, sources : {some}, todo : SUBSET some, album : some \cup {None},
                got : Nat, result : [some -> Results], phase : {"running", "done", "failed"},
                stopped : BOOLEAN, aborted : BOOLEAN]
IsJob(job) == \E some \in SUBSET Folders : job \in JobOf(some)

TypeOK ==
  /\ moves \in BOOLEAN /\ blocked \in BOOLEAN /\ stopping \in BOOLEAN
  /\ disk \in [Folders -> Disk] /\ clock \in Nat
  /\ ledger \in [Folders -> Row \cup {None}]
  /\ hooks \in [Hooks -> Hooked]
  /\ queue \in Seq(Folders \cup {None})
  /\ dedupe \in SUBSET Folders
  /\ status \in [phase : {"idle", "running"}, current : Folders \cup {None}]
  /\ drain \in Drain
  /\ slot = None \/ IsJob(slot)
  /\ recording \in SUBSET Folders /\ landed \in SUBSET Folders /\ silent \in SUBSET Folders

-----------------------------------------------------------------------------
(* What is on its way.                                                     *)

\* A webhook and a drain have a folder of their own while they are at work.
HandsInv ==
  /\ \A w \in Hooks : hooks[w].pc # "idle" => hooks[w].f \in Folders
  /\ drain.pc \notin {"get", "ended"} => drain.f \in dedupe

\* Every folder on its way is in one place.
Hooking == {hooks[w].f : w \in Admitted}
PlacesInv ==
  ~stopping =>
    /\ dedupe = ToSet(queue) \cup InDrain \cup Hooking
    /\ IsInjective(queue)
    /\ \A w, v \in Admitted : hooks[w].f = hooks[v].f => w = v
    /\ ToSet(queue) \cap InDrain = {}
    /\ ToSet(queue) \cap Hooking = {}
    /\ InDrain \cap Hooking = {}

StatusInv ==
  /\ drain.pc = "ended" => stopping
  /\ status.current # None => status.current = drain.f /\ drain.f \in dedupe
                              /\ drain.pc \notin {"get", "deferring"}
  /\ status.phase = "running" => dedupe # {}
  /\ ~stopping /\ drain.pc # "get" => status.phase = "running"

-----------------------------------------------------------------------------
(* What "imported" says.                                                   *)

\* In the library, or changed without a word.
Good(f) == disk[f].drop = 0 \/ f \in landed \cup silent

ClockInv == \A f \in Folders :
  /\ disk[f].id <= clock
  /\ ledger[f] # None => ledger[f].id <= clock
LedgerInv == \A f \in Folders : Hidden(f) => Good(f)
RecordInv == \A f \in recording : Good(f)
\* The album in work is what was walked, or has changed since; what has landed
\* of a folder nobody walks any more is good.
RunInv == slot # None =>
  /\ slot.aborted => slot.stopped
  /\ Running => \A f \in slot.sources :
      /\ slot.album = f => disk[f].drop = slot.got \/ Good(f)
      /\ ~slot.aborted /\ f \notin slot.todo /\ slot.album # f /\ slot.result[f] = "landed"
           => Good(f)
Reading == drain.pc \in {"wait", "classify", "state"} /\ Mine
DrainInv ==
  /\ Reading =>
      /\ slot.sources = {drain.f}
      /\ slot.phase = "done" /\ ~slot.aborted /\ slot.result[drain.f] = "landed" => Good(drain.f)
      /\ drain.pc = "state" => (drain.aborted <=> slot.aborted)
  /\ drain.pc \in {"classify", "state", "mark"} /\ Mine => ~Running
  /\ drain.pc = "mark" => drain.outcome \in Outcomes
  /\ drain.pc = "mark" /\ drain.outcome = "imported" => Good(drain.f)

IInv == TypeOK /\ HandsInv /\ PlacesInv /\ StatusInv
        /\ ClockInv /\ LedgerInv /\ RecordInv /\ RunInv /\ DrainInv

-----------------------------------------------------------------------------
(* Sequences, and the queue as one.                                        *)

\* What is put at the end of a queue is in it, and twice only if it was there.
LEMMA AppendToSet ==
  ASSUME NEW S, NEW s \in Seq(S), NEW x \in S
  PROVE  /\ Append(s, x) \in Seq(S)
         /\ ToSet(Append(s, x)) = ToSet(s) \cup {x}
         /\ IsInjective(s) /\ x \notin ToSet(s) => IsInjective(Append(s, x))
<1>1. /\ Append(s, x) \in Seq(S) /\ Len(Append(s, x)) = Len(s) + 1
      /\ Append(s, x)[Len(s) + 1] = x
      /\ \A i \in 1..Len(s) : Append(s, x)[i] = s[i]
  OBVIOUS
<1>2. DOMAIN s = 1..Len(s) /\ DOMAIN Append(s, x) = 1..(Len(s) + 1) /\ Len(s) \in Nat
  OBVIOUS
<1>3. ToSet(Append(s, x)) = ToSet(s) \cup {x}
  <2>1. ToSet(Append(s, x)) \subseteq ToSet(s) \cup {x}
    BY <1>1, <1>2 DEF ToSet
  <2>2. x \in ToSet(Append(s, x))
    BY <1>1, <1>2 DEF ToSet
  <2>3. ToSet(s) \subseteq ToSet(Append(s, x))
    BY <1>1, <1>2 DEF ToSet
  <2>q. QED
    BY <2>1, <2>2, <2>3
<1>4. ASSUME IsInjective(s), x \notin ToSet(s) PROVE IsInjective(Append(s, x))
  <2>1. \A i \in 1..Len(s) : s[i] # x
    BY <1>2, <1>4 DEF ToSet
  <2>q. QED
    BY <1>1, <1>2, <1>4, <2>1 DEF IsInjective
<1>q. QED
  BY <1>1, <1>3, <1>4

\* What is taken from the front of a queue is no longer in it, if it was in once.
LEMMA TailToSet ==
  ASSUME NEW S, NEW s \in Seq(S), s # <<>>
  PROVE  /\ Tail(s) \in Seq(S) /\ Head(s) \in S /\ Head(s) \in ToSet(s)
         /\ IsInjective(s) => /\ ToSet(Tail(s)) = ToSet(s) \ {Head(s)}
                              /\ IsInjective(Tail(s))
<1>1. /\ Tail(s) \in Seq(S) /\ Len(Tail(s)) = Len(s) - 1 /\ Head(s) = s[1]
      /\ \A i \in 1..(Len(s) - 1) : Tail(s)[i] = s[i + 1]
      /\ Len(s) \in Nat \ {0}
  OBVIOUS
<1>2. DOMAIN s = 1..Len(s) /\ DOMAIN Tail(s) = 1..(Len(s) - 1)
  BY <1>1
<1>3. Head(s) \in S /\ Head(s) \in ToSet(s)
  BY <1>1, <1>2 DEF ToSet
<1>4. ASSUME IsInjective(s)
      PROVE  ToSet(Tail(s)) = ToSet(s) \ {Head(s)} /\ IsInjective(Tail(s))
  <2>1. ToSet(Tail(s)) \subseteq ToSet(s) \ {Head(s)}
    BY <1>1, <1>2, <1>4 DEF ToSet, IsInjective
  <2>2. ASSUME NEW i \in 1..Len(s), s[i] # Head(s) PROVE s[i] \in ToSet(Tail(s))
    <3>1. i - 1 \in 1..(Len(s) - 1)
      BY <1>1, <2>2
    <3>2. Tail(s)[i - 1] = s[i]
      BY <1>1, <3>1
    <3>q. QED
      BY <1>2, <3>1, <3>2 DEF ToSet
  <2>3. ToSet(s) \ {Head(s)} \subseteq ToSet(Tail(s))
    BY <1>2, <2>2 DEF ToSet
  <2>4. IsInjective(Tail(s))
    BY <1>1, <1>2, <1>4 DEF IsInjective
  <2>q. QED
    BY <2>1, <2>3, <2>4
<1>q. QED
  BY <1>1, <1>3, <1>4

\* A queue without repeats is as long as what is in it.
LEMMA QueueLength ==
  ASSUME NEW S, NEW s \in Seq(S), IsInjective(s)
  PROVE  IsFiniteSet(ToSet(s)) /\ Cardinality(ToSet(s)) = Len(s)
<1>1. Len(s) \in Nat /\ DOMAIN s = 1..Len(s) /\ s \in [1..Len(s) -> S]
  OBVIOUS
<1>2. s \in Bijection(1..Len(s), ToSet(s))
  <2>1. s \in [1..Len(s) -> ToSet(s)]
    BY <1>1 DEF ToSet
  <2>2. \A e \in ToSet(s) : \E i \in 1..Len(s) : s[i] = e
    BY <1>1 DEF ToSet
  <2>q. QED
    BY <1>1, <2>1, <2>2 DEF Bijection, Injection, Surjection, IsInjective
<1>3. ExistsBijection(1..Len(s), ToSet(s))
  BY <1>2 DEF ExistsBijection
<1>4. IsFiniteSet(1..Len(s)) /\ Cardinality(1..Len(s)) = Len(s)
  BY <1>1, FS_Interval
<1>q. QED
  BY <1>3, <1>4, FS_Bijection

-----------------------------------------------------------------------------
(* Types.                                                                  *)

USE NoneAssumption, MaxClockAssumption

\* What is idle.
LEMMA IdleTypes ==
  /\ HookIdle \in Hooked /\ DrainIdle \in Drain
  /\ DrainIdle.pc = "get" /\ DrainIdle.f = None
  /\ StatusIdle \in [phase : {"idle", "running"}, current : Folders \cup {None}]
BY DEF HookIdle, Hooked, DrainIdle, Drain, DrainPcs, StatusIdle

\* What a job is made of.
LEMMA JobParts ==
  ASSUME NEW job, IsJob(job)
  PROVE  /\ job.sources \in SUBSET Folders /\ job.todo \in SUBSET job.sources
         /\ job.album \in job.sources \cup {None} /\ job.got \in Nat
         /\ job.result \in [job.sources -> Results] /\ job.mine \in BOOLEAN
         /\ job.stopped \in BOOLEAN /\ job.aborted \in BOOLEAN
         /\ job.phase \in {"running", "done", "failed"} /\ job \in JobOf(job.sources)
BY DEF IsJob, JobOf

\* A new job is one.
LEMMA NewJobIsJob ==
  ASSUME NEW mine \in BOOLEAN, NEW sources \in SUBSET Folders,
         NEW new, new = NewJob(mine, sources)
  PROVE  /\ IsJob(new) /\ new \in JobOf(sources)
         /\ new.sources = sources /\ new.todo = sources /\ new.mine = mine
         /\ new.phase = "running" /\ new.aborted = FALSE /\ new.album = None
         /\ \A f \in sources : new.result[f] = "none"
BY DEF NewJob, IsJob, JobOf, Results

Cut(job, phase) == [job EXCEPT !.phase = phase, !.todo = {}, !.album = None, !.got = 0]

\* A job with nothing left to do is one.
LEMMA CutShort ==
  ASSUME NEW some, NEW job \in JobOf(some), NEW phase \in {"done", "failed"}
  PROVE  /\ Cut(job, phase) \in JobOf(some)
         /\ Cut(job, phase).phase = phase /\ Cut(job, phase).mine = job.mine
         /\ Cut(job, phase).sources = job.sources /\ Cut(job, phase).result = job.result
         /\ Cut(job, phase).aborted = job.aborted /\ Cut(job, phase).stopped = job.stopped
<1>1. /\ job.mine \in BOOLEAN /\ job.sources = some /\ job.result \in [some -> Results]
      /\ job.stopped \in BOOLEAN /\ job.aborted \in BOOLEAN
  BY DEF JobOf
<1>2. Cut(job, phase) \in JobOf(some)
  BY DEF JobOf, Cut
<1>q. QED
  BY <1>1, <1>2 DEF Cut, JobOf

\* A job that has ended is one, and the drain's keeps what it is read for.
LEMMA EndedIsJob ==
  ASSUME NEW job, IsJob(job), NEW phase \in {"done", "failed"}, NEW new, new = Ended(job, phase)
  PROVE  /\ IsJob(new) /\ new.phase = phase /\ new.mine = job.mine
         /\ job.mine => /\ new.sources = job.sources /\ new.result = job.result
                        /\ new.aborted = job.aborted /\ new.stopped = job.stopped
         /\ ~job.mine => ~new.aborted
<1>1. CASE job.mine
  <2>1. new = Cut(job, phase)
    BY <1>1 DEF Ended, Cut
  <2>2. job \in JobOf(job.sources) /\ job.sources \in SUBSET Folders
    BY JobParts
  <2>3. /\ new \in JobOf(job.sources) /\ new.phase = phase /\ new.mine = job.mine
        /\ new.sources = job.sources /\ new.result = job.result
        /\ new.aborted = job.aborted /\ new.stopped = job.stopped
    BY <2>1, <2>2, CutShort
  <2>q. QED
    BY <1>1, <2>2, <2>3 DEF IsJob
<1>2. CASE ~job.mine
  <2>1. PICK nobodys : nobodys = NewJob(FALSE, {})
    OBVIOUS
  <2>2. new = Cut(nobodys, phase)
    BY <1>2, <2>1 DEF Ended, Cut
  <2>3. nobodys \in JobOf({}) /\ nobodys.mine = FALSE /\ nobodys.aborted = FALSE
    BY <2>1, NewJobIsJob
  <2>4. /\ Cut(nobodys, phase) \in JobOf({}) /\ Cut(nobodys, phase).mine = FALSE
        /\ Cut(nobodys, phase).aborted = FALSE /\ Cut(nobodys, phase).phase = phase
    BY <2>3, CutShort
  <2>q. QED
    BY <1>2, <2>2, <2>4, JobParts DEF IsJob
<1>q. QED
  BY <1>1, <1>2, JobParts

rest == <<moves, ledger, hooks, queueVars, drain, slot, recording, blocked>>

\* The steps of a folder keep the type.
LEMMA FolderTypes ==
  ASSUME TypeOK, FolderStep \/ Blocks PROVE TypeOK'
<1>1. ASSUME NEW f \in Folders, DropArrives(f) PROVE TypeOK'
  <2>1. /\ clock' = clock + 1 /\ landed' = landed \ {f} /\ UNCHANGED rest
    BY <1>1 DEF DropArrives, rest
  <2>2. PICK nested \in {FALSE, disk[f].id # 0} :
          /\ disk' = [disk EXCEPT ![f] = [id |-> IF nested THEN @.id ELSE clock + 1,
                                          drop |-> clock + 1]]
          /\ silent' = IF nested \/ InHand(f) THEN silent \cup {f} ELSE silent \ {f}
    BY <1>1 DEF DropArrives
  <2>3. disk' \in [Folders -> Disk]
    BY <2>2 DEF TypeOK, Disk
  <2>4. silent' \in SUBSET Folders
    BY <2>2 DEF TypeOK
  <2>q. QED
    BY <2>1, <2>3, <2>4 DEF TypeOK, rest, queueVars
<1>2. ASSUME NEW f \in Folders, FolderRemoved(f) PROVE TypeOK'
  <2>1. disk' \in [Folders -> Disk]
    BY <1>2 DEF FolderRemoved, TypeOK, Disk
  <2>q. QED
    BY <1>2, <2>1 DEF FolderRemoved, TypeOK, queueVars
<1>3. CASE Blocks
  BY <1>3 DEF Blocks, TypeOK, queueVars, folderVars, history
<1>q. QED
  BY <1>1, <1>2, <1>3 DEF FolderStep

\* The steps of a webhook keep the type.
LEMMA HookTypes ==
  ASSUME TypeOK, NEW w \in Hooks, HookStep(w),
         hooks[w].pc # "idle" => hooks[w].f \in Folders
  PROVE  TypeOK'
<1>0. HookIdle \in Hooked
  BY IdleTypes
<1>1. ASSUME NEW f \in Folders, HookArrives(w, f) PROVE TypeOK'
  <2>1. hooks' \in [Hooks -> Hooked]
    BY <1>1 DEF HookArrives, Hook, TypeOK, Hooked
  <2>q. QED
    BY <1>1, <2>1 DEF HookArrives, TypeOK, queueVars, folderVars, history
<1>2. CASE Admit(w)
  <2>1. hooks[w].f \in Folders
    BY <1>2 DEF Admit
  <2>2. [pc |-> "admitted", f |-> hooks[w].f] \in Hooked
    BY <2>1 DEF Hooked
  <2>3. /\ hooks' = [hooks EXCEPT ![w] = HookIdle]
           \/ hooks' = [hooks EXCEPT ![w] = [pc |-> "admitted", f |-> hooks[w].f]]
        /\ dedupe' = dedupe \/ dedupe' = dedupe \cup {hooks[w].f}
    BY <1>2 DEF Admit, Hook
  <2>4. hooks' \in [Hooks -> Hooked]
    BY <1>0, <2>2, <2>3 DEF TypeOK
  <2>5. dedupe' \in SUBSET Folders
    BY <2>1, <2>3 DEF TypeOK
  <2>q. QED
    BY <1>2, <2>4, <2>5 DEF Admit, TypeOK, folderVars, history
<1>3. CASE Put(w)
  <2>1. hooks[w].f \in Folders \cup {None}
    BY <1>3 DEF Put
  <2>2. hooks' \in [Hooks -> Hooked]
    BY <1>0, <1>3 DEF Put, TypeOK
  <2>3. queue' \in Seq(Folders \cup {None})
    BY <1>3, <2>1, AppendToSet DEF Put, TypeOK
  <2>q. QED
    BY <1>3, <2>2, <2>3 DEF Put, TypeOK, folderVars, history
<1>q. QED
  BY <1>1, <1>2, <1>3 DEF HookStep

-----------------------------------------------------------------------------
(* What the steps of a run do to its job.                                  *)

\* What a job is, and how much of it is known to the drain.
Same(new, job) ==
  /\ new.mine = job.mine /\ new.sources = job.sources /\ new.phase = job.phase
  /\ new.result = job.result /\ new.stopped = job.stopped /\ new.aborted = job.aborted
LandedOrAside(new, job, f) ==
  /\ new.mine = job.mine /\ new.sources = job.sources /\ new.phase = job.phase
  /\ new.todo = job.todo /\ new.album = None /\ new.stopped = job.stopped
  /\ new.aborted = job.aborted
  /\ \A g \in job.sources : g # f => new.result[g] = job.result[g]

Walked(job, todo, got, album) == [job EXCEPT !.todo = todo, !.got = got, !.album = album]
\* A job whose walk has gone on is one.
LEMMA WalkedIsJob ==
  ASSUME NEW some, NEW job \in JobOf(some), NEW todo \in SUBSET some, NEW got \in Nat,
         NEW album \in some \cup {None}
  PROVE  /\ Walked(job, todo, got, album) \in JobOf(some)
         /\ Same(Walked(job, todo, got, album), job)
         /\ Walked(job, todo, got, album).todo = todo
         /\ Walked(job, todo, got, album).got = got
         /\ Walked(job, todo, got, album).album = album
<1>1. Walked(job, todo, got, album) \in JobOf(some)
  BY DEF JobOf, Walked
<1>q. QED
  BY <1>1 DEF Walked, JobOf, Same

Settled(job, result) == [job EXCEPT !.album = None, !.got = 0, !.result = result]
\* A job whose album has a result is one.
LEMMA SettledIsJob ==
  ASSUME NEW some, NEW job \in JobOf(some), NEW f \in some, NEW what \in Results
  PROVE  /\ Settled(job, [job.result EXCEPT ![f] = what]) \in JobOf(some)
         /\ LandedOrAside(Settled(job, [job.result EXCEPT ![f] = what]), job, f)
         /\ Settled(job, [job.result EXCEPT ![f] = what]).result[f] = what
<1>0. job.result \in [some -> Results] /\ job.sources = some
  BY DEF JobOf
<1> DEFINE result == [job.result EXCEPT ![f] = what]
<1>1. /\ result \in [some -> Results] /\ result[f] = what
      /\ \A g \in some : g # f => result[g] = job.result[g]
  BY <1>0
<1> HIDE DEF result
<1>2. Settled(job, result) \in JobOf(some)
  BY <1>1 DEF JobOf, Settled
<1>3. LandedOrAside(Settled(job, result), job, f) /\ Settled(job, result).result = result
  BY <1>0, <1>1, <1>2 DEF Settled, JobOf, LandedOrAside
<1>q. QED
  BY <1>1, <1>2, <1>3 DEF result

Stopped(job) == [job EXCEPT !.stopped = TRUE]
Aborted(job) == [job EXCEPT !.todo = {}, !.album = None, !.got = 0, !.aborted = TRUE]
\* A job that was stopped, or has heard of it, is one.
LEMMA StoppedIsJob ==
  ASSUME NEW some, NEW job \in JobOf(some)
  PROVE  /\ Stopped(job) \in JobOf(some) /\ Stopped(job).stopped
         /\ Stopped(job).mine = job.mine /\ Stopped(job).sources = job.sources
         /\ Stopped(job).phase = job.phase /\ Stopped(job).result = job.result
         /\ Stopped(job).aborted = job.aborted /\ Stopped(job).todo = job.todo
         /\ Stopped(job).album = job.album /\ Stopped(job).got = job.got
         /\ Aborted(job) \in JobOf(some) /\ Aborted(job).aborted
         /\ Aborted(job).mine = job.mine /\ Aborted(job).sources = job.sources
         /\ Aborted(job).phase = job.phase /\ Aborted(job).stopped = job.stopped
         /\ Aborted(job).album = None
<1>1. Stopped(job) \in JobOf(some)
  BY DEF JobOf, Stopped
<1>2. Aborted(job) \in JobOf(some)
  BY DEF JobOf, Aborted
<1>3. /\ Stopped(job).stopped
      /\ Stopped(job).mine = job.mine /\ Stopped(job).sources = job.sources
      /\ Stopped(job).phase = job.phase /\ Stopped(job).result = job.result
      /\ Stopped(job).aborted = job.aborted /\ Stopped(job).todo = job.todo
      /\ Stopped(job).album = job.album /\ Stopped(job).got = job.got
  BY DEF Stopped, JobOf
<1>q. QED
  BY <1>1, <1>2, <1>3 DEF Aborted, JobOf

WalkTouches == UNCHANGED <<moves, folderVars, ledger, hooks, queueVars, drain, recording, blocked>>

WalkDoes(f) ==
  /\ IsJob(slot) /\ Running /\ slot.album = None /\ f \in slot.todo
  /\ IsJob(slot') /\ Same(slot', slot)
  /\ slot'.todo \in {slot.todo, slot.todo \ {f}} /\ slot'.got = disk[f].drop
  /\ slot'.album = IF disk[f].drop = 0 THEN None ELSE f
\* A walk takes the folder's next album, or finds none.
LEMMA WalkEffect ==
  ASSUME TypeOK, NEW f \in Folders, Walk(f)
  PROVE  WalkDoes(f) /\ WalkTouches
<1>1. /\ slot # None /\ IsJob(slot) /\ Running /\ slot.album = None /\ f \in slot.todo
      /\ WalkTouches
  BY DEF Walk, TypeOK, Running, WalkTouches
<1>2. slot \in JobOf(slot.sources) /\ slot.sources \in SUBSET Folders /\ f \in slot.sources
      /\ slot.todo \in SUBSET slot.sources /\ disk[f].drop \in Nat
  BY <1>1, JobParts DEF TypeOK, Disk
<1>3. PICK last \in BOOLEAN : slot' = Walked(slot, IF last THEN slot.todo \ {f} ELSE slot.todo,
                                     disk[f].drop, IF disk[f].drop = 0 THEN None ELSE f)
  BY DEF Walk, Walked
<1> DEFINE todo == IF last THEN slot.todo \ {f} ELSE slot.todo
           album == IF disk[f].drop = 0 THEN None ELSE f
<1>4. /\ todo \in SUBSET slot.sources /\ todo \in {slot.todo, slot.todo \ {f}}
      /\ album \in slot.sources \cup {None}
  BY <1>2
<1>5. slot' = Walked(slot, todo, disk[f].drop, album)
  BY <1>3
<1> HIDE DEF todo
<1>6. /\ slot' \in JobOf(slot.sources) /\ Same(slot', slot) /\ slot'.todo = todo
      /\ slot'.got = disk[f].drop /\ slot'.album = album
  BY <1>2, <1>4, <1>5, WalkedIsJob
<1>q. QED
  BY <1>1, <1>2, <1>4, <1>6 DEF WalkDoes, IsJob

\* An album is set aside, or lands: its folder has a result.
LEMMA SetAsideEffect ==
  ASSUME TypeOK, SetAside
  PROVE  /\ slot # None /\ IsJob(slot) /\ slot.album \in slot.sources /\ Running
         /\ IsJob(slot') /\ LandedOrAside(slot', slot, slot.album)
         /\ slot'.result[slot.album] = "aside" /\ WalkTouches
<1>1. /\ slot # None /\ IsJob(slot) /\ Running /\ slot.album # None /\ WalkTouches
  BY DEF SetAside, TypeOK, Running, WalkTouches
<1>2. slot \in JobOf(slot.sources) /\ slot.sources \in SUBSET Folders
      /\ slot.album \in slot.sources /\ "aside" \in Results
  BY <1>1, JobParts DEF Results
<1>3. slot' = Settled(slot, [slot.result EXCEPT ![slot.album] = "aside"])
  BY DEF SetAside, Settled
<1>4. /\ slot' \in JobOf(slot.sources) /\ LandedOrAside(slot', slot, slot.album)
      /\ slot'.result[slot.album] = "aside"
  BY <1>2, <1>3, SettledIsJob
<1>q. QED
  BY <1>1, <1>2, <1>4 DEF IsJob

All == slot.album \notin slot.todo /\ slot.result[slot.album] # "aside"
MovedDisk(f) == [id |-> clock + 1, drop |-> IF disk[f].drop = slot.got THEN 0 ELSE disk[f].drop]
LandDoes(f) ==
  /\ slot # None /\ IsJob(slot) /\ Running /\ slot.album = f /\ f \in slot.sources
  /\ f \in Folders
  /\ IsJob(slot') /\ LandedOrAside(slot', slot, f)
  /\ slot'.result[f] = IF slot.result[f] = "aside" THEN "aside" ELSE "landed"
  /\ landed' = IF All /\ disk[f].drop = slot.got THEN landed \cup {f} ELSE landed
  /\ \/ /\ clock' = clock + 1
        /\ disk' = [disk EXCEPT ![f] = MovedDisk(f)]
     \/ clock' = clock /\ disk' = disk
\* What a landing does to the folder: nothing, if a move leaves it alone, or a
\* new identity, with what has come since the walk.
LEMMA LandEffect ==
  ASSUME TypeOK, LandAlbum
  PROVE  /\ LandDoes(slot.album)
         /\ UNCHANGED <<moves, silent, ledger, hooks, queueVars, drain, recording, blocked>>
<1>1. /\ slot # None /\ IsJob(slot) /\ Running /\ slot.album # None
      /\ UNCHANGED <<moves, silent, ledger, hooks, queueVars, drain, recording, blocked>>
  BY DEF LandAlbum, TypeOK, Running
<1> DEFINE f == slot.album
           what == IF slot.result[f] = "aside" THEN "aside" ELSE "landed"
<1>2. slot \in JobOf(slot.sources) /\ slot.sources \in SUBSET Folders
      /\ f \in slot.sources /\ what \in Results /\ f \in Folders
  BY <1>1, JobParts DEF Results
<1>3. slot' = Settled(slot, [slot.result EXCEPT ![f] = what])
  BY DEF LandAlbum, Settled
<1>4. /\ slot' \in JobOf(slot.sources) /\ LandedOrAside(slot', slot, f)
      /\ slot'.result[f] = what
  <2> HIDE DEF what, f
  <2>q. QED
    BY <1>2, <1>3, SettledIsJob
<1>5. landed' = IF All /\ disk[f].drop = slot.got THEN landed \cup {f} ELSE landed
  BY DEF LandAlbum, All
<1>6. \/ clock' = clock + 1 /\ disk' = [disk EXCEPT ![f] = MovedDisk(f)]
      \/ clock' = clock /\ disk' = disk
  BY <1>2 DEF LandAlbum, MovedDisk, TypeOK
<1>q. QED
  BY <1>1, <1>2, <1>4, <1>5, <1>6 DEF LandDoes, IsJob

\* A stop is noted; at the next album it ends the walk.
LEMMA StopEffect ==
  ASSUME TypeOK, RequestStop
  PROVE  /\ slot # None /\ IsJob(slot) /\ IsJob(slot') /\ slot'.stopped /\ WalkTouches
         /\ slot'.mine = slot.mine /\ slot'.sources = slot.sources
         /\ slot'.phase = slot.phase /\ slot'.result = slot.result
         /\ slot'.aborted = slot.aborted /\ slot'.todo = slot.todo
         /\ slot'.album = slot.album /\ slot'.got = slot.got
<1>1. /\ slot # None /\ IsJob(slot) /\ WalkTouches /\ slot' = Stopped(slot)
  BY DEF RequestStop, TypeOK, Running, WalkTouches, Stopped
<1>2. slot \in JobOf(slot.sources) /\ slot.sources \in SUBSET Folders
  BY <1>1, JobParts
<1>q. QED
  BY <1>1, <1>2, StoppedIsJob DEF IsJob
\* An abort forgets what was left to do.
LEMMA AbortEffect ==
  ASSUME TypeOK, Abort
  PROVE  /\ slot # None /\ IsJob(slot) /\ Running /\ slot.stopped
         /\ IsJob(slot') /\ slot'.aborted /\ slot'.stopped /\ WalkTouches
         /\ slot'.mine = slot.mine /\ slot'.sources = slot.sources
         /\ slot'.phase = slot.phase /\ slot'.album = None
<1>1. /\ slot # None /\ IsJob(slot) /\ Running /\ slot.stopped /\ WalkTouches
      /\ slot' = Aborted(slot)
  BY DEF Abort, TypeOK, Running, WalkTouches, Aborted
<1>2. slot \in JobOf(slot.sources) /\ slot.sources \in SUBSET Folders
  BY <1>1, JobParts
<1>q. QED
  BY <1>1, <1>2, StoppedIsJob DEF IsJob

EndsAs(phase) ==
  /\ slot # None /\ IsJob(slot) /\ Running
  /\ IsJob(slot') /\ slot'.phase = phase /\ slot'.mine = slot.mine
  /\ slot.mine => /\ slot'.sources = slot.sources /\ slot'.result = slot.result
                  /\ slot'.aborted = slot.aborted /\ slot'.stopped = slot.stopped
  /\ ~slot.mine => ~slot'.aborted
\* A run ends, well or badly.
LEMMA EndEffect ==
  ASSUME TypeOK, FinishJob \/ FailJob
  PROVE  /\ UNCHANGED <<moves, folderVars, ledger, hooks, queueVars, drain, blocked>>
         /\ \/ /\ EndsAs("done") /\ recording' = recording \cup FullyLanded(slot)
               /\ slot.todo = {} /\ slot.album = None
               /\ FullyLanded(slot) \in SUBSET Folders
            \/ EndsAs("failed") /\ recording' = recording
<1>1. CASE FinishJob
  <2>1. /\ slot # None /\ IsJob(slot) /\ Running /\ slot' = Ended(slot, "done")
        /\ slot.todo = {} /\ slot.album = None /\ recording' = recording \cup FullyLanded(slot)
        /\ UNCHANGED <<moves, folderVars, ledger, hooks, queueVars, drain, blocked>>
    BY <1>1 DEF FinishJob, TypeOK, Running
  <2>2. FullyLanded(slot) \in SUBSET Folders
    BY <2>1, JobParts DEF FullyLanded
  <2>3. EndsAs("done")
    BY <2>1, EndedIsJob DEF EndsAs
  <2>q. QED
    BY <2>1, <2>2, <2>3
<1>2. CASE FailJob
  <2>1. /\ slot # None /\ IsJob(slot) /\ Running /\ slot' = Ended(slot, "failed")
        /\ recording' = recording
        /\ UNCHANGED <<moves, folderVars, ledger, hooks, queueVars, drain, blocked>>
    BY <1>2 DEF FailJob, TypeOK, Running
  <2>2. EndsAs("failed")
    BY <2>1, EndedIsJob DEF EndsAs
  <2>q. QED
    BY <2>1, <2>2
<1>q. QED
  BY <1>1, <1>2

\* The steps of a run keep the type.
LEMMA WorkerTypes ==
  ASSUME TypeOK, WorkerStep \/ RequestStop
  PROVE  TypeOK'
<1>1. ASSUME WalkTouches, IsJob(slot') PROVE TypeOK'
  BY <1>1 DEF TypeOK, IsJob, WalkTouches, folderVars, history, queueVars
<1>2. CASE (\E f \in Folders : Walk(f)) \/ SetAside \/ RequestStop \/ Abort
  <2>1. WalkTouches /\ IsJob(slot')
    BY <1>2, WalkEffect, SetAsideEffect, StopEffect, AbortEffect DEF WalkDoes
  <2>q. QED
    BY <1>1, <2>1
<1>3. CASE LandAlbum
  <2>1. /\ LandDoes(slot.album)
        /\ UNCHANGED <<moves, silent, ledger, hooks, queueVars, drain, recording, blocked>>
    BY <1>3, LandEffect
  <2>2. IsJob(slot') /\ landed' \in SUBSET Folders /\ clock' \in Nat /\ slot.album \in Folders
    BY <2>1 DEF LandDoes, TypeOK
  <2>3. MovedDisk(slot.album) \in Disk
    BY <2>2 DEF MovedDisk, TypeOK, Disk
  <2>4. disk' \in [Folders -> Disk]
    BY <2>1, <2>2, <2>3 DEF LandDoes, TypeOK
  <2>q. QED
    BY <2>1, <2>2, <2>4 DEF TypeOK, IsJob, queueVars
<1>4. CASE FinishJob \/ FailJob
  <2>1. /\ UNCHANGED <<moves, folderVars, ledger, hooks, queueVars, drain, blocked>>
        /\ IsJob(slot') /\ recording' \in SUBSET Folders
    BY <1>4, EndEffect DEF EndsAs, TypeOK
  <2>q. QED
    BY <2>1 DEF TypeOK, IsJob, folderVars, history, queueVars
<1>q. QED
  BY <1>2, <1>3, <1>4 DEF WorkerStep

\* Somebody's import, and the recorder, keep the type.
LEMMA OtherTypes ==
  ASSUME TypeOK
  PROVE  /\ \A sources \in SUBSET Folders : StartOther(sources) => TypeOK'
         /\ \A f \in Folders : Record(f) => TypeOK'
         /\ Stop => TypeOK'
         /\ Restart => TypeOK'
<1>1. ASSUME NEW sources \in SUBSET Folders, StartOther(sources) PROVE TypeOK'
  <2>1. IsJob(slot')
    BY <1>1, NewJobIsJob DEF StartOther
  <2>q. QED
    BY <1>1, <2>1 DEF StartOther, TypeOK, IsJob, folderVars, history, queueVars
<1>2. ASSUME NEW f \in Folders, Record(f) PROVE TypeOK'
  <2>1. ledger' \in [Folders -> Row \cup {None}]
    BY <1>2 DEF Record, Mark, TypeOK, Row, Disk, Outcomes
  <2>q. QED
    BY <1>2, <2>1 DEF Record, TypeOK, folderVars, history, queueVars
<1>3. ASSUME Stop PROVE TypeOK'
  <2>1. queue' \in Seq(Folders \cup {None})
    BY <1>3, AppendToSet DEF Stop, TypeOK
  <2>q. QED
    BY <1>3, <2>1 DEF Stop, TypeOK, folderVars, history
<1>4. ASSUME Restart PROVE TypeOK'
  <2>1. HookIdle \in Hooked /\ DrainIdle \in Drain
        /\ StatusIdle \in [phase : {"idle", "running"}, current : Folders \cup {None}]
    BY IdleTypes
  <2>2. queue' \in Seq(Folders \cup {None}) /\ hooks' \in [Hooks -> Hooked]
        /\ drain' \in Drain
        /\ status' \in [phase : {"idle", "running"}, current : Folders \cup {None}]
    BY <1>4, <2>1 DEF Restart
  <2>q. QED
    BY <1>4, <2>2 DEF Restart, TypeOK, folderVars, history
<1>q. QED
  BY <1>1, <1>2, <1>3, <1>4

-----------------------------------------------------------------------------
(* What the steps of the drain do to it.                                   *)

DrainTouches == UNCHANGED <<moves, folderVars, ledger, hooks, queueVars, slot, recording, blocked>>

DrainGoes(from, to) ==
  /\ drain.pc = from /\ drain'.pc = to /\ drain'.f = drain.f
  /\ drain'.aborted = drain.aborted /\ drain'.outcome = drain.outcome
\* The drain goes on with its folder.
LEMMA GoesOn ==
  ASSUME TypeOK, NEW to \in DrainPcs, DrainTo(to)
  PROVE  drain' \in Drain /\ DrainGoes(drain.pc, to)
<1>1. drain \in Drain /\ drain' = [drain EXCEPT !.pc = to]
  BY DEF TypeOK, DrainTo
<1>q. QED
  BY <1>1 DEF Drain, DrainGoes

Noted(aborted) == [drain EXCEPT !.pc = "state", !.aborted = aborted]
Judged(outcome) == [drain EXCEPT !.pc = "mark", !.outcome = outcome]
\* The drain notes what it read.
LEMMA DrainNotes ==
  ASSUME TypeOK, NEW aborted \in BOOLEAN, NEW outcome \in Outcomes
  PROVE  /\ Noted(aborted) \in Drain /\ Noted(aborted).pc = "state"
         /\ Noted(aborted).f = drain.f /\ Noted(aborted).aborted = aborted
         /\ Judged(outcome) \in Drain /\ Judged(outcome).pc = "mark"
         /\ Judged(outcome).f = drain.f /\ Judged(outcome).outcome = outcome
<1>1. drain \in Drain
  BY DEF TypeOK
<1>2. Noted(aborted) \in Drain
  BY <1>1 DEF Noted, Drain, DrainPcs
<1>3. Judged(outcome) \in Drain
  BY <1>1 DEF Judged, Drain, DrainPcs
<1>q. QED
  BY <1>1, <1>2, <1>3 DEF Noted, Judged, Drain

\* What a verdict may be.
LEMMA VerdictType ==
  ASSUME TypeOK, DrainInv, drain.pc = "state"
  PROVE  /\ Verdict(drain.f) \in Outcomes
         /\ Verdict(drain.f) = "imported" =>
              /\ Mine /\ slot.phase = "done" /\ ~(slot.stopped /\ drain.aborted)
              /\ slot.result[drain.f] = "landed"
<1>1. CASE ~Mine
  BY <1>1 DEF Verdict, Outcomes
<1>2. CASE Mine
  <2>1. /\ slot # None /\ IsJob(slot) /\ slot.sources = {drain.f} /\ ~Running
    BY <1>2 DEF Mine, TypeOK, DrainInv, Reading
  <2>2. slot.phase \in {"done", "failed"} /\ slot.result[drain.f] \in Results
    BY <2>1, JobParts DEF Running
  <2>3. CASE slot.phase = "failed"
    BY <1>2, <2>3 DEF Verdict, Outcomes
  <2>4. CASE slot.phase = "done"
    BY <1>2, <2>2, <2>4 DEF Verdict, Outcomes, Results
  <2>q. QED
    BY <2>2, <2>3, <2>4
<1>q. QED
  BY <1>1, <1>2

\* The steps that wait, read and judge.
LEMMA WaitEffect ==
  ASSUME TypeOK, DrainInv, PassGate \/ RefuseSource \/ SeeEnd \/ ReadAborted \/ ReadState
  PROVE  /\ DrainTouches /\ drain' \in Drain /\ drain'.f = drain.f
         /\ \/ DrainGoes("gate", "start") \/ DrainGoes("start", "finish")
            \/ DrainGoes("wait", "classify") /\ Mine /\ ~Running
            \/ /\ drain.pc = "classify" /\ drain'.pc = "state"
               /\ drain'.aborted <=> Mine /\ slot.aborted
            \/ /\ drain.pc \in {"wait", "state"} /\ drain'.pc = "mark"
               /\ drain'.outcome \in Outcomes
               /\ drain.pc = "wait" => drain'.outcome = "failed"
               /\ drain.pc = "state" => drain'.outcome = Verdict(drain.f)
<1>a. "start" \in DrainPcs /\ "finish" \in DrainPcs /\ "classify" \in DrainPcs
      /\ "failed" \in Outcomes
  BY DEF DrainPcs, Outcomes
<1>1. CASE PassGate
  BY <1>a, <1>1, GoesOn DEF PassGate, DrainAt, DrainTouches, DrainGoes
<1>2. CASE RefuseSource
  BY <1>a, <1>2, GoesOn DEF RefuseSource, DrainAt, DrainTouches, DrainGoes
<1>3. CASE SeeEnd
  <2>0. DrainTouches /\ drain.pc = "wait" /\ ~(Mine /\ Running)
    BY <1>3 DEF SeeEnd, DrainAt, DrainTouches
  <2>1. CASE Mine
    <3>1. DrainTo("classify")
      BY <1>3, <2>1 DEF SeeEnd
    <3>q. QED
      BY <1>a, <2>0, <2>1, <3>1, GoesOn DEF DrainGoes
  <2>2. CASE ~Mine
    <3>1. drain' = Judged("failed")
      BY <1>3, <2>2 DEF SeeEnd, Judged
    <3>q. QED
      BY <1>a, <2>0, <3>1, DrainNotes
  <2>q. QED
    BY <2>1, <2>2
<1>4. CASE ReadAborted
  <2>1. drain.pc = "classify" /\ DrainTouches
    BY <1>4 DEF ReadAborted, DrainAt, DrainTouches
  <2>2. PICK aborted \in BOOLEAN :
          drain' = Noted(aborted) /\ (aborted <=> Mine /\ slot.aborted)
    BY <1>4 DEF ReadAborted, Noted
  <2>q. QED
    BY <1>a, <2>1, <2>2, DrainNotes
<1>5. CASE ReadState
  <2>1. drain' = Judged(Verdict(drain.f)) /\ drain.pc = "state" /\ DrainTouches
    BY <1>5 DEF ReadState, Judged, DrainAt, DrainTouches
  <2>2. Verdict(drain.f) \in Outcomes
    BY <2>1, VerdictType
  <2>q. QED
    BY <2>1, <2>2, DrainNotes
<1>q. QED
  BY <1>1, <1>2, <1>3, <1>4, <1>5

\* The steps that take a folder, give it back and write the ledger.
LEMMA HandEffect ==
  ASSUME TypeOK, TakeFolder \/ EndDrain \/ Defer \/ Requeue \/ StartDrained \/ MarkHandled \/ Finish
  PROVE  /\ drain' \in Drain
         /\ UNCHANGED <<moves, folderVars, hooks, stopping, recording, blocked>>
         /\ TakeFolder =>
              /\ drain.pc = "get" /\ drain'.pc = "gate" /\ queue # <<>>
              /\ Head(queue) \in Folders /\ drain'.f = Head(queue)
              /\ UNCHANGED <<ledger, slot>>
         /\ EndDrain => DrainGoes(drain.pc, "ended") /\ UNCHANGED <<ledger, slot>>
         /\ Defer => DrainGoes("start", "deferring") /\ UNCHANGED <<ledger, slot>>
         /\ Requeue => drain.pc = "deferring" /\ drain'.pc = "get" /\ UNCHANGED <<ledger, slot>>
         /\ StartDrained => DrainGoes("start", "wait") /\ UNCHANGED <<ledger, queueVars>>
         /\ MarkHandled => DrainGoes("mark", "finish") /\ UNCHANGED <<slot, queueVars>>
         /\ Finish => drain.pc = "finish" /\ drain'.pc = "get" /\ UNCHANGED <<ledger, slot>>
<1>a. "ended" \in DrainPcs /\ "deferring" \in DrainPcs /\ "wait" \in DrainPcs
      /\ "finish" \in DrainPcs
  BY DEF DrainPcs
<1>f. UNCHANGED <<moves, folderVars, hooks, stopping, recording, blocked>>
  BY DEF TakeFolder, EndDrain, Defer, Requeue, StartDrained, MarkHandled, Finish, queueVars,
         folderVars, history
<1>1. ASSUME TakeFolder
      PROVE  /\ drain' \in Drain /\ drain.pc = "get" /\ drain'.pc = "gate" /\ queue # <<>>
             /\ Head(queue) \in Folders /\ drain'.f = Head(queue) /\ UNCHANGED <<ledger, slot>>
  <2>1. Head(queue) \in Folders /\ queue # <<>>
    BY <1>1, TailToSet DEF TakeFolder, TypeOK
  <2>2. drain' = [DrainIdle EXCEPT !.pc = "gate", !.f = Head(queue)]
    BY <1>1 DEF TakeFolder
  <2>3. drain' \in Drain /\ drain'.pc = "gate" /\ drain'.f = Head(queue)
    BY <2>1, <2>2 DEF DrainIdle, Drain, DrainPcs
  <2>q. QED
    BY <1>1, <2>1, <2>3 DEF TakeFolder, DrainAt
<1>2. ASSUME EndDrain
      PROVE  drain' \in Drain /\ DrainGoes(drain.pc, "ended") /\ UNCHANGED <<ledger, slot>>
  BY <1>a, <1>2, GoesOn DEF EndDrain
<1>3. ASSUME Defer
      PROVE  drain' \in Drain /\ DrainGoes("start", "deferring") /\ UNCHANGED <<ledger, slot>>
  BY <1>a, <1>3, GoesOn DEF Defer, DrainAt
<1>4. ASSUME Requeue
      PROVE  /\ drain' \in Drain /\ drain.pc = "deferring" /\ drain'.pc = "get"
             /\ UNCHANGED <<ledger, slot>>
  BY <1>4, IdleTypes DEF Requeue, DrainAt
<1>5. ASSUME StartDrained
      PROVE  drain' \in Drain /\ DrainGoes("start", "wait") /\ UNCHANGED <<ledger, queueVars>>
  BY <1>a, <1>5, GoesOn DEF StartDrained, DrainAt
<1>6. ASSUME MarkHandled
      PROVE  drain' \in Drain /\ DrainGoes("mark", "finish") /\ UNCHANGED <<slot, queueVars>>
  BY <1>a, <1>6, GoesOn DEF MarkHandled, DrainAt
<1>7. ASSUME Finish
      PROVE  /\ drain' \in Drain /\ drain.pc = "finish" /\ drain'.pc = "get"
             /\ UNCHANGED <<ledger, slot>>
  BY <1>7, IdleTypes DEF Finish, DrainAt
<1>q. QED
  BY <1>f, <1>1, <1>2, <1>3, <1>4, <1>5, <1>6, <1>7

StatusType == [phase : {"idle", "running"}, current : Folders \cup {None}]

\* The steps of the drain keep the type.
LEMMA DrainTypes ==
  ASSUME TypeOK, HandsInv, DrainInv, DrainStep
  PROVE  TypeOK'
<1>1. CASE PassGate \/ RefuseSource \/ SeeEnd \/ ReadAborted \/ ReadState
  BY <1>1, WaitEffect DEF TypeOK, IsJob, DrainTouches, folderVars, history, queueVars
<1>2. CASE TakeFolder \/ EndDrain \/ Defer \/ Requeue \/ StartDrained \/ MarkHandled \/ Finish
  <2>1. drain' \in Drain /\ UNCHANGED <<moves, folderVars, hooks, stopping, recording, blocked>>
    BY <1>2, HandEffect
  <2>2. drain.f \in Folders \cup {None} /\ status \in StatusType
    BY DEF TypeOK, Drain, StatusType
  <2>3. queue' \in Seq(Folders \cup {None})
    <3>1. CASE TakeFolder
      BY <3>1, TailToSet DEF TakeFolder, TypeOK
    <3>2. CASE Requeue
      BY <2>2, <3>2, AppendToSet DEF Requeue, TypeOK
    <3>3. CASE EndDrain \/ Defer \/ StartDrained \/ MarkHandled \/ Finish
      BY <3>3 DEF EndDrain, Defer, StartDrained, MarkHandled, Finish, TypeOK, queueVars
    <3>q. QED
      BY <1>2, <3>1, <3>2, <3>3
  <2>4. status' \in StatusType
    <3>1. CASE TakeFolder
      BY <3>1, HandEffect, TailToSet DEF TakeFolder, TypeOK, StatusType
    <3>2. CASE Defer
      BY <2>2, <3>2 DEF Defer, StatusType
    <3>3. CASE Finish
      BY <2>2, <3>3 DEF Finish, StatusType
    <3>4. CASE EndDrain \/ Requeue \/ StartDrained \/ MarkHandled
      BY <2>2, <3>4 DEF EndDrain, Requeue, StartDrained, MarkHandled, queueVars
    <3>q. QED
      BY <1>2, <3>1, <3>2, <3>3, <3>4
  <2>5. dedupe' \in SUBSET Folders
    BY <1>2 DEF TakeFolder, EndDrain, Defer, Requeue, StartDrained, MarkHandled, Finish, TypeOK,
                queueVars
  <2>6. slot' = None \/ IsJob(slot')
    <3>1. CASE StartDrained
      <4>1. drain.f \in Folders
        BY <3>1 DEF StartDrained, DrainAt, HandsInv, TypeOK
      <4>2. {drain.f} \in SUBSET Folders /\ slot' = NewJob(TRUE, {drain.f})
        BY <3>1, <4>1 DEF StartDrained
      <4>q. QED
        BY <4>2, NewJobIsJob
    <3>2. CASE slot' = slot
      BY <3>2 DEF TypeOK, IsJob
    <3>q. QED
      BY <1>2, <3>1, <3>2, HandEffect
  <2>7. ledger' \in [Folders -> Row \cup {None}]
    <3>1. CASE MarkHandled
      <4>1. drain.f \in Folders /\ drain.outcome \in Outcomes
        BY <3>1 DEF MarkHandled, DrainAt, HandsInv, DrainInv, TypeOK, Drain
      <4>2. ledger' = ledger \/ ledger' = [ledger EXCEPT ![drain.f] =
                                            [id |-> disk[drain.f].id, outcome |-> drain.outcome]]
        BY <3>1 DEF MarkHandled, Mark
      <4>3. [id |-> disk[drain.f].id, outcome |-> drain.outcome] \in Row
        BY <4>1 DEF TypeOK, Disk, Row
      <4>q. QED
        BY <4>1, <4>2, <4>3 DEF TypeOK
    <3>2. CASE ledger' = ledger
      BY <3>2 DEF TypeOK
    <3>q. QED
      BY <1>2, <3>1, <3>2, HandEffect
  <2>q. QED
    BY <2>1, <2>3, <2>4, <2>5, <2>6, <2>7 DEF TypeOK, folderVars, history, StatusType
<1>q. QED
  BY <1>1, <1>2 DEF DrainStep

-----------------------------------------------------------------------------
(* A folder on its way is in one place.                                    *)

PlaceVars == <<hooks, queue, dedupe, stopping, status>>

\* What the drain has in its hands.
LEMMA InHands ==
  /\ drain.pc \in {"get", "ended"} => InDrain = {}
  /\ drain.pc \notin {"get", "ended"} => InDrain = {drain.f}
  /\ drain'.pc \in {"get", "ended"} => InDrain' = {}
  /\ drain'.pc \notin {"get", "ended"} => InDrain' = {drain'.f}
BY DEF InDrain

\* Who does not touch the queue, the webhooks and the drain's folder moves no folder.
LEMMA PlacesStay ==
  ASSUME HandsInv, PlacesInv, StatusInv, UNCHANGED PlaceVars, drain'.f = drain.f,
         \/ drain'.pc = drain.pc
         \/ /\ drain.pc \in {"gate", "start", "wait", "classify", "state", "mark"}
            /\ drain'.pc \in {"start", "wait", "classify", "state", "mark", "finish"}
  PROVE  HandsInv' /\ PlacesInv' /\ StatusInv'
<1>1. /\ hooks' = hooks /\ queue' = queue /\ dedupe' = dedupe /\ stopping' = stopping
      /\ status' = status
  BY DEF PlaceVars
<1>2. InDrain' = InDrain
  BY DEF InDrain
<1>3. Admitted' = Admitted /\ Hooking' = Hooking
  BY <1>1 DEF Admitted, Hooking
<1>4. HandsInv'
  BY <1>1 DEF HandsInv
<1>5. PlacesInv'
  BY <1>1, <1>2, <1>3 DEF PlacesInv
<1>6. StatusInv'
  BY <1>1 DEF StatusInv
<1>q. QED
  BY <1>4, <1>5, <1>6

\* What one webhook does to those that have admitted a folder.
LEMMA HookMoves ==
  ASSUME TypeOK, NEW w \in Hooks, NEW what \in Hooked, hooks' = [hooks EXCEPT ![w] = what]
  PROVE  /\ hooks'[w] = what /\ \A v \in Hooks : v # w => hooks'[v] = hooks[v]
         /\ what.pc = "admitted" =>
              Admitted' = Admitted \cup {w} /\ Hooking' = {hooks[v].f : v \in Admitted \ {w}}
                                                         \cup {what.f}
         /\ what.pc # "admitted" =>
              Admitted' = Admitted \ {w} /\ Hooking' = {hooks[v].f : v \in Admitted \ {w}}
<1>1. hooks'[w] = what /\ \A v \in Hooks : v # w => hooks'[v] = hooks[v]
  BY DEF TypeOK
<1>2. ASSUME what.pc = "admitted"
      PROVE  Admitted' = Admitted \cup {w} /\ Hooking' = {hooks[v].f : v \in Admitted \ {w}}
                                                         \cup {what.f}
  <2>1. Admitted' = Admitted \cup {w}
    BY <1>1, <1>2 DEF Admitted
  <2>2. Hooking' = {hooks'[v].f : v \in Admitted \cup {w}}
    BY <2>1 DEF Hooking
  <2>q. QED
    BY <1>1, <2>1, <2>2 DEF Admitted
<1>3. ASSUME what.pc # "admitted"
      PROVE  Admitted' = Admitted \ {w} /\ Hooking' = {hooks[v].f : v \in Admitted \ {w}}
  <2>1. Admitted' = Admitted \ {w}
    BY <1>1, <1>3 DEF Admitted
  <2>2. Hooking' = {hooks'[v].f : v \in Admitted \ {w}}
    BY <2>1 DEF Hooking
  <2>q. QED
    BY <1>1, <2>1, <2>2 DEF Admitted
<1>q. QED
  BY <1>1, <1>2, <1>3

\* A webhook's folder is nobody's else.
LEMMA OthersElsewhere ==
  ASSUME PlacesInv, ~stopping, NEW w \in Admitted
  PROVE  /\ Hooking = {hooks[v].f : v \in Admitted \ {w}} \cup {hooks[w].f}
         /\ hooks[w].f \notin {hooks[v].f : v \in Admitted \ {w}}
         /\ hooks[w].f \notin ToSet(queue) /\ hooks[w].f \notin InDrain
<1>1. Hooking = {hooks[v].f : v \in Admitted \ {w}} \cup {hooks[w].f}
  BY DEF Hooking
<1>2. \A v \in Admitted : hooks[v].f = hooks[w].f => v = w
  BY DEF PlacesInv
<1>3. ToSet(queue) \cap Hooking = {} /\ InDrain \cap Hooking = {}
  BY DEF PlacesInv
<1>q. QED
  BY <1>1, <1>2, <1>3

\* A webhook moves its folder through the dedupe set to the queue.
LEMMA HookPlaces ==
  ASSUME TypeOK, HandsInv, PlacesInv, StatusInv, NEW w \in Hooks, HookStep(w)
  PROVE  HandsInv' /\ PlacesInv' /\ StatusInv'
<1>0. HookIdle \in Hooked /\ HookIdle.pc = "idle"
  BY IdleTypes DEF HookIdle
<1>d. drain' = drain /\ stopping' = stopping /\ status' = status /\ InDrain' = InDrain
  BY DEF HookStep, HookArrives, Admit, Put, queueVars, InDrain
<1>1. ASSUME NEW f \in Folders, HookArrives(w, f) PROVE HandsInv' /\ PlacesInv' /\ StatusInv'
  <2>1. [pc |-> "checked", f |-> f] \in Hooked
    BY DEF Hooked
  <2>2. /\ hooks' = [hooks EXCEPT ![w] = [pc |-> "checked", f |-> f]]
        /\ hooks[w].pc = "idle" /\ queue' = queue /\ dedupe' = dedupe
    BY <1>1 DEF HookArrives, Hook, queueVars
  <2>3. /\ hooks'[w] = [pc |-> "checked", f |-> f]
        /\ \A v \in Hooks : v # w => hooks'[v] = hooks[v]
        /\ Admitted' = Admitted \ {w} /\ Hooking' = {hooks[v].f : v \in Admitted \ {w}}
    BY <2>1, <2>2, HookMoves
  <2>4. w \notin Admitted
    BY <2>2 DEF Admitted
  <2>5. Admitted' = Admitted /\ Hooking' = Hooking
    BY <2>3, <2>4 DEF Hooking
  <2>6. \A v \in Admitted : hooks'[v] = hooks[v]
    BY <2>3, <2>4 DEF Admitted
  <2>7. HandsInv'
    BY <1>d, <2>2, <2>3 DEF HandsInv
  <2>8. PlacesInv'
    BY <1>d, <2>2, <2>5, <2>6 DEF PlacesInv
  <2>9. StatusInv'
    BY <1>d, <2>2 DEF StatusInv
  <2>q. QED
    BY <2>7, <2>8, <2>9
<1>2. CASE Admit(w)
  <2>0. /\ hooks[w].pc = "checked" /\ hooks[w].f \in Folders /\ queue' = queue
        /\ w \notin Admitted
    BY <1>2 DEF Admit, HandsInv, Admitted
  <2> DEFINE f == hooks[w].f
  <2>1. CASE f \in dedupe \/ Seen(f)
    <3>1. hooks' = [hooks EXCEPT ![w] = HookIdle] /\ dedupe' = dedupe
      BY <1>2, <2>1 DEF Admit
    <3>2. /\ hooks'[w] = HookIdle /\ \A v \in Hooks : v # w => hooks'[v] = hooks[v]
          /\ Admitted' = Admitted \ {w} /\ Hooking' = {hooks[v].f : v \in Admitted \ {w}}
      BY <1>0, <3>1, HookMoves
    <3>3. Admitted' = Admitted /\ Hooking' = Hooking
      BY <2>0, <3>2 DEF Hooking
    <3>4. \A v \in Admitted : hooks'[v] = hooks[v]
      BY <2>0, <3>2 DEF Admitted
    <3>5. HandsInv'
      BY <1>0, <1>d, <3>1, <3>2 DEF HandsInv
    <3>6. PlacesInv'
      BY <1>d, <2>0, <3>1, <3>3, <3>4 DEF PlacesInv
    <3>7. StatusInv'
      BY <1>d, <3>1 DEF StatusInv
    <3>q. QED
      BY <3>5, <3>6, <3>7
  <2>2. CASE ~(f \in dedupe \/ Seen(f))
    <3> DEFINE what == [pc |-> "admitted", f |-> f]
    <3>0. what \in Hooked /\ what.pc = "admitted" /\ what.f = f
      BY <2>0 DEF Hooked
    <3>1. hooks' = [hooks EXCEPT ![w] = what] /\ dedupe' = dedupe \cup {f}
      BY <1>2, <2>2 DEF Admit, Hook
    <3> HIDE DEF what
    <3>2. /\ hooks'[w] = what
          /\ \A v \in Hooks : v # w => hooks'[v] = hooks[v]
          /\ Admitted' = Admitted \cup {w}
          /\ Hooking' = {hooks[v].f : v \in Admitted \ {w}} \cup {f}
      <4> HIDE DEF f
      <4>1. /\ hooks'[w] = what
            /\ \A v \in Hooks : v # w => hooks'[v] = hooks[v]
            /\ Admitted' = Admitted \cup {w}
            /\ Hooking' = {hooks[v].f : v \in Admitted \ {w}} \cup {what.f}
        BY <3>0, <3>1, HookMoves
      <4>q. QED
        BY <3>0, <4>1
    <3>3. Hooking' = Hooking \cup {f} /\ hooks'[w].f = f
      BY <2>0, <3>0, <3>2 DEF Hooking
    <3>4. \A v \in Admitted : hooks'[v] = hooks[v] /\ hooks[v].f \in Hooking
      BY <2>0, <3>2 DEF Admitted, Hooking
    <3>5. HandsInv'
      BY <1>d, <2>0, <3>0, <3>1, <3>2 DEF HandsInv
    <3>6. ASSUME ~stopping PROVE /\ dedupe = ToSet(queue) \cup InDrain \cup Hooking
                                 /\ f \notin ToSet(queue) /\ f \notin InDrain /\ f \notin Hooking
      BY <2>2, <3>6 DEF PlacesInv
    <3> HIDE DEF f
    <3>7. PlacesInv'
      <4>1. SUFFICES ASSUME ~stopping
                     PROVE  /\ dedupe' = ToSet(queue') \cup InDrain' \cup Hooking'
                            /\ IsInjective(queue')
                            /\ \A u, v \in Admitted' : hooks'[u].f = hooks'[v].f => u = v
                            /\ ToSet(queue') \cap InDrain' = {}
                            /\ ToSet(queue') \cap Hooking' = {}
                            /\ InDrain' \cap Hooking' = {}
        BY <1>d DEF PlacesInv
      <4>2. /\ IsInjective(queue) /\ ToSet(queue) \cap InDrain = {}
            /\ ToSet(queue) \cap Hooking = {} /\ InDrain \cap Hooking = {}
            /\ \A u, v \in Admitted : hooks[u].f = hooks[v].f => u = v
        BY <4>1 DEF PlacesInv
      <4>3. \A u, v \in Admitted' : hooks'[u].f = hooks'[v].f => u = v
        BY <3>2, <3>3, <3>4, <3>6, <4>1, <4>2
      <4>q. QED
        BY <1>d, <2>0, <3>1, <3>3, <3>6, <4>1, <4>2, <4>3
    <3>8. StatusInv'
      BY <1>d, <3>1 DEF StatusInv
    <3>q. QED
      BY <3>5, <3>7, <3>8
  <2>q. QED
    BY <2>1, <2>2
<1>3. CASE Put(w)
  <2> DEFINE f == hooks[w].f
             others == {hooks[v].f : v \in Admitted \ {w}}
  <2>0. /\ w \in Admitted /\ f \in Folders \cup {None} /\ dedupe' = dedupe
        /\ queue' = Append(queue, f) /\ queue \in Seq(Folders \cup {None})
        /\ hooks' = [hooks EXCEPT ![w] = HookIdle]
    BY <1>3 DEF Put, HandsInv, Admitted, TypeOK, Hooked
  <2>1. /\ hooks'[w] = HookIdle /\ \A v \in Hooks : v # w => hooks'[v] = hooks[v]
        /\ Admitted' = Admitted \ {w} /\ Hooking' = others
    BY <1>0, <2>0, HookMoves
  <2>2. /\ ToSet(queue') = ToSet(queue) \cup {f}
        /\ IsInjective(queue) /\ f \notin ToSet(queue) => IsInjective(queue')
    BY <2>0, AppendToSet
  <2>3. ~stopping => /\ Hooking = others \cup {f} /\ f \notin others
                     /\ f \notin ToSet(queue) /\ f \notin InDrain
    BY <2>0, OthersElsewhere
  <2>4. \A v \in Admitted' : v \in Admitted /\ hooks'[v] = hooks[v]
    BY <2>1 DEF Admitted
  <2>5. HandsInv'
    BY <1>0, <1>d, <2>0, <2>1 DEF HandsInv
  <2> HIDE DEF f, others
  <2>6. PlacesInv'
    BY <1>d, <2>0, <2>1, <2>2, <2>3, <2>4 DEF PlacesInv
  <2>7. StatusInv'
    BY <1>d, <2>0 DEF StatusInv
  <2>q. QED
    BY <2>5, <2>6, <2>7
<1>q. QED
  BY <1>1, <1>2, <1>3 DEF HookStep

\* The drain moves its folder from the queue out of the dedupe set, or back.
LEMMA DrainPlaces ==
  ASSUME TypeOK, HandsInv, PlacesInv, StatusInv, DrainInv, DrainStep
  PROVE  HandsInv' /\ PlacesInv' /\ StatusInv'
<1>1. CASE PassGate \/ RefuseSource \/ SeeEnd \/ ReadAborted \/ ReadState
  <2>1. DrainTouches /\ drain'.f = drain.f
        /\ drain.pc \in {"gate", "start", "wait", "classify", "state"}
        /\ drain'.pc \in {"start", "wait", "classify", "state", "mark", "finish"}
    BY <1>1, WaitEffect DEF DrainGoes
  <2>2. UNCHANGED PlaceVars
    BY <2>1 DEF DrainTouches, PlaceVars, queueVars
  <2>q. QED
    BY <2>1, <2>2, PlacesStay
<1>2. CASE StartDrained \/ MarkHandled
  <2>1. UNCHANGED PlaceVars
    BY <1>2, HandEffect DEF StartDrained, MarkHandled, PlaceVars, queueVars
  <2>2. /\ drain'.f = drain.f /\ drain.pc \in {"start", "mark"}
        /\ drain'.pc \in {"wait", "finish"}
    BY <1>2 DEF StartDrained, MarkHandled, DrainTo, DrainAt, TypeOK, Drain
  <2>q. QED
    BY <2>1, <2>2, PlacesStay
<1>3. CASE TakeFolder \/ EndDrain \/ Defer \/ Requeue \/ Finish
  <2>h. /\ hooks' = hooks /\ stopping' = stopping /\ Admitted' = Admitted /\ Hooking' = Hooking
    BY <1>3 DEF TakeFolder, EndDrain, Defer, Requeue, Finish, queueVars, Admitted, Hooking
  <2>1. CASE TakeFolder
    <3>1. /\ drain.pc = "get" /\ drain'.pc = "gate" /\ queue # <<>>
          /\ drain'.f = Head(queue) /\ queue' = Tail(queue) /\ dedupe' = dedupe /\ ~stopping
          /\ status' = [phase |-> "running", current |-> Head(queue)]
          /\ queue \in Seq(Folders \cup {None})
      BY <2>1, HandEffect DEF TakeFolder, TypeOK, DrainIdle
    <3>2. /\ Head(queue) \in ToSet(queue) /\ ToSet(Tail(queue)) = ToSet(queue) \ {Head(queue)}
          /\ IsInjective(Tail(queue))
      BY <3>1, TailToSet DEF PlacesInv
    <3>3. InDrain = {} /\ InDrain' = {Head(queue)}
      BY <3>1, InHands
    <3>4. /\ dedupe = ToSet(queue) \cup Hooking /\ ToSet(queue) \cap Hooking = {}
          /\ \A w, v \in Admitted : hooks[w].f = hooks[v].f => w = v
      BY <3>1, <3>3 DEF PlacesInv
    <3>5. HandsInv'
      BY <2>h, <3>1, <3>2, <3>4 DEF HandsInv
    <3>6. PlacesInv'
      BY <2>h, <3>1, <3>2, <3>3, <3>4 DEF PlacesInv
    <3>7. StatusInv'
      BY <2>h, <3>1, <3>2, <3>4 DEF StatusInv
    <3>q. QED
      BY <3>5, <3>6, <3>7
  <2>2. CASE EndDrain
    <3>1. /\ stopping /\ drain'.pc = "ended" /\ drain'.f = drain.f /\ dedupe' = dedupe
          /\ status' = status
      BY <2>2, HandEffect DEF EndDrain, DrainGoes, queueVars
    <3>q. QED
      BY <2>h, <3>1 DEF HandsInv, PlacesInv, StatusInv
  <2>3. CASE Defer
    <3>1. /\ drain.pc = "start" /\ drain'.pc = "deferring" /\ drain'.f = drain.f
          /\ queue' = queue /\ dedupe' = dedupe
      BY <2>3, HandEffect DEF Defer, DrainGoes
    <3>2. status'.current = None /\ status'.phase = status.phase
      BY <2>3 DEF Defer, TypeOK
    <3>3. InDrain' = InDrain
      BY <3>1, InHands
    <3>q. QED
      BY <2>h, <3>1, <3>2, <3>3 DEF HandsInv, PlacesInv, StatusInv
  <2>4. CASE Requeue
    <3>1. /\ drain.pc = "deferring" /\ drain'.pc = "get" /\ queue' = Append(queue, drain.f)
          /\ dedupe' = dedupe /\ status' = status /\ queue \in Seq(Folders \cup {None})
          /\ drain.f \in Folders \cup {None}
      BY <2>4, HandEffect DEF Requeue, TypeOK, Drain
    <3>2. /\ ToSet(queue') = ToSet(queue) \cup {drain.f}
          /\ IsInjective(queue) /\ drain.f \notin ToSet(queue) => IsInjective(queue')
      BY <3>1, AppendToSet
    <3>3. InDrain = {drain.f} /\ InDrain' = {}
      BY <3>1, InHands
    <3>4. HandsInv'
      BY <2>h, <3>1 DEF HandsInv
    <3>5. PlacesInv'
      BY <2>h, <3>1, <3>2, <3>3 DEF PlacesInv
    <3>6. StatusInv'
      BY <2>h, <3>1 DEF StatusInv
    <3>q. QED
      BY <3>4, <3>5, <3>6
  <2>5. CASE Finish
    <3>1. /\ drain.pc = "finish" /\ drain'.pc = "get" /\ queue' = queue
          /\ dedupe' = dedupe \ {drain.f} /\ drain.f \in dedupe
      BY <2>5, HandEffect DEF Finish, HandsInv
    <3>2. /\ status'.current = None
          /\ status'.phase = IF dedupe' = {} THEN "idle" ELSE status.phase
      BY <2>5 DEF Finish, TypeOK
    <3>3. InDrain = {drain.f} /\ InDrain' = {}
      BY <3>1, InHands
    <3>4. HandsInv'
      BY <2>h, <3>1 DEF HandsInv
    <3>5. PlacesInv'
      BY <2>h, <3>1, <3>3 DEF PlacesInv
    <3>6. StatusInv'
      BY <2>h, <3>1, <3>2 DEF StatusInv
    <3>q. QED
      BY <3>4, <3>5, <3>6
  <2>q. QED
    BY <1>3, <2>1, <2>2, <2>3, <2>4, <2>5
<1>q. QED
  BY <1>1, <1>2, <1>3 DEF DrainStep

\* A stop, a restart, and everybody else.
LEMMA OtherPlaces ==
  ASSUME TypeOK, HandsInv, PlacesInv, StatusInv,
         \/ FolderStep \/ Blocks \/ WorkerStep \/ RequestStop \/ Stop \/ Restart
         \/ \E sources \in SUBSET Folders : StartOther(sources)
         \/ \E f \in Folders : Record(f)
         \/ UNCHANGED vars
  PROVE  HandsInv' /\ PlacesInv' /\ StatusInv'
<1>1. CASE Stop
  <2>1. /\ stopping' /\ drain' = drain /\ hooks' = hooks /\ dedupe' = dedupe /\ status' = status
    BY <1>1 DEF Stop
  <2>q. QED
    BY <2>1 DEF HandsInv, PlacesInv, StatusInv
<1>2. CASE Restart
  <2>1. /\ drain'.pc = "get" /\ queue' = <<>> /\ dedupe' = {} /\ stopping' = FALSE
        /\ status'.current = None /\ status'.phase = "idle"
        /\ \A w \in Hooks : hooks'[w].pc = "idle"
    BY <1>2 DEF Restart, DrainIdle, StatusIdle, HookIdle
  <2>2. Admitted' = {} /\ Hooking' = {} /\ InDrain' = {}
    BY <2>1, InHands DEF Admitted, Hooking
  <2>3. ToSet(<<>>) = {} /\ IsInjective(<<>>)
    BY DEF ToSet, IsInjective
  <2>4. HandsInv' /\ StatusInv'
    BY <2>1 DEF HandsInv, StatusInv
  <2>5. PlacesInv'
    BY <2>1, <2>2, <2>3 DEF PlacesInv
  <2>q. QED
    BY <2>4, <2>5
<1>3. CASE ~Stop /\ ~Restart
  <2>1. UNCHANGED <<PlaceVars, drain>>
    <3>1. CASE FolderStep \/ Blocks \/ RequestStop \/ UNCHANGED vars
      BY <3>1 DEF FolderStep, DropArrives, FolderRemoved, Blocks, RequestStop, vars, PlaceVars,
                  queueVars
    <3>2. CASE WorkerStep
      BY <3>2 DEF WorkerStep, Walk, SetAside, LandAlbum, Abort, FinishJob, FailJob, PlaceVars,
                  queueVars
    <3>3. CASE \/ \E sources \in SUBSET Folders : StartOther(sources)
               \/ \E f \in Folders : Record(f)
      BY <3>3 DEF StartOther, Record, PlaceVars, queueVars
    <3>q. QED
      BY <1>3, <3>1, <3>2, <3>3
  <2>q. QED
    BY <2>1, PlacesStay
<1>q. QED
  BY <1>1, <1>2, <1>3

-----------------------------------------------------------------------------
(* Whoever says "imported" says it of a folder that is good.               *)

LandInv == ClockInv /\ LedgerInv /\ RecordInv /\ RunInv /\ DrainInv

\* Nobody touched the folders: what was good is.
LEMMA GoodStays ==
  ASSUME UNCHANGED folderVars
  PROVE  /\ \A f \in Folders : Good(f)' <=> Good(f)
         /\ ledger' = ledger => ClockInv' = ClockInv /\ LedgerInv' = LedgerInv
<1>1. disk' = disk /\ clock' = clock /\ landed' = landed /\ silent' = silent
  BY DEF folderVars, history
<1>q. QED
  BY <1>1 DEF Good, ClockInv, LedgerInv, Hidden, Seen

\* A row that is written is of the folder as it is: "imported" if it is good.
LEMMA MarkedLands ==
  ASSUME TypeOK, ClockInv, LedgerInv, NEW f \in Folders, NEW outcome, UNCHANGED folderVars,
         ledger' = [ledger EXCEPT ![f] = [id |-> disk[f].id, outcome |-> outcome]],
         outcome = "imported" => Good(f)
  PROVE  ClockInv' /\ LedgerInv'
<1>1. disk' = disk /\ clock' = clock /\ \A g \in Folders : Good(g)' <=> Good(g)
  BY GoodStays DEF folderVars
<1>2. /\ ledger'[f] = [id |-> disk[f].id, outcome |-> outcome]
      /\ \A g \in Folders : g # f => ledger'[g] = ledger[g]
  BY DEF TypeOK
<1>3. ledger'[f].id = disk[f].id /\ ledger'[f].outcome = outcome
  BY <1>2
<1>4. ClockInv'
  BY <1>1, <1>2, <1>3 DEF ClockInv
<1>5. ASSUME NEW g \in Folders, Hidden(g)' PROVE Good(g)
  BY <1>1, <1>2, <1>3, <1>5 DEF LedgerInv, Hidden, Seen
<1>q. QED
  BY <1>1, <1>4, <1>5 DEF LedgerInv

\* A run nobody touches, of folders nobody touches, is as good as it was.
LEMMA RunStays ==
  ASSUME TypeOK, RunInv, UNCHANGED <<folderVars, slot>>
  PROVE  RunInv'
<1>1. Running' = Running /\ slot' = slot
  BY DEF Running
<1>2. disk' = disk /\ \A g \in Folders : Good(g)' <=> Good(g)
  BY GoodStays DEF folderVars
<1>3. slot # None => slot.sources \in SUBSET Folders
  BY JobParts DEF TypeOK
<1>4. ASSUME slot # None, Running, NEW g \in slot.sources
      PROVE  /\ slot.album = g => disk[g].drop = slot.got \/ Good(g)'
             /\ ~slot.aborted /\ g \notin slot.todo /\ slot.album # g
                   /\ slot.result[g] = "landed" => Good(g)'
  <2>1. Good(g)' <=> Good(g)
    BY <1>2, <1>3, <1>4
  <2>q. QED
    BY <1>4, <2>1 DEF RunInv
<1>5. slot # None /\ slot.aborted => slot.stopped
  BY DEF RunInv
<1>q. QED
  BY <1>1, <1>2, <1>4, <1>5 DEF RunInv

\* Nobody who could speak took a step.
LEMMA SameLands ==
  ASSUME TypeOK, HandsInv, LandInv, UNCHANGED <<folderVars, ledger, recording, slot, drain>>
  PROVE  LandInv'
<1>1. ledger' = ledger /\ recording' = recording /\ slot' = slot /\ drain' = drain
  OBVIOUS
<1>2. ClockInv' /\ LedgerInv' /\ \A f \in Folders : Good(f)' <=> Good(f)
  BY GoodStays DEF LandInv
<1>3. Running' = Running /\ Reading' = Reading /\ Mine' = Mine
  BY <1>1 DEF Running, Reading, Mine
<1>4. RecordInv'
  BY <1>1, <1>2 DEF RecordInv, LandInv, TypeOK
<1>5. RunInv'
  BY RunStays DEF LandInv
<1>6. DrainInv'
  <2>1. drain.pc \notin {"get", "ended"} => drain.f \in Folders
    BY DEF HandsInv, TypeOK
  <2>q. QED
    BY <1>1, <1>2, <1>3, <2>1 DEF DrainInv, LandInv, Reading
<1>q. QED
  BY <1>2, <1>4, <1>5, <1>6 DEF LandInv

\* A download makes a folder new, or comes without a word; in hand it does too.
LEMMA DropIsGood ==
  ASSUME TypeOK, ClockInv, NEW f \in Folders, DropArrives(f) \/ FolderRemoved(f)
  PROVE  /\ \A g \in Folders : g # f => (Good(g)' <=> Good(g)) /\ disk'[g] = disk[g]
         /\ InHand(f) => Good(f)'
         /\ Hidden(f)' => Good(f)'
         /\ ClockInv'
<1>1. CASE DropArrives(f)
  <2>1. /\ clock' = clock + 1 /\ landed' = landed \ {f} /\ ledger' = ledger
    BY <1>1 DEF DropArrives
  <2>2. PICK nested \in {FALSE, disk[f].id # 0} :
          /\ disk' = [disk EXCEPT ![f] = [id |-> IF nested THEN @.id ELSE clock + 1,
                                          drop |-> clock + 1]]
          /\ silent' = IF nested \/ InHand(f) THEN silent \cup {f} ELSE silent \ {f}
    BY <1>1 DEF DropArrives
  <2>3. /\ \A g \in Folders : g # f => disk'[g] = disk[g]
        /\ disk'[f].id = (IF nested THEN disk[f].id ELSE clock + 1)
        /\ \A g \in Folders : g # f => (g \in landed' \cup silent' <=> g \in landed \cup silent)
    BY <2>1, <2>2 DEF TypeOK
  <2>4. nested \/ InHand(f) => Good(f)'
    BY <2>2 DEF Good
  <2>5. clock \in Nat /\ \A g \in Folders : disk[g].id \in Nat
                                           /\ (ledger[g] # None => ledger[g].id \in Nat)
    BY DEF TypeOK, Disk, Row
  <2>6. ~nested => ~Hidden(f)'
    BY <2>1, <2>3, <2>5 DEF Hidden, Seen, ClockInv
  <2>7. ClockInv'
    BY <2>1, <2>3, <2>5 DEF ClockInv
  <2>8. \A g \in Folders : g # f => (Good(g)' <=> Good(g))
    BY <2>3 DEF Good
  <2>q. QED
    BY <2>3, <2>4, <2>6, <2>7, <2>8
<1>2. CASE FolderRemoved(f)
  <2>1. /\ disk' = [disk EXCEPT ![f] = [id |-> 0, drop |-> 0]] /\ clock' = clock
        /\ landed' = landed \ {f} /\ silent' = silent \ {f} /\ ledger' = ledger
    BY <1>2 DEF FolderRemoved
  <2>2. /\ \A g \in Folders : g # f => disk'[g] = disk[g]
        /\ disk'[f].id = 0 /\ disk'[f].drop = 0
    BY <2>1 DEF TypeOK
  <2>3. Good(f)' /\ \A g \in Folders : g # f => (Good(g)' <=> Good(g))
    BY <2>1, <2>2 DEF Good
  <2>4. ClockInv'
    BY <2>1, <2>2 DEF ClockInv, TypeOK
  <2>q. QED
    BY <2>2, <2>3, <2>4
<1>q. QED
  BY <1>1, <1>2

\* A folder that somebody is about to speak of is in hand.
LEMMA SpokenOfIsInHand ==
  ASSUME TypeOK, DrainInv, NEW f \in Folders
  PROVE  /\ f \in recording => InHand(f)
         /\ Running /\ f \in slot.sources /\ (slot.album = f \/ f \notin slot.todo) => InHand(f)
         /\ Reading /\ drain.f = f /\ slot.phase = "done" => InHand(f)
         /\ drain.pc = "mark" /\ drain.f = f => InHand(f)
BY DEF InHand, Reading, Running, Mine, DrainInv

\* A download keeps the promises.
LEMMA FolderLands ==
  ASSUME TypeOK, TypeOK', LandInv, HandsInv, FolderStep \/ Blocks
  PROVE  LandInv'
<1>1. ASSUME NEW f \in Folders, DropArrives(f) \/ FolderRemoved(f) PROVE LandInv'
  <2>1. /\ \A g \in Folders : g # f => (Good(g)' <=> Good(g)) /\ disk'[g] = disk[g]
        /\ InHand(f) => Good(f)'
        /\ Hidden(f)' => Good(f)'
        /\ ClockInv'
    BY <1>1, DropIsGood DEF LandInv
  <2>2. /\ ledger' = ledger /\ recording' = recording /\ slot' = slot /\ drain' = drain
    BY <1>1 DEF DropArrives, FolderRemoved
  <2>3. LedgerInv'
    BY <2>1, <2>2 DEF LedgerInv, LandInv, Hidden, Seen
  <2>4. RecordInv'
    BY <2>1, <2>2, SpokenOfIsInHand DEF RecordInv, LandInv, TypeOK
  <2>5. RunInv'
    <3>1. ASSUME slot # None, Running PROVE slot.sources \in SUBSET Folders
      BY <3>1, JobParts DEF TypeOK
    <3>2. Running' = Running
      BY <2>2 DEF Running
    <3>q. QED
      BY <2>1, <2>2, <3>1, <3>2, SpokenOfIsInHand DEF RunInv, LandInv
  <2>6. DrainInv'
    <3>1. Running' = Running /\ Reading' = Reading /\ Mine' = Mine
      BY <2>2 DEF Running, Reading, Mine
    <3>2. drain.pc \notin {"get", "ended"} => drain.f \in Folders
      BY DEF HandsInv, TypeOK
    <3>q. QED
      BY <2>1, <2>2, <3>1, <3>2, SpokenOfIsInHand DEF DrainInv, LandInv, Reading
  <2>q. QED
    BY <2>1, <2>3, <2>4, <2>5, <2>6 DEF LandInv
<1>2. CASE Blocks
  <2>1. UNCHANGED folderVars /\ ledger' = ledger /\ recording' = recording /\ slot' = slot
        /\ drain' = drain
    BY <1>2 DEF Blocks
  <2>q. QED
    BY <2>1, SameLands
<1>q. QED
  BY <1>1, <1>2 DEF FolderStep

\* What a run has landed is good when its album is done with.
LEMMA WorkerLands ==
  ASSUME TypeOK, HandsInv, LandInv, WorkerStep \/ RequestStop
  PROVE  LandInv'
<1>0. slot # None => slot.sources \in SUBSET Folders /\ None \notin slot.sources
  BY JobParts DEF TypeOK
<1>h. drain.pc \notin {"get", "ended"} => drain.f \in Folders
  BY DEF HandsInv, TypeOK
<1>r. RunInv /\ DrainInv /\ RecordInv
  BY DEF LandInv
\* The steps that leave the folders alone, and the run where it was.
<1>1. ASSUME WalkTouches, slot # None, slot'.mine = slot.mine, slot'.sources = slot.sources,
             slot'.phase = slot.phase, slot'.aborted => slot.aborted \/ Running,
             slot.aborted => slot'.aborted,
             slot.phase = "done" => slot'.result = slot.result,
             RunInv'
      PROVE  LandInv'
  <2>1. /\ UNCHANGED folderVars /\ ledger' = ledger /\ recording' = recording /\ drain' = drain
    BY <1>1 DEF WalkTouches
  <2>2. ClockInv' /\ LedgerInv' /\ \A f \in Folders : Good(f)' <=> Good(f)
    BY <2>1, GoodStays DEF LandInv
  <2>3. RecordInv'
    BY <1>r, <2>1, <2>2 DEF RecordInv, TypeOK
  <2>4. Mine' => Mine
    BY <1>1 DEF Mine
  <2>5. Running' => Running
    BY <1>1 DEF Running
  <2>6. DrainInv'
    BY <1>1, <1>h, <1>r, <2>1, <2>2, <2>4, <2>5 DEF DrainInv, Reading, Running
  <2>q. QED
    BY <2>2, <2>3, <2>6, <1>1 DEF LandInv
<1>2. ASSUME NEW f \in Folders, Walk(f) PROVE LandInv'
  <2>1. WalkDoes(f) /\ WalkTouches /\ slot # None
    BY <1>2, WalkEffect DEF Walk, Running
  <2>2. disk' = disk /\ \A g \in Folders : Good(g)' <=> Good(g)
    BY <2>1, GoodStays DEF WalkTouches, folderVars
  <2>3. RunInv'
    <3>1. slot'.aborted => slot'.stopped
      BY <1>r, <2>1 DEF RunInv, WalkDoes, Same
    <3>2. ASSUME NEW g \in slot'.sources
          PROVE  /\ slot'.album = g => disk'[g].drop = slot'.got \/ Good(g)'
                 /\ ~slot'.aborted /\ g \notin slot'.todo /\ slot'.album # g
                       /\ slot'.result[g] = "landed" => Good(g)'
      <4>0. g \in slot.sources /\ g \in Folders
        BY <1>0, <2>1, <3>2 DEF WalkDoes, Same
      <4>1. slot'.album = g => disk'[g].drop = slot'.got
        BY <1>0, <2>1, <2>2, <4>0 DEF WalkDoes
      <4>2. ASSUME ~slot'.aborted, g \notin slot'.todo, slot'.album # g, slot'.result[g] = "landed"
            PROVE  Good(g)'
        <5>1. CASE g = f
          BY <2>1, <2>2, <4>0, <4>2, <5>1 DEF WalkDoes, Good
        <5>2. CASE g # f
          <6>1. g \notin slot.todo /\ slot.album # g /\ ~slot.aborted /\ slot.result[g] = "landed"
            BY <1>0, <2>1, <4>0, <4>2, <5>2 DEF WalkDoes, Same
          <6>q. QED
            BY <1>r, <2>1, <2>2, <4>0, <6>1 DEF RunInv, WalkDoes
        <5>q. QED
          BY <5>1, <5>2
      <4>q. QED
        BY <4>1, <4>2
    <3>q. QED
      BY <3>1, <3>2 DEF RunInv
  <2>q. QED
    BY <1>1, <2>1, <2>3 DEF WalkDoes, Same
<1>3. CASE SetAside
  <2>1. /\ slot # None /\ slot.album \in slot.sources /\ Running /\ WalkTouches
        /\ LandedOrAside(slot', slot, slot.album) /\ slot'.result[slot.album] = "aside"
    BY <1>3, SetAsideEffect
  <2>2. \A g \in Folders : Good(g)' <=> Good(g)
    BY <2>1, GoodStays DEF WalkTouches
  <2>3. RunInv'
    <3>1. slot'.aborted => slot'.stopped
      BY <1>r, <2>1 DEF RunInv, LandedOrAside
    <3>2. ASSUME NEW g \in slot'.sources
          PROVE  /\ slot'.album # g
                 /\ ~slot'.aborted /\ g \notin slot'.todo /\ slot'.result[g] = "landed" => Good(g)'
      <4>0. g \in slot.sources /\ g \in Folders /\ g # None
        BY <1>0, <2>1, <3>2 DEF LandedOrAside
      <4>1. ASSUME ~slot'.aborted, g \notin slot'.todo, slot'.result[g] = "landed"
            PROVE  Good(g)'
        <5>1. g # slot.album
          BY <2>1, <4>1
        <5>2. g \notin slot.todo /\ ~slot.aborted /\ slot.result[g] = "landed"
          BY <2>1, <4>0, <4>1, <5>1 DEF LandedOrAside
        <5>q. QED
          BY <1>r, <2>1, <2>2, <4>0, <5>1, <5>2 DEF RunInv
      <4>q. QED
        BY <2>1, <4>0, <4>1 DEF LandedOrAside
    <3>q. QED
      BY <3>1, <3>2 DEF RunInv
  <2>4. slot.phase # "done"
    BY <2>1 DEF Running
  <2>q. QED
    BY <1>1, <2>1, <2>3, <2>4 DEF LandedOrAside
<1>4. CASE RequestStop
  <2>1. /\ slot # None /\ slot'.stopped /\ WalkTouches
        /\ slot'.mine = slot.mine /\ slot'.sources = slot.sources
        /\ slot'.phase = slot.phase /\ slot'.result = slot.result
        /\ slot'.aborted = slot.aborted /\ slot'.todo = slot.todo
        /\ slot'.album = slot.album /\ slot'.got = slot.got
    BY <1>4, StopEffect
  <2>2. disk' = disk /\ \A g \in Folders : Good(g)' <=> Good(g)
    BY <2>1, GoodStays DEF WalkTouches, folderVars
  <2>3. RunInv'
    <3>1. Running' => Running
      BY <2>1 DEF Running
    <3>q. QED
      BY <1>0, <1>r, <2>1, <2>2, <3>1 DEF RunInv
  <2>q. QED
    BY <1>1, <2>1, <2>3
<1>5. CASE Abort
  <2>1. /\ slot # None /\ Running /\ slot.stopped /\ slot'.aborted /\ slot'.stopped /\ WalkTouches
        /\ slot'.mine = slot.mine /\ slot'.sources = slot.sources
        /\ slot'.phase = slot.phase /\ slot'.album = None
    BY <1>5, AbortEffect
  <2>2. RunInv'
    BY <1>0, <2>1 DEF RunInv
  <2>3. slot.phase # "done"
    BY <2>1 DEF Running
  <2>q. QED
    BY <1>1, <2>1, <2>2, <2>3
<1>6. CASE LandAlbum
  <2>0. PICK f : f = slot.album
    OBVIOUS
  <2>1. /\ LandDoes(f)
        /\ UNCHANGED <<moves, silent, ledger, hooks, queueVars, drain, recording, blocked>>
    BY <1>6, <2>0, LandEffect
  <2>2. /\ slot # None /\ Running /\ f \in slot.sources /\ f \in Folders
        /\ LandedOrAside(slot', slot, f)
        /\ slot'.result[f] = IF slot.result[f] = "aside" THEN "aside" ELSE "landed"
        /\ landed' = IF All /\ disk[f].drop = slot.got THEN landed \cup {f} ELSE landed
        /\ All <=> f \notin slot.todo /\ slot.result[f] # "aside"
    BY <2>0, <2>1 DEF LandDoes, All
  <2>3. ledger' = ledger /\ recording' = recording /\ drain' = drain /\ silent' = silent
    BY <2>1
  <2>4. \/ /\ clock' = clock + 1
           /\ disk' = [disk EXCEPT ![f] = MovedDisk(f)]
        \/ clock' = clock /\ disk' = disk
    BY <2>1 DEF LandDoes
  <2>5. MovedDisk(f).id = clock + 1 /\ MovedDisk(f).drop \in {0, disk[f].drop}
    BY DEF MovedDisk
  <2>6. clock \in Nat /\ \A g \in Folders : disk[g].id \in Nat
                                           /\ (ledger[g] # None => ledger[g].id \in Nat)
    BY DEF TypeOK, Disk, Row
  <2>7. \A g \in Folders : Good(g) => Good(g)'
    <3>1. \A g \in Folders : disk[g].drop = 0 => disk'[g].drop = 0
      BY <2>2, <2>4, <2>5 DEF TypeOK
    <3>q. QED
      BY <2>2, <2>3, <3>1 DEF Good
  <2>8. ClockInv' /\ LedgerInv'
    <3>1. CASE clock' = clock /\ disk' = disk
      BY <2>3, <2>7, <3>1 DEF ClockInv, LedgerInv, LandInv, Hidden, Seen
    <3>2. CASE clock' = clock + 1 /\ disk' = [disk EXCEPT ![f] = MovedDisk(f)]
      <4>1. \A g \in Folders : disk'[g] = IF g = f THEN MovedDisk(f) ELSE disk[g]
        BY <3>2 DEF TypeOK
      <4>2. ~Hidden(f)'
        <5>1. disk'[f].id = clock + 1
          BY <2>2, <2>5, <4>1
        <5>2. ledger'[f] # None => ledger'[f].id \in Nat /\ ledger'[f].id <= clock
          BY <2>2, <2>3, <2>6 DEF ClockInv, LandInv
        <5>q. QED
          BY <2>6, <5>1, <5>2 DEF Hidden, Seen
      <4>3. \A g \in Folders : g # f => (Hidden(g)' <=> Hidden(g))
        BY <2>3, <4>1 DEF Hidden, Seen
      <4>4. ClockInv'
        BY <2>3, <2>5, <2>6, <3>2, <4>1 DEF ClockInv, LandInv
      <4>5. ASSUME NEW g \in Folders, Hidden(g)' PROVE Good(g)'
        <5>1. g # f
          BY <4>2, <4>5
        <5>2. Hidden(g)
          BY <4>3, <4>5, <5>1
        <5>q. QED
          BY <2>7, <5>2 DEF LedgerInv, LandInv
      <4>q. QED
        BY <4>4, <4>5 DEF LedgerInv
    <3>q. QED
      BY <2>4, <3>1, <3>2
  <2>9. RecordInv'
    BY <1>r, <2>3, <2>7 DEF RecordInv, TypeOK
  <2>10. RunInv'
    <3>1. slot'.aborted => slot'.stopped
      BY <1>r, <2>2 DEF RunInv, LandedOrAside
    <3>2. ASSUME NEW g \in slot'.sources
          PROVE  /\ slot'.album # g
                 /\ ~slot'.aborted /\ g \notin slot'.todo /\ slot'.result[g] = "landed" => Good(g)'
      <4>0. g \in slot.sources /\ g \in Folders /\ g # None
        BY <1>0, <2>2, <3>2 DEF LandedOrAside
      <4>1. ASSUME ~slot'.aborted, g \notin slot'.todo, slot'.result[g] = "landed"
            PROVE  Good(g)'
        <5>0. g \notin slot.todo /\ ~slot.aborted
          BY <2>2, <4>1 DEF LandedOrAside
        <5>1. CASE g = f
          <6>1. All /\ slot.album = f
            BY <2>0, <2>2, <4>1, <5>0, <5>1
          <6>2. disk[f].drop = slot.got \/ Good(f)
            BY <1>r, <2>2, <6>1 DEF RunInv
          <6>3. disk[f].drop = slot.got => f \in landed'
            BY <2>2, <6>1
          <6>q. QED
            BY <2>2, <2>7, <5>1, <6>2, <6>3 DEF Good
        <5>2. CASE g # f
          <6>1. slot.result[g] = "landed" /\ slot.album # g
            BY <2>0, <2>2, <4>0, <4>1, <5>2 DEF LandedOrAside
          <6>q. QED
            BY <1>r, <2>2, <2>7, <4>0, <5>0, <6>1 DEF RunInv
        <5>q. QED
          BY <5>1, <5>2
      <4>q. QED
        BY <2>2, <4>0, <4>1 DEF LandedOrAside
    <3>q. QED
      BY <3>1, <3>2 DEF RunInv
  <2>11. DrainInv'
    <3>1. /\ Mine' => Mine
          /\ Running' => Running
          /\ slot'.phase = "running" /\ slot'.sources = slot.sources /\ slot'.aborted = slot.aborted
      BY <2>2 DEF LandedOrAside, Mine, Running
    <3>q. QED
      BY <1>h, <1>r, <2>2, <2>3, <2>7, <3>1 DEF DrainInv, Reading
  <2>q. QED
    BY <2>8, <2>9, <2>10, <2>11 DEF LandInv
<1>7. CASE FinishJob \/ FailJob
  <2>1. /\ UNCHANGED <<moves, folderVars, ledger, hooks, queueVars, drain, blocked>>
        /\ \/ /\ EndsAs("done") /\ recording' = recording \cup FullyLanded(slot)
              /\ slot.todo = {} /\ slot.album = None /\ FullyLanded(slot) \in SUBSET Folders
           \/ EndsAs("failed") /\ recording' = recording
    BY <1>7, EndEffect
  <2>2. /\ slot # None /\ Running /\ slot'.mine = slot.mine /\ slot'.phase \in {"done", "failed"}
        /\ slot.mine => /\ slot'.sources = slot.sources /\ slot'.result = slot.result
                        /\ slot'.aborted = slot.aborted /\ slot'.stopped = slot.stopped
        /\ ~slot.mine => ~slot'.aborted
    BY <2>1 DEF EndsAs
  <2>3. /\ ledger' = ledger /\ drain' = drain /\ ClockInv' /\ LedgerInv'
        /\ \A g \in Folders : Good(g)' <=> Good(g)
    BY <2>1, GoodStays DEF LandInv
  <2>4. ASSUME EndsAs("done"), slot.todo = {}, slot.album = None, ~slot.aborted,
               NEW g \in slot.sources, slot.result[g] = "landed"
        PROVE  Good(g)'
    BY <1>0, <1>r, <2>2, <2>3, <2>4 DEF RunInv
  <2>5. RecordInv'
    <3>1. CASE recording' = recording
      BY <1>r, <2>3, <3>1 DEF RecordInv, TypeOK
    <3>2. CASE EndsAs("done") /\ slot.todo = {} /\ slot.album = None
               /\ recording' = recording \cup FullyLanded(slot)
      <4>1. \A g \in FullyLanded(slot) : Good(g)'
        BY <2>4, <3>2 DEF FullyLanded
      <4>q. QED
        BY <1>r, <2>3, <3>2, <4>1 DEF RecordInv, TypeOK
    <3>q. QED
      BY <2>1, <3>1, <3>2
  <2>6. ~Running'
    BY <2>2 DEF Running
  <2>7. RunInv'
    BY <1>r, <2>2, <2>6 DEF RunInv
  <2>8. DrainInv'
    <3>1. /\ Mine' => Mine
          /\ Mine => slot.mine
      BY <2>2 DEF Mine
    <3>2. Reading' => Reading
      BY <2>3, <3>1 DEF Reading
    <3>3. Reading => /\ slot'.sources = {drain.f}
                     /\ drain.pc = "state" => (drain.aborted <=> slot'.aborted)
      BY <1>r, <2>2, <3>1 DEF DrainInv, Reading
    <3>4. ASSUME Reading, slot'.phase = "done", ~slot'.aborted, slot'.result[drain.f] = "landed"
          PROVE  Good(drain.f)'
      <4>1. slot.mine /\ slot.sources = {drain.f}
        BY <1>r, <3>1, <3>4 DEF DrainInv, Reading
      <4>2. EndsAs("done") /\ slot.todo = {} /\ slot.album = None
        BY <2>1, <3>4 DEF EndsAs
      <4>3. PICK g : g = drain.f
        OBVIOUS
      <4>4. g \in slot.sources /\ ~slot.aborted /\ slot.result[g] = "landed"
        BY <2>2, <2>3, <3>4, <4>1, <4>3
      <4>5. Good(g)'
        BY <2>4, <4>2, <4>4
      <4>q. QED
        BY <2>3, <4>3, <4>5 DEF Good
    <3>5. drain.pc = "mark" /\ drain.outcome = "imported" => Good(drain.f)'
      BY <1>h, <1>r, <2>3 DEF DrainInv
    <3>q. QED
      BY <1>r, <2>3, <2>6, <3>2, <3>3, <3>4, <3>5 DEF DrainInv
  <2>q. QED
    BY <2>3, <2>5, <2>7, <2>8 DEF LandInv
<1>q. QED
  BY <1>2, <1>3, <1>4, <1>5, <1>6, <1>7 DEF WorkerStep

\* Other imports, the recorder, a stop and a restart.
LEMMA OtherLands ==
  ASSUME TypeOK, HandsInv, LandInv,
         \/ Stop \/ Restart
         \/ \E sources \in SUBSET Folders : StartOther(sources)
         \/ \E f \in Folders : Record(f)
  PROVE  LandInv'
<1>h. drain.pc \notin {"get", "ended"} => drain.f \in Folders
  BY DEF HandsInv, TypeOK
<1>1. CASE Stop
  <2>1. UNCHANGED <<folderVars, ledger, recording, slot, drain>>
    BY <1>1 DEF Stop
  <2>q. QED
    BY <2>1, SameLands
<1>2. CASE Restart
  <2>1. /\ UNCHANGED folderVars /\ ledger' = ledger /\ slot' = None /\ recording' = {}
        /\ drain'.pc = "get"
    BY <1>2, IdleTypes DEF Restart
  <2>2. ClockInv' /\ LedgerInv'
    BY <2>1, GoodStays DEF LandInv
  <2>3. RecordInv' /\ RunInv' /\ DrainInv'
    BY <2>1 DEF RecordInv, RunInv, DrainInv, Reading
  <2>q. QED
    BY <2>2, <2>3 DEF LandInv
<1>3. ASSUME NEW sources \in SUBSET Folders, StartOther(sources) PROVE LandInv'
  <2>1. /\ UNCHANGED folderVars /\ ledger' = ledger /\ recording' = recording /\ drain' = drain
        /\ slot' = NewJob(FALSE, sources)
    BY <1>3 DEF StartOther
  <2>2. ClockInv' /\ LedgerInv' /\ \A f \in Folders : Good(f)' <=> Good(f)
    BY <2>1, GoodStays DEF LandInv
  <2>3. RecordInv'
    BY <2>1, <2>2 DEF RecordInv, LandInv, TypeOK
  <2>4. /\ slot'.sources = sources /\ slot'.mine = FALSE /\ slot'.aborted = FALSE
        /\ slot'.album = None /\ \A f \in sources : slot'.result[f] = "none"
    BY <2>1 DEF NewJob
  <2>5. RunInv'
    BY <2>4 DEF RunInv
  <2>6. DrainInv'
    BY <1>h, <2>1, <2>2, <2>4 DEF DrainInv, LandInv, Reading, Mine
  <2>q. QED
    BY <2>2, <2>3, <2>5, <2>6 DEF LandInv
<1>4. ASSUME NEW f \in Folders, Record(f) PROVE LandInv'
  <2>1. /\ UNCHANGED folderVars /\ slot' = slot /\ drain' = drain /\ f \in recording
        /\ recording' = recording \ {f}
        /\ \/ ledger' = [ledger EXCEPT ![f] = [id |-> disk[f].id, outcome |-> "imported"]]
           \/ ledger' = ledger
    BY <1>4 DEF Record, Mark
  <2>2. /\ disk' = disk /\ clock' = clock /\ \A g \in Folders : Good(g)' <=> Good(g)
        /\ Good(f)
    BY <2>1, GoodStays DEF folderVars, LandInv, RecordInv
  <2>3. RecordInv'
    BY <2>1, <2>2 DEF RecordInv, LandInv, TypeOK
  <2>4. ClockInv' /\ LedgerInv'
    <3>1. CASE ledger' = ledger
      BY <2>1, <3>1, GoodStays DEF LandInv
    <3>2. CASE ledger' = [ledger EXCEPT ![f] = [id |-> disk[f].id, outcome |-> "imported"]]
      BY <3>2, MarkedLands, <2>1, <2>2 DEF LandInv
    <3>q. QED
      BY <2>1, <3>1, <3>2
  <2>5. RunInv' /\ DrainInv'
    <3>1. Running' = Running /\ Reading' = Reading /\ Mine' = Mine
      BY <2>1 DEF Running, Reading, Mine
    <3>3. RunInv'
      BY <2>1, RunStays DEF LandInv
    <3>4. DrainInv'
      BY <1>h, <2>1, <2>2, <3>1 DEF DrainInv, LandInv, Reading
    <3>q. QED
      BY <3>3, <3>4
  <2>q. QED
    BY <2>3, <2>4, <2>5 DEF LandInv
<1>q. QED
  BY <1>1, <1>2, <1>3, <1>4

\* The drain judges a run by what has landed, and writes its verdict.
LEMMA DrainLands ==
  ASSUME TypeOK, HandsInv, LandInv, DrainStep
  PROVE  LandInv'
<1>h. drain.pc \notin {"get", "ended"} => drain.f \in Folders
  BY DEF HandsInv, TypeOK
<1>r. RunInv /\ DrainInv /\ RecordInv
  BY DEF LandInv
<1>1. ASSUME UNCHANGED <<folderVars, slot, recording, ledger>>, DrainInv' PROVE LandInv'
  <2>1. ClockInv' /\ LedgerInv' /\ \A f \in Folders : Good(f)' <=> Good(f)
    BY <1>1, GoodStays DEF LandInv
  <2>2. RecordInv'
    BY <1>1, <1>r, <2>1 DEF RecordInv, TypeOK
  <2>3. RunInv'
    BY <1>1, <1>r, <2>1, RunStays
  <2>q. QED
    BY <1>1, <2>1, <2>2, <2>3 DEF LandInv
<1>2. CASE PassGate \/ RefuseSource \/ SeeEnd \/ ReadAborted \/ ReadState
  <2>1. /\ DrainTouches /\ drain'.f = drain.f
        /\ \/ DrainGoes("gate", "start") \/ DrainGoes("start", "finish")
           \/ DrainGoes("wait", "classify") /\ Mine /\ ~Running
           \/ /\ drain.pc = "classify" /\ drain'.pc = "state"
              /\ drain'.aborted <=> Mine /\ slot.aborted
           \/ /\ drain.pc \in {"wait", "state"} /\ drain'.pc = "mark"
              /\ drain'.outcome \in Outcomes
              /\ drain.pc = "wait" => drain'.outcome = "failed"
              /\ drain.pc = "state" => drain'.outcome = Verdict(drain.f)
    BY <1>2, <1>r, WaitEffect
  <2>2. /\ slot' = slot /\ Mine' = Mine /\ Running' = Running
        /\ UNCHANGED <<folderVars, slot, recording, ledger>>
        /\ \A f \in Folders : Good(f)' <=> Good(f)
    BY <2>1, GoodStays DEF DrainTouches, Mine, Running
  <2>3. DrainInv'
    <3>1. CASE DrainGoes("gate", "start") \/ DrainGoes("start", "finish")
      BY <3>1 DEF DrainGoes, DrainInv, Reading
    <3>2. CASE DrainGoes("wait", "classify") /\ Mine /\ ~Running
      <4>1. Reading /\ drain'.pc = "classify" /\ drain.f \in Folders
        BY <1>h, <3>2 DEF DrainGoes, Reading
      <4>q. QED
        BY <1>r, <2>1, <2>2, <3>2, <4>1 DEF DrainInv, Reading
    <3>3. CASE /\ drain.pc = "classify" /\ drain'.pc = "state"
               /\ drain'.aborted <=> Mine /\ slot.aborted
      <4>1. Mine => Reading
        BY <3>3 DEF Reading
      <4>2. drain.f \in Folders
        BY <1>h, <3>3
      <4>q. QED
        BY <1>r, <2>1, <2>2, <3>3, <4>1, <4>2 DEF DrainInv, Reading
    <3>4. CASE /\ drain.pc \in {"wait", "state"} /\ drain'.pc = "mark"
               /\ drain'.outcome \in Outcomes
               /\ drain.pc = "wait" => drain'.outcome = "failed"
               /\ drain.pc = "state" => drain'.outcome = Verdict(drain.f)
      <4>1. drain.f \in Folders
        BY <1>h, <3>4 DEF TypeOK
      <4>2. ASSUME drain'.outcome = "imported" PROVE Good(drain.f)
        <5>1. /\ drain.pc = "state" /\ Mine /\ slot.phase = "done"
              /\ ~(slot.stopped /\ drain.aborted) /\ slot.result[drain.f] = "landed"
          BY <1>r, <3>4, <4>2, VerdictType
        <5>2. Reading /\ slot # None
          BY <5>1 DEF Reading, Mine
        <5>3. ~slot.aborted
          BY <1>r, <5>1, <5>2 DEF DrainInv, RunInv
        <5>q. QED
          BY <1>r, <5>1, <5>2, <5>3 DEF DrainInv
      <4>3. Mine => ~Running
        BY <1>r, <1>2, <3>4 DEF DrainInv, PassGate, RefuseSource, SeeEnd, ReadAborted, ReadState,
                                DrainAt
      <4>q. QED
        BY <2>1, <2>2, <3>4, <4>1, <4>2, <4>3 DEF DrainInv, Reading
    <3>q. QED
      BY <2>1, <3>1, <3>2, <3>3, <3>4
  <2>q. QED
    BY <1>1, <2>2, <2>3
<1>3. CASE TakeFolder \/ EndDrain \/ Defer \/ Requeue \/ Finish
  <2>1. /\ UNCHANGED <<folderVars, slot, recording, ledger>>
        /\ drain'.pc \in {"gate", "ended", "deferring", "get"}
    BY <1>3, HandEffect DEF DrainGoes
  <2>2. DrainInv'
    BY <2>1 DEF DrainInv, Reading
  <2>q. QED
    BY <1>1, <2>1, <2>2
<1>4. CASE StartDrained
  <2>1. /\ UNCHANGED folderVars /\ ledger' = ledger /\ recording' = recording
        /\ drain.pc = "start" /\ drain'.pc = "wait" /\ drain'.f = drain.f
        /\ slot' = NewJob(TRUE, {drain.f}) /\ {drain.f} \in SUBSET Folders
    BY <1>4, <1>h, HandEffect DEF StartDrained, DrainGoes
  <2>2. ClockInv' /\ LedgerInv' /\ \A f \in Folders : Good(f)' <=> Good(f)
    BY <2>1, GoodStays DEF LandInv
  <2>3. RecordInv'
    BY <1>r, <2>1, <2>2 DEF RecordInv, TypeOK
  <2>4. /\ slot'.sources = {drain.f} /\ slot'.aborted = FALSE /\ slot'.phase = "running"
        /\ slot'.album = None /\ \A f \in {drain.f} : slot'.result[f] = "none"
    BY <2>1 DEF NewJob
  <2>5. RunInv'
    BY <2>1, <2>4 DEF RunInv
  <2>6. DrainInv'
    BY <2>1, <2>4 DEF DrainInv, Reading
  <2>q. QED
    BY <2>2, <2>3, <2>5, <2>6 DEF LandInv
<1>5. CASE MarkHandled
  <2>1. /\ UNCHANGED folderVars /\ slot' = slot /\ recording' = recording
        /\ drain.pc = "mark" /\ drain'.pc = "finish" /\ drain.f \in Folders
        /\ \/ ledger' = [ledger EXCEPT ![drain.f] =
                             [id |-> disk[drain.f].id, outcome |-> drain.outcome]]
           \/ ledger' = ledger
    BY <1>5, <1>h, HandEffect DEF MarkHandled, Mark, DrainGoes
  <2>2. DrainInv'
    BY <2>1 DEF DrainInv, Reading
  <2>3. CASE ledger' = ledger
    BY <1>1, <2>1, <2>2, <2>3
  <2>4. CASE ledger' = [ledger EXCEPT ![drain.f] =
                            [id |-> disk[drain.f].id, outcome |-> drain.outcome]]
    <3>1. drain.outcome = "imported" => Good(drain.f)
      BY <1>r, <2>1 DEF DrainInv
    <3>2. ClockInv' /\ LedgerInv' /\ \A f \in Folders : Good(f)' <=> Good(f)
      BY <2>1, <2>4, <3>1, GoodStays, MarkedLands DEF LandInv
    <3>3. RecordInv'
      BY <1>r, <2>1, <3>2 DEF RecordInv, TypeOK
    <3>4. RunInv'
      BY <1>r, <2>1, RunStays
    <3>q. QED
      BY <2>2, <3>2, <3>3, <3>4 DEF LandInv
  <2>q. QED
    BY <2>1, <2>3, <2>4
<1>q. QED
  BY <1>2, <1>3, <1>4, <1>5 DEF DrainStep

-----------------------------------------------------------------------------
(* The invariant, and what it promises.                                    *)

\* The inbox begins so.
LEMMA InitInv == Init => IInv
<1> SUFFICES ASSUME Init PROVE IInv
  OBVIOUS
<1>1. TypeOK
  <2>1. HookIdle \in Hooked /\ DrainIdle \in Drain
        /\ StatusIdle \in [phase : {"idle", "running"}, current : Folders \cup {None}]
    BY IdleTypes
  <2>2. [id |-> 1, drop |-> 1] \in Disk
    BY DEF Disk
  <2>3. /\ disk \in [Folders -> Disk] /\ hooks \in [Hooks -> Hooked] /\ drain \in Drain
        /\ queue \in Seq(Folders \cup {None})
        /\ ledger \in [Folders -> Row \cup {None}]
        /\ status \in [phase : {"idle", "running"}, current : Folders \cup {None}]
    BY <2>1, <2>2 DEF Init
  <2>q. QED
    BY <2>3 DEF Init, TypeOK
<1>2. /\ InDrain = {} /\ Admitted = {} /\ Hooking = {} /\ ToSet(queue) = {} /\ IsInjective(queue)
      /\ drain.pc = "get"
  BY DEF Init, InDrain, Admitted, Hooking, ToSet, IsInjective, DrainIdle, HookIdle
<1>3. HandsInv /\ PlacesInv /\ StatusInv
  BY <1>2 DEF Init, HandsInv, PlacesInv, StatusInv, HookIdle, StatusIdle
<1>4. LandInv
  BY <1>2 DEF Init, LandInv, ClockInv, LedgerInv, RecordInv, RunInv, DrainInv, Reading, Hidden, Seen
<1>q. QED
  BY <1>1, <1>3, <1>4 DEF IInv, LandInv

\* No step of anybody leaves it.
LEMMA NextInv == IInv /\ [Next]_vars => IInv'
<1> SUFFICES ASSUME IInv, [Next]_vars PROVE IInv'
  OBVIOUS
<1>i. TypeOK /\ HandsInv /\ PlacesInv /\ StatusInv /\ LandInv /\ DrainInv
  BY DEF IInv, LandInv
<1>1. CASE FolderStep \/ Blocks
  <2>1. TypeOK'
    BY <1>i, <1>1, FolderTypes
  <2>2. HandsInv' /\ PlacesInv' /\ StatusInv'
    BY <1>i, <1>1, OtherPlaces
  <2>3. LandInv'
    BY <1>i, <1>1, <2>1, FolderLands
  <2>q. QED
    BY <2>1, <2>2, <2>3 DEF IInv, LandInv
<1>2. ASSUME NEW w \in Hooks, HookStep(w) PROVE IInv'
  <2>1. TypeOK'
    BY <1>i, <1>2, HookTypes DEF HandsInv
  <2>2. HandsInv' /\ PlacesInv' /\ StatusInv'
    BY <1>i, <1>2, HookPlaces
  <2>3. UNCHANGED <<folderVars, ledger, recording, slot, drain>>
    BY <1>2 DEF HookStep, HookArrives, Admit, Put
  <2>4. LandInv'
    BY <1>i, <2>3, SameLands
  <2>q. QED
    BY <2>1, <2>2, <2>4 DEF IInv, LandInv
<1>3. CASE WorkerStep \/ RequestStop
  <2>1. TypeOK'
    BY <1>i, <1>3, WorkerTypes
  <2>2. HandsInv' /\ PlacesInv' /\ StatusInv'
    BY <1>i, <1>3, OtherPlaces
  <2>3. LandInv'
    BY <1>i, <1>3, WorkerLands
  <2>q. QED
    BY <2>1, <2>2, <2>3 DEF IInv, LandInv
<1>4. CASE \/ Stop \/ Restart
           \/ \E sources \in SUBSET Folders : StartOther(sources)
           \/ \E f \in Folders : Record(f)
  <2>1. TypeOK'
    BY <1>i, <1>4, OtherTypes
  <2>2. HandsInv' /\ PlacesInv' /\ StatusInv'
    BY <1>i, <1>4, OtherPlaces
  <2>3. LandInv'
    BY <1>i, <1>4, OtherLands
  <2>q. QED
    BY <2>1, <2>2, <2>3 DEF IInv, LandInv
<1>5. CASE DrainStep
  <2>1. TypeOK'
    BY <1>i, <1>5, DrainTypes
  <2>2. HandsInv' /\ PlacesInv' /\ StatusInv'
    BY <1>i, <1>5, DrainPlaces
  <2>3. LandInv'
    BY <1>i, <1>5, DrainLands
  <2>q. QED
    BY <2>1, <2>2, <2>3 DEF IInv, LandInv
<1>6. CASE UNCHANGED vars
  <2>1. /\ UNCHANGED <<moves, folderVars, ledger, hooks, queueVars, drain, slot, recording, blocked>>
    BY <1>6 DEF vars
  <2>2. TypeOK'
    BY <1>i, <2>1 DEF TypeOK, IsJob, folderVars, history, queueVars
  <2>3. HandsInv' /\ PlacesInv' /\ StatusInv'
    BY <1>i, <1>6, OtherPlaces
  <2>4. LandInv'
    BY <1>i, <2>1, SameLands
  <2>q. QED
    BY <2>2, <2>3, <2>4 DEF IInv, LandInv
<1>q. QED
  BY <1>1, <1>2, <1>3, <1>4, <1>5, <1>6 DEF Next

\* Two sets without a common member count separately.
LEMMA DisjointCount ==
  ASSUME NEW S, NEW T, IsFiniteSet(S), IsFiniteSet(T), S \cap T = {}
  PROVE  /\ IsFiniteSet(S \cup T) /\ Cardinality(S) \in Nat /\ Cardinality(T) \in Nat
         /\ Cardinality(S \cup T) = Cardinality(S) + Cardinality(T)
<1>1. Cardinality(S) \in Nat /\ Cardinality(T) \in Nat
  BY FS_CardinalityType
<1>2. /\ IsFiniteSet(S \cup T)
      /\ Cardinality(S \cup T) = Cardinality(S) + Cardinality(T) - Cardinality(S \cap T)
  BY FS_Union
<1>3. Cardinality(S \cap T) = 0
  BY FS_EmptySet
<1>q. QED
  BY <1>1, <1>2, <1>3

\* What is on its way is counted once.
LEMMA PlacesAreCounted ==
  ASSUME TypeOK, PlacesInv, ~stopping
  PROVE  Cardinality(dedupe) = Len(queue) + Cardinality(InDrain) + Cardinality(Admitted)
<1>1. /\ dedupe = (ToSet(queue) \cup InDrain) \cup Hooking
      /\ IsInjective(queue) /\ queue \in Seq(Folders \cup {None})
      /\ ToSet(queue) \cap InDrain = {} /\ (ToSet(queue) \cup InDrain) \cap Hooking = {}
      /\ \A w, v \in Admitted : hooks[w].f = hooks[v].f => w = v
  BY DEF PlacesInv, TypeOK
<1>2. IsFiniteSet(ToSet(queue)) /\ Cardinality(ToSet(queue)) = Len(queue) /\ Len(queue) \in Nat
  BY <1>1, QueueLength
<1>3. IsFiniteSet(InDrain) /\ Cardinality(InDrain) \in Nat
  <2>1. InDrain = {} \/ \E f : InDrain = {f}
    BY DEF InDrain
  <2>q. QED
    BY <2>1, FS_EmptySet, FS_Singleton, FS_CardinalityType
<1>4. IsFiniteSet(Admitted)
  <2>1. Admitted \in SUBSET Hooks
    BY DEF Admitted
  <2>q. QED
    BY <2>1, HooksAssumption, FS_Subset
<1>5. IsFiniteSet(Hooking) /\ Cardinality(Hooking) = Cardinality(Admitted)
  <2> DEFINE hand == [w \in Admitted |-> hooks[w].f]
  <2>1. hand \in Bijection(Admitted, Hooking)
    <3>1. hand \in [Admitted -> Hooking]
      BY DEF Hooking
    <3>2. IsInjective(hand)
      BY <1>1 DEF IsInjective
    <3>3. \A f \in Hooking : \E w \in Admitted : hand[w] = f
      BY DEF Hooking
    <3>q. QED
      BY <3>1, <3>2, <3>3 DEF Bijection, Injection, Surjection
  <2>2. ExistsBijection(Admitted, Hooking)
    BY <2>1 DEF ExistsBijection
  <2>q. QED
    BY <1>4, <2>2, FS_Bijection
<1>6. /\ IsFiniteSet(ToSet(queue) \cup InDrain)
      /\ Cardinality(ToSet(queue) \cup InDrain) = Len(queue) + Cardinality(InDrain)
  BY <1>1, <1>2, <1>3, DisjointCount
<1>7. Cardinality((ToSet(queue) \cup InDrain) \cup Hooking)
        = Len(queue) + Cardinality(InDrain) + Cardinality(Hooking)
  <2>1. PICK S : S = ToSet(queue) \cup InDrain
    OBVIOUS
  <2>2. IsFiniteSet(S) /\ S \cap Hooking = {}
    BY <1>1, <1>6, <2>1
  <2>3. Cardinality(S \cup Hooking) = Cardinality(S) + Cardinality(Hooking)
    BY <1>5, <2>2, DisjointCount
  <2>q. QED
    BY <1>6, <2>1, <2>3
<1>q. QED
  BY <1>1, <1>5, <1>7

\* What the invariant says of the inbox.
LEMMA InvPromises == IInv => WorkIsTrue /\ QuietHiddenIsImported
<1> SUFFICES ASSUME IInv PROVE WorkIsTrue /\ QuietHiddenIsImported
  OBVIOUS
<1>1. DedupeIsWork
  <2>1. ~stopping => dedupe = ToSet(queue) \cup InDrain \cup {hooks[w].f : w \in Admitted}
    BY DEF IInv, PlacesInv, Hooking
  <2>q. QED
    BY <2>1, PlacesAreCounted DEF IInv, DedupeIsWork
<1>2. StatusIsTrue
  BY DEF IInv, StatusInv, StatusIsTrue
<1>3. QuietHiddenIsImported
  BY DEF IInv, LedgerInv, QuietHiddenIsImported, Good
<1>q. QED
  BY <1>1, <1>2, <1>3 DEF WorkIsTrue

\* No reachable state of the inbox breaks the invariant.
THEOREM Invariant == Spec => []IInv
<1>1. Init => IInv
  BY InitInv
<1>2. IInv /\ [Next]_vars => IInv'
  BY NextInv
<1>q. QED
  BY <1>1, <1>2, PTL DEF Spec

\* The dedupe set of the inbox queue holds exactly the folders on their way,
\* each in one place, and the status names the folder the drain has in hand.
THEOREM WorkStaysTrue == Spec => []WorkIsTrue
<1>1. IInv => WorkIsTrue
  BY InvPromises
<1>q. QED
  BY <1>1, Invariant, PTL

\* A folder "Not imported yet" leaves out is in the library, or changed where
\* the directory's identity cannot tell.
THEOREM HiddenIsInTheLibrary == Spec => []QuietHiddenIsImported
<1>1. IInv => QuietHiddenIsImported
  BY InvPromises
<1>q. QED
  BY <1>1, Invariant, PTL
=============================================================================
