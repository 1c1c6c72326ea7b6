--------------------------- MODULE ImportJobProofs ---------------------------
(***************************************************************************)
(* The rendezvous of ImportJob, for every set of modes and actions and     *)
(* every bound: the slot tells who waits, a stop reaches a blocked worker, *)
(* an apply is of the list the person was shown, and the park implements   *)
(* ImportRendezvous.                                                       *)
(*                                                                         *)
(* The argument: of all the steps only seven kinds touch the worker, its   *)
(* slot and the stop flag (Moves), and each is small; the feed is left     *)
(* out of the invariant altogether, for the worker never reads it.         *)
(***************************************************************************)
EXTENDS ImportJob, TLAPS

Pcs == {"choose", "matched", "parking", "parked", "woken", "relook", "resolve", "asking",
        "asked", "told", "act", "place", "expand", "ended", "raised"}
Held == {"parked", "asked", "woken", "told"}

\* The worker's list was never fetched after its latest park's revision.
WorkerInv(w) ==
  /\ w \in [pc : Pcs, i : Nat, rev : Nat, list : Nat, answer : Answers]
  /\ w.list <= w.rev
  /\ w.pc \in {"woken", "told"} => w.answer # None

\* A request that was drained, or is being drained, has a decision to push.
RequestInv ==
  /\ request \in [pc : {"idle", "draining", "drained"}, i : Nat, d : Decision \cup {None}]
  /\ request.pc # "idle" => request.d \in Decision
  /\ lock = "loop" => request.pc = "draining"

Inv ==
  /\ WorkerInv(worker) /\ next \in Nat
  /\ RequestInv
  /\ stop \in BOOLEAN /\ slot \in Slot \cup {None}
  /\ AwaitingIsTrue /\ StopReachesThePark

(***************************************************************************)
(* The kinds of steps.                                                     *)
(***************************************************************************)
Rests == UNCHANGED <<worker, slot, stop>>

Walks ==
  /\ worker.pc \notin Held /\ worker'.pc \notin Held
  /\ WorkerInv(worker')
  /\ UNCHANGED <<slot, stop>>

AsksAt(pc) ==
  /\ worker.pc \notin Held /\ ~stop
  /\ slot' = [answer |-> None, answered |-> FALSE]
  /\ worker' = [worker EXCEPT !.pc = pc]
  /\ UNCHANGED stop

Asks == AsksAt("parked") \/ AsksAt("asked")

Takes ==
  /\ worker.pc \in {"parked", "asked"} /\ slot.answer # None
  /\ \/ worker' = [worker EXCEPT !.pc = "woken", !.answer = slot.answer]
     \/ worker' = [worker EXCEPT !.pc = "told", !.answer = slot.answer]
  /\ slot' = [slot EXCEPT !.answer = None]
  /\ UNCHANGED stop

Releases ==
  /\ worker.pc \in {"woken", "told"} /\ worker'.pc \notin Held
  /\ WorkerInv(worker')
  /\ At("woken") /\ worker'.pc = "resolve"
     /\ worker.answer.act = "apply" /\ worker.answer.echo
       => worker.list <= worker.answer.rev
  /\ slot' = None
  /\ UNCHANGED stop

AnswersWith(d) ==
  /\ ~stop /\ slot # None /\ slot.answer = None
  /\ slot' = [answer |-> d, answered |-> TRUE]
  /\ UNCHANGED <<worker, stop>>

Stops ==
  /\ stop' = TRUE
  /\ slot' = IF slot # None /\ ~slot.answered
               THEN [answer |-> Stopped, answered |-> TRUE] ELSE slot
  /\ UNCHANGED worker

Moves == Rests \/ Walks \/ Asks \/ Takes \/ Releases \/ (\E d \in Decision : AnswersWith(d)) \/ Stops

\* The invariant holds in the initial states.
LEMMA InitInv == Init => Inv
<1> SUFFICES ASSUME Init PROVE Inv
  OBVIOUS
<1>1. WorkerInv(worker) /\ next \in Nat
  <2>1. worker = [pc |-> "choose", i |-> 0, rev |-> 0, list |-> 0, answer |-> None] /\ next = 0
    BY DEF Init, WorkerIdle
  <2> QED
    BY <2>1 DEF WorkerInv, Pcs, Answers
<1>2. RequestInv
  <2>1. request = [pc |-> "idle", i |-> 0, d |-> None] /\ lock = None
    BY DEF Init, RequestIdle
  <2> QED
    BY <2>1, NoneAssumption DEF RequestInv
<1>3. slot = None /\ stop = FALSE /\ worker.pc = "choose"
  BY DEF Init, WorkerIdle
<1> QED
  BY <1>1, <1>2, <1>3 DEF Inv, AwaitingIsTrue, StopReachesThePark, Blocked, Answering

\* A registered slot is told from none by what it is.
LEMMA SlotIsSome ==
  ASSUME NEW a \in Answers, NEW b \in BOOLEAN
  PROVE  [answer |-> a, answered |-> b] \in Slot /\ [answer |-> a, answered |-> b] # None
<1>1. [answer |-> a, answered |-> b] \in Slot
  BY DEF Slot
<1> QED
  BY <1>1, NoneAssumption

\* A step of the worker that is neither a park nor the way out of one.
LEMMA WalkingSteps ==
  ASSUME Inv,
         \/ StopLands \/ PipelineEnds \/ ChooseMatch
         \/ StrongMatch \/ NoCandidates \/ UncertainMatch \/ DirectiveChoice
         \/ NoDuplicate \/ FoundDuplicate
         \/ ActOnDuplicate \/ RefuseReplace \/ Land \/ SkipTracks \/ WorkerRaises
         \/ Relook
  PROVE  Walks /\ next' \in Nat /\ UNCHANGED <<request, lock>>
<1> USE DEF Inv, Walks, WorkerInv, Held, Pcs, At, To, Ends, workerVars, bridgeVars, requestVars
<1>1. CASE StopLands
  BY <1>1 DEF StopLands, Abort
<1>2. CASE PipelineEnds
  BY <1>2 DEF PipelineEnds
<1>3. CASE ChooseMatch
  <2>1. worker' = [pc |-> "matched", i |-> next, rev |-> 0, list |-> 0, answer |-> None]
    BY <1>3 DEF ChooseMatch, WorkerIdle
  <2>2. WorkerInv(worker')
    BY <2>1 DEF Answers
  <2> QED
    BY <1>3, <2>1, <2>2 DEF ChooseMatch
<1>4. CASE StrongMatch
  BY <1>4 DEF StrongMatch, Emits
<1>5. CASE NoCandidates
  BY <1>5 DEF NoCandidates, Emits
<1>6. CASE UncertainMatch
  BY <1>6 DEF UncertainMatch, Emits
<1>7. CASE DirectiveChoice
  BY <1>7 DEF DirectiveChoice, Emits
<1>8. CASE NoDuplicate
  BY <1>8 DEF NoDuplicate
<1>9. CASE FoundDuplicate
  <2>1. CASE stop
    BY <1>9, <2>1 DEF FoundDuplicate, Abort
  <2>2. CASE ~stop /\ mode \in DupActions
    <3>1. [act |-> mode, rev |-> 0, echo |-> FALSE] \in Answers
      BY <2>2, BoundsAssumption DEF Answers, Decision, Revisions
    <3> QED
      BY <1>9, <2>2, <3>1 DEF FoundDuplicate
  <2>3. CASE ~stop /\ mode \notin DupActions
    BY <1>9, <2>3 DEF FoundDuplicate
  <2> QED
    BY <2>1, <2>2, <2>3
<1>10. CASE ActOnDuplicate
  BY <1>10 DEF ActOnDuplicate
<1>11. CASE RefuseReplace
  BY <1>11 DEF RefuseReplace
<1>12. CASE Land
  BY <1>12 DEF Land
<1>13. CASE SkipTracks
  BY <1>13 DEF SkipTracks
<1>14. CASE WorkerRaises
  BY <1>14 DEF WorkerRaises
<1>15. CASE Relook
  <2>1. PICK found \in BOOLEAN :
          worker' = [worker EXCEPT !.pc = "parking", !.rev = @ + 1,
                                   !.list = IF found THEN worker.rev + 1 ELSE @]
    BY <1>15 DEF Relook
  <2>2. worker.pc = "relook" /\ UNCHANGED <<slot, stop, next, request, lock>>
    BY <1>15 DEF Relook
  <2> DEFINE list == IF found THEN worker.rev + 1 ELSE worker.list
  <2>3. list \in Nat /\ list <= worker.rev + 1
    OBVIOUS
  <2>4. worker' = [pc |-> "parking", i |-> worker.i, rev |-> worker.rev + 1, list |-> list,
                   answer |-> worker.answer]
    BY <2>1
  <2> HIDE DEF list
  <2>5. WorkerInv(worker')
    BY <2>3, <2>4
  <2> QED
    BY <2>2, <2>4, <2>5
<1> QED
  BY <1>1, <1>2, <1>3, <1>4, <1>5, <1>6, <1>7, <1>8, <1>9, <1>10, <1>11, <1>12, <1>13,
     <1>14, <1>15

\* A park, refused under a stop, and the way out of it.
LEMMA ParkingSteps ==
  ASSUME Inv,
         \/ Park \/ ParkDuplicate \/ TakeReply
         \/ ReleaseStopped \/ ReleaseAnswered \/ ReleaseDuplicate
  PROVE  (Walks \/ Asks \/ Takes \/ Releases) /\ next' \in Nat /\ UNCHANGED <<request, lock>>
<1> USE DEF Inv, Held, At, To, requestVars
<1>1. CASE Park
  <2>1. CASE stop
    BY <1>1, <2>1 DEF Park, Abort, Walks, WorkerInv, Pcs
  <2>2. CASE ~stop
    BY <1>1, <2>2 DEF Park, Asks, AsksAt
  <2> QED
    BY <2>1, <2>2
<1>2. CASE ParkDuplicate
  <2>1. CASE stop
    BY <1>2, <2>1 DEF ParkDuplicate, Abort, Walks, WorkerInv, Pcs
  <2>2. CASE ~stop
    BY <1>2, <2>2 DEF ParkDuplicate, Asks, AsksAt
  <2> QED
    BY <2>1, <2>2
<1>3. CASE TakeReply
  BY <1>3 DEF TakeReply, Takes
<1>4. CASE ReleaseStopped
  BY <1>4 DEF ReleaseStopped, Releases, WorkerInv, Pcs
<1>5. CASE ReleaseAnswered
  <2>1. PICK outOfRange \in {FALSE, worker.list > worker.answer.rev} :
          LET act == worker.answer.act
              stale == IsStaleApply(outOfRange)
          IN  \/ (act \in {"search", "rescan"} \/ stale) /\ To("relook") /\ UNCHANGED <<inWindow, fate>>
              \/ act \in {"apply", "asis"} /\ ~stale /\ To("resolve") /\ UNCHANGED <<inWindow, fate>>
              \/ act = "astracks" /\ To("expand") /\ inWindow' = TRUE /\ UNCHANGED fate
              \/ act = "skip" /\ Ends("skipped") /\ UNCHANGED inWindow
    BY <1>5 DEF ReleaseAnswered
  <2>2. \E pc \in {"relook", "resolve", "expand", "choose"} : worker' = [worker EXCEPT !.pc = pc]
    BY <2>1 DEF Ends
  <2>3. worker'.pc \notin Held /\ WorkerInv(worker')
    BY <2>2 DEF WorkerInv, Pcs
  <2>4. ASSUME worker'.pc = "resolve", worker.answer.act = "apply", worker.answer.echo
        PROVE  worker.list <= worker.answer.rev
    <3>1. ~IsStaleApply(outOfRange)
      BY <2>1, <2>4 DEF Ends, WorkerInv
    <3>2. worker.answer.rev = worker.rev
      BY <3>1, <2>4 DEF IsStaleApply
    <3> QED
      BY <3>2 DEF WorkerInv
  <2> QED
    BY <1>5, <2>3, <2>4 DEF ReleaseAnswered, Releases
<1>6. CASE ReleaseDuplicate
  BY <1>6 DEF ReleaseDuplicate, Releases, WorkerInv, Pcs
<1> QED
  BY <1>1, <1>2, <1>3, <1>4, <1>5, <1>6

\* What a drain and the end of the job leave alone.
LEMMA FeedSteps ==
  ASSUME Inv, FinishJob \/ FailJob \/ PollOutcomes \/ PollParks
  PROVE  Rests /\ next' \in Nat /\ RequestInv'
<1> USE DEF Inv, Rests, RequestInv, workerVars, bridgeVars, requestVars
<1>1. CASE FinishJob
  BY <1>1 DEF FinishJob
<1>2. CASE FailJob
  BY <1>2 DEF FailJob
<1>3. CASE PollOutcomes
  BY <1>3 DEF PollOutcomes, DrainOutcomes
<1>4. CASE PollParks
  BY <1>4, NoneAssumption DEF PollParks, DrainParks
<1> QED
  BY <1>1, <1>2, <1>3, <1>4

\* A request's drain, in its two halves.
LEMMA SubmitSteps ==
  ASSUME Inv,
         \/ \E i \in Indexes, act \in Actions, rev \in Revisions, echo \in BOOLEAN :
              SubmitChoice(i, act, rev, echo)
         \/ \E i \in Indexes, act \in DupActions : SubmitDuplicate(i, act)
         \/ SubmitParks
  PROVE  Rests /\ next' \in Nat /\ RequestInv'
<1> USE DEF Inv, Rests, RequestInv, workerVars
<1>1. ASSUME NEW i \in Indexes, NEW d \in Decision, NEW question,
             question[2] = i, SubmitDrain(question, d)
      PROVE  Rests /\ next' \in Nat /\ RequestInv'
  BY <1>1, BoundsAssumption DEF SubmitDrain, DrainOutcomes, Indexes
<1>2. ASSUME NEW i \in Indexes, NEW act \in Actions, NEW rev \in Revisions,
             NEW echo \in BOOLEAN, SubmitChoice(i, act, rev, echo)
      PROVE  Rests /\ next' \in Nat /\ RequestInv'
  <2>1. [act |-> act, rev |-> rev, echo |-> echo] \in Decision
    BY ModesAssumption DEF Decision
  <2> QED
    BY <1>1, <1>2, <2>1 DEF SubmitChoice
<1>3. ASSUME NEW i \in Indexes, NEW act \in DupActions, SubmitDuplicate(i, act)
      PROVE  Rests /\ next' \in Nat /\ RequestInv'
  <2>1. [act |-> act, rev |-> 0, echo |-> FALSE] \in Decision
    BY BoundsAssumption DEF Decision, Revisions
  <2> QED
    BY <1>1, <1>3, <2>1 DEF SubmitDuplicate
<1>4. CASE SubmitParks
  BY <1>4, NoneAssumption DEF SubmitParks, DrainParks
<1> QED
  BY <1>2, <1>3, <1>4

\* A decision reaches the worker's slot or is refused; a stop reaches it.
LEMMA AnswerSteps ==
  ASSUME Inv, Push \/ RequestStop
  PROVE  /\ Rests \/ (\E d \in Decision : AnswersWith(d)) \/ Stops
         /\ next' \in Nat /\ RequestInv'
<1> USE DEF Inv, workerVars
<1>1. CASE Push
  <2>1. next' \in Nat /\ RequestInv'
    BY <1>1, NoneAssumption DEF Push, RequestInv, RequestIdle, Indexes
  <2>2. UNCHANGED <<worker, stop>> /\ request.d \in Decision
    BY <1>1 DEF Push, RequestInv
  <2>3. CASE Accepts(request.i, request.d)
    <3>1. slot' = [answer |-> request.d, answered |-> TRUE]
      BY <1>1, <2>3, Zenon DEF Push
    <3> QED
      BY <2>1, <2>2, <2>3, <3>1 DEF Accepts, AnswersWith
  <2>4. CASE ~Accepts(request.i, request.d)
    <3>1. slot' = slot
      BY <1>1, <2>4, Zenon DEF Push
    <3> QED
      BY <2>1, <2>2, <3>1 DEF Rests
  <2> QED
    BY <2>1, <2>3, <2>4
<1>2. CASE RequestStop
  BY <1>2 DEF RequestStop, Stops, RequestInv, requestVars
<1> QED
  BY <1>1, <1>2

\* Every step of the job is of one of the seven kinds.
LEMMA StepMoves ==
  ASSUME Inv, [Next]_vars
  PROVE  Moves /\ next' \in Nat /\ RequestInv'
<1>1. CASE UNCHANGED vars
  BY <1>1 DEF vars, workerVars, bridgeVars, requestVars, Inv, RequestInv, Moves, Rests
<1>2. CASE Works
  <2>1. Moves /\ next' \in Nat /\ UNCHANGED <<request, lock>>
    BY <1>2, WalkingSteps, ParkingSteps DEF Works, Moves
  <2>2. RequestInv'
    BY <2>1 DEF Inv, RequestInv
  <2> QED
    BY <2>1, <2>2
<1>3. CASE FinishJob \/ FailJob \/ PollOutcomes \/ PollParks
  BY <1>3, FeedSteps DEF Moves
<1>4. CASE \/ \E i \in Indexes, act \in Actions, rev \in Revisions, echo \in BOOLEAN :
                SubmitChoice(i, act, rev, echo)
           \/ \E i \in Indexes, act \in DupActions : SubmitDuplicate(i, act)
           \/ SubmitParks
  BY <1>4, SubmitSteps DEF Moves
<1>5. CASE Push \/ RequestStop
  BY <1>5, AnswerSteps DEF Moves
<1> QED
  BY <1>1, <1>2, <1>3, <1>4, <1>5 DEF Next

(***************************************************************************)
(* The invariant.                                                          *)
(***************************************************************************)
\* Each kind of step keeps the slot, the worker and the stop in agreement.
LEMMA MovesKeepInv ==
  ASSUME Inv, Moves, next' \in Nat, RequestInv'
  PROVE  Inv'
<1> USE DEF Inv, AwaitingIsTrue, StopReachesThePark, Blocked, Answering
<1>1. CASE Rests
  BY <1>1 DEF Rests, WorkerInv
<1>2. CASE Walks
  BY <1>2 DEF Walks, Held
<1>3. ASSUME NEW pc \in {"parked", "asked"}, AsksAt(pc)
      PROVE  Inv'
  <2>1. WorkerInv(worker') /\ worker'.pc = pc
    BY <1>3 DEF AsksAt, WorkerInv, Pcs
  <2>2. slot' \in Slot /\ slot' # None /\ slot'.answer = None /\ slot'.answered = FALSE
    <3>1. None \in Answers
      BY DEF Answers
    <3> QED
      BY <1>3, <3>1, SlotIsSome DEF AsksAt
  <2> QED
    BY <1>3, <2>1, <2>2 DEF AsksAt
<1>4. CASE Takes
  <2>1. slot \in Slot /\ slot.answered = TRUE /\ slot.answer \in Answers
    BY <1>4 DEF Takes, Slot
  <2>2. WorkerInv(worker') /\ worker'.pc \in {"woken", "told"}
    BY <1>4, <2>1 DEF Takes, WorkerInv, Pcs
  <2>3. slot' \in Slot /\ slot' # None /\ slot'.answer = None /\ slot'.answered = TRUE
    BY <1>4, <2>1, NoneAssumption DEF Takes, Slot, Answers
  <2> QED
    BY <1>4, <2>2, <2>3 DEF Takes
<1>5. CASE Releases
  BY <1>5 DEF Releases, Held
<1>6. ASSUME NEW d \in Decision, AnswersWith(d)
      PROVE  Inv'
  <2>1. slot' \in Slot /\ slot' # None /\ slot'.answer # None /\ slot'.answered = TRUE
    <3>1. d \in Answers /\ d # None
      BY NoneAssumption DEF Answers
    <3> QED
      BY <1>6, <3>1, SlotIsSome DEF AnswersWith
  <2> QED
    BY <1>6, <2>1 DEF AnswersWith, WorkerInv
<1>7. CASE Stops
  <2>1. CASE slot # None /\ ~slot.answered
    <3>1. slot' \in Slot /\ slot' # None /\ slot'.answer # None /\ slot'.answered = TRUE
      <4>1. Stopped \in Answers /\ Stopped # None
        BY NoneAssumption DEF Answers
      <4> QED
        BY <1>7, <2>1, <4>1, SlotIsSome DEF Stops
    <3> QED
      BY <1>7, <2>1, <3>1 DEF Stops, WorkerInv
  <2>2. CASE ~(slot # None /\ ~slot.answered)
    BY <1>7, <2>2 DEF Stops, WorkerInv
  <2> QED
    BY <2>1, <2>2
<1> QED
  BY <1>1, <1>2, <1>3, <1>4, <1>5, <1>6, <1>7 DEF Moves, Asks

\* The invariant holds of every run.
THEOREM Invariance == Spec => []Inv
<1>1. Inv /\ [Next]_vars => Inv'
  BY StepMoves, MovesKeepInv
<1> QED
  BY InitInv, <1>1, PTL DEF Spec

\* "Waiting for you" is said exactly while the worker waits.
THEOREM AwaitingIsTrueHolds == Spec => []AwaitingIsTrue
<1>1. Inv => AwaitingIsTrue
  BY DEF Inv
<1> QED
  BY Invariance, <1>1, PTL

\* A stop leaves no blocked worker without an answer.
THEOREM StopReachesTheParkHolds == Spec => []StopReachesThePark
<1>1. Inv => StopReachesThePark
  BY DEF Inv
<1> QED
  BY Invariance, <1>1, PTL

\* No release is taken from a list the person was not shown, of a client that
\* echoes the revision it shows.
THEOREM ApplyIsOfShownListHolds == Spec => ApplyIsOfShownList
<1>1. ASSUME Inv, [Next]_vars
      PROVE  At("woken") /\ worker'.pc = "resolve" /\ worker.answer.act = "apply" /\ worker.answer.echo
               => worker.list <= worker.answer.rev
  <2>1. Moves
    BY <1>1, StepMoves
  <2>2. CASE Releases
    BY <2>2 DEF Releases
  <2>3. CASE ~Releases
    BY <1>1, <2>1, <2>3 DEF Moves, Rests, Walks, Held, Asks, AsksAt, Takes, AnswersWith, Stops, At
  <2> QED
    BY <2>2, <2>3
<1> QED
  BY Invariance, <1>1, PTL DEF Spec, ApplyIsOfShownList

(***************************************************************************)
(* The refinement.                                                         *)
(***************************************************************************)
Given == ImportActions \cup DupActions

\* An answer is one of those ImportRendezvous knows.
LEMMA AnswersAreGiven ==
  ASSUME NEW a \in Answers, a # None
  PROVE  a.act \in Given \cup {"stop"} /\ a.act \notin {"open", "none"}
BY DEF Answers, Decision, Stopped, Given, ImportActions, DupActions

\* A decision is one of those ImportRendezvous knows.
LEMMA DecisionsAreGiven ==
  ASSUME NEW d \in Decision
  PROVE  d.act \in Given
BY DEF Decision, Given

\* The question the worker has put, as ImportRendezvous sees it.
Question == IF Blocked THEN IF slot.answer = None THEN "open" ELSE slot.answer.act
            ELSE IF Answering THEN worker.answer.act ELSE "none"

\* What ImportRendezvous' actions say of that state.
LEMMA Mapping ==
  /\ Rendezvous!Init <=> Question = "none" /\ stop = FALSE
  /\ Rendezvous!Ask <=> Question = "none" /\ ~stop /\ Question' = "open" /\ stop' = stop
  /\ \A d : Rendezvous!Decide(d) <=>
       Question = "open" /\ ~stop /\ Question' = d /\ stop' = stop
  /\ Rendezvous!Stop <=>
       stop' = TRUE /\ Question' = IF Question = "open" THEN "stop" ELSE Question
  /\ Rendezvous!GoOn <=>
       Question \in Given \cup {"stop"} /\ Question' = "none" /\ stop' = stop
  /\ UNCHANGED Rendezvous!vars <=> Question' = Question /\ stop' = stop
BY DEF Rendezvous!Init, Rendezvous!Ask, Rendezvous!Decide, Rendezvous!Stop, Rendezvous!GoOn,
       Rendezvous!Answers, Rendezvous!vars, Question, Given

\* Each kind of step is a step of ImportRendezvous or a stutter.
LEMMA MovesRefine ==
  ASSUME Inv, Moves
  PROVE  [Rendezvous!Next]_(Rendezvous!vars)
<1> USE DEF Inv, AwaitingIsTrue, Blocked, Answering
<1>1. CASE Rests
  <2>1. Question' = Question /\ stop' = stop
    BY <1>1 DEF Rests, Question
  <2> QED
    BY <2>1, Mapping
<1>2. CASE Walks
  <2>1. Question' = Question /\ stop' = stop
    BY <1>2 DEF Walks, Held, Question
  <2> QED
    BY <2>1, Mapping
<1>3. CASE Asks
  <2>1. Question = "none" /\ ~stop /\ stop' = stop
    BY <1>3 DEF Asks, AsksAt, Held, Question
  <2>2. Question' = "open"
    BY <1>3 DEF Asks, AsksAt, Question, WorkerInv
  <2>3. Rendezvous!Ask
    BY <2>1, <2>2, Mapping
  <2> QED
    BY <2>3 DEF Rendezvous!Next
<1>4. CASE Takes
  <2>1. worker'.pc \in {"woken", "told"} /\ worker'.answer = slot.answer
    BY <1>4 DEF Takes, WorkerInv
  <2>2. Question = slot.answer.act
    BY <1>4 DEF Takes, Question
  <2>3. Question' = Question /\ stop' = stop
    BY <1>4, <2>1, <2>2 DEF Takes, Question
  <2> QED
    BY <2>3, Mapping
<1>5. CASE Releases
  <2>1. worker.answer \in Answers /\ worker.answer # None
    BY <1>5 DEF Releases, WorkerInv
  <2>2. Question \in Given \cup {"stop"}
    BY <1>5, <2>1, AnswersAreGiven DEF Releases, Question
  <2>3. Question' = "none" /\ stop' = stop
    BY <1>5 DEF Releases, Held, Question
  <2>4. Rendezvous!GoOn
    BY <2>2, <2>3, Mapping
  <2> QED
    BY <2>4 DEF Rendezvous!Next
<1>6. ASSUME NEW d \in Decision, AnswersWith(d)
      PROVE  [Rendezvous!Next]_(Rendezvous!vars)
  <2>1. d # None /\ d.act \in Given
    BY DecisionsAreGiven, NoneAssumption
  <2>2. CASE Blocked
    <3>1. Question = "open" /\ ~stop /\ Question' = d.act /\ stop' = stop
      BY <1>6, <2>1, <2>2 DEF AnswersWith, Question
    <3>2. Rendezvous!Decide(d.act)
      BY <3>1, Mapping
    <3> QED
      BY <2>1, <3>2 DEF Rendezvous!Next, Given
  <2>3. CASE ~Blocked
    <3>1. Question' = Question /\ stop' = stop
      BY <1>6, <2>3 DEF AnswersWith, Question
    <3> QED
      BY <3>1, Mapping
  <2> QED
    BY <2>2, <2>3
<1>7. CASE Stops
  <2>1. CASE Blocked /\ ~slot.answered
    <3>1. Question = "open"
      BY <2>1 DEF Question
    <3>2. Question' = "stop" /\ stop' = TRUE
      <4>1. Stopped # None /\ Stopped.act = "stop"
        BY NoneAssumption DEF Stopped
      <4>2. slot' = [answer |-> Stopped, answered |-> TRUE] /\ worker' = worker /\ stop' = TRUE
        BY <1>7, <2>1 DEF Stops
      <4> QED
        BY <2>1, <4>1, <4>2 DEF Question
    <3>3. Rendezvous!Stop
      BY <3>1, <3>2, Mapping
    <3> QED
      BY <3>3 DEF Rendezvous!Next
  <2>2. CASE ~(Blocked /\ ~slot.answered)
    <3>1. Question # "open"
      <4>1. CASE Blocked
        <5>1. slot.answer \in Answers /\ slot.answer # None
          BY <2>2, <4>1 DEF Slot
        <5> QED
          BY <4>1, <5>1, AnswersAreGiven DEF Question
      <4>2. CASE ~Blocked /\ Answering
        <5>1. worker.answer \in Answers /\ worker.answer # None
          BY <4>2 DEF WorkerInv
        <5> QED
          BY <4>2, <5>1, AnswersAreGiven DEF Question
      <4>3. CASE ~Blocked /\ ~Answering
        BY <4>3 DEF Question
      <4> QED
        BY <4>1, <4>2, <4>3
    <3>2. Question' = Question /\ stop' = TRUE
      BY <1>7, <2>2 DEF Stops, Question
    <3>3. Rendezvous!Stop
      BY <3>1, <3>2, Mapping
    <3> QED
      BY <3>3 DEF Rendezvous!Next
  <2> QED
    BY <2>1, <2>2
<1> QED
  BY <1>1, <1>2, <1>3, <1>4, <1>5, <1>6, <1>7 DEF Moves

\* The park and its slot keep the promise: a question is answered once, by a
\* decision or a stop, and none is asked after a stop.
THEOREM KeepsRendezvousHolds == Spec => KeepsRendezvous
<1>1. Init => Rendezvous!Init
  BY Mapping DEF Init, WorkerIdle, Question, Blocked, Answering
<1>2. Inv /\ [Next]_vars => [Rendezvous!Next]_(Rendezvous!vars)
  BY StepMoves, MovesRefine
<1> QED
  BY Invariance, <1>1, <1>2, PTL DEF Spec, KeepsRendezvous, Rendezvous!Spec

=============================================================================
