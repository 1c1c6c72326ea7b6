-------------------------- MODULE ImportRendezvous --------------------------
(***************************************************************************)
(* What an import promises about a question it puts to a person: it is     *)
(* answered once, by a decision or by a stop, the run goes on with that    *)
(* answer, and once the run is stopped no question is asked or left open.  *)
(***************************************************************************)
CONSTANTS Decisions,   \* what a person can answer
          StopAnswer   \* what a stop answers

VARIABLES question,    \* "none", "open", or the answer that ended it
          stopping

vars == <<question, stopping>>

Answers == Decisions \cup {StopAnswer}

Init == question = "none" /\ stopping = FALSE

Ask ==
  /\ question = "none"
  /\ ~stopping
  /\ question' = "open"
  /\ UNCHANGED stopping

Decide(d) ==
  /\ question = "open"
  /\ ~stopping
  /\ question' = d
  /\ UNCHANGED stopping

Stop ==
  /\ stopping' = TRUE
  /\ question' = IF question = "open" THEN StopAnswer ELSE question

GoOn ==
  /\ question \in Answers
  /\ question' = "none"
  /\ UNCHANGED stopping

Next == Ask \/ Stop \/ GoOn \/ \E d \in Decisions : Decide(d)

Spec == Init /\ [][Next]_vars

=============================================================================
