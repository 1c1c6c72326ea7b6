---------------------------- MODULE LibraryMutex ----------------------------
(***************************************************************************)
(* What the library lock promises, whatever it is built from: participants *)
(* enter and leave the library, and two that conflict are never inside     *)
(* together.  LibraryBusy is the implementation found in                   *)
(* app/library_busy.py, app/jobs/base.py and the swap-lock holders.        *)
(***************************************************************************)
CONSTANTS Participants,   \* library jobs and swap-lock holders
          Conflicts       \* pairs that must not be inside together

VARIABLE inside

Conflict(p, q) == <<p, q>> \in Conflicts \/ <<q, p>> \in Conflicts

Init == inside = {}

Enter(p) ==
  /\ p \notin inside
  /\ \A q \in inside : ~Conflict(p, q)
  /\ inside' = inside \cup {p}

Leave(p) ==
  /\ p \in inside
  /\ inside' = inside \ {p}

Next == \E p \in Participants : Enter(p) \/ Leave(p)

Spec == Init /\ [][Next]_inside

=============================================================================
