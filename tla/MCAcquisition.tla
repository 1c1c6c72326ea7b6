---- MODULE MCAcquisition ----
(* Small instances of Acquisition for TLC. *)
EXTENDS Acquisition, TLC

CONSTANTS f1, w1, w2

\* The webhooks are alike.
Alike == Permutations(Hooks)
====
