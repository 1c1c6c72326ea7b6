---- MODULE MCBank ----
(* Small instances of Bank for TLC. *)
EXTENDS Bank

CONSTANTS f1, f2, q1
====
