---- MODULE MCTrash ----
(* A small instance of Trash for TLC: one album of two tracks, one of one. *)
EXTENDS Trash, TLC

CONSTANTS a1, a2, t1, t2, t3, n1, n2, k1, h, i

MCAlbumOf == [t \in Tracks |-> IF t = t3 THEN a2 ELSE a1]

\* The names are long and share a record.
MCKeyOf == [n \in Names |-> k1]

\* The tracks of the first album are alike, and so are the two names.
Alike == Permutations({t1, t2}) \cup Permutations({n1, n2})
====
