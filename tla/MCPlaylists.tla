---------------------------- MODULE MCPlaylists ----------------------------
(***************************************************************************)
(* Two playlists, one of them synced before or not, on the owner's account *)
(* and one user's, with two covers of one format.                          *)
(***************************************************************************)
EXTENDS Playlists, TLC

MCFormatOf == [im \in Images |-> "jpg"]
Alike == Permutations(Ids) \union Permutations(Images) \union Permutations(Requests)
=============================================================================
