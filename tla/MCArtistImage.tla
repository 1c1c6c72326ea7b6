--------------------------- MODULE MCArtistImage ---------------------------
(* Two artists and two pages.                                              *)
EXTENDS ArtistImage, TLC
Alike == Permutations(Keys)
=============================================================================
