--------------------------- MODULE MCBrowseCache ---------------------------
(* One tab with two requests at once, an abandoned one and its successor,  *)
(* and two threads that change the library.                                *)
EXTENDS BrowseCache, TLC
Alike == Permutations(Requests) \union Permutations(Editors)
=============================================================================
