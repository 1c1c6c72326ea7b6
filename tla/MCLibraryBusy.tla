---- MODULE MCLibraryBusy ----
(* Small instances of LibraryBusy for TLC. *)
EXTENDS LibraryBusy, TLC

CONSTANTS r1, r2, r3, r4, h1, h2, h3

\* An import, an album reorganize and two artist-art sweeps.
MCJobOf == r1 :> "import" @@ r2 :> "reorganize" @@ r3 :> "artist_art" @@ r4 :> "artist_art"
MCCaptureAt == r1 :> "before_claim" @@ r2 :> "before_gate" @@ r3 :> "after_claim"
                 @@ r4 :> "after_claim"

\* A settings Apply, a mutation and the artist-image reset.
MCKind == h1 :> "apply" @@ h2 :> "mutation" @@ h3 :> "reset"
====
