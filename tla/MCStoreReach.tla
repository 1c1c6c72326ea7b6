---- MODULE MCStoreReach ----
(* A small disk for StoreReach: the music share m, the beets directory b, a
   spare directory y, and x, which is a directory or a link. *)
EXTENDS StoreReach

M == <<"m">>
B == <<"b">>
X == <<"x">>
Y == <<"y">>
MCPlaces ==
  {M, <<"m", "a">>, <<"m", "a", "t">>, <<"m", "a", "t", "e">>, <<"m", "a", "o">>,
   <<"m", "t">>, <<"m", "t", "e">>,
   B, <<"b", "t">>, <<"b", "t", "e">>, <<"b", "o">>, <<"b", "i">>, <<"b", "i", "e">>,
   Y, <<"y", "d">>, X, <<"x", "t">>, <<"x", "t", "e">>, <<"x", "o">>}

MCTexts ==
  {[music |-> M, library |-> B], [music |-> M, library |-> <<"x", "t", "e">>],
   [music |-> Y, library |-> B], [music |-> Y, library |-> <<"y", "d">>],
   [music |-> <<"b", "i">>, library |-> B]}

\* x/t/e may be a bind mount of the share.
MCEnvs ==
  [trash : {<<"b", "t">>, <<"m", "t">>, <<"x", "t">>, X},
   origins : {<<"b", "o">>, <<"x", "o">>, <<"b", "t", "e">>},
   inbox : {<<"b", "i">>, <<"x", "t", "e">>},
   binds : {<<>>, <<"x", "t", "e">> :> M}]

\* The Trash is inside the library, and nothing else varies.
MCInsideTexts == {[music |-> M, library |-> B]}
MCInsideEnvs ==
  {[trash |-> <<"m", "t">>, origins |-> <<"b", "o">>, inbox |-> <<"b", "i">>, binds |-> <<>>]}

MCTargets == {M, B, Y, <<"m", "a">>}
MCSources == {X, Y, <<"b", "i">>, <<"b", "i", "e">>, <<"m", "a">>, <<"b", "o">>, B}
====
