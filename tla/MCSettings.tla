---- MODULE MCSettings ----
(* A small disk for Settings: the music share, the beets directory, a spare
   directory that a link may stand for, and what is in them. *)
EXTENDS Settings

CONSTANTS r1, r2

M == <<"m">>
B == <<"b">>
X == <<"x">>
Y == <<"y">>
MCPlaces ==
  {M, <<"m", "a">>, <<"m", "t">>, <<"m", "t", "e">>,
   B, <<"b", "t">>, <<"b", "t", "e">>, <<"b", "o">>, <<"b", "i">>, <<"b", "i", "e">>,
   Y, X, <<"x", "t">>, <<"x", "t", "e">>, <<"x", "o">>}

MCTexts ==
  {[music |-> M, library |-> B, kind |-> "fine"],
   [music |-> Y, library |-> B, kind |-> "silent"],
   [music |-> M, library |-> <<"x", "t", "e">>, kind |-> "fine"],
   [music |-> M, library |-> B, kind |-> "rejected"],
   [music |-> M, library |-> B, kind |-> "unreadable"]}

Env(t, o, b) == [trash |-> t, origins |-> o, inbox |-> <<"b", "i">>, binds |-> b]
MCEnvs == {Env(<<"x", "t">>, <<"b", "o">>, <<>>)}

MCTargets == {M}

\* The tabs are alike.
Alike == Permutations(Tabs)
====
