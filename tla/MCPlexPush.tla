----------------------------- MODULE MCPlexPush -----------------------------
(***************************************************************************)
(* Two families of pushes.  Guesses: two Plex tracks whose artist, album,  *)
(* number and length vary, and up to three entries of two library tracks   *)
(* that compete for them.  Orders: tracks matched by their paths, and any  *)
(* rows the playlist may hold beforehand, strangers and repeats included.  *)
(***************************************************************************)
EXTENDS PlexPush

CONSTANTS MaxEntries, MaxRows

\* Two contradicting artists, and one written in another script.
MCStrangers == {<<"abba", "blur">>, <<"blur", "abba">>}

Track(k, artist, album, no, length) ==
    [key |-> k, locations |-> {k}, title |-> "t", artist |-> artist,
     album |-> album, no |-> no, length |-> length]

Sections ==
    {<<Track(1, a1, b1, n1, l1), Track(2, a2, b2, 1, l2)>> :
        a1 \in {"abba", "kana"}, b1 \in {"x", "y"}, n1 \in {1, 2}, l1 \in {0, 100},
        a2 \in {"abba", "blur", "kana"}, b2 \in {"x", "y"}, l2 \in {102, 103}}

Spec1(item, path, length) ==
    [item |-> item, path |-> path, title |-> "t", artist |-> "abba", album |-> "x",
     no |-> 1, length |-> length]

Lists == {<<1>>, <<1, 2>>, <<2, 1>>, <<1, 2, 1>>, <<1, 1, 2>>}

Guesses ==
    {[section |-> s, exists |-> FALSE, rows |-> <<>>, honours |-> TRUE,
      specs |-> [i \in DOMAIN list |-> Spec1(list[i], path[list[i]], 100 * length)]] :
        s \in Sections, list \in Lists, path \in [1..2 -> {1, 2, 9}], length \in {0, 1}}

Plain == [k \in 1..3 |-> Track(k, "abba", "x", k, 100)]

Orders ==
    {[section |-> Plain, exists |-> e, honours |-> h,
      rows |-> IF e THEN [i \in DOMAIN rs |-> [id |-> i, key |-> rs[i]]] ELSE <<>>,
      specs |-> [i \in DOMAIN list |-> [Spec1(list[i], list[i], 100) EXCEPT !.title = "u"]]] :
        e \in BOOLEAN, h \in BOOLEAN,
        rs \in BoundedSeq({1, 2, 3, 9}, MaxRows),
        list \in BoundedSeq({1, 2, 3, 4}, MaxEntries)}

MCInputs == Guesses \union Orders
=============================================================================
