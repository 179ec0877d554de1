---------------------------- MODULE MCCanonicalJson ----------------------------
(***************************************************************************)
(* Maps of up to two keys in both orders, over scalars, lists, maps, typed *)
(* maps, and the list of lists that spells out a map; a kind in two cases. *)
(***************************************************************************)
EXTENDS CanonicalJson

MCKeyText == <<"a", "b">>
MCKind == {<<"k">>, <<"k", "s">>, <<"K">>}
MCSeverity == {<<"s">>, <<"s", "s">>}
MCNormal == [t \in MCKind \cup MCSeverity |-> IF t = <<"K">> THEN <<"k">> ELSE t]

S(x) == <<"scalar", x>>
Atom == {S("1"), S("a")}
Map(t, V) ==
    {<<t, <<>>>>}
    \cup {<<t, <<<<k, v>>>>>> : k \in 1..2, v \in V}
    \cup {<<t, <<<<k, v>>, <<3 - k, w>>>>>> : k \in 1..2, v \in V, w \in V}

List == {<<"list", <<>>>>}
        \cup {<<"list", <<v, w>>>> : v \in Atom, w \in Atom}
        \cup {<<"list", <<<<"list", <<S("a"), v>>>>>>>> : v \in Atom}

MCData ==
    {Nil, <<"map", <<<<1, S("NaN")>>>>>>}
    \cup Map("map", Atom)
    \cup {<<"map", <<<<1, v>>>>>> : v \in List \cup Map("map", Atom) \cup Map("typed", Atom)}
    \cup {<<"map", <<<<1, v>>, <<2, w>>>>>> : v \in List, w \in Map("typed", {S("a")})}
    \cup {<<"map", <<<<2, w>>, <<1, v>>>>>> : v \in List, w \in Map("map", {S("a")})}
=============================================================================
