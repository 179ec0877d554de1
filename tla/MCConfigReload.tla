---------------------------- MODULE MCConfigReload ----------------------------
(***************************************************************************)
(* A manifest with a map that holds a secret and a plain field, and a      *)
(* scalar that may be secret; overrides that touch one field of the map,   *)
(* replace the map by a scalar, the scalar by a map, and clear everything. *)
(***************************************************************************)
EXTENDS ConfigReload, TLC

CONSTANTS C1, C2, Bad, P1, P2, V1, V2

MCName == {"api", "depth", "lists"}
MCSub == {"key", "url", "tld"}
MCScalar == {C1, C2, Bad, P1, P2, V1, V2}
MCPlain == C1 :> P1 @@ C2 :> P2
MCSecrets == {<<"api", "key">>, <<"depth">>}
MCListName == {"tld"}

MCShipped == [api |-> [key |-> C1, url |-> V1], depth |-> V1]

MCOverride == {
    NoOverride,
    [api |-> [key |-> C2]],
    [api |-> [url |-> V2], depth |-> Bad],
    [api |-> V2, depth |-> [url |-> V2]]}
=============================================================================
