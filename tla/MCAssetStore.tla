----------------------------- MODULE MCAssetStore -----------------------------
(***************************************************************************)
(* A small instance of AssetStore: two assets, two keys, and three values  *)
(* of which two (an empty object and an empty list) share a canonical      *)
(* form.  Values and Canon are those of CanonicalJson.                     *)
(***************************************************************************)
EXTENDS AssetStore, MCCanonicalJson

CONSTANTS a1, a2, ip, tech

one == S("1")
obj == <<"map", <<>>>>
arr == <<"list", <<>>>>

MCAsset == {a1, a2}
MCKey == {ip, tech}
MCValue == {one, obj, arr}
MCCanon == [v \in MCValue |-> canonicalizeForHash(v)]

\* An attrs object with the given values of ip and tech.
At(i, t) == (ip :> i) @@ (tech :> t)

MCPayload == {At(one, Null), At(obj, Null), At(arr, one)}

New(a, x) == [asset |-> a, attrs |-> x, parent |-> Null]

\* Two assets at once, one asset twice with different attrs, an asset with a
\* parent of its own, and an asset without a value.
MCChunk == {<<New(a1, At(obj, Null)), New(a2, At(one, Null))>>,
            <<New(a1, At(one, Null)), New(a1, At(arr, one))>>,
            <<[asset |-> a2, attrs |-> At(arr, one), parent |-> <<a1, 0>>]>>,
            <<New(a2, At(one, Null)), New(Null, At(one, Null))>>}

\* Writes of assets and the findings that CanonicalJson compares have no state
\* in common, so it is enough that a behaviour has one or the other.
MCInit == StoreInit /\ Init

MCNext ==
    \/ emitted = <<>> /\ StoreNext /\ UNCHANGED emitted
    \/ StoreInit /\ Next /\ UNCHANGED storeVars

MCSpec == MCInit /\ [][MCNext]_<<storeVars, emitted>>
=============================================================================
