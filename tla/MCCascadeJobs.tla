---------------------------- MODULE MCCascadeJobs ----------------------------
(***************************************************************************)
(* A small instance of CascadeJobs: a root asset whose job finds a child   *)
(* and writes it back, and the job the cascade inserts for that child,     *)
(* which re-emits the root among its children.                             *)
(***************************************************************************)
EXTENDS CascadeJobs, TLC

CONSTANTS a1, a2, ip, tech, one, two, j1, j2, w1, w2

MCAsset == {a1, a2}
MCKey == {ip, tech}
MCValue == {one, two}
MCCanon == (one :> one) @@ (two :> two)
MCJob == {j1, j2}
MCSlot == {w1, w2}
MCTarget == (j1 :> a1) @@ (j2 :> a2)
MCRoot == {a1}

KV(i, t) == (ip :> i) @@ (tech :> t)
New(a, x) == [asset |-> a, attrs |-> x, parent |-> Null]

\* j1 updates its asset and emits itself and a child.  j2 has no update; it
\* emits the root with another value and, in a second chunk, once more, or it
\* emits the root twice in one chunk.
MCResults ==
    (j1 :> {[update |-> KV(one, Null),
             children |-> <<New(a1, KV(one, Null)), New(a2, KV(one, Null))>>]}) @@
    (j2 :> {[update |-> KV(Null, Null), children |-> c] : c \in {
                <<New(a1, KV(two, Null)), New(a2, KV(one, Null)), New(a1, KV(Null, one))>>,
                <<New(a1, KV(two, Null)), New(a1, KV(two, Null))>>}})
MCJ2 == {j2}

\* Slots are interchangeable: sound for the safety runs.
SlotSymmetry == Permutations(MCSlot)
=============================================================================
