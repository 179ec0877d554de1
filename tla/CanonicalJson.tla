----------------------------- MODULE CanonicalJson -----------------------------
(***************************************************************************)
(* The two canonical encodings: DedupHash of a finding (worker/dedup.go)   *)
(* and fingerprintAttrs of an asset (worker/asset_writer.go).  Findings    *)
(* are emitted one after the other; the properties compare every two.      *)
(*                                                                         *)
(* A Go value is <<"scalar", text>>, <<"list", values>>, <<"map", pairs>>  *)
(* for map[string]any, or <<"typed", pairs>> for a map of another type     *)
(* (map[string]string), whose pairs <<key, value>> are in the order in     *)
(* which Go happens to iterate.  A key is its rank among the keys.  Bytes  *)
(* are a sequence of tokens, and sha256 has no collisions.                 *)
(***************************************************************************)
EXTENDS Naturals, Sequences, SequencesExt, FiniteSets, TLC, Framing

CONSTANTS
    KeyText,     \* KeyText[k]: the JSON string of key k
    NaN,         \* the text of a scalar that JSON does not have
    Kind,        \* kinds, as token sequences
    Severity,    \* severities, as token sequences
    Normal,      \* Normal[t]: t in lower case and trimmed, as FINDINGS.md has it
    Data,        \* values of Finding.Data and of attrs: maps, or Nil
    Nil,
    MaxFindings  \* bound: findings emitted

ASSUME NormalOK == Kind \cup Severity \subseteq DOMAIN Normal

Finding == [kind : Kind, severity : Severity, data : Data]

VARIABLE emitted    \* the findings so far

-----------------------------------------------------------------------------
(* encoding/json. *)

Join(texts) == FoldLeft(LAMBDA acc, t : IF acc = <<>> THEN t ELSE acc \o <<",">> \o t,
                        <<>>, texts)

\* json.Marshal of a value, which an "object" is written in its own order, and
\* a Go map by its keys.
RECURSIVE Marshal(_)
Marshal(v) ==
    LET Pairs(ps) == [i \in DOMAIN ps |-> <<KeyText[ps[i][1]], ":">> \o Marshal(ps[i][2])] IN
    CASE v[1] = "scalar" -> <<v[2]>>
      [] v[1] = "list" -> <<"[">> \o Join([i \in DOMAIN v[2] |-> Marshal(v[2][i])]) \o <<"]">>
      [] v[1] = "object" -> <<"{">> \o Join(Pairs(v[2])) \o <<"}">>
      [] v[1] \in {"map", "typed"} -> <<"{">> \o Join(Pairs(ByKey(v[2]))) \o <<"}">>

Encodable(v) == ~Contains(Marshal(v), NaN)

-----------------------------------------------------------------------------
(* DedupHash. *)

RECURSIVE canonicalize(_)
canonicalize(v) ==
    CASE v[1] = "map" ->
            <<"object", [i \in DOMAIN v[2] |->
                LET p == ByKey(v[2])[i] IN <<p[1], canonicalize(p[2])>>]>>
      [] v[1] = "list" -> <<"list", [i \in DOMAIN v[2] |-> canonicalize(v[2][i])]>>
      [] v[1] \in {"scalar", "typed"} -> v

canonicalJSON(v) ==
    IF v = Nil THEN <<"null">>
    ELSE IF Encodable(v) THEN Marshal(canonicalize(v))
    ELSE <<"{", "__canonical_error__", ":", "true", "}">>

\* sha256 of the framed fields.
DedupHash(f) == HashInput(f.kind, f.severity, canonicalJSON(f.data))

-----------------------------------------------------------------------------
(* fingerprintAttrs. *)

\* A pair <<k, v>> of [2]any is a list of two.
PairList(k, v) == <<"list", <<<<"scalar", KeyText[k]>>, v>>>>

\* mutant: the pairs stay in the order of iteration
RECURSIVE canonicalizeForHash_unsorted(_)
canonicalizeForHash_unsorted(v) ==
    CASE v[1] = "map" ->
            <<"list", [i \in DOMAIN v[2] |->
                PairList(v[2][i][1], canonicalizeForHash_unsorted(v[2][i][2]))]>>
      [] v[1] = "list" ->
            <<"list", [i \in DOMAIN v[2] |-> canonicalizeForHash_unsorted(v[2][i])]>>
      [] v[1] \in {"scalar", "typed"} -> v

RECURSIVE canonicalizeForHash(_)
canonicalizeForHash(v) ==
    CASE v[1] = "map" ->
            <<"list", [i \in DOMAIN v[2] |->
                LET p == ByKey(v[2])[i] IN PairList(p[1], canonicalizeForHash(p[2]))]>>
      [] v[1] = "list" -> <<"list", [i \in DOMAIN v[2] |-> canonicalizeForHash(v[2][i])]>>
      [] v[1] \in {"scalar", "typed"} -> v

\* What fingerprintAttrs hashes.  A nil map has no keys.  The encoder ends with a
\* newline, and writes nothing when it fails; the error is dropped.
fingerprintBytes(attrs) ==
    LET m == IF attrs = Nil THEN <<"map", <<>>>> ELSE attrs IN
    IF Encodable(m) THEN Marshal(canonicalizeForHash(m)) \o <<"\n">> ELSE <<>>

-----------------------------------------------------------------------------

Init == emitted = <<>>

Emit(f) == Len(emitted) < MaxFindings /\ emitted' = Append(emitted, f)

Next == \E f \in Finding : Emit(f)

Spec == Init /\ [][Next]_emitted

-----------------------------------------------------------------------------
(* Properties. *)

ValueAt(pairs, k) == pairs[CHOOSE i \in DOMAIN pairs : pairs[i][1] = k][2]
Keys(pairs) == {pairs[i][1] : i \in DOMAIN pairs}

\* The JSON document a value stands for: maps are unordered, lists are not.
RECURSIVE Meaning(_)
Meaning(v) ==
    CASE v[1] = "scalar" -> v
      [] v[1] = "list" -> <<"list", [i \in DOMAIN v[2] |-> Meaning(v[2][i])]>>
      [] v[1] \in {"map", "typed"} ->
            <<"map", [k \in Keys(v[2]) |-> Meaning(ValueAt(v[2], k))]>>

\* The value with its scalars left out, and, of maps, the order.
RECURSIVE Shape(_)
Shape(v) ==
    CASE v[1] = "scalar" -> <<"scalar">>
      [] v[1] = "list" -> <<"list", [i \in DOMAIN v[2] |-> Shape(v[2][i])]>>
      [] v[1] \in {"map", "typed"} ->
            <<v[1], [k \in Keys(v[2]) |-> Shape(ValueAt(v[2], k))]>>

SameMeaning(a, b) == IF a = Nil \/ b = Nil THEN a = b ELSE Meaning(a) = Meaning(b)
SameShape(a, b) == IF a = Nil \/ b = Nil THEN a = b ELSE Shape(a) = Shape(b)
Comparable(f, g) == \A v \in {f.data, g.data} : v = Nil \/ Encodable(v)

\* f and g stand for any two findings that were emitted.
Pairwise(P(_, _)) == \A i, j \in DOMAIN emitted : i < j => P(emitted[i], emitted[j])

\* Data as a document; none is an empty one.
Fields(data) == IF data = Nil THEN <<>> ELSE Meaning(data)[2]

\* b has the fields of a, and maybe more.
Extends(b, a) ==
    /\ DOMAIN Fields(a) \subseteq DOMAIN Fields(b)
    /\ \A k \in DOMAIN Fields(a) : Fields(a)[k] = Fields(b)[k]

\* DedupHash is sound in both directions that everybody agrees on.  Findings
\* with equal kind, severity and document have one hash, whatever the order
\* and the Go types of their maps.  Findings with one hash are one logical
\* finding even in the widest sense that the documentation gives to it: no two
\* fields run into each other, and no datum is contradicted.  What lies
\* between is the subject of ExtraFieldsMerge and KindIsNormalised.
DedupIsSound == Pairwise(LAMBDA f, g :
    Comparable(f, g) =>
        /\ f.kind = g.kind /\ f.severity = g.severity /\ SameMeaning(f.data, g.data)
              => DedupHash(f) = DedupHash(g)
        /\ DedupHash(f) = DedupHash(g)
              => /\ Normal[f.kind] = Normal[g.kind]
                 /\ Normal[f.severity] = Normal[g.severity]
                 /\ Extends(f.data, g.data) \/ Extends(g.data, f.data))

\* "The same logical finding emitted twice - even with [...] unrelated extra
\* fields the worker added later - produces the same hash."
ExtraFieldsMerge == Pairwise(LAMBDA f, g :
    Comparable(f, g) /\ Nil \notin {f.data, g.data}
       /\ f.kind = g.kind /\ f.severity = g.severity /\ Extends(g.data, f.data)
        => DedupHash(f) = DedupHash(g))

\* The canonicalization step has "`Kind` lowercased, trimmed": kinds that differ
\* in nothing else do not fork a finding.
KindIsNormalised == Pairwise(LAMBDA f, g :
    Normal[f.kind] = Normal[g.kind] /\ f.severity = g.severity /\ f.data = g.data
        => DedupHash(f) = DedupHash(g))

\* Attributes of one structure have equal fingerprints exactly when they have
\* equal contents: the order in which Go iterates over their maps does not
\* reach the hash at any depth, and no scalar and no order of a list changes
\* unnoticed.  A change of structure that an unchanged fingerprint hides (a
\* map, and a list that spells out its pairs) is the subject of SameComparator.
FingerprintIsMeaning == Pairwise(LAMBDA f, g :
    Comparable(f, g) /\ SameShape(f.data, g.data) =>
        ((fingerprintBytes(f.data) = fingerprintBytes(g.data)) <=>
            SameMeaning(f.data, g.data)))

\* fingerprintAttrs "lifts the dedup logic from worker/dedup.go so attr equality
\* is the same comparator": it tells attributes apart where DedupHash would.
SameComparator == Pairwise(LAMBDA f, g :
    Comparable(f, g) /\ Nil \notin {f.data, g.data} =>
        ((fingerprintBytes(f.data) = fingerprintBytes(g.data)) <=>
            (canonicalJSON(f.data) = canonicalJSON(g.data))))
=============================================================================
