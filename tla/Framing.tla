-------------------------------- MODULE Framing --------------------------------
(***************************************************************************)
(* The parts of the canonical encodings (worker/dedup.go, worker/          *)
(* asset_writer.go) that look at one level only: the order in which the    *)
(* pairs of a map are written, and the bytes DedupHash feeds to sha256,    *)
(* every field with its length in front.                                   *)
(*                                                                         *)
(* A map is a list of pairs <<key, value>> in the order in which Go        *)
(* happens to iterate, a key its rank among the keys.  A field is a        *)
(* sequence of bytes, whatever these are; a header is four numbers.        *)
(***************************************************************************)
EXTENDS Naturals, Sequences

\* The same pairs in every order.
Listings(pairs) ==
    LET I == DOMAIN pairs IN
    {[i \in I |-> pairs[f[i]]] : f \in {f \in [I -> I] : \A k \in I : \E i \in I : f[i] = k}}

Sorted(pairs) == \A i, k \in DOMAIN pairs : i < k => pairs[i][1] < pairs[k][1]

\* What sort.Strings makes of the keys of a map, which are distinct.
ByKey(pairs) == CHOOSE s \in Listings(pairs) : Sorted(s)

\* binary.BigEndian.PutUint32(hdr, uint32(n)): the conversion drops what does
\* not fit into 32 bits.
PutUint32(n) ==
    <<(n \div 16777216) % 256, (n \div 65536) % 256, (n \div 256) % 256, n % 256>>

\* mutant: the fields are written without their lengths
writeLP_bare(b) == b

\* A field with its length in front.
writeLP(b) == PutUint32(Len(b)) \o b

\* What the hash reads of a finding, in the order of the writes.
HashInput(kind, severity, canon) == writeLP(kind) \o writeLP(severity) \o writeLP(canon)
=============================================================================
