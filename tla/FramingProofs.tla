----------------------------- MODULE FramingProofs -----------------------------
(***************************************************************************)
(* What the canonical encodings rest on, at one level: whatever order Go   *)
(* iterates in, the sorted pairs of a map are one list; and DedupHash      *)
(* frames its fields so that two findings give the hash the same bytes     *)
(* only if they agree field by field.  Values and bytes may be anything:   *)
(* neither argument looks into them.                                       *)
(***************************************************************************)
EXTENDS Framing, SequenceTheorems, WellFoundedInduction, TLAPS

\* Where the header's 32 bits run out.
Limit == 4294967296

Field(B) == {b \in Seq(B) : Len(b) < Limit}

-----------------------------------------------------------------------------
(* Headers. *)

\* A header says which length it was written for, below the limit.
LEMMA HeaderReadsBack ==
    ASSUME NEW n \in Nat, n < Limit
    PROVE  n = 16777216 * PutUint32(n)[1] + 65536 * PutUint32(n)[2]
                 + 256 * PutUint32(n)[3] + PutUint32(n)[4]
<1> DEFINE q1 == n \div 256   q2 == n \div 65536   q3 == n \div 16777216
<1>1. /\ PutUint32(n)[1] = q3 % 256
      /\ PutUint32(n)[2] = q2 % 256
      /\ PutUint32(n)[3] = q1 % 256
      /\ PutUint32(n)[4] = n % 256
  BY SMT DEF PutUint32
<1>2. q1 \in Nat /\ n = 256 * q1 + (n % 256)
  BY SMT
<1>3. q2 \in Nat /\ q1 = 256 * q2 + (q1 % 256)
  BY SMT
<1>4. q3 \in Nat /\ q2 = 256 * q3 + (q2 % 256)
  BY SMT
<1>5. q3 = q3 % 256
  BY SMT DEF Limit
<1> HIDE DEF q1, q2, q3
<1>6. n % 256 \in Nat /\ q1 % 256 \in Nat /\ q2 % 256 \in Nat /\ q3 % 256 \in Nat
  BY <1>2, <1>3, <1>4, SMT
<1> QED  BY <1>1, <1>2, <1>3, <1>4, <1>5, <1>6, SMT

\* Two lengths with one header are one length.
LEMMA HeaderSeparates ==
    ASSUME NEW m \in Nat, m < Limit, NEW n \in Nat, n < Limit,
           PutUint32(m) = PutUint32(n)
    PROVE  m = n
BY HeaderReadsBack, SMT

\* The limit is sharp: a field longer by 4 GiB has the same header.
LEMMA HeaderWraps ==
    ASSUME NEW n \in Nat
    PROVE  PutUint32(n + Limit) = PutUint32(n)
<1>1. (n + Limit) \div 16777216 = (n \div 16777216) + 256
  BY SMT DEF Limit
<1>2. (n + Limit) \div 65536 = (n \div 65536) + 65536
  BY SMT DEF Limit
<1>3. (n + Limit) \div 256 = (n \div 256) + 16777216
  BY SMT DEF Limit
<1>4. ((n \div 16777216) + 256) % 256 = (n \div 16777216) % 256
  BY SMT
<1>5. ((n \div 65536) + 65536) % 256 = (n \div 65536) % 256
  BY SMT
<1>6. ((n \div 256) + 16777216) % 256 = (n \div 256) % 256
  BY SMT
<1>7. (n + Limit) % 256 = n % 256
  BY SMT DEF Limit
<1> QED  BY <1>1, <1>2, <1>3, <1>4, <1>5, <1>6, <1>7, SMT DEF PutUint32

\* A header is four bytes.
LEMMA HeaderIsFour ==
    ASSUME NEW n \in Nat
    PROVE  PutUint32(n) \in Seq(Nat) /\ Len(PutUint32(n)) = 4
BY SMT DEF PutUint32

-----------------------------------------------------------------------------
(* Streams of fields. *)

\* What follows a prefix of known length is read off by position.
LEMMA SameHead ==
    ASSUME NEW S, NEW a \in Seq(S), NEW b \in Seq(S), NEW x \in Seq(S), NEW y \in Seq(S),
           Len(a) = Len(b), a \o x = b \o y
    PROVE  a = b /\ x = y
<1> DEFINE u == a \o x   v == b \o y
<1>1. /\ u = v
      /\ Len(u) = Len(a) + Len(x) /\ Len(v) = Len(b) + Len(y)
      /\ \A i \in 1..Len(a) + Len(x) : u[i] = IF i <= Len(a) THEN a[i] ELSE x[i - Len(a)]
      /\ \A i \in 1..Len(b) + Len(y) : v[i] = IF i <= Len(b) THEN b[i] ELSE y[i - Len(b)]
  BY ConcatProperties, Zenon
<1> HIDE DEF u, v
<1>2. Len(a) \in Nat /\ Len(b) \in Nat /\ Len(x) \in Nat /\ Len(y) \in Nat
  OBVIOUS
<1>3. Len(x) = Len(y)
  BY <1>1, <1>2
<1>4. ASSUME NEW i \in 1..Len(a)
      PROVE  a[i] = b[i]
  BY <1>1, <1>2, <1>3
<1>5. ASSUME NEW i \in 1..Len(x)
      PROVE  x[i] = y[i]
  <2>1. Len(a) + i \in 1..Len(a) + Len(x) /\ ~(Len(a) + i <= Len(a)) /\ (Len(a) + i) - Len(a) = i
    BY <1>2
  <2>2. u[Len(a) + i] = x[i] /\ v[Len(a) + i] = y[i]
    BY <1>1, <1>2, <1>3, <2>1
  <2> QED  BY <1>1, <2>2
<1> QED  BY <1>3, <1>4, <1>5, SeqEqual, Zenon

\* Two streams of a header, a field and a rest that agree as a whole agree in the
\* field and in the rest.
ReadsBack(g, a, x, h, b, y) == (g \o a) \o x = (h \o b) \o y => a = b /\ x = y

\* The grouping of the writes is immaterial.
Groups(h, a, x) == (h \o a) \o x = h \o (a \o x)

\* It is, whatever is written.
LEMMA Regrouped ==
    ASSUME NEW S, NEW h \in Seq(S), NEW a \in Seq(S), NEW x \in Seq(S)
    PROVE  Groups(h, a, x) /\ a \o x \in Seq(S)
BY ConcatAssociative DEF Groups

\* A header of fixed length, a field whose length the header tells, and a rest.
LEMMA HeaderFieldRest ==
    ASSUME NEW S, NEW g \in Seq(S), NEW h \in Seq(S), NEW a \in Seq(S), NEW b \in Seq(S),
           NEW x \in Seq(S), NEW y \in Seq(S),
           Len(g) = Len(h), g = h => Len(a) = Len(b)
    PROVE  ReadsBack(g, a, x, h, b, y)
<1> DEFINE p == a \o x   q == b \o y
<1>1. Groups(g, a, x) /\ Groups(h, b, y)
  BY Regrouped, Zenon
<1>2. p \in Seq(S) /\ q \in Seq(S)
  BY Regrouped, Zenon
<1>3. (p = q /\ Len(a) = Len(b)) => (a = b /\ x = y)
  BY SameHead
<1> HIDE DEF p, q
<1>4. g \o p = h \o q => g = h /\ p = q
  BY <1>2, SameHead
<1> QED  BY <1>1, <1>3, <1>4, Zenon DEF ReadsBack, Groups, p, q

\* A written field is a sequence of header numbers and bytes.
LEMMA WrittenIsSeq ==
    ASSUME NEW B, NEW b \in Seq(B)
    PROVE  /\ b \in Seq(B \cup Nat)
           /\ PutUint32(Len(b)) \in Seq(B \cup Nat)
           /\ writeLP(b) \in Seq(B \cup Nat)
<1>1. b \in Seq(B \cup Nat)
  OBVIOUS
<1>2. PutUint32(Len(b)) \in Seq(B \cup Nat)
  <2>1. Len(b) \in Nat /\ Nat \subseteq B \cup Nat
    OBVIOUS
  <2>2. PutUint32(Len(b)) \in Seq(Nat)
    BY <2>1, HeaderIsFour
  <2> QED  BY <2>1, <2>2, SeqMonotonic, Zenon
<1> QED  BY <1>1, <1>2 DEF writeLP

\* The first field of a stream, and the rest of the stream, are determined by
\* the stream.
LEMMA FirstField ==
    ASSUME NEW B, NEW a \in Field(B), NEW b \in Field(B),
           NEW x \in Seq(B \cup Nat), NEW y \in Seq(B \cup Nat)
    PROVE  writeLP(a) \o x = writeLP(b) \o y => a = b /\ x = y
<1> DEFINE S == B \cup Nat
           ha == PutUint32(Len(a))
           hb == PutUint32(Len(b))
<1>1. /\ a \in Seq(B) /\ Len(a) \in Nat /\ Len(a) < Limit
      /\ b \in Seq(B) /\ Len(b) \in Nat /\ Len(b) < Limit
  BY DEF Field
<1>2. a \in Seq(S) /\ ha \in Seq(S) /\ b \in Seq(S) /\ hb \in Seq(S)
  BY <1>1, WrittenIsSeq
<1>3. Len(ha) = 4 /\ Len(hb) = 4
  BY <1>1, HeaderIsFour
<1>4. ha = hb => Len(a) = Len(b)
  BY <1>1, HeaderSeparates
<1>5. x \in Seq(S) /\ y \in Seq(S)
  OBVIOUS
<1> HIDE DEF S, ha, hb
<1>6. ReadsBack(ha, a, x, hb, b, y)
  BY <1>2, <1>3, <1>4, <1>5, HeaderFieldRest
<1> QED  BY <1>6 DEF ReadsBack, writeLP, ha, hb

\* The framing comment of DedupHash ("kindA" + "" can't collide with "kind" +
\* "A"), for fields of any contents below 4 GiB: what is hashed of two findings
\* is equal only if kind, severity and canonical JSON are.
THEOREM FieldsNeverCollide ==
    ASSUME NEW B,
           NEW k1 \in Field(B), NEW s1 \in Field(B), NEW c1 \in Field(B),
           NEW k2 \in Field(B), NEW s2 \in Field(B), NEW c2 \in Field(B)
    PROVE  HashInput(k1, s1, c1) = HashInput(k2, s2, c2)
               <=> k1 = k2 /\ s1 = s2 /\ c1 = c2
<1> DEFINE S == B \cup Nat
<1>1. ASSUME NEW f \in Field(B)
      PROVE  writeLP(f) \in Seq(S)
  BY <1>1, WrittenIsSeq DEF Field
<1>2. ASSUME NEW k \in Field(B), NEW s \in Field(B), NEW c \in Field(B)
      PROVE  HashInput(k, s, c) = writeLP(k) \o (writeLP(s) \o (writeLP(c) \o <<>>))
  <2>1. writeLP(k) \in Seq(S) /\ writeLP(s) \in Seq(S) /\ writeLP(c) \in Seq(S)
    BY <1>1
  <2> DEFINE wk == writeLP(k)   ws == writeLP(s)   wc == writeLP(c)
  <2>2. wk \in Seq(S) /\ ws \in Seq(S) /\ wc \in Seq(S)
    BY <2>1
  <2>3. HashInput(k, s, c) = (wk \o ws) \o wc
    BY DEF HashInput
  <2> HIDE DEF wk, ws, wc, S
  <2>4. (wk \o ws) \o wc = wk \o (ws \o wc)
    BY <2>2, ConcatAssociative
  <2>5. wc \o <<>> = wc
    BY <2>2
  <2>6. HashInput(k, s, c) = wk \o (ws \o (wc \o <<>>))
    BY <2>3, <2>4, <2>5
  <2> QED  BY <2>6 DEF wk, ws, wc
<1>3. HashInput(k1, s1, c1) = HashInput(k2, s2, c2) => k1 = k2 /\ s1 = s2 /\ c1 = c2
  <2> DEFINE r1 == writeLP(c1) \o <<>>   t1 == writeLP(s1) \o r1
             r2 == writeLP(c2) \o <<>>   t2 == writeLP(s2) \o r2
  <2>1. <<>> \in Seq(S) /\ r1 \in Seq(S) /\ r2 \in Seq(S)
    BY <1>1
  <2>2. t1 \in Seq(S) /\ t2 \in Seq(S)
    BY <1>1, <2>1
  <2>3. r1 = r2 => c1 = c2
    BY <2>1, FirstField
  <2>4. HashInput(k1, s1, c1) = writeLP(k1) \o t1 /\ HashInput(k2, s2, c2) = writeLP(k2) \o t2
    <3>1. HashInput(k1, s1, c1) = writeLP(k1) \o t1
      BY <1>2
    <3>2. HashInput(k2, s2, c2) = writeLP(k2) \o t2
      BY <1>2
    <3> QED  BY <3>1, <3>2
  <2> HIDE DEF r1, r2
  <2>5. t1 = t2 => s1 = s2 /\ r1 = r2
    BY <2>1, FirstField
  <2> HIDE DEF t1, t2
  <2>6. writeLP(k1) \o t1 = writeLP(k2) \o t2 => k1 = k2 /\ t1 = t2
    BY <2>2, FirstField
  <2> QED  BY <2>3, <2>4, <2>5, <2>6, Zenon
<1> QED  BY <1>3

-----------------------------------------------------------------------------
(* Sorted pairs. *)

Entries(s) == {s[i] : i \in DOMAIN s}

\* What an order of the pairs leaves alone.
LEMMA ListingKeeps ==
    ASSUME NEW P, NEW p \in Seq(P), NEW q \in Listings(p)
    PROVE  q \in Seq(P) /\ Len(q) = Len(p) /\ Entries(q) = Entries(p)
<1> DEFINE I == DOMAIN p
<1>1. PICK f \in [I -> I] : /\ \A k \in I : \E i \in I : f[i] = k
                            /\ q = [i \in I |-> p[f[i]]]
  BY DEF Listings
<1>2. I = 1..Len(p) /\ Len(p) \in Nat /\ \A i \in I : p[i] \in P
  OBVIOUS
<1> HIDE DEF I
<1>3. q \in [1..Len(p) -> P]
  BY <1>1, <1>2
<1>4. q \in Seq(P) /\ Len(q) = Len(p) /\ DOMAIN q = I
  BY <1>2, <1>3
<1>5. Entries(q) = Entries(p)
  <2>1. Entries(p) = {p[i] : i \in I}
    BY DEF Entries, I
  <2>2. Entries(q) = {p[f[i]] : i \in I}
    BY <1>1, <1>4 DEF Entries
  <2>3. Entries(q) \subseteq Entries(p)
    BY <1>1, <2>1, <2>2
  <2>4. ASSUME NEW k \in I
        PROVE  p[k] \in Entries(q)
    BY <1>1, <2>2
  <2> QED  BY <2>1, <2>3, <2>4
<1> QED  BY <1>4, <1>5

\* A set of numbers has a least one.
LEMMA LeastNumber ==
    ASSUME NEW T, T \subseteq Nat, T # {}
    PROVE  \E m \in T : \A n \in T : m <= n
<1> DEFINE R == OpToRel(<, Nat)
<1>1. \A m, n \in Nat : <<n, m>> \in R <=> n < m
  BY DEF OpToRel
<1>2. IsWellFoundedOn(R, Nat)
  BY NatLessThanWellFounded
<1> HIDE DEF R
<1>3. PICK m \in T : \A n \in T : ~(<<n, m>> \in R)
  BY <1>2, WFMin, Zenon
<1>4. ASSUME NEW n \in T
      PROVE  m <= n
  <2>1. m \in Nat /\ n \in Nat /\ ~(n < m)
    BY <1>1, <1>3, Zenon
  <2> QED  BY <2>1
<1> QED  BY <1>4

\* s is a prefix of t.
Starts(s, t) == Len(s) <= Len(t) /\ \A i \in 1..Len(s) : s[i] = t[i]

\* Of two sorted lists of the same pairs, the one agrees with the other as far
\* as it goes: at the first place where it did not, the smaller of the two keys
\* would be missing from the other list.
LEMMA SortedAgree ==
    ASSUME NEW V, NEW s \in Seq(Nat \X V), NEW t \in Seq(Nat \X V),
           Sorted(s), Sorted(t), Entries(s) = Entries(t)
    PROVE  Starts(s, t)
<1> DEFINE Bad == {n \in Nat : n \in 1..Len(s) /\ ~(n \in 1..Len(t) /\ s[n] = t[n])}
<1>1. /\ Len(s) \in Nat /\ DOMAIN s = 1..Len(s)
      /\ Len(t) \in Nat /\ DOMAIN t = 1..Len(t)
  OBVIOUS
<1>2. /\ \A i \in 1..Len(s) : s[i][1] \in Nat
      /\ \A i \in 1..Len(t) : t[i][1] \in Nat
  OBVIOUS
<1>3. /\ \A i, k \in 1..Len(s) : i < k => s[i][1] < s[k][1]
      /\ \A i, k \in 1..Len(t) : i < k => t[i][1] < t[k][1]
  BY <1>1 DEF Sorted
<1>4. /\ \A i \in 1..Len(s) : \E k \in 1..Len(t) : s[i] = t[k]
      /\ \A k \in 1..Len(t) : \E i \in 1..Len(s) : t[k] = s[i]
  BY <1>1 DEF Entries
<1>5. ASSUME Bad # {}
      PROVE  FALSE
  <2>1. PICK m \in Bad : \A n \in Bad : m <= n
    BY <1>5, LeastNumber
  <2>2. /\ m \in 1..Len(s)
        /\ ~(m \in 1..Len(t) /\ s[m] = t[m])
        /\ \A n \in 1..(m - 1) : n \in 1..Len(t) /\ s[n] = t[n]
    BY <1>1, <2>1
  <2> HIDE DEF Bad
  <2>3. PICK k \in 1..Len(t) : s[m] = t[k]
    BY <1>4, <2>2
  <2>4. ~(k < m)
    BY <1>1, <1>2, <1>3, <2>2, <2>3
  <2>5. m \in 1..Len(t) /\ m < k
    BY <1>1, <2>2, <2>3, <2>4
  <2>6. t[m][1] < s[m][1]
    BY <1>3, <2>3, <2>5
  <2>7. PICK i \in 1..Len(s) : t[m] = s[i]
    BY <1>4, <2>5
  <2>8. ~(i < m)
    BY <1>1, <1>2, <1>3, <2>2, <2>5, <2>7
  <2>9. m < i
    BY <1>1, <2>2, <2>5, <2>7, <2>8
  <2>10. s[m][1] < t[m][1]
    BY <1>3, <2>2, <2>7, <2>9
  <2> QED  BY <1>2, <2>2, <2>5, <2>6, <2>10
<1>6. \A n \in 1..Len(s) : n \in 1..Len(t) /\ s[n] = t[n]
  BY <1>1, <1>5
<1> QED  BY <1>1, <1>6 DEF Starts

\* canonicalize and canonicalizeForHash collect the keys of a map in the order
\* of the iteration and sort them, with a sort that is not stable.  Two orders p
\* and q of one map, each sorted by any means at all, give the same list of
\* pairs, the one that ByKey stands for.
THEOREM OrderIsForgotten ==
    ASSUME NEW V, NEW p \in Seq(Nat \X V), NEW q \in Listings(p),
           NEW s \in Listings(p), Sorted(s),
           NEW t \in Listings(q), Sorted(t)
    PROVE  s = t /\ ByKey(p) = s /\ ByKey(q) = s
<1> DEFINE P == Nat \X V
<1>1. ASSUME NEW a \in Listings(p), Sorted(a), NEW b \in Seq(P), Sorted(b),
             Entries(b) = Entries(p)
      PROVE  a = b
  <2>1. a \in Seq(P) /\ Entries(a) = Entries(p)
    BY ListingKeeps
  <2>2. Starts(a, b) /\ Starts(b, a)
    BY <1>1, <2>1, SortedAgree, Zenon
  <2>3. Len(a) = Len(b)
    BY <1>1, <2>1, <2>2, LenProperties DEF Starts
  <2> QED  BY <1>1, <2>1, <2>2, <2>3, SeqEqual DEF Starts
<1>2. q \in Seq(P) /\ Entries(q) = Entries(p)
  BY ListingKeeps
<1>3. ASSUME NEW b \in Listings(q)
      PROVE  b \in Seq(P) /\ Entries(b) = Entries(p)
  BY <1>2, ListingKeeps
<1>4. s = t
  BY <1>1, <1>3
<1>5. ByKey(p) \in Listings(p) /\ Sorted(ByKey(p))
  BY DEF ByKey
<1>6. ByKey(q) \in Listings(q) /\ Sorted(ByKey(q))
  BY DEF ByKey
<1>7. ByKey(p) = t
  BY <1>1, <1>3, <1>5
<1>8. ByKey(q) = s
  BY <1>1, <1>3, <1>6
<1> QED  BY <1>4, <1>7, <1>8
=============================================================================
