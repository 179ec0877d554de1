---------------------------- MODULE DnsCacheProofs ----------------------------
(***************************************************************************)
(* The lru of the resolver for any number of goroutines, hosts, any        *)
(* capacity and any lifetimes: its list and its map agree, what it returns *)
(* is fresh, and it pushes out the host that was used least recently.      *)
(***************************************************************************)
EXTENDS DnsCache, SequenceTheorems, TLAPS

-----------------------------------------------------------------------------
(* The inductive invariant. *)

\* A list with at most one entry of a host.
OneEach(l) == \A i, j \in DOMAIN l : l[i].host = l[j].host => i = j

\* A history with at most one use of a host.
UsedOnce(r) == \A i, j \in DOMAIN r : r[i] = r[j] => i = j

\* The entries of a list are of hosts in the history, and in its order.
ByUse(l, r) ==
    /\ \A i \in DOMAIN l : \E m \in DOMAIN r : r[m] = l[i].host
    /\ \A i, j \in DOMAIN l :
          i < j => \E m, n \in DOMAIN r : m < n /\ r[m] = l[i].host /\ r[n] = l[j].host

\* An entry expires within CacheTTL and within what its lifetime had left.
InLimits(e) ==
    /\ e.putAt <= now
    /\ e.expiresAt <= e.putAt + TTL
    /\ e.left > 0 => e.expiresAt <= e.putAt + e.left

KeptInLimits == \A i \in DOMAIN ll : InLimits(ll[i])

\* The lru and its history, each well typed and in agreement.
LruInv ==
    /\ ll \in Seq(Entry) /\ idx \in SUBSET Host /\ recent \in Seq(Host)
    /\ LruIsSound
    /\ KeptInLimits
    /\ UsedOnce(recent)
    /\ ByUse(ll, recent)

DnsInv == DnsTypeOK /\ LruInv

-----------------------------------------------------------------------------
(* Sequences: one element less, and a new first one. *)

\* RemoveAt leaves out one position and keeps the order of the others.
LEMMA RemoveAtIs ==
    ASSUME NEW S, NEW s \in Seq(S), NEW k \in 1..Len(s)
    PROVE  /\ RemoveAt(s, k) \in Seq(S)
           /\ Len(RemoveAt(s, k)) = Len(s) - 1
           /\ \A i \in 1..(Len(s) - 1) : RemoveAt(s, k)[i] = IF i < k THEN s[i] ELSE s[i + 1]
<1> DEFINE a == SubSeq(s, 1, k - 1)
           b == SubSeq(s, k + 1, Len(s))
<1>1. Len(s) \in Nat /\ \A i \in 1..Len(s) : s[i] \in S
  BY ElementOfSeq, LenProperties
<1>2. a \in Seq(S) /\ Len(a) = k - 1 /\ \A i \in 1..(k - 1) : a[i] = s[i]
  BY <1>1, SubSeqProperties
<1>3. b \in Seq(S) /\ Len(b) = Len(s) - k /\ \A i \in 1..(Len(s) - k) : b[i] = s[k + i]
  <2>1. \A i \in (k + 1)..Len(s) : s[i] \in S
    BY <1>1
  <2>2. /\ b \in Seq(S)
        /\ Len(b) = IF k + 1 <= Len(s) THEN Len(s) - (k + 1) + 1 ELSE 0
        /\ \A i \in 1..(Len(s) - (k + 1) + 1) : b[i] = s[k + 1 + i - 1]
    BY <1>1, <2>1, SubSeqProperties
  <2> QED
    BY <1>1, <2>2
<1> HIDE DEF a, b
<1>4. /\ a \o b \in Seq(S)
      /\ Len(a \o b) = Len(a) + Len(b)
      /\ \A i \in 1..(Len(a) + Len(b)) : (a \o b)[i] = IF i <= Len(a) THEN a[i] ELSE b[i - Len(a)]
  BY <1>2, <1>3, ConcatProperties
<1>5. RemoveAt(s, k) = a \o b
  BY DEF RemoveAt, a, b
<1>6. ASSUME NEW i \in 1..(Len(s) - 1)
      PROVE  RemoveAt(s, k)[i] = IF i < k THEN s[i] ELSE s[i + 1]
  <2>1. CASE i < k
    BY <1>1, <1>2, <1>3, <1>4, <1>5, <2>1
  <2>2. CASE ~(i < k)
    <3>1. i - (k - 1) \in 1..(Len(s) - k) /\ k + (i - (k - 1)) = i + 1
      BY <1>1, <2>2
    <3>2. (a \o b)[i] = b[i - (k - 1)]
      BY <1>1, <1>2, <1>3, <1>4, <2>2
    <3>3. b[i - (k - 1)] = s[i + 1]
      BY <1>3, <3>1
    <3> QED
      BY <1>5, <2>2, <3>2, <3>3
  <2> QED
    BY <2>1, <2>2
<1>7. RemoveAt(s, k) \in Seq(S) /\ Len(RemoveAt(s, k)) = Len(s) - 1
  BY <1>1, <1>2, <1>3, <1>4, <1>5
<1> QED
  BY <1>6, <1>7

\* A new first element moves the others by one.
LEMMA FrontIs ==
    ASSUME NEW S, NEW s \in Seq(S), NEW x \in S
    PROVE  /\ <<x>> \o s \in Seq(S)
           /\ Len(<<x>> \o s) = Len(s) + 1
           /\ (<<x>> \o s)[1] = x
           /\ \A i \in 1..Len(s) : (<<x>> \o s)[i + 1] = s[i]
           /\ \A i \in 2..(Len(s) + 1) : (<<x>> \o s)[i] = s[i - 1]
<1>1. <<x>> \in Seq(S) /\ Len(<<x>>) = 1 /\ <<x>>[1] = x
  OBVIOUS
<1> QED
  BY <1>1, ConcatProperties, LenProperties

-----------------------------------------------------------------------------
(* What Remove and MoveToFront of the list do. *)

\* With at most one entry of each host, Without removes that of h, or nothing.
LEMMA WithoutIs ==
    ASSUME NEW l \in Seq(Entry), OneEach(l), NEW h
    PROVE  \/ h \notin HostsOf(l) /\ Without(l, h) = l
           \/ \E k \in 1..Len(l) : l[k].host = h /\ Without(l, h) = RemoveAt(l, k)
<1>1. DOMAIN l = 1..Len(l)
  BY LenProperties
<1>2. CASE h \notin HostsOf(l)
  BY <1>1, <1>2 DEF HostsOf, Without, RemoveFirstMatch
<1>3. CASE h \in HostsOf(l)
  <2>1. PICK k \in 1..Len(l) : l[k].host = h
    BY <1>1, <1>3 DEF HostsOf
  <2> DEFINE I == {i \in 1..Len(l) : l[i].host = h}
  <2>2. I = {k}
    BY <1>1, <2>1 DEF OneEach
  <2>3. Min(I) = k
    BY <2>2 DEF Min
  <2>4. Without(l, h) = RemoveAt(l, IF I # {} THEN Min(I) ELSE 0)
    BY <2>1 DEF Without, RemoveFirstMatch, SelectInSeq
  <2> QED
    BY <2>1, <2>2, <2>3, <2>4
<1> QED
  BY <1>2, <1>3

\* w is the list l without its entry of host h.
LessHost(l, w, h) ==
    /\ w \in Seq(Entry)
    /\ OneEach(w)
    /\ HostsOf(w) = HostsOf(l) \ {h}
    /\ Len(w) <= Len(l)
    /\ h \in HostsOf(l) => Len(w) = Len(l) - 1
    /\ \A i \in DOMAIN w : \E a \in DOMAIN l : w[i] = l[a]
    /\ \A i, j \in DOMAIN w :
          i < j => \E a, b \in DOMAIN l : a < b /\ w[i] = l[a] /\ w[j] = l[b]

\* Remove of the list takes out the entry of h and keeps the rest in order.
LEMMA WithoutFacts ==
    ASSUME NEW l \in Seq(Entry), OneEach(l), NEW h
    PROVE  LessHost(l, Without(l, h), h)
<1>1. DOMAIN l = 1..Len(l) /\ Len(l) \in Nat
  BY LenProperties
<1>2. CASE h \notin HostsOf(l) /\ Without(l, h) = l
  <2>1. HostsOf(l) = HostsOf(l) \ {h}
    BY <1>2
  <2>2. Len(l) <= Len(l)
    BY <1>1
  <2> QED
    BY <1>2, <2>1, <2>2, Zenon DEF LessHost
<1>3. ASSUME NEW k \in 1..Len(l), l[k].host = h, Without(l, h) = RemoveAt(l, k)
      PROVE  LessHost(l, Without(l, h), h)
  <2> DEFINE w == Without(l, h)
             at(i) == IF i < k THEN i ELSE i + 1
  <2>1. /\ w \in Seq(Entry) /\ Len(w) = Len(l) - 1
        /\ \A i \in 1..(Len(l) - 1) : w[i] = IF i < k THEN l[i] ELSE l[i + 1]
    BY <1>3, RemoveAtIs
  <2> HIDE DEF w
  <2>2. DOMAIN w = 1..(Len(l) - 1)
    BY <2>1, LenProperties
  <2>3. \A i \in DOMAIN w : at(i) \in DOMAIN l /\ w[i] = l[at(i)] /\ at(i) # k
    BY <1>1, <2>1, <2>2
  <2>4. \A i, j \in DOMAIN w : (i < j => at(i) < at(j)) /\ (at(i) = at(j) => i = j)
    BY <1>1, <2>2
  <2>5. \A a \in DOMAIN l : a # k => \E i \in DOMAIN w : at(i) = a
    <3>1. TAKE a \in DOMAIN l
    <3>2. HAVE a # k
    <3>3. CASE a < k
      BY <1>1, <2>2, <3>3
    <3>4. CASE a > k
      <4>1. a - 1 \in DOMAIN w /\ at(a - 1) = a
        BY <1>1, <2>2, <3>4
      <4> QED
        BY <4>1
    <3> QED
      BY <1>1, <3>2, <3>3, <3>4
  <2> HIDE DEF at
  <2>6. OneEach(w)
    BY <2>3, <2>4 DEF OneEach
  <2>7. HostsOf(w) = HostsOf(l) \ {h}
    <3>1. ASSUME NEW g \in HostsOf(w) PROVE g \in HostsOf(l) \ {h}
      BY <1>1, <1>3, <2>3 DEF HostsOf, OneEach
    <3>2. ASSUME NEW g \in HostsOf(l), g # h PROVE g \in HostsOf(w)
      <4>1. PICK a \in DOMAIN l : l[a].host = g
        BY DEF HostsOf
      <4>2. PICK i \in DOMAIN w : at(i) = a
        BY <1>3, <2>5, <3>2, <4>1
      <4> QED
        BY <2>3, <4>1, <4>2 DEF HostsOf
    <3> QED
      BY <3>1, <3>2
  <2>8. \A i \in DOMAIN w : \E a \in DOMAIN l : w[i] = l[a]
    BY <2>3
  <2>9. \A i, j \in DOMAIN w : i < j =>
           \E a, b \in DOMAIN l : a < b /\ w[i] = l[a] /\ w[j] = l[b]
    BY <2>3, <2>4
  <2> QED
    <3>1. Len(w) <= Len(l)
      BY <1>1, <2>1
    <3> QED
      BY <2>1, <2>6, <2>7, <2>8, <2>9, <3>1, Zenon DEF w, LessHost
<1> QED
  BY <1>2, <1>3, WithoutIs

\* t is the list l with the entry e in front and no other of its host.
InFront(l, t, e) ==
    /\ t \in Seq(Entry) /\ Len(t) \in Nat /\ DOMAIN t = 1..Len(t)
    /\ OneEach(t)
    /\ HostsOf(t) = HostsOf(l) \cup {e.host}
    /\ 1 \in DOMAIN t /\ t[1] = e
    /\ Len(t) <= Len(l) + 1
    /\ e.host \in HostsOf(l) => Len(t) = Len(l)
    /\ \A i \in DOMAIN t : i # 1 => \E a \in DOMAIN l : t[i] = l[a]
    /\ \A i \in DOMAIN t : i # 1 => t[i].host # e.host
    /\ \A i, j \in DOMAIN t : i # 1 /\ i < j =>
          \E a, b \in DOMAIN l : a < b /\ t[i] = l[a] /\ t[j] = l[b]

\* So does a move or a push to the front, which puts e before the rest.
LEMMA FrontList ==
    ASSUME NEW l \in Seq(Entry), OneEach(l), NEW e \in Entry, NEW h, h = e.host
    PROVE  InFront(l, <<e>> \o Without(l, h), e)
<1> DEFINE w == Without(l, h)
           t == <<e>> \o w
<1>1. /\ w \in Seq(Entry)
      /\ OneEach(w)
      /\ HostsOf(w) = HostsOf(l) \ {h}
      /\ Len(w) <= Len(l)
      /\ h \in HostsOf(l) => Len(w) = Len(l) - 1
      /\ \A i \in DOMAIN w : \E a \in DOMAIN l : w[i] = l[a]
      /\ \A i, j \in DOMAIN w : i < j => \E a, b \in DOMAIN l : a < b /\ w[i] = l[a] /\ w[j] = l[b]
  <2>1. LessHost(l, w, h)
    BY WithoutFacts
  <2> HIDE DEF w
  <2> QED
    BY <2>1 DEF LessHost
<1>2. Len(w) \in Nat /\ DOMAIN w = 1..Len(w) /\ Len(l) \in Nat
  BY <1>1, LenProperties
<1> HIDE DEF w
<1>3. t = <<e>> \o w
  OBVIOUS
<1> HIDE DEF t
<1>4. /\ t \in Seq(Entry) /\ Len(t) = Len(w) + 1 /\ t[1] = e
      /\ \A i \in 1..Len(w) : t[i + 1] = w[i]
      /\ \A i \in 2..(Len(w) + 1) : t[i] = w[i - 1]
  <2>1. w \in Seq(Entry)
    BY <1>1
  <2> QED
    BY <1>3, <2>1, FrontIs
<1>5. DOMAIN t = 1..(Len(w) + 1) /\ Len(t) \in Nat
  BY <1>2, <1>4, LenProperties
<1>6. \A i \in DOMAIN t : i # 1 => i - 1 \in DOMAIN w /\ t[i] = w[i - 1]
  BY <1>2, <1>4, <1>5
<1>7. \A i \in DOMAIN w : w[i].host \in HostsOf(w)
  BY DEF HostsOf
<1>8. \A i \in DOMAIN w : w[i].host # h
  BY <1>1, <1>7
<1>9. OneEach(t)
  <2> SUFFICES ASSUME NEW i \in DOMAIN t, NEW j \in DOMAIN t, t[i].host = t[j].host
               PROVE  i = j
    BY DEF OneEach
  <2>1. CASE i = 1 \/ j = 1
    BY <1>4, <1>6, <1>8, <2>1
  <2>2. CASE i # 1 /\ j # 1
    <3>1. i - 1 = j - 1
      BY <1>1, <1>6, <2>2 DEF OneEach
    <3> QED
      BY <1>2, <1>5, <3>1
  <2> QED
    BY <2>1, <2>2
<1>10. HostsOf(t) = HostsOf(w) \cup {h}
  <2>1. ASSUME NEW g \in HostsOf(t) PROVE g \in HostsOf(w) \cup {h}
    <3>1. PICK i \in DOMAIN t : t[i].host = g
      BY DEF HostsOf
    <3> QED
      BY <1>4, <1>6, <1>7, <3>1
  <2>2. ASSUME NEW g \in HostsOf(w) PROVE g \in HostsOf(t)
    <3>1. PICK i \in DOMAIN w : w[i].host = g
      BY DEF HostsOf
    <3>2. i + 1 \in DOMAIN t /\ t[i + 1] = w[i]
      BY <1>2, <1>4, <1>5
    <3> QED
      BY <3>1, <3>2 DEF HostsOf
  <2>3. h \in HostsOf(t)
    <3>1. 1 \in DOMAIN t
      BY <1>2, <1>5
    <3> QED
      BY <1>4, <3>1 DEF HostsOf
  <2> QED
    BY <2>1, <2>2, <2>3
<1>11. HostsOf(t) = HostsOf(l) \cup {h}
  BY <1>1, <1>10
<1>12. ASSUME NEW i \in DOMAIN t, i # 1
       PROVE  (\E a \in DOMAIN l : t[i] = l[a]) /\ t[i].host # h
  BY <1>1, <1>6, <1>8, <1>12
<1>13. ASSUME NEW i \in DOMAIN t, NEW j \in DOMAIN t, i # 1, i < j
       PROVE  \E a, b \in DOMAIN l : a < b /\ t[i] = l[a] /\ t[j] = l[b]
  <2>1. j # 1 /\ i - 1 < j - 1
    BY <1>2, <1>5, <1>13
  <2>2. /\ i - 1 \in DOMAIN w /\ t[i] = w[i - 1]
        /\ j - 1 \in DOMAIN w /\ t[j] = w[j - 1]
    BY <1>6, <1>13, <2>1
  <2>3. PICK a \in DOMAIN l, b \in DOMAIN l : a < b /\ w[i - 1] = l[a] /\ w[j - 1] = l[b]
    BY <1>1, <2>1, <2>2
  <2> QED
    BY <2>2, <2>3
<1>14. /\ DOMAIN t = 1..Len(t) /\ 1 \in DOMAIN t /\ Len(t) <= Len(l) + 1
       /\ h \in HostsOf(l) => Len(t) = Len(l)
  BY <1>1, <1>2, <1>4, <1>5
<1> QED
  BY <1>4, <1>5, <1>9, <1>11, <1>12, <1>13, <1>14, Zenon DEF t, w, InFront

\* p is what is left when the list t is cut to n entries.
CutTo(t, p, n) ==
    /\ p \in Seq(Entry) /\ Len(p) = n /\ DOMAIN p = 1..n
    /\ \A i \in 1..n : i \in DOMAIN t /\ p[i] = t[i]
    /\ OneEach(p)
    /\ HostsOf(p) = HostsOf(t) \ HostsOf(SubSeq(t, n + 1, Len(t)))
    /\ \A g \in HostsOf(SubSeq(t, n + 1, Len(t))) : \E j \in DOMAIN t : n < j /\ t[j].host = g

\* The eviction loop leaves the first n entries, and loses the hosts behind them.
LEMMA CutList ==
    ASSUME NEW t \in Seq(Entry), OneEach(t), NEW n \in 0..Len(t)
    PROVE  CutTo(t, SubSeq(t, 1, n), n)
<1> DEFINE p == SubSeq(t, 1, n)
           q == SubSeq(t, n + 1, Len(t))
<1>1. Len(t) \in Nat /\ DOMAIN t = 1..Len(t) /\ \A i \in 1..Len(t) : t[i] \in Entry
  BY ElementOfSeq, LenProperties
<1>2. p \in Seq(Entry) /\ Len(p) = n /\ \A i \in 1..n : p[i] = t[i]
  <2>1. \A i \in 1..n : t[i] \in Entry
    BY <1>1
  <2>2. /\ p \in Seq(Entry)
        /\ Len(p) = IF 1 <= n THEN n - 1 + 1 ELSE 0
        /\ \A i \in 1..(n - 1 + 1) : p[i] = t[1 + i - 1]
    BY <1>1, <2>1, SubSeqProperties
  <2> HIDE DEF p
  <2> QED
    BY <1>1, <2>2
<1>3. q \in Seq(Entry) /\ Len(q) = Len(t) - n /\ \A i \in 1..(Len(t) - n) : q[i] = t[n + i]
  <2>1. \A i \in (n + 1)..Len(t) : t[i] \in Entry
    BY <1>1
  <2>2. /\ q \in Seq(Entry)
        /\ Len(q) = IF n + 1 <= Len(t) THEN Len(t) - (n + 1) + 1 ELSE 0
        /\ \A i \in 1..(Len(t) - (n + 1) + 1) : q[i] = t[n + 1 + i - 1]
    BY <1>1, <2>1, SubSeqProperties
  <2> HIDE DEF q
  <2>3. Len(q) = Len(t) - n
    <3>1. n \in Nat /\ n <= Len(t) /\ Len(t) \in Nat
      BY <1>1
    <3>2. Len(q) = IF n + 1 <= Len(t) THEN Len(t) - (n + 1) + 1 ELSE 0
      BY <2>2
    <3> QED
      BY <3>1, <3>2
  <2>4. ASSUME NEW i \in 1..(Len(t) - n) PROVE q[i] = t[n + i]
    <3>1. i \in 1..(Len(t) - (n + 1) + 1) /\ n + 1 + i - 1 = n + i
      BY <1>1
    <3> QED
      BY <2>2, <3>1
  <2> QED
    BY <2>2, <2>3, <2>4
<1> HIDE DEF p, q
<1>4. DOMAIN p = 1..n /\ DOMAIN q = 1..(Len(t) - n)
  BY <1>2, <1>3, LenProperties
<1>5. \A i \in 1..n : i \in DOMAIN t /\ p[i] = t[i]
  BY <1>1, <1>2
<1>6. OneEach(p)
  BY <1>4, <1>5 DEF OneEach
<1>7. ASSUME NEW g \in HostsOf(q) PROVE \E j \in DOMAIN t : n < j /\ t[j].host = g
  <2>1. PICK i \in DOMAIN q : q[i].host = g
    BY DEF HostsOf
  <2>2. n + i \in DOMAIN t /\ n < n + i /\ t[n + i] = q[i]
    BY <1>1, <1>3, <1>4
  <2> QED
    BY <2>1, <2>2
<1>8. ASSUME NEW g \in HostsOf(p) PROVE g \in HostsOf(t) /\ g \notin HostsOf(q)
  <2>1. PICK i \in 1..n : p[i].host = g
    BY <1>4 DEF HostsOf
  <2>2. i \in DOMAIN t /\ t[i].host = g
    BY <1>5, <2>1
  <2>3. ASSUME g \in HostsOf(q) PROVE FALSE
    <3>1. PICK j \in DOMAIN t : n < j /\ t[j].host = g
      BY <1>7, <2>3
    <3>2. j = i
      BY <2>2, <3>1 DEF OneEach
    <3> QED
      BY <1>1, <3>1, <3>2
  <2> QED
    BY <2>2, <2>3 DEF HostsOf
<1>9. ASSUME NEW g \in HostsOf(t), g \notin HostsOf(q) PROVE g \in HostsOf(p)
  <2>1. PICK i \in DOMAIN t : t[i].host = g
    BY DEF HostsOf
  <2>2. CASE i <= n
    <3>1. i \in DOMAIN p /\ p[i] = t[i]
      BY <1>1, <1>4, <1>5, <2>2
    <3> QED
      BY <2>1, <3>1 DEF HostsOf
  <2>3. CASE n < i
    <3>1. i - n \in DOMAIN q /\ q[i - n] = t[n + (i - n)] /\ n + (i - n) = i
      BY <1>1, <1>3, <1>4, <2>3
    <3>2. g \in HostsOf(q)
      BY <2>1, <3>1 DEF HostsOf
    <3> QED
      BY <1>9, <3>2
  <2> QED
    BY <1>1, <2>2, <2>3
<1> QED
  BY <1>2, <1>4, <1>5, <1>6, <1>7, <1>8, <1>9, Zenon DEF p, q, CutTo

-----------------------------------------------------------------------------
(* What a use does to the history. *)

\* v is the history r without its use of host h.
LessUse(r, v, h) ==
    /\ v \in Seq(Host) /\ UsedOnce(v)
    /\ \A i \in DOMAIN v : v[i] # h
    /\ \A m \in DOMAIN r : r[m] # h => \E i \in DOMAIN v : v[i] = r[m]
    /\ \A m, n \in DOMAIN r : m < n /\ r[m] # h /\ r[n] # h =>
          \E i, j \in DOMAIN v : i < j /\ v[i] = r[m] /\ v[j] = r[n]

\* Each host was used last at one moment, which is what RemoveFirst takes out.
LEMMA RemoveUse ==
    ASSUME NEW r \in Seq(Host), UsedOnce(r), NEW h
    PROVE  LessUse(r, RemoveFirst(r, h), h)
<1>1. DOMAIN r = 1..Len(r) /\ Len(r) \in Nat
  BY LenProperties
<1>2. CASE \A i \in 1..Len(r) : r[i] # h
  <2>1. RemoveFirst(r, h) = r
    BY <1>2 DEF RemoveFirst
  <2> QED
    BY <1>1, <1>2, <2>1 DEF LessUse
<1>3. ASSUME NEW k \in 1..Len(r), r[k] = h
      PROVE  LessUse(r, RemoveFirst(r, h), h)
  <2> DEFINE I == {i \in 1..Len(r) : r[i] = h}
             v == RemoveFirst(r, h)
             at(m) == IF m < k THEN m ELSE m - 1
             from(i) == IF i < k THEN i ELSE i + 1
  <2>1. I = {k}
    BY <1>1, <1>3 DEF UsedOnce
  <2>2. Min(I) = k
    BY <2>1 DEF Min
  <2>3. v = RemoveAt(r, IF I # {} THEN Min(I) ELSE 0)
    BY <1>3 DEF RemoveFirst, SelectInSeq
  <2>4. v = RemoveAt(r, k)
    BY <2>1, <2>2, <2>3
  <2> HIDE DEF v
  <2>5. /\ v \in Seq(Host) /\ Len(v) = Len(r) - 1
        /\ \A i \in 1..(Len(r) - 1) : v[i] = IF i < k THEN r[i] ELSE r[i + 1]
    BY <2>4, RemoveAtIs
  <2>6. DOMAIN v = 1..(Len(r) - 1)
    BY <2>5, LenProperties
  <2>7. \A i \in DOMAIN v : from(i) \in DOMAIN r /\ from(i) # k /\ v[i] = r[from(i)]
    BY <1>1, <2>5, <2>6
  <2>8. \A i, j \in DOMAIN v : from(i) = from(j) => i = j
    BY <1>1, <2>6
  <2>9. \A m \in DOMAIN r : m # k => at(m) \in DOMAIN v /\ from(at(m)) = m
    BY <1>1, <2>6
  <2>10. \A m, n \in DOMAIN r : m < n /\ m # k /\ n # k => at(m) < at(n)
    BY <1>1
  <2> HIDE DEF at, from
  <2>11. UsedOnce(v)
    BY <2>7, <2>8 DEF UsedOnce
  <2>12. \A i \in DOMAIN v : v[i] # h
    BY <1>1, <1>3, <2>7 DEF UsedOnce
  <2>13. \A m \in DOMAIN r : r[m] # h => at(m) \in DOMAIN v /\ v[at(m)] = r[m]
    BY <1>3, <2>7, <2>9
  <2>14. ASSUME NEW m \in DOMAIN r, NEW n \in DOMAIN r, m < n, r[m] # h, r[n] # h
         PROVE  \E i, j \in DOMAIN v : i < j /\ v[i] = r[m] /\ v[j] = r[n]
    BY <1>3, <2>10, <2>13, <2>14
  <2> QED
    BY <2>5, <2>11, <2>12, <2>13, <2>14 DEF LessUse, v
<1> QED
  BY <1>2, <1>3

\* u is the history r after a use of host h.
AfterUse(r, u, h) ==
    /\ u \in Seq(Host) /\ UsedOnce(u)
    /\ 1 \in DOMAIN u /\ u[1] = h
    /\ \A m \in DOMAIN r : r[m] # h => \E p \in DOMAIN u : 1 < p /\ u[p] = r[m]
    /\ \A m, n \in DOMAIN r : m < n /\ r[m] # h /\ r[n] # h =>
          \E p, q \in DOMAIN u : p < q /\ u[p] = r[m] /\ u[q] = r[n]

\* A use makes h the latest and keeps the order of the others.
LEMMA UseIs ==
    ASSUME NEW r \in Seq(Host), UsedOnce(r), NEW h \in Host
    PROVE  AfterUse(r, <<h>> \o RemoveFirst(r, h), h)
<1> DEFINE v == RemoveFirst(r, h)
           u == <<h>> \o v
<1>1. LessUse(r, v, h)
  BY RemoveUse
<1> HIDE DEF v
<1>2. v \in Seq(Host) /\ UsedOnce(v) /\ \A i \in DOMAIN v : v[i] # h
  BY <1>1 DEF LessUse
<1>3. Len(v) \in Nat /\ DOMAIN v = 1..Len(v)
  BY <1>2, LenProperties
<1>4. /\ u \in Seq(Host) /\ Len(u) = Len(v) + 1 /\ u[1] = h
      /\ \A i \in 1..Len(v) : u[i + 1] = v[i]
      /\ \A i \in 2..(Len(v) + 1) : u[i] = v[i - 1]
  BY <1>2, FrontIs
<1> HIDE DEF u
<1>5. DOMAIN u = 1..(Len(v) + 1)
  BY <1>4, LenProperties
<1>6. \A i \in DOMAIN u : i # 1 => i - 1 \in DOMAIN v /\ u[i] = v[i - 1]
  BY <1>3, <1>4, <1>5
<1>7. \A i \in DOMAIN v : i + 1 \in DOMAIN u /\ 1 < i + 1 /\ u[i + 1] = v[i]
  BY <1>3, <1>4, <1>5
<1>8. UsedOnce(u)
  <2> SUFFICES ASSUME NEW i \in DOMAIN u, NEW j \in DOMAIN u, u[i] = u[j]
               PROVE  i = j
    BY DEF UsedOnce
  <2>1. CASE i = 1 \/ j = 1
    BY <1>2, <1>4, <1>6, <2>1
  <2>2. CASE i # 1 /\ j # 1
    <3>1. i - 1 = j - 1
      BY <1>2, <1>6, <2>2 DEF UsedOnce
    <3> QED
      BY <1>3, <1>5, <3>1
  <2> QED
    BY <2>1, <2>2
<1>9. ASSUME NEW m \in DOMAIN r, r[m] # h
      PROVE  \E p \in DOMAIN u : 1 < p /\ u[p] = r[m]
  <2>1. PICK i \in DOMAIN v : v[i] = r[m]
    BY <1>1, <1>9 DEF LessUse
  <2> QED
    BY <1>7, <2>1
<1>10. ASSUME NEW m \in DOMAIN r, NEW n \in DOMAIN r, m < n, r[m] # h, r[n] # h
       PROVE  \E p, q \in DOMAIN u : p < q /\ u[p] = r[m] /\ u[q] = r[n]
  <2>1. PICK i \in DOMAIN v, j \in DOMAIN v : i < j /\ v[i] = r[m] /\ v[j] = r[n]
    BY <1>1, <1>10 DEF LessUse
  <2>2. i + 1 < j + 1
    BY <1>3, <2>1
  <2> QED
    BY <1>7, <2>1, <2>2
<1>11. 1 \in DOMAIN u
  BY <1>3, <1>5
<1> QED
  BY <1>4, <1>8, <1>9, <1>10, <1>11 DEF AfterUse, u, v

\* A use puts the entry of its host first in the list and in the history.
LEMMA ByUseFront ==
    ASSUME NEW l, NEW t, NEW e, NEW r, NEW u,
           InFront(l, t, e), AfterUse(r, u, e.host), ByUse(l, r)
    PROVE  ByUse(t, u)
<1>1. Len(t) \in Nat /\ DOMAIN t = 1..Len(t) /\ t[1] = e
  BY DEF InFront
<1>2. ASSUME NEW i \in DOMAIN t, i # 1
      PROVE  \E p \in DOMAIN u : 1 < p /\ u[p] = t[i].host
  <2>1. PICK a \in DOMAIN l : t[i] = l[a]
    BY <1>2 DEF InFront
  <2>2. PICK m \in DOMAIN r : r[m] = l[a].host
    BY DEF ByUse
  <2>3. r[m] # e.host
    BY <1>2, <2>1, <2>2 DEF InFront
  <2> QED
    BY <2>1, <2>2, <2>3 DEF AfterUse
<1>3. ASSUME NEW i \in DOMAIN t PROVE \E p \in DOMAIN u : u[p] = t[i].host
  BY <1>1, <1>2 DEF AfterUse
<1>4. ASSUME NEW i \in DOMAIN t, NEW j \in DOMAIN t, i < j
      PROVE  \E p, q \in DOMAIN u : p < q /\ u[p] = t[i].host /\ u[q] = t[j].host
  <2>1. j # 1
    BY <1>1, <1>4
  <2>2. CASE i = 1
    BY <1>1, <1>2, <2>1, <2>2 DEF AfterUse
  <2>3. CASE i # 1
    <3>1. PICK a \in DOMAIN l, b \in DOMAIN l : a < b /\ t[i] = l[a] /\ t[j] = l[b]
      BY <1>4, <2>3 DEF InFront
    <3>2. PICK m \in DOMAIN r, n \in DOMAIN r : m < n /\ r[m] = l[a].host /\ r[n] = l[b].host
      BY <3>1 DEF ByUse
    <3>3. r[m] # e.host /\ r[n] # e.host
      BY <2>1, <2>3, <3>1, <3>2 DEF InFront
    <3> QED
      BY <3>1, <3>2, <3>3 DEF AfterUse
  <2> QED
    BY <2>2, <2>3
<1> QED
  BY <1>3, <1>4 DEF ByUse

-----------------------------------------------------------------------------
(* The steps. *)

\* A step that leaves the lru alone, and does not set the clock back.
LEMMA LruKept ==
    ASSUME LruInv, now \in Nat, now' \in Nat, now <= now', UNCHANGED cache
    PROVE  LruInv'
<1>1. ll' = ll /\ idx' = idx /\ recent' = recent
  BY DEF cache
<1>2. KeptInLimits'
  <2> SUFFICES ASSUME NEW i \in DOMAIN ll PROVE InLimits(ll[i])'
    BY <1>1 DEF KeptInLimits
  <2>1. ll[i] \in Entry /\ InLimits(ll[i])
    BY LenProperties, ElementOfSeq DEF LruInv, KeptInLimits
  <2> QED
    BY <1>1, <2>1 DEF InLimits, Entry, Time
<1> QED
  BY <1>1, <1>2 DEF LruInv, LruIsSound, UsedOnce, ByUse, HostsOf

\* The entry of a host that the map knows.
LEMMA EntryIs ==
    ASSUME LruInv, NEW h \in idx
    PROVE  \E i \in DOMAIN ll : EntryOf(ll, h) = ll[i] /\ ll[i].host = h /\ ll[i] \in Entry
<1>1. \E i \in DOMAIN ll : ll[i].host = h
  BY DEF LruInv, LruIsSound, HostsOf
<1>2. PICK i \in DOMAIN ll : EntryOf(ll, h) = ll[i] /\ ll[i].host = h
  BY <1>1 DEF EntryOf
<1> QED
  BY <1>2, LenProperties, ElementOfSeq DEF LruInv

\* A hit changes the order and nothing else.
LEMMA HitStep ==
    ASSUME LruInv, NEW h \in Host, CacheHit(h)
    PROVE  LruInv'
<1>1. h \in idx /\ now' = now /\ idx' = idx
  BY DEF CacheHit
<1>2. PICK k \in DOMAIN ll : EntryOf(ll, h) = ll[k] /\ ll[k].host = h /\ ll[k] \in Entry
  BY <1>1, EntryIs
<1>3. OneEach(ll) /\ ll \in Seq(Entry) /\ Len(ll) \in Nat
  BY LenProperties DEF LruInv, LruIsSound, OneEach
<1>4. InFront(ll, ll', ll[k])
  <2>1. ll' = <<ll[k]>> \o Without(ll, h)
    BY <1>2 DEF CacheHit, MoveToFront
  <2> QED
    BY <1>2, <1>3, <2>1, FrontList
<1>5. AfterUse(recent, recent', ll[k].host)
  <2>1. AfterUse(recent, <<h>> \o RemoveFirst(recent, h), h)
    BY UseIs DEF LruInv
  <2> QED
    BY <1>2, <2>1 DEF CacheHit, Use
<1>6. ByUse(ll', recent')
  BY <1>4, <1>5, ByUseFront DEF LruInv
<1>7. HostsOf(ll') = HostsOf(ll) \cup {h} /\ Len(ll') = Len(ll) /\ OneEach(ll')
  <2>1. h \in HostsOf(ll)
    BY <1>1 DEF LruInv, LruIsSound
  <2> QED
    BY <1>2, <1>4, <2>1 DEF InFront
<1>8. LruIsSound'
  BY <1>1, <1>7 DEF LruInv, LruIsSound, OneEach
<1>9. KeptInLimits'
  <2> SUFFICES ASSUME NEW i \in DOMAIN ll' PROVE InLimits(ll[i])'
    BY DEF KeptInLimits
  <2>1. PICK a \in DOMAIN ll : ll'[i] = ll[a]
    BY <1>2, <1>4 DEF InFront
  <2> QED
    BY <1>1, <2>1 DEF LruInv, KeptInLimits, InLimits
<1>10. ll' \in Seq(Entry) /\ recent' \in Seq(Host) /\ UsedOnce(recent')
  BY <1>4, <1>5 DEF InFront, AfterUse
<1> QED
  BY <1>1, <1>6, <1>8, <1>9, <1>10 DEF LruInv, UsedOnce, ByUse

\* A miss removes an expired entry, or nothing.
LEMMA MissStep ==
    ASSUME LruInv, NEW c \in Caller, NEW h \in Host, CacheMiss(c, h)
    PROVE  LruInv'
<1>1. now' = now /\ idx' = idx \ {h} /\ recent' = recent /\ ll' = Without(ll, h)
  BY DEF CacheMiss
<1>2. OneEach(ll) /\ ll \in Seq(Entry) /\ Len(ll) \in Nat
  BY LenProperties DEF LruInv, LruIsSound, OneEach
<1>3. LessHost(ll, ll', h)
  BY <1>1, <1>2, WithoutFacts
<1>4. LruIsSound'
  <2>1. Len(ll') <= Len(ll) /\ Len(ll') \in Nat /\ Cap \in Nat /\ Len(ll) <= Cap
    BY <1>3, LenProperties, DnsOK DEF LessHost, LruInv, LruIsSound
  <2>2. HostsOf(ll') = idx' /\ OneEach(ll')
    BY <1>1, <1>3 DEF LessHost, LruInv, LruIsSound
  <2>3. Len(ll') <= Cap
    BY <1>2, <2>1
  <2> QED
    BY <2>2, <2>3 DEF LruIsSound, OneEach, HostsOf
<1>5. KeptInLimits'
  <2> SUFFICES ASSUME NEW i \in DOMAIN ll' PROVE InLimits(ll[i])'
    BY DEF KeptInLimits
  <2>1. PICK a \in DOMAIN ll : ll'[i] = ll[a]
    BY <1>3 DEF LessHost
  <2> QED
    BY <1>1, <2>1 DEF LruInv, KeptInLimits, InLimits
<1>6. ByUse(ll', recent')
  <2>1. ASSUME NEW i \in DOMAIN ll' PROVE \E m \in DOMAIN recent : recent[m] = ll'[i].host
    <3>1. PICK a \in DOMAIN ll : ll'[i] = ll[a]
      BY <1>3 DEF LessHost
    <3> QED
      BY <3>1 DEF LruInv, ByUse
  <2>2. ASSUME NEW i \in DOMAIN ll', NEW j \in DOMAIN ll', i < j
        PROVE  \E m, n \in DOMAIN recent :
                  m < n /\ recent[m] = ll'[i].host /\ recent[n] = ll'[j].host
    <3>1. PICK a \in DOMAIN ll, b \in DOMAIN ll : a < b /\ ll'[i] = ll[a] /\ ll'[j] = ll[b]
      BY <1>3, <2>2 DEF LessHost
    <3> QED
      BY <3>1 DEF LruInv, ByUse
  <2> QED
    BY <1>1, <2>1, <2>2 DEF ByUse
<1> QED
  BY <1>1, <1>3, <1>4, <1>5, <1>6 DEF LruInv, LessHost, UsedOnce, ByUse

\* What a put makes of the list: t before the capacity is enforced, ll' after.
LEMMA PutIs ==
    ASSUME LruInv, NEW e \in Entry, put(e)
    PROVE  \E t : \E n \in 0..Len(t) :
              /\ InFront(ll, t, e)
              /\ AfterUse(recent, recent', e.host)
              /\ CutTo(t, ll', n)
              /\ n <= Cap /\ (n < Len(t) => n = Cap)
              /\ idx' = (idx \cup {e.host}) \ HostsOf(SubSeq(t, n + 1, Len(t)))
<1> DEFINE t == <<e>> \o Without(ll, e.host)
           n == IF Len(t) < Cap THEN Len(t) ELSE Cap
<1>1. OneEach(ll) /\ ll \in Seq(Entry) /\ e.host \in Host
  BY DEF LruInv, LruIsSound, OneEach, Entry
<1>2. InFront(ll, t, e)
  BY <1>1, FrontList
<1>3. AfterUse(recent, recent', e.host)
  <2>1. AfterUse(recent, <<e.host>> \o RemoveFirst(recent, e.host), e.host)
    BY <1>1, UseIs DEF LruInv
  <2> QED
    BY <2>1 DEF put, Use
<1>4. /\ ll' = SubSeq(t, 1, n)
      /\ idx' = (idx \cup {e.host}) \ HostsOf(SubSeq(t, Cap + 1, Len(t)))
  BY DEF put
<1> HIDE DEF t
<1>5. t \in Seq(Entry) /\ OneEach(t) /\ Len(t) \in Nat
  BY <1>2 DEF InFront
<1>6. n \in 0..Len(t) /\ n <= Cap /\ (n < Len(t) => n = Cap)
  BY <1>5, DnsOK
<1>7. CutTo(t, ll', n)
  BY <1>4, <1>5, <1>6, CutList
<1>8. HostsOf(SubSeq(t, Cap + 1, Len(t))) = HostsOf(SubSeq(t, n + 1, Len(t)))
  <2>1. CASE n = Cap
    BY <2>1
  <2>2. CASE n # Cap
    <3>1. n = Len(t) /\ Len(t) < Cap
      BY <1>5, <2>2, DnsOK
    <3>2. Len(t) < Cap + 1 /\ Len(t) < n + 1 /\ Cap + 1 \in Int /\ n + 1 \in Int
      BY <1>5, <3>1, DnsOK
    <3>3. SubSeq(t, Cap + 1, Len(t)) = <<>> /\ SubSeq(t, n + 1, Len(t)) = <<>>
      BY <1>5, <3>2, SubSeqEmpty
    <3> QED
      BY <3>3
  <2> QED
    BY <2>1, <2>2
<1> HIDE DEF n
<1> QED
  BY <1>2, <1>3, <1>4, <1>6, <1>7, <1>8

\* A put keeps the lru in order whatever it pushes out.
LEMMA PutStep ==
    ASSUME LruInv, NEW e \in Entry, InLimits(e), put(e), now' = now
    PROVE  LruInv'
<1>1. PICK t : \E n \in 0..Len(t) :
              /\ InFront(ll, t, e)
              /\ AfterUse(recent, recent', e.host)
              /\ CutTo(t, ll', n)
              /\ n <= Cap /\ (n < Len(t) => n = Cap)
              /\ idx' = (idx \cup {e.host}) \ HostsOf(SubSeq(t, n + 1, Len(t)))
  BY PutIs
<1>2. PICK n \in 0..Len(t) :
              /\ InFront(ll, t, e)
              /\ AfterUse(recent, recent', e.host)
              /\ CutTo(t, ll', n)
              /\ n <= Cap /\ (n < Len(t) => n = Cap)
              /\ idx' = (idx \cup {e.host}) \ HostsOf(SubSeq(t, n + 1, Len(t)))
  BY <1>1
<1>3. ByUse(t, recent')
  BY <1>2, ByUseFront DEF LruInv
<1>4. DOMAIN ll' = 1..n /\ \A i \in DOMAIN ll' : i \in DOMAIN t /\ ll'[i] = t[i]
  BY <1>2 DEF CutTo
<1>5. ByUse(ll', recent')
  BY <1>3, <1>4 DEF ByUse
<1>6. LruIsSound'
  <2>1. HostsOf(ll') = idx'
    BY <1>2 DEF CutTo, InFront, LruInv, LruIsSound
  <2>2. OneEach(ll') /\ Len(ll') <= Cap
    BY <1>2 DEF CutTo
  <2> QED
    BY <2>1, <2>2 DEF LruIsSound, OneEach, HostsOf
<1>7. KeptInLimits'
  <2> SUFFICES ASSUME NEW i \in DOMAIN ll' PROVE InLimits(ll[i])'
    BY DEF KeptInLimits
  <2>1. ll'[i] = e \/ \E a \in DOMAIN ll : ll'[i] = ll[a]
    BY <1>2, <1>4 DEF InFront
  <2>2. InLimits(ll'[i])
    BY <2>1 DEF LruInv, KeptInLimits
  <2> QED
    BY <2>2 DEF InLimits
<1>8. ll' \in Seq(Entry) /\ recent' \in Seq(Host) /\ UsedOnce(recent')
  BY <1>2 DEF CutTo, AfterUse
<1>9. idx' \in SUBSET Host
  BY <1>2 DEF LruInv, Entry
<1> QED
  BY <1>5, <1>6, <1>7, <1>8, <1>9 DEF LruInv, UsedOnce, ByUse

\* What Store puts is kept no longer than it may be.
LEMMA StoreStep ==
    ASSUME DnsInv, NEW c \in Caller, Store(c)
    PROVE  LruInv'
<1> DEFINE e == [host |-> caller[c].host, validUntil |-> caller[c].validUntil,
                 expiresAt |-> now + Kept(caller[c].left), putAt |-> now,
                 left |-> caller[c].left]
<1>1. caller[c] \in Fetched /\ put(e) /\ now' = now
  BY DEF Store
<1>2. now \in Time /\ now \in Nat /\ TTL \in Nat
  BY DnsOK DEF DnsInv, DnsTypeOK, Time
<1>3. caller[c].host \in Host /\ caller[c].validUntil \in Nat /\ caller[c].left \in Nat
  BY <1>1 DEF Fetched
<1>4. PICK k \in Nat : /\ k = Kept(caller[c].left) /\ k <= TTL
                       /\ caller[c].left > 0 => k <= caller[c].left
  BY <1>2, <1>3 DEF Kept
<1>5. e \in Entry
  BY <1>2, <1>3, <1>4 DEF Entry
<1>6. InLimits(e)
  BY <1>2, <1>3, <1>4 DEF InLimits
<1> HIDE DEF e
<1> QED
  BY <1>1, <1>5, <1>6, PutStep DEF DnsInv

\* A question to the local resolver.
LEMMA AskLocalIs ==
    ASSUME NEW h \in Host, now \in Time
    PROVE  AskLocal(h) \in Query
BY DEF AskLocal, Query, LocalQuery

\* Where a goroutine is after a backend's answer or error.
LEMMA BackendStep ==
    ASSUME DnsTypeOK, NEW c \in Caller, Backend(c)
    PROVE  /\ caller' \in [Caller -> {Idle} \cup Query \cup Fetched]
           /\ UNCHANGED <<setup, now, cache>>
<1>1. now \in Time /\ now \in Nat /\ now - 1 \in Nat
  BY DnsOK DEF DnsTypeOK, Time
<1>2. caller \in [Caller -> {Idle} \cup Query \cup Fetched]
  BY DEF DnsTypeOK
<1>3. ASSUME caller[c].pc \in {"service", "local"} PROVE caller[c] \in Query
  BY <1>2, <1>3 DEF Idle, Fetched
<1>4. ASSUME NEW until \in Nat, caller[c].pc \in {"service", "local"}, Answered(c, until)
      PROVE  /\ caller' \in [Caller -> {Idle} \cup Query \cup Fetched]
             /\ UNCHANGED <<setup, now, cache>>
  <2>1. caller[c].host \in Host
    BY <1>3, <1>4 DEF Query, ServiceQuery, LocalQuery
  <2>2. PICK v \in Nat :
            caller' = [caller EXCEPT ![c] =
                         [pc |-> "fetched", host |-> caller[c].host, validUntil |-> v,
                          left |-> Left(v)]]
    BY <1>4 DEF Answered
  <2>3. Left(v) \in Nat
    BY <1>1 DEF Left
  <2>4. [pc |-> "fetched", host |-> caller[c].host, validUntil |-> v, left |-> Left(v)]
          \in Fetched
    BY <2>1, <2>3 DEF Fetched
  <2> QED
    BY <1>2, <1>4, <2>2, <2>4 DEF Answered
<1>5. ASSUME Refused(c)
      PROVE  /\ caller' \in [Caller -> {Idle} \cup Query \cup Fetched]
             /\ UNCHANGED <<setup, now, cache>>
  BY <1>2, <1>5 DEF Refused
<1>6. CASE ServiceUnreachable(c)
  <2>1. caller[c] \in Query /\ UNCHANGED <<setup, now, cache>>
    BY <1>3, <1>6 DEF ServiceUnreachable
  <2>2. AskLocal(caller[c].host) \in Query
    BY <1>1, <2>1, AskLocalIs DEF Query, ServiceQuery, LocalQuery
  <2>3. caller' = [caller EXCEPT ![c] = AskLocal(caller[c].host)]
    BY <1>6 DEF ServiceUnreachable
  <2> QED
    BY <1>2, <2>1, <2>2, <2>3
<1>7. ASSUME NEW until \in {0, now - 1} \cup {now + d : d \in Lifetime}, ServiceAnswers(c, until)
      PROVE  /\ caller' \in [Caller -> {Idle} \cup Query \cup Fetched]
             /\ UNCHANGED <<setup, now, cache>>
  <2>1. until \in Nat
    BY <1>1, DnsOK
  <2> QED
    BY <1>4, <1>7, <2>1 DEF ServiceAnswers
<1>8. CASE LocalAnswers(c)
  <2>1. caller[c] \in LocalQuery
    BY <1>3, <1>8 DEF LocalAnswers, Query, ServiceQuery
  <2>2. caller[c].since + LocalTTL \in Nat
    BY <2>1, DnsOK DEF LocalQuery, Time
  <2> QED
    BY <1>4, <1>8, <2>2 DEF LocalAnswers
<1> QED
  BY <1>5, <1>6, <1>7, <1>8 DEF Backend, ServiceRefuses, LocalFails

-----------------------------------------------------------------------------
(* The theorems. *)

\* newCachingResolver makes an empty cache.
LEMMA InitInv == Init => DnsInv
<1> SUFFICES ASSUME Init PROVE DnsInv
  OBVIOUS
<1>1. DnsTypeOK
  <2>1. now \in Time
    BY DnsOK DEF Init, Time
  <2>2. caller \in [Caller -> {Idle} \cup Query \cup Fetched]
    BY DEF Init
  <2>3. ll \in Seq(Entry) /\ recent \in Seq(Host) /\ idx \in SUBSET Host
    BY DEF Init
  <2> QED
    BY <2>1, <2>2, <2>3, Zenon DEF Init, DnsTypeOK
<1>2. DOMAIN ll = {} /\ DOMAIN recent = {} /\ Len(ll) = 0
  BY DEF Init
<1>3. LruIsSound
  <2>1. Len(ll) <= Cap
    BY <1>2, DnsOK
  <2>2. idx = HostsOf(ll)
    BY <1>2 DEF Init, HostsOf
  <2> QED
    BY <1>2, <2>1, <2>2 DEF LruIsSound
<1>4. KeptInLimits /\ UsedOnce(recent) /\ ByUse(ll, recent)
  BY <1>2 DEF KeptInLimits, UsedOnce, ByUse
<1> QED
  BY <1>1, <1>3, <1>4 DEF DnsInv, LruInv, DnsTypeOK

\* Every step keeps the invariant.
LEMMA NextInv ==
    ASSUME DnsInv, [Next]_vars
    PROVE  DnsInv'
<1>1. DnsTypeOK /\ LruInv /\ now \in Time /\ now \in Nat
  BY DnsOK DEF DnsInv, DnsTypeOK, Time
<1>2. caller \in [Caller -> {Idle} \cup Query \cup Fetched]
  BY <1>1 DEF DnsTypeOK
<1>3. ASSUME LruInv', now' \in Time, UNCHANGED setup,
             caller' \in [Caller -> {Idle} \cup Query \cup Fetched]
      PROVE  DnsInv'
  <2>1. resolveAll' \in BOOLEAN /\ serviceURL' \in BOOLEAN
    BY <1>1, <1>3 DEF DnsTypeOK, setup
  <2>2. ll' \in Seq(Entry) /\ recent' \in Seq(Host) /\ idx' \in SUBSET Host
    BY <1>3 DEF LruInv
  <2> QED
    BY <1>3, <2>1, <2>2, Zenon DEF DnsInv, DnsTypeOK
<1>4. ASSUME NEW h \in Host, CacheHit(h) PROVE DnsInv'
  BY <1>1, <1>2, <1>3, <1>4, HitStep DEF CacheHit
<1>5. ASSUME NEW h \in Host, NEW c \in Caller, CacheMiss(c, h) PROVE DnsInv'
  <2>1. PICK q \in Query : caller' = [caller EXCEPT ![c] = q]
    <3>1. [pc |-> "service", host |-> h] \in Query
      BY DEF Query, ServiceQuery
    <3> QED
      BY <1>1, <1>5, <3>1, AskLocalIs DEF CacheMiss
  <2>2. caller' \in [Caller -> {Idle} \cup Query \cup Fetched]
    BY <1>2, <2>1
  <2> QED
    BY <1>1, <1>3, <1>5, <2>2, MissStep DEF CacheMiss
<1>6. ASSUME NEW c \in Caller, Store(c) PROVE DnsInv'
  <2>1. caller' \in [Caller -> {Idle} \cup Query \cup Fetched]
    BY <1>2, <1>6 DEF Store
  <2> QED
    BY <1>1, <1>3, <1>6, <2>1, StoreStep DEF Store
<1>7. ASSUME NEW c \in Caller, Backend(c) PROVE DnsInv'
  <2>1. /\ caller' \in [Caller -> {Idle} \cup Query \cup Fetched]
        /\ UNCHANGED <<setup, now, cache>>
    BY <1>1, <1>7, BackendStep
  <2> QED
    BY <1>1, <1>3, <2>1, LruKept
<1>8. CASE Tick
  <2>1. now' \in Time /\ now' \in Nat /\ now <= now'
    BY <1>1, <1>8, DnsOK DEF Tick, Time
  <2> QED
    BY <1>1, <1>2, <1>3, <1>8, <2>1, LruKept DEF Tick
<1>9. CASE UNCHANGED vars
  <2>1. UNCHANGED <<setup, now, cache, caller>>
    BY <1>9 DEF vars, setup, cache
  <2> QED
    BY <1>1, <1>2, <1>3, <2>1, LruKept
<1> QED
  BY <1>4, <1>5, <1>6, <1>7, <1>8, <1>9 DEF Next

\* The invariant holds in every reachable state.
LEMMA Invariance == Spec => []DnsInv
<1>1. DnsInv /\ [Next]_vars => DnsInv'
  BY NextInv
<1> QED
  BY <1>1, InitInv, PTL DEF Spec

\* The caches, the history and every goroutine of the resolver stay well typed.
THEOREM DnsTypeCorrect == Spec => []DnsTypeOK
<1>1. DnsInv => DnsTypeOK
  BY DEF DnsInv
<1> QED
  BY <1>1, Invariance, PTL

\* The list and the map of the lru agree, no host is in it twice, and it holds
\* no more than CacheCapacity, however gets and puts of goroutines interleave.
THEOREM LruSound == Spec => []LruIsSound
<1>1. DnsInv => LruIsSound
  BY DEF DnsInv, LruInv
<1> QED
  BY <1>1, Invariance, PTL

\* What a get returns was put within CacheTTL, and within the lifetime that the
\* answer had left when it came.  Of answers that have none left nothing more is
\* said: they break ServedIsValid.
THEOREM LimitsKept == Spec => []ServedWithinLimits
<1>1. ASSUME DnsInv PROVE ServedWithinLimits
  <2> SUFFICES ASSUME NEW i \in DOMAIN ll, ~Expired(ll[i])
               PROVE  /\ now <= ll[i].putAt + TTL
                      /\ ll[i].left > 0 => now <= ll[i].putAt + ll[i].left
    BY DEF ServedWithinLimits
  <2>1. InLimits(ll[i]) /\ now \in Nat /\ TTL \in Nat
    BY <1>1, DnsOK DEF DnsInv, LruInv, KeptInLimits, DnsTypeOK, Time
  <2>2. /\ ll[i].putAt \in Nat /\ ll[i].expiresAt \in Nat
        /\ ll[i].validUntil \in Nat /\ ll[i].left \in Nat
    <3>1. ll[i] \in Entry
      BY <1>1, LenProperties, ElementOfSeq DEF DnsInv, LruInv
    <3> QED
      BY <3>1 DEF Entry, Time
  <2> QED
    BY <2>1, <2>2 DEF InLimits, Expired
<1> QED
  BY <1>1, Invariance, PTL

\* A put pushes out the host that was used least recently, and only when the
\* cache is full of others.
THEOREM LeastRecentEvicted == Spec => EvictsLeastRecent
<1> DEFINE Evicts ==
        \A c \in Caller, h \in Host :
            Store(c) /\ h \in idx /\ h \notin idx' =>
                /\ Len(ll') = Cap
                /\ \A g \in idx' : \E i, j \in DOMAIN recent' :
                      recent'[i] = g /\ recent'[j] = h /\ i < j
<1>1. ASSUME DnsInv, [Next]_vars PROVE [Evicts]_vars
  <2> SUFFICES ASSUME NEW c \in Caller, NEW h \in Host, Store(c), h \in idx, h \notin idx'
               PROVE  /\ Len(ll') = Cap
                      /\ \A g \in idx' : \E i, j \in DOMAIN recent' :
                            recent'[i] = g /\ recent'[j] = h /\ i < j
    OBVIOUS
  <2>1. PICK e \in Entry : put(e)
    <3>1. put([host |-> caller[c].host, validUntil |-> caller[c].validUntil,
               expiresAt |-> now + Kept(caller[c].left), putAt |-> now,
               left |-> caller[c].left])
      BY DEF Store
    <3>2. /\ caller[c].host \in Host /\ caller[c].validUntil \in Nat /\ caller[c].left \in Nat
          /\ now \in Time /\ now \in Nat /\ TTL \in Nat
      BY <1>1, DnsOK DEF Store, Fetched, DnsInv, DnsTypeOK, Time
    <3>3. now + Kept(caller[c].left) \in Nat
      BY <3>2 DEF Kept
    <3> QED
      BY <3>1, <3>2, <3>3 DEF Entry
  <2>2. LruInv /\ LruInv'
    BY <1>1, NextInv DEF DnsInv
  <2>3. PICK t : \E n \in 0..Len(t) :
              /\ InFront(ll, t, e)
              /\ AfterUse(recent, recent', e.host)
              /\ CutTo(t, ll', n)
              /\ n <= Cap /\ (n < Len(t) => n = Cap)
              /\ idx' = (idx \cup {e.host}) \ HostsOf(SubSeq(t, n + 1, Len(t)))
    BY <2>1, <2>2, PutIs
  <2>4. PICK n \in 0..Len(t) :
              /\ InFront(ll, t, e)
              /\ AfterUse(recent, recent', e.host)
              /\ CutTo(t, ll', n)
              /\ n <= Cap /\ (n < Len(t) => n = Cap)
              /\ idx' = (idx \cup {e.host}) \ HostsOf(SubSeq(t, n + 1, Len(t)))
    BY <2>3
  <2>5. PICK j \in DOMAIN t : n < j /\ t[j].host = h
    BY <2>4 DEF CutTo
  <2>6. Len(ll') = Cap
    BY <2>4, <2>5 DEF CutTo, InFront
  <2>7. ByUse(t, recent')
    BY <2>2, <2>4, ByUseFront DEF LruInv
  <2>8. ASSUME NEW g \in idx'
        PROVE  \E p, q \in DOMAIN recent' : recent'[p] = g /\ recent'[q] = h /\ p < q
    <3>1. PICK i \in DOMAIN ll' : ll'[i].host = g
      BY <2>2 DEF LruInv, LruIsSound, HostsOf
    <3>2. i \in DOMAIN t /\ t[i].host = g /\ i < j
      BY <2>4, <2>5, <3>1 DEF CutTo, InFront
    <3> QED
      BY <2>5, <2>7, <3>2 DEF ByUse
  <2> QED
    BY <2>6, <2>8
<1> QED
  BY <1>1, Invariance, PTL DEF Spec, EvictsLeastRecent
=============================================================================
