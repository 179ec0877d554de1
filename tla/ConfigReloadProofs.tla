-------------------------- MODULE ConfigReloadProofs --------------------------
(***************************************************************************)
(* Proofs about ConfigReload for any manifest, overrides, secrets, key and *)
(* lists, and any number of edits, notifications and lost connections.     *)
(***************************************************************************)
EXTENDS ConfigReload, SequenceTheorems, TLAPS

PCs == {"boot", "apply", "read", "acquire", "listen", "wait",
        "backoff", "relisten", "ended"}

-----------------------------------------------------------------------------
(* The notifications on their way. *)

\* A notification that arrives is in the inbox, and none is pushed out by it.
LEMMA OwnAfterAppend ==
    ASSUME NEW s \in Seq({"own", "other"}), NEW e \in {"own", "other"}
    PROVE  /\ Append(s, e) \in Seq({"own", "other"})
           /\ Contains(Append(s, e), e)
           /\ Contains(s, "own") => Contains(Append(s, e), "own")
<1>1. /\ Append(s, e) \in Seq({"own", "other"})
      /\ Len(Append(s, e)) = Len(s) + 1
      /\ Append(s, e)[Len(s) + 1] = e
      /\ \A i \in 1..Len(s) : Append(s, e)[i] = s[i]
  OBVIOUS
<1>2. Len(s) \in Nat
  OBVIOUS
<1>3. Len(s) + 1 \in 1..(Len(s) + 1) /\ 1..Len(s) \subseteq 1..(Len(s) + 1)
  BY <1>2
<1> QED
  BY <1>1, <1>3 DEF Contains

\* Reading a foreign notification loses no own one.
LEMMA OwnAfterTail ==
    ASSUME NEW s \in Seq({"own", "other"}), s # <<>>
    PROVE  /\ Tail(s) \in Seq({"own", "other"})
           /\ Head(s) # "own" /\ Contains(s, "own") => Contains(Tail(s), "own")
<1>1. /\ Tail(s) \in Seq({"own", "other"})
      /\ Len(Tail(s)) = Len(s) - 1
      /\ \A i \in 1..Len(Tail(s)) : Tail(s)[i] = s[i + 1]
      /\ Head(s) = s[1]
      /\ Len(s) \in Nat
  OBVIOUS
<1>2. ASSUME Head(s) # "own", Contains(s, "own") PROVE Contains(Tail(s), "own")
  <2>1. PICK i \in 1..Len(s) : s[i] = "own"
    BY <1>2 DEF Contains
  <2>2. i # 1
    BY <2>1, <1>1, <1>2
  <2>3. i - 1 \in 1..Len(Tail(s)) /\ (i - 1) + 1 = i
    BY <2>1, <2>2, <1>1
  <2> QED
    BY <2>1, <2>3, <1>1 DEF Contains
<1> QED
  BY <1>1, <1>2

\* A cut loses an own notification only from the part that it drops.
LEMMA OwnAfterCut ==
    ASSUME NEW s \in Seq({"own", "other"}), NEW n \in 0..Len(s), Contains(s, "own")
    PROVE  Contains(SubSeq(s, 1, n), "own") \/ Contains(SubSeq(s, n + 1, Len(s)), "own")
<1>1. PICK i \in 1..Len(s) : s[i] = "own"
  BY DEF Contains
<1>2. Len(s) \in Nat /\ n \in Nat /\ n <= Len(s)
  OBVIOUS
<1>3. CASE i <= n
  <2>1. Len(SubSeq(s, 1, n)) = n /\ SubSeq(s, 1, n)[i] = s[i]
    BY <1>1, <1>2, <1>3
  <2> QED
    BY <1>1, <1>2, <1>3, <2>1 DEF Contains
<1>4. CASE i > n
  <2>1. i - n \in 1..(Len(s) - n) /\ (n + 1) + (i - n) - 1 = i
    BY <1>1, <1>2, <1>4
  <2>2. /\ Len(SubSeq(s, n + 1, Len(s))) = Len(s) - n
        /\ SubSeq(s, n + 1, Len(s))[i - n] = s[i]
    BY <1>1, <1>2, <2>1
  <2> QED
    BY <1>1, <2>1, <2>2 DEF Contains
<1> QED
  BY <1>1, <1>2, <1>3, <1>4

-----------------------------------------------------------------------------
(* The configs that are computed are configs. *)

\* The empty override is a config.
LEMMA NoOverrideIsConfig == IsConfig(NoOverride)
BY DEF IsConfig, NoOverride

\* mergeConfigInto makes a config of two configs.
LEMMA MergeIsConfig ==
    ASSUME NEW a, NEW b, IsConfig(a), IsConfig(b)
    PROVE  IsConfig(mergeConfigInto(a, b))
<1> DEFINE c == mergeConfigInto(a, b)
<1>1. DOMAIN c = DOMAIN a \cup DOMAIN b
  BY DEF mergeConfigInto
<1>2. c = [n \in DOMAIN c |-> c[n]]
  BY DEF mergeConfigInto
<1>3. ASSUME NEW n \in DOMAIN c, IsMap(c[n]) PROVE IsTree(c[n])
  <2>1. CASE n \notin DOMAIN b
    BY <1>1, <1>3, <2>1 DEF mergeConfigInto, IsConfig
  <2>2. CASE n \in DOMAIN b /\ n \in DOMAIN a /\ IsMap(a[n]) /\ IsMap(b[n])
    <3>1. IsTree(a[n]) /\ IsTree(b[n])
      BY <2>2 DEF IsConfig
    <3>2. c[n] = [s \in DOMAIN a[n] \cup DOMAIN b[n] |->
                     IF s \in DOMAIN b[n] THEN b[n][s] ELSE a[n][s]]
      BY <1>1, <2>2 DEF mergeConfigInto
    <3> QED
      BY <3>1, <3>2 DEF IsTree
  <2>3. CASE n \in DOMAIN b /\ ~(n \in DOMAIN a /\ IsMap(a[n]) /\ IsMap(b[n]))
    <3>1. c[n] = b[n]
      BY <1>1, <2>3 DEF mergeConfigInto
    <3> QED
      BY <1>3, <2>3, <3>1 DEF IsConfig
  <2> QED
    BY <2>1, <2>2, <2>3
<1> QED
  BY <1>1, <1>2, <1>3 DEF IsConfig

\* A secret that is opened, or left as it is, is a scalar.
LEMMA OpenedIsScalar ==
    ASSUME NEW k, NEW p, NEW v \in Scalar
    PROVE  Opened(k, p, v) \in Scalar
BY ConfigOK DEF Opened

\* DecryptFields makes a config of a config.
LEMMA DecryptIsConfig ==
    ASSUME NEW k, NEW c, IsConfig(c)
    PROVE  IsConfig(DecryptFields(c, k))
<1> DEFINE d == DecryptFields(c, k)
<1>1. DOMAIN d = DOMAIN c /\ d = [n \in DOMAIN d |-> d[n]]
  BY DEF DecryptFields
<1>2. ASSUME NEW n \in DOMAIN d, IsMap(d[n]) PROVE IsTree(d[n])
  <2>1. CASE IsMap(c[n])
    <3>1. d[n] = [s \in DOMAIN c[n] |-> Opened(k, <<n, s>>, c[n][s])]
      BY <1>1, <2>1 DEF DecryptFields
    <3>2. IsTree(c[n])
      BY <1>1, <2>1 DEF IsConfig
    <3> QED
      BY <3>1, <3>2, OpenedIsScalar DEF IsTree
  <2>2. CASE ~IsMap(c[n])
    <3>1. d[n] = Opened(k, <<n>>, c[n])
      BY <1>1, <2>2 DEF DecryptFields
    <3> QED
      BY <1>2, <2>2, <3>1, OpenedIsScalar DEF IsMap
  <2> QED
    BY <2>1, <2>2
<1> QED
  BY <1>1, <1>2 DEF IsConfig

\* The lists that were fetched are added as one more map.
LEMMA InjectIsConfig ==
    ASSUME NEW c, IsConfig(c), NEW fetched \in SUBSET ListName
    PROVE  IsConfig(injectExternalLists(c, fetched))
<1>1. CASE fetched = {}
  BY <1>1 DEF injectExternalLists
<1>2. CASE fetched # {}
  <2> DEFINE d == injectExternalLists(c, fetched)
  <2>1. d = [n \in DOMAIN c \cup {"lists"} |->
                IF n = "lists" THEN [l \in fetched |-> Content] ELSE c[n]]
    BY <1>2 DEF injectExternalLists
  <2>2. DOMAIN d \subseteq Name /\ d = [n \in DOMAIN d |-> d[n]]
    BY <2>1, ConfigOK DEF IsConfig
  <2>3. IsTree([l \in fetched |-> Content])
    BY ConfigOK DEF IsTree
  <2> QED
    BY <2>1, <2>2, <2>3 DEF IsConfig
<1> QED
  BY <1>1, <1>2
-----------------------------------------------------------------------------
(* Opening in place does not change what a manifest means. *)

\* What IsTree describes is told from a scalar.
LEMMA TreeIsMap == ASSUME NEW t, IsTree(t) PROVE IsMap(t)
BY ConfigOK DEF IsTree, IsMap

\* Opening is idempotent: a plaintext is no ciphertext.
LEMMA OpenedTwice ==
    ASSUME NEW k, NEW p, NEW v
    PROVE  Opened(k, p, Opened(k, p, v)) = Opened(k, p, v)
BY ConfigOK DEF Opened

\* The config that override o should give, and how the manifest may differ
\* from the one that was shipped.
Meant(o, k) == DecryptFields(mergeConfigInto(Shipped, o), k)

OpenedInPlace(m, k) ==
    /\ IsConfig(m) /\ DOMAIN m = DOMAIN Shipped
    /\ \A n \in DOMAIN m :
          \/ m[n] = Shipped[n]
          \/ IsMap(Shipped[n]) /\ m[n] = DecryptFields(Shipped, k)[n]

\* Opening in place leaves the structure of the manifest alone.
LEMMA SameKind ==
    ASSUME NEW k, NEW m, OpenedInPlace(m, k), NEW n \in DOMAIN m
    PROVE  /\ IsMap(m[n]) <=> IsMap(Shipped[n])
           /\ IsMap(m[n]) =>
                /\ DOMAIN m[n] = DOMAIN Shipped[n]
                /\ \A s \in DOMAIN m[n] :
                      Opened(k, <<n, s>>, m[n][s]) = Opened(k, <<n, s>>, Shipped[n][s])
<1>1. CASE m[n] = Shipped[n]
  BY <1>1
<1>2. CASE IsMap(Shipped[n]) /\ m[n] = DecryptFields(Shipped, k)[n]
  <2>1. n \in DOMAIN Shipped
    BY DEF OpenedInPlace
  <2>2. m[n] = [s \in DOMAIN Shipped[n] |-> Opened(k, <<n, s>>, Shipped[n][s])]
    BY <1>2, <2>1 DEF DecryptFields
  <2>3. IsTree(Shipped[n])
    BY <1>2, <2>1, ConfigOK DEF IsConfig
  <2>4. IsTree(m[n])
    BY <2>2, <2>3, OpenedIsScalar DEF IsTree
  <2> QED
    BY <1>2, <2>2, <2>4, TreeIsMap, OpenedTwice
<1> QED
  BY <1>1, <1>2 DEF OpenedInPlace

\* A merge with a manifest that earlier reloads opened in place, opened, is
\* what the shipped manifest would give.
LEMMA SameMeaning ==
    ASSUME NEW k, NEW m, OpenedInPlace(m, k), NEW o, IsConfig(o)
    PROVE  DecryptFields(mergeConfigInto(m, o), k) = Meant(o, k)
<1> DEFINE a == mergeConfigInto(m, o)
           b == mergeConfigInto(Shipped, o)
<1>1. DOMAIN a = DOMAIN m \cup DOMAIN o /\ DOMAIN b = DOMAIN m \cup DOMAIN o
  BY DEF mergeConfigInto, OpenedInPlace
<1>2. ASSUME NEW n \in DOMAIN a PROVE DecryptFields(a, k)[n] = DecryptFields(b, k)[n]
  <2>1. CASE n \notin DOMAIN o
    <3>1. a[n] = m[n] /\ b[n] = Shipped[n] /\ n \in DOMAIN m /\ n \in DOMAIN Shipped
      BY <1>1, <1>2, <2>1 DEF mergeConfigInto, OpenedInPlace
    <3>2. CASE IsMap(m[n])
      <4>1. /\ DecryptFields(a, k)[n] = [s \in DOMAIN m[n] |-> Opened(k, <<n, s>>, m[n][s])]
            /\ DecryptFields(b, k)[n] =
                  [s \in DOMAIN Shipped[n] |-> Opened(k, <<n, s>>, Shipped[n][s])]
        BY <1>1, <1>2, <3>1, <3>2, SameKind DEF DecryptFields
      <4> HIDE DEF a, b
      <4> QED
        BY <3>1, <3>2, <4>1, SameKind
    <3>3. CASE ~IsMap(m[n])
      <4>1. m[n] = Shipped[n]
        BY <3>1, <3>3, SameKind DEF OpenedInPlace
      <4> QED
        BY <1>1, <3>1, <4>1 DEF DecryptFields
    <3> QED
      BY <3>2, <3>3
  <2>2. CASE n \in DOMAIN o /\ n \in DOMAIN m /\ IsMap(m[n]) /\ IsMap(o[n])
    <3>1. n \in DOMAIN Shipped /\ IsMap(Shipped[n]) /\ DOMAIN Shipped[n] = DOMAIN m[n]
      BY <2>2, SameKind DEF OpenedInPlace
    <3>2. /\ a[n] = [s \in DOMAIN m[n] \cup DOMAIN o[n] |->
                        IF s \in DOMAIN o[n] THEN o[n][s] ELSE m[n][s]]
          /\ b[n] = [s \in DOMAIN m[n] \cup DOMAIN o[n] |->
                        IF s \in DOMAIN o[n] THEN o[n][s] ELSE Shipped[n][s]]
      BY <1>1, <2>2, <3>1 DEF mergeConfigInto
    <3>3. IsTree(m[n]) /\ IsTree(o[n]) /\ IsTree(Shipped[n])
      BY <2>2, <3>1, ConfigOK DEF IsConfig, OpenedInPlace
    <3>4. IsTree(a[n]) /\ IsTree(b[n])
      BY <3>1, <3>2, <3>3 DEF IsTree
    <3>5. IsMap(a[n]) /\ IsMap(b[n])
      BY <3>4, TreeIsMap
    <3>6. ASSUME NEW s \in DOMAIN m[n] \cup DOMAIN o[n]
          PROVE  Opened(k, <<n, s>>, a[n][s]) = Opened(k, <<n, s>>, b[n][s])
      BY <2>2, <3>2, SameKind
    <3>7. /\ DecryptFields(a, k)[n] = [s \in DOMAIN a[n] |-> Opened(k, <<n, s>>, a[n][s])]
          /\ DecryptFields(b, k)[n] = [s \in DOMAIN b[n] |-> Opened(k, <<n, s>>, b[n][s])]
      BY <1>1, <1>2, <3>5 DEF DecryptFields
    <3>8. DOMAIN a[n] = DOMAIN m[n] \cup DOMAIN o[n] /\ DOMAIN b[n] = DOMAIN a[n]
      BY <3>2
    <3> HIDE DEF a, b
    <3> QED
      BY <3>6, <3>7, <3>8
  <2>3. CASE n \in DOMAIN o /\ ~(n \in DOMAIN m /\ IsMap(m[n]) /\ IsMap(o[n]))
    <3>1. a[n] = o[n]
      BY <1>1, <2>3 DEF mergeConfigInto
    <3>2. n \in DOMAIN Shipped /\ IsMap(Shipped[n]) => n \in DOMAIN m /\ IsMap(m[n])
      BY SameKind DEF OpenedInPlace
    <3>3. b[n] = o[n]
      BY <1>1, <2>3, <3>2 DEF mergeConfigInto
    <3> QED
      BY <1>1, <3>1, <3>3 DEF DecryptFields
  <2> QED
    BY <2>1, <2>2, <2>3
<1>3. /\ DecryptFields(a, k) = [n \in DOMAIN a |-> DecryptFields(a, k)[n]]
      /\ DecryptFields(b, k) = [n \in DOMAIN b |-> DecryptFields(b, k)[n]]
  BY DEF DecryptFields
<1> HIDE DEF a, b
<1>4. DecryptFields(a, k) = DecryptFields(b, k)
  BY <1>1, <1>2, <1>3
<1> QED
  BY <1>4 DEF Meant, a, b

\* A reload opens the manifest's maps, and does nothing else to it.
LEMMA TouchedIsOpened ==
    ASSUME OpenedInPlace(manifest, keyed), NEW o, IsConfig(o)
    PROVE  OpenedInPlace(Touched(o, DecryptFields(mergeConfigInto(manifest, o), keyed)), keyed)
<1> DEFINE cfg == DecryptFields(mergeConfigInto(manifest, o), keyed)
           t == Touched(o, cfg)
<1>1. cfg = Meant(o, keyed) /\ IsConfig(cfg)
  BY SameMeaning, MergeIsConfig, DecryptIsConfig DEF OpenedInPlace
<1>2. DOMAIN cfg = DOMAIN manifest \cup DOMAIN o
  BY DEF DecryptFields, mergeConfigInto
<1> HIDE DEF cfg
<1>3. /\ DOMAIN t = DOMAIN manifest /\ t = [n \in DOMAIN t |-> t[n]]
      /\ \A n \in DOMAIN t : t[n] = IF IsMap(manifest[n]) /\ n \notin DOMAIN o
                                   THEN cfg[n] ELSE manifest[n]
  BY DEF Touched
<1>4. IsConfig(t)
  BY <1>1, <1>2, <1>3 DEF OpenedInPlace, IsConfig
<1>5. ASSUME NEW n \in DOMAIN t, IsMap(manifest[n]), n \notin DOMAIN o
      PROVE  IsMap(Shipped[n]) /\ t[n] = DecryptFields(Shipped, keyed)[n]
  <2>1. n \in DOMAIN Shipped /\ IsMap(Shipped[n])
    BY <1>3, <1>5, SameKind DEF OpenedInPlace
  <2>2. /\ n \in DOMAIN mergeConfigInto(Shipped, o)
        /\ mergeConfigInto(Shipped, o)[n] = Shipped[n]
    BY <1>5, <2>1 DEF mergeConfigInto
  <2>3. Meant(o, keyed)[n] = DecryptFields(Shipped, keyed)[n]
    BY <2>1, <2>2 DEF Meant, DecryptFields
  <2> QED
    BY <1>1, <1>3, <1>5, <2>1, <2>3
<1> QED
  BY <1>3, <1>4, <1>5 DEF OpenedInPlace, cfg

-----------------------------------------------------------------------------
(* What a config means, leaf by leaf. *)

\* What a leaf of a config is.
LEMMA LeafOf ==
    ASSUME NEW c, NEW l
    PROVE  l \in Leaves(c) <=>
             \E n \in DOMAIN c :
                \/ ~IsMap(c[n]) /\ l = <<<<n>>, c[n]>>
                \/ IsMap(c[n]) /\ \E s \in DOMAIN c[n] : l = <<<<n, s>>, c[n][s]>>
BY DEF Leaves

\* DecryptFields opens each leaf where it is.
LEMMA LeavesOpened ==
    ASSUME NEW k, NEW c, IsConfig(c)
    PROVE  Leaves(DecryptFields(c, k)) = {<<l[1], Opened(k, l[1], l[2])>> : l \in Leaves(c)}
<1> DEFINE d == DecryptFields(c, k)
<1>1. DOMAIN d = DOMAIN c
  BY DEF DecryptFields
<1>2. ASSUME NEW n \in DOMAIN c, ~IsMap(c[n])
      PROVE  ~IsMap(d[n]) /\ d[n] = Opened(k, <<n>>, c[n])
  BY <1>2, OpenedIsScalar DEF DecryptFields, IsMap
<1>3. ASSUME NEW n \in DOMAIN c, IsMap(c[n])
      PROVE  /\ IsMap(d[n]) /\ DOMAIN d[n] = DOMAIN c[n]
             /\ \A s \in DOMAIN c[n] : d[n][s] = Opened(k, <<n, s>>, c[n][s])
  <2>1. d[n] = [s \in DOMAIN c[n] |-> Opened(k, <<n, s>>, c[n][s])]
    BY <1>3 DEF DecryptFields
  <2>2. IsTree(c[n])
    BY <1>3 DEF IsConfig
  <2>3. IsTree(d[n])
    BY <2>1, <2>2, OpenedIsScalar DEF IsTree
  <2> QED
    BY <2>1, <2>3, TreeIsMap
<1> HIDE DEF d
<1>4. ASSUME NEW l \in Leaves(d) PROVE \E m \in Leaves(c) : l = <<m[1], Opened(k, m[1], m[2])>>
  <2>1. PICK n \in DOMAIN d : \/ ~IsMap(d[n]) /\ l = <<<<n>>, d[n]>>
                              \/ IsMap(d[n]) /\ \E s \in DOMAIN d[n] : l = <<<<n, s>>, d[n][s]>>
    BY <1>4, LeafOf
  <2>2. CASE ~IsMap(c[n])
    <3>1. <<<<n>>, c[n]>> \in Leaves(c)
      BY <1>1, <2>2, LeafOf
    <3> QED
      BY <1>1, <1>2, <2>1, <2>2, <3>1
  <2>3. CASE IsMap(c[n])
    <3>1. PICK s \in DOMAIN c[n] : l = <<<<n, s>>, d[n][s]>>
      BY <1>1, <1>3, <2>1, <2>3
    <3>2. <<<<n, s>>, c[n][s]>> \in Leaves(c)
      BY <1>1, <2>3, LeafOf
    <3> QED
      BY <1>1, <1>3, <2>3, <3>1, <3>2
  <2> QED
    BY <2>2, <2>3
<1>5. ASSUME NEW m \in Leaves(c) PROVE <<m[1], Opened(k, m[1], m[2])>> \in Leaves(d)
  <2>1. PICK n \in DOMAIN c : \/ ~IsMap(c[n]) /\ m = <<<<n>>, c[n]>>
                              \/ IsMap(c[n]) /\ \E s \in DOMAIN c[n] : m = <<<<n, s>>, c[n][s]>>
    BY <1>5, LeafOf
  <2>2. CASE ~IsMap(c[n])
    BY <1>1, <1>2, <2>1, <2>2, LeafOf
  <2>3. CASE IsMap(c[n])
    <3>1. PICK s \in DOMAIN c[n] : m = <<<<n, s>>, c[n][s]>>
      BY <2>1, <2>3
    <3>2. <<<<n, s>>, d[n][s]>> \in Leaves(d)
      BY <1>1, <1>3, <2>3, LeafOf
    <3> QED
      BY <1>3, <2>3, <3>1, <3>2
  <2> QED
    BY <2>2, <2>3
<1> QED
  BY <1>4, <1>5 DEF d

\* Leaf by leaf, a merge is the override, and the rest where it is silent.
LEMMA LeavesMerged ==
    ASSUME NEW a, NEW o, IsConfig(a), IsConfig(o)
    PROVE  Leaves(mergeConfigInto(a, o)) =
              Leaves(o) \cup {m \in Leaves(a) : ~Shadowed(o, m[1])}
<1> DEFINE c == mergeConfigInto(a, o)
           Both(n) == n \in DOMAIN a /\ n \in DOMAIN o /\ IsMap(a[n]) /\ IsMap(o[n])
<1>1. DOMAIN c = DOMAIN a \cup DOMAIN o
  BY DEF mergeConfigInto
<1>2. \A n \in DOMAIN a \ DOMAIN o : c[n] = a[n]
  BY DEF mergeConfigInto
<1>3. \A n \in DOMAIN o : ~Both(n) => c[n] = o[n]
  BY DEF mergeConfigInto
<1>4. ASSUME NEW n, Both(n)
      PROVE  /\ IsMap(c[n]) /\ DOMAIN c[n] = DOMAIN a[n] \cup DOMAIN o[n]
             /\ \A s \in DOMAIN o[n] : c[n][s] = o[n][s]
             /\ \A s \in DOMAIN a[n] \ DOMAIN o[n] : c[n][s] = a[n][s]
  <2>1. c[n] = [s \in DOMAIN a[n] \cup DOMAIN o[n] |->
                   IF s \in DOMAIN o[n] THEN o[n][s] ELSE a[n][s]]
    BY <1>4 DEF mergeConfigInto
  <2>2. IsTree(a[n]) /\ IsTree(o[n])
    BY <1>4 DEF IsConfig
  <2>3. IsTree(c[n])
    BY <2>1, <2>2 DEF IsTree
  <2> QED
    BY <2>1, <2>3, TreeIsMap
<1>5. \A n, s : /\ Shadowed(o, <<n>>) <=> n \in DOMAIN o
                /\ Shadowed(o, <<n, s>>) <=>
                      n \in DOMAIN o /\ (IsMap(o[n]) => s \in DOMAIN o[n])
  BY DEF Shadowed
<1> HIDE DEF c
<1>6. ASSUME NEW l \in Leaves(c)
      PROVE  l \in Leaves(o) \/ (l \in Leaves(a) /\ ~Shadowed(o, l[1]))
  <2>1. PICK n \in DOMAIN c : \/ ~IsMap(c[n]) /\ l = <<<<n>>, c[n]>>
                              \/ IsMap(c[n]) /\ \E s \in DOMAIN c[n] : l = <<<<n, s>>, c[n][s]>>
    BY <1>6, LeafOf
  <2>2. CASE Both(n)
    <3>1. PICK s \in DOMAIN c[n] : l = <<<<n, s>>, c[n][s]>>
      BY <1>4, <2>1, <2>2
    <3>2. CASE s \in DOMAIN o[n]
      <4>1. l = <<<<n, s>>, o[n][s]>>
        BY <1>4, <2>2, <3>1, <3>2
      <4> QED
        BY <2>2, <3>2, <4>1, LeafOf
    <3>3. CASE s \notin DOMAIN o[n]
      <4>1. l = <<<<n, s>>, a[n][s]>> /\ s \in DOMAIN a[n]
        BY <1>4, <2>2, <3>1, <3>3
      <4>2. l \in Leaves(a)
        BY <2>2, <4>1, LeafOf
      <4> QED
        BY <1>5, <2>2, <3>3, <4>1, <4>2
    <3> QED
      BY <3>2, <3>3
  <2>3. CASE n \in DOMAIN o /\ ~Both(n)
    BY <1>3, <2>1, <2>3, LeafOf
  <2>4. CASE n \in DOMAIN a /\ n \notin DOMAIN o
    <3>1. l \in Leaves(a)
      BY <1>2, <2>1, <2>4, LeafOf
    <3>2. l[1] = <<n>> \/ \E s \in DOMAIN c[n] : l[1] = <<n, s>>
      BY <2>1
    <3> QED
      BY <1>5, <2>4, <3>1, <3>2
  <2> QED
    BY <1>1, <2>2, <2>3, <2>4
<1>7. ASSUME NEW l \in Leaves(o) PROVE l \in Leaves(c)
  <2>1. PICK n \in DOMAIN o : \/ ~IsMap(o[n]) /\ l = <<<<n>>, o[n]>>
                              \/ IsMap(o[n]) /\ \E s \in DOMAIN o[n] : l = <<<<n, s>>, o[n][s]>>
    BY <1>7, LeafOf
  <2>2. CASE Both(n)
    <3>1. PICK s \in DOMAIN o[n] : l = <<<<n, s>>, o[n][s]>>
      BY <2>1, <2>2
    <3>2. l = <<<<n, s>>, c[n][s]>> /\ s \in DOMAIN c[n] /\ IsMap(c[n]) /\ n \in DOMAIN c
      BY <1>1, <1>4, <2>2, <3>1
    <3> QED
      BY <3>2, LeafOf
  <2>3. CASE ~Both(n)
    <3>1. c[n] = o[n] /\ n \in DOMAIN c
      BY <1>1, <1>3, <2>3
    <3> QED
      BY <2>1, <3>1, LeafOf
  <2> QED
    BY <2>2, <2>3
<1>8. ASSUME NEW l \in Leaves(a), ~Shadowed(o, l[1]) PROVE l \in Leaves(c)
  <2>1. PICK n \in DOMAIN a : \/ ~IsMap(a[n]) /\ l = <<<<n>>, a[n]>>
                              \/ IsMap(a[n]) /\ \E s \in DOMAIN a[n] : l = <<<<n, s>>, a[n][s]>>
    BY <1>8, LeafOf
  <2>2. CASE n \notin DOMAIN o
    <3>1. c[n] = a[n] /\ n \in DOMAIN c
      BY <1>1, <1>2, <2>2
    <3> QED
      BY <2>1, <3>1, LeafOf
  <2>3. CASE n \in DOMAIN o
    <3>0. ~(l = <<<<n>>, a[n]>>)
      <4>1. Shadowed(o, <<n>>)
        BY <1>5, <2>3
      <4>2. l = <<<<n>>, a[n]>> => l[1] = <<n>>
        OBVIOUS
      <4> QED
        BY <1>8, <4>1, <4>2
    <3>1. PICK s \in DOMAIN a[n] : IsMap(a[n]) /\ l = <<<<n, s>>, a[n][s]>>
      BY <2>1, <3>0
    <3>2. IsMap(o[n]) /\ s \notin DOMAIN o[n]
      BY <1>5, <1>8, <2>3, <3>1
    <3>3. l = <<<<n, s>>, c[n][s]>> /\ s \in DOMAIN c[n] /\ IsMap(c[n]) /\ n \in DOMAIN c
      BY <1>1, <1>4, <2>3, <3>1, <3>2
    <3> QED
      BY <3>3, LeafOf
  <2> QED
    BY <2>2, <2>3
<1> QED
  BY <1>6, <1>7, <1>8 DEF c

\* The config an override should give has the leaves the UI shows.
LEMMA MeantIsEffective ==
    ASSUME NEW k, NEW o, IsConfig(o)
    PROVE  Leaves(Meant(o, k)) = Effective(o, k)
<1>1. IsConfig(Shipped)
  BY ConfigOK
<1>2. IsConfig(mergeConfigInto(Shipped, o))
  BY <1>1, MergeIsConfig
<1> QED
  BY <1>1, <1>2, LeavesOpened, LeavesMerged DEF Meant, Effective

\* Injected lists touch nothing but "lists".
LEMMA ListsAside ==
    ASSUME NEW c, NEW fetched
    PROVE  {l \in Leaves(injectExternalLists(c, fetched)) : l[1][1] # "lists"} =
           {l \in Leaves(c) : l[1][1] # "lists"}
<1> DEFINE d == injectExternalLists(c, fetched)
<1>1. CASE fetched = {}
  BY <1>1 DEF injectExternalLists
<1>2. CASE fetched # {}
  <2>1. /\ DOMAIN d = DOMAIN c \cup {"lists"}
        /\ \A n \in DOMAIN d : n # "lists" => d[n] = c[n]
    BY <1>2 DEF injectExternalLists
  <2> HIDE DEF d
  <2>2. ASSUME NEW e, NEW f, DOMAIN e \subseteq DOMAIN f \cup {"lists"},
               \A n \in DOMAIN e : n # "lists" => f[n] = e[n],
               NEW l \in Leaves(e), l[1][1] # "lists"
        PROVE  l \in Leaves(f)
    <3>1. PICK n \in DOMAIN e :
              \/ ~IsMap(e[n]) /\ l = <<<<n>>, e[n]>>
              \/ IsMap(e[n]) /\ \E s \in DOMAIN e[n] : l = <<<<n, s>>, e[n][s]>>
      BY <2>2, LeafOf
    <3>2. l[1][1] = n
      BY <3>1
    <3>3. n \in DOMAIN f /\ f[n] = e[n]
      BY <2>2, <3>2
    <3> QED
      BY <3>1, <3>3, LeafOf
  <2>3. \A l \in Leaves(d) : l[1][1] # "lists" => l \in Leaves(c)
    BY <2>1, <2>2
  <2>4. \A l \in Leaves(c) : l[1][1] # "lists" => l \in Leaves(d)
    BY <2>1, <2>2
  <2> QED
    BY <2>3, <2>4 DEF d
<1> QED
  BY <1>1, <1>2

-----------------------------------------------------------------------------
(* The inductive invariant. *)

\* The override that merged is made from.
Basis == IF basis = Failed THEN NoOverride ELSE basis

\* What is being made, and what the tool has, is what its override means.
Making ==
    /\ OpenedInPlace(manifest, keyed)
    /\ pc = "read" => merged = Meant(Basis, keyed)
    /\ config # Unset =>
          /\ src \in Override
          /\ \E fetched \in SUBSET ListName :
                config = injectExternalLists(Meant(src, keyed), fetched)

\* An edit since the read of a reload is still on its way, or there is
\* a cause to be behind.
ReadIsCurrent ==
    pc = "read" => basis = row \/ Contains(inbox, "own") \/ behind # {}

Inv == ConfigTypeOK /\ StaleIsExcused /\ ReadIsCurrent /\ Making

\* Before boot there is nothing to be wrong.
LEMMA InitInv == Init => Inv
<1> SUFFICES ASSUME Init PROVE Inv
  OBVIOUS
<1> USE DEF Init
<1>1. IsConfig(manifest) /\ IsConfig(merged)
  BY ConfigOK, NoOverrideIsConfig
<1>2. ConfigTypeOK
  <2>1. inbox \in Seq({"own", "other"})
    OBVIOUS
  <2>2. listening \in BOOLEAN /\ ~listening /\ behind \in SUBSET {"fault", "unheard"}
    OBVIOUS
  <2>3. edits \in 0..MaxEdits /\ breaks \in 0..MaxBreaks
    BY ConfigOK
  <2>4. basis \in Override \cup {Failed} /\ src \in Override \cup {Unset} /\ config = Unset
    BY ConfigOK
  <2>5. pc = "boot" /\ conn = "none" /\ row \in Override /\ keyed \in BOOLEAN
    OBVIOUS
  <2> QED
    BY <1>1, <2>1, <2>2, <2>3, <2>4, <2>5 DEF ConfigTypeOK
<1>3. StaleIsExcused /\ ReadIsCurrent
  BY DEF StaleIsExcused, ReadIsCurrent
<1>4. Making
  BY <1>1 DEF Making, OpenedInPlace
<1> QED
  BY <1>2, <1>3, <1>4 DEF Inv

\* Steps that compute nothing leave Making alone.
LEMMA MakingStays ==
    ASSUME Making, UNCHANGED <<manifest, keyed, merged, basis, config, src>>,
           pc' = "read" => pc = "read"
    PROVE  Making'
BY DEF Making, Basis

\* The first half of applyConfig: query, merge, decryption in place.
LEMMA FetchInv ==
    ASSUME Inv, NEW ok \in BOOLEAN, Fetch(ok)
    PROVE  Inv'
<1> DEFINE o == IF ok THEN row ELSE NoOverride
<1>1. /\ merged' = DecryptFields(mergeConfigInto(manifest, o), keyed)
      /\ manifest' = Touched(o, merged')
      /\ basis' = (IF ok THEN row ELSE Failed)
      /\ pc' = "read" /\ behind' = When(~ok, "fault")
      /\ UNCHANGED <<store, keyed, link, config, src>>
  BY DEF Fetch
<1>2. behind' \in SUBSET {"fault", "unheard"} /\ (~ok => behind' # {})
  BY <1>1 DEF When
<1>3. IsConfig(o) /\ row \in Override
  BY ConfigOK, NoOverrideIsConfig DEF Inv, ConfigTypeOK
<1>4. OpenedInPlace(manifest', keyed)
  BY <1>1, <1>3, TouchedIsOpened DEF Inv, Making
<1>5. merged' = Meant(o, keyed) /\ IsConfig(merged')
  BY <1>1, <1>3, SameMeaning, MergeIsConfig, DecryptIsConfig DEF Inv, Making, OpenedInPlace
<1>6. o = Basis'
  BY <1>1, <1>3, ConfigOK DEF Basis
<1> HIDE DEF o
<1>7. Making'
  BY <1>1, <1>4, <1>5, <1>6 DEF Inv, Making
<1>8. ConfigTypeOK'
  BY <1>1, <1>3, <1>4, <1>5, <1>2 DEF Inv, ConfigTypeOK, store, link, OpenedInPlace
<1>9. StaleIsExcused' /\ ReadIsCurrent'
  BY <1>1, <1>2 DEF StaleIsExcused, ReadIsCurrent, store
<1> QED
  BY <1>7, <1>8, <1>9 DEF Inv

\* The second half: lists, and the call of ReloadConfig.
LEMMA DeliverInv ==
    ASSUME Inv, NEW fetched \in SUBSET ListName, NEW accepted \in BOOLEAN,
           Deliver(fetched, accepted)
    PROVE  Inv'
<1>1. /\ pc = "read"
      /\ behind' = behind \cup When(~accepted, "fault")
      /\ pc' \in {"acquire", "wait"}
      /\ UNCHANGED <<row, edits, keyed, manifest, conn, listening, inbox, breaks, merged, basis>>
  BY DEF Deliver, store, link
<1>2. behind' \in SUBSET {"fault", "unheard"} /\ (behind # {} => behind' # {})
  BY <1>1 DEF When, Inv, ConfigTypeOK
<1>3. CASE accepted
  <2>1. config' = injectExternalLists(merged, fetched) /\ src' = Basis
    BY <1>3 DEF Deliver, Basis
  <2>2. Basis \in Override
    BY ConfigOK DEF Basis, Inv, ConfigTypeOK
  <2>3. IsConfig(config')
    BY <2>1, InjectIsConfig DEF Inv, ConfigTypeOK
  <2>4. Making'
    BY <1>1, <2>1, <2>2 DEF Inv, Making
  <2>5. ConfigTypeOK'
    BY <1>1, <1>2, <2>1, <2>2, <2>3 DEF Inv, ConfigTypeOK
  <2>6. basis = Failed => behind # {} \/ Contains(inbox, "own")
    BY <1>1, ConfigOK DEF Inv, ReadIsCurrent, ConfigTypeOK
  <2>7. StaleIsExcused' /\ ReadIsCurrent'
    BY <1>1, <1>2, <2>1, <2>6 DEF Inv, StaleIsExcused, ReadIsCurrent, Basis
  <2> QED
    BY <2>4, <2>5, <2>7 DEF Inv
<1>4. CASE ~accepted
  <2>1. UNCHANGED <<config, src>> /\ behind' # {}
    BY <1>1, <1>4 DEF Deliver, When
  <2>2. Making'
    BY <1>1, <2>1, MakingStays DEF Inv
  <2>3. ConfigTypeOK'
    BY <1>1, <1>2, <2>1 DEF Inv, ConfigTypeOK
  <2> QED
    BY <1>1, <2>1, <2>2, <2>3 DEF Inv, StaleIsExcused, ReadIsCurrent
<1> QED
  BY <1>3, <1>4

\* The steps of configLoop around a reload.
LEMMA LoopInv ==
    ASSUME Inv, configLoop \/ Cancel
    PROVE  Inv'
<1>1. /\ UNCHANGED <<row, edits, keyed, manifest, breaks, merged, basis, config, src>>
      /\ pc \in {"acquire", "backoff", "listen", "relisten", "wait"}
      /\ pc' \in PCs \ {"boot", "read"}
  BY DEF configLoop, Acquire, AcquireFails, Listen, ListenFails, Receive, WaitFails,
         Reacquire, RelistenFails, Cancel, Return, PCs, store, link
<1>2. Making'
  BY <1>1, MakingStays DEF Inv
<1>3. CASE Return
  <2>1. listening' \in BOOLEAN /\ ~listening' /\ conn' = "none"
    BY <1>3 DEF Return
  <2>2. /\ behind' \in SUBSET {"fault", "unheard"}
        /\ behind # {} \/ Contains(inbox, "own") => behind' # {}
    BY <1>3 DEF Return, When, Inv, ConfigTypeOK
  <2>3. inbox' \in Seq({"own", "other"})
    BY <1>3 DEF Return
  <2>4. ConfigTypeOK'
    BY <1>1, <2>1, <2>2, <2>3 DEF Inv, ConfigTypeOK, PCs
  <2> QED
    BY <1>1, <1>2, <2>2, <2>4 DEF Inv, StaleIsExcused, ReadIsCurrent
<1>4. CASE Receive
  <2>1. Tail(inbox) \in Seq({"own", "other"})
    BY <1>4, OwnAfterTail DEF Receive, Inv, ConfigTypeOK
  <2>2. ConfigTypeOK'
    BY <1>1, <1>4, <2>1 DEF Inv, ConfigTypeOK, Receive, PCs
  <2>3. StaleIsExcused'
    BY <1>1, <1>4, OwnAfterTail DEF Inv, ConfigTypeOK, StaleIsExcused, Receive
  <2> QED
    BY <1>1, <1>2, <2>2, <2>3 DEF Inv, ReadIsCurrent, PCs
<1>5. CASE Acquire \/ Listen \/ WaitFails \/ Reacquire \/ RelistenFails
  <2>1. UNCHANGED <<inbox, behind>>
    BY <1>5 DEF Acquire, Listen, WaitFails, Reacquire, RelistenFails, link
  <2>2. /\ conn' \in {"none", "open", "broken"}
        /\ listening' \in BOOLEAN /\ (listening' => conn' = "open")
    <3>1. CASE Acquire \/ Reacquire
      BY <3>1 DEF Inv, ConfigTypeOK, Acquire, Reacquire
    <3>2. CASE Listen
      BY <3>2 DEF Listen
    <3>3. CASE WaitFails \/ RelistenFails
      BY <3>3 DEF Inv, ConfigTypeOK, WaitFails, RelistenFails, link
    <3> QED
      BY <1>5, <3>1, <3>2, <3>3
  <2>3. ConfigTypeOK'
    BY <1>1, <2>1, <2>2 DEF Inv, ConfigTypeOK, PCs
  <2> QED
    BY <1>1, <1>2, <2>1, <2>3 DEF Inv, StaleIsExcused, ReadIsCurrent, PCs
<1> QED
  BY <1>3, <1>4, <1>5 DEF configLoop, AcquireFails, ListenFails, Cancel

\* An edit of any tool: its notification is on its way, or nobody listens.
LEMMA EditInv ==
    ASSUME Inv, EditOther \/ \E o \in Override : Edit(o)
    PROVE  Inv'
<1>1. /\ UNCHANGED <<keyed, manifest, pc, conn, listening, breaks, merged, basis, config, src>>
      /\ row' \in Override /\ edits' \in 0..MaxEdits
  BY ConfigOK DEF EditOther, Edit, store, Inv, ConfigTypeOK
<1>2. Making'
  BY <1>1, MakingStays DEF Inv
<1>3. CASE EditOther
  <2>1. /\ inbox' \in Seq({"own", "other"})
        /\ Contains(inbox, "own") => Contains(inbox', "own")
    BY <1>3, OwnAfterAppend DEF EditOther, Inv, ConfigTypeOK
  <2>2. row' = row /\ behind' = behind
    BY <1>3 DEF EditOther, store
  <2> QED
    BY <1>1, <1>2, <2>1, <2>2 DEF Inv, ConfigTypeOK, StaleIsExcused, ReadIsCurrent
<1>4. CASE \E o \in Override : Edit(o)
  <2>1. inbox' \in Seq({"own", "other"}) /\ behind' \in SUBSET {"fault", "unheard"}
    BY <1>4, OwnAfterAppend DEF Edit, When, Inv, ConfigTypeOK
  <2>2. Contains(inbox', "own") \/ behind' # {}
    BY <1>4, OwnAfterAppend DEF Edit, When, Inv, ConfigTypeOK
  <2> QED
    BY <1>1, <1>2, <2>1, <2>2 DEF Inv, ConfigTypeOK, StaleIsExcused, ReadIsCurrent
<1> QED
  BY <1>3, <1>4

\* A connection that breaks may take own notifications along, as an excuse.
LEMMA BreakInv ==
    ASSUME Inv, Break
    PROVE  Inv'
<1>1. /\ UNCHANGED <<row, edits, keyed, manifest, pc, merged, basis, config, src>>
      /\ conn' = "broken" /\ listening' = FALSE /\ breaks' \in 0..MaxBreaks
  BY ConfigOK DEF Break, store, Inv, ConfigTypeOK
<1>2. Making'
  BY <1>1, MakingStays DEF Inv
<1>3. inbox \in Seq({"own", "other"})
  BY DEF Inv, ConfigTypeOK
<1>4. PICK n \in 0..Len(inbox) :
          /\ inbox' = SubSeq(inbox, 1, n)
          /\ behind' = behind \cup
                          When(Contains(SubSeq(inbox, n + 1, Len(inbox)), "own"), "fault")
  BY DEF Break
<1>5. inbox' \in Seq({"own", "other"}) /\ behind' \in SUBSET {"fault", "unheard"}
  BY <1>3, <1>4 DEF Inv, ConfigTypeOK, When
<1>6. Contains(inbox, "own") \/ behind # {} => Contains(inbox', "own") \/ behind' # {}
  BY <1>3, <1>4, OwnAfterCut DEF When
<1> QED
  BY <1>1, <1>2, <1>5, <1>6 DEF Inv, ConfigTypeOK, StaleIsExcused, ReadIsCurrent

\* Every step keeps the invariant.
LEMMA StepInv == Inv /\ [Next]_vars => Inv'
<1> SUFFICES ASSUME Inv, [Next]_vars PROVE Inv'
  OBVIOUS
<1>1. CASE applyConfig
  BY <1>1, FetchInv, DeliverInv DEF applyConfig
<1>2. CASE configLoop \/ Environment
  BY <1>2, LoopInv, EditInv, BreakInv DEF Environment
<1>3. CASE UNCHANGED vars
  <2>1. Making'
    BY <1>3, MakingStays DEF Inv, vars
  <2> QED
    BY <1>3, <2>1 DEF Inv, ConfigTypeOK, StaleIsExcused, ReadIsCurrent, vars
<1> QED
  BY <1>1, <1>2, <1>3 DEF Next

\* The invariant holds in every reachable state.
LEMMA AlwaysInv == Spec => []Inv
BY InitInv, StepInv, PTL DEF Spec

-----------------------------------------------------------------------------

\* applyConfig computes configs from configs, and configLoop keeps LISTEN only
\* on an open connection.
THEOREM ConfigTypeCorrect == Spec => []ConfigTypeOK
<1>1. Inv => ConfigTypeOK
  BY DEF Inv
<1> QED
  BY <1>1, AlwaysInv, PTL

\* Reload after reload, over a manifest that decryptSecrets opens in place,
\* ReloadConfig is given the shipped config, the override and the opened
\* secrets, leaf by leaf.
THEOREM ToolHasEffective == Spec => []DeliveredIsEffective
<1>1. Inv => DeliveredIsEffective
  <2> SUFFICES ASSUME Inv, config # Unset
               PROVE  {l \in Leaves(config) : l[1][1] # "lists"} =
                      {l \in Effective(src, keyed) : l[1][1] # "lists"}
    BY DEF DeliveredIsEffective
  <2>1. src \in Override /\ IsConfig(src)
    BY ConfigOK DEF Inv, Making
  <2>2. PICK fetched \in SUBSET ListName :
            config = injectExternalLists(Meant(src, keyed), fetched)
    BY DEF Inv, Making
  <2> QED
    BY <2>1, <2>2, ListsAside, MeantIsEffective
<1> QED
  BY <1>1, AlwaysInv, PTL

\* Overlapping edits and reloads of configLoop lose no edit that a LISTEN in
\* effect heard, except by a fault.
THEOREM ReloadsLoseNothing == Spec => []StaleIsExcused
<1>1. Inv => StaleIsExcused
  BY DEF Inv
<1> QED
  BY <1>1, AlwaysInv, PTL
=============================================================================
