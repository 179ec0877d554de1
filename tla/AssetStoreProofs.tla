--------------------------- MODULE AssetStoreProofs ---------------------------
(***************************************************************************)
(* Proofs about AssetStore for every set of assets, keys, values, payloads *)
(* and chunks, and every canonical form.  The argument is per row: a step  *)
(* of the store is, for each asset, a RowStep, and the facts about the     *)
(* fingerprint follow from RowStep alone.                                  *)
(***************************************************************************)
EXTENDS AssetStore, SequenceTheorems, TLAPS

Parent == Id \cup {Null}

\* What one step does to the row of one asset: r before, s after.
Untouched(r, s) ==
    \/ s = r
    \/ s = Null
    \/ /\ r \in Row /\ s \in Row
       /\ s.attrs = r.attrs /\ s.fingerprint = r.fingerprint
       /\ r.parent # Null => s.parent = r.parent

RowStep(r, s) ==
    \/ Untouched(r, s)
    \/ \E x \in Attrs, p \in Parent : Affects(r, x) /\ s = Upserted(r, x, p)
    \/ r # Null /\ \E x \in Attrs : s = Merged(r, x)

\* A row whose fingerprint is new is in the feed.
Heard(r, s, heard) ==
    s # Null /\ (r # Null => r.fingerprint # s.fingerprint) => heard

\* The part of FingerprintCoversAttrs about one row.
Covers(r) ==
    /\ r.fingerprint.by = "server" => r.fingerprint.of = r.attrs
    /\ r.fingerprint.by = "client" =>
          \A k \in Key : r.fingerprint.of[k] # Null =>
                             CanonAttrs(r.attrs)[k] = r.fingerprint.of[k]

-----------------------------------------------------------------------------
(* The operators on attributes and rows. *)

\* Hashing and merging stay within the types.
LEMMA AttrsClosed ==
    ASSUME NEW x \in Attrs, NEW y \in Attrs
    PROVE  /\ CanonAttrs(x) \in Attrs
           /\ Merge(x, y) \in Attrs
           /\ fingerprintAttrs(x) \in Fingerprint
           /\ digest(x) \in Fingerprint
BY ConstantsOK DEF Attrs, CanonAttrs, Merge, fingerprintAttrs, digest, Fingerprint

\* An upserted row is a row.
LEMMA UpsertedType ==
    ASSUME NEW r \in Row \cup {Null}, NEW x \in Attrs, NEW p \in Parent
    PROVE  Upserted(r, x, p) \in Row
<1>1. CASE r = Null
  BY <1>1, AttrsClosed DEF Upserted, Row, Parent
<1>2. CASE r # Null
  <2>1. r \in Row
    BY <1>2
  <2>2. Merge(r.attrs, x) \in Attrs
    BY <2>1, AttrsClosed DEF Row
  <2> QED
    BY <1>2, <2>1, <2>2, AttrsClosed DEF Upserted, Row, Parent
<1> QED
  BY <1>1, <1>2

\* A merged row is a row.
LEMMA MergedType ==
    ASSUME NEW r \in Row, NEW x \in Attrs
    PROVE  Merged(r, x) \in Row
<1>1. Merge(r.attrs, x) \in Attrs
  BY AttrsClosed DEF Row
<1> QED
  BY <1>1, AttrsClosed DEF Merged, Row

\* Whatever a step does to a row, the result is a row or no row.
LEMMA RowStepType ==
    ASSUME NEW r \in Row \cup {Null}, NEW s, RowStep(r, s)
    PROVE  s \in Row \cup {Null}
BY UpsertedType, MergedType DEF RowStep, Untouched

\* The fingerprint keeps saying something true of its row.
LEMMA RowStepCovers ==
    ASSUME NEW r \in Row \cup {Null}, NEW s, RowStep(r, s),
           r # Null => Covers(r), s # Null
    PROVE  Covers(s)
<1>1. CASE Untouched(r, s)
  BY <1>1, NullIsNoRow DEF Untouched, Covers
<1>2. ASSUME NEW x \in Attrs, NEW p \in Parent, s = Upserted(r, x, p)
      PROVE  Covers(s)
  <2>1. s.fingerprint = fingerprintAttrs(x)
    BY <1>2 DEF Upserted, Row
  <2>2. s.attrs = x \/ (r \in Row /\ s.attrs = Merge(r.attrs, x))
    BY <1>2 DEF Upserted, Row
  <2>3. ASSUME NEW k \in Key, CanonAttrs(x)[k] # Null
        PROVE  CanonAttrs(s.attrs)[k] = CanonAttrs(x)[k]
    BY <2>2, <2>3 DEF CanonAttrs, Merge
  <2> QED
    BY <2>1, <2>3 DEF Covers, fingerprintAttrs
<1>3. ASSUME r # Null, NEW x \in Attrs, s = Merged(r, x)
      PROVE  Covers(s)
  BY <1>3 DEF Merged, Covers, digest, Row
<1> QED
  BY <1>1, <1>2, <1>3 DEF RowStep
\* Writing attrs that a row's own fingerprint already stands for changes no
\* attribute beyond its canonical form.
LEMMA CoveredMergeIsIdle ==
    ASSUME NEW r \in Row, NEW x \in Attrs, Covers(r),
           r.fingerprint = fingerprintAttrs(x)
    PROVE  CanonAttrs(Merge(r.attrs, x)) = CanonAttrs(r.attrs)
<1>1. ASSUME NEW k \in Key, x[k] # Null
      PROVE  CanonAttrs(r.attrs)[k] = Canon[x[k]]
  <2>1. x[k] \in Value /\ Canon[x[k]] # Null
    BY <1>1, ConstantsOK DEF Attrs
  <2> QED
    BY <1>1, <2>1 DEF Covers, fingerprintAttrs, CanonAttrs
<1>2. ASSUME NEW k \in Key
      PROVE  CanonAttrs(Merge(r.attrs, x))[k] = CanonAttrs(r.attrs)[k]
  <2>1. CASE x[k] = Null
    BY <2>1 DEF CanonAttrs, Merge
  <2>2. CASE x[k] # Null
    BY <2>2, <1>1 DEF CanonAttrs, Merge
  <2> QED
    BY <2>1, <2>2
<1> QED
  BY <1>2 DEF CanonAttrs

\* A row that changed beyond its canonical form has a new fingerprint.
LEMMA RowStepAnnounces ==
    ASSUME NEW r \in Row, NEW s, RowStep(r, s), Covers(r), Changed(r, s), s # Null
    PROVE  r.fingerprint # s.fingerprint
<1>1. SUFFICES ASSUME r.fingerprint = s.fingerprint
               PROVE  FALSE
  OBVIOUS
<1>2. r # Null
  BY NullIsNoRow
<1>3. ~Untouched(r, s)
  BY <1>2 DEF Untouched, Changed
<1>4. ASSUME NEW x \in Attrs, NEW p \in Parent, s = Upserted(r, x, p)
      PROVE  FALSE
  <2>1. s.fingerprint = fingerprintAttrs(x) /\ s.attrs = Merge(r.attrs, x)
    BY <1>2, <1>4 DEF Upserted, Row
  <2> QED
    BY <1>1, <1>2, <2>1, CoveredMergeIsIdle DEF Changed
<1>5. ASSUME NEW x \in Attrs, s = Merged(r, x)
      PROVE  FALSE
  <2>1. s.fingerprint = digest(s.attrs)
    BY <1>5 DEF Merged, Row
  <2>2. s.attrs = r.attrs
    BY <1>1, <2>1 DEF Covers, digest
  <2> QED
    BY <1>2, <2>2 DEF Changed
<1> QED
  BY <1>3, <1>4, <1>5 DEF RowStep

\* A step keeps every key of a row that survives it, and its parent.
LEMMA RowStepKeeps ==
    ASSUME NEW r \in Row, NEW s, RowStep(r, s), s # Null
    PROVE  /\ \A k \in Key : r.attrs[k] # Null => s.attrs[k] # Null
           /\ r.parent # Null => s.parent = r.parent
<1>1. r # Null
  BY NullIsNoRow
<1>2. CASE Untouched(r, s)
  BY <1>2 DEF Untouched
<1>3. ASSUME NEW x \in Attrs, NEW p \in Parent, s = Upserted(r, x, p)
      PROVE  s.attrs = Merge(r.attrs, x) /\ s.parent = r.parent
  BY <1>1, <1>3 DEF Upserted, Row
<1>4. ASSUME NEW x \in Attrs, s = Merged(r, x)
      PROVE  s.attrs = Merge(r.attrs, x) /\ s.parent = r.parent
  BY <1>4 DEF Merged, Row
<1>5. ASSUME NEW x \in Attrs, NEW k \in Key, r.attrs[k] # Null
      PROVE  Merge(r.attrs, x)[k] # Null
  BY <1>5 DEF Merge
<1> QED
  BY <1>2, <1>3, <1>4, <1>5 DEF RowStep

-----------------------------------------------------------------------------
(* Every action is a RowStep of every row. *)

StepOK ==
    /\ \A a \in Asset : RowStep(rows[a], rows'[a])
    /\ \A a \in Asset : Heard(rows[a], rows'[a], a \in feed')

\* The trigger tells the feed of every row a statement gives a new fingerprint.
LEMMA WriteHeard ==
    ASSUME NEW new \in [Asset -> Row \cup {Null}], Write(new)
    PROVE  \A a \in Asset : Heard(rows[a], rows'[a], a \in feed')
BY DEF Write, Announced, Heard

\* UpsertAsset rewrites one row.
LEMMA UpsertAssetStep ==
    ASSUME TypeOK, NEW item, item.asset \in Asset, item.attrs \in Attrs,
           NEW p \in Parent, UpsertAsset(item, p)
    PROVE  TypeOK' /\ StepOK
<1> DEFINE a == item.asset
           new == [rows EXCEPT ![a] = Upserted(@, item.attrs, p)]
<1>1. Write(new) /\ Affects(rows[a], item.attrs)
  BY DEF UpsertAsset
<1>2. new \in [Asset -> Row \cup {Null}]
  BY UpsertedType DEF TypeOK
<1>3. \A b \in Asset : RowStep(rows[b], rows'[b])
  BY <1>1 DEF Write, RowStep, Untouched, TypeOK
<1>4. TypeOK'
  BY <1>1, <1>2 DEF Write, TypeOK, Announced
<1> QED
  BY <1>1, <1>2, <1>3, <1>4, WriteHeard DEF StepOK

\* upsertChunk rewrites each row by one of its items.
LEMMA upsertChunkStep ==
    ASSUME TypeOK, NEW chunk \in Seq(Item), NEW p \in Parent, upsertChunk(chunk, p)
    PROVE  TypeOK' /\ StepOK
<1> DEFINE new == [a \in Asset |->
                IF Writers(chunk, a) = {} THEN rows[a]
                ELSE LET item == chunk[CHOOSE i \in Writers(chunk, a) : TRUE]
                     IN  Upserted(rows[a], item.attrs, ParentOf(item, p))]
<1>1. Write(new)
  BY DEF upsertChunk
<1>2. ASSUME NEW a \in Asset
      PROVE  /\ new[a] \in Row \cup {Null}
             /\ RowStep(rows[a], new[a])
  <2>1. rows[a] \in Row \cup {Null}
    BY DEF TypeOK
  <2>2. CASE Writers(chunk, a) = {}
    BY <2>1, <2>2 DEF RowStep, Untouched
  <2>3. CASE Writers(chunk, a) # {}
    <3> DEFINE i == CHOOSE i \in Writers(chunk, a) : TRUE
               item == chunk[i]
    <3>1. i \in Writers(chunk, a)
      BY <2>3
    <3>2. i \in DOMAIN chunk /\ Affects(rows[a], item.attrs)
      BY <3>1 DEF Writers
    <3>3. item \in Item
      BY <3>2, ElementOfSeq, LenProperties
    <3>4. item.attrs \in Attrs /\ ParentOf(item, p) \in Parent
      BY <3>3 DEF Item, ParentOf, Parent
    <3>5. new[a] = Upserted(rows[a], item.attrs, ParentOf(item, p))
      BY <2>3
    <3> HIDE DEF i, item, new
    <3> QED
      BY <2>1, <3>2, <3>4, <3>5, UpsertedType DEF RowStep
  <2> QED
    BY <2>2, <2>3
<1>3. new \in [Asset -> Row \cup {Null}]
  BY <1>2
<1>4. \A a \in Asset : RowStep(rows[a], rows'[a])
  BY <1>1, <1>2 DEF Write
<1>5. TypeOK'
  BY <1>1, <1>3 DEF Write, TypeOK, Announced
<1> QED
  BY <1>1, <1>3, <1>4, <1>5, WriteHeard DEF StepOK

\* MergeUpdate rewrites one row, or none.
LEMMA MergeUpdateStep ==
    ASSUME TypeOK, NEW id \in Id, NEW x \in Attrs, MergeUpdate(id, x)
    PROVE  TypeOK' /\ StepOK
<1> DEFINE a == id[1]
           new == [rows EXCEPT ![a] = Merged(@, x)]
<1>0. a \in Asset
  BY DEF Id
<1>1. CASE ~(NonEmpty(x) /\ HasId(id))
  <2>1. UNCHANGED storeVars
    BY <1>1 DEF MergeUpdate
  <2> QED
    BY <2>1 DEF storeVars, TypeOK, StepOK, RowStep, Untouched, Heard
<1>2. CASE NonEmpty(x) /\ HasId(id)
  <2>1. Write(new) /\ rows[a] # Null /\ rows[a] \in Row
    BY <1>0, <1>2 DEF MergeUpdate, HasId, TypeOK
  <2>2. new \in [Asset -> Row \cup {Null}]
    BY <1>0, <2>1, MergedType DEF TypeOK
  <2>3. \A b \in Asset : RowStep(rows[b], rows'[b])
    BY <1>0, <2>1 DEF Write, RowStep, Untouched, TypeOK
  <2>4. TypeOK'
    BY <2>1, <2>2 DEF Write, TypeOK, Announced
  <2> QED
    BY <2>1, <2>2, <2>3, <2>4, WriteHeard DEF StepOK
<1> QED
  BY <1>1, <1>2

\* SetParentChain touches no attribute.
LEMMA SetParentChainStep ==
    ASSUME TypeOK, NEW child \in Id, NEW p \in Id, SetParentChain(child, p)
    PROVE  TypeOK' /\ StepOK
<1> DEFINE a == child[1]
           s == [rows[a] EXCEPT !.parent = p]
<1>1. a \in Asset /\ rows[a] \in Row /\ rows[a].parent = Null
  BY DEF Id, SetParentChain, HasId, TypeOK
<1>2. s \in Row /\ s.attrs = rows[a].attrs /\ s.fingerprint = rows[a].fingerprint
  BY <1>1 DEF Row
<1>3. rows' = [rows EXCEPT ![a] = s] /\ deletions' = deletions /\ feed' = feed
  BY DEF SetParentChain
<1> HIDE DEF s
<1>4. TypeOK'
  BY <1>1, <1>2, <1>3 DEF TypeOK
<1>5. \A b \in Asset : Untouched(rows[b], rows'[b])
  BY <1>1, <1>2, <1>3 DEF TypeOK, Untouched
<1>6. \A b \in Asset : Heard(rows[b], rows'[b], b \in feed')
  BY <1>1, <1>2, <1>3, NullIsNoRow DEF TypeOK, Heard
<1> QED
  BY <1>4, <1>5, <1>6 DEF StepOK, RowStep

\* Deletion, time and the cascade touch no attribute.
LEMMA EnvironmentStep ==
    ASSUME TypeOK, Environment
    PROVE  TypeOK' /\ StepOK
<1>1. PICK a \in Asset : Delete(a) \/ Age(a) \/ Consume(a)
  BY DEF Environment
<1>2. CASE Delete(a)
  <2>1. rows' = [rows EXCEPT ![a] = Null] /\ feed' = feed
    BY <1>2 DEF Delete
  <2>2. TypeOK'
    BY <1>2, ConstantsOK DEF Delete, TypeOK
  <2>3. \A b \in Asset : RowStep(rows[b], rows'[b]) /\ Heard(rows[b], rows'[b], b \in feed')
    BY <2>1 DEF TypeOK, RowStep, Untouched, Heard
  <2> QED
    BY <2>2, <2>3 DEF StepOK
<1>3. CASE Age(a)
  <2> DEFINE s == [rows[a] EXCEPT !.stale = TRUE]
  <2>1. rows[a] \in Row
    BY <1>3 DEF Age, TypeOK
  <2>2. /\ s \in Row /\ s.attrs = rows[a].attrs /\ s.parent = rows[a].parent
        /\ s.fingerprint = rows[a].fingerprint
    BY <2>1 DEF Row
  <2>3. rows' = [rows EXCEPT ![a] = s] /\ deletions' = deletions /\ feed' = feed
    BY <1>3 DEF Age
  <2> HIDE DEF s
  <2>4. TypeOK'
    BY <2>2, <2>3 DEF TypeOK
  <2>5. \A b \in Asset : Untouched(rows[b], rows'[b])
    BY <2>1, <2>2, <2>3 DEF TypeOK, Untouched
  <2>6. \A b \in Asset : Heard(rows[b], rows'[b], b \in feed')
    BY <2>1, <2>2, <2>3, NullIsNoRow DEF TypeOK, Heard
  <2> QED
    BY <2>4, <2>5, <2>6 DEF StepOK, RowStep
<1>4. CASE Consume(a)
  BY <1>4 DEF Consume, TypeOK, StepOK, RowStep, Untouched, Heard
<1> QED
  BY <1>1, <1>2, <1>3, <1>4

\* Every step of the store.
LEMMA StoreStep ==
    ASSUME TypeOK, [StoreNext]_storeVars
    PROVE  TypeOK' /\ StepOK
<1>1. ASSUME NEW a \in Asset, NEW x \in Payload, NEW p \in KnownId \cup {Null},
             UpsertAsset([asset |-> a, attrs |-> x, parent |-> Null], p)
      PROVE  TypeOK' /\ StepOK
  <2>1. x \in Attrs /\ p \in Parent
    BY ConstantsOK DEF KnownId, Parent
  <2> QED
    BY <1>1, <2>1, UpsertAssetStep
<1>2. ASSUME NEW c \in Chunk, NEW p \in KnownId, upsertChunk(c, p)
      PROVE  TypeOK' /\ StepOK
  <2>1. c \in Seq(Item) /\ p \in Parent
    BY ConstantsOK DEF KnownId, Parent
  <2> QED
    BY <1>2, <2>1, upsertChunkStep
<1>3. ASSUME NEW id \in Id, NEW x \in Payload, MergeUpdate(id, x)
      PROVE  TypeOK' /\ StepOK
  BY <1>3, ConstantsOK, MergeUpdateStep
<1>4. ASSUME NEW child \in Id, NEW p \in KnownId, SetParentChain(child, p)
      PROVE  TypeOK' /\ StepOK
  BY <1>4, SetParentChainStep DEF KnownId
<1>5. CASE UNCHANGED storeVars
  BY <1>5 DEF storeVars, TypeOK, StepOK, RowStep, Untouched, Heard
<1> QED
  BY <1>1, <1>2, <1>3, <1>4, <1>5, EnvironmentStep DEF StoreNext

-----------------------------------------------------------------------------
(* The theorems. *)

\* Every reachable state of the table is well typed, whatever workers write.
THEOREM TypeCorrect == StoreSpec => []TypeOK
<1>1. StoreInit => TypeOK
  BY ConstantsOK DEF StoreInit, TypeOK
<1>2. TypeOK /\ [StoreNext]_storeVars => TypeOK'
  BY StoreStep
<1> QED
  BY <1>1, <1>2, PTL DEF StoreSpec

\* Any step that changes rows one by one keeps fingerprints true.
LEMMA StepCovers ==
    ASSUME TypeOK, FingerprintCoversAttrs, StepOK
    PROVE  FingerprintCoversAttrs'
<1>1. ASSUME NEW a \in Asset, rows'[a] # Null
      PROVE  Covers(rows'[a])
  <2>1. rows[a] \in Row \cup {Null}
    BY DEF TypeOK
  <2>2. rows[a] # Null => Covers(rows[a])
    BY DEF FingerprintCoversAttrs, Covers
  <2>3. RowStep(rows[a], rows'[a])
    BY DEF StepOK
  <2> QED
    BY <1>1, <2>1, <2>2, <2>3, RowStepCovers
<1> QED
  BY <1>1 DEF FingerprintCoversAttrs, Covers

\* A stored fingerprint never says something false of its row: the invariant
\* behind both uses the SQL of AssetWriter makes of the column.
THEOREM FingerprintSound == StoreSpec => []FingerprintCoversAttrs
<1>1. StoreInit => FingerprintCoversAttrs
  BY DEF StoreInit, FingerprintCoversAttrs
<1>2. TypeOK /\ FingerprintCoversAttrs /\ [StoreNext]_storeVars => FingerprintCoversAttrs'
  BY StoreStep, StepCovers
<1> QED
  BY <1>1, <1>2, TypeCorrect, PTL DEF StoreSpec

\* An upsert that the fingerprint guard skips loses no information.
THEOREM SkipSound == StoreSpec => []SkippedUpsertLosesNothing
<1>1. TypeOK /\ FingerprintCoversAttrs => SkippedUpsertLosesNothing
  <2> SUFFICES ASSUME TypeOK, FingerprintCoversAttrs,
                      NEW a \in Asset, NEW x \in Payload, ~Affects(rows[a], x)
               PROVE  CanonAttrs(Merge(rows[a].attrs, x)) = CanonAttrs(rows[a].attrs)
    BY DEF SkippedUpsertLosesNothing
  <2>1. rows[a] # Null /\ rows[a].fingerprint = fingerprintAttrs(x)
    BY DEF Affects
  <2>2. rows[a] \in Row /\ Covers(rows[a])
    BY <2>1 DEF TypeOK, FingerprintCoversAttrs, Covers
  <2>3. x \in Attrs
    BY ConstantsOK
  <2> QED
    BY <2>1, <2>2, <2>3, CoveredMergeIsIdle
<1> QED
  BY <1>1, TypeCorrect, FingerprintSound, PTL

\* A step that changes rows one by one announces every change.
LEMMA StepAnnounces ==
    ASSUME TypeOK, FingerprintCoversAttrs, StepOK,
           NEW a \in Asset, rows'[a] # Null, Changed(rows[a], rows'[a])
    PROVE  a \in feed'
<1>1. rows[a] \in Row \cup {Null}
  BY DEF TypeOK
<1>2. rows[a] # Null => Covers(rows[a])
  BY DEF FingerprintCoversAttrs, Covers
<1>3. RowStep(rows[a], rows'[a]) /\ Heard(rows[a], rows'[a], a \in feed')
  BY DEF StepOK
<1> QED
  BY <1>1, <1>2, <1>3, RowStepAnnounces DEF Heard

\* What such a step keeps of a row that stays.
LEMMA StepKeeps ==
    ASSUME TypeOK, StepOK, NEW a \in Asset, rows[a] # Null, rows'[a] # Null
    PROVE  /\ \A k \in Key : rows[a].attrs[k] # Null => rows'[a].attrs[k] # Null
           /\ rows[a].parent # Null => rows'[a].parent = rows[a].parent
<1>1. rows[a] \in Row /\ RowStep(rows[a], rows'[a])
  BY DEF TypeOK, StepOK
<1> QED
  BY <1>1, RowStepKeeps

\* No change of an attribute, and no insert, is kept from the cascade.
THEOREM ChangesReachCascade == StoreSpec => ChangesAreAnnounced
<1>1. ASSUME TypeOK, FingerprintCoversAttrs, [StoreNext]_storeVars
      PROVE  [\A a \in Asset : rows'[a] # Null /\ Changed(rows[a], rows'[a])
                                   => a \in feed']_storeVars
  BY <1>1, StoreStep, StepAnnounces
<1> QED
  BY <1>1, TypeCorrect, FingerprintSound, PTL DEF StoreSpec, ChangesAreAnnounced

\* No writer erases a key it does not know, or moves an asset to another parent.
THEOREM NothingIsTakenBack == StoreSpec => WritersOnlyAdd
<1>1. ASSUME TypeOK, [StoreNext]_storeVars
      PROVE  [\A a \in Asset : rows[a] # Null /\ rows'[a] # Null =>
                 /\ \A k \in Key : rows[a].attrs[k] # Null => rows'[a].attrs[k] # Null
                 /\ rows[a].parent # Null => rows'[a].parent = rows[a].parent]_storeVars
  BY <1>1, StoreStep, StepKeeps
<1> QED
  BY <1>1, TypeCorrect, PTL DEF StoreSpec, WritersOnlyAdd
=============================================================================
