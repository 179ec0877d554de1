------------------------------ MODULE AssetStore ------------------------------
(***************************************************************************)
(* The assets table as AssetWriter (worker/asset_writer.go) writes it.     *)
(* Every operation of AssetWriter is one SQL statement, and Postgres holds *)
(* the lock of a row from the moment it is tested until the statement      *)
(* commits, so each operation is one step.  What makes the table hard to   *)
(* get right is the fingerprint: writers that know only some keys of a row *)
(* share one fingerprint column, two different hashes are stored in it     *)
(* (of the writer's own attrs, or of the merged row), and the column       *)
(* decides both whether an upsert is skipped and whether the cascade       *)
(* hears of it.                                                            *)
(***************************************************************************)
EXTENDS Naturals, Sequences

CONSTANTS
    Asset,         \* identities, the unique (scope_id, kind, value) triples
    Key,           \* names of attributes
    Value,         \* JSON values an attribute can have
    Canon,         \* Canon[v] is what canonicalizeForHash makes of v
    Null,          \* an absent attribute, row or parent
    Payload,       \* the attrs that workers write
    Chunk,         \* the slices of NewAssets that workers write in one statement
    MaxDeletions   \* bound: how often one asset is deleted

\* attrs objects: only the keys a writer knows are present.
Attrs == [Key -> Value \cup {Null}]

\* Row ids.  An asset deleted and inserted again gets another id.
Id == Asset \X (0..MaxDeletions)

\* An element of Result.NewAssets.  asset is Null when Kind or Value is empty.
Item == [asset : Asset \cup {Null}, attrs : Attrs, parent : Id \cup {Null}]

ASSUME ConstantsOK ==
    /\ Canon \in [Value -> Value]         \* a canonical form is itself JSON
    /\ Null \notin Value
    /\ Null \notin Asset
    /\ Null \notin Id
    /\ Payload \subseteq Attrs
    /\ Chunk \subseteq Seq(Item)
    /\ MaxDeletions \in Nat

VARIABLES
    rows,        \* rows[a] is the row of asset a, Null when there is none
    deletions,   \* deletions[a] counts the deletions of a: the id of its row
    feed         \* assets with an asset_events entry the cascade has not read

storeVars == <<rows, deletions, feed>>

-----------------------------------------------------------------------------
(* Hashes.  SHA-256 is taken to be collision free, so a hash is its input. *)

\* canonicalizeForHash keeps the keys of the outermost object and rewrites
\* the values; an object becomes the list of its pairs, so {} and [] (and
\* {"a":1} and [["a",1]]) have one canonical form.
CanonAttrs(x) == [k \in Key |-> IF x[k] = Null THEN Null ELSE Canon[x[k]]]

fingerprintAttrs(x) == [by |-> "client", of |-> CanonAttrs(x)]

\* digest((attrs || $2::jsonb)::text, 'sha256').  The text of a jsonb object
\* is never the text of a list of pairs: no digest is a fingerprintAttrs.
digest(x) == [by |-> "server", of |-> x]

Fingerprint == [by : {"client", "server"}, of : Attrs]

Row == [attrs : Attrs, fingerprint : Fingerprint, stale : BOOLEAN,
        parent : Id \cup {Null}]

ASSUME NullIsNoRow == Null \notin Row

TypeOK ==
    /\ rows \in [Asset -> Row \cup {Null}]
    /\ deletions \in [Asset -> 0..MaxDeletions]
    /\ feed \in SUBSET Asset

-----------------------------------------------------------------------------
(* What one statement does to one row. *)

\* mutant: the result holds the new keys only
Merge_new_keys_only(old, new) == [k \in {x \in Key : new[x] # Null} |-> new[k]]

\* The jsonb operator ||: the keys of new win, the others stay.
Merge(old, new) == [k \in Key |-> IF new[k] = Null THEN old[k] ELSE new[k]]

IdOf(a) == <<a, deletions[a]>>

HasId(id) == rows[id[1]] # Null /\ IdOf(id[1]) = id

\* mutant: the guard forgets the fingerprint and only limits the write rate
Affects_rate_limit_only(r, attrs) == r # Null => r.stale

\* The row is inserted, or passes the WHERE of ON CONFLICT DO UPDATE.
Affects(r, attrs) ==
    r # Null => r.fingerprint # fingerprintAttrs(attrs) \/ r.stale

\* mutant: SET attrs = EXCLUDED.attrs
Upserted_replace(r, attrs, parent) ==
    IF r = Null
    THEN [attrs |-> attrs, fingerprint |-> fingerprintAttrs(attrs),
          stale |-> FALSE, parent |-> parent]
    ELSE [r EXCEPT !.attrs = attrs,
                   !.fingerprint = fingerprintAttrs(attrs), !.stale = FALSE]

Upserted(r, attrs, parent) ==
    IF r = Null
    THEN [attrs |-> attrs, fingerprint |-> fingerprintAttrs(attrs),
          stale |-> FALSE, parent |-> parent]
    ELSE [r EXCEPT !.attrs = Merge(@, attrs),
                   !.fingerprint = fingerprintAttrs(attrs), !.stale = FALSE]

\* mutant: digest(attrs::text), the row before the merge
Merged_hash_before_merge(r, delta) ==
    [r EXCEPT !.attrs = Merge(@, delta), !.stale = FALSE,
              !.fingerprint = digest(r.attrs)]

Merged(r, delta) ==
    [r EXCEPT !.attrs = Merge(@, delta), !.stale = FALSE,
              !.fingerprint = digest(Merge(r.attrs, delta))]

\* The assets_on_change trigger: a row whose fingerprint is new is announced.
Announced(old, new) ==
    {a \in Asset : /\ new[a] # Null
                   /\ old[a] # Null => old[a].fingerprint # new[a].fingerprint}

Write(new) ==
    /\ rows' = new
    /\ feed' = feed \cup Announced(rows, new)
    /\ UNCHANGED deletions

-----------------------------------------------------------------------------
(* AssetWriter's operations. *)

\* UpsertAsset ignores Asset.ParentID; an item without Kind or Value is refused.
UpsertAsset(item, parent) ==
    /\ item.asset # Null
    /\ Affects(rows[item.asset], item.attrs)
    /\ Write([rows EXCEPT ![item.asset] = Upserted(@, item.attrs, parent)])

\* Positions of a chunk that write the row of a.
Writers(chunk, a) ==
    {i \in DOMAIN chunk : chunk[i].asset = a /\ Affects(rows[a], chunk[i].attrs)}

\* An item without Kind or Value fails the chunk before it is sent.
ChunkIsValid(chunk) == \A i \in DOMAIN chunk : chunk[i].asset # Null

\* Postgres refuses a statement whose later tuple meets a row that an earlier
\* tuple of the same statement wrote ("cannot affect row a second time").
ChunkClashes(chunk) ==
    \E i, j \in DOMAIN chunk :
        i < j /\ chunk[i].asset = chunk[j].asset /\ i \in Writers(chunk, chunk[i].asset)

\* Asset.ParentID overrides the consumed asset's id.
ParentOf(item, parent) == IF item.parent # Null THEN item.parent ELSE parent

upsertChunk(chunk, parent) ==
    /\ ChunkIsValid(chunk)
    /\ ~ChunkClashes(chunk)
    /\ Write([a \in Asset |->
                IF Writers(chunk, a) = {} THEN rows[a]
                ELSE LET item == chunk[CHOOSE i \in Writers(chunk, a) : TRUE]
                     IN  Upserted(rows[a], item.attrs, ParentOf(item, parent))])

NonEmpty(delta) == \E k \in Key : delta[k] # Null

\* An empty delta sends nothing, an id without a row updates nothing.
MergeUpdate(id, delta) ==
    IF NonEmpty(delta) /\ HasId(id)
    THEN Write([rows EXCEPT ![id[1]] = Merged(@, delta)])
    ELSE UNCHANGED storeVars

\* parent_id is no part of the fingerprint: no event.
SetParentChain(child, parent) ==
    /\ HasId(child)
    /\ rows[child[1]].parent = Null
    /\ rows' = [rows EXCEPT ![child[1]].parent = parent]
    /\ UNCHANGED <<deletions, feed>>

-----------------------------------------------------------------------------
(* The rest of the platform. *)

\* The operator removes an asset.
Delete(a) ==
    /\ rows[a] # Null
    /\ deletions[a] < MaxDeletions
    /\ rows' = [rows EXCEPT ![a] = Null]
    /\ deletions' = [deletions EXCEPT ![a] = @ + 1]
    /\ UNCHANGED feed

\* A minute passes without a write: last_seen < NOW() - interval '1 minute'.
Age(a) ==
    /\ rows[a] # Null
    /\ rows' = [rows EXCEPT ![a].stale = TRUE]
    /\ UNCHANGED <<deletions, feed>>

\* The cascade engine reads the events of an asset.
Consume(a) ==
    /\ a \in feed
    /\ feed' = feed \ {a}
    /\ UNCHANGED <<rows, deletions>>

StoreInit ==
    /\ rows = [a \in Asset |-> Null]
    /\ deletions = [a \in Asset |-> 0]
    /\ feed = {}

\* A parent is named by the id of a row, which may be gone by now.
KnownId == {id \in Id : id[2] < deletions[id[1]] \/ HasId(id)}

Environment == \E a \in Asset : Delete(a) \/ Age(a) \/ Consume(a)

StoreNext ==
    \/ \E a \in Asset, x \in Payload, p \in KnownId \cup {Null} :
          UpsertAsset([asset |-> a, attrs |-> x, parent |-> Null], p)
    \/ \E c \in Chunk, p \in KnownId : upsertChunk(c, p)
    \/ \E id \in Id, x \in Payload : MergeUpdate(id, x)
    \/ \E child \in Id, p \in KnownId : SetParentChain(child, p)
    \/ Environment

StoreSpec == StoreInit /\ [][StoreNext]_storeVars

-----------------------------------------------------------------------------
(* Correctness. *)

\* What a stored fingerprint says of its row.  One that a client computed
\* says that every key the client wrote still has (up to canonical form) the
\* value it wrote; a digest says the row is exactly what was hashed.  Both
\* hashes share assets.fingerprint, and each writer replaces it
\* (worker/asset_writer.go, UpsertAsset, upsertChunk and MergeUpdate).
FingerprintCoversAttrs ==
    \A a \in Asset : rows[a] # Null =>
        LET r == rows[a] IN
        /\ r.fingerprint.by = "server" => r.fingerprint.of = r.attrs
        /\ r.fingerprint.by = "client" =>
              \A k \in Key : r.fingerprint.of[k] # Null =>
                                 CanonAttrs(r.attrs)[k] = r.fingerprint.of[k]

\* The WHERE clause of ON CONFLICT DO UPDATE never drops information: an
\* upsert it skips would have left every attribute as it is, up to canonical
\* form, whoever wrote the row in between.
SkippedUpsertLosesNothing ==
    \A a \in Asset, x \in Payload :
        ~Affects(rows[a], x) =>
            CanonAttrs(Merge(rows[a].attrs, x)) = CanonAttrs(rows[a].attrs)

\* A row was inserted, or changed beyond the canonical form of its attributes.
Changed(old, new) ==
    old # Null => CanonAttrs(new.attrs) # CanonAttrs(old.attrs)

\* Every statement that changes an attribute of a row (beyond its canonical
\* form), and every insert, reaches the cascade through the trigger: no
\* interleaving of partial writers, re-stamps of last_seen and merges brings
\* the old fingerprint back over new attrs.
ChangesAreAnnounced ==
    [][\A a \in Asset :
          rows'[a] # Null /\ Changed(rows[a], rows'[a]) => a \in feed']_storeVars

\* Writers that know only some keys never erase the others' (the comment on
\* the merge formula in UpsertAsset): a key leaves a row only with the row.  And
\* the first parent wins: neither a later upsert nor SetParentChain moves an
\* asset that has a parent, so the tree the cascade walks is never rewired.
WritersOnlyAdd ==
    [][\A a \in Asset : rows[a] # Null /\ rows'[a] # Null =>
          /\ \A k \in Key : rows[a].attrs[k] # Null => rows'[a].attrs[k] # Null
          /\ rows[a].parent # Null => rows'[a].parent = rows[a].parent]_storeVars
=============================================================================
