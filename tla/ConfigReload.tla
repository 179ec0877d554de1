------------------------------ MODULE ConfigReload ------------------------------
(***************************************************************************)
(* Live configuration (worker/runtime.go, sdk/secretbox/fields.go).  At    *)
(* boot, and on every NOTIFY for its tool, the worker reads the operator's *)
(* override, merges it over the manifest's config, opens the secrets in    *)
(* place, adds the external lists and hands the result to ReloadConfig.    *)
(* The operator, other tools' edits and the loss of the LISTEN connection  *)
(* interleave with all of it.                                              *)
(*                                                                         *)
(* A config is a function from names to scalars or to maps from names to   *)
(* scalars; deeper maps would only repeat the second level.                *)
(***************************************************************************)
EXTENDS Naturals, Sequences, SequencesExt

CONSTANTS
    Name, Sub,   \* names at the first and at the second level
    Scalar,      \* values that are not maps
    Shipped,     \* manifest.Config as loaded
    Override,    \* overrides the operator may store
    Secrets,     \* manifest.Secrets, as paths
    Plain,       \* Plain[c]: what ciphertext c opens to, under the cluster key
    ListName,    \* manifest.ExternalLists
    Content,     \* the content of any list
    Unset,       \* before the first ReloadConfig
    Failed,      \* a read of tool_configs that failed
    MaxEdits,    \* bound: edits of this tool's override
    MaxInbox,    \* bound: notifications on their way
    MaxBreaks    \* bound: losses of the LISTEN connection

IsMap(v) == v \notin Scalar
IsTree(t) == DOMAIN t \subseteq Sub /\ t \in [DOMAIN t -> Scalar]
IsConfig(c) ==
    /\ DOMAIN c \subseteq Name /\ c = [n \in DOMAIN c |-> c[n]]
    /\ \A n \in DOMAIN c : IsMap(c[n]) => IsTree(c[n])

\* No row, a NULL, or JSON that is not an object: nothing to merge.
NoOverride == [n \in {} |-> Unset]

ASSUME ConfigOK ==
    /\ \A S \in SUBSET Sub, t \in Scalar : t \notin [S -> Scalar]
    /\ IsConfig(Shipped)
    /\ \A o \in Override : IsConfig(o)
    /\ NoOverride \in Override
    /\ Plain \in [DOMAIN Plain -> Scalar \ DOMAIN Plain]
    /\ "lists" \in Name /\ ListName \subseteq Sub /\ Content \in Scalar
    /\ Unset \notin Override /\ Failed \notin Override
    /\ MaxEdits \in Nat /\ MaxInbox \in Nat /\ MaxBreaks \in Nat

VARIABLES
    row,         \* the override in tool_configs
    edits,       \* edits so far
    keyed,       \* RECON_SECRETS_KEY is set and parses
    manifest,    \* rt.manifest.Config
    pc,          \* where Run and then configLoop is
    conn,        \* the LISTEN connection
    listening,   \* its session has LISTEN in effect
    inbox,       \* payloads sent to it and not yet received
    breaks,      \* connections lost so far
    merged,      \* the config applyConfig is working on
    basis,       \* the override it read, or Failed
    config,      \* the config that ReloadConfig accepted last
    src,         \* history: the override that config was made from
    behind       \* history: why the tool may be behind the override for good: a
                 \* "fault" (a failed query, a refusal, what a dead connection or
                 \* a stopped loop took along), or an edit "unheard" by any LISTEN

store == <<row, edits>>
link == <<conn, listening, inbox, breaks>>
vars == <<row, edits, keyed, manifest, pc, conn, listening, inbox, breaks,
          merged, basis, config, src, behind>>

ConfigTypeOK ==
    /\ row \in Override /\ edits \in 0..MaxEdits
    /\ keyed \in BOOLEAN
    /\ IsConfig(manifest)
    /\ pc \in {"boot", "apply", "read", "acquire", "listen", "wait",
               "backoff", "relisten", "ended"}
    /\ conn \in {"none", "open", "broken"}
    /\ listening \in BOOLEAN /\ (listening => conn = "open")
    /\ inbox \in Seq({"own", "other"})
    /\ breaks \in 0..MaxBreaks
    /\ IsConfig(merged)
    /\ basis \in Override \cup {Failed}
    /\ (config # Unset => IsConfig(config))
    /\ src \in Override \cup {Unset}
    /\ behind \in SUBSET {"fault", "unheard"}

\* The cause c, if it is one.
When(b, c) == IF b THEN {c} ELSE {}

-----------------------------------------------------------------------------
(* What applyConfig computes. *)

\* mergeConfigInto(a, b): b wins, and maps on both sides are merged.
mergeConfigInto(a, b) ==
    [n \in DOMAIN a \cup DOMAIN b |->
        IF n \notin DOMAIN b THEN a[n]
        ELSE IF n \in DOMAIN a /\ IsMap(a[n]) /\ IsMap(b[n])
             THEN [s \in DOMAIN a[n] \cup DOMAIN b[n] |->
                     IF s \in DOMAIN b[n] THEN b[n][s] ELSE a[n][s]]
             ELSE b[n]]

\* mutant: a secret that does not open is replaced by an empty value
Opened_or_nil(k, p, v) ==
    CASE p \notin Secrets -> v
      [] p \in Secrets /\ k /\ v \in DOMAIN Plain -> Plain[v]
      [] p \in Secrets /\ ~(k /\ v \in DOMAIN Plain) -> NoOverride

\* The value v at path p: with the key k, a ciphertext at a secret path opens,
\* if it was made with that key.
Opened(k, p, v) == IF k /\ p \in Secrets /\ v \in DOMAIN Plain THEN Plain[v] ELSE v

DecryptFields(cfg, k) ==
    [n \in DOMAIN cfg |->
        IF IsMap(cfg[n]) THEN [s \in DOMAIN cfg[n] |-> Opened(k, <<n, s>>, cfg[n][s])]
                         ELSE Opened(k, <<n>>, cfg[n])]

\* mutant: maps are merged into the manifest's own map
Touched_merged_in_place(o, cfg) ==
    [n \in DOMAIN manifest |-> IF IsMap(manifest[n]) /\ IsMap(cfg[n])
                               THEN cfg[n] ELSE manifest[n]]

\* The manifest's maps that the merge did not copy are opened in place.
Touched(o, cfg) ==
    [n \in DOMAIN manifest |-> IF IsMap(manifest[n]) /\ n \notin DOMAIN o
                               THEN cfg[n] ELSE manifest[n]]

\* merged["lists"], for the lists that could be fetched.
injectExternalLists(cfg, fetched) ==
    IF fetched = {} THEN cfg
    ELSE [n \in DOMAIN cfg \cup {"lists"} |->
             IF n = "lists" THEN [l \in fetched |-> Content] ELSE cfg[n]]

-----------------------------------------------------------------------------
(* applyConfig, called by Run and by configLoop. *)

\* fetchMergedConfig and decryptSecrets.  A query that fails (or is
\* cancelled) leaves the manifest's own config.
Fetch(ok) ==
    /\ pc \in {"boot", "apply"}
    /\ LET o == IF ok THEN row ELSE NoOverride IN
       /\ merged' = DecryptFields(mergeConfigInto(manifest, o), keyed)
       /\ manifest' = Touched(o, merged')
    /\ basis' = IF ok THEN row ELSE Failed
    /\ pc' = "read"
    /\ behind' = When(~ok, "fault")
    /\ UNCHANGED <<store, keyed, link, config, src>>

\* mutant: what was notified during the reload counts as done with it
Deliver_drains(fetched, accepted) ==
    /\ pc = "read"
    /\ IF accepted THEN /\ config' = injectExternalLists(merged, fetched)
                        /\ src' = IF basis = Failed THEN NoOverride ELSE basis
                   ELSE UNCHANGED <<config, src>>
    /\ behind' = behind \cup When(~accepted, "fault")
    /\ inbox' = <<>>
    /\ pc' = IF conn = "none" THEN "acquire" ELSE "wait"
    /\ UNCHANGED <<store, keyed, manifest, conn, listening, breaks, merged, basis>>

\* injectExternalLists and ReloadConfig, which may refuse.  Boot goes on to
\* configLoop, configLoop to its next wait.
Deliver(fetched, accepted) ==
    /\ pc = "read"
    /\ IF accepted THEN /\ config' = injectExternalLists(merged, fetched)
                        /\ src' = IF basis = Failed THEN NoOverride ELSE basis
                   ELSE UNCHANGED <<config, src>>
    /\ behind' = behind \cup When(~accepted, "fault")
    /\ pc' = IF conn = "none" THEN "acquire" ELSE "wait"
    /\ UNCHANGED <<store, keyed, manifest, link, merged, basis>>

-----------------------------------------------------------------------------
(* configLoop. *)

\* The loop returns; its connection goes back to the pool.
Return ==
    /\ pc' = "ended" /\ conn' = "none"
    /\ listening' = FALSE /\ inbox' = <<>>
    /\ behind' = behind \cup When(Contains(inbox, "own"), "fault")
    /\ UNCHANGED <<store, keyed, manifest, breaks, merged, basis, config, src>>

Acquire ==
    /\ pc = "acquire"
    /\ conn' = "open" /\ pc' = "listen"
    /\ UNCHANGED <<store, keyed, manifest, listening, inbox, breaks, merged, basis,
                   config, src, behind>>

\* The pool has no connection: there is no listener in this process any more.
AcquireFails == pc \in {"acquire", "backoff"} /\ Return

Listen ==
    /\ pc \in {"listen", "relisten"}
    /\ conn = "open"
    /\ listening' = TRUE /\ pc' = "wait"
    /\ UNCHANGED <<store, keyed, manifest, conn, inbox, breaks, merged, basis,
                   config, src, behind>>

ListenFails == pc = "listen" /\ Return

\* The error of the second LISTEN is dropped: the loop waits for what may
\* never come.
RelistenFails ==
    /\ pc = "relisten"
    /\ pc' = "wait"
    /\ UNCHANGED <<store, keyed, manifest, link, merged, basis, config, src, behind>>

\* mutant: a notification for another tool ends the loop
Receive_returns ==
    /\ pc = "wait" /\ inbox # <<>>
    /\ inbox' = Tail(inbox)
    /\ pc' = IF Head(inbox) = "own" THEN "apply" ELSE "ended"
    /\ UNCHANGED <<store, keyed, manifest, conn, listening, breaks, merged, basis,
                   config, src, behind>>

\* WaitForNotification returns one; those of other tools are skipped.
Receive ==
    /\ pc = "wait" /\ inbox # <<>>
    /\ inbox' = Tail(inbox)
    /\ pc' = IF Head(inbox) = "own" THEN "apply" ELSE "wait"
    /\ UNCHANGED <<store, keyed, manifest, conn, listening, breaks, merged, basis,
                   config, src, behind>>

\* WaitForNotification fails; the loop sleeps and releases the connection.
WaitFails ==
    /\ pc = "wait" /\ inbox = <<>> /\ conn = "broken"
    /\ pc' = "backoff"
    /\ UNCHANGED <<store, keyed, manifest, link, merged, basis, config, src, behind>>

Reacquire ==
    /\ pc = "backoff"
    /\ conn' = "open" /\ pc' = "relisten"
    /\ UNCHANGED <<store, keyed, manifest, listening, inbox, breaks, merged, basis,
                   config, src, behind>>

\* The worker is told to stop: ctx.Err() # nil.
Cancel == pc = "wait" /\ Return

-----------------------------------------------------------------------------
(* The operator, the other tools, the network. *)

Edit(o) ==
    /\ o # row /\ edits < MaxEdits /\ Len(inbox) < MaxInbox
    /\ row' = o /\ edits' = edits + 1
    /\ inbox' = IF listening THEN Append(inbox, "own") ELSE inbox
    /\ behind' = behind \cup When(~listening, "unheard")
    /\ UNCHANGED <<keyed, manifest, pc, conn, listening, breaks, merged, basis, config, src>>

EditOther ==
    /\ listening /\ Len(inbox) < MaxInbox
    /\ inbox' = Append(inbox, "other")
    /\ UNCHANGED <<store, keyed, manifest, pc, conn, listening, breaks, merged, basis,
                   config, src, behind>>

\* The connection breaks: what the client has not read yet is lost.
Break ==
    /\ conn = "open" /\ breaks < MaxBreaks
    /\ conn' = "broken" /\ listening' = FALSE /\ breaks' = breaks + 1
    /\ \E n \in 0..Len(inbox) :
          /\ inbox' = SubSeq(inbox, 1, n)
          /\ behind' = behind \cup
                          When(Contains(SubSeq(inbox, n + 1, Len(inbox)), "own"), "fault")
    /\ UNCHANGED <<store, keyed, manifest, pc, merged, basis, config, src>>

-----------------------------------------------------------------------------

Init ==
    /\ row \in Override /\ edits = 0
    /\ keyed \in BOOLEAN
    /\ manifest = Shipped
    /\ pc = "boot"
    /\ conn = "none" /\ listening = FALSE /\ inbox = <<>> /\ breaks = 0
    /\ merged = NoOverride /\ basis = NoOverride
    /\ config = Unset /\ src = Unset
    /\ behind = {}

applyConfig ==
    \/ \E ok \in BOOLEAN : Fetch(ok)
    \/ \E fetched \in SUBSET ListName, accepted \in BOOLEAN : Deliver(fetched, accepted)

configLoop ==
    \/ Acquire \/ AcquireFails \/ Listen \/ ListenFails
    \/ Receive \/ WaitFails \/ Reacquire \/ RelistenFails

Environment == Cancel \/ (\E o \in Override : Edit(o)) \/ EditOther \/ Break

Next == applyConfig \/ configLoop \/ Environment

\* Queries, ReloadConfig and the backoff end by their timeouts, and the
\* goroutine runs when it can.  Nothing is assumed of the outcomes.
Fairness == WF_vars(applyConfig \/ configLoop)

Spec == Init /\ [][Next]_vars /\ Fairness

-----------------------------------------------------------------------------
(* Correctness. *)

\* The scalars of a config with their paths.
Leaves(cfg) ==
    {<<<<n>>, cfg[n]>> : n \in {n \in DOMAIN cfg : ~IsMap(cfg[n])}} \cup
    UNION {{<<<<n, s>>, cfg[n][s]>> : s \in DOMAIN cfg[n]} :
              n \in {n \in DOMAIN cfg : IsMap(cfg[n])}}

\* The override says what is at path p, or that nothing is.
Shadowed(o, p) ==
    /\ p[1] \in DOMAIN o
    /\ Len(p) = 2 /\ IsMap(o[p[1]]) => p[2] \in DOMAIN o[p[1]]

Effective(o, k) ==
    {<<l[1], Opened(k, l[1], l[2])>> :
        l \in Leaves(o) \cup {m \in Leaves(Shipped) : ~Shadowed(o, m[1])}}

\* "What the UI shows as effective is exactly what the worker sees": leaf by
\* leaf, the config a tool has is the override it was made from, the shipped
\* manifest where the override is silent, and secrets opened; whatever earlier
\* reloads opened in place or merged, and however many there were.
DeliveredIsEffective ==
    config # Unset =>
        {l \in Leaves(config) : l[1][1] # "lists"} =
        {l \in Effective(src, keyed) : l[1][1] # "lists"}

\* The tool is behind the stored override only while a notification or a
\* reload that will read it is under way, or because of a fault, or of an edit
\* made while the loop was not listening.  What is notified between the read of
\* a reload and its end is not lost: the next wait returns it.
StaleIsExcused ==
    src # row =>
        \/ pc \in {"boot", "apply"}
        \/ pc = "read" /\ basis = row
        \/ Contains(inbox, "own")
        \/ behind # {}

\* An edit that is the last one, and that a LISTEN in effect heard, reaches the
\* tool unless a fault comes in between, whatever else is notified, read and
\* reloaded at the same time.  EditArrives is the promise without "heard".
HeardEditArrives ==
    \A o \in Override : <>[](row = o /\ behind = {}) => <>[](src = o)

\* configLoop "fires ReloadConfig whenever the operator edits this tool's
\* override": without a fault, and while the loop runs, the last edit reaches
\* the tool.
EditArrives ==
    \A o \in Override :
        <>[](row = o /\ "fault" \notin behind /\ pc # "ended") => <>[](src = o)

\* "A transient PG error logs and returns; the worker keeps running with
\* whatever config it had": a reload that could not read the override leaves
\* the tool with the override it had.
KeepsConfig == [][src # Unset /\ basis = Failed => UNCHANGED src]_vars
=============================================================================
