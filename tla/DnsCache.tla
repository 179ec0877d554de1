------------------------------- MODULE DnsCache -------------------------------
(***************************************************************************)
(* The resolver of sdk/dns: cachingResolver in front of an HTTPBackend     *)
(* with a LocalBackend behind it, or of a LocalBackend alone.  Goroutines  *)
(* share the caches; r.mu is held for a get or a put and not in between,   *)
(* so lookups of one host overlap and answers come in any order.           *)
(*                                                                         *)
(* Every method of Resolver has a cache of its own, and this is one of     *)
(* them: ResolveAll's, or that of Resolve, LookupCNAME, LookupMX,          *)
(* LookupTXT or LookupNS, which differ in what they return and not in how  *)
(* it is fetched and kept.  Of an answer only ValidUntil matters.          *)
(***************************************************************************)
EXTENDS Naturals, Sequences, SequencesExt

CONSTANTS
    Caller,      \* goroutines that look hosts up
    Host,
    Cap,         \* CacheCapacity
    TTL,         \* CacheTTL
    LocalTTL,    \* the 5 minutes of LocalBackend.ResolveAll
    Lifetime,    \* lifetimes that dns-service may give to an answer
    MaxNow       \* bound: the clock

\* newCachingResolver replaces values that are not positive.
ASSUME DnsOK ==
    /\ Cap \in Nat \ {0} /\ TTL \in Nat \ {0} /\ LocalTTL \in Nat \ {0}
    /\ Lifetime \subseteq Nat
    /\ MaxNow \in Nat \ {0}

\* 0 is the zero time.Time.
Time == 1..MaxNow

Entry == [host : Host, validUntil : Nat, expiresAt : Nat, putAt : Time, left : Nat]

Idle == [pc |-> "idle"]
ServiceQuery == [pc : {"service"}, host : Host]
LocalQuery == [pc : {"local"}, host : Host, since : Time]
Query == ServiceQuery \cup LocalQuery
Fetched == [pc : {"fetched"}, host : Host, validUntil : Nat, left : Nat]

VARIABLES
    resolveAll,  \* this is the cache of ResolveAll
    serviceURL,  \* there is an HTTPBackend
    now,
    ll,          \* the list of the cache, front first
    idx,         \* the hosts that its map knows
    caller,      \* where each goroutine is
    recent       \* history: hosts by their last use, latest first

setup == <<resolveAll, serviceURL>>
cache == <<ll, idx, recent>>
vars == <<resolveAll, serviceURL, now, ll, idx, caller, recent>>

DnsTypeOK ==
    /\ resolveAll \in BOOLEAN /\ serviceURL \in BOOLEAN
    /\ now \in Time
    /\ ll \in Seq(Entry)
    /\ idx \in SUBSET Host
    /\ caller \in [Caller -> {Idle} \cup Query \cup Fetched]
    /\ recent \in Seq(Host)

-----------------------------------------------------------------------------
(* lru. *)

HostsOf(l) == {l[i].host : i \in DOMAIN l}
Without(l, h) == RemoveFirstMatch(l, LAMBDA e : e.host = h)
EntryOf(l, h) == l[CHOOSE i \in DOMAIN l : l[i].host = h]

Expired(e) == now > e.expiresAt

\* The last use of host h is now.
Use(h) == recent' = <<h>> \o RemoveFirst(recent, h)

\* mutant: a hit does not move its entry to the front
MoveToFront_not(h) == ll' = ll

MoveToFront(h) == ll' = <<EntryOf(ll, h)>> \o Without(ll, h)

\* mutant: an evicted host stays in the map
put_idx_stays(e) ==
    LET l == <<e>> \o Without(ll, e.host) IN
    /\ ll' = SubSeq(l, 1, IF Len(l) < Cap THEN Len(l) ELSE Cap)
    /\ idx' = idx \cup {e.host}
    /\ Use(e.host)

\* put: a known host gets the new value and moves to the front; a new one
\* pushes out what is over the capacity.
put(e) ==
    LET l == <<e>> \o Without(ll, e.host) IN
    /\ ll' = SubSeq(l, 1, IF Len(l) < Cap THEN Len(l) ELSE Cap)
    /\ idx' = (idx \cup {e.host}) \ HostsOf(SubSeq(l, Cap + 1, Len(l)))
    /\ Use(e.host)

-----------------------------------------------------------------------------
(* cachingResolver: get under the lock, the backend without, put under it. *)

\* The get finds the host, and the call returns.
CacheHit(h) ==
    /\ h \in idx /\ ~Expired(EntryOf(ll, h))
    /\ MoveToFront(h)
    /\ Use(h)
    /\ UNCHANGED <<setup, now, idx, caller>>

\* The local resolver is asked, at a moment from which its answer counts.
AskLocal(h) == [pc |-> "local", host |-> h, since |-> now]

\* The get finds nothing, or something expired that it removes.
CacheMiss(c, h) ==
    /\ caller[c] = Idle
    /\ h \in idx => Expired(EntryOf(ll, h))
    /\ ll' = Without(ll, h)
    /\ idx' = idx \ {h}
    /\ caller' = [caller EXCEPT ![c] =
                    IF serviceURL THEN [pc |-> "service", host |-> h] ELSE AskLocal(h)]
    /\ UNCHANGED <<setup, now, recent>>

\* mutant: the lifetime of an answer replaces CacheTTL
Kept_uncapped(left) == IF left > 0 THEN left ELSE TTL

\* How long an answer is kept that had so much of its lifetime left.
Kept(left) == IF left > 0 /\ left < TTL THEN left ELSE TTL

\* The call has the lock again; put reads the clock once more.
Store(c) ==
    /\ caller[c] \in Fetched
    /\ put([host |-> caller[c].host, validUntil |-> caller[c].validUntil,
            expiresAt |-> now + Kept(caller[c].left), putAt |-> now,
            left |-> caller[c].left])
    /\ caller' = [caller EXCEPT ![c] = Idle]
    /\ UNCHANGED <<setup, now>>

-----------------------------------------------------------------------------
(* The backends. *)

\* time.Until, with 0 for a lifetime that is over or was not given.
Left(until) == IF until > now THEN until - now ELSE 0

\* mutant: the fetched answer belongs to no host
Answered_without_host(c, until) ==
    LET validUntil == IF resolveAll THEN until ELSE 0 IN
    /\ caller' = [caller EXCEPT ![c] =
                    [pc |-> "fetched", host |-> "", validUntil |-> validUntil,
                     left |-> Left(validUntil)]]
    /\ UNCHANGED <<setup, now, cache>>

\* The answer is measured against the clock; then the call waits for the lock.
\* Only Records has a ValidUntil.
Answered(c, until) ==
    LET validUntil == IF resolveAll THEN until ELSE 0 IN
    /\ caller' = [caller EXCEPT ![c] =
                    [pc |-> "fetched", host |-> caller[c].host, validUntil |-> validUntil,
                     left |-> Left(validUntil)]]
    /\ UNCHANGED <<setup, now, cache>>

\* An error is returned and not cached.
Refused(c) ==
    /\ caller' = [caller EXCEPT ![c] = Idle]
    /\ UNCHANGED <<setup, now, cache>>

\* do(): a 2xx, whose lifetime is to come, over already, or not given.
ServiceAnswers(c, until) == caller[c].pc = "service" /\ Answered(c, until)

\* do(): 404, 504, any other status, a body that does not decode.
ServiceRefuses(c) == caller[c].pc = "service" /\ Refused(c)

\* do(): ErrServiceUnavailable, and callOrFallback goes to the local resolver.
ServiceUnreachable(c) ==
    /\ caller[c].pc = "service"
    /\ caller' = [caller EXCEPT ![c] = AskLocal(caller[c].host)]
    /\ UNCHANGED <<setup, now, cache>>

\* LocalBackend.  ResolveAll folds every error into empty fields, so it has
\* an answer even when nothing answered.
LocalAnswers(c) == caller[c].pc = "local" /\ Answered(c, caller[c].since + LocalTTL)

\* The other methods return mapErr(err).
LocalFails(c) == caller[c].pc = "local" /\ ~resolveAll /\ Refused(c)

Tick ==
    /\ now < MaxNow
    /\ now' = now + 1
    /\ UNCHANGED <<setup, caller, cache>>

-----------------------------------------------------------------------------

Init ==
    /\ resolveAll \in BOOLEAN /\ serviceURL \in BOOLEAN
    /\ now = 1
    /\ ll = <<>> /\ idx = {}
    /\ caller = [c \in Caller |-> Idle]
    /\ recent = <<>>

Backend(c) ==
    \/ \E until \in {0, now - 1} \cup {now + d : d \in Lifetime} : ServiceAnswers(c, until)
    \/ ServiceRefuses(c) \/ ServiceUnreachable(c)
    \/ LocalAnswers(c) \/ LocalFails(c)

Next ==
    \/ \E h \in Host : CacheHit(h) \/ \E c \in Caller : CacheMiss(c, h)
    \/ \E c \in Caller : Store(c) \/ Backend(c)
    \/ Tick

Spec == Init /\ [][Next]_vars

-----------------------------------------------------------------------------
(* Correctness. *)

\* The list and the map of the lru agree after any sequence of gets and puts,
\* overlapping lookups of one host included: the same hosts, none of them
\* twice, and no more than CacheCapacity.
LruIsSound ==
    /\ idx = HostsOf(ll)
    /\ \A i, j \in DOMAIN ll : ll[i].host = ll[j].host => i = j
    /\ Len(ll) <= Cap

\* What a get would return was put no longer ago than CacheTTL, and, if the
\* answer came with some of its lifetime left, no longer ago than that: it
\* outlives ValidUntil by the wait for the lock at most.  ServedIsValid is the
\* promise for every answer, those included that are past it on arrival.
ServedWithinLimits ==
    \A i \in DOMAIN ll :
        ~Expired(ll[i]) =>
            /\ now <= ll[i].putAt + TTL
            /\ ll[i].left > 0 => now <= ll[i].putAt + ll[i].left

\* "Callers shouldn't trust answers past this; the lib enforces it on its own
\* LRU": a get returns nothing whose ValidUntil is over.
ServedIsValid ==
    \A i \in DOMAIN ll :
        ~Expired(ll[i]) /\ ll[i].validUntil # 0 => now <= ll[i].validUntil

\* A put removes nothing but the host that was used least recently, and that
\* only when CacheCapacity others are there.
EvictsLeastRecent ==
    [][\A c \in Caller, h \in Host :
          Store(c) /\ h \in idx /\ h \notin idx' =>
              /\ Len(ll') = Cap
              /\ \A g \in idx' : \E i, j \in DOMAIN recent' :
                    recent'[i] = g /\ recent'[j] = h /\ i < j]_vars
=============================================================================
