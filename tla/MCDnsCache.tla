------------------------------ MODULE MCDnsCache ------------------------------
(***************************************************************************)
(* Two goroutines, three hosts and room for two; lifetimes shorter and     *)
(* longer than CacheTTL.  Goroutines are alike, and so are hosts.          *)
(***************************************************************************)
EXTENDS DnsCache, TLC

Symmetry == Permutations(Caller) \cup Permutations(Host)
=============================================================================
