---------------------------- MODULE MCProxyClient ----------------------------
(* A small instance of ProxyClient. *)
EXTENDS ProxyClient, TLC
=============================================================================
