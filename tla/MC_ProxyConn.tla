---- MODULE MC_ProxyConn ----
(* Instances of ProxyConn for TLC. *)
EXTENDS ProxyConn
====
