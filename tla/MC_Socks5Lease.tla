---- MODULE MC_Socks5Lease ----
(* Instances of Socks5Lease for TLC. *)
EXTENDS Socks5Lease, TLC

Symmetry == Permutations(Handlers)
====
