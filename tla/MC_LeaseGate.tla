---- MODULE MC_LeaseGate ----
(* Instances of LeaseGate for TLC. *)
EXTENDS LeaseGate, TLC

Symmetry == Permutations(Handlers) \cup Permutations(Addrs)
====
