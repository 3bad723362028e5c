---- MODULE MC_WgLease ----
(* Instances of WgLease for TLC. *)
EXTENDS WgLease, TLC

Symmetry == Permutations(Handlers) \cup Permutations(Keys)
====
