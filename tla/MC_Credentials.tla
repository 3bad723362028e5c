---- MODULE MC_Credentials ----
(* Instances of Credentials for TLC. *)
EXTENDS Credentials, TLC

Symmetry == Permutations(Users)
====
