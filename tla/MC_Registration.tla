---- MODULE MC_Registration ----
(* Instances of Registration for TLC. *)
EXTENDS Registration, TLC
====
