---- MODULE MC_Lifecycle ----
(* Instances of Lifecycle for TLC. *)
EXTENDS Lifecycle, TLC
====
