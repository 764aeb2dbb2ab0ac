------------------------------- MODULE MCFill -------------------------------
(* Fill for TLC: VMs are interchangeable where no liveness is checked. *)
EXTENDS Fill, TLC

Symmetry == Permutations(VMs)
=============================================================================
