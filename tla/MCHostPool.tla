----------------------------- MODULE MCHostPool -----------------------------
(* HostPool for TLC: callers are interchangeable. *)
EXTENDS HostPool, TLC

CallerSymmetry == Permutations(Callers)
=============================================================================
