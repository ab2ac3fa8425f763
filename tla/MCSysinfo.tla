----------------------------- MODULE MCSysinfo -----------------------------
(* Instances of Sysinfo for TLC. *)
EXTENDS Sysinfo, TLC

ThreadSymmetry == Permutations(Threads)
=============================================================================
