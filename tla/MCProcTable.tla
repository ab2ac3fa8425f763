----------------------------- MODULE MCProcTable -----------------------------
\* The process table on a small instance for TLC.
EXTENDS ProcInv, TLC

CpuSymmetry == Permutations(Cpus)
=============================================================================
