----------------------------- MODULE MCSyscalls -----------------------------
(* An instance of Syscalls for TLC: a uint has four values, so that a count *)
(* of ticks starts again at 0 in the middle of a sleep of two ticks.        *)
EXTENDS Syscalls

TwoTicks  == {-1, 2}
SomeMasks == {{}, {"sleep", "trace"}}
=============================================================================
