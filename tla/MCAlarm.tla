------------------------------ MODULE MCAlarm ------------------------------
(* Instances of Alarm for TLC. *)
EXTENDS Alarm

\* Two slots, so that one process forks another; ints of two bits:
\* -2 is the only tick an interval of 2 rings at.
AlarmIntervals == {0, 2}
=============================================================================
