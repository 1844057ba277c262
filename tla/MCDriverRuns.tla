---------------------------- MODULE MCDriverRuns ----------------------------
(* Small instances of DriverRuns.                                          *)
EXTENDS DriverRuns

CONSTANTS s1, s2

TwoSupervisors == {s1, s2}
=============================================================================
