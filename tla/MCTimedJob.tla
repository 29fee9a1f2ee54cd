---------------------------- MODULE MCTimedJob ----------------------------
(* A job in time, small enough for TLC.                                    *)
EXTENDS TimedJob, Status

Workers == Permutations(Worker)
Fields == [taskTimeout |-> 1, reapInterval |-> 0, thresholdPct |-> 0, minSamples |-> -1]
Defaults == [taskTimeout |-> 4, reapInterval |-> 1, thresholdPct |-> 100, minSamples |-> 1]
=============================================================================
