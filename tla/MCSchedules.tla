---------------------------- MODULE MCSchedules ----------------------------
(* Small instances of Schedules: one schedule of a company, one global one. *)
EXTENDS Schedules

CONSTANTS w1, w2, bankSync, pruneJobs, i1, i2, i3

MCWorkers == {w1, w2}
MCDefaults == {bankSync, pruneJobs}
MCIds == {i1, i2, i3}
MCPeriod == [d \in MCDefaults |-> IF d = bankSync THEN 1 ELSE 2]

\* Two ticks of the clock with a kill, and one with a press of Pause or Resume
\* as well.
MCScenarios == {[time |-> 2, crashes |-> 1, presses |-> 0],
                [time |-> 1, crashes |-> 1, presses |-> 1]}
============================================================================
