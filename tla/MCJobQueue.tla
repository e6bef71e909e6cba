---------------------------- MODULE MCJobQueue ----------------------------
(* Small instances of JobQueue, counted.                                     *)
EXTENDS JobRuns, TLC

CONSTANTS w1, w2, j1, j2

MCWorkers == {w1, w2}
MCJobs == {j1, j2}

\* Two rows without a key, of different priority.
PlainKeys == [j \in MCJobs |-> NoKey]
PlainPriority == [j \in MCJobs |-> IF j = j1 THEN 1 ELSE 0]

WorkerSymmetry == Permutations(MCWorkers)
===========================================================================
