------------------------------- MODULE JobRuns -------------------------------
(***************************************************************************)
(* How often the handlers of the job table (JobQueue.tla) run to the end.  *)
(*                                                                         *)
(* A handler's transaction and the record of it (completeJob) are two      *)
(* transactions, and completeJob and failJob write by id alone, so a       *)
(* handler may run again after it has committed.  This module counts how   *)
(* often that can be.  The count is history: it watches the steps of       *)
(* JobQueue and changes none of them.                                      *)
(***************************************************************************)
EXTENDS JobQueue

VARIABLE
  spare  \* spare[j]: one commit of j's handler, and one for each excuse there
         \* was to run it again, less the commits there have been

runVars == <<vars, spare>>

\* j's handler commits.
HandlerEnds(j) ==
  \E w \in Workers : outcome[w] = Idle /\ outcome'[w] = [kind |-> "committed", job |-> j]

\* The excuses.  j is claimed while another claim on it has expired ...
TakenOver(j) ==
  \E w \in Workers : row[j].status = "running" /\ ~Holds(w, j) /\ Holds(w, j)'

\* ... or completeJob throws after j's handler has committed.
NotRecorded(j) ==
  \E w \in Workers : /\ outcome[w] = [kind |-> "committed", job |-> j]
                     /\ outcome'[w] = [kind |-> "threw", job |-> j]

CountedInit ==
  /\ Init
  /\ spare = [j \in Jobs |-> 1]

CountedNext ==
  /\ Next
  /\ spare' = [j \in Jobs |-> IF TakenOver(j) \/ NotRecorded(j) THEN spare[j] + 1
                              ELSE IF HandlerEnds(j) THEN spare[j] - 1
                              ELSE spare[j]]

CountedSpec == CountedInit /\ [][CountedNext]_runVars

(* A row's handler commits once, and once more only for a claim that was     *)
(* taken over after it expired or for a success that completeJob failed to   *)
(* write down: of these there is always one to spare.  However late a worker *)
(* records its outcome, over whoever's row, and whatever a person presses    *)
(* meanwhile, nothing else runs a handler again (claimJobs, completeJob and  *)
(* failJob in queue.ts, runJob in runner.ts).                                *)
RepeatsAreAccountedFor == \A j \in Jobs : spare[j] >= 0

=============================================================================
