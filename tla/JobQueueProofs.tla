--------------------------- MODULE JobQueueProofs ---------------------------
(***************************************************************************)
(* The safety of the job table, for any number of workers, rows, attempts, *)
(* kills and presses.                                                      *)
(*                                                                         *)
(* TypeOK is inductive by itself.  HolderOwnsRow is the heart: every other *)
(* invariant is about a worker recording an outcome on a row, and holds    *)
(* because the row is still the one that worker claimed.                   *)
(* RepeatsAreAccountedFor is about the stolen rows too, and rests on a     *)
(* count instead: the workers about to run a row's handler, and the row    *)
(* itself while it can still be claimed without an excuse.                 *)
(***************************************************************************)
EXTENDS JobRuns, FiniteSetTheorems, TLAPS

\* Between a handler's end and its record the worker still holds the row, in
\* its own eyes, and what is about to be recorded as a success did commit.
OutcomeIsOfHeldRow ==
  \A w \in Workers :
    outcome[w].kind # "none" =>
      /\ Holds(w, outcome[w].job)
      /\ outcome[w].kind = "committed" => outcome[w].job \in done

\* A step moves one row, or one worker, or claims a batch; the cases of Next.
LEMMA NextCases ==
  ASSUME Next
  PROVE \/ \E j \in Jobs : Enqueue(j)
        \/ \E j \in Jobs : ClaimExpires(j)
        \/ \E j \in Jobs : BecomesDue(j)
        \/ \E j \in Jobs : Retry(j)
        \/ \E j \in Jobs : Cancel(j)
        \/ \E j \in Jobs : Prune(j)
        \/ \E w \in Workers : Claim(w)
        \/ \E w \in Workers, j \in Jobs : RunUnknown(w, j)
        \/ \E w \in Workers, j \in Jobs : HandlerCommits(w, j)
        \/ \E w \in Workers, j \in Jobs : HandlerThrows(w, j)
        \/ \E w \in Workers : RecordSuccess(w)
        \/ \E w \in Workers : RecordSuccessErrors(w)
        \/ \E w \in Workers : RecordFailure(w)
        \/ \E w \in Workers : Crash(w)
BY DEF Next, WorkerStep

\* What failJob and completeJob leave in the table is a table.
LEMMA MarksAreRows ==
  ASSUME TypeOK, NEW j \in Jobs, NEW a \in Nat
  PROVE MarkFailed(j, a) \in [Jobs -> Row] /\ MarkSucceeded(j) \in [Jobs -> Row]
BY DEF TypeOK, MarkFailed, MarkSucceeded, Unlocked, Row, Status

\* An outcome that is still owed names a row.
LEMMA OutcomeJob ==
  ASSUME TypeOK, NEW w \in Workers, outcome[w].kind # "none"
  PROVE /\ outcome[w].job \in Jobs
        /\ outcome[w] \in [kind : {"committed", "threw"}, job : Jobs]
<1>1. outcome[w] \in Outcome
  BY DEF TypeOK
<1>2. outcome[w] # Idle
  BY DEF Idle
<1> QED
  BY <1>1, <1>2 DEF Outcome

-----------------------------------------------------------------------------

LEMMA TypeInit == Init => TypeOK
BY QueueAssumption DEF Init, TypeOK, Unlocked, Row, Status, Outcome, Idle

LEMMA TypeStep == TypeOK /\ [Next]_vars => TypeOK'
<1> SUFFICES ASSUME TypeOK, [Next]_vars PROVE TypeOK'
  OBVIOUS
<1> USE DEF TypeOK
<1>1. ASSUME NEW j \in Jobs, Enqueue(j) PROVE TypeOK'
  BY <1>1 DEF Enqueue, InsertRow, Unlocked, Row, Status
<1>2. ASSUME NEW j \in Jobs, ClaimExpires(j) PROVE TypeOK'
  BY <1>2 DEF ClaimExpires, Row, Status
<1>3. ASSUME NEW j \in Jobs, BecomesDue(j) PROVE TypeOK'
  BY <1>3 DEF BecomesDue, Row, Status
<1>4. ASSUME NEW j \in Jobs, Retry(j) PROVE TypeOK'
  BY <1>4 DEF Retry, Press, Unlocked, Row, Status
<1>5. ASSUME NEW j \in Jobs, Cancel(j) PROVE TypeOK'
  BY <1>5 DEF Cancel, Press, Unlocked, Row, Status
<1>6. ASSUME NEW j \in Jobs, Prune(j) PROVE TypeOK'
  BY <1>6 DEF Prune, Row, Status
<1>7. ASSUME NEW w \in Workers, Claim(w) PROVE TypeOK'
  <2> PICK S \in Batches \ {{}} :
        /\ row' = [j \in Jobs |->
                     IF j \in S
                     THEN [status |-> "running", attempts |-> row[j].attempts + 1,
                           lockedBy |-> w, expired |-> FALSE, due |-> row[j].due]
                     ELSE row[j]]
        /\ claim' = [claim EXCEPT ![w] = [j \in Jobs |->
                                            IF j \in S THEN row[j].attempts + 1 ELSE 0]]
        /\ stolen' = stolen \cup {j \in S : row[j].status = "running" /\ row[j].expired}
    BY <1>7 DEF Claim
  <2>1. S \subseteq Jobs
    BY DEF Batches
  <2>2. row' \in [Jobs -> Row]
    BY <2>1 DEF Row, Status
  <2>3. claim' \in [Workers -> [Jobs -> Nat]]
    BY <2>1 DEF Row
  <2>4. stolen' \in SUBSET Jobs
    BY <2>1
  <2> QED
    BY <1>7, <2>2, <2>3, <2>4 DEF Claim
<1>8. ASSUME NEW w \in Workers, NEW j \in Jobs, RunUnknown(w, j) PROVE TypeOK'
  BY <1>8, MarksAreRows, QueueAssumption DEF RunUnknown, Release
<1>9. ASSUME NEW w \in Workers, NEW j \in Jobs, HandlerCommits(w, j) PROVE TypeOK'
  BY <1>9 DEF HandlerCommits, Outcome
<1>10. ASSUME NEW w \in Workers, NEW j \in Jobs, HandlerThrows(w, j) PROVE TypeOK'
  BY <1>10 DEF HandlerThrows, Outcome
<1>11. ASSUME NEW w \in Workers, RecordSuccess(w) PROVE TypeOK'
  BY <1>11, MarksAreRows, OutcomeJob DEF RecordSuccess, Release, Outcome
<1>12. ASSUME NEW w \in Workers, RecordSuccessErrors(w) PROVE TypeOK'
  BY <1>12, OutcomeJob DEF RecordSuccessErrors, Outcome
<1>13. ASSUME NEW w \in Workers, RecordFailure(w) PROVE TypeOK'
  BY <1>13, MarksAreRows, OutcomeJob DEF RecordFailure, Release, Outcome
<1>14. ASSUME NEW w \in Workers, Crash(w) PROVE TypeOK'
  BY <1>14, QueueAssumption DEF Crash, Outcome
<1>15. CASE UNCHANGED vars
  BY <1>15 DEF vars
<1> QED
  BY <1>1, <1>2, <1>3, <1>4, <1>5, <1>6, <1>7, <1>8, <1>9, <1>10, <1>11, <1>12, <1>13,
     <1>14, <1>15, NextCases

(* Every variable keeps its type: the records worker code reads back from    *)
(* the table (queue.ts, runner.ts) are always rows.                          *)
THEOREM TypeCorrect == Spec => []TypeOK
BY TypeInit, TypeStep, PTL DEF Spec

-----------------------------------------------------------------------------
(* HolderOwnsRow                                                            *)

\* failJob and completeJob touch the row they name and no other.
LEMMA MarksTouchOneRow ==
  ASSUME TypeOK, NEW j \in Jobs, NEW i \in Jobs, i # j, NEW a
  PROVE MarkFailed(j, a)[i] = row[i] /\ MarkSucceeded(j)[i] = row[i]
BY DEF TypeOK, MarkFailed, MarkSucceeded

\* What Claim does, its batch named.
LEMMA ClaimBatch ==
  ASSUME NEW w \in Workers, Claim(w)
  PROVE \E S \in SUBSET Jobs :
          /\ \A j \in S : Claimable(j)
          /\ row' = [j \in Jobs |->
                       IF j \in S
                       THEN [status |-> "running", attempts |-> row[j].attempts + 1,
                             lockedBy |-> w, expired |-> FALSE, due |-> row[j].due]
                       ELSE row[j]]
          /\ claim' = [claim EXCEPT ![w] = [j \in Jobs |->
                                              IF j \in S THEN row[j].attempts + 1 ELSE 0]]
          /\ stolen' = stolen \cup {j \in S : row[j].status = "running" /\ row[j].expired}
<1>1. \A S \in Batches \ {{}} : S \in SUBSET Jobs /\ \A j \in S : Claimable(j)
  BY DEF Batches
<1> QED
  BY <1>1 DEF Claim

LEMMA HolderStep ==
  TypeOK /\ HolderOwnsRow /\ OutcomeIsOfHeldRow /\ [Next]_vars => HolderOwnsRow'
<1> SUFFICES ASSUME TypeOK, HolderOwnsRow, OutcomeIsOfHeldRow, [Next]_vars,
                    NEW v \in Workers, NEW i \in Jobs,
                    Holds(v, i)', i \notin stolen'
             PROVE  /\ row'[i].status = "running"
                    /\ row'[i].lockedBy = v
                    /\ row'[i].attempts = claim'[v][i]
  BY DEF HolderOwnsRow
<1> USE DEF TypeOK, Holds
\* The steps that leave claims alone: the row was held before, so it runs.
<1>a. ASSUME claim' = claim, stolen' = stolen
      PROVE /\ row[i].status = "running"
            /\ row[i].lockedBy = v
            /\ row[i].attempts = claim'[v][i]
  BY <1>a DEF HolderOwnsRow
<1>1. ASSUME NEW j \in Jobs, Enqueue(j) PROVE row'[i] = row[i] /\ claim' = claim /\ stolen' = stolen
  BY <1>1, <1>a DEF Enqueue, InsertRow
<1>2. ASSUME NEW j \in Jobs, ClaimExpires(j)
      PROVE /\ claim' = claim /\ stolen' = stolen
            /\ row'[i] = row[i] \/ row'[i] = [row[i] EXCEPT !.expired = TRUE]
  BY <1>2 DEF ClaimExpires
<1>3. ASSUME NEW j \in Jobs, BecomesDue(j)
      PROVE /\ claim' = claim /\ stolen' = stolen
            /\ row'[i] = row[i] \/ row'[i] = [row[i] EXCEPT !.due = TRUE]
  BY <1>3 DEF BecomesDue
<1>4. ASSUME NEW j \in Jobs, Retry(j) PROVE row'[i] = row[i] /\ claim' = claim /\ stolen' = stolen
  BY <1>4, <1>a DEF Retry
<1>5. ASSUME NEW j \in Jobs, Cancel(j) PROVE row'[i] = row[i] /\ claim' = claim /\ stolen' = stolen
  BY <1>5, <1>a DEF Cancel
<1>6. ASSUME NEW j \in Jobs, Prune(j) PROVE row'[i] = row[i] /\ claim' = claim /\ stolen' = stolen
  BY <1>6, <1>a DEF Prune
<1>7. ASSUME NEW w \in Workers, Claim(w)
      PROVE /\ row'[i].status = "running"
            /\ row'[i].lockedBy = v
            /\ row'[i].attempts = claim'[v][i]
  <2> PICK S \in SUBSET Jobs :
          /\ \A j \in S : Claimable(j)
          /\ row' = [j \in Jobs |->
                       IF j \in S
                       THEN [status |-> "running", attempts |-> row[j].attempts + 1,
                             lockedBy |-> w, expired |-> FALSE, due |-> row[j].due]
                       ELSE row[j]]
          /\ claim' = [claim EXCEPT ![w] = [j \in Jobs |->
                                              IF j \in S THEN row[j].attempts + 1 ELSE 0]]
          /\ stolen' = stolen \cup {j \in S : row[j].status = "running" /\ row[j].expired}
    BY <1>7, ClaimBatch
  <2>1. CASE v = w
    BY <2>1
  <2>2. CASE v # w
    <3>1. claim'[v][i] = claim[v][i] /\ i \notin stolen
      BY <2>2
    <3>2. row[i].status = "running" /\ row[i].lockedBy = v /\ row[i].attempts = claim[v][i]
      BY <3>1 DEF HolderOwnsRow
    <3>3. i \notin S
      BY <3>2 DEF Claimable
    <3> QED
      BY <3>1, <3>2, <3>3
  <2> QED
    BY <2>1, <2>2
\* A worker that lets go of row j keeps what it holds of the others, and no
\* other worker holds j.
<1>b. ASSUME NEW w \in Workers, NEW j \in Jobs, Holds(w, j), Release(w, j), stolen' = stolen,
             \A k \in Jobs \ {j} : row'[k] = row[k]
      PROVE /\ row'[i].status = "running"
            /\ row'[i].lockedBy = v
            /\ row'[i].attempts = claim'[v][i]
  <2>1. Holds(v, i) /\ claim'[v][i] = claim[v][i]
    BY <1>b DEF Release
  <2>2. row[i].status = "running" /\ row[i].lockedBy = v /\ row[i].attempts = claim[v][i]
    BY <1>b, <2>1 DEF HolderOwnsRow
  <2>3. i # j
    <3> SUFFICES ASSUME i = j PROVE FALSE
      OBVIOUS
    <3>1. row[j].lockedBy = w
      BY <1>b DEF HolderOwnsRow
    <3>2. v = w
      BY <3>1, <2>2
    <3> QED
      BY <3>2, <1>b DEF Release
  <2> QED
    BY <1>b, <2>1, <2>2, <2>3
<1>8. ASSUME NEW w \in Workers, NEW j \in Jobs, RunUnknown(w, j)
      PROVE Holds(w, j) /\ Release(w, j) /\ stolen' = stolen /\ \A k \in Jobs \ {j} : row'[k] = row[k]
  BY <1>8, MarksTouchOneRow DEF RunUnknown
<1>9. ASSUME NEW w \in Workers, NEW j \in Jobs, HandlerCommits(w, j)
      PROVE row' = row /\ claim' = claim /\ stolen' = stolen
  BY <1>9 DEF HandlerCommits
<1>10. ASSUME NEW w \in Workers, NEW j \in Jobs, HandlerThrows(w, j)
       PROVE row' = row /\ claim' = claim /\ stolen' = stolen
  BY <1>10 DEF HandlerThrows
<1>11. ASSUME NEW w \in Workers, RecordSuccess(w)
       PROVE LET j == outcome[w].job
             IN  /\ j \in Jobs /\ Holds(w, j) /\ Release(w, j) /\ stolen' = stolen
                 /\ \A k \in Jobs \ {j} : row'[k] = row[k]
  BY <1>11, OutcomeJob, MarksTouchOneRow DEF RecordSuccess, OutcomeIsOfHeldRow
<1>12. ASSUME NEW w \in Workers, RecordSuccessErrors(w)
       PROVE row' = row /\ claim' = claim /\ stolen' = stolen
  BY <1>12 DEF RecordSuccessErrors
<1>13. ASSUME NEW w \in Workers, RecordFailure(w)
       PROVE LET j == outcome[w].job
             IN  /\ j \in Jobs /\ Holds(w, j) /\ Release(w, j) /\ stolen' = stolen
                 /\ \A k \in Jobs \ {j} : row'[k] = row[k]
  BY <1>13, OutcomeJob, MarksTouchOneRow DEF RecordFailure, OutcomeIsOfHeldRow
<1>14. ASSUME NEW w \in Workers, Crash(w)
       PROVE row' = row /\ stolen' = stolen /\ v # w /\ claim'[v] = claim[v]
  BY <1>14 DEF Crash
<1>15. CASE UNCHANGED vars
  BY <1>15, <1>a DEF vars
<1> QED
  <2>1. ASSUME row' = row, stolen' = stolen, NEW w \in Workers, v # w, claim'[v] = claim[v]
        PROVE row[i].status = "running" /\ row[i].lockedBy = v /\ row[i].attempts = claim'[v][i]
    BY <2>1 DEF HolderOwnsRow
  <2>2. ASSUME \/ row'[i] = row[i]
               \/ row'[i] = [row[i] EXCEPT !.expired = TRUE]
               \/ row'[i] = [row[i] EXCEPT !.due = TRUE]
        PROVE /\ row'[i].status = row[i].status /\ row'[i].lockedBy = row[i].lockedBy
              /\ row'[i].attempts = row[i].attempts
    BY <2>2 DEF Row
  <2> QED
    BY <1>a, <1>1, <1>2, <1>3, <1>4, <1>5, <1>6, <1>7, <1>b, <1>8, <1>9, <1>10, <1>11, <1>12,
       <1>13, <1>14, <1>15, <2>1, <2>2, NextCases

-----------------------------------------------------------------------------
(* The other invariants: each rests on the worker still holding its row.    *)

LEMMA OutcomeStep == TypeOK /\ OutcomeIsOfHeldRow /\ [Next]_vars => OutcomeIsOfHeldRow'
<1> SUFFICES ASSUME TypeOK, OutcomeIsOfHeldRow, [Next]_vars,
                    NEW v \in Workers, outcome'[v].kind # "none"
             PROVE  /\ Holds(v, outcome[v].job)'
                    /\ outcome'[v].kind = "committed" => outcome'[v].job \in done'
  BY DEF OutcomeIsOfHeldRow
<1> USE DEF TypeOK, Holds
<1>a. ASSUME claim'[v] = claim[v], outcome'[v] = outcome[v], done' = done
      PROVE  /\ Holds(v, outcome[v].job)'
             /\ outcome'[v].kind = "committed" => outcome'[v].job \in done'
  BY <1>a DEF OutcomeIsOfHeldRow
<1>1. ASSUME NEW j \in Jobs,
             Enqueue(j) \/ ClaimExpires(j) \/ BecomesDue(j) \/ Retry(j) \/ Cancel(j) \/ Prune(j)
      PROVE  claim'[v] = claim[v] /\ outcome'[v] = outcome[v] /\ done' = done
  BY <1>1 DEF Enqueue, ClaimExpires, BecomesDue, Retry, Cancel, Prune
<1>2. ASSUME NEW w \in Workers, Claim(w)
      PROVE  claim'[v] = claim[v] /\ outcome'[v] = outcome[v] /\ done' = done
  BY <1>2 DEF Claim, Idle
<1>3. ASSUME NEW w \in Workers, NEW j \in Jobs, RunUnknown(w, j)
      PROVE  claim'[v] = claim[v] /\ outcome'[v] = outcome[v] /\ done' = done
  BY <1>3 DEF RunUnknown, Release, Idle
<1>4. ASSUME NEW w \in Workers, NEW j \in Jobs, HandlerCommits(w, j) \/ HandlerThrows(w, j)
      PROVE  /\ Holds(v, outcome[v].job)'
             /\ outcome'[v].kind = "committed" => outcome'[v].job \in done'
  <2>1. claim' = claim /\ done \subseteq done'
    BY <1>4 DEF HandlerCommits, HandlerThrows
  <2>2. CASE v # w
    <3>1. outcome'[v] = outcome[v]
      BY <1>4, <2>2 DEF HandlerCommits, HandlerThrows
    <3> QED
      BY <2>1, <3>1 DEF OutcomeIsOfHeldRow
  <2>3. CASE v = w
    <3>1. outcome'[w].job = j /\ claim[w][j] # 0
      BY <1>4 DEF HandlerCommits, HandlerThrows
    <3>2. outcome'[w].kind = "committed" => j \in done'
      BY <1>4 DEF HandlerCommits, HandlerThrows
    <3> QED
      BY <2>1, <2>3, <3>1, <3>2
  <2> QED
    BY <2>2, <2>3
<1>5. ASSUME NEW w \in Workers, RecordSuccess(w) \/ RecordFailure(w)
      PROVE  claim'[v] = claim[v] /\ outcome'[v] = outcome[v] /\ done' = done
  <2>1. v # w
    BY <1>5 DEF RecordSuccess, RecordFailure, Idle
  <2> QED
    BY <1>5, <2>1 DEF RecordSuccess, RecordFailure, Release
<1>6. ASSUME NEW w \in Workers, RecordSuccessErrors(w)
      PROVE  /\ Holds(v, outcome[v].job)'
             /\ outcome'[v].kind = "committed" => outcome'[v].job \in done'
  <2>1. outcome'[v].job = outcome[v].job
    BY <1>6, OutcomeJob DEF RecordSuccessErrors
  <2>2. outcome'[v].kind = "committed" => outcome[v].kind = "committed"
    BY <1>6, OutcomeJob DEF RecordSuccessErrors
  <2>3. outcome[v].kind # "none"
    BY <1>6 DEF RecordSuccessErrors
  <2> QED
    BY <1>6, <2>1, <2>2, <2>3 DEF RecordSuccessErrors, OutcomeIsOfHeldRow
<1>7. ASSUME NEW w \in Workers, Crash(w)
      PROVE  claim'[v] = claim[v] /\ outcome'[v] = outcome[v] /\ done' = done
  BY <1>7 DEF Crash, Idle
<1>8. CASE UNCHANGED vars
  BY <1>8, <1>a DEF vars
<1> QED
  BY <1>a, <1>1, <1>2, <1>3, <1>4, <1>5, <1>6, <1>7, <1>8, NextCases

\* Handlers are never undone, and only completeJob writes `succeeded'.
LEMMA SucceededStep ==
  TypeOK /\ OutcomeIsOfHeldRow /\ SucceededMeansDone /\ [Next]_vars => SucceededMeansDone'
<1> SUFFICES ASSUME TypeOK, OutcomeIsOfHeldRow, SucceededMeansDone, [Next]_vars,
                    NEW i \in Jobs, row'[i].status = "succeeded"
             PROVE  i \in done'
  BY DEF SucceededMeansDone
<1> USE DEF TypeOK
<1>1. done \subseteq done'
  BY NextCases DEF Enqueue, ClaimExpires, BecomesDue, Retry, Cancel, Prune, Claim, RunUnknown,
     HandlerCommits, HandlerThrows, RecordSuccess, RecordSuccessErrors, RecordFailure, Crash, vars
<1>2. ASSUME row[i].status = "succeeded" PROVE i \in done'
  BY <1>1, <1>2 DEF SucceededMeansDone
<1>3. ASSUME NEW j \in Jobs,
             Enqueue(j) \/ ClaimExpires(j) \/ BecomesDue(j) \/ Retry(j) \/ Cancel(j) \/ Prune(j)
      PROVE  row[i].status = "succeeded"
  BY <1>3 DEF Enqueue, InsertRow, Unlocked, ClaimExpires, BecomesDue, Retry, Cancel, Prune, Row
<1>4. ASSUME NEW w \in Workers, Claim(w) PROVE row[i].status = "succeeded"
  BY <1>4, ClaimBatch
<1>5. ASSUME NEW w \in Workers, NEW j \in Jobs, RunUnknown(w, j) PROVE row[i].status = "succeeded"
  BY <1>5 DEF RunUnknown, MarkFailed, Unlocked
<1>6. ASSUME NEW w \in Workers, RecordFailure(w) PROVE row[i].status = "succeeded"
  BY <1>6, OutcomeJob DEF RecordFailure, MarkFailed, Unlocked
<1>7. ASSUME NEW w \in Workers, RecordSuccess(w)
      PROVE row[i].status = "succeeded" \/ i \in done
  <2>1. outcome[w].job \in done
    BY <1>7 DEF RecordSuccess, OutcomeIsOfHeldRow
  <2> QED
    BY <1>7, <2>1, OutcomeJob DEF RecordSuccess, MarkSucceeded
<1>8. ASSUME row' = row PROVE row[i].status = "succeeded"
  BY <1>8
<1> QED
  BY <1>1, <1>2, <1>3, <1>4, <1>5, <1>6, <1>7, <1>8, NextCases
     DEF HandlerCommits, HandlerThrows, RecordSuccessErrors, Crash, vars

\* `stolen' only grows.
LEMMA StolenGrows == [Next]_vars => stolen \subseteq stolen'
BY NextCases DEF Enqueue, ClaimExpires, BecomesDue, Retry, Cancel, Prune, Claim, RunUnknown,
   HandlerCommits, HandlerThrows, RecordSuccess, RecordSuccessErrors, RecordFailure, Crash, vars

LEMMA AttemptsStep ==
  TypeOK /\ HolderOwnsRow /\ OutcomeIsOfHeldRow /\ AttemptsWithinLimit /\ [Next]_vars
    => AttemptsWithinLimit'
<1> SUFFICES ASSUME TypeOK, HolderOwnsRow, OutcomeIsOfHeldRow, AttemptsWithinLimit, [Next]_vars,
                    NEW i \in Jobs, i \notin stolen'
             PROVE  /\ row'[i].attempts <= MaxAttempts
                    /\ row'[i].status \in {"queued", "failed"} => row'[i].attempts < MaxAttempts
  BY DEF AttemptsWithinLimit
<1> DEFINE Within(r) == /\ r.attempts <= MaxAttempts
                        /\ r.status \in {"queued", "failed"} => r.attempts < MaxAttempts
<1> SUFFICES Within(row'[i])
  OBVIOUS
<1> USE DEF TypeOK
<1>a. i \notin stolen /\ Within(row[i])
  BY StolenGrows DEF AttemptsWithinLimit
<1>b. MaxAttempts \in Nat \ {0} /\ row[i].attempts \in Nat
  BY QueueAssumption DEF Row
<1> HIDE DEF Within
<1>1. ASSUME NEW j \in Jobs, Enqueue(j) \/ Retry(j) PROVE Within(row'[i])
  <2>1. row'[i] = row[i] \/ row'[i].attempts = 0
    BY <1>1 DEF Enqueue, InsertRow, Retry, Unlocked
  <2> QED
    BY <2>1, <1>a, <1>b DEF Within
<1>2. ASSUME NEW j \in Jobs, ClaimExpires(j) \/ BecomesDue(j) PROVE Within(row'[i])
  <2>1. \/ row'[i] = row[i]
        \/ row'[i] = [row[i] EXCEPT !.expired = TRUE]
        \/ row'[i] = [row[i] EXCEPT !.due = TRUE]
    BY <1>2 DEF ClaimExpires, BecomesDue
  <2>2. row'[i].status = row[i].status /\ row'[i].attempts = row[i].attempts
    BY <2>1 DEF Row
  <2> QED
    BY <2>2, <1>a DEF Within
<1>3. ASSUME NEW j \in Jobs, Cancel(j) \/ Prune(j) PROVE Within(row'[i])
  <2>1. \/ row'[i] = row[i]
        \/ /\ row'[i].attempts = row[i].attempts
           /\ row'[i].status \in {"cancelled", "deleted"}
    BY <1>3 DEF Cancel, Prune, Unlocked, Row
  <2> QED
    BY <2>1, <1>a DEF Within
<1>4. ASSUME NEW w \in Workers, Claim(w) PROVE Within(row'[i])
  <2> PICK S \in SUBSET Jobs :
          /\ \A j \in S : Claimable(j)
          /\ row' = [j \in Jobs |->
                       IF j \in S
                       THEN [status |-> "running", attempts |-> row[j].attempts + 1,
                             lockedBy |-> w, expired |-> FALSE, due |-> row[j].due]
                       ELSE row[j]]
          /\ claim' = [claim EXCEPT ![w] = [j \in Jobs |->
                                              IF j \in S THEN row[j].attempts + 1 ELSE 0]]
          /\ stolen' = stolen \cup {j \in S : row[j].status = "running" /\ row[j].expired}
    BY <1>4, ClaimBatch
  <2>1. CASE i \in S
    <3>1. row[i].status \in {"queued", "failed"}
      BY <2>1 DEF Claimable
    <3>2. row'[i].status = "running" /\ row'[i].attempts = row[i].attempts + 1
      BY <2>1
    <3> QED
      BY <3>1, <3>2, <1>a, <1>b DEF Within
  <2>2. CASE i \notin S
    BY <2>2, <1>a
  <2> QED
    BY <2>1, <2>2
<1>5. ASSUME NEW w \in Workers, NEW j \in Jobs, RunUnknown(w, j) PROVE Within(row'[i])
  <2>1. \/ row'[i] = row[i]
        \/ row'[i].status = "dead" /\ row'[i].attempts = row[i].attempts
    BY <1>5, <1>b DEF RunUnknown, MarkFailed, Unlocked
  <2> QED
    BY <2>1, <1>a DEF Within
<1>6. ASSUME NEW w \in Workers, RecordSuccess(w) PROVE Within(row'[i])
  <2>1. \/ row'[i] = row[i]
        \/ row'[i].status = "succeeded" /\ row'[i].attempts = row[i].attempts
    BY <1>6, OutcomeJob DEF RecordSuccess, MarkSucceeded, Unlocked
  <2> QED
    BY <2>1, <1>a DEF Within
<1>7. ASSUME NEW w \in Workers, RecordFailure(w) PROVE Within(row'[i])
  <2> DEFINE j == outcome[w].job
  <2>1. j \in Jobs /\ Holds(w, j)
    BY <1>7, OutcomeJob DEF RecordFailure, OutcomeIsOfHeldRow
  <2>2. CASE i # j
    BY <1>7, <2>1, <2>2, <1>a, MarksTouchOneRow DEF RecordFailure
  <2>3. CASE i = j
    <3>1. claim[w][i] = row[i].attempts
      BY <2>1, <2>3, <1>a DEF HolderOwnsRow
    <3>2. \/ row'[i] = row[i]
          \/ row'[i].status = "dead" /\ row'[i].attempts = row[i].attempts
          \/ /\ row'[i].status = "failed" /\ row'[i].attempts = row[i].attempts
             /\ ~(claim[w][i] >= MaxAttempts)
      BY <1>7, <2>3 DEF RecordFailure, MarkFailed, Unlocked
    <3> QED
      BY <3>1, <3>2, <1>a, <1>b DEF Within
  <2> QED
    BY <2>2, <2>3
<1>8. ASSUME row' = row PROVE Within(row'[i])
  BY <1>8, <1>a
<1> QED
  BY <1>1, <1>2, <1>3, <1>4, <1>5, <1>6, <1>7, <1>8, NextCases
     DEF HandlerCommits, HandlerThrows, RecordSuccessErrors, Crash, vars

\* A worker that records an outcome of an unstolen row finds it running.
LEMMA SettledStep ==
  ASSUME TypeOK, HolderOwnsRow, OutcomeIsOfHeldRow, [Next]_vars, NEW i \in Jobs,
         Settled(i), row'[i].status # row[i].status, i \notin stolen
  PROVE  IF row[i].status = "dead" THEN presses' # presses ELSE row'[i].status = "deleted"
<1> USE DEF TypeOK
<1>1. ASSUME NEW j \in Jobs, Enqueue(j) \/ ClaimExpires(j) \/ BecomesDue(j) PROVE FALSE
  <2>1. CASE Enqueue(j)
    BY <2>1 DEF Enqueue, InsertRow, Settled
  <2>2. CASE ClaimExpires(j)
    BY <2>2 DEF ClaimExpires, Settled
  <2>3. CASE BecomesDue(j)
    BY <2>3 DEF BecomesDue, Row
  <2> QED
    BY <1>1, <2>1, <2>2, <2>3
<1>2. ASSUME NEW j \in Jobs, Retry(j) \/ Cancel(j)
      PROVE  row[i].status = "dead" /\ presses' # presses
  <2>1. presses' # presses
    <3>1. presses' = presses + 1
      BY <1>2 DEF Retry, Cancel, Press
    <3>2. presses \in Nat
      OBVIOUS
    <3> HIDE DEF TypeOK
    <3> QED
      BY <3>1, <3>2
  <2>2. i = j
    BY <1>2 DEF Retry, Cancel
  <2>3. row[i].status = "dead"
    BY <1>2, <2>2 DEF Retry, Cancel, Settled
  <2> QED
    BY <2>1, <2>3
<1>3. ASSUME NEW j \in Jobs, Prune(j)
      PROVE  row[i].status # "dead" /\ row'[i].status = "deleted"
  BY <1>3 DEF Prune, Row
<1>4. ASSUME NEW w \in Workers, Claim(w) PROVE FALSE
  BY <1>4, ClaimBatch DEF Claimable, Settled
\* A row that is not running is in nobody's hands, and is not touched.
<1>a. ASSUME NEW w \in Workers, NEW j \in Jobs, Holds(w, j) PROVE i # j
  BY <1>a DEF HolderOwnsRow, Settled
<1>5. ASSUME NEW w \in Workers, NEW j \in Jobs, RunUnknown(w, j) PROVE FALSE
  BY <1>5, <1>a, MarksTouchOneRow DEF RunUnknown
<1>6. ASSUME NEW w \in Workers, RecordSuccess(w) PROVE FALSE
  BY <1>6, <1>a, OutcomeJob, MarksTouchOneRow DEF RecordSuccess, OutcomeIsOfHeldRow
<1>7. ASSUME NEW w \in Workers, RecordFailure(w) PROVE FALSE
  BY <1>7, <1>a, OutcomeJob, MarksTouchOneRow DEF RecordFailure, OutcomeIsOfHeldRow
<1>8. row' # row
  OBVIOUS
<1> QED
  BY <1>1, <1>2, <1>3, <1>4, <1>5, <1>6, <1>7, <1>8, NextCases
     DEF HandlerCommits, HandlerThrows, RecordSuccessErrors, Crash, vars

-----------------------------------------------------------------------------
(* The theorems.                                                            *)

Safe == HolderOwnsRow /\ OutcomeIsOfHeldRow /\ SucceededMeansDone /\ AttemptsWithinLimit

LEMMA SafeInit == Init => Safe
BY QueueAssumption DEF Init, Safe, HolderOwnsRow, OutcomeIsOfHeldRow, SucceededMeansDone,
   AttemptsWithinLimit, Holds, Idle, Unlocked

LEMMA SafeStep == TypeOK /\ Safe /\ [Next]_vars => Safe'
BY HolderStep, OutcomeStep, SucceededStep, AttemptsStep DEF Safe

LEMMA SafeAlways == Spec => [](TypeOK /\ Safe)
<1>1. Init => TypeOK /\ Safe
  BY TypeInit, SafeInit
<1>2. TypeOK /\ Safe /\ [Next]_vars => TypeOK' /\ Safe'
  BY TypeStep, SafeStep
<1> QED
  BY <1>1, <1>2, PTL DEF Spec

(* A worker that believes it holds a row is the one the row names, unless    *)
(* the row was stolen: what completeJob and failJob take for granted when    *)
(* they update by id alone.                                                  *)
THEOREM HoldersOwnTheirRows == Spec => []HolderOwnsRow
BY SafeAlways, PTL DEF Safe

(* Whatever the number of workers, two of them never hold the same row       *)
(* before a claim on it has expired (claimJobs).                             *)
THEOREM ClaimsAreExclusive == Spec => []ExclusiveUntilExpiry
<1>1. TypeOK /\ Safe => ExclusiveUntilExpiry
  BY DEF Safe, HolderOwnsRow, ExclusiveUntilExpiry
<1> QED
  BY <1>1, SafeAlways, PTL

(* A row reads `succeeded' only after its handler committed (completeJob     *)
(* comes after withTenant).                                                  *)
THEOREM SuccessIsReal == Spec => []SucceededMeansDone
BY SafeAlways, PTL DEF Safe

(* An unstolen row is never attempted more than max_attempts times between   *)
(* two presses of Retry (failJob).                                           *)
THEOREM AttemptsAreLimited == Spec => []AttemptsWithinLimit
BY SafeAlways, PTL DEF Safe

(* A settled, unstolen row is only swept, retried or cancelled.              *)
THEOREM SettledRowsStay == Spec => SettledStaysSettled
<1>1. TypeOK /\ Safe /\ [Next]_vars =>
        [\A j \in Jobs : Settled(j) /\ row'[j].status # row[j].status /\ j \notin stolen =>
            IF row[j].status = "dead" THEN presses' # presses
            ELSE row'[j].status = "deleted"]_vars
  BY SettledStep DEF Safe
<1> QED
  BY <1>1, SafeAlways, PTL DEF Spec, SettledStaysSettled

-----------------------------------------------------------------------------
(* RepeatsAreAccountedFor                                                   *)

\* The workers that may yet commit j's handler for the claim they hold.
Pending(j) == {w \in Workers : Holds(w, j) /\ outcome[w] # [kind |-> "committed", job |-> j]}

\* 1 while the row can be claimed, or come to be claimable, without an excuse.
Unclaimed(j) == IF row[j].status \in {"none", "queued", "failed", "dead"} THEN 1 ELSE 0

\* What may yet be committed without another excuse is spared for.
Covered(j) ==
  /\ spare[j] \in Int
  /\ IsFiniteSet(Pending(j))
  /\ Unclaimed(j) + Cardinality(Pending(j)) <= spare[j]

AllCovered == \A j \in Jobs : Covered(j)

\* spare' for each kind of step.
LEMMA SpareStep ==
  ASSUME CountedNext, NEW j \in Jobs
  PROVE  /\ spare'[j] = IF TakenOver(j) \/ NotRecorded(j) THEN spare[j] + 1
                        ELSE IF HandlerEnds(j) THEN spare[j] - 1
                        ELSE spare[j]
BY DEF CountedNext

\* Fewer may commit: nobody took the row over, and no handler of it ended.
LEMMA CoveredByLess ==
  ASSUME NEW j \in Jobs, Covered(j), spare'[j] = spare[j],
         Pending(j)' \subseteq Pending(j), Unclaimed(j)' <= Unclaimed(j)
  PROVE  Covered(j)'
<1>1. IsFiniteSet(Pending(j)') /\ Cardinality(Pending(j)') <= Cardinality(Pending(j))
  BY FS_Subset DEF Covered
<1>2. Cardinality(Pending(j)') \in Nat /\ Cardinality(Pending(j)) \in Nat
  BY <1>1, FS_CardinalityType DEF Covered
<1>3. Unclaimed(j) \in Int /\ Unclaimed(j)' \in Int
  BY DEF Unclaimed
<1> HIDE DEF Pending, Unclaimed
<1> QED
  BY <1>1, <1>2, <1>3 DEF Covered

\* One worker more, for an excuse or for the row that was there to claim.
LEMMA CoveredByMore ==
  ASSUME NEW j \in Jobs, Covered(j), NEW w, Pending(j)' \subseteq Pending(j) \cup {w},
         \/ spare'[j] = spare[j] + 1 /\ Unclaimed(j)' <= Unclaimed(j)
         \/ spare'[j] = spare[j] /\ Unclaimed(j)' + 1 <= Unclaimed(j)
  PROVE  Covered(j)'
<1> DEFINE P == Pending(j) \cup {w}
<1>1. IsFiniteSet(P) /\ Cardinality(P) <= Cardinality(Pending(j)) + 1
  <2>1. IsFiniteSet(Pending(j))
    BY DEF Covered
  <2>2. Cardinality(Pending(j)) \in Nat
    BY <2>1, FS_CardinalityType
  <2>3. /\ IsFiniteSet(P)
        /\ Cardinality(P) = Cardinality(Pending(j)) \/ Cardinality(P) = Cardinality(Pending(j)) + 1
    BY <2>1, FS_AddElement
  <2> HIDE DEF Pending, P
  <2> QED
    BY <2>2, <2>3
<1>2. IsFiniteSet(Pending(j)') /\ Cardinality(Pending(j)') <= Cardinality(P)
  BY <1>1, FS_Subset
<1>3. Cardinality(Pending(j)') \in Nat /\ Cardinality(Pending(j)) \in Nat /\ Cardinality(P) \in Nat
  BY <1>1, <1>2, FS_CardinalityType DEF Covered
<1>4. Unclaimed(j) \in Int /\ Unclaimed(j)' \in Int
  BY DEF Unclaimed
<1> HIDE DEF Pending, Unclaimed, P
<1> QED
  BY <1>1, <1>2, <1>3, <1>4 DEF Covered

\* One worker fewer, that was one of them: its handler committed, or its
\* claim went and left the row to be claimed again.
LEMMA CoveredByOneLess ==
  ASSUME NEW j \in Jobs, Covered(j), NEW w \in Pending(j),
         Pending(j)' \subseteq Pending(j) \ {w},
         \/ spare'[j] = spare[j] - 1 /\ Unclaimed(j)' <= Unclaimed(j)
         \/ spare'[j] = spare[j] /\ Unclaimed(j)' <= 1
  PROVE  Covered(j)'
<1> DEFINE P == Pending(j) \ {w}
<1>1. IsFiniteSet(P) /\ Cardinality(P) = Cardinality(Pending(j)) - 1
  <2>1. IsFiniteSet(Pending(j))
    BY DEF Covered
  <2> HIDE DEF Pending
  <2> QED
    BY <2>1, FS_RemoveElement
<1>2. IsFiniteSet(Pending(j)') /\ Cardinality(Pending(j)') <= Cardinality(P)
  BY <1>1, FS_Subset
<1>3. Cardinality(Pending(j)') \in Nat /\ Cardinality(Pending(j)) \in Nat /\ Cardinality(P) \in Nat
  BY <1>1, <1>2, FS_CardinalityType DEF Covered
<1>4. Unclaimed(j) \in Nat /\ Unclaimed(j)' \in Int
  BY DEF Unclaimed
<1> HIDE DEF Pending, Unclaimed, P
<1> QED
  BY <1>1, <1>2, <1>3, <1>4 DEF Covered

\* A step without an excuse and without a commit: the table changed, or a
\* claim was given up.
LEMMA QuietStep ==
  ASSUME NEW j \in Jobs, Covered(j), CountedNext,
         \A w \in Workers :
           \/ outcome'[w] = outcome[w]
           \/ /\ outcome'[w] = Idle
              /\ Holds(w, j)' => outcome[w] # [kind |-> "committed", job |-> j],
         \A w \in Workers : Holds(w, j)' => Holds(w, j),
         Unclaimed(j)' <= Unclaimed(j)
  PROVE  Covered(j)'
<1>1. Pending(j)' \subseteq Pending(j)
  BY DEF Pending
<1>2. ~TakenOver(j) /\ ~NotRecorded(j) /\ ~HandlerEnds(j)
  BY DEF TakenOver, NotRecorded, HandlerEnds, Idle
<1>3. spare'[j] = spare[j]
  BY <1>2, SpareStep
<1> QED
  BY <1>1, <1>3, CoveredByLess

LEMMA CoveredStep ==
  ASSUME TypeOK, OutcomeIsOfHeldRow, AllCovered, CountedNext, NEW i \in Jobs
  PROVE  Covered(i)'
<1> USE DEF TypeOK
<1>a. Covered(i)
  BY DEF AllCovered
<1>1. ASSUME NEW j \in Jobs,
             Enqueue(j) \/ ClaimExpires(j) \/ BecomesDue(j) \/ Retry(j) \/ Cancel(j) \/ Prune(j)
      PROVE  Covered(i)'
  <2>1. outcome' = outcome /\ claim' = claim
    BY <1>1 DEF Enqueue, ClaimExpires, BecomesDue, Retry, Cancel, Prune
  <2>2. Unclaimed(i)' <= Unclaimed(i)
    BY <1>1 DEF Unclaimed, Unlocked, Row, Enqueue, InsertRow, ClaimExpires, BecomesDue, Retry,
       Cancel, Prune
  <2> HIDE DEF TypeOK
  <2> QED
    BY <1>a, <2>1, <2>2, QuietStep DEF Holds
<1>2. ASSUME NEW w \in Workers, Claim(w) PROVE Covered(i)'
  <2> PICK S \in SUBSET Jobs :
          /\ \A j \in S : Claimable(j)
          /\ row' = [j \in Jobs |->
                       IF j \in S
                       THEN [status |-> "running", attempts |-> row[j].attempts + 1,
                             lockedBy |-> w, expired |-> FALSE, due |-> row[j].due]
                       ELSE row[j]]
          /\ claim' = [claim EXCEPT ![w] = [j \in Jobs |->
                                              IF j \in S THEN row[j].attempts + 1 ELSE 0]]
          /\ stolen' = stolen \cup {j \in S : row[j].status = "running" /\ row[j].expired}
    BY <1>2, ClaimBatch
  <2>1. outcome' = outcome /\ outcome[w] = Idle /\ ~Holds(w, i)
    BY <1>2 DEF Claim, Held
  <2>2. ~NotRecorded(i) /\ ~HandlerEnds(i)
    BY <2>1 DEF NotRecorded, HandlerEnds, Idle
  <2>3. \A v \in Workers : v # w => (Holds(v, i)' <=> Holds(v, i))
    BY DEF Holds
  <2>4. CASE i \notin S
    <3>1. ~Holds(w, i)' /\ row'[i] = row[i]
      BY <2>4 DEF Holds
    <3>2. \A v \in Workers : Holds(v, i)' => Holds(v, i)
      BY <3>1, <2>3
    <3>3. Unclaimed(i)' <= Unclaimed(i)
      BY <3>1 DEF Unclaimed
    <3> QED
      BY <1>a, <2>1, <3>2, <3>3, QuietStep
  <2>5. CASE i \in S
    <3>1. Holds(w, i)' /\ row'[i].status = "running"
      BY <2>5 DEF Holds, Row
    <3>2. Pending(i)' \subseteq Pending(i) \cup {w}
      BY <2>1, <2>3 DEF Pending
    <3>3. CASE row[i].status = "running"
      <4>1. TakenOver(i)
        BY <2>1, <3>1, <3>3 DEF TakenOver
      <4>2. spare'[i] = spare[i] + 1
        BY <4>1, SpareStep
      <4>3. Unclaimed(i)' <= Unclaimed(i)
        BY <3>1 DEF Unclaimed
      <4> QED
        BY <1>a, <3>2, <4>2, <4>3, CoveredByMore
    <3>4. CASE row[i].status \in {"queued", "failed"}
      <4>1. spare'[i] = spare[i]
        BY <2>2, <3>4, SpareStep DEF TakenOver
      <4>2. Unclaimed(i)' + 1 <= Unclaimed(i)
        BY <3>1, <3>4 DEF Unclaimed
      <4> QED
        BY <1>a, <3>2, <4>1, <4>2, CoveredByMore
    <3> QED
      BY <2>5, <3>3, <3>4 DEF Claimable
  <2> QED
    BY <2>4, <2>5
\* A worker that lets go of row j, by any record but a success.
<1>b. ASSUME NEW w \in Workers, NEW j \in Jobs, Holds(w, j), Release(w, j),
             outcome[w] # [kind |-> "committed", job |-> j],
             \A v \in Workers : outcome'[v] = outcome[v] \/ (v = w /\ outcome'[v] = Idle),
             outcome[w].kind = "committed" => outcome'[w] = outcome[w],
             \A k \in Jobs \ {j} : row'[k] = row[k]
      PROVE  Covered(i)'
  <2>1. \A v \in Workers : Holds(v, i)' => Holds(v, i)
    BY <1>b DEF Holds, Release
  <2>2. ~TakenOver(i)
    BY <2>1 DEF TakenOver
  <2>3. ~NotRecorded(i) /\ ~HandlerEnds(i)
    <3>1. \A v \in Workers : outcome'[v] = outcome[v] \/ outcome'[v].kind = "none"
      BY <1>b DEF Idle
    <3>2. ASSUME NEW v \in Workers, outcome[v] = Idle
          PROVE  outcome'[v] # [kind |-> "committed", job |-> i]
      BY <3>1, <3>2 DEF Idle
    <3>3. ASSUME NEW v \in Workers, outcome[v] = [kind |-> "committed", job |-> i]
          PROVE  outcome'[v] # [kind |-> "threw", job |-> i]
      BY <3>1, <3>3
    <3> QED
      BY <3>2, <3>3 DEF NotRecorded, HandlerEnds
  <2>4. spare'[i] = spare[i]
    BY <2>2, <2>3, SpareStep
  <2>5. Pending(i)' \subseteq Pending(i)
    BY <1>b, <2>1 DEF Pending, Idle
  <2>6. CASE i = j
    <3>1. w \in Pending(i) /\ w \notin Pending(i)'
      BY <1>b, <2>6 DEF Pending, Holds, Release
    <3>2. Unclaimed(i)' <= 1
      BY DEF Unclaimed
    <3> QED
      BY <1>a, <2>4, <2>5, <3>1, <3>2, CoveredByOneLess
  <2>7. CASE i # j
    <3>1. Unclaimed(i)' <= Unclaimed(i)
      BY <1>b, <2>7 DEF Unclaimed
    <3> QED
      BY <1>a, <2>4, <2>5, <3>1, CoveredByLess
  <2> QED
    BY <2>6, <2>7
<1>3. ASSUME NEW w \in Workers, NEW j \in Jobs, RunUnknown(w, j) PROVE Covered(i)'
  <2>1. /\ Holds(w, j) /\ Release(w, j) /\ outcome' = outcome /\ outcome[w] = Idle
        /\ \A k \in Jobs \ {j} : row'[k] = row[k]
    BY <1>3, MarksTouchOneRow DEF RunUnknown
  <2> QED
    BY <2>1, <1>b DEF Idle
<1>4. ASSUME NEW w \in Workers, RecordFailure(w) PROVE Covered(i)'
  <2>1. /\ outcome[w].job \in Jobs /\ Holds(w, outcome[w].job) /\ Release(w, outcome[w].job)
        /\ \A k \in Jobs \ {outcome[w].job} : row'[k] = row[k]
    BY <1>4, OutcomeJob, MarksTouchOneRow DEF RecordFailure, OutcomeIsOfHeldRow
  <2>2. outcome[w].kind = "threw" /\ outcome' = [outcome EXCEPT ![w] = Idle]
    BY <1>4 DEF RecordFailure
  <2>3. \A v \in Workers : outcome'[v] = outcome[v] \/ (v = w /\ outcome'[v] = Idle)
    BY <2>2
  <2> QED
    BY <2>1, <2>2, <2>3, <1>b
<1>5. ASSUME NEW w \in Workers, NEW j \in Jobs, HandlerCommits(w, j) PROVE Covered(i)'
  <2>1. /\ row' = row /\ claim' = claim /\ outcome[w] = Idle /\ Holds(w, j)
        /\ outcome' = [outcome EXCEPT ![w] = [kind |-> "committed", job |-> j]]
    BY <1>5 DEF HandlerCommits
  <2>2. outcome'[w] = [kind |-> "committed", job |-> j] /\ \A v \in Workers \ {w} : outcome'[v] = outcome[v]
    BY <2>1
  <2>3. ~TakenOver(i) /\ ~NotRecorded(i)
    BY <2>1, <2>2 DEF TakenOver, NotRecorded, Holds, Idle
  <2>4. Unclaimed(i)' <= Unclaimed(i)
    BY <2>1 DEF Unclaimed
  <2>5. Pending(i)' \subseteq Pending(i)
    BY <2>1, <2>2 DEF Pending, Holds, Idle
  <2>6. CASE i = j
    <3>1. HandlerEnds(i)
      BY <2>1, <2>2, <2>6 DEF HandlerEnds
    <3>2. spare'[i] = spare[i] - 1
      BY <2>3, <3>1, SpareStep
    <3>3. w \in Pending(i) /\ w \notin Pending(i)'
      BY <2>1, <2>2, <2>6 DEF Pending, Idle
    <3> QED
      BY <1>a, <2>4, <2>5, <3>2, <3>3, CoveredByOneLess
  <2>7. CASE i # j
    <3>1. ~HandlerEnds(i)
      BY <2>2, <2>7 DEF HandlerEnds, Idle
    <3>2. spare'[i] = spare[i]
      BY <2>3, <3>1, SpareStep
    <3> QED
      BY <1>a, <2>4, <2>5, <3>2, CoveredByLess
  <2> QED
    BY <2>6, <2>7
<1>6. ASSUME NEW w \in Workers, NEW j \in Jobs, HandlerThrows(w, j) PROVE Covered(i)'
  <2>1. /\ row' = row /\ claim' = claim /\ outcome[w] = Idle
        /\ outcome'[w] = [kind |-> "threw", job |-> j]
        /\ \A v \in Workers \ {w} : outcome'[v] = outcome[v]
    BY <1>6 DEF HandlerThrows
  <2>2. ~TakenOver(i) /\ ~NotRecorded(i) /\ ~HandlerEnds(i)
    <3>1. ~TakenOver(i)
      BY <2>1 DEF TakenOver, Holds
    <3>2. /\ outcome[w] # [kind |-> "committed", job |-> i]
          /\ outcome'[w] # [kind |-> "committed", job |-> i]
      BY <2>1 DEF Idle
    <3>3. \A v \in Workers \ {w} : outcome[v] = Idle => outcome'[v] # [kind |-> "committed", job |-> i]
      BY <2>1 DEF Idle
    <3>4. \A v \in Workers \ {w} : outcome[v] = [kind |-> "committed", job |-> i]
                                   => outcome'[v] # [kind |-> "threw", job |-> i]
      BY <2>1
    <3> QED
      BY <3>1, <3>2, <3>3, <3>4 DEF NotRecorded, HandlerEnds
  <2>3. spare'[i] = spare[i]
    BY <2>2, SpareStep
  <2>4. Pending(i)' \subseteq Pending(i)
    BY <2>1 DEF Pending, Holds, Idle
  <2>5. Unclaimed(i)' <= Unclaimed(i)
    BY <2>1 DEF Unclaimed
  <2> QED
    BY <1>a, <2>3, <2>4, <2>5, CoveredByLess
<1>7. ASSUME NEW w \in Workers, RecordSuccess(w) PROVE Covered(i)'
  <2> DEFINE j == outcome[w].job
  <2>1. j \in Jobs /\ Release(w, j) /\ outcome' = [outcome EXCEPT ![w] = Idle] /\ row' = MarkSucceeded(j)
    BY <1>7, OutcomeJob DEF RecordSuccess
  <2>2. \A v \in Workers : Holds(v, i)' => Holds(v, i)
    BY <2>1 DEF Holds, Release
  <2>3. i = j => ~Holds(w, i)'
    BY <2>1 DEF Holds, Release
  <2>4. Unclaimed(i)' <= Unclaimed(i)
    <3>1. row'[i] = row[i] \/ row'[i].status = "succeeded"
      BY <2>1 DEF MarkSucceeded, Unlocked
    <3> QED
      BY <3>1 DEF Unclaimed
  <2>5. \A v \in Workers :
          \/ outcome'[v] = outcome[v]
          \/ /\ outcome'[v] = Idle
             /\ Holds(v, i)' => outcome[v] # [kind |-> "committed", job |-> i]
    BY <2>1, <2>3
  <2> QED
    BY <1>a, <2>2, <2>4, <2>5, QuietStep
<1>8. ASSUME NEW w \in Workers, RecordSuccessErrors(w) PROVE Covered(i)'
  <2> DEFINE j == outcome[w].job
  <2>1. /\ row' = row /\ claim' = claim
        /\ outcome[w] = [kind |-> "committed", job |-> j]
        /\ outcome'[w] = [kind |-> "threw", job |-> j]
        /\ \A v \in Workers \ {w} : outcome'[v] = outcome[v]
    BY <1>8, OutcomeJob DEF RecordSuccessErrors
  <2>2. Unclaimed(i)' <= Unclaimed(i)
    BY <2>1 DEF Unclaimed
  <2>3. CASE i = j
    <3>1. spare'[i] = spare[i] + 1
      BY <2>1, <2>3, SpareStep DEF NotRecorded
    <3>2. Pending(i)' \subseteq Pending(i) \cup {w}
      BY <2>1 DEF Pending, Holds
    <3> QED
      BY <1>a, <2>2, <3>1, <3>2, CoveredByMore
  <2>4. CASE i # j
    <3>1. ~TakenOver(i) /\ ~NotRecorded(i) /\ ~HandlerEnds(i)
      <4>1. ~TakenOver(i)
        BY <2>1 DEF TakenOver, Holds
      <4>2. /\ outcome[w] # [kind |-> "committed", job |-> i]
            /\ outcome'[w] # [kind |-> "committed", job |-> i]
        BY <2>1, <2>4
      <4>3. \A v \in Workers \ {w} : outcome[v] = Idle => outcome'[v] # [kind |-> "committed", job |-> i]
        BY <2>1 DEF Idle
      <4>4. \A v \in Workers \ {w} : outcome[v] = [kind |-> "committed", job |-> i]
                                     => outcome'[v] # [kind |-> "threw", job |-> i]
        BY <2>1
      <4> QED
        BY <4>1, <4>2, <4>3, <4>4 DEF NotRecorded, HandlerEnds
    <3>2. spare'[i] = spare[i]
      BY <3>1, SpareStep
    <3>3. Pending(i)' \subseteq Pending(i)
      BY <2>1, <2>4 DEF Pending, Holds
    <3> QED
      BY <1>a, <2>2, <3>2, <3>3, CoveredByLess
  <2> QED
    BY <2>3, <2>4
<1>9. ASSUME NEW w \in Workers, Crash(w) PROVE Covered(i)'
  <2>1. /\ row' = row /\ outcome' = [outcome EXCEPT ![w] = Idle]
        /\ claim' = [claim EXCEPT ![w] = [j \in Jobs |-> 0]]
    BY <1>9 DEF Crash
  <2>2. \A v \in Workers : (Holds(v, i)' => Holds(v, i)) /\ ~Holds(w, i)'
    BY <2>1 DEF Holds
  <2>3. Unclaimed(i)' <= Unclaimed(i)
    BY <2>1 DEF Unclaimed
  <2>4. \A v \in Workers :
          \/ outcome'[v] = outcome[v]
          \/ /\ outcome'[v] = Idle
             /\ Holds(v, i)' => outcome[v] # [kind |-> "committed", job |-> i]
    BY <2>1, <2>2
  <2> QED
    BY <1>a, <2>2, <2>3, <2>4, QuietStep
<1> QED
  BY <1>1, <1>2, <1>3, <1>4, <1>5, <1>6, <1>7, <1>8, <1>9, NextCases DEF CountedNext

LEMMA CoveredInit == CountedInit => AllCovered
<1> SUFFICES ASSUME CountedInit, NEW j \in Jobs PROVE Covered(j)
  BY DEF AllCovered
<1>1. Pending(j) = {}
  BY DEF CountedInit, Init, Pending, Holds
<1>2. spare[j] = 1 /\ Unclaimed(j) = 1
  BY DEF CountedInit, Init, Unlocked, Unclaimed
<1> QED
  BY <1>1, <1>2, FS_EmptySet DEF Covered

(* Whatever the number of workers, kills, expiries, late records and         *)
(* presses, a row's handler commits at most once more than the row was taken *)
(* over from an expired claim or its success went unrecorded (queue.ts,      *)
(* runner.ts).                                                               *)
THEOREM RepeatsAreAccounted == CountedSpec => []RepeatsAreAccountedFor
<1>1. CountedInit => TypeOK /\ Safe /\ AllCovered
  BY TypeInit, SafeInit, CoveredInit DEF CountedInit
<1>2. TypeOK /\ Safe /\ AllCovered /\ [CountedNext]_runVars => (TypeOK /\ Safe /\ AllCovered)'
  <2> SUFFICES ASSUME TypeOK, Safe, AllCovered, [CountedNext]_runVars
               PROVE  (TypeOK /\ Safe /\ AllCovered)'
    OBVIOUS
  <2>1. [Next]_vars
    BY DEF CountedNext, runVars
  <2>2. TypeOK' /\ Safe'
    BY <2>1, TypeStep, SafeStep
  <2>3. CASE CountedNext
    BY <2>2, <2>3, CoveredStep DEF Safe, AllCovered
  <2>4. CASE UNCHANGED runVars
    BY <2>2, <2>4 DEF runVars, vars, AllCovered, Covered, Pending, Unclaimed, Holds
  <2> QED
    BY <2>3, <2>4
<1>3. AllCovered => RepeatsAreAccountedFor
  <2> SUFFICES ASSUME AllCovered, NEW j \in Jobs PROVE spare[j] >= 0
    BY DEF RepeatsAreAccountedFor
  <2>1. Covered(j)
    BY DEF AllCovered
  <2>2. Cardinality(Pending(j)) \in Nat /\ Unclaimed(j) \in Nat
    BY <2>1, FS_CardinalityType DEF Covered, Unclaimed
  <2> HIDE DEF Pending, Unclaimed
  <2> QED
    BY <2>1, <2>2 DEF Covered
<1> QED
  BY <1>1, <1>2, <1>3, PTL DEF CountedSpec

=============================================================================
