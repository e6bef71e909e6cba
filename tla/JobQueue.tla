------------------------------ MODULE JobQueue ------------------------------
(***************************************************************************)
(* The background job table and the workers that drain it                  *)
(* (src/src/modules/worker/queue.ts, runner.ts, backoff.ts).               *)
(*                                                                         *)
(* A row of background_jobs is claimed by one SQL statement (claimJobs,    *)
(* FOR UPDATE SKIP LOCKED), its handler runs in a transaction of its own,  *)
(* and the outcome is written by a further statement (completeJob or       *)
(* failJob) that names the row by id and nothing else.  Between any two of *)
(* those steps the worker may be slow, or be killed.                       *)
(*                                                                         *)
(* Time is kept as what the code compares it for: `due' is run_at <= now,  *)
(* `expired' is locked_at < now - CLAIM_TIMEOUT_MS.  Either may come true  *)
(* at any moment, whatever the worker holding the row is doing.            *)
(*                                                                         *)
(* Operators whose comment starts with MUTANT are not the code: each is a  *)
(* plausible slip in the definition after it, and a run shows that a       *)
(* property notices it.                                                    *)
(***************************************************************************)
EXTENDS Integers, FiniteSets

CONSTANTS
  Workers,      \* worker processes (one HTTP tick, or one long-running loop)
  Jobs,         \* row ids; an id is used once
  KeyOf,        \* the dedupe_key each row is inserted with, or NoKey
  NoKey,
  NoWorker,     \* locked_by IS NULL
  Unknown,      \* the rows whose kind no handler is registered for
  Priority,     \* the priority column
  MaxAttempts,  \* the max_attempts column
  BatchSize,    \* rows one tick claims at most
  MaxCrashes,   \* bound: how often workers are killed in one behaviour
  MaxPresses    \* bound: how often a person presses Retry or Cancel

ASSUME QueueAssumption ==
  /\ NoWorker \notin Workers
  /\ KeyOf \in [Jobs -> {KeyOf[j] : j \in Jobs}]     \* a function on Jobs, whatever the keys are
  /\ Unknown \subseteq Jobs
  /\ Priority \in [Jobs -> Nat]
  /\ MaxAttempts \in Nat \ {0}
  /\ BatchSize \in Nat \ {0}
  /\ MaxCrashes \in Nat
  /\ MaxPresses \in Nat

VARIABLES
  row,      \* the table: one record per id, status "none" before the INSERT
  claim,    \* claim[w][j]: the attempts value worker w was handed with j, 0 if it holds no claim on j
  outcome,  \* outcome[w]: what the handler w has just run did, and is not yet recorded
  done,     \* history: the rows whose handler has committed at least once
  stolen,   \* history: the rows claimed at least once while another claim had expired
  crashes,  \* kills so far
  presses   \* presses of Retry and Cancel so far

vars == <<row, claim, outcome, done, stolen, crashes, presses>>

Status == {"none", "queued", "running", "succeeded", "failed", "dead", "cancelled", "deleted"}

Row == [status : Status, attempts : Nat, lockedBy : Workers \cup {NoWorker},
        expired : BOOLEAN, due : BOOLEAN]

\* What a worker owes the table: nothing, or the record of one handler's outcome.
Idle == [kind |-> "none"]
Outcome == {Idle} \cup [kind : {"committed", "threw"}, job : Jobs]

TypeOK ==
  /\ row \in [Jobs -> Row]
  /\ claim \in [Workers -> [Jobs -> Nat]]
  /\ outcome \in [Workers -> Outcome]
  /\ done \in SUBSET Jobs
  /\ stolen \in SUBSET Jobs
  /\ crashes \in Nat
  /\ presses \in Nat

\* A row nobody holds: locked_by and locked_at are NULL.
Unlocked(status, attempts, due) ==
  [status |-> status, attempts |-> attempts, lockedBy |-> NoWorker, expired |-> FALSE,
   due |-> due]

Present(j) == row[j].status \notin {"none", "deleted"}
Holds(w, j) == claim[w][j] # 0
Held(w) == {j \in Jobs : Holds(w, j)}
Settled(j) == row[j].status \in {"succeeded", "cancelled", "dead"}

Init ==
  /\ row = [j \in Jobs |-> Unlocked("none", 0, FALSE)]
  /\ claim = [w \in Workers |-> [j \in Jobs |-> 0]]
  /\ outcome = [w \in Workers |-> Idle]
  /\ done = {}
  /\ stolen = {}
  /\ crashes = 0
  /\ presses = 0

-----------------------------------------------------------------------------
(* enqueue(): INSERT ... ON CONFLICT (dedupe_key) DO NOTHING.  NULL keys    *)
(* never conflict.                                                          *)

KeyTaken(j) == KeyOf[j] # NoKey /\ \E i \in Jobs : Present(i) /\ KeyOf[i] = KeyOf[j]

InsertRow(j) ==
  /\ row[j].status = "none"
  /\ ~KeyTaken(j)
  /\ \E now \in BOOLEAN :
       row' = [row EXCEPT ![j] = Unlocked("queued", 0, now)]

Enqueue(j) ==
  /\ InsertRow(j)
  /\ UNCHANGED <<claim, outcome, done, stolen, crashes, presses>>

-----------------------------------------------------------------------------
(* claimJobs()                                                              *)

\* MUTANT: the stealing clause forgets how old the claim is.
ClaimableAtAnyAge(j) == row[j].due /\ row[j].status \in {"queued", "failed", "running"}

\* MUTANT: no stealing clause, so a killed worker's rows stay `running'.
ClaimableIfWaiting(j) == row[j].due /\ row[j].status \in {"queued", "failed"}

Claimable(j) ==
  /\ row[j].due
  /\ \/ row[j].status \in {"queued", "failed"}
     \/ row[j].status = "running" /\ row[j].expired

\* The batch: due rows, best priority first, at most BatchSize of them.
Batches ==
  LET ready == {j \in Jobs : Claimable(j)}
  IN {S \in SUBSET ready :
        /\ Cardinality(S) <= BatchSize
        /\ S # ready => Cardinality(S) = BatchSize
        /\ \A i \in S, j \in ready \ S : Priority[i] >= Priority[j]}

Claim(w) ==
  /\ outcome[w] = Idle /\ Held(w) = {}
  /\ \E S \in Batches \ {{}} :
       /\ row' = [j \in Jobs |->
                    IF j \in S
                    THEN [status |-> "running", attempts |-> row[j].attempts + 1,
                          lockedBy |-> w, expired |-> FALSE, due |-> row[j].due]
                    ELSE row[j]]
       /\ claim' = [claim EXCEPT ![w] = [j \in Jobs |->
                                           IF j \in S THEN row[j].attempts + 1 ELSE 0]]
       /\ stolen' = stolen \cup {j \in S : row[j].status = "running" /\ row[j].expired}
  /\ UNCHANGED <<outcome, done, crashes, presses>>

-----------------------------------------------------------------------------
(* runJob(): the handler and then the record of it.                         *)

\* completeJob: UPDATE ... WHERE id = j.  A deleted row is no longer there to update.
MarkSucceeded(j) ==
  IF Present(j)
  THEN [row EXCEPT ![j] = Unlocked("succeeded", row[j].attempts, row[j].due)]
  ELSE row

\* MUTANT: `>' for `>=', one attempt too many.
MarkFailedLate(j, attempts) ==
  IF ~Present(j) THEN row
  ELSE IF attempts > MaxAttempts
  THEN [row EXCEPT ![j] = Unlocked("dead", row[j].attempts, row[j].due)]
  ELSE [row EXCEPT ![j] = Unlocked("failed", row[j].attempts, FALSE)]

\* failJob, given the attempts value the caller was handed.
MarkFailed(j, attempts) ==
  IF ~Present(j) THEN row
  ELSE IF attempts >= MaxAttempts
  THEN [row EXCEPT ![j] = Unlocked("dead", row[j].attempts, row[j].due)]
  ELSE [row EXCEPT ![j] = Unlocked("failed", row[j].attempts, FALSE)]

Release(w, j) == claim' = [claim EXCEPT ![w][j] = 0]

\* No handler is registered for the kind: straight to dead.
RunUnknown(w, j) ==
  /\ outcome[w] = Idle /\ Holds(w, j)
  /\ j \in Unknown
  /\ row' = MarkFailed(j, MaxAttempts)
  /\ Release(w, j)
  /\ UNCHANGED <<outcome, done, stolen, crashes, presses>>

\* The handler's transaction commits; completeJob is still to come.
HandlerCommits(w, j) ==
  /\ outcome[w] = Idle /\ Holds(w, j)
  /\ j \notin Unknown
  /\ outcome' = [outcome EXCEPT ![w] = [kind |-> "committed", job |-> j]]
  /\ done' = done \cup {j}
  /\ UNCHANGED <<row, claim, stolen, crashes, presses>>

\* MUTANT: the handler's error is swallowed before runJob sees it.
HandlerErrorSwallowed(w, j) ==
  /\ outcome[w] = Idle /\ Holds(w, j)
  /\ j \notin Unknown
  /\ outcome' = [outcome EXCEPT ![w] = [kind |-> "committed", job |-> j]]
  /\ UNCHANGED <<row, claim, done, stolen, crashes, presses>>

\* The handler throws and its transaction rolls back.
HandlerThrows(w, j) ==
  /\ outcome[w] = Idle /\ Holds(w, j)
  /\ j \notin Unknown
  /\ outcome' = [outcome EXCEPT ![w] = [kind |-> "threw", job |-> j]]
  /\ UNCHANGED <<row, claim, done, stolen, crashes, presses>>

RecordSuccess(w) ==
  /\ outcome[w].kind = "committed"
  /\ row' = MarkSucceeded(outcome[w].job)
  /\ Release(w, outcome[w].job)
  /\ outcome' = [outcome EXCEPT ![w] = Idle]
  /\ UNCHANGED <<done, stolen, crashes, presses>>

\* completeJob is inside the try: when it throws, the catch treats the job as failed.
RecordSuccessErrors(w) ==
  /\ outcome[w].kind = "committed"
  /\ outcome' = [outcome EXCEPT ![w].kind = "threw"]
  /\ UNCHANGED <<row, claim, done, stolen, crashes, presses>>

RecordFailure(w) ==
  /\ outcome[w].kind = "threw"
  /\ row' = MarkFailed(outcome[w].job, claim[w][outcome[w].job])
  /\ Release(w, outcome[w].job)
  /\ outcome' = [outcome EXCEPT ![w] = Idle]
  /\ UNCHANGED <<done, stolen, crashes, presses>>

\* The process is killed, or failJob itself throws and the tick is abandoned:
\* the claims are left in the table and nobody is working on them.
Crash(w) ==
  /\ Held(w) # {}
  /\ crashes < MaxCrashes
  /\ crashes' = crashes + 1
  /\ claim' = [claim EXCEPT ![w] = [j \in Jobs |-> 0]]
  /\ outcome' = [outcome EXCEPT ![w] = Idle]
  /\ UNCHANGED <<row, done, stolen, presses>>

-----------------------------------------------------------------------------
(* The passing of time.                                                     *)

ClaimExpires(j) ==
  /\ row[j].status = "running" /\ ~row[j].expired
  /\ row' = [row EXCEPT ![j].expired = TRUE]
  /\ UNCHANGED <<claim, outcome, done, stolen, crashes, presses>>

BecomesDue(j) ==
  /\ Present(j) /\ ~row[j].due
  /\ row' = [row EXCEPT ![j].due = TRUE]
  /\ UNCHANGED <<claim, outcome, done, stolen, crashes, presses>>

-----------------------------------------------------------------------------
(* The operations page, and the sweep of finished rows.                     *)

Press ==
  /\ presses < MaxPresses
  /\ presses' = presses + 1

\* MUTANT: Retry without the WHERE on the status.
RetryAnything(j) ==
  /\ Present(j)
  /\ Press
  /\ row' = [row EXCEPT ![j] = Unlocked("queued", 0, TRUE)]
  /\ UNCHANGED <<claim, outcome, done, stolen, crashes>>

\* MUTANT: Retry takes max_attempts off the count instead of resetting it.
RetryRefunds(j) ==
  /\ row[j].status \in {"dead", "failed"}
  /\ Press
  /\ row' = [row EXCEPT ![j] = Unlocked("queued", row[j].attempts - MaxAttempts, TRUE)]
  /\ UNCHANGED <<claim, outcome, done, stolen, crashes>>

Retry(j) ==
  /\ row[j].status \in {"dead", "failed"}
  /\ Press
  /\ row' = [row EXCEPT ![j] = Unlocked("queued", 0, TRUE)]
  /\ UNCHANGED <<claim, outcome, done, stolen, crashes>>

Cancel(j) ==
  /\ row[j].status \in {"queued", "failed", "dead"}
  /\ Press
  /\ row' = [row EXCEPT ![j] = Unlocked("cancelled", row[j].attempts, row[j].due)]
  /\ UNCHANGED <<claim, outcome, done, stolen, crashes>>

\* pruneFinishedJobs: succeeded and cancelled rows, never dead ones.
Prune(j) ==
  /\ row[j].status \in {"succeeded", "cancelled"}
  /\ row' = [row EXCEPT ![j].status = "deleted"]
  /\ UNCHANGED <<claim, outcome, done, stolen, crashes, presses>>

-----------------------------------------------------------------------------

WorkerStep(w) ==
  \/ \E j \in Jobs : RunUnknown(w, j) \/ HandlerCommits(w, j) \/ HandlerThrows(w, j)
  \/ RecordSuccess(w)
  \/ RecordSuccessErrors(w)
  \/ RecordFailure(w)

Next ==
  \/ \E j \in Jobs :
       \/ Enqueue(j)
       \/ ClaimExpires(j) \/ BecomesDue(j)
       \/ Retry(j) \/ Cancel(j) \/ Prune(j)
  \/ \E w \in Workers : Claim(w) \/ WorkerStep(w) \/ Crash(w)

Spec == Init /\ [][Next]_vars

-----------------------------------------------------------------------------
(* What holds whatever the interleaving.                                    *)

(* A worker that believes it holds a row is the worker the row names, on the *)
(* attempt the row counts, unless the row was stolen from an expired claim.  *)
(* The record of an outcome (completeJob, failJob) relies on it: it names    *)
(* the row by id and not by who locked it.                                   *)
HolderOwnsRow ==
  \A w \in Workers, j \in Jobs :
    Holds(w, j) /\ j \notin stolen =>
      /\ row[j].status = "running"
      /\ row[j].lockedBy = w
      /\ row[j].attempts = claim[w][j]

(* Two workers hold the same row only after a claim on it had expired        *)
(* (FOR UPDATE SKIP LOCKED in claimJobs).                                    *)
ExclusiveUntilExpiry ==
  \A w, v \in Workers, j \in Jobs :
    Holds(w, j) /\ Holds(v, j) /\ w # v => j \in stolen

(* A row reads `succeeded' only if its handler's transaction has committed   *)
(* at least once: the record never runs ahead of the work.                   *)
SucceededMeansDone == \A j \in Jobs : row[j].status = "succeeded" => j \in done

(* The row's attempts pass max_attempts only by stealing: failJob sends a    *)
(* row that has used its attempts to `dead', where claimJobs cannot see it.  *)
AttemptsWithinLimit ==
  \A j \in Jobs : j \notin stolen =>
    /\ row[j].attempts <= MaxAttempts
    /\ row[j].status \in {"queued", "failed"} => row[j].attempts < MaxAttempts

(* A settled row changes only by the sweep or by a person: `succeeded' and   *)
(* `cancelled' are swept, `dead' is retried or cancelled.  The exception is  *)
(* again a row stolen from a worker that later came back.                    *)
SettledStaysSettled ==
  [][\A j \in Jobs : Settled(j) /\ row'[j].status # row[j].status /\ j \notin stolen =>
        IF row[j].status = "dead" THEN presses' # presses
        ELSE row'[j].status = "deleted"]_vars

(* With workers that keep ticking (Outbox.tla states the fairness), every    *)
(* row comes to rest, killed workers and lost records notwithstanding:       *)
(* nothing stays `running' for ever.                                         *)
EveryRowSettles ==
  \A j \in Jobs : Present(j) ~> (Settled(j) \/ ~Present(j))

-----------------------------------------------------------------------------
(* What the comments say and the code does not do.                          *)

(* failJob: `A job out of attempts becomes dead rather than being deleted or *)
(* retried forever'.  claimJobs hands out an expired row without comparing   *)
(* attempts with max_attempts, so a job that kills its worker is retried.    *)
OutOfAttemptsIsNotRetried == \A j \in Jobs : row[j].attempts <= MaxAttempts

=============================================================================
