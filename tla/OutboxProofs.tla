---------------------------- MODULE OutboxProofs ----------------------------
(***************************************************************************)
(* What the outbox and the job table keep together, for any number of      *)
(* events, subscribers, workers and jobs: the queue's own guarantees hold  *)
(* under the relay, an event marked relayed has its jobs, and a handler    *)
(* runs only for what did happen: the outbox implements EventDelivery.     *)
(*                                                                         *)
(* The argument: a row is inserted by a relay alone, which carries only    *)
(* committed events and their subscribers, and a row never returns to not  *)
(* being there, so neither a kill nor another worker can undo it.          *)
(***************************************************************************)
EXTENDS Outbox, JobQueueProofs

\* A job was inserted for the event's subscriber.
Enqueued(e, k) == \E j \in Jobs : KeyOf[j] = <<e, k>> /\ row[j].status # "none"

\* What a worker fans out has happened, and has its jobs but for those left.
Fanning(w) ==
  LET e == fan[w].event IN
  e # NoEvent => /\ tx[e] = "committed"
                 /\ fan[w].left \subseteq Subscribers[e]
                 /\ \A k \in Subscribers[e] \ fan[w].left : Enqueued(e, k)

Relaying ==
  \A w \in Workers : /\ \A e \in batch[w] : tx[e] = "committed"
                     /\ Fanning(w)
                     /\ fan[w].event = NoEvent => fan[w] = NoFan

\* A row that is there is for something that happened and a kind that asked
\* to hear of it; what a worker holds is there.
RowsHaveHappened ==
  /\ \A j \in Jobs : row[j].status # "none" =>
       \E e \in Events, k \in Kinds :
         KeyOf[j] = <<e, k>> /\ tx[e] = "committed" /\ k \in Subscribers[e]
  /\ \A w \in Workers, j \in Jobs : Holds(w, j) => row[j].status # "none"

Carried == Relaying /\ RelayedMeansEnqueued /\ RowsHaveHappened

-----------------------------------------------------------------------------

\* What a step of the whole does to the queue's own variables.
RelayKilled == crashes' = crashes + 1 /\ UNCHANGED <<row, claim, outcome, done, stolen, presses>>

\* The steps of the whole, one by one.
LEMMA OutboxCases ==
  ASSUME [OutboxNext]_allVars
  PROVE  \/ \E e \in Events : RecordEvent(e) \/ CommitEvent(e) \/ RollBackEvent(e)
         \/ \E w \in Workers : RelayStart(w)
         \/ \E w \in Workers : RelayNext(w)
         \/ \E w \in Workers : RelayEnqueue(w)
         \/ \E w \in Workers : MarkRelayed(w)
         \/ \E w \in Workers : RelayError(w)
         \/ \E w \in Workers : RelayEnd(w)
         \/ \E w \in Workers : TickClaims(w)
         \/ \E w \in Workers : TickFindsNothing(w)
         \/ \E w \in Workers : RelayCrash(w)
         \/ \E w \in Workers : (WorkerStep(w) \/ Crash(w)) /\ UNCHANGED outboxVars
         \/ \E j \in Jobs : /\ ClaimExpires(j) \/ BecomesDue(j) \/ Retry(j) \/ Cancel(j) \/ Prune(j)
                            /\ UNCHANGED outboxVars
         \/ UNCHANGED allVars
BY DEF OutboxNext, Tick, Sweep

\* A relay's enqueue inserts one row under the event's key, or none because
\* the key is taken.
LEMMA EnqueueInserts ==
  ASSUME NEW w \in Workers, RelayEnqueue(w)
  PROVE  \E k \in fan[w].left, j \in Jobs :
           /\ KeyOf[j] = <<fan[w].event, k>>
           /\ fan' = [fan EXCEPT ![w].left = @ \ {k}]
           /\ \/ KeyTaken(j) /\ UNCHANGED row
              \/ Enqueue(j) /\ row' = [row EXCEPT ![j] = Unlocked("queued", 0, TRUE)]
<1>1. PICK k \in fan[w].left, j \in Jobs :
        /\ KeyOf[j] = <<fan[w].event, k>>
        /\ IF KeyTaken(j) THEN UNCHANGED row
           ELSE row[j].status = "none" /\ row' = [row EXCEPT ![j] = Unlocked("queued", 0, TRUE)]
        /\ fan' = [fan EXCEPT ![w].left = @ \ {k}]
  BY DEF RelayEnqueue
<1>2. CASE ~ KeyTaken(j)
  <2>1. Enqueue(j)
    BY <1>1, <1>2 DEF Enqueue, InsertRow, RelayEnqueue
  <2> QED
    BY <1>1, <1>2, <2>1
<1> QED
  BY <1>1, <1>2

\* Every step of the whole is a step of the queue, or of nobody in it, but for
\* a kill in the middle of relaying, which only counts.
LEMMA QueueSteps == [OutboxNext]_allVars => [Next]_vars \/ RelayKilled
<1> SUFFICES ASSUME [OutboxNext]_allVars PROVE [Next]_vars \/ RelayKilled
  OBVIOUS
<1>1. ASSUME NEW w \in Workers, RelayEnqueue(w) PROVE [Next]_vars
  <2>1. CASE UNCHANGED row
    BY <1>1, <2>1 DEF RelayEnqueue, vars
  <2>2. ASSUME NEW j \in Jobs, Enqueue(j) PROVE Next
    BY <2>2 DEF Next
  <2> QED
    BY <1>1, <2>1, <2>2, EnqueueInserts
<1>2. ASSUME NEW w \in Workers, TickClaims(w) \/ WorkerStep(w) \/ Crash(w) PROVE Next
  BY <1>2 DEF TickClaims, Next
<1>3. ASSUME NEW j \in Jobs, ClaimExpires(j) \/ BecomesDue(j) \/ Retry(j) \/ Cancel(j) \/ Prune(j)
      PROVE  Next
  BY <1>3 DEF Next
<1>4. ASSUME NEW w \in Workers, RelayCrash(w) PROVE RelayKilled
  BY <1>4 DEF RelayCrash, RelayKilled
<1> QED
  BY <1>1, <1>2, <1>3, <1>4, OutboxCases
  DEF RecordEvent, CommitEvent, RollBackEvent, RelayStart, RelayNext, MarkRelayed, RelayError,
      RelayEnd, TickFindsNothing, allVars

-----------------------------------------------------------------------------
(* The queue's guarantees, under the relay.                                 *)

LEMMA QueueStep == TypeOK /\ Safe /\ [OutboxNext]_allVars => TypeOK' /\ Safe'
<1>1. TypeOK /\ Safe /\ [Next]_vars => TypeOK' /\ Safe'
  BY TypeStep, SafeStep
<1>2. TypeOK /\ Safe /\ RelayKilled => TypeOK' /\ Safe'
  BY DEF RelayKilled, TypeOK, Safe, HolderOwnsRow, OutcomeIsOfHeldRow, SucceededMeansDone,
         AttemptsWithinLimit, Holds
<1> QED
  BY <1>1, <1>2, QueueSteps

LEMMA OutboxTypeStep == OutboxTypeOK /\ Safe /\ [OutboxNext]_allVars => OutboxTypeOK'
<1> SUFFICES ASSUME OutboxTypeOK, Safe, [OutboxNext]_allVars PROVE OutboxTypeOK'
  OBVIOUS
<1>1. TypeOK'
  BY QueueStep DEF OutboxTypeOK
<1> USE <1>1 DEF OutboxTypeOK
<1>2. ASSUME NEW e \in Events, RecordEvent(e) \/ CommitEvent(e) \/ RollBackEvent(e)
      PROVE  OutboxTypeOK'
  BY <1>2 DEF RecordEvent, CommitEvent, RollBackEvent
<1>3. ASSUME NEW w \in Workers, RelayStart(w) \/ RelayNext(w) \/ RelayEnd(w) PROVE OutboxTypeOK'
  <2>1. CASE RelayStart(w)
    BY <2>1 DEF RelayStart
  <2>2. CASE RelayNext(w)
    <3>1. PICK e \in batch[w] : /\ fan' = [fan EXCEPT ![w] = [event |-> e, left |-> Subscribers[e]]]
                                /\ batch' = [batch EXCEPT ![w] = @ \ {e}]
      BY <2>2 DEF RelayNext
    <3>2. e \in Events /\ Subscribers[e] \in SUBSET Kinds
      BY OutboxAssumption
    <3>3. /\ fan' \in [Workers -> [event : Events \cup {NoEvent}, left : SUBSET Kinds]]
          /\ batch' \in [Workers -> SUBSET Events]
      BY <3>1, <3>2
    <3> QED
      BY <2>2, <3>3 DEF RelayNext
  <2>3. CASE RelayEnd(w)
    BY <2>3 DEF RelayEnd
  <2> QED
    BY <1>3, <2>1, <2>2, <2>3
<1>4. ASSUME NEW w \in Workers, RelayEnqueue(w) PROVE OutboxTypeOK'
  BY <1>4 DEF RelayEnqueue
<1>5. ASSUME NEW w \in Workers, MarkRelayed(w) PROVE OutboxTypeOK'
  BY <1>5 DEF MarkRelayed, NoFan
<1>6. ASSUME NEW w \in Workers, RelayError(w) PROVE OutboxTypeOK'
  <2>1. attempts' \in [Events -> Nat]
    <3>1. attempts \in [Events -> Nat]
      OBVIOUS
    <3>2. attempts' = [attempts EXCEPT ![fan[w].event] = attempts[fan[w].event] + 1]
      BY <1>6 DEF RelayError
    <3>3. \A f \in Events : attempts'[f] \in Nat
      BY <3>1, <3>2
    <3> HIDE DEF OutboxTypeOK
    <3> QED
      BY <3>1, <3>2, <3>3
  <2>2. fan' \in [Workers -> [event : Events \cup {NoEvent}, left : SUBSET Kinds]]
    BY <1>6 DEF RelayError, NoFan
  <2> QED
    BY <1>6, <2>1, <2>2 DEF RelayError
<1>7. ASSUME NEW w \in Workers, TickClaims(w) \/ TickFindsNothing(w) PROVE OutboxTypeOK'
  BY <1>7 DEF TickClaims, TickFindsNothing
<1>8. ASSUME NEW w \in Workers, RelayCrash(w) PROVE OutboxTypeOK'
  BY <1>8 DEF RelayCrash, NoFan
<1>9. CASE UNCHANGED outboxVars
  BY <1>9 DEF outboxVars
<1> QED
  BY <1>2, <1>3, <1>4, <1>5, <1>6, <1>7, <1>8, <1>9, OutboxCases DEF allVars

-----------------------------------------------------------------------------
(* The relay's bookkeeping.                                                 *)

\* Nothing makes a row that is there not be there; sweeping leaves its mark.
LEMMA RowsRemain ==
  ASSUME TypeOK, [OutboxNext]_allVars, NEW j \in Jobs, row[j].status # "none"
  PROVE  row'[j].status # "none"
<1> USE DEF TypeOK, Unlocked
<1>1. ASSUME NEW i \in Jobs, ClaimExpires(i) \/ BecomesDue(i) \/ Retry(i) \/ Cancel(i) \/ Prune(i)
      PROVE  row'[j].status # "none"
  BY <1>1 DEF ClaimExpires, BecomesDue, Retry, Cancel, Prune, Row
<1>2. ASSUME NEW i \in Jobs, Enqueue(i) PROVE row'[j].status # "none"
  BY <1>2 DEF Enqueue, InsertRow
<1>3. ASSUME NEW w \in Workers, Claim(w) PROVE row'[j].status # "none"
  BY <1>3, ClaimBatch
<1>4. ASSUME NEW i \in Jobs, NEW a, row' = MarkFailed(i, a) \/ row' = MarkSucceeded(i)
      PROVE  row'[j].status # "none"
  BY <1>4 DEF MarkFailed, MarkSucceeded
<1>5. ASSUME NEW w \in Workers, NEW i \in Jobs, RunUnknown(w, i) PROVE row'[j].status # "none"
  BY <1>4, <1>5 DEF RunUnknown
<1>6. ASSUME NEW w \in Workers, RecordSuccess(w) \/ RecordFailure(w) PROVE row'[j].status # "none"
  BY <1>4, <1>6, OutcomeJob DEF RecordSuccess, RecordFailure
<1> QED
  BY <1>1, <1>2, <1>3, <1>5, <1>6, QueueSteps, NextCases
  DEF RelayKilled, HandlerCommits, HandlerThrows, RecordSuccessErrors, Crash, vars

\* What happened has happened.
LEMMA EventsRemain ==
  ASSUME OutboxTypeOK, [OutboxNext]_allVars, NEW e \in Events, tx[e] = "committed"
  PROVE  tx'[e] = "committed"
<1>1. ASSUME NEW f \in Events, RecordEvent(f) \/ CommitEvent(f) \/ RollBackEvent(f)
      PROVE  tx'[e] = "committed"
  BY <1>1 DEF RecordEvent, CommitEvent, RollBackEvent, OutboxTypeOK
<1> QED
  BY <1>1, OutboxCases
  DEF RelayStart, RelayNext, RelayEnqueue, MarkRelayed, RelayError, RelayEnd, TickClaims,
      TickFindsNothing, RelayCrash, outboxVars, allVars

LEMMA EnqueuedRemains ==
  ASSUME TypeOK, [OutboxNext]_allVars, NEW e, NEW k, Enqueued(e, k)
  PROVE  Enqueued(e, k)'
BY RowsRemain DEF Enqueued

LEMMA RelayingStep == OutboxTypeOK /\ Relaying /\ [OutboxNext]_allVars => Relaying'
<1> SUFFICES ASSUME OutboxTypeOK, Relaying, [OutboxNext]_allVars, NEW v \in Workers
             PROVE  /\ \A e \in batch'[v] : tx'[e] = "committed"
                    /\ Fanning(v)'
                    /\ fan'[v].event = NoEvent => fan'[v] = NoFan
  BY DEF Relaying
<1> DEFINE Goal == /\ \A e \in batch'[v] : tx'[e] = "committed"
                   /\ Fanning(v)'
                   /\ fan'[v].event = NoEvent => fan'[v] = NoFan
<1>1. TypeOK
  BY DEF OutboxTypeOK
<1>2. /\ \A e \in batch[v] : e \in Events /\ tx[e] = "committed"
      /\ Fanning(v)
      /\ fan[v].event = NoEvent => fan[v] = NoFan
      /\ fan[v].event \in Events \cup {NoEvent}
  BY DEF Relaying, OutboxTypeOK
<1>3. ASSUME batch'[v] \subseteq batch[v] PROVE \A e \in batch'[v] : tx'[e] = "committed"
  BY <1>2, <1>3, EventsRemain
<1>4. ASSUME fan'[v] = fan[v] PROVE Fanning(v)' /\ (fan'[v].event = NoEvent => fan'[v] = NoFan)
  BY <1>1, <1>2, <1>4, EventsRemain, EnqueuedRemains DEF Fanning
<1>5. ASSUME fan'[v] = NoFan PROVE Fanning(v)'
  BY <1>5 DEF Fanning, NoFan
<1>6. ASSUME NEW w \in Workers, RelayStart(w) PROVE Goal
  <2>1. CASE v = w
    <3>1. \A e \in batch'[v] : tx[e] = "committed"
      BY <1>6, <2>1 DEF RelayStart, Visible, OutboxTypeOK
    <3> QED
      BY <1>4, <1>6, <3>1 DEF RelayStart
  <2>2. CASE v # w
    BY <1>3, <1>4, <1>6, <2>2 DEF RelayStart, OutboxTypeOK
  <2> QED
    BY <2>1, <2>2
<1>7. ASSUME NEW w \in Workers, RelayNext(w) PROVE Goal
  <2>1. PICK e \in batch[w] : /\ fan' = [fan EXCEPT ![w] = [event |-> e, left |-> Subscribers[e]]]
                              /\ batch' = [batch EXCEPT ![w] = @ \ {e}]
    BY <1>7 DEF RelayNext
  <2>2. batch'[v] \subseteq batch[v]
    BY <2>1 DEF OutboxTypeOK
  <2>3. CASE v = w
    <3>1. fan'[v] = [event |-> e, left |-> Subscribers[e]]
      BY <2>1, <2>3 DEF OutboxTypeOK
    <3>2. e \in Events /\ tx[e] = "committed" /\ e # NoEvent
      BY <1>2, <2>1, <2>3, OutboxAssumption
    <3>3. tx'[e] = "committed"
      BY <3>2, EventsRemain
    <3> QED
      BY <1>3, <2>2, <3>1, <3>2, <3>3 DEF Fanning
  <2>4. CASE v # w
    BY <1>3, <1>4, <2>1, <2>2, <2>4 DEF OutboxTypeOK
  <2> QED
    BY <2>3, <2>4
<1>8. ASSUME NEW w \in Workers, RelayEnqueue(w) PROVE Goal
  <2>1. PICK k \in fan[w].left, j \in Jobs :
          /\ KeyOf[j] = <<fan[w].event, k>>
          /\ fan' = [fan EXCEPT ![w].left = @ \ {k}]
          /\ \/ KeyTaken(j) /\ UNCHANGED row
             \/ row' = [row EXCEPT ![j] = Unlocked("queued", 0, TRUE)]
    BY <1>8, EnqueueInserts
  <2>6. PICK e \in Events : e = fan[w].event
    BY <2>1 DEF NoFan, Relaying, OutboxTypeOK
  <2>2. Enqueued(e, k)'
    <3>1. CASE KeyTaken(j) /\ UNCHANGED row
      BY <2>1, <2>6, <3>1 DEF KeyTaken, Present, Enqueued
    <3>2. CASE row' = [row EXCEPT ![j] = Unlocked("queued", 0, TRUE)]
      <4>1. row'[j].status # "none"
        BY <3>2 DEF Unlocked, OutboxTypeOK, TypeOK
      <4> QED
        BY <2>1, <2>6, <4>1 DEF Enqueued
    <3> QED
      BY <2>1, <3>1, <3>2
  <2>3. batch' = batch /\ tx' = tx
    BY <1>8 DEF RelayEnqueue
  <2>4. CASE v = w
    <3>1. fan'[v] = [fan[v] EXCEPT !.left = @ \ {k}]
      BY <2>1, <2>4 DEF OutboxTypeOK
    <3>2. fan'[v].event = e /\ fan'[v].left = fan[v].left \ {k}
      BY <2>4, <2>6, <3>1 DEF OutboxTypeOK
    <3>3. /\ tx[e] = "committed"
          /\ fan[v].left \subseteq Subscribers[e]
          /\ \A l \in Subscribers[e] \ fan[v].left : Enqueued(e, l)
      BY <1>2, <2>4, <2>6, OutboxAssumption DEF Fanning
    <3>4. \A l \in Subscribers[e] \ (fan[v].left \ {k}) : Enqueued(e, l)'
      BY <1>1, <2>2, <3>3, EnqueuedRemains
    <3> QED
      BY <1>2, <2>3, <3>2, <3>3, <3>4, OutboxAssumption DEF Fanning
  <2>5. CASE v # w
    BY <1>3, <1>4, <2>1, <2>3, <2>5 DEF OutboxTypeOK
  <2> QED
    BY <2>4, <2>5
<1>9. ASSUME NEW w \in Workers, MarkRelayed(w) \/ RelayError(w) \/ RelayCrash(w) PROVE Goal
  <2>1. batch'[v] \subseteq batch[v]
    BY <1>9 DEF MarkRelayed, RelayError, RelayCrash, OutboxTypeOK
  <2>2. fan'[v] = fan[v] \/ fan'[v] = NoFan
    BY <1>9 DEF MarkRelayed, RelayError, RelayCrash, OutboxTypeOK
  <2> QED
    BY <1>3, <1>4, <1>5, <2>1, <2>2
<1>10. ASSUME UNCHANGED <<batch, fan>> PROVE Goal
  BY <1>3, <1>4, <1>10
<1> QED
  BY <1>6, <1>7, <1>8, <1>9, <1>10, OutboxCases
  DEF RecordEvent, CommitEvent, RollBackEvent, RelayEnd, TickClaims, TickFindsNothing,
      outboxVars, allVars

LEMMA RelayedStep ==
  OutboxTypeOK /\ Relaying /\ RelayedMeansEnqueued /\ [OutboxNext]_allVars => RelayedMeansEnqueued'
<1> SUFFICES ASSUME OutboxTypeOK, Relaying, RelayedMeansEnqueued, [OutboxNext]_allVars,
                    NEW e \in relayed', NEW k \in Kinds, k \in Subscribers[e]
             PROVE  Enqueued(e, k)'
  BY DEF RelayedMeansEnqueued, Enqueued
<1>1. TypeOK
  BY DEF OutboxTypeOK
<1>2. ASSUME e \in relayed PROVE Enqueued(e, k)'
  <2>1. Enqueued(e, k)
    BY <1>2 DEF RelayedMeansEnqueued, Enqueued
  <2> QED
    BY <1>1, <2>1, EnqueuedRemains
<1>3. ASSUME NEW w \in Workers, MarkRelayed(w) PROVE Enqueued(e, k)'
  <2>1. CASE e = fan[w].event
    <3>1. fan[w].event # NoEvent /\ fan[w].left = {}
      BY <1>3 DEF MarkRelayed, Relaying
    <3>2. Enqueued(e, k)
      BY <2>1, <3>1 DEF Relaying, Fanning
    <3> QED
      BY <1>1, <3>2, EnqueuedRemains
  <2>2. CASE e # fan[w].event
    BY <1>2, <1>3, <2>2 DEF MarkRelayed
  <2> QED
    BY <2>1, <2>2
<1> QED
  BY <1>2, <1>3, OutboxCases
  DEF RecordEvent, CommitEvent, RollBackEvent, RelayStart, RelayNext, RelayEnqueue, RelayError,
      RelayEnd, TickClaims, TickFindsNothing, RelayCrash, outboxVars, allVars

\* A row comes from a relay, and from nobody else.
LEMMA RowsAppear ==
  ASSUME OutboxTypeOK, [OutboxNext]_allVars,
         NEW j \in Jobs, row[j].status = "none", row'[j].status # "none"
  PROVE  \E w \in Workers : RelayEnqueue(w)
<1> USE DEF OutboxTypeOK, TypeOK, Unlocked
<1>1. ASSUME NEW i \in Jobs, ClaimExpires(i) \/ BecomesDue(i) \/ Retry(i) \/ Cancel(i) \/ Prune(i)
      PROVE  row'[j].status = "none"
  BY <1>1 DEF ClaimExpires, BecomesDue, Retry, Cancel, Prune, Present, Row
<1>2. ASSUME NEW w \in Workers, TickClaims(w) PROVE row'[j].status = "none"
  <2>1. PICK S \in SUBSET Jobs :
          /\ \A i \in S : Claimable(i)
          /\ row' = [i \in Jobs |->
                       IF i \in S
                       THEN [status |-> "running", attempts |-> row[i].attempts + 1,
                             lockedBy |-> w, expired |-> FALSE, due |-> row[i].due]
                       ELSE row[i]]
    BY <1>2, ClaimBatch DEF TickClaims
  <2>2. j \notin S
    BY <2>1 DEF Claimable
  <2> QED
    BY <2>1, <2>2
<1>3. ASSUME NEW i \in Jobs, NEW a, row' = MarkFailed(i, a) \/ row' = MarkSucceeded(i)
      PROVE  row'[j].status = "none"
  BY <1>3 DEF MarkFailed, MarkSucceeded, Present
<1>4. ASSUME NEW w \in Workers, WorkerStep(w) PROVE row'[j].status = "none"
  <2>1. ASSUME NEW i \in Jobs, RunUnknown(w, i) PROVE row'[j].status = "none"
    BY <1>3, <2>1 DEF RunUnknown
  <2>2. ASSUME RecordSuccess(w) \/ RecordFailure(w) PROVE row'[j].status = "none"
    BY <1>3, <2>2, OutcomeJob DEF RecordSuccess, RecordFailure
  <2> QED
    BY <1>4, <2>1, <2>2 DEF WorkerStep, HandlerCommits, HandlerThrows, RecordSuccessErrors
<1> QED
  BY <1>1, <1>2, <1>4, OutboxCases
  DEF RecordEvent, CommitEvent, RollBackEvent, RelayStart, RelayNext, MarkRelayed, RelayError,
      RelayEnd, TickFindsNothing, RelayCrash, Crash, vars, allVars

\* A worker comes to hold a row by claiming it.
LEMMA HoldsAppear ==
  ASSUME OutboxTypeOK, [OutboxNext]_allVars, NEW w \in Workers, NEW j \in Jobs,
         ~ Holds(w, j), Holds(w, j)'
  PROVE  row'[j].status # "none"
<1> USE DEF OutboxTypeOK, TypeOK, Holds
<1>1. ASSUME NEW v \in Workers, TickClaims(v) PROVE row'[j].status # "none"
  <2>1. PICK S \in SUBSET Jobs :
          /\ row' = [i \in Jobs |->
                       IF i \in S
                       THEN [status |-> "running", attempts |-> row[i].attempts + 1,
                             lockedBy |-> v, expired |-> FALSE, due |-> row[i].due]
                       ELSE row[i]]
          /\ claim' = [claim EXCEPT ![v] = [i \in Jobs |->
                                              IF i \in S THEN row[i].attempts + 1 ELSE 0]]
    BY <1>1, ClaimBatch DEF TickClaims
  <2>2. j \in S
    BY <2>1
  <2> QED
    BY <2>1, <2>2
<1>2. ASSUME NEW v \in Workers, NEW i, Release(v, i) PROVE claim'[w][j] = 0
  BY <1>2 DEF Release
<1>3. ASSUME NEW v \in Workers, WorkerStep(v) PROVE claim'[w][j] = 0
  BY <1>2, <1>3
  DEF WorkerStep, RunUnknown, HandlerCommits, HandlerThrows, RecordSuccess, RecordSuccessErrors,
      RecordFailure
<1>4. ASSUME NEW v \in Workers, Crash(v) PROVE claim'[w][j] = 0
  BY <1>4 DEF Crash
<1>5. ASSUME NEW i \in Jobs, ClaimExpires(i) \/ BecomesDue(i) \/ Retry(i) \/ Cancel(i) \/ Prune(i)
      PROVE  claim' = claim
  BY <1>5 DEF ClaimExpires, BecomesDue, Retry, Cancel, Prune
<1> QED
  BY <1>1, <1>3, <1>4, <1>5, OutboxCases
  DEF RecordEvent, CommitEvent, RollBackEvent, RelayStart, RelayNext, RelayEnqueue, MarkRelayed,
      RelayError, RelayEnd, TickFindsNothing, RelayCrash, vars, allVars

LEMMA HappenedStep ==
  OutboxTypeOK /\ Relaying /\ RowsHaveHappened /\ [OutboxNext]_allVars => RowsHaveHappened'
<1> SUFFICES ASSUME OutboxTypeOK, Relaying, RowsHaveHappened, [OutboxNext]_allVars
             PROVE  RowsHaveHappened'
  OBVIOUS
<1> USE DEF OutboxTypeOK
<1>1. ASSUME NEW j \in Jobs, row'[j].status # "none"
      PROVE  \E e \in Events, k \in Kinds :
               KeyOf[j] = <<e, k>> /\ tx'[e] = "committed" /\ k \in Subscribers[e]
  <2>1. CASE row[j].status # "none"
    BY <2>1, EventsRemain DEF RowsHaveHappened
  <2>2. CASE row[j].status = "none"
    <3>1. PICK w \in Workers : RelayEnqueue(w)
      BY <1>1, <2>2, RowsAppear
    <3>2. PICK k \in fan[w].left, i \in Jobs :
            /\ KeyOf[i] = <<fan[w].event, k>>
            /\ UNCHANGED row \/ row' = [row EXCEPT ![i] = Unlocked("queued", 0, TRUE)]
      BY <3>1, EnqueueInserts
    <3>3. i = j
      BY <1>1, <2>2, <3>2 DEF TypeOK
    <3>4. PICK e \in Events : e = fan[w].event
      BY <3>2 DEF Relaying, NoFan
    <3>5. tx[e] = "committed" /\ k \in Subscribers[e] /\ k \in Kinds
      BY <3>2, <3>4, OutboxAssumption DEF Relaying, Fanning
    <3> QED
      BY <3>2, <3>3, <3>4, <3>5, EventsRemain
  <2> QED
    BY <2>1, <2>2
<1>2. ASSUME NEW w \in Workers, NEW j \in Jobs, Holds(w, j)' PROVE row'[j].status # "none"
  <2>1. CASE Holds(w, j)
    BY <2>1, RowsRemain DEF RowsHaveHappened
  <2>2. CASE ~ Holds(w, j)
    BY <1>2, <2>2, HoldsAppear
  <2> QED
    BY <2>1, <2>2
<1> QED
  BY <1>1, <1>2 DEF RowsHaveHappened

Kept == OutboxTypeOK /\ Safe /\ Carried

LEMMA KeptInit == OutboxInit => Kept
<1> SUFFICES ASSUME OutboxInit PROVE Kept
  OBVIOUS
<1>1. TypeOK /\ Safe
  BY TypeInit, SafeInit DEF OutboxInit
<1>2. OutboxTypeOK
  BY <1>1 DEF OutboxInit, OutboxTypeOK, NoFan
<1>3. Relaying
  BY DEF OutboxInit, Relaying, Fanning, NoFan
<1>4. RelayedMeansEnqueued /\ RowsHaveHappened
  BY DEF OutboxInit, Init, RelayedMeansEnqueued, RowsHaveHappened, Holds, Unlocked
<1> QED
  BY <1>1, <1>2, <1>3, <1>4 DEF Kept, Carried

LEMMA KeptStep == Kept /\ [OutboxNext]_allVars => Kept'
BY QueueStep, OutboxTypeStep, RelayingStep, RelayedStep, HappenedStep
DEF Kept, Carried, OutboxTypeOK

LEMMA KeptAlways == OutboxSpec => []Kept
BY KeptInit, KeptStep, PTL DEF OutboxSpec

-----------------------------------------------------------------------------

(* The rows, events and ticks keep their types (outbox.ts, runner.ts).       *)
THEOREM OutboxTypeCorrect == OutboxSpec => []OutboxTypeOK
BY KeptAlways, PTL DEF Kept

(* The guarantees of the job table (JobQueueProofs) hold with the outbox on  *)
(* top of it: rows are inserted by relays, swept and claimed between them.   *)
THEOREM QueueStaysSafe == OutboxSpec => []Safe
BY KeptAlways, PTL DEF Kept

(* relayPendingEvents marks an event only behind its jobs: whoever relays it *)
(* at once, whoever is killed, an event marked relayed has lost none.        *)
THEOREM NothingIsLost == OutboxSpec => []RelayedMeansEnqueued
BY KeptAlways, PTL DEF Kept, Carried

\* Every step of the outbox is one of EventDelivery, or changes nothing of it.
LEMMA DeliveryStep == Kept /\ [OutboxNext]_allVars => [Delivery!Next]_(Delivery!vars)
<1> SUFFICES ASSUME Kept, [OutboxNext]_allVars PROVE [Delivery!Next]_(Delivery!vars)
  OBVIOUS
<1> DEFINE happened == {e \in Events : tx[e] = "committed"}
           handled  == {KeyOf[j] : j \in done}
<1> USE DEF Kept, OutboxTypeOK
<1>1. ASSUME NEW e \in Events, CommitEvent(e) PROVE Delivery!Happen(e)
  <2>1. tx[e] = "open" /\ tx' = [tx EXCEPT ![e] = "committed"] /\ done' = done
    BY <1>1 DEF CommitEvent, vars
  <2>2. happened' = happened \cup {e} /\ e \notin happened
    BY <2>1
  <2> QED
    BY <2>1, <2>2 DEF Delivery!Happen
<1>2. ASSUME NEW w \in Workers, NEW j \in Jobs, HandlerCommits(w, j), tx' = tx
      PROVE  Delivery!Next
  <2>1. row[j].status # "none"
    BY <1>2 DEF HandlerCommits, Carried, RowsHaveHappened
  <2>2. PICK e \in Events, k \in Kinds :
          KeyOf[j] = <<e, k>> /\ tx[e] = "committed" /\ k \in Subscribers[e]
    BY <2>1 DEF Carried, RowsHaveHappened
  <2>3. handled' = handled \cup {<<e, k>>}
    BY <1>2, <2>2 DEF HandlerCommits
  <2>4. Delivery!Handle(e, k)
    BY <1>2, <2>2, <2>3 DEF Delivery!Handle
  <2> QED
    BY <2>4 DEF Delivery!Next
<1>3. ASSUME happened' = happened, done' = done PROVE UNCHANGED Delivery!vars
  BY <1>3 DEF Delivery!vars
<1>4. ASSUME NEW e \in Events, RecordEvent(e) \/ RollBackEvent(e) PROVE UNCHANGED Delivery!vars
  <2>1. happened' = happened /\ done' = done
    BY <1>4 DEF RecordEvent, RollBackEvent, vars
  <2> QED
    BY <1>3, <2>1
<1>5. ASSUME NEW w \in Workers, WorkerStep(w), UNCHANGED outboxVars
      PROVE  Delivery!Next \/ done' = done
  BY <1>2, <1>5
  DEF WorkerStep, RunUnknown, HandlerThrows, RecordSuccess, RecordSuccessErrors, RecordFailure,
      outboxVars
<1>6. ASSUME tx' = tx, Delivery!Next \/ done' = done PROVE [Delivery!Next]_(Delivery!vars)
  BY <1>3, <1>6
<1>7. ASSUME NEW w \in Workers,
             RelayStart(w) \/ RelayNext(w) \/ RelayEnqueue(w) \/ MarkRelayed(w)
               \/ RelayError(w) \/ RelayEnd(w)
      PROVE  tx' = tx /\ done' = done
  BY <1>7 DEF RelayStart, RelayNext, RelayEnqueue, MarkRelayed, RelayError, RelayEnd, vars
<1>8. ASSUME NEW w \in Workers,
             TickClaims(w) \/ TickFindsNothing(w) \/ RelayCrash(w)
      PROVE  tx' = tx /\ done' = done
  BY <1>8 DEF TickClaims, Claim, TickFindsNothing, RelayCrash, vars
<1>9. ASSUME NEW j \in Jobs, UNCHANGED outboxVars,
             ClaimExpires(j) \/ BecomesDue(j) \/ Retry(j) \/ Cancel(j) \/ Prune(j)
      PROVE  tx' = tx /\ done' = done
  BY <1>9 DEF ClaimExpires, BecomesDue, Retry, Cancel, Prune, outboxVars
<1>10. CASE UNCHANGED allVars
  BY <1>6, <1>10 DEF allVars, vars, outboxVars
<1>11. ASSUME NEW e \in Events, CommitEvent(e) PROVE Delivery!Next
  BY <1>1, <1>11 DEF Delivery!Next
<1>12. ASSUME NEW w \in Workers, WorkerStep(w), UNCHANGED outboxVars
       PROVE  [Delivery!Next]_(Delivery!vars)
  BY <1>5, <1>6, <1>12 DEF outboxVars
<1> DEFINE Mapped == [Delivery!Next]_(Delivery!vars)
<1>13. ASSUME NEW e \in Events, RecordEvent(e) \/ CommitEvent(e) \/ RollBackEvent(e)
       PROVE  Mapped
  BY <1>4, <1>11, <1>13
<1>14. ASSUME NEW w \in Workers,
              \/ RelayStart(w) \/ RelayNext(w) \/ RelayEnqueue(w) \/ MarkRelayed(w)
              \/ RelayError(w) \/ RelayEnd(w)
              \/ TickClaims(w) \/ TickFindsNothing(w) \/ RelayCrash(w)
       PROVE  Mapped
  <2>1. tx' = tx /\ done' = done
    BY <1>7, <1>8, <1>14
  <2> QED
    BY <1>6, <2>1
<1>15. ASSUME NEW w \in Workers, WorkerStep(w) \/ Crash(w), UNCHANGED outboxVars
       PROVE  Mapped
  <2>1. CASE Crash(w)
    BY <1>6, <1>15, <2>1 DEF Crash, outboxVars
  <2> QED
    BY <1>12, <1>15, <2>1
<1>16. ASSUME NEW j \in Jobs, UNCHANGED outboxVars,
              ClaimExpires(j) \/ BecomesDue(j) \/ Retry(j) \/ Cancel(j) \/ Prune(j)
       PROVE  Mapped
  BY <1>6, <1>9, <1>16
<1> HIDE DEF Mapped, OutboxTypeOK, Kept
<1>17. Mapped
  BY <1>10, <1>13, <1>14, <1>15, <1>16, OutboxCases DEF Mapped
<1> QED
  BY <1>17 DEF Mapped

(* The outbox's promise (outbox.ts): a handler runs for an event only if the *)
(* transaction that recorded it committed, and only for its subscribers.     *)
THEOREM ImplementsDelivery == OutboxSpec => DeliversOnlyWhatHappened
<1>1. OutboxInit => Delivery!Init
  BY DEF OutboxInit, Init, Delivery!Init
<1> QED
  BY <1>1, DeliveryStep, KeptAlways, PTL DEF OutboxSpec, DeliversOnlyWhatHappened, Delivery!Spec
=============================================================================
