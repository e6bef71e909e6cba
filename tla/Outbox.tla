------------------------------- MODULE Outbox -------------------------------
(***************************************************************************)
(* The transactional outbox on top of the job table                        *)
(* (src/src/modules/worker/outbox.ts; the order of a tick is runOnce's,    *)
(* runner.ts).                                                             *)
(*                                                                         *)
(* A domain transaction inserts an event with the change it reports.  A    *)
(* worker's tick first reads the unrelayed events, inserts a job per       *)
(* subscriber and marks the event relayed, each a statement of its own;    *)
(* then it claims and runs jobs.  Several workers relay at once.           *)
(***************************************************************************)
EXTENDS JobQueue

CONSTANTS
  Events,
  Kinds,        \* job kinds
  Subscribers,  \* SUBSCRIBERS: the kinds that run for each event
  NoEvent,
  MaxRelayErrors  \* bound: how often relaying one event fails

ASSUME OutboxAssumption ==
  /\ Subscribers \in [Events -> SUBSET Kinds]
  /\ NoEvent \notin Events
  /\ \A j \in Jobs : KeyOf[j] \in Events \X Kinds
  /\ MaxRelayErrors \in Nat

VARIABLES
  tx,        \* the domain transaction that records each event
  relayed,   \* relayed_at IS NOT NULL
  attempts,  \* relay_attempts
  phase,     \* where worker w is in its tick
  batch,     \* the events worker w has read and not yet dealt with
  fan        \* the event w is fanning out, and the kinds still to enqueue

outboxVars == <<tx, relayed, attempts, phase, batch, fan>>
allVars == <<vars, outboxVars>>

NoFan == [event |-> NoEvent, left |-> {}]

OutboxTypeOK ==
  /\ TypeOK
  /\ tx \in [Events -> {"none", "open", "committed", "rolledback"}]
  /\ relayed \in SUBSET Events
  /\ attempts \in [Events -> Nat]
  /\ phase \in [Workers -> {"idle", "relay", "claim"}]
  /\ batch \in [Workers -> SUBSET Events]
  /\ fan \in [Workers -> [event : Events \cup {NoEvent}, left : SUBSET Kinds]]

OutboxInit ==
  /\ Init
  /\ tx = [e \in Events |-> "none"]
  /\ relayed = {}
  /\ attempts = [e \in Events |-> 0]
  /\ phase = [w \in Workers |-> "idle"]
  /\ batch = [w \in Workers |-> {}]
  /\ fan = [w \in Workers |-> NoFan]

-----------------------------------------------------------------------------
(* recordEvent() in the transaction that causes the event.                  *)

RecordEvent(e) ==
  /\ tx[e] = "none"
  /\ tx' = [tx EXCEPT ![e] = "open"]
  /\ UNCHANGED <<vars, relayed, attempts, phase, batch, fan>>

CommitEvent(e) ==
  /\ tx[e] = "open"
  /\ tx' = [tx EXCEPT ![e] = "committed"]
  /\ UNCHANGED <<vars, relayed, attempts, phase, batch, fan>>

RollBackEvent(e) ==
  /\ tx[e] = "open"
  /\ tx' = [tx EXCEPT ![e] = "rolledback"]
  /\ UNCHANGED <<vars, relayed, attempts, phase, batch, fan>>

\* MUTANT: recordEvent on the default handle, outside the transaction.
VisibleAtOnce(e) == tx[e] # "none"

Visible(e) == tx[e] = "committed"

-----------------------------------------------------------------------------
(* relayPendingEvents()                                                     *)

RelayStart(w) ==
  /\ phase[w] = "idle" /\ outcome[w] = Idle /\ Held(w) = {}
  /\ phase' = [phase EXCEPT ![w] = "relay"]
  /\ batch' = [batch EXCEPT ![w] = {e \in Events : Visible(e) /\ e \notin relayed}]
  /\ UNCHANGED <<vars, tx, relayed, attempts, fan>>

RelayNext(w) ==
  /\ phase[w] = "relay" /\ fan[w] = NoFan
  /\ \E e \in batch[w] :
       /\ fan' = [fan EXCEPT ![w] = [event |-> e, left |-> Subscribers[e]]]
       /\ batch' = [batch EXCEPT ![w] = @ \ {e}]
  /\ UNCHANGED <<vars, tx, relayed, attempts, phase>>

\* One enqueue; a key that is taken drops the insert and is no error.
RelayEnqueue(w) ==
  /\ fan[w] # NoFan
  /\ \E k \in fan[w].left, j \in Jobs :
       /\ KeyOf[j] = <<fan[w].event, k>>
       /\ IF KeyTaken(j) THEN UNCHANGED row
          ELSE row[j].status = "none" /\ row' = [row EXCEPT ![j] = Unlocked("queued", 0, TRUE)]
       /\ fan' = [fan EXCEPT ![w].left = @ \ {k}]
  /\ UNCHANGED <<claim, outcome, done, stolen, crashes, presses,
                 tx, relayed, attempts, phase, batch>>

\* MUTANT: the event is marked before its jobs are in.
MarkRelayedFirst(w) ==
  /\ fan[w] # NoFan
  /\ relayed' = relayed \cup {fan[w].event}
  /\ fan' = [fan EXCEPT ![w] = IF @.left = {} THEN NoFan ELSE @]
  /\ UNCHANGED <<vars, tx, attempts, phase, batch>>

MarkRelayed(w) ==
  /\ fan[w] # NoFan /\ fan[w].left = {}
  /\ relayed' = relayed \cup {fan[w].event}
  /\ fan' = [fan EXCEPT ![w] = NoFan]
  /\ UNCHANGED <<vars, tx, attempts, phase, batch>>

\* MUTANT: a failed enqueue is counted, and the event is not seen again.
RelayGivesUp(w) ==
  /\ fan[w] # NoFan
  /\ attempts[fan[w].event] < MaxRelayErrors
  /\ attempts' = [attempts EXCEPT ![fan[w].event] = @ + 1]
  /\ relayed' = relayed \cup {fan[w].event}
  /\ fan' = [fan EXCEPT ![w] = NoFan]
  /\ UNCHANGED <<vars, tx, phase, batch>>

\* MUTANT: relay_attempts counts what is left, from nothing.
RelayErrorCountsDown(w) ==
  /\ fan[w] # NoFan
  /\ attempts[fan[w].event] < MaxRelayErrors
  /\ attempts' = [attempts EXCEPT ![fan[w].event] = @ - 1]
  /\ fan' = [fan EXCEPT ![w] = NoFan]
  /\ UNCHANGED <<vars, tx, relayed, phase, batch>>

\* An enqueue or the mark throws: the event is left unrelayed for a later tick.
RelayError(w) ==
  /\ fan[w] # NoFan
  /\ attempts[fan[w].event] < MaxRelayErrors
  /\ attempts' = [attempts EXCEPT ![fan[w].event] = @ + 1]
  /\ fan' = [fan EXCEPT ![w] = NoFan]
  /\ UNCHANGED <<vars, tx, relayed, phase, batch>>

RelayEnd(w) ==
  /\ phase[w] = "relay" /\ fan[w] = NoFan /\ batch[w] = {}
  /\ phase' = [phase EXCEPT ![w] = "claim"]
  /\ UNCHANGED <<vars, tx, relayed, attempts, batch, fan>>

-----------------------------------------------------------------------------
(* The rest of the tick: claim a batch and run it, or find nothing due.     *)

TickClaims(w) ==
  /\ phase[w] = "claim"
  /\ Claim(w)
  /\ phase' = [phase EXCEPT ![w] = "idle"]
  /\ UNCHANGED <<tx, relayed, attempts, batch, fan>>

TickFindsNothing(w) ==
  /\ phase[w] = "claim"
  /\ \A j \in Jobs : ~Claimable(j)
  /\ phase' = [phase EXCEPT ![w] = "idle"]
  /\ UNCHANGED <<vars, tx, relayed, attempts, batch, fan>>

\* The process is killed in the middle of relaying.
RelayCrash(w) ==
  /\ phase[w] = "relay"
  /\ crashes < MaxCrashes
  /\ crashes' = crashes + 1
  /\ phase' = [phase EXCEPT ![w] = "idle"]
  /\ batch' = [batch EXCEPT ![w] = {}]
  /\ fan' = [fan EXCEPT ![w] = NoFan]
  /\ UNCHANGED <<row, claim, outcome, done, stolen, presses, tx, relayed, attempts>>

Tick(w) ==
  \/ RelayStart(w) \/ RelayNext(w) \/ RelayEnqueue(w) \/ MarkRelayed(w)
  \/ RelayError(w) \/ RelayEnd(w)
  \/ TickClaims(w) \/ TickFindsNothing(w)
  \/ WorkerStep(w) /\ UNCHANGED outboxVars

\* Bound: a row is swept only while another id is left to insert its key under.
Sweep(j) ==
  /\ \E i \in Jobs : KeyOf[i] = KeyOf[j] /\ row[i].status = "none"
  /\ Prune(j)

OutboxNext ==
  \/ \E e \in Events : RecordEvent(e) \/ CommitEvent(e) \/ RollBackEvent(e)
  \/ \E w \in Workers : Tick(w) \/ RelayCrash(w) \/ (Crash(w) /\ UNCHANGED outboxVars)
  \/ \E j \in Jobs :
       /\ ClaimExpires(j) \/ BecomesDue(j) \/ Retry(j) \/ Cancel(j) \/ Sweep(j)
       /\ UNCHANGED outboxVars

OutboxSpec == OutboxInit /\ [][OutboxNext]_allVars

(* A worker that is not killed goes on with its tick and then ticks again;   *)
(* clocks run.  A transaction may stay open, and nobody has to press.        *)
OutboxFairness ==
  /\ \A w \in Workers : WF_allVars(Tick(w))
  /\ \A j \in Jobs : WF_allVars((ClaimExpires(j) \/ BecomesDue(j)) /\ UNCHANGED outboxVars)

OutboxFairSpec == OutboxSpec /\ OutboxFairness

-----------------------------------------------------------------------------

(* An event marked relayed has had a job inserted for each of its            *)
(* subscribers: a crash between the inserts and the mark, or a second worker *)
(* on the same event, loses none.                                            *)
RelayedMeansEnqueued ==
  \A e \in relayed, k \in Kinds : k \in Subscribers[e] =>
    \E j \in Jobs : KeyOf[j] = <<e, k>> /\ row[j].status # "none"

(* A handler runs only for what did happen, whatever the interleaving of     *)
(* transactions, relays, retries and kills.                                  *)
Delivery == INSTANCE EventDelivery WITH
  happened <- {e \in Events : tx[e] = "committed"},
  handled <- {KeyOf[j] : j \in done}

DeliversOnlyWhatHappened == Delivery!Spec

(* Every event that happened reaches each of its subscribers, or is left     *)
(* where a person can see that it did not: a dead job, or one they           *)
(* cancelled themselves.                                                     *)
EveryEventIsDealtWith ==
  \A e \in Events, k \in Kinds :
    tx[e] = "committed" /\ k \in Subscribers[e] ~>
      \E j \in Jobs : KeyOf[j] = <<e, k>> /\ (j \in done \/ row[j].status \in {"dead", "cancelled"})

=============================================================================
