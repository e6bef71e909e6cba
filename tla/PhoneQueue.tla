----------------------------- MODULE PhoneQueue -----------------------------
(***************************************************************************)
(* The phone's offline queue and the server that replays it:               *)
(* src/src/modules/mobile/outbox.ts (the rules on the queue),              *)
(* src/src/app/m/outbox-client.ts (the store and the network),             *)
(* src/src/app/api/mobile/v1/sync/route.ts and                             *)
(* src/src/modules/mobile/idempotency.ts (the server).                     *)
(*                                                                         *)
(* Every change of the store reads all of it, awaits, and writes all of    *)
(* it.  Taps and one drain interleave between those two halves, taps with  *)
(* each other too: a screen's busy flag knows of no tap but its own, the   *)
(* badge's "Discard this one" (outbox-badge.tsx) has none.  A request the  *)
(* phone has given up on may still be carried out.  An operation is    *)
(* its own idempotency key and its place in the order of queuing.          *)
(***************************************************************************)
EXTENDS Integers, Sequences, FiniteSets, FiniteSetsExt

CONSTANTS
  Entities,      \* bank transactions the person decides about
  Operations,
  Superseding,   \* SUPERSEDING_OPERATIONS
  MaxAttempts,   \* MAX_ATTEMPTS
  MaxRequests,   \* bound: requests alive at once
  MaxOps,        \* bound: operations queued
  MaxHands,      \* bound: taps under way at once
  MaxPresses,    \* bound: presses of "try again" and "abandon"
  Scenarios      \* bound: which Scenario the instance goes through

ASSUME PhoneAssumption ==
  /\ Superseding \subseteq Operations
  /\ MaxAttempts \in Nat \ {0} /\ MaxRequests \in Nat \ {0} /\ MaxHands \in Nat
  /\ MaxOps \in Nat /\ MaxPresses \in Nat

Ops == 1 .. MaxOps
Slots == 1 .. MaxRequests
Hands == 1 .. MaxHands

\* What the person does, with how many taps at once, what befalls the app and
\* the keys, and how many operations the route's schema lets one request carry
\* (fifty).
Scenario == [taps : [Ops -> Operations \X Entities], presses : 0 .. MaxPresses,
             hands : SUBSET Hands, mishaps : SUBSET {"kill", "prune"},
             limit : Nat \ {0}]

ASSUME ScenarioAssumption == Scenarios \subseteq Scenario

VARIABLES
  scenario, \* never changes
  queue,    \* the store: what it holds of each operation
  made,     \* how many of its taps have been queued
  edit,     \* the taps under way: what each does, to which entry, and the queue it has read
  shown,    \* the entries the badge lists as failed, since it last looked
  drain,    \* the drain under way: the queue it has read, what it sends,
            \* the answers its request has so far
  request,  \* the server's side of each request: the operations left
  keys,     \* idempotency_keys
  landed,   \* the operations performed, in that order
  presses,
  gone,     \* history: superseded by a later decision, or abandoned
  missed,   \* history: wiped by a write whose reader had not seen them
  crossed,  \* history: put back by a tap to what it was before another write
  unwritten, \* history: sent by a drain that ended before its last write
  killed,   \* history: the app was killed (once at most, a bound)
  pruned    \* history: the key past its retention (one at most, a bound)

phone   == <<queue, made, edit, shown, drain, presses>>
server  == <<request, keys, landed, pruned>>
history == <<scenario, gone, missed, crossed, unwritten, killed>>
vars    == <<phone, server, history>>

Absent  == [status |-> "none", attempts |-> 0]
NoEdit  == [what |-> "none", snap |-> [o \in Ops |-> Absent], target |-> 0]
NoDrain == [at |-> "off", snap |-> [o \in Ops |-> Absent], sent |-> {}, slot |-> 0,
            ok |-> {}, refused |-> {}]
Free    == [at |-> "free", left |-> {}]

Entry == [status : {"none", "pending", "sending", "failed"}, attempts : 0 .. MaxAttempts]
Store == [Ops -> Entry]

PhoneTypeOK ==
  /\ scenario \in Scenarios
  /\ queue \in Store
  /\ made \in Ops \cup {0}
  /\ edit \in [Hands -> [what : {"none", "queue", "retry", "discard"}, snap : Store,
                         target : Ops \cup {0}]]
  /\ shown \subseteq Ops
  /\ drain \in [at : {"off", "read", "wait"}, snap : Store,
                sent : SUBSET Ops, slot : Slots \cup {0},
                ok : SUBSET Ops, refused : SUBSET Ops]
  /\ request \in [Slots -> [at : {"free", "malformed", "look", "run"}, left : SUBSET Ops]]
  /\ keys \subseteq Ops /\ landed \in Seq(Ops) /\ presses \in 0 .. MaxPresses
  /\ gone \subseteq Ops /\ missed \subseteq Ops /\ pruned \subseteq Ops
  /\ crossed \subseteq Ops /\ unwritten \subseteq Ops /\ killed \in BOOLEAN

PhoneInit ==
  /\ scenario \in Scenarios
  /\ queue = [o \in Ops |-> Absent]
  /\ made = 0
  /\ edit = [h \in Hands |-> NoEdit] /\ shown = {} /\ drain = NoDrain
  /\ request = [s \in Slots |-> Free]
  /\ keys = {} /\ landed = <<>> /\ presses = 0
  /\ gone = {} /\ missed = {} /\ pruned = {}
  /\ crossed = {} /\ unwritten = {} /\ killed = FALSE

-----------------------------------------------------------------------------
(* The rules of outbox.ts, on a queue q.                                    *)

Held(q) == {o \in Ops : q[o].status # "none"}

SameEntity(o, p) == scenario.taps[o][2] = scenario.taps[p][2]

\* enqueue(): what the new entry n replaces.
Superseded(q, n) ==
  {o \in Ops : /\ q[o].status = "pending"
               /\ scenario.taps[o] = scenario.taps[n]
               /\ scenario.taps[n][1] \in Superseding}

\* MUTANT: a parked entry does not hold back those behind it.
ReadyPastParked(q, waiting) ==
  {o \in Ops : /\ q[o].status = "pending" /\ o \notin waiting
               /\ \A p \in Held(q) :
                    p < o /\ SameEntity(p, o) => q[p].status = "failed"}

\* readyToSend(): the oldest entry of each entity, with the pending entries in `waiting` still in back-off.
ReadyToSend(q, waiting) ==
  {o \in Ops : /\ q[o].status = "pending" /\ o \notin waiting
               /\ \A p \in Held(q) : p < o => ~ SameEntity(p, o)}

\* MUTANT: the attempts are not compared with the maximum.
FailedForEver(entry, permanent) ==
  [status   |-> IF permanent THEN "failed" ELSE "pending",
   attempts |-> entry.attempts + 1]

\* MUTANT: the attempts are not counted.
FailedUncounted(entry, permanent) ==
  [status |-> IF permanent THEN "failed" ELSE "pending", attempts |-> entry.attempts]

\* applyOutcome() after a failure; `permanent` is a refusal.
Failed(entry, permanent) ==
  [status   |-> IF permanent \/ entry.attempts + 1 >= MaxAttempts THEN "failed" ELSE "pending",
   attempts |-> entry.attempts + 1]

-----------------------------------------------------------------------------
(* Taps: queueOperation(), retryParked(), discardEntry(), each a read and   *)
(* a write of the whole store.  Nothing holds one back while another is     *)
(* between its read and its write.                                          *)

Begin(h, what, target) ==
  /\ h \in scenario.hands /\ edit[h].what = "none"
  /\ \A g \in scenario.hands : g < h => edit[g].what # "none"
  /\ edit' = [edit EXCEPT ![h] = [what |-> what, snap |-> queue, target |-> target]]
  /\ UNCHANGED <<queue, made, shown, drain, server, history>>

BeginQueue(h) ==
  /\ made + Cardinality({g \in Hands : edit[g].what = "queue"}) < MaxOps
  /\ Begin(h, "queue", 0)
  /\ UNCHANGED presses

\* The badge offers its buttons for the entries it lists, whatever has become
\* of them meanwhile.
BeginPress(h) ==
  /\ presses < scenario.presses
  /\ \/ shown # {} /\ Begin(h, "retry", 0)
     \/ \E o \in shown : Begin(h, "discard", o)
  /\ presses' = presses + 1

\* The badge looks at the queue again.  Bound: only while a press is left.
Refresh ==
  /\ presses < scenario.presses
  /\ shown' = {o \in Ops : queue[o].status = "failed"}
  /\ UNCHANGED <<queue, made, edit, drain, presses, server, history>>

\* What a write wipes out: its writer, who read the queue `snap', has not seen it.
Wiped(snap) == {o \in Held(queue) : snap[o].status = "none"}

\* writeQueue() of a tap.
WriteEdit(h, q, dropped) ==
  /\ queue' = q
  /\ edit' = [edit EXCEPT ![h] = NoEdit]
  /\ gone' = gone \cup dropped
  /\ missed' = missed \cup Wiped(edit[h].snap)
  /\ crossed' = crossed \cup {o \in Ops : queue[o] # edit[h].snap[o]}
  /\ UNCHANGED <<shown, drain, presses, server, scenario, unwritten, killed>>

QueueOperation(h, n) ==
  /\ edit[h].what = "queue" /\ n = made + 1
  /\ made' = n
  /\ LET snap == edit[h].snap
         out  == Superseded(snap, n)
     IN WriteEdit(h, [o \in Ops |-> IF o = n THEN [status |-> "pending", attempts |-> 0]
                                    ELSE IF o \in out THEN Absent ELSE snap[o]], out)

RetryParked(h) ==
  /\ edit[h].what = "retry"
  /\ LET snap == edit[h].snap
     IN WriteEdit(h, [o \in Ops |-> IF snap[o].status = "failed"
                                    THEN [status |-> "pending", attempts |-> 0]
                                    ELSE snap[o]], {})
  /\ UNCHANGED made

\* discard() drops the entry by its id, whatever its status by now.
DiscardEntry(h) ==
  /\ edit[h].what = "discard"
  /\ WriteEdit(h, [edit[h].snap EXCEPT ![edit[h].target] = Absent], {edit[h].target})
  /\ UNCHANGED made

-----------------------------------------------------------------------------
(* drainOutbox().  `draining` admits one at a time.                         *)

\* `waiting`: the entries whose nextAttemptAt is still ahead.
DrainStart(waiting) ==
  /\ drain.at = "off"
  /\ drain' = [NoDrain EXCEPT !.at = "read", !.snap = queue,
                              !.sent = ReadyToSend(queue, waiting)]
  /\ UNCHANGED <<queue, made, edit, shown, presses, server, history>>

Marked == [o \in Ops |-> IF o \in drain.sent THEN [drain.snap[o] EXCEPT !.status = "sending"]
                         ELSE drain.snap[o]]

\* The entries are marked and the request leaves; with none it only pulls.
\* The schema turns down a request that carries too many.
DrainSend ==
  /\ drain.at = "read"
  /\ IF drain.sent = {}
     THEN /\ drain' = [drain EXCEPT !.at = "wait"]
          /\ UNCHANGED <<queue, request, missed>>
     ELSE \E s \in Slots :
            /\ request[s] = Free /\ \A t \in 1 .. s - 1 : request[t] # Free
            /\ drain' = [drain EXCEPT !.at = "wait", !.slot = s]
            /\ request' = [request EXCEPT ![s] =
                 [at   |-> IF Cardinality(drain.sent) > scenario.limit THEN "malformed" ELSE "look",
                  left |-> drain.sent]]
            /\ queue' = Marked
            /\ missed' = missed \cup Wiped(drain.snap)
  /\ UNCHANGED <<made, edit, shown, presses, keys, landed, pruned,
                 scenario, gone, crossed, unwritten, killed>>

\* The last write: each entry sent becomes outcome[o], the rest is as read.
WriteOutcome(outcome) ==
  LET q == [o \in Ops |-> IF o \in drain.sent THEN outcome[o] ELSE drain.snap[o]]
  IN /\ drain.at = "wait"
     /\ queue' = q
     /\ missed' = missed \cup Wiped(drain.snap)
     /\ drain' = NoDrain
     /\ UNCHANGED <<made, edit, shown, presses, keys, landed, pruned,
                    scenario, gone, crossed, unwritten, killed>>

\* MUTANT: an answer, whatever it says, is taken for success.
DrainAnsweredDone ==
  /\ drain.at = "wait"
  /\ drain.sent # {} => request[drain.slot] = Free
  /\ WriteOutcome([o \in Ops |-> Absent])
  /\ UNCHANGED request

\* The verdict on each entry; `done` entries are compacted away, and an entry
\* the answer does not name stays as it was marked.
DrainAnswered ==
  /\ drain.at = "wait"
  /\ drain.sent # {} => request[drain.slot] = Free
  /\ WriteOutcome([o \in Ops |->
       IF o \in drain.ok THEN Absent
       ELSE IF o \in drain.refused THEN Failed(drain.snap[o], TRUE)
       ELSE Marked[o]])
  /\ UNCHANGED request

\* No response, or a 5xx: the request may still be at work.
DrainFails ==
  /\ WriteOutcome([o \in Ops |-> Failed(drain.snap[o], FALSE)])
  /\ UNCHANGED request

\* A 4xx for the request as a whole: the session is over, or the batch is
\* longer than the schema allows.
DrainRefused ==
  /\ drain.at = "wait" /\ drain.sent # {} /\ request[drain.slot].left = drain.sent
  /\ request[drain.slot].at \in {"malformed", "look"}
  /\ WriteOutcome([o \in Ops |-> Failed(drain.snap[o], TRUE)])
  /\ request' = [request EXCEPT ![drain.slot] = Free]

\* A 200 whose body is no JSON: the answer broke off on its way, or a captive
\* portal gave it in the server's place.  Nothing catches that: `draining' is
\* reset and the entries are left as they were marked.
DrainUnreadable ==
  /\ drain.at = "wait"
  /\ \/ /\ drain.sent # {} => request[drain.slot] = Free
        /\ UNCHANGED request
     \/ /\ drain.sent # {} /\ request[drain.slot].left = drain.sent
        /\ request[drain.slot].at \in {"malformed", "look"}
        /\ request' = [request EXCEPT ![drain.slot] = Free]
  /\ drain' = NoDrain
  /\ unwritten' = unwritten \cup drain.sent
  /\ UNCHANGED <<queue, made, edit, shown, presses, keys, landed, pruned,
                 scenario, gone, missed, crossed, killed>>

\* The app goes away: taps and drains stop where they are.
Kill ==
  /\ "kill" \in scenario.mishaps /\ ~ killed /\ killed' = TRUE
  /\ (\E h \in Hands : edit[h].what # "none") \/ drain.at # "off"
  /\ edit' = [h \in Hands |-> NoEdit] /\ shown' = {} /\ drain' = NoDrain
  /\ unwritten' = unwritten \cup (IF drain.at = "wait" THEN drain.sent ELSE {})
  /\ UNCHANGED <<queue, made, presses, server, scenario, gone, missed, crossed>>

-----------------------------------------------------------------------------
(* The server: one operation after the other, oldest first; one refused     *)
(* does not stop the rest.  Several requests run at once.                   *)

Awaited(s) == drain.at = "wait" /\ drain.slot = s

Turn(s, o) == request[s].left # {} /\ o = Min(request[s].left)

\* MUTANT: the first refusal ends the batch.
PassedOrStopped(s, o, verdict) ==
  /\ request' = [request EXCEPT ![s] =
       IF @.left = {o} \/ verdict # "ok" THEN Free ELSE [at |-> "look", left |-> @.left \ {o}]]
  /\ drain' = IF ~ Awaited(s) THEN drain
              ELSE IF verdict = "ok" THEN [drain EXCEPT !.ok = @ \cup {o}]
              ELSE [drain EXCEPT !.refused = @ \cup {o}]

\* The operation has its verdict; the request goes to the next, or has ended.
Passed(s, o, verdict) ==
  /\ request' = [request EXCEPT ![s] =
       IF @.left = {o} THEN Free ELSE [at |-> "look", left |-> @.left \ {o}]]
  /\ drain' = IF ~ Awaited(s) THEN drain
              ELSE IF verdict = "ok" THEN [drain EXCEPT !.ok = @ \cup {o}]
              ELSE [drain EXCEPT !.refused = @ \cup {o}]

\* runOnce(): the key is looked up outside the transaction.
LookUp(s, o) ==
  /\ Turn(s, o) /\ request[s].at = "look"
  /\ IF o \in keys THEN Passed(s, o, "ok")
     ELSE request' = [request EXCEPT ![s].at = "run"] /\ UNCHANGED drain
  /\ UNCHANGED <<queue, made, edit, shown, presses, history, keys, landed, pruned>>

\* MUTANT: the key is recorded after the work, on no unique index.
RunThenRecord(s, o) ==
  /\ Turn(s, o) /\ request[s].at = "run"
  /\ Passed(s, o, "ok")
  /\ keys' = keys \cup {o}
  /\ landed' = Append(landed, o)
  /\ UNCHANGED <<queue, made, edit, shown, presses, history, pruned>>

\* The transaction: the key goes in first.  If another request has put it in
\* meanwhile the work is undone.  That request's result is returned if the
\* error is known for what it is; isUniqueViolation looks for its code on the
\* error itself, and not in the `cause' a driver's error may be wrapped under.
RunOnce(s, o) ==
  /\ Turn(s, o) /\ request[s].at = "run"
  /\ \E verdict \in {"ok", "refused"} :
       /\ o \notin keys => verdict = "ok"
       /\ Passed(s, o, verdict)
  /\ keys' = keys \cup {o}
  /\ landed' = IF o \in keys THEN landed ELSE Append(landed, o)
  /\ UNCHANGED <<queue, made, edit, shown, presses, history, pruned>>

\* The operation throws (a closed period, a deleted line): nothing is kept.
RefuseOperation(s, o) ==
  /\ Turn(s, o) /\ request[s].at = "run" /\ o \notin keys
  /\ Passed(s, o, "refused")
  /\ UNCHANGED <<queue, made, edit, shown, presses, history, keys, landed, pruned>>

\* A request nobody waits for is lost, on the way or with the server.
LoseRequest(s) ==
  /\ request[s] # Free /\ ~ Awaited(s)
  /\ request' = [request EXCEPT ![s] = Free]
  /\ UNCHANGED <<phone, history, keys, landed, pruned>>

\* pruneIdempotencyKeys(), fourteen days on.
PruneKey(o) ==
  /\ "prune" \in scenario.mishaps /\ o \in keys /\ pruned = {}
  /\ keys' = keys \ {o}
  /\ pruned' = pruned \cup {o}
  /\ UNCHANGED <<phone, history, request, landed>>

-----------------------------------------------------------------------------
WriteOfEdit(h) == (\E n \in Ops : QueueOperation(h, n)) \/ RetryParked(h) \/ DiscardEntry(h)

EndOfDrain == DrainAnswered \/ DrainFails \/ DrainRefused \/ DrainUnreadable

Serve(s) == \E o \in Ops : LookUp(s, o) \/ RunOnce(s, o) \/ RefuseOperation(s, o)

PhoneNext ==
  \/ \E h \in Hands : BeginQueue(h) \/ BeginPress(h) \/ WriteOfEdit(h)
  \/ Refresh
  \/ \E waiting \in SUBSET {o \in Ops : queue[o].attempts > 0} : DrainStart(waiting)
  \/ DrainSend
  \/ EndOfDrain
  \/ Kill
  \/ \E s \in Slots : Serve(s) \/ LoseRequest(s)
  \/ \E o \in Ops : PruneKey(o)

PhoneSpec == PhoneInit /\ [][PhoneNext]_vars

\* Awaits resolve, the server works through what reached it, and drains keep
\* being started (a timer, and three events), so that some drain finds every
\* back-off over: the longest is five minutes.
PhoneFairSpec ==
  /\ PhoneSpec
  /\ \A h \in Hands : WF_vars(WriteOfEdit(h))
  /\ WF_vars(DrainSend)
  /\ WF_vars(EndOfDrain)
  /\ \A s \in Slots : WF_vars(Serve(s) \/ LoseRequest(s))
  /\ SF_vars(DrainStart({}))

-----------------------------------------------------------------------------
(* Properties                                                               *)

Times(o) == Cardinality({i \in DOMAIN landed : landed[i] = o})

\* However often an operation is sent, and by however many requests at once,
\* the server performs it once, as long as its key is kept.
AtMostOnce == \A o \in Ops : Times(o) > 1 => o \in pruned

\* An entry leaves the phone only when the server has performed it, a later
\* decision has superseded it or the person has abandoned it.  The one hole is
\* a write, a drain's or a tap's, that puts back a queue read before the entry
\* was added.
LeavesOnlyWhenDone ==
  \A o \in Ops : o <= made /\ o \notin Held(queue)
                   => Times(o) > 0 \/ o \in gone \cup missed

\* The comment on MAX_ATTEMPTS: what never landed is parked, not dropped.
NothingIsDropped ==
  \A o \in Ops : o <= made /\ o \notin Held(queue) => Times(o) > 0 \/ o \in gone

\* Two decisions on a line reach the books in the order they were taken, lost
\* answers, retries and requests that arrive late notwithstanding.  The holes:
\* a decision superseded, abandoned or wiped, and sent before that or put back
\* since, may land late, and one whose key has been pruned may be repeated.
InTheOrderDecided ==
  \A i, j \in DOMAIN landed :
    i < j /\ SameEntity(landed[i], landed[j]) /\ landed[i] > landed[j]
      => landed[j] \in gone \cup missed \cup pruned

\* An entry marked as being sent is one the running drain has sent.  Three
\* things leave one that nothing will ever send or park: an answer that cannot
\* be read, the app's death before the drain's last write, and a tap that puts
\* back what it had read before that write.
Stranded(o) == queue[o].status = "sending" /\ ~ (drain.at = "wait" /\ o \in drain.sent)

SendingIsBeingSent == \A o \in Ops : Stranded(o) => o \in crossed \cup unwritten

\* Every operation queued is at some time performed, parked for the person to
\* see, or behind one of its line that is parked or stranded.
Settled(o) ==
  \/ queue[o].status \in {"none", "failed"}
  \/ \E p \in Held(queue) : /\ p <= o /\ SameEntity(p, o)
                            /\ queue[p].status = "failed" \/ Stranded(p)

EveryEntrySettles == \A o \in Ops : (queue[o].status = "pending") ~> Settled(o)
=============================================================================
