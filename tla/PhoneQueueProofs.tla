-------------------------- MODULE PhoneQueueProofs --------------------------
(***************************************************************************)
(* What the phone's queue keeps, for any number of operations, requests,   *)
(* attempts, presses and taps at once: an operation is performed once,     *)
(* none leaves the phone unperformed but by the one known hole, what is    *)
(* marked as being sent is being sent but for the cases named, and         *)
(* decisions on a line land in their order.                                *)
(*                                                                         *)
(* The argument: a key is in the table, or has been pruned, for whatever   *)
(* was performed; the store lacks only what was performed, given up or     *)
(* wiped by a write that had not seen it; so what is still owed is in the  *)
(* store, and nothing of its line is sent before it.                       *)
(***************************************************************************)
EXTENDS PhoneQueue, FiniteSetTheorems, SequenceTheorems, WellFoundedInduction, TLAPS

\* Where the operation o stands among those performed.
Places(s, o) == {i \in DOMAIN s : s[i] = o}

Performed == {o \in Ops : \E i \in DOMAIN landed : landed[i] = o}

Edits    == [Hands -> [what : {"none", "queue", "retry", "discard"}, snap : Store,
                       target : Ops \cup {0}]]
Drains   == [at : {"off", "read", "wait"}, snap : Store,
             sent : SUBSET Ops, slot : Slots \cup {0},
             ok : SUBSET Ops, refused : SUBSET Ops]
Requests == [Slots -> [at : {"free", "malformed", "look", "run"}, left : SUBSET Ops]]

\* In the store and in every copy of it an entry that waits has attempts left;
\* a discard names an entry.
Waits(q) == \A o \in Ops : q[o].status = "pending" => q[o].attempts < MaxAttempts

Copies ==
  /\ Waits(queue) /\ Waits(drain.snap)
  /\ \A h \in Hands : /\ Waits(edit[h].snap)
                      /\ edit[h].what = "discard" => edit[h].target \in Ops
  /\ \A o \in drain.sent : drain.snap[o].status = "pending"

\* What was performed has, or had, its key, and was performed again only after.
Keyed ==
  \A o \in Ops : /\ o \in Performed => o \in keys \cup pruned
                 /\ Times(o) > 1 => o \in pruned

\* Whatever the store lacks of the operations made is accounted for.
Lacks(q) == {o \in Ops : o <= made /\ q[o].status = "none"}
Answered == Performed \cup gone \cup missed

Accounted ==
  /\ Lacks(queue) \subseteq Answered
  /\ keys \subseteq Performed /\ drain.ok \subseteq Performed

Safe == PhoneTypeOK /\ Copies /\ Keyed /\ Accounted

\* The operations the server has still to answer for, among those sent.
Unanswered == drain.sent \ (drain.ok \cup drain.refused)

\* The awaited request answers for whatever it has not got to yet; a mark left
\* in the queue a drain has read comes of a drain that never wrote its last, or
\* of a tap that crossed one.
Marks ==
  /\ drain.at = "wait" /\ drain.sent # {} =>
       drain.slot \in Slots /\ Unanswered \subseteq request[drain.slot].left
  /\ \A o \in Ops : drain.snap[o].status = "sending" => o \in crossed \cup unwritten
  /\ SendingIsBeingSent

\* What may yet be performed for the first time, and what is with the server.
Owed     == {o \in Ops : o <= made} \ Answered
InFlight == UNION {request[s].left : s \in Slots}

\* No copy of the queue, and no request, is ahead of the person.
Known ==
  /\ Held(queue) \cup Held(drain.snap) \cup drain.sent \cup InFlight \cup Performed
       \subseteq {o \in Ops : o <= made}
  /\ \A h \in Hands : Held(edit[h].snap) \subseteq {o \in Ops : o <= made}

\* No earlier operation of its line is owed.
Past(p) == \A o \in Owed : o < p => ~ SameEntity(o, p)

Orderly ==
  /\ Known /\ InTheOrderDecided
  /\ \A p \in drain.sent \cup InFlight \cup Performed : Past(p)

-----------------------------------------------------------------------------
(* Operators.                                                               *)

LEMMA PlacesAppend ==
  ASSUME NEW S, NEW s \in Seq(S), NEW n \in S, NEW o \in S
  PROVE Places(Append(s, n), o) = IF n = o THEN Places(s, o) \cup {Len(s) + 1} ELSE Places(s, o)
<1> DEFINE t == Append(s, n)
<1>1. /\ DOMAIN s = 1 .. Len(s) /\ DOMAIN t = 1 .. Len(s) + 1 /\ Len(s) \in Nat
      /\ \A i \in 1 .. Len(s) : t[i] = s[i]
      /\ t[Len(s) + 1] = n
  BY AppendProperties, LenProperties
<1>2. DOMAIN t = DOMAIN s \cup {Len(s) + 1} /\ Len(s) + 1 \notin DOMAIN s
  BY <1>1
<1> QED
  BY <1>1, <1>2 DEF Places

LEMMA PlacesFinite ==
  ASSUME NEW S, NEW s \in Seq(S), NEW o
  PROVE /\ IsFiniteSet(Places(s, o)) /\ Cardinality(Places(s, o)) \in Nat
        /\ Cardinality(Places(s, o)) = 0 <=> Places(s, o) = {}
<1>1. DOMAIN s = 1 .. Len(s) /\ Len(s) \in Nat
  BY LenProperties
<1>2. IsFiniteSet(1 .. Len(s))
  BY <1>1, FS_Interval
<1>3. IsFiniteSet(Places(s, o))
  BY <1>1, <1>2, FS_Subset DEF Places
<1> QED
  BY <1>3, FS_CardinalityType, FS_EmptySet

\* One more operation performed.
LEMMA TimesAppend ==
  ASSUME landed \in Seq(Ops), NEW n \in Ops, NEW o \in Ops, landed' = Append(landed, n)
  PROVE /\ Times(o)' = IF n = o THEN Times(o) + 1 ELSE Times(o)
        /\ Performed' = Performed \cup {n}
<1>1. Places(landed', o) = IF n = o THEN Places(landed, o) \cup {Len(landed) + 1}
                           ELSE Places(landed, o)
  BY PlacesAppend
<1>2. Len(landed) + 1 \notin Places(landed, o)
  BY LenProperties DEF Places
<1>3. Cardinality(Places(landed, o) \cup {Len(landed) + 1}) = Cardinality(Places(landed, o)) + 1
  BY <1>2, PlacesFinite, FS_AddElement
<1>4. Performed' = Performed \cup {n}
  <2>1. \A p \in Ops : p \in Performed <=> Places(landed, p) # {}
    BY DEF Performed, Places
  <2>2. \A p \in Ops : p \in Performed' <=> Places(landed', p) # {}
    BY DEF Performed, Places
  <2>3. \A p \in Ops : Places(landed', p) = IF n = p THEN Places(landed, p) \cup {Len(landed) + 1}
                                            ELSE Places(landed, p)
    BY PlacesAppend
  <2> QED
    BY <2>1, <2>2, <2>3 DEF Performed
<1> QED
  BY <1>1, <1>3, <1>4 DEF Times, Places

LEMMA PerformedTimes ==
  ASSUME landed \in Seq(Ops), NEW o \in Ops
  PROVE Times(o) \in Nat /\ (Times(o) > 0 <=> o \in Performed)
<1>1. Times(o) = Cardinality(Places(landed, o))
  BY DEF Times, Places
<1>2. o \in Performed <=> Places(landed, o) # {}
  BY DEF Performed, Places
<1> QED
  BY <1>1, <1>2, PlacesFinite

LEMMA AbsentIsEntry == /\ Absent \in Entry /\ Absent.status = "none" /\ Absent.attempts = 0
                       /\ [status |-> "pending", attempts |-> 0] \in Entry
BY PhoneAssumption DEF Absent, Entry

\* A failure counted on an entry that waited.
LEMMA FailedIsEntry ==
  ASSUME NEW e \in Entry, e.attempts < MaxAttempts, NEW permanent \in BOOLEAN
  PROVE LET f == Failed(e, permanent)
        IN /\ f \in Entry /\ f.status # "none"
           /\ f.status = "pending" => f.attempts < MaxAttempts
<1>1. e.attempts \in 0 .. MaxAttempts /\ MaxAttempts \in Nat \ {0}
  BY PhoneAssumption DEF Entry
<1> QED
  BY <1>1 DEF Failed, Entry

\* No queue, no drain.
LEMMA NothingRead ==
  /\ NoEdit.snap \in Store /\ Waits(NoEdit.snap) /\ Held(NoEdit.snap) = {}
  /\ NoDrain \in Drains /\ Waits(NoDrain.snap) /\ Held(NoDrain.snap) = {}
  /\ [h \in Hands |-> NoEdit] \in Edits
<1>1. /\ NoEdit.snap = [o \in Ops |-> Absent] /\ NoEdit.what = "none" /\ NoEdit.target = 0
      /\ NoDrain.snap = [o \in Ops |-> Absent]
  BY DEF NoEdit, NoDrain
<1>2. [o \in Ops |-> Absent] \in Store /\ Waits([o \in Ops |-> Absent])
      /\ Held([o \in Ops |-> Absent]) = {}
  BY AbsentIsEntry DEF Store, Waits, Held
<1>3. NoEdit \in [what : {"none", "queue", "retry", "discard"}, snap : Store,
                  target : Ops \cup {0}]
  BY <1>1, <1>2 DEF NoEdit
<1>4. NoDrain \in Drains
  BY <1>1, <1>2 DEF NoDrain, Drains
<1> QED
  BY <1>1, <1>2, <1>3, <1>4 DEF Edits

-----------------------------------------------------------------------------
(* Taps.                                                                    *)

LEMMA InitSafe == PhoneInit => Safe
<1> SUFFICES ASSUME PhoneInit PROVE Safe
  OBVIOUS
<1>1. [o \in Ops |-> Absent] \in Store /\ Waits([o \in Ops |-> Absent])
  BY AbsentIsEntry DEF Store, Waits
<1>2. PhoneTypeOK
  <2>1. queue \in Store
    BY <1>1 DEF PhoneInit
  <2>2. edit \in Edits /\ drain \in Drains /\ presses \in 0 .. MaxPresses
    BY NothingRead, PhoneAssumption DEF PhoneInit
  <2>3. request \in Requests
    BY DEF PhoneInit, Free, Requests
  <2>4. landed \in Seq(Ops) /\ made \in Ops \cup {0}
    BY PhoneAssumption DEF PhoneInit
  <2>5. scenario \in Scenarios /\ keys \subseteq Ops /\ gone \subseteq Ops /\ missed \subseteq Ops
        /\ pruned \subseteq Ops /\ crossed \subseteq Ops /\ unwritten \subseteq Ops
        /\ killed \in BOOLEAN /\ shown \subseteq Ops
    BY DEF PhoneInit
  <2> QED
    BY <2>1, <2>2, <2>3, <2>4, <2>5 DEF PhoneTypeOK, Edits, Drains, Requests
<1>3. Copies
  <2>1. (\A h \in Hands : edit[h] = NoEdit) /\ drain = NoDrain
        /\ queue = [o \in Ops |-> Absent]
    BY DEF PhoneInit
  <2>2. NoDrain.sent = {} /\ NoEdit.what = "none"
    BY DEF NoDrain, NoEdit
  <2>3. Waits(queue)
    BY <1>1, <2>1
  <2> QED
    BY <2>1, <2>2, <2>3, NothingRead DEF Copies
<1>4. Performed = {} /\ \A o \in Ops : Times(o) = 0
  <2>1. landed = <<>> /\ landed \in Seq(Ops) /\ DOMAIN landed = {}
    BY DEF PhoneInit
  <2>2. Performed = {}
    BY <2>1 DEF Performed
  <2> QED
    BY <2>1, <2>2, PerformedTimes
<1>5. Keyed
  BY <1>4 DEF Keyed
<1>6. Accounted
  <2>1. \A o \in Ops : ~ (o <= made)
    BY DEF PhoneInit, Ops
  <2> QED
    BY <1>4, <2>1 DEF PhoneInit, Accounted, Lacks, NoDrain
<1> QED
  BY <1>2, <1>3, <1>5, <1>6 DEF Safe

\* What the server has done stands as long as nothing on its side changes.
LEMMA ServerFrame ==
  ASSUME UNCHANGED <<landed, keys, pruned>>, Keyed
  PROVE Keyed' /\ Performed' = Performed
BY DEF Keyed, Performed, Times, Ops

LEMMA BeginSafe ==
  ASSUME Safe, NEW h \in Hands, NEW what \in {"queue", "retry", "discard"},
         NEW target \in Ops \cup {0}, Begin(h, what, target), what = "discard" => target \in Ops,
         presses' \in 0 .. MaxPresses
  PROVE Safe'
<1>1. PhoneTypeOK /\ Copies /\ Keyed /\ Accounted
  BY DEF Safe
<1>2. UNCHANGED <<queue, made, shown, drain, server, history>>
      /\ edit' = [edit EXCEPT ![h] = [what |-> what, snap |-> queue, target |-> target]]
  BY DEF Begin
<1>3. /\ edit' \in Edits
      /\ \A g \in Hands : \/ edit'[g] = edit[g]
                          \/ edit'[g] = [what |-> what, snap |-> queue, target |-> target]
  BY <1>1, <1>2 DEF PhoneTypeOK, Edits
<1>4. PhoneTypeOK'
  BY <1>1, <1>2, <1>3 DEF PhoneTypeOK, server, history, Edits
<1>5. Copies'
  BY <1>1, <1>2, <1>3 DEF Copies, Waits
<1>6. Keyed' /\ Performed' = Performed
  BY <1>1, <1>2, ServerFrame DEF server
<1>7. Accounted'
  BY <1>1, <1>2, <1>6 DEF Accounted, Lacks, Answered, server, history
<1> QED
  BY <1>4, <1>5, <1>6, <1>7 DEF Safe

LEMMA BeginTapSafe ==
  ASSUME Safe, NEW h \in Hands, BeginQueue(h) \/ BeginPress(h)
  PROVE Safe'
<1>1. CASE BeginQueue(h)
  BY <1>1, BeginSafe DEF BeginQueue, Safe, PhoneTypeOK
<1>2. CASE BeginPress(h)
  <2>1. presses' \in 0 .. MaxPresses
    <3>1. presses < scenario.presses /\ presses' = presses + 1
      BY <1>2 DEF BeginPress
    <3>2. scenario.presses \in 0 .. MaxPresses /\ MaxPresses \in Nat /\ presses \in 0 .. MaxPresses
      BY ScenarioAssumption, PhoneAssumption DEF Safe, PhoneTypeOK, Scenario
    <3> QED
      BY <3>1, <3>2
  <2>2. CASE Begin(h, "retry", 0)
    BY <2>1, <2>2, BeginSafe
  <2>3. ASSUME NEW o \in shown, Begin(h, "discard", o) PROVE Safe'
    BY <2>1, <2>3, BeginSafe DEF Safe, PhoneTypeOK
  <2> QED
    BY <1>2, <2>2, <2>3 DEF BeginPress
<1> QED
  BY <1>1, <1>2

LEMMA RefreshSafe ==
  ASSUME Safe, Refresh
  PROVE Safe'
<1>1. PhoneTypeOK /\ Copies /\ Keyed /\ Accounted
  BY DEF Safe
<1>2. shown' \subseteq Ops /\ UNCHANGED <<queue, made, edit, drain, presses, server, history>>
  BY DEF Refresh
<1>3. PhoneTypeOK'
  BY <1>1, <1>2 DEF PhoneTypeOK, server, history
<1>4. Keyed' /\ Performed' = Performed
  BY <1>1, <1>2, ServerFrame DEF server
<1> QED
  BY <1>1, <1>2, <1>3, <1>4 DEF Safe, Copies, Waits, Accounted, Lacks, Answered, server, history

\* A write of the queue q by one who has read `snap'.  What it lacks of that
\* was dropped or has been performed; what it wipes is recorded as missed.
LEMMA StoreWrite ==
  ASSUME Safe, NEW q, NEW snap, NEW dropped, queue' = q, landed' = landed,
         missed' = missed \cup Wiped(snap), gone' = gone \cup dropped,
         \A o \in Ops : q[o].status = "none" =>
           snap[o].status = "none" \/ o \in dropped \/ o \in drain.ok,
         \A o \in Ops : o <= made' => o <= made \/ q[o].status # "none"
  PROVE Lacks(queue)' \subseteq Answered'
<1>1. Accounted
  BY DEF Safe
<1>2. Performed' = Performed
  BY DEF Performed
<1>3. Answered' = Answered \cup Wiped(snap) \cup dropped
  BY <1>2 DEF Answered
<1>4. SUFFICES ASSUME NEW o \in Ops, o <= made, q[o].status = "none"
               PROVE o \in Answered'
  BY DEF Lacks
<1>5. CASE o \in drain.ok
  BY <1>1, <1>3, <1>5 DEF Accounted, Answered
<1>6. CASE o \in dropped
  BY <1>3, <1>6
<1>7. CASE snap[o].status = "none" /\ queue[o].status = "none"
  BY <1>1, <1>3, <1>4, <1>7 DEF Accounted, Lacks
<1>8. CASE snap[o].status = "none" /\ queue[o].status # "none"
  BY <1>3, <1>8 DEF Wiped, Held
<1> QED
  BY <1>4, <1>5, <1>6, <1>7, <1>8

\* The queue a tap under way has read.
LEMMA EditRead ==
  ASSUME Safe, NEW h \in Hands
  PROVE /\ edit[h].snap \in Store /\ Waits(edit[h].snap)
        /\ edit[h].what = "discard" => edit[h].target \in Ops
        /\ \A o \in Ops : edit[h].snap[o] \in Entry
BY DEF Safe, PhoneTypeOK, Copies, Store

\* What a tap writes: what it has read, without what it drops and with what
\* is new.
TapWrites(h, q, dropped) ==
  /\ q \in Store /\ Waits(q) /\ dropped \subseteq Ops
  /\ \A o \in Ops : q[o].status = "none" => edit[h].snap[o].status = "none" \/ o \in dropped
  /\ \A o \in Ops : q[o].status = "sending" => q[o] = edit[h].snap[o]
  /\ \A o \in Ops : o <= made' => o <= made \/ q[o].status # "none"
  /\ Held(q) \subseteq Held(edit[h].snap) \cup {o \in Ops : made < o /\ o <= made'}
  /\ made' \in Ops \cup {0} /\ made <= made'

LEMMA TapsWrite ==
  ASSUME Safe, NEW h \in Hands, WriteOfEdit(h)
  PROVE \E q, dropped : WriteEdit(h, q, dropped) /\ TapWrites(h, q, dropped)
<1> DEFINE snap == edit[h].snap
<1>1. made \in Ops \cup {0} /\ \A o \in Ops : o \in Int /\ 0 < o
  BY DEF Safe, PhoneTypeOK, Ops
<1>2. snap \in Store /\ Waits(snap) /\ \A o \in Ops : snap[o] \in Entry
  BY EditRead
<1>3. /\ MaxAttempts \in Nat \ {0} /\ Absent \in Entry /\ Absent.status = "none"
      /\ [status |-> "pending", attempts |-> 0] \in Entry
  BY AbsentIsEntry, PhoneAssumption
<1>4. made \in Int /\ made <= made
  BY <1>1
<1>5. ASSUME NEW n \in Ops, QueueOperation(h, n)
      PROVE \E q, dropped : WriteEdit(h, q, dropped) /\ TapWrites(h, q, dropped)
  <2> DEFINE out == Superseded(snap, n)
             q == [o \in Ops |-> IF o = n THEN [status |-> "pending", attempts |-> 0]
                                 ELSE IF o \in out THEN Absent ELSE snap[o]]
  <2>1. n = made + 1 /\ made' = n /\ WriteEdit(h, q, out) /\ out \subseteq Ops
    BY <1>5 DEF QueueOperation, Superseded
  <2>2. q \in Store /\ Waits(q)
    BY <1>2, <1>3 DEF Store, Waits
  <2>3. /\ \A o \in Ops : q[o].status = "none" => snap[o].status = "none" \/ o \in out
        /\ \A o \in Ops : q[o].status = "sending" => q[o] = snap[o]
        /\ q[n].status # "none"
    BY <1>3
  <2>4. Held(q) \subseteq Held(snap) \cup {n}
    BY <1>3 DEF Held
  <2>5. \A o \in Ops : o <= made' => o <= made \/ o = n
    BY <1>1, <2>1
  <2>6. n \in {o \in Ops : made < o /\ o <= made'} /\ made' \in Ops \cup {0} /\ made <= made'
    BY <1>1, <2>1
  <2>7. TapWrites(h, q, out)
    <3> HIDE DEF q, out
    <3> QED
      BY <2>1, <2>2, <2>3, <2>4, <2>5, <2>6 DEF TapWrites
  <2> QED
    BY <2>1, <2>7
<1>6. ASSUME RetryParked(h)
      PROVE \E q, dropped : WriteEdit(h, q, dropped) /\ TapWrites(h, q, dropped)
  <2> DEFINE q == [o \in Ops |-> IF snap[o].status = "failed"
                                 THEN [status |-> "pending", attempts |-> 0] ELSE snap[o]]
  <2>1. made' = made /\ WriteEdit(h, q, {})
    BY <1>6 DEF RetryParked
  <2>2. q \in Store /\ Waits(q)
    BY <1>2, <1>3 DEF Store, Waits
  <2>3. /\ \A o \in Ops : q[o].status = "none" => snap[o].status = "none"
        /\ \A o \in Ops : q[o].status = "sending" => q[o] = snap[o]
        /\ Held(q) \subseteq Held(snap)
    BY DEF Held
  <2>4. TapWrites(h, q, {})
    <3> HIDE DEF q
    <3> QED
      BY <1>1, <1>4, <2>1, <2>2, <2>3 DEF TapWrites
  <2> QED
    BY <2>1, <2>4
<1>7. ASSUME DiscardEntry(h)
      PROVE \E q, dropped : WriteEdit(h, q, dropped) /\ TapWrites(h, q, dropped)
  <2> DEFINE d == edit[h].target
             q == [snap EXCEPT ![d] = Absent]
  <2>1. made' = made /\ WriteEdit(h, q, {d}) /\ d \in Ops
    BY <1>7, EditRead DEF DiscardEntry
  <2>2. \A o \in Ops : q[o] = IF o = d THEN Absent ELSE snap[o]
    BY <1>2 DEF Store
  <2>3. q \in Store /\ Waits(q)
    <3>1. q \in Store
      BY <1>2, <1>3, <2>1 DEF Store
    <3> QED
      BY <1>2, <1>3, <2>2, <3>1 DEF Waits
  <2>4. /\ \A o \in Ops : q[o].status = "none" => snap[o].status = "none" \/ o \in {d}
        /\ \A o \in Ops : q[o].status = "sending" => q[o] = snap[o]
        /\ Held(q) \subseteq Held(snap)
    BY <1>3, <2>2 DEF Held
  <2>5. TapWrites(h, q, {d})
    <3> HIDE DEF q, d
    <3> QED
      BY <1>1, <1>4, <2>1, <2>3, <2>4 DEF TapWrites
  <2> QED
    BY <2>1, <2>5
<1> QED
  BY <1>5, <1>6, <1>7 DEF WriteOfEdit

LEMMA WriteOfEditSafe ==
  ASSUME Safe, NEW h \in Hands, WriteOfEdit(h)
  PROVE Safe'
<1>1. PhoneTypeOK /\ Copies /\ Keyed /\ Accounted
  BY DEF Safe
<1>2. PICK q, dropped : WriteEdit(h, q, dropped) /\ TapWrites(h, q, dropped)
  BY TapsWrite
<1>3. /\ queue' = q /\ edit' = [edit EXCEPT ![h] = NoEdit] /\ gone' = gone \cup dropped
      /\ missed' = missed \cup Wiped(edit[h].snap)
      /\ crossed' = crossed \cup {o \in Ops : queue[o] # edit[h].snap[o]}
      /\ UNCHANGED <<shown, drain, presses, server, scenario, unwritten, killed>>
  BY <1>2 DEF WriteEdit
<1>4. q \in Store /\ Waits(q) /\ dropped \subseteq Ops /\ made' \in Ops \cup {0}
  BY <1>2 DEF TapWrites
<1>5. edit' \in Edits /\ \A g \in Hands : edit'[g] = edit[g] \/ edit'[g] = NoEdit
  <2>1. NoEdit \in [what : {"none", "queue", "retry", "discard"}, snap : Store,
                    target : Ops \cup {0}]
    BY NothingRead DEF Edits
  <2> QED
    BY <1>1, <1>3, <2>1 DEF PhoneTypeOK, Edits
<1>6. PhoneTypeOK'
  BY <1>1, <1>3, <1>4, <1>5 DEF PhoneTypeOK, Edits, server, Wiped, Held
<1>7. NoEdit.what = "none"
  BY DEF NoEdit
<1>8. Copies'
  BY <1>1, <1>3, <1>4, <1>5, <1>7, NothingRead DEF Copies, Waits
<1>9. Keyed' /\ Performed' = Performed
  BY <1>1, <1>3, ServerFrame DEF server
<1>10. Lacks(queue)' \subseteq Answered'
  BY <1>2, <1>3, StoreWrite DEF TapWrites, server
<1>11. Accounted'
  BY <1>1, <1>3, <1>9, <1>10 DEF Accounted, server
<1> QED
  BY <1>6, <1>8, <1>9, <1>11 DEF Safe

-----------------------------------------------------------------------------
(* Drains.                                                                  *)

LEMMA DrainStartSafe ==
  ASSUME Safe, NEW waiting, DrainStart(waiting)
  PROVE Safe'
<1>1. PhoneTypeOK /\ Copies /\ Keyed /\ Accounted
  BY DEF Safe
<1>2. /\ drain' = [at |-> "read", snap |-> queue, sent |-> ReadyToSend(queue, waiting),
                   slot |-> 0, ok |-> {}, refused |-> {}]
      /\ UNCHANGED <<queue, made, edit, shown, presses, server, history>>
  BY DEF DrainStart, NoDrain
<1>3. /\ ReadyToSend(queue, waiting) \subseteq Ops
      /\ \A o \in ReadyToSend(queue, waiting) : queue[o].status = "pending"
  BY DEF ReadyToSend
<1>4. PhoneTypeOK'
  BY <1>1, <1>2, <1>3 DEF PhoneTypeOK, server, history
<1>5. Copies'
  BY <1>1, <1>2, <1>3 DEF Copies, Waits
<1>6. Keyed' /\ Performed' = Performed
  BY <1>1, <1>2, ServerFrame DEF server
<1>7. Accounted'
  BY <1>1, <1>2, <1>6 DEF Accounted, Lacks, Answered, server, history
<1> QED
  BY <1>4, <1>5, <1>6, <1>7 DEF Safe

\* The app's death, and an answer that cannot be read, leave the store alone.
LEMMA DrainAbandonedSafe ==
  ASSUME Safe, drain' = NoDrain, edit' = edit \/ edit' = [h \in Hands |-> NoEdit],
         request' \in Requests, unwritten' \subseteq Ops, killed' \in BOOLEAN, shown' \subseteq Ops,
         UNCHANGED <<queue, made, presses, keys, landed, pruned, scenario, gone, missed, crossed>>
  PROVE Safe'
<1>1. PhoneTypeOK /\ Copies /\ Keyed /\ Accounted
  BY DEF Safe
<1>2. edit' \in Edits /\ drain' \in Drains
  BY <1>1, NothingRead DEF PhoneTypeOK, Edits
<1>3. PhoneTypeOK'
  BY <1>1, <1>2 DEF PhoneTypeOK, Edits, Drains, Requests
<1>4. drain'.sent = {} /\ drain'.ok = {} /\ NoEdit.what = "none"
  BY DEF NoDrain, NoEdit
<1>5. \A h \in Hands : edit'[h] = edit[h] \/ edit'[h] = NoEdit
  OBVIOUS
<1>6. Copies'
  BY <1>1, <1>4, <1>5, NothingRead DEF Copies, Waits
<1>7. Keyed' /\ Performed' = Performed
  BY <1>1, ServerFrame
<1>8. Accounted'
  BY <1>1, <1>4, <1>7 DEF Accounted, Lacks, Answered
<1> QED
  BY <1>3, <1>6, <1>7, <1>8 DEF Safe

LEMMA KillSafe ==
  ASSUME Safe, Kill
  PROVE Safe'
<1>1. /\ drain' = NoDrain /\ edit' = [h \in Hands |-> NoEdit] /\ killed' = TRUE /\ shown' = {}
      /\ unwritten' \subseteq unwritten \cup drain.sent
      /\ UNCHANGED <<queue, made, presses, request, keys, landed, pruned, scenario,
                     gone, missed, crossed>>
  BY DEF Kill, server
<1>2. unwritten' \subseteq Ops /\ request' \in Requests
  BY <1>1 DEF Safe, PhoneTypeOK, Requests
<1> QED
  BY <1>1, <1>2, DrainAbandonedSafe

LEMMA DrainUnreadableSafe ==
  ASSUME Safe, DrainUnreadable
  PROVE Safe'
<1>1. /\ drain' = NoDrain /\ unwritten' = unwritten \cup drain.sent
      /\ UNCHANGED <<queue, made, edit, shown, presses, keys, landed, pruned,
                     scenario, gone, missed, crossed, killed>>
      /\ request' = request \/ request' = [request EXCEPT ![drain.slot] = Free]
  BY DEF DrainUnreadable
<1>2. unwritten' \subseteq Ops /\ request' \in Requests /\ killed' \in BOOLEAN /\ shown' \subseteq Ops
  BY <1>1 DEF Safe, PhoneTypeOK, Requests, Free
<1> QED
  BY <1>1, <1>2, DrainAbandonedSafe

\* What a drain sees in the queue it has read, and what it marks.
LEMMA DrainRead ==
  ASSUME Safe
  PROVE /\ drain.snap \in Store /\ Waits(drain.snap) /\ drain.sent \subseteq Ops
        /\ \A o \in Ops : drain.snap[o] \in Entry /\ Marked[o] \in Entry
        /\ \A o \in drain.sent : /\ drain.snap[o].attempts < MaxAttempts
                                 /\ Marked[o].status = "sending"
<1>1. /\ drain.snap \in Store /\ Waits(drain.snap) /\ drain.sent \subseteq Ops
      /\ \A o \in drain.sent : drain.snap[o].status = "pending"
  BY DEF Safe, PhoneTypeOK, Copies
<1>2. \A o \in Ops : drain.snap[o] \in Entry
  BY <1>1 DEF Store
<1>3. ASSUME NEW o \in Ops
      PROVE Marked[o] \in Entry /\ (o \in drain.sent => Marked[o].status = "sending")
  BY <1>2, <1>3 DEF Marked, Entry
<1> QED
  BY <1>1, <1>2, <1>3 DEF Waits

\* A drain's write drops nothing that has not been performed.
LEMMA DrainWrite ==
  ASSUME Safe, NEW q, queue' = q, missed' = missed \cup Wiped(drain.snap),
         UNCHANGED <<made, gone, landed>>,
         \A o \in Ops : q[o].status = "none" => drain.snap[o].status = "none" \/ o \in drain.ok
  PROVE Lacks(queue)' \subseteq Answered'
<1>1. Accounted /\ Answered' = Answered \cup Wiped(drain.snap)
  BY DEF Safe, Answered, Performed
<1>2. SUFFICES ASSUME NEW o \in Ops, o <= made, q[o].status = "none"
               PROVE o \in Answered'
  BY DEF Lacks
<1>3. CASE o \in drain.ok
  BY <1>1, <1>3 DEF Accounted, Answered
<1>4. CASE drain.snap[o].status = "none" /\ queue[o].status = "none"
  BY <1>1, <1>2, <1>4 DEF Accounted, Lacks
<1>5. CASE drain.snap[o].status = "none" /\ queue[o].status # "none"
  BY <1>1, <1>5 DEF Wiped, Held
<1> QED
  BY <1>2, <1>3, <1>4, <1>5

LEMMA DrainSendSafe ==
  ASSUME Safe, DrainSend
  PROVE Safe'
<1>1. PhoneTypeOK /\ Copies /\ Keyed /\ Accounted
  BY DEF Safe
<1>2. UNCHANGED <<made, edit, shown, presses, keys, landed, pruned, scenario, gone, crossed, unwritten, killed>>
  BY DEF DrainSend
<1>3. Keyed' /\ Performed' = Performed
  BY <1>1, <1>2, ServerFrame
<1>4. CASE drain.sent = {}
  <2>1. drain' = [drain EXCEPT !.at = "wait"] /\ UNCHANGED <<queue, request, missed>>
    BY <1>4 DEF DrainSend
  <2>2. PhoneTypeOK'
    BY <1>1, <1>2, <2>1 DEF PhoneTypeOK
  <2>3. Copies'
    BY <1>1, <1>2, <2>1 DEF Copies, Waits, PhoneTypeOK
  <2>4. Accounted'
    BY <1>1, <1>2, <1>3, <2>1 DEF Accounted, Lacks, Answered, PhoneTypeOK
  <2> QED
    BY <1>3, <2>2, <2>3, <2>4 DEF Safe
<1>5. CASE drain.sent # {}
  <2>1. PICK s \in Slots :
          /\ drain' = [drain EXCEPT !.at = "wait", !.slot = s]
          /\ request' = [request EXCEPT ![s] =
               [at   |-> IF Cardinality(drain.sent) > scenario.limit THEN "malformed" ELSE "look",
                left |-> drain.sent]]
          /\ queue' = Marked
          /\ missed' = missed \cup Wiped(drain.snap)
    BY <1>5 DEF DrainSend
  <2>2. Marked \in Store /\ Waits(Marked)
    BY DrainRead DEF Marked, Store, Waits
  <2>3. Lacks(queue)' \subseteq Answered'
    <3>1. \A o \in Ops : Marked[o].status = "none" => drain.snap[o].status = "none"
      BY DrainRead DEF Marked
    <3> QED
      BY <1>2, <2>1, <3>1, DrainWrite
  <2>4. PhoneTypeOK'
    BY <1>1, <1>2, <2>1, <2>2 DEF PhoneTypeOK, Wiped, Held
  <2>5. Copies'
    BY <1>1, <1>2, <2>1, <2>2 DEF Copies, Waits, PhoneTypeOK
  <2>6. Accounted'
    BY <1>1, <1>2, <1>3, <2>1, <2>3 DEF Accounted, Lacks, Answered, PhoneTypeOK
  <2> QED
    BY <1>3, <2>4, <2>5, <2>6 DEF Safe
<1> QED
  BY <1>4, <1>5

\* The last write of a drain; `outcome` drops only what was answered.
LEMMA WriteOutcomeSafe ==
  ASSUME Safe, NEW outcome, WriteOutcome(outcome),
         request' \in [Slots -> [at : {"free", "malformed", "look", "run"}, left : SUBSET Ops]],
         \A o \in drain.sent : /\ outcome[o] \in Entry
                               /\ outcome[o].status = "pending" => outcome[o].attempts < MaxAttempts
                               /\ outcome[o].status = "none" => o \in drain.ok
  PROVE Safe'
<1> DEFINE q == [o \in Ops |-> IF o \in drain.sent THEN outcome[o] ELSE drain.snap[o]]
<1>1. PhoneTypeOK /\ Copies /\ Keyed /\ Accounted
  BY DEF Safe
<1>2. /\ queue' = q /\ missed' = missed \cup Wiped(drain.snap) /\ drain' = NoDrain
      /\ UNCHANGED <<made, edit, shown, presses, keys, landed, pruned, scenario, gone, crossed, unwritten, killed>>
  BY DEF WriteOutcome
<1>3. q \in Store /\ Waits(q)
  BY DrainRead DEF Store, Waits
<1>4. \A o \in Ops : q[o].status = "none" => drain.snap[o].status = "none" \/ o \in drain.ok
  OBVIOUS
<1>5. Lacks(queue)' \subseteq Answered'
  <2> HIDE DEF q
  <2> QED
    BY <1>2, <1>4, DrainWrite
<1>7. NoDrain.sent = {} /\ NoDrain.ok = {}
  BY DEF NoDrain
<1> HIDE DEF q
<1>8. PhoneTypeOK'
  BY <1>1, <1>2, <1>3, NothingRead DEF PhoneTypeOK, Wiped, Held, Drains
<1>9. Copies'
  BY <1>1, <1>2, <1>3, <1>7, NothingRead DEF Copies, Waits
<1>10. Keyed' /\ Performed' = Performed
  BY <1>1, <1>2, ServerFrame
<1>11. Accounted'
  BY <1>1, <1>2, <1>5, <1>7, <1>10 DEF Accounted
<1> QED
  BY <1>8, <1>9, <1>10, <1>11 DEF Safe

LEMMA DrainAnsweredSafe ==
  ASSUME Safe, DrainAnswered
  PROVE Safe'
<1> DEFINE outcome == [o \in Ops |->
             IF o \in drain.ok THEN Absent
             ELSE IF o \in drain.refused THEN Failed(drain.snap[o], TRUE)
             ELSE Marked[o]]
<1>1. WriteOutcome(outcome) /\ request' = request
  BY DEF DrainAnswered
<1>2. ASSUME NEW o \in drain.sent
      PROVE /\ outcome[o] \in Entry
            /\ outcome[o].status = "pending" => outcome[o].attempts < MaxAttempts
            /\ outcome[o].status = "none" => o \in drain.ok
  <2>1. o \in Ops /\ drain.snap[o] \in Entry /\ drain.snap[o].attempts < MaxAttempts
        /\ Marked[o] \in Entry /\ Marked[o].status = "sending"
    BY DrainRead
  <2>2. CASE o \in drain.ok
    <3>1. outcome[o] = Absent
      BY <2>1, <2>2
    <3> QED
      BY <2>2, <3>1, AbsentIsEntry
  <2>3. CASE o \notin drain.ok /\ o \in drain.refused
    <3>1. outcome[o] = Failed(drain.snap[o], TRUE)
      BY <2>1, <2>3
    <3> QED
      BY <2>1, <3>1, FailedIsEntry
  <2>4. CASE o \notin drain.ok /\ o \notin drain.refused
    BY <2>1, <2>4
  <2> QED
    BY <2>2, <2>3, <2>4
<1>3. request' \in [Slots -> [at : {"free", "malformed", "look", "run"}, left : SUBSET Ops]]
  BY <1>1 DEF Safe, PhoneTypeOK
<1> HIDE DEF outcome
<1> QED
  BY <1>1, <1>2, <1>3, WriteOutcomeSafe

\* A failure of the request as a whole.
LEMMA DrainFailsSafe ==
  ASSUME Safe, DrainFails \/ DrainRefused
  PROVE Safe'
<1>1. PICK permanent \in BOOLEAN : WriteOutcome([o \in Ops |-> Failed(drain.snap[o], permanent)])
  BY DEF DrainFails, DrainRefused
<1>2. request' \in [Slots -> [at : {"free", "malformed", "look", "run"}, left : SUBSET Ops]]
  <2>1. request' = request \/ request' = [request EXCEPT ![drain.slot] = Free]
    BY DEF DrainFails, DrainRefused
  <2> QED
    BY <2>1 DEF Safe, PhoneTypeOK, Free
<1> DEFINE outcome == [o \in Ops |-> Failed(drain.snap[o], permanent)]
<1>3. \A o \in drain.sent : /\ outcome[o] \in Entry
                            /\ outcome[o].status = "pending" => outcome[o].attempts < MaxAttempts
                            /\ outcome[o].status = "none" => o \in drain.ok
  BY DrainRead, FailedIsEntry
<1> HIDE DEF outcome
<1> QED
  BY <1>1, <1>2, <1>3, WriteOutcomeSafe DEF outcome

-----------------------------------------------------------------------------
(* The server.                                                              *)

\* One operation has its verdict.
LEMMA PassedTypes ==
  ASSUME Safe, NEW s \in Slots, NEW o \in Ops, NEW verdict, Passed(s, o, verdict)
  PROVE /\ request' \in Requests
        /\ drain' \in Drains
        /\ drain'.snap = drain.snap /\ drain'.sent = drain.sent
        /\ drain'.ok \subseteq drain.ok \cup {o}
        /\ verdict # "ok" => drain'.ok = drain.ok
<1>1. /\ request \in Requests
      /\ drain \in Drains
  BY DEF Safe, PhoneTypeOK, Requests, Drains
<1>2. request' \in Requests
  BY <1>1 DEF Passed, Requests, Free
<1>3. \/ drain' = drain
      \/ verdict = "ok" /\ drain' = [drain EXCEPT !.ok = @ \cup {o}]
      \/ verdict # "ok" /\ drain' = [drain EXCEPT !.refused = @ \cup {o}]
  BY DEF Passed
<1> QED
  BY <1>1, <1>2, <1>3 DEF Drains

\* A step of the server that performs nothing.
LEMMA ServerStepSafe ==
  ASSUME Safe, UNCHANGED <<queue, made, edit, shown, presses, history, keys, landed, pruned>>,
         request' \in Requests,
         drain' \in Drains,
         drain'.snap = drain.snap, drain'.sent = drain.sent, drain'.ok \subseteq Performed
  PROVE Safe'
<1>1. PhoneTypeOK /\ Copies /\ Keyed /\ Accounted
  BY DEF Safe
<1>2. PhoneTypeOK'
  BY <1>1 DEF PhoneTypeOK, history, Requests, Drains
<1>3. Copies'
  BY <1>1 DEF Copies, Waits
<1>4. Keyed' /\ Performed' = Performed
  BY <1>1, ServerFrame
<1>5. Accounted'
  BY <1>1, <1>4 DEF Accounted, Lacks, Answered, history
<1> QED
  BY <1>2, <1>3, <1>4, <1>5 DEF Safe

LEMMA LookUpSafe ==
  ASSUME Safe, NEW s \in Slots, NEW o \in Ops, LookUp(s, o)
  PROVE Safe'
<1>1. UNCHANGED <<queue, made, edit, shown, presses, history, keys, landed, pruned>>
  BY DEF LookUp
<1>2. Accounted /\ PhoneTypeOK
  BY DEF Safe
<1>3. CASE o \in keys
  <2>1. Passed(s, o, "ok")
    BY <1>3 DEF LookUp
  <2>2. drain'.ok \subseteq Performed
    BY <1>2, <1>3, <2>1, PassedTypes DEF Accounted
  <2> QED
    BY <1>1, <2>1, <2>2, PassedTypes, ServerStepSafe
<1>4. CASE o \notin keys
  <2>1. request' = [request EXCEPT ![s].at = "run"] /\ drain' = drain
    BY <1>4 DEF LookUp
  <2>2. request' \in Requests
    BY <1>2, <2>1 DEF PhoneTypeOK, Requests
  <2> QED
    BY <1>1, <1>2, <2>1, <2>2, ServerStepSafe DEF PhoneTypeOK, Accounted, Drains
<1> QED
  BY <1>3, <1>4

LEMMA RefuseOperationSafe ==
  ASSUME Safe, NEW s \in Slots, NEW o \in Ops, RefuseOperation(s, o)
  PROVE Safe'
<1>1. Passed(s, o, "refused")
      /\ UNCHANGED <<queue, made, edit, shown, presses, history, keys, landed, pruned>>
  BY DEF RefuseOperation
<1>2. drain'.ok \subseteq Performed
  BY <1>1, PassedTypes DEF Safe, Accounted
<1> QED
  BY <1>1, <1>2, PassedTypes, ServerStepSafe

LEMMA LoseRequestSafe ==
  ASSUME Safe, NEW s \in Slots, LoseRequest(s)
  PROVE Safe'
<1>1. request' = [request EXCEPT ![s] = Free] /\ UNCHANGED <<phone, history, keys, landed, pruned>>
  BY DEF LoseRequest
<1>2. Accounted /\ PhoneTypeOK
  BY DEF Safe
<1>3. request' \in Requests
  BY <1>1, <1>2 DEF PhoneTypeOK, Requests, Free
<1> QED
  BY <1>1, <1>2, <1>3, ServerStepSafe DEF PhoneTypeOK, Accounted, Drains, phone

LEMMA RunOnceSafe ==
  ASSUME Safe, NEW s \in Slots, NEW o \in Ops, RunOnce(s, o)
  PROVE Safe'
<1>1. PhoneTypeOK /\ Copies /\ Keyed /\ Accounted
  BY DEF Safe
<1> PICK verdict \in {"ok", "refused"} : Passed(s, o, verdict)
  BY DEF RunOnce
<1>2. /\ keys' = keys \cup {o}
      /\ landed' = (IF o \in keys THEN landed ELSE Append(landed, o))
      /\ UNCHANGED <<queue, made, edit, shown, presses, history, pruned>>
  BY DEF RunOnce
<1>3. /\ drain'.snap = drain.snap /\ drain'.sent = drain.sent
      /\ drain'.ok \subseteq drain.ok \cup {o}
  BY PassedTypes
<1>4. landed \in Seq(Ops) /\ landed' \in Seq(Ops)
  BY <1>1, <1>2, AppendProperties DEF PhoneTypeOK
<1>5. PhoneTypeOK'
  BY <1>1, <1>2, <1>4, PassedTypes DEF PhoneTypeOK, history, Requests, Drains
<1>6. Copies'
  BY <1>1, <1>2, <1>3 DEF Copies, Waits
<1>7. Keyed' /\ Performed' = Performed \cup {o}
  <2>1. CASE o \in keys
    <3>1. keys' = keys /\ landed' = landed /\ pruned' = pruned
      BY <1>2, <2>1
    <3>2. o \in Performed
      BY <1>1, <2>1 DEF Accounted
    <3> QED
      BY <1>1, <3>1, <3>2, ServerFrame
  <2>2. CASE o \notin keys
    <3>1. landed' = Append(landed, o) /\ pruned' = pruned
      BY <1>2, <2>2
    <3>2. \A p \in Ops : Times(p)' = IF o = p THEN Times(p) + 1 ELSE Times(p)
      BY <1>4, <3>1, TimesAppend
    <3>3. Performed' = Performed \cup {o}
      BY <1>4, <3>1, TimesAppend
    <3>4. ASSUME NEW p \in Ops, Times(p)' > 1
          PROVE p \in pruned
      <4>1. CASE p # o
        BY <1>1, <3>2, <3>4, <4>1 DEF Keyed
      <4>2. CASE p = o
        <5>1. Times(o) > 0
          BY <1>4, <3>2, <3>4, <4>2, PerformedTimes
        <5> QED
          BY <1>1, <1>4, <2>2, <4>2, <5>1, PerformedTimes DEF Keyed
      <4> QED
        BY <4>1, <4>2
    <3> QED
      BY <1>1, <1>2, <3>1, <3>3, <3>4 DEF Keyed
  <2> QED
    BY <2>1, <2>2
<1>8. Accounted'
  BY <1>1, <1>2, <1>3, <1>7 DEF Accounted, Lacks, Answered, history
<1> QED
  BY <1>5, <1>6, <1>7, <1>8 DEF Safe

LEMMA PruneKeySafe ==
  ASSUME Safe, NEW o \in Ops, PruneKey(o)
  PROVE Safe'
<1>1. PhoneTypeOK /\ Copies /\ Keyed /\ Accounted
  BY DEF Safe
<1>2. keys' = keys \ {o} /\ pruned' = pruned \cup {o} /\ UNCHANGED <<phone, history, request, landed>>
  BY DEF PruneKey
<1>3. PhoneTypeOK'
  BY <1>1, <1>2 DEF PhoneTypeOK, phone, history
<1>4. Copies'
  BY <1>1, <1>2 DEF Copies, Waits, phone
<1>5. Performed' = Performed /\ \A p \in Ops : Times(p)' = Times(p)
  BY <1>2 DEF Performed, Times
<1>6. Keyed'
  BY <1>1, <1>2, <1>5 DEF Keyed
<1>7. Accounted'
  BY <1>1, <1>2, <1>5 DEF Accounted, Lacks, Answered, phone, history
<1> QED
  BY <1>3, <1>4, <1>6, <1>7 DEF Safe

-----------------------------------------------------------------------------
(* Marks: what is marked as being sent is being sent.                       *)

LEMMA InitMarks == PhoneInit => Marks
BY DEF PhoneInit, Marks, NoDrain, Absent, SendingIsBeingSent, Stranded

\* A step that touches neither the store nor the drain and its request.
LEMMA MarksFrame ==
  ASSUME Marks, UNCHANGED <<queue, drain, request, unwritten, crossed>>
  PROVE Marks'
BY DEF Marks, Unanswered, SendingIsBeingSent, Stranded

\* A tap writes back only marks it has read; those that have changed since
\* are crossed.
LEMMA WriteOfEditMarks ==
  ASSUME Safe, Marks, NEW h \in Hands, WriteOfEdit(h)
  PROVE Marks'
<1>1. PICK q, dropped : WriteEdit(h, q, dropped) /\ TapWrites(h, q, dropped)
  BY TapsWrite
<1>2. /\ queue' = q /\ UNCHANGED <<drain, request, unwritten>>
      /\ crossed' = crossed \cup {o \in Ops : queue[o] # edit[h].snap[o]}
  BY <1>1 DEF WriteEdit, server
<1>3. \A o \in Ops : q[o].status = "sending" => q[o] = edit[h].snap[o]
  BY <1>1 DEF TapWrites
<1>4. SendingIsBeingSent'
  <2> SUFFICES ASSUME NEW o \in Ops, Stranded(o)' PROVE o \in crossed' \cup unwritten'
    BY DEF SendingIsBeingSent
  <2>1. CASE queue[o] # edit[h].snap[o]
    BY <1>2, <2>1
  <2>2. CASE queue[o] = edit[h].snap[o]
    <3>1. Stranded(o)
      BY <1>2, <1>3, <2>2 DEF Stranded
    <3> QED
      BY <1>2, <3>1 DEF Marks, SendingIsBeingSent
  <2> QED
    BY <2>1, <2>2
<1> QED
  BY <1>2, <1>4 DEF Marks, Unanswered

LEMMA DrainStartMarks ==
  ASSUME Marks, NEW waiting, DrainStart(waiting)
  PROVE Marks'
<1>1. /\ drain.at = "off" /\ drain'.at = "read" /\ drain'.snap = queue
      /\ UNCHANGED <<queue, unwritten, crossed>>
  BY DEF DrainStart, NoDrain, history
<1>2. \A o \in Ops : queue[o].status = "sending" <=> Stranded(o)
  BY <1>1 DEF Stranded
<1>3. SendingIsBeingSent'
  BY <1>1, <1>2 DEF Marks, SendingIsBeingSent, Stranded
<1> QED
  BY <1>1, <1>2, <1>3 DEF Marks, SendingIsBeingSent

LEMMA DrainSendMarks ==
  ASSUME Safe, Marks, DrainSend
  PROVE Marks'
<1>1. /\ drain \in [at : {"off", "read", "wait"}, snap : Store,
                    sent : SUBSET Ops, slot : Slots \cup {0},
                    ok : SUBSET Ops, refused : SUBSET Ops]
      /\ request \in [Slots -> [at : {"free", "malformed", "look", "run"}, left : SUBSET Ops]]
  BY DEF Safe, PhoneTypeOK
<1>2. UNCHANGED <<crossed, unwritten>> /\ drain.at = "read"
  BY DEF DrainSend
<1>3. CASE drain.sent = {}
  <2>1. drain' = [drain EXCEPT !.at = "wait"] /\ UNCHANGED <<queue, request>>
    BY <1>3 DEF DrainSend
  <2>2. drain'.snap = drain.snap /\ drain'.sent = {}
    BY <1>1, <1>3, <2>1
  <2>3. \A o \in Ops : Stranded(o)' <=> Stranded(o)
    BY <1>2, <2>1, <2>2 DEF Stranded
  <2> QED
    BY <1>2, <2>2, <2>3 DEF Marks, SendingIsBeingSent
<1>4. CASE drain.sent # {}
  <2>1. PICK s \in Slots :
          /\ drain' = [drain EXCEPT !.at = "wait", !.slot = s]
          /\ request' = [request EXCEPT ![s] =
               [at   |-> IF Cardinality(drain.sent) > scenario.limit THEN "malformed" ELSE "look",
                left |-> drain.sent]]
          /\ queue' = Marked
    BY <1>4 DEF DrainSend
  <2>2. /\ drain'.snap = drain.snap /\ drain'.sent = drain.sent /\ drain'.at = "wait"
        /\ drain'.slot = s /\ request'[s].left = drain.sent
    BY <1>1, <2>1
  <2>3. ASSUME NEW o \in Ops, Stranded(o)' PROVE drain.snap[o].status = "sending"
    BY <2>1, <2>2, <2>3 DEF Stranded, Marked
  <2> QED
    BY <1>2, <2>2, <2>3 DEF Marks, SendingIsBeingSent, Unanswered
<1> QED
  BY <1>3, <1>4

\* The last write leaves no mark on what was sent, and no other than it read.
LEMMA WriteOutcomeMarks ==
  ASSUME Marks, NEW outcome, WriteOutcome(outcome),
         \A o \in drain.sent : outcome[o].status # "sending"
  PROVE Marks'
<1>1. /\ queue' = [o \in Ops |-> IF o \in drain.sent THEN outcome[o] ELSE drain.snap[o]]
      /\ drain' = NoDrain /\ UNCHANGED <<crossed, unwritten>>
  BY DEF WriteOutcome
<1>2. ASSUME NEW o \in Ops, queue'[o].status = "sending" PROVE drain.snap[o].status = "sending"
  BY <1>1, <1>2
<1> QED
  BY <1>1, <1>2 DEF Marks, SendingIsBeingSent, Stranded, NoDrain, Absent

\* A drain that ends without its last write leaves what it had sent unwritten.
LEMMA DrainAbandonedMarks ==
  ASSUME Marks, drain' = NoDrain, UNCHANGED <<queue, crossed>>,
         unwritten \subseteq unwritten',
         drain.at = "wait" => drain.sent \subseteq unwritten'
  PROVE Marks'
<1>1. ASSUME NEW o \in Ops, Stranded(o)' PROVE o \in crossed' \cup unwritten'
  <2>1. CASE drain.at = "wait" /\ o \in drain.sent
    BY <2>1
  <2>2. CASE ~ (drain.at = "wait" /\ o \in drain.sent)
    <3>1. Stranded(o)
      BY <1>1, <2>2 DEF Stranded
    <3> QED
      BY <3>1 DEF Marks, SendingIsBeingSent
  <2> QED
    BY <2>1, <2>2
<1>2. drain'.at = "off" /\ \A o \in Ops : drain'.snap[o].status # "sending"
  BY DEF NoDrain, Absent
<1> QED
  BY <1>1, <1>2 DEF Marks, SendingIsBeingSent

LEMMA EndOfDrainMarks ==
  ASSUME Safe, Marks, EndOfDrain
  PROVE Marks'
<1>1. \A o \in Ops, permanent \in BOOLEAN : Failed(drain.snap[o], permanent).status # "sending"
  BY DEF Failed
<1>2. drain.sent \subseteq Ops
  BY DEF Safe, PhoneTypeOK
<1>3. CASE DrainAnswered
  <2> DEFINE outcome == [o \in Ops |->
               IF o \in drain.ok THEN Absent
               ELSE IF o \in drain.refused THEN Failed(drain.snap[o], TRUE)
               ELSE Marked[o]]
  <2>1. WriteOutcome(outcome) /\ drain.at = "wait" /\ (drain.sent # {} => request[drain.slot] = Free)
    BY <1>3 DEF DrainAnswered
  <2>2. drain.sent \subseteq drain.ok \cup drain.refused
    BY <2>1 DEF Marks, Unanswered, Free
  <2>3. \A o \in drain.sent : outcome[o].status # "sending"
    BY <1>1, <1>2, <2>2, AbsentIsEntry
  <2> QED
    BY <2>1, <2>3, WriteOutcomeMarks
<1>4. CASE DrainFails \/ DrainRefused
  <2>1. PICK permanent \in BOOLEAN : WriteOutcome([o \in Ops |-> Failed(drain.snap[o], permanent)])
    BY <1>4 DEF DrainFails, DrainRefused
  <2> QED
    BY <1>1, <1>2, <2>1, WriteOutcomeMarks
<1>5. CASE DrainUnreadable
  BY <1>5, DrainAbandonedMarks DEF DrainUnreadable
<1> QED
  BY <1>3, <1>4, <1>5 DEF EndOfDrain

LEMMA KillMarks ==
  ASSUME Marks, Kill
  PROVE Marks'
BY DrainAbandonedMarks DEF Kill

\* An operation the server has answered for leaves the request it came with.
LEMMA PassedMarks ==
  ASSUME Safe, Marks, NEW s \in Slots, NEW o \in Ops, NEW verdict, Passed(s, o, verdict),
         UNCHANGED <<queue, unwritten, crossed>>
  PROVE Marks'
<1>1. /\ drain \in [at : {"off", "read", "wait"}, snap : Store,
                    sent : SUBSET Ops, slot : Slots \cup {0},
                    ok : SUBSET Ops, refused : SUBSET Ops]
      /\ request \in [Slots -> [at : {"free", "malformed", "look", "run"}, left : SUBSET Ops]]
  BY DEF Safe, PhoneTypeOK
<1>2. /\ drain'.at = drain.at /\ drain'.snap = drain.snap /\ drain'.sent = drain.sent
      /\ drain'.slot = drain.slot
      /\ drain'.ok \cup drain'.refused =
           drain.ok \cup drain.refused \cup (IF Awaited(s) THEN {o} ELSE {})
  <2>1. CASE ~ Awaited(s)
    BY <2>1 DEF Passed
  <2>2. CASE Awaited(s) /\ verdict = "ok"
    BY <1>1, <2>2 DEF Passed
  <2>3. CASE Awaited(s) /\ verdict # "ok"
    BY <1>1, <2>3 DEF Passed
  <2> QED
    BY <2>1, <2>2, <2>3
<1>3. /\ request[s].left \ {o} \subseteq request'[s].left
      /\ \A t \in Slots \ {s} : request'[t] = request[t]
  BY <1>1 DEF Passed, Free
<1>4. drain'.at = "wait" /\ drain'.sent # {} =>
        drain'.slot \in Slots /\ Unanswered' \subseteq request'[drain'.slot].left
  <2> SUFFICES ASSUME drain.at = "wait", drain.sent # {}
               PROVE drain.slot \in Slots /\ Unanswered' \subseteq request'[drain.slot].left
    BY <1>2
  <2>1. drain.slot \in Slots /\ Unanswered \subseteq request[drain.slot].left
    BY DEF Marks
  <2>2. CASE drain.slot = s
    BY <1>2, <1>3, <2>1, <2>2 DEF Unanswered, Awaited
  <2>3. CASE drain.slot # s
    BY <1>2, <1>3, <2>1, <2>3 DEF Unanswered, Awaited
  <2> QED
    BY <2>2, <2>3
<1>5. \A p \in Ops : Stranded(p)' <=> Stranded(p)
  BY <1>2 DEF Stranded
<1> QED
  BY <1>2, <1>4, <1>5 DEF Marks, SendingIsBeingSent

LEMMA ServeMarks ==
  ASSUME Safe, Marks, NEW s \in Slots, Serve(s) \/ LoseRequest(s)
  PROVE Marks'
<1>1. ASSUME NEW o \in Ops, LookUp(s, o) PROVE Marks'
  <2>1. CASE o \in keys
    BY <1>1, <2>1, PassedMarks DEF LookUp, history
  <2>2. CASE o \notin keys
    <3>1. request' = [request EXCEPT ![s].at = "run"]
          /\ UNCHANGED <<queue, drain, unwritten, crossed>>
      BY <1>1, <2>2 DEF LookUp, history
    <3>2. \A t \in Slots : request'[t].left = request[t].left
      BY <3>1 DEF Safe, PhoneTypeOK
    <3> QED
      BY <3>1, <3>2 DEF Marks, Unanswered, SendingIsBeingSent, Stranded
  <2> QED
    BY <2>1, <2>2
<1>2. ASSUME NEW o \in Ops, RunOnce(s, o) PROVE Marks'
  BY <1>2, PassedMarks DEF RunOnce, history
<1>3. ASSUME NEW o \in Ops, RefuseOperation(s, o) PROVE Marks'
  BY <1>3, PassedMarks DEF RefuseOperation, history
<1>4. CASE LoseRequest(s)
  <2>1. /\ request' = [request EXCEPT ![s] = Free] /\ ~ Awaited(s)
        /\ UNCHANGED <<queue, drain, unwritten, crossed>>
    BY <1>4 DEF LoseRequest, phone, history
  <2>2. drain.at = "wait" => request'[drain.slot] = request[drain.slot] \/ drain.slot \notin Slots
    BY <2>1 DEF Awaited, Safe, PhoneTypeOK
  <2> QED
    BY <2>1, <2>2 DEF Marks, Unanswered, SendingIsBeingSent, Stranded
<1> QED
  BY <1>1, <1>2, <1>3, <1>4 DEF Serve

LEMMA NextMarks == Safe /\ Marks /\ [PhoneNext]_vars => Marks'
<1> SUFFICES ASSUME Safe, Marks, [PhoneNext]_vars PROVE Marks'
  OBVIOUS
<1>1. ASSUME NEW h \in Hands, BeginQueue(h) \/ BeginPress(h) PROVE Marks'
  BY <1>1, MarksFrame DEF BeginQueue, BeginPress, Begin, server, history
<1>2. ASSUME NEW h \in Hands, WriteOfEdit(h) PROVE Marks'
  BY <1>2, WriteOfEditMarks
<1>10. CASE Refresh
  BY <1>10, MarksFrame DEF Refresh, server, history
<1>3. ASSUME NEW waiting, DrainStart(waiting) PROVE Marks'
  BY <1>3, DrainStartMarks
<1>4. CASE DrainSend
  BY <1>4, DrainSendMarks
<1>5. CASE EndOfDrain
  BY <1>5, EndOfDrainMarks
<1>6. CASE Kill
  BY <1>6, KillMarks
<1>7. ASSUME NEW s \in Slots, Serve(s) \/ LoseRequest(s) PROVE Marks'
  BY <1>7, ServeMarks
<1>8. ASSUME NEW o \in Ops, PruneKey(o) PROVE Marks'
  BY <1>8, MarksFrame DEF PruneKey, phone, history
<1>9. CASE UNCHANGED vars
  BY <1>9, MarksFrame DEF vars, phone, server, history
<1> QED
  BY <1>1, <1>2, <1>3, <1>4, <1>5, <1>6, <1>7, <1>8, <1>9, <1>10 DEF PhoneNext

-----------------------------------------------------------------------------
(* Order: two decisions on a line land as they were taken.                  *)

\* The least of the operations a request has left is one of them.
LEMMA TurnIsLeft ==
  ASSUME PhoneTypeOK, NEW s \in Slots, NEW o \in Ops, Turn(s, o)
  PROVE o \in InFlight
<1> DEFINE R == OpToRel(<, Nat)
           L == request[s].left
<1>1. L # {} /\ o = Min(L)
  BY DEF Turn
<1>2. L \subseteq Nat
  <2>1. L \subseteq Ops
    BY DEF PhoneTypeOK
  <2> QED
    BY <2>1, PhoneAssumption DEF Ops
<1>3. IsWellFoundedOn(R, Nat)
  BY NatLessThanWellFounded
<1>4. \A m, n \in Nat : <<m, n>> \in R <=> m < n
  BY DEF OpToRel
<1> HIDE DEF R, L
<1>5. PICK n \in L : \A m \in L : ~ (<<m, n>> \in R)
  BY <1>1, <1>2, <1>3, WFMin
<1>6. ASSUME NEW m \in L PROVE n <= m
  <2>1. m \in Nat /\ n \in Nat
    BY <1>2
  <2>2. ~ (m < n)
    BY <1>4, <1>5, <2>1, Zenon
  <2> QED
    BY <2>1, <2>2
<1>7. \E n_1 \in L : \A m \in L : n_1 <= m
  BY <1>6
<1>8. Min(L) \in L
  BY <1>7 DEF Min
<1> QED
  BY <1>1, <1>8 DEF InFlight, L

LEMMA InitOrderly == PhoneInit => Orderly
<1> SUFFICES ASSUME PhoneInit PROVE Orderly
  OBVIOUS
<1>1. /\ Held(queue) = {} /\ drain = NoDrain /\ NoDrain.sent = {} /\ landed = <<>>
      /\ \A h \in Hands : edit[h] = NoEdit
  BY DEF PhoneInit, Held, Absent, NoDrain
<1>2. InFlight = {}
  BY DEF PhoneInit, InFlight, Free
<1>3. DOMAIN landed = {} /\ Performed = {}
  BY <1>1 DEF Performed
<1> QED
  BY <1>1, <1>2, <1>3, NothingRead DEF Orderly, Known, InTheOrderDecided

\* What is owed is in the store.
LEMMA OwedIsHeld ==
  ASSUME Safe
  PROVE Owed \subseteq Held(queue)
BY DEF Safe, Accounted, Owed, Lacks, Held

\* A step that performs nothing: what it makes is new, what it gives up or
\* wipes is owed no longer, and what it sends has nothing of its line before it.
LEMMA OrderFrame ==
  ASSUME Safe, Orderly, UNCHANGED <<scenario, landed>>,
         made' \in Int, made <= made',
         gone \subseteq gone', missed \subseteq missed', pruned \subseteq pruned',
         Held(queue)' \cup Held(drain.snap)' \subseteq {o \in Ops : o <= made'},
         \A h \in Hands : Held(edit[h].snap)' \subseteq {o \in Ops : o <= made'},
         drain'.sent \cup InFlight' \subseteq Held(queue) \cup drain.sent \cup InFlight,
         \A p \in (drain'.sent \cup InFlight') \ (drain.sent \cup InFlight) : Past(p)
  PROVE Orderly'
<1>1. Performed' = Performed
  BY DEF Performed
<1>2. made \in Int /\ \A o \in Ops : o \in Int
  BY DEF Safe, PhoneTypeOK, Ops
<1>3. \A o \in Ops : o <= made => o <= made'
  BY <1>2
<1>4. \A o \in Owed' : o \in Ops /\ (o \in Owed \/ made < o)
  BY <1>1, <1>2 DEF Owed, Answered
<1>5. \A p \in drain'.sent \cup InFlight' \cup Performed' :
        Past(p) /\ p \in Ops /\ p <= made
  BY <1>1 DEF Orderly, Known
<1>6. \A o, p \in Ops : SameEntity(o, p)' <=> SameEntity(o, p)
  BY DEF SameEntity
<1>7. ASSUME NEW p \in drain'.sent \cup InFlight' \cup Performed', NEW o \in Owed', o < p
      PROVE ~ SameEntity(o, p)'
  <2>1. p \in Ops /\ p <= made /\ Past(p) /\ o \in Ops
    BY <1>4, <1>5
  <2>2. o \in Owed
    BY <1>2, <1>4, <1>7, <2>1
  <2> QED
    BY <1>6, <1>7, <2>1, <2>2 DEF Past
<1>8. Known'
  <2>1. drain'.sent \cup InFlight' \cup Performed' \subseteq {o \in Ops : o <= made'}
    BY <1>3, <1>5
  <2> QED
    BY <2>1 DEF Known
<1>9. InTheOrderDecided'
  BY DEF Orderly, InTheOrderDecided, SameEntity
<1> QED
  BY <1>7, <1>8, <1>9 DEF Orderly, Past

LEMMA BeginOrderly ==
  ASSUME Safe, Orderly, NEW h \in Hands, BeginQueue(h) \/ BeginPress(h)
  PROVE Orderly'
<1>1. PICK what, target : Begin(h, what, target)
  BY DEF BeginQueue, BeginPress
<1>2. /\ edit' = [edit EXCEPT ![h] = [what |-> what, snap |-> queue, target |-> target]]
      /\ UNCHANGED <<scenario, landed, queue, made, drain, gone, missed, pruned, request>>
  BY <1>1 DEF Begin, server, history
<1>3. \A g \in Hands : edit'[g].snap = queue \/ edit'[g].snap = edit[g].snap
  BY <1>2 DEF Safe, PhoneTypeOK
<1>4. InFlight' = InFlight
  BY <1>2 DEF InFlight
<1>5. made \in Int /\ made <= made
  BY DEF Safe, PhoneTypeOK, Ops
<1>6. \A g \in Hands : Held(edit[g].snap)' = Held(queue) \/ Held(edit[g].snap)' = Held(edit[g].snap)
  BY <1>3 DEF Held
<1>7. Held(queue)' = Held(queue) /\ Held(drain.snap)' = Held(drain.snap)
  BY <1>2 DEF Held
<1> QED
  BY <1>2, <1>4, <1>5, <1>6, <1>7, OrderFrame DEF Orderly, Known

\* A tap writes what it has read, without what it drops and with what is new.
LEMMA WriteOfEditOrderly ==
  ASSUME Safe, Orderly, NEW h \in Hands, WriteOfEdit(h)
  PROVE Orderly'
<1>1. PICK q, dropped : WriteEdit(h, q, dropped) /\ TapWrites(h, q, dropped)
  BY TapsWrite
<1>2. /\ queue' = q /\ edit' = [edit EXCEPT ![h] = NoEdit]
      /\ UNCHANGED <<drain, request, landed, pruned, scenario>>
      /\ gone \subseteq gone' /\ missed \subseteq missed'
  BY <1>1 DEF WriteEdit, server
<1>3. /\ Held(q) \subseteq Held(edit[h].snap) \cup {o \in Ops : made < o /\ o <= made'}
      /\ made' \in Ops \cup {0} /\ made <= made'
  BY <1>1 DEF TapWrites
<1>4. made \in Int /\ made' \in Int /\ \A o \in Ops : o \in Int /\ (o <= made => o <= made')
  BY <1>3 DEF Safe, PhoneTypeOK, Ops
<1>5. \A g \in Hands : Held(edit[g].snap)' = {} \/ Held(edit[g].snap)' = Held(edit[g].snap)
  <2>1. \A g \in Hands : edit'[g] = NoEdit \/ edit'[g] = edit[g]
    BY <1>2 DEF Safe, PhoneTypeOK
  <2> QED
    BY <2>1, NothingRead DEF Held
<1>6. /\ Held(queue)' = Held(q) /\ Held(drain.snap)' = Held(drain.snap) /\ InFlight' = InFlight
  BY <1>2 DEF Held, InFlight
<1>7. /\ Held(queue)' \cup Held(drain.snap)' \subseteq {o \in Ops : o <= made'}
      /\ \A g \in Hands : Held(edit[g].snap)' \subseteq {o \in Ops : o <= made'}
  BY <1>3, <1>4, <1>5, <1>6 DEF Orderly, Known
<1> QED
  BY <1>2, <1>3, <1>4, <1>6, <1>7, OrderFrame

\* What a drain picks has nothing of its line before it in the store.
LEMMA DrainStartOrderly ==
  ASSUME Safe, Orderly, NEW waiting, DrainStart(waiting)
  PROVE Orderly'
<1>1. /\ drain'.snap = queue /\ drain'.sent = ReadyToSend(queue, waiting)
      /\ UNCHANGED <<scenario, landed, queue, made, edit, gone, missed, pruned, request>>
  BY DEF DrainStart, NoDrain, server, history
<1>2. /\ Held(queue)' = Held(queue) /\ Held(drain.snap)' = Held(queue) /\ InFlight' = InFlight
      /\ \A h \in Hands : Held(edit[h].snap)' = Held(edit[h].snap)
  BY <1>1 DEF Held, InFlight
<1>3. drain'.sent \subseteq Held(queue) /\ \A p \in drain'.sent : Past(p)
  BY <1>1, OwedIsHeld DEF ReadyToSend, Held, Past
<1>4. made \in Int /\ made <= made
  BY DEF Safe, PhoneTypeOK, Ops
<1> QED
  BY <1>1, <1>2, <1>3, <1>4, OrderFrame DEF Orderly, Known

\* A drain's write, and whatever else sends nothing but what the drain picked
\* and reads nothing new.
LEMMA DrainOrderly ==
  ASSUME Safe, Orderly,
         UNCHANGED <<scenario, landed, made>>,
         gone \subseteq gone', missed \subseteq missed', pruned \subseteq pruned',
         Held(queue)' \subseteq Held(queue) \cup Held(drain.snap) \cup drain.sent,
         Held(drain.snap)' \subseteq Held(drain.snap),
         \A h \in Hands : Held(edit[h].snap)' \subseteq Held(edit[h].snap),
         drain'.sent \subseteq drain.sent, InFlight' \subseteq InFlight \cup drain.sent
  PROVE Orderly'
<1>1. made \in Int /\ made <= made
  BY DEF Safe, PhoneTypeOK, Ops
<1>2. /\ Held(queue)' \cup Held(drain.snap)' \subseteq {o \in Ops : o <= made'}
      /\ \A h \in Hands : Held(edit[h].snap)' \subseteq {o \in Ops : o <= made'}
  BY DEF Orderly, Known
<1> QED
  BY <1>1, <1>2, OrderFrame

LEMMA DrainSendOrderly ==
  ASSUME Safe, Orderly, DrainSend
  PROVE Orderly'
<1>1. drain \in Drains /\ request \in Requests
  BY DEF Safe, PhoneTypeOK, Drains, Requests
<1>2. /\ UNCHANGED <<scenario, landed, made, edit, gone, pruned>>
      /\ missed \subseteq missed' /\ queue' \in {queue, Marked}
      /\ \/ drain' = [drain EXCEPT !.at = "wait"]
         \/ \E s \in Slots : drain' = [drain EXCEPT !.at = "wait", !.slot = s]
      /\ \/ request' = request
         \/ \E s \in Slots, at \in {"malformed", "look"} :
              request' = [request EXCEPT ![s] = [at |-> at, left |-> drain.sent]]
  BY DEF DrainSend
<1>3. drain'.snap = drain.snap /\ drain'.sent = drain.sent
  BY <1>1, <1>2 DEF Drains
<1>4. InFlight' \subseteq InFlight \cup drain.sent
  <2>1. \A t \in Slots : request'[t].left \subseteq request[t].left \cup drain.sent
    <3>1. CASE request' = request
      BY <3>1
    <3>2. ASSUME NEW s \in Slots, NEW at \in {"malformed", "look"},
                 request' = [request EXCEPT ![s] = [at |-> at, left |-> drain.sent]]
          PROVE \A t \in Slots : request'[t].left \subseteq request[t].left \cup drain.sent
      BY <1>1, <3>2 DEF Requests
    <3> QED
      BY <1>2, <3>1, <3>2
  <2> QED
    BY <2>1 DEF InFlight
<1>5. Held(queue)' \subseteq Held(queue) \cup Held(drain.snap) \cup drain.sent
  BY <1>2 DEF Held, Marked
<1>6. /\ Held(drain.snap)' = Held(drain.snap)
      /\ \A h \in Hands : Held(edit[h].snap)' = Held(edit[h].snap)
  BY <1>2, <1>3 DEF Held
<1> QED
  BY <1>2, <1>3, <1>4, <1>5, <1>6, DrainOrderly

\* The end of a drain, whatever it writes or leaves unwritten.
LEMMA DrainEndsOrderly ==
  ASSUME Safe, Orderly, drain' = NoDrain,
         UNCHANGED <<scenario, landed, made, gone, pruned>>, missed \subseteq missed',
         Held(queue)' \subseteq Held(queue) \cup Held(drain.snap) \cup drain.sent,
         edit' = edit \/ edit' = [h \in Hands |-> NoEdit],
         request' = request \/ \E s : request' = [request EXCEPT ![s] = Free]
  PROVE Orderly'
<1>1. \A t \in Slots : request'[t].left \subseteq request[t].left
  BY DEF Safe, PhoneTypeOK, Free
<1>2. InFlight' \subseteq InFlight
  BY <1>1 DEF InFlight
<1>3. drain'.sent = {} /\ Held(drain.snap)' = {}
  BY NothingRead DEF NoDrain, Held
<1>4. \A h \in Hands : Held(edit[h].snap)' \subseteq Held(edit[h].snap)
  BY NothingRead DEF Held
<1> QED
  BY <1>2, <1>3, <1>4, DrainOrderly

LEMMA EndOfDrainOrderly ==
  ASSUME Safe, Orderly, EndOfDrain
  PROVE Orderly'
<1>1. ASSUME NEW outcome, WriteOutcome(outcome) 
      PROVE /\ drain' = NoDrain /\ edit' = edit /\ missed \subseteq missed'
            /\ UNCHANGED <<scenario, landed, made, gone, pruned>>
            /\ Held(queue)' \subseteq Held(queue) \cup Held(drain.snap) \cup drain.sent
  <2>1. /\ queue' = [o \in Ops |-> IF o \in drain.sent THEN outcome[o] ELSE drain.snap[o]]
        /\ drain' = NoDrain /\ missed \subseteq missed'
        /\ UNCHANGED <<made, edit, landed, pruned, scenario, gone>>
    BY <1>1 DEF WriteOutcome
  <2>2. Held(queue)' \subseteq Held(drain.snap) \cup drain.sent
    BY <2>1 DEF Held
  <2> QED
    BY <2>1, <2>2
<1>2. CASE DrainAnswered \/ DrainFails \/ DrainRefused
  <2>1. \E outcome : WriteOutcome(outcome)
    BY <1>2 DEF DrainAnswered, DrainFails, DrainRefused
  <2>2. request' = request \/ request' = [request EXCEPT ![drain.slot] = Free]
    BY <1>2 DEF DrainAnswered, DrainFails, DrainRefused
  <2> QED
    BY <1>1, <2>1, <2>2, DrainEndsOrderly
<1>3. CASE DrainUnreadable
  <2>1. /\ drain' = NoDrain
        /\ UNCHANGED <<queue, made, edit, landed, pruned, scenario, gone, missed>>
        /\ request' = request \/ request' = [request EXCEPT ![drain.slot] = Free]
    BY <1>3 DEF DrainUnreadable
  <2>2. Held(queue)' = Held(queue)
    BY <2>1 DEF Held
  <2> QED
    BY <2>1, <2>2, DrainEndsOrderly
<1> QED
  BY <1>2, <1>3 DEF EndOfDrain

LEMMA KillOrderly ==
  ASSUME Safe, Orderly, Kill
  PROVE Orderly'
<1>1. /\ edit' = [h \in Hands |-> NoEdit] /\ drain' = NoDrain
      /\ UNCHANGED <<queue, made, request, landed, pruned, scenario, gone, missed>>
  BY DEF Kill, server
<1>2. Held(queue)' = Held(queue)
  BY <1>1 DEF Held
<1> QED
  BY <1>1, <1>2, DrainEndsOrderly

\* A step of the server, or of the badge, that performs nothing.
LEMMA OrderlyFrame ==
  ASSUME Safe, Orderly,
         UNCHANGED <<scenario, landed, queue, made, edit, gone, missed, drain.snap, drain.sent>>,
         pruned \subseteq pruned', InFlight' \subseteq InFlight
  PROVE Orderly'
<1>1. /\ Held(queue)' = Held(queue) /\ Held(drain.snap)' = Held(drain.snap)
      /\ \A h \in Hands : Held(edit[h].snap)' = Held(edit[h].snap)
  BY DEF Held
<1> QED
  BY <1>1, DrainOrderly

LEMMA PassedInFlight ==
  ASSUME Safe, NEW s \in Slots, NEW o \in Ops, NEW verdict, Passed(s, o, verdict)
  PROVE InFlight' \subseteq InFlight
<1>1. \A t \in Slots : request'[t].left \subseteq request[t].left
  BY DEF Safe, PhoneTypeOK, Passed, Free
<1> QED
  BY <1>1 DEF InFlight

\* The operation o is performed: what was in flight has nothing owed before
\* it, so if a later one of its line was performed already, o was given up,
\* wiped, or performed before and its key pruned.
LEMMA RunOnceOrderly ==
  ASSUME Safe, Orderly, NEW s \in Slots, NEW o \in Ops, RunOnce(s, o)
  PROVE Orderly'
<1>1. /\ Turn(s, o)
      /\ landed' = (IF o \in keys THEN landed ELSE Append(landed, o))
      /\ UNCHANGED <<queue, made, edit, scenario, gone, missed, pruned>>
  BY DEF RunOnce, history
<1> PICK verdict \in {"ok", "refused"} : Passed(s, o, verdict)
  BY DEF RunOnce
<1>2. /\ InFlight' \subseteq InFlight
      /\ UNCHANGED <<drain.snap, drain.sent>>
  BY PassedInFlight, PassedTypes
<1>3. CASE o \in keys
  BY <1>1, <1>2, <1>3, OrderlyFrame
<1>4. CASE o \notin keys
  <2>1. landed' = Append(landed, o) /\ landed \in Seq(Ops)
    BY <1>1, <1>4 DEF Safe, PhoneTypeOK
  <2>2. Performed' = Performed \cup {o}
    BY <2>1, TimesAppend
  <2>3. o \in InFlight
    BY <1>1, TurnIsLeft DEF Safe
  <2>4. Owed' \subseteq Owed /\ Owed \subseteq Ops
    BY <1>1, <2>2 DEF Owed, Answered
  <2>5. /\ Held(queue)' = Held(queue) /\ Held(drain.snap)' = Held(drain.snap)
        /\ \A h \in Hands : Held(edit[h].snap)' = Held(edit[h].snap)
    BY <1>1, <1>2 DEF Held
  <2>6. \A p, r \in Ops : SameEntity(p, r)' <=> SameEntity(p, r)
    BY <1>1 DEF SameEntity
  <2>7. \A p \in drain'.sent \cup InFlight' \cup Performed' : p \in Ops /\ p <= made /\ Past(p)
    BY <1>2, <2>2, <2>3 DEF Orderly, Known
  <2>8. \A p \in drain'.sent \cup InFlight' \cup Performed' : Past(p)'
    BY <2>4, <2>6, <2>7 DEF Past
  <2>9. Known'
    BY <1>1, <2>5, <2>7 DEF Orderly, Known
  <2>10. InTheOrderDecided'
    <3>1. /\ DOMAIN landed = 1 .. Len(landed) /\ DOMAIN landed' = 1 .. Len(landed) + 1
          /\ Len(landed) \in Nat
          /\ \A i \in 1 .. Len(landed) : landed'[i] = landed[i]
          /\ landed'[Len(landed) + 1] = o
      BY <2>1, AppendProperties, LenProperties
    <3> SUFFICES ASSUME NEW i \in DOMAIN landed', NEW j \in DOMAIN landed', i < j,
                        SameEntity(landed'[i], landed'[j]), landed'[i] > landed'[j]
                 PROVE landed'[j] \in gone \cup missed \cup pruned
      BY <1>1 DEF InTheOrderDecided, SameEntity
    <3>2. i \in DOMAIN landed /\ landed'[i] = landed[i]
      BY <3>1
    <3>3. CASE j \in DOMAIN landed
      <4>1. landed'[j] = landed[j]
        BY <3>1, <3>3
      <4> QED
        BY <1>1, <3>2, <3>3, <4>1 DEF Orderly, InTheOrderDecided, SameEntity
    <3>4. CASE j \notin DOMAIN landed
      <4> DEFINE p == landed[i]
      <4>1. landed'[j] = o
        BY <3>1, <3>4
      <4>2. p \in Performed
        BY <2>1, <3>2 DEF Performed
      <4>3. Past(p) /\ p \in Ops /\ o <= made
        BY <2>3, <4>2 DEF Orderly, Known
      <4>4. o < p /\ SameEntity(o, p)
        <5>1. p > o /\ SameEntity(p, o)
          BY <3>2, <4>1
        <5> QED
          BY <4>3, <5>1 DEF SameEntity, Ops
      <4>5. o \notin Owed
        BY <4>3, <4>4 DEF Past
      <4>6. o \in Answered
        BY <4>3, <4>5 DEF Owed
      <4>7. o \in Performed => o \in pruned
        BY <1>4 DEF Safe, Keyed
      <4> QED
        BY <4>1, <4>6, <4>7 DEF Answered
    <3> QED
      BY <3>3, <3>4
  <2> QED
    BY <2>8, <2>9, <2>10 DEF Orderly
<1> QED
  BY <1>3, <1>4

LEMMA ServeOrderly ==
  ASSUME Safe, Orderly, NEW s \in Slots, Serve(s) \/ LoseRequest(s)
  PROVE Orderly'
<1>1. ASSUME NEW o \in Ops, LookUp(s, o) PROVE Orderly'
  <2>1. UNCHANGED <<scenario, landed, queue, made, edit, gone, missed, pruned>>
    BY <1>1 DEF LookUp, history
  <2>2. CASE o \in keys
    <3>1. Passed(s, o, "ok")
      BY <1>1, <2>2 DEF LookUp
    <3>2. /\ InFlight' \subseteq InFlight
          /\ UNCHANGED <<drain.snap, drain.sent>>
      BY <3>1, PassedInFlight, PassedTypes
    <3> QED
      BY <2>1, <3>2, OrderlyFrame
  <2>3. CASE o \notin keys
    <3>1. request' = [request EXCEPT ![s].at = "run"] /\ drain' = drain
      BY <1>1, <2>3 DEF LookUp
    <3>2. InFlight' \subseteq InFlight
      BY <3>1 DEF Safe, PhoneTypeOK, InFlight
    <3> QED
      BY <2>1, <3>1, <3>2, OrderlyFrame
  <2> QED
    BY <2>2, <2>3
<1>2. ASSUME NEW o \in Ops, RefuseOperation(s, o) PROVE Orderly'
  <2>1. Passed(s, o, "refused")
        /\ UNCHANGED <<scenario, landed, queue, made, edit, gone, missed, pruned>>
    BY <1>2 DEF RefuseOperation, history
  <2>2. /\ InFlight' \subseteq InFlight
        /\ UNCHANGED <<drain.snap, drain.sent>>
    BY <2>1, PassedInFlight, PassedTypes
  <2> QED
    BY <2>1, <2>2, OrderlyFrame
<1>3. CASE LoseRequest(s)
  <2>1. /\ request' = [request EXCEPT ![s] = Free]
        /\ UNCHANGED <<scenario, landed, queue, made, edit, drain, gone, missed, pruned>>
    BY <1>3 DEF LoseRequest, phone, history
  <2>2. InFlight' \subseteq InFlight
    <3>1. \A t \in Slots : request'[t].left \subseteq request[t].left
      BY <2>1 DEF Safe, PhoneTypeOK, Free
    <3> QED
      BY <3>1 DEF InFlight
  <2> QED
    BY <2>1, <2>2, OrderlyFrame
<1> QED
  BY <1>1, <1>2, <1>3, RunOnceOrderly DEF Serve

LEMMA NextOrderly == Safe /\ Orderly /\ [PhoneNext]_vars => Orderly'
<1> SUFFICES ASSUME Safe, Orderly, [PhoneNext]_vars PROVE Orderly'
  OBVIOUS
<1>1. ASSUME NEW h \in Hands, BeginQueue(h) \/ BeginPress(h) PROVE Orderly'
  BY <1>1, BeginOrderly
<1>2. ASSUME NEW h \in Hands, WriteOfEdit(h) PROVE Orderly'
  BY <1>2, WriteOfEditOrderly
<1>3. ASSUME NEW waiting, DrainStart(waiting) PROVE Orderly'
  BY <1>3, DrainStartOrderly
<1>4. CASE DrainSend
  BY <1>4, DrainSendOrderly
<1>5. CASE EndOfDrain
  BY <1>5, EndOfDrainOrderly
<1>6. CASE Kill
  BY <1>6, KillOrderly
<1>7. ASSUME NEW s \in Slots, Serve(s) \/ LoseRequest(s) PROVE Orderly'
  BY <1>7, ServeOrderly
<1>8. ASSUME NEW o \in Ops, PruneKey(o) PROVE Orderly'
  <2>1. /\ UNCHANGED <<scenario, landed, queue, made, edit, drain, gone, missed, request>>
        /\ pruned \subseteq pruned'
    BY <1>8 DEF PruneKey, phone, history
  <2> QED
    BY <2>1, OrderlyFrame DEF InFlight
<1>9. CASE Refresh \/ UNCHANGED vars
  <2>1. UNCHANGED <<scenario, landed, queue, made, edit, drain, gone, missed, request, pruned>>
    BY <1>9 DEF Refresh, vars, phone, server, history
  <2> QED
    BY <2>1, OrderlyFrame DEF InFlight
<1> QED
  BY <1>1, <1>2, <1>3, <1>4, <1>5, <1>6, <1>7, <1>8, <1>9 DEF PhoneNext

-----------------------------------------------------------------------------
(* The theorems.                                                            *)

LEMMA NextSafe == Safe /\ [PhoneNext]_vars => Safe'
<1> SUFFICES ASSUME Safe, [PhoneNext]_vars PROVE Safe'
  OBVIOUS
<1>1. ASSUME NEW h \in Hands, BeginQueue(h) \/ BeginPress(h) PROVE Safe'
  BY <1>1, BeginTapSafe
<1>2. ASSUME NEW h \in Hands, WriteOfEdit(h) PROVE Safe'
  BY <1>2, WriteOfEditSafe
<1>10. CASE Refresh
  BY <1>10, RefreshSafe
<1>3. ASSUME NEW waiting, DrainStart(waiting) PROVE Safe'
  BY <1>3, DrainStartSafe
<1>4. CASE DrainSend
  BY <1>4, DrainSendSafe
<1>5. CASE EndOfDrain
  BY <1>5, DrainAnsweredSafe, DrainFailsSafe, DrainUnreadableSafe DEF EndOfDrain
<1>6. CASE Kill
  BY <1>6, KillSafe
<1>7. ASSUME NEW s \in Slots, Serve(s) \/ LoseRequest(s) PROVE Safe'
  BY <1>7, LookUpSafe, RunOnceSafe, RefuseOperationSafe, LoseRequestSafe DEF Serve
<1>8. ASSUME NEW o \in Ops, PruneKey(o) PROVE Safe'
  BY <1>8, PruneKeySafe
<1>9. CASE UNCHANGED vars
  <2>1. UNCHANGED <<landed, keys, pruned>> /\ PhoneTypeOK /\ Copies /\ Keyed /\ Accounted
    BY <1>9 DEF vars, server, Safe
  <2>2. Keyed' /\ Performed' = Performed
    BY <2>1, ServerFrame
  <2>3. PhoneTypeOK'
    BY <1>9, <2>1 DEF PhoneTypeOK, vars, phone, server, history
  <2>4. Copies'
    BY <1>9, <2>1 DEF Copies, Waits, vars, phone
  <2>5. Accounted'
    BY <1>9, <2>1, <2>2 DEF Accounted, Lacks, Answered, vars, phone, server, history
  <2> QED
    BY <2>2, <2>3, <2>4, <2>5 DEF Safe
<1> QED
  BY <1>1, <1>2, <1>3, <1>4, <1>5, <1>6, <1>7, <1>8, <1>9, <1>10 DEF PhoneNext

LEMMA SafetyHolds == PhoneSpec => []Safe
BY InitSafe, NextSafe, PTL DEF PhoneSpec

\* The store, the copies of it that taps and drains have read, the requests and
\* the keys stay in their types; no entry counts more attempts than MAX_ATTEMPTS.
THEOREM TypeCorrect == PhoneSpec => []PhoneTypeOK
<1>1. Safe => PhoneTypeOK
  BY DEF Safe
<1> QED
  BY <1>1, SafetyHolds, PTL

\* runOnce(): however many requests carry an operation, and however often the
\* phone sends it again, it is performed once while its key is kept.
THEOREM PerformedOnce == PhoneSpec => []AtMostOnce
<1>1. Safe => AtMostOnce
  BY DEF Safe, Keyed, AtMostOnce
<1> QED
  BY <1>1, SafetyHolds, PTL

\* However many taps and drains read and write the store at once, an entry
\* leaves it only when the server has performed it, a later decision replaced
\* it, the person abandoned it, or a write wiped it whose writer had read the
\* store before the entry was there.
THEOREM NothingElseIsLost == PhoneSpec => []LeavesOnlyWhenDone
<1>1. Safe => LeavesOnlyWhenDone
  <2> SUFFICES ASSUME Safe, NEW o \in Ops, o <= made, o \notin Held(queue)
               PROVE Times(o) > 0 \/ o \in gone \cup missed
    BY DEF LeavesOnlyWhenDone
  <2>1. o \in Answered
    BY DEF Safe, Accounted, Lacks, Held
  <2> QED
    BY <2>1, PerformedTimes DEF Answered, Safe, PhoneTypeOK
<1> QED
  BY <1>1, SafetyHolds, PTL

\* drainOutbox(): whatever taps, kills, timeouts and answers come between, an
\* entry marked as being sent is with the running drain, unless one that had
\* sent it ended before its last write (the app's death, an answer that is no
\* JSON) or a tap wrote back the mark it had read before a drain's write.
THEOREM MarkedIsSent == PhoneSpec => []SendingIsBeingSent
<1>1. PhoneSpec => [](Safe /\ Marks)
  BY InitSafe, NextSafe, InitMarks, NextMarks, PTL DEF PhoneSpec
<1>2. Marks => SendingIsBeingSent
  BY DEF Marks
<1> QED
  BY <1>1, <1>2, PTL

\* readyToSend() lets one entry of a line go at a time, and nothing that comes
\* after it undoes that: of two decisions on a bank line the earlier is never
\* performed after the later, but for one given up on the phone, wiped from it,
\* or repeated after its key was pruned.
THEOREM DecisionsLandInOrder == PhoneSpec => []InTheOrderDecided
<1>1. PhoneSpec => [](Safe /\ Orderly)
  BY InitSafe, NextSafe, InitOrderly, NextOrderly, PTL DEF PhoneSpec
<1>2. Orderly => InTheOrderDecided
  BY DEF Orderly
<1> QED
  BY <1>1, <1>2, PTL
=============================================================================
