--------------------------- MODULE BankLinesProofs ---------------------------
(***************************************************************************)
(* Proofs about BankLines: the entries that stand for bank lines, the      *)
(* money that is counted once, what the feed said, and the certificate of  *)
(* a completed reconciliation.                                             *)
(*                                                                         *)
(* The invariant is Kept.  A request writes without looking again at what  *)
(* it has read, so half of Kept is about what requests carry (Asked,       *)
(* Starting, Resolving); the other half relates a line to its entry (EntryStands,     *)
(* PairsHold), to the feed's log (Heard) and to its reconciliation         *)
(* (Certificate).                                                          *)
(***************************************************************************)
EXTENDS BankLines, FiniteSetTheorems, SequenceTheorems, Sums, TLAPS

Deciding == {"categorize", "split", "exclude", "accept", "transfer", "rule"}

Befores == UNION {[ls -> Snapshots] : ls \in SUBSET Lines}

Event == [by : People, before : Befores, undone : BOOLEAN, at : 1 .. MaxEvents]

\* The legs a transfer is asked for: one, or two of which the money leaves one.
Legs(on, other) ==
  \/ other = None
  \/ \E l, m \in Lines : /\ l # m /\ on = {l, m} /\ other = m
                         /\ (m \in Outgoing) # (l \in Outgoing)

\* What a request carries.
Asked(q) ==
  /\ q.op \in Ops \cup {"none"} /\ q.on \subseteq Lines
  /\ q.other \in Lines \cup Recs \cup {None} /\ q.event \in Nat
  /\ DOMAIN q.seen = q.on /\ \A l \in q.on : q.seen[l] \in Row
  /\ q.op \in Deciding => \A l \in q.on : q.seen[l].state # "reconciled"
  /\ q.op = "rule" => \A l \in q.on : q.seen[l].state \in {"new", "suggested"}
  /\ q.op = "transfer" => Legs(q.on, q.other)
  /\ q.op \in Sessions => q.other \in Recs
  /\ q.op = "undo" => q.event # 0
  /\ q.change \in Changes \cup {NoChange}
  /\ q.op = "resolve" => q.other \in Lines /\ q.change \in Changes

Requested ==
  /\ DOMAIN request = People
  /\ \A p \in People : Asked(request[p]) /\ request[p].event <= Len(event)

Logging == event \in Seq(Event)

Rows ==
  /\ line \in [Lines -> Row]
  /\ posted \in [Lines -> [kind : {"none", "own", "pair"}, figure : Figured]]

Others ==
  /\ rec \in [Recs -> [status : {"none", "in_progress", "completed", "reopened"}, due : Int]]
  /\ revision \in [Lines -> [Changes -> {"none", "held", "applied", "dismissed"}]]
  /\ bank \in [Lines -> Figures \cup {Withdrawn}]
  /\ ruled \subseteq Lines /\ unpaired \subseteq Lines
  /\ moved \subseteq Recs /\ unsaid \subseteq Lines
  /\ scenario \in Scenarios

\* Whoever carries a pair's entry and names l is the leg that l names.
PairsHold ==
  \A l \in Lines \ unpaired, k \in Lines :
    posted[k].kind = "pair" /\ line[k].pair = l =>
      /\ k # l /\ line[l].pair = k
      /\ line[l].transfer = TRUE /\ posted[l] = NoEntry

\* What the bank said last was written down, unless it has said nothing yet.
Heard ==
  \A l \in Lines \ unsaid :
    IF bank[l] = Withdrawn
    THEN \E f \in Figures : revision[l][<<"retraction", f>>] # "none"
    ELSE \/ revision[l][<<"revision", bank[l]>>] # "none"
         \/ line[l].figure = bank[l] /\ \A c \in Changes : revision[l][c] = "none"

\* A session that is being started is nobody else's business.
Starting ==
  \A p \in People : request[p].op = "start" =>
    /\ rec[request[p].other].status = "none"
    /\ \A q \in People \ {p} :
         request[q].op \in Sessions => request[q].other # request[p].other

\* What is completed, or about to be, adds up, unless lines were moved.
Certificate == \A r \in Recs : Certified(r) => Balanced(r) \/ r \in moved

\* What a person is about to settle was written down, and stays so.
Resolving ==
  \A p \in People : request[p].op = "resolve" =>
    revision[request[p].other][request[p].change] # "none"

Kept ==
  /\ Rows /\ Requested /\ Logging /\ Others
  /\ EntryStands /\ PairsHold /\ Heard /\ Starting /\ Certificate /\ Resolving

-----------------------------------------------------------------------------
(* Requests.                                                                *)

(* Nobody who has no request has anything to remember.                       *)
LEMMA NoRequestIs ==
  /\ NoRequest.op = "none" /\ NoRequest.on = {} /\ NoRequest.other = None
  /\ NoRequest.event = 0 /\ DOMAIN NoRequest.seen = {} /\ NoRequest.change = NoChange
  /\ Asked(NoRequest)
<1>1. /\ NoRequest.op = "none" /\ NoRequest.on = {} /\ NoRequest.other = None
      /\ NoRequest.event = 0 /\ NoRequest.seen = <<>> /\ NoRequest.change = NoChange
  BY DEF NoRequest
<1>2. DOMAIN NoRequest.seen = {}
  BY <1>1
<1>3. Asked(NoRequest)
  BY <1>1, <1>2 DEF Asked, Deciding, Sessions
<1> QED
  BY <1>1, <1>2, <1>3

\* The request a Read makes.
Asking(op, ls, other, seen) ==
  [NoRequest EXCEPT !.op = op, !.on = ls, !.other = other, !.seen = seen]

LEMMA AskingIs ==
  ASSUME NEW op, NEW ls, NEW other, NEW seen
  PROVE  /\ Asking(op, ls, other, seen).op = op
         /\ Asking(op, ls, other, seen).on = ls
         /\ Asking(op, ls, other, seen).other = other
         /\ Asking(op, ls, other, seen).seen = seen
         /\ Asking(op, ls, other, seen).event = 0
         /\ Asking(op, ls, other, seen).change = NoChange
<1> DEFINE R == [op : {"none", op}, on : {{}, ls}, other : {None, other},
                 seen : {<<>>, seen}, event : {0}, change : {NoChange}]
           a == [NoRequest EXCEPT !.op = op]
           b == [a EXCEPT !.on = ls]
           c == [b EXCEPT !.other = other]
           d == [c EXCEPT !.seen = seen]
<1>1. NoRequest \in R
  BY DEF NoRequest
<1>2. a \in R /\ a.op = op
  BY <1>1
<1>3. Asking(op, ls, other, seen) = d
  BY DEF Asking
<1> HIDE DEF a
<1>4. b \in R /\ b.op = op /\ b.on = ls
  BY <1>2
<1> HIDE DEF b
<1>5. c \in R /\ c.op = op /\ c.on = ls /\ c.other = other
  BY <1>4
<1> HIDE DEF c
<1>6. d \in R /\ d.op = op /\ d.on = ls /\ d.other = other /\ d.seen = seen
  BY <1>5
<1> HIDE DEF d
<1> QED
  BY <1>3, <1>6

\* The amounts as a function.
Amounts == [l \in Lines |-> Signed(l)]

(* A session's lines add up to its statement when the sum of their amounts   *)
(* is what is due; now and after a step.                                     *)
LEMMA BalanceIs ==
  ASSUME NEW r
  PROVE  /\ Balanced(r) <=> SumOver(Amounts, Cleared(r)) = rec[r].due
         /\ (Balanced(r) <=> SumOver(Amounts, Cleared(r)) = rec[r].due)'
<1>1. Balanced(r) <=> SumOver(Amounts, Cleared(r)) = rec[r].due
  <2>1. Cleared(r) \subseteq Lines
    BY DEF Cleared
  <2>2. MapThenSumSet(Signed, Cleared(r)) = SumOver(Amounts, Cleared(r))
    BY <2>1 DEF MapThenSumSet, MapThenFoldSet, SumOver, SumIter, SumStep, Pick, Amounts
  <2> QED
    BY <2>2 DEF Balanced
<1>2. (Balanced(r) <=> SumOver(Amounts, Cleared(r)) = rec[r].due)'
  BY <1>1, PTL
<1> QED
  BY <1>1, <1>2

(* So it depends on which lines they are and on their figures only.          *)
LEMMA BalanceStays ==
  ASSUME NEW r, Cleared(r)' = Cleared(r), rec'[r].due = rec[r].due,
         \A l \in Cleared(r) : line'[l].figure = line[l].figure
  PROVE  Balanced(r)' <=> Balanced(r)
<1>1. PICK S, f, g : S = Cleared(r) /\ f = Amounts /\ g = Amounts'
  OBVIOUS
<1>2. \A l \in S : f[l] = g[l]
  BY <1>1 DEF Amounts, Signed, Cleared
<1>3. SumOver(f, S) = SumOver(g, S)
  BY <1>2, SumCongruence
<1>4. (Balanced(r) <=> SumOver(f, S) = rec[r].due) /\ (Balanced(r)' <=> SumOver(g, S) = rec'[r].due)
  <2>1. /\ Balanced(r) <=> SumOver(Amounts, Cleared(r)) = rec[r].due
        /\ (Balanced(r) <=> SumOver(Amounts, Cleared(r)) = rec[r].due)'
    BY BalanceIs
  <2> QED
    BY <1>1, <2>1 DEF SumOver, SumIter, SumStep
<1> QED
  BY <1>3, <1>4

(* A request is made, or given up: only that changes.                        *)
LEMMA Requests ==
  ASSUME Kept, NEW p \in People, NEW q, request' = [request EXCEPT ![p] = q],
         UNCHANGED <<scenario, line, posted, rec, revision, bank, event, history>>,
         Asked(q), q.event <= Len(event),
         q.op = "complete" => Balanced(q.other),
         q.op = "start" => /\ rec[q.other].status = "none"
                           /\ \A t \in People : request[t].other # q.other,
         q.op \in Sessions \ {"start"} => rec[q.other].status # "none",
         q.op = "resolve" => revision[q.other][q.change] # "none"
  PROVE  Kept'
<1> USE DEF history
<1>1. request'[p] = q /\ \A t \in People \ {p} : request'[t] = request[t]
  BY DEF Kept, Requested
<1>2. Requested'
  BY <1>1 DEF Kept, Requested, Asked
<1>3. Rows' /\ Logging' /\ Others'
  BY DEF Kept, Rows, Logging, Others
<1>4. EntryStands' /\ PairsHold'
  BY DEF Kept, EntryStands, PairsHold
<1>5. Heard'
  BY DEF Kept, Heard
<1>6. Starting'
  <2> SUFFICES ASSUME NEW t \in People, request'[t].op = "start"
               PROVE  /\ rec[request'[t].other].status = "none"
                      /\ \A u \in People \ {t} : request'[u].op \in Sessions =>
                           request'[u].other # request'[t].other
    BY DEF Starting
  <2>1. CASE t = p
    BY <1>1, <2>1
  <2>2. CASE t # p
    <3>1. /\ rec[request[t].other].status = "none"
          /\ \A u \in People \ {t} : request[u].op \in Sessions =>
               request[u].other # request[t].other
      BY <1>1, <2>2 DEF Kept, Starting
    <3>2. q.op \in Sessions => q.other # request[t].other
      BY <3>1
    <3> QED
      BY <1>1, <2>2, <3>1, <3>2
  <2> QED
    BY <2>1, <2>2
<1>7. Certificate'
  <2> SUFFICES ASSUME NEW r \in Recs, Certified(r)' PROVE Balanced(r)' \/ r \in moved'
    BY DEF Certificate
  <2>1. Balanced(r)' <=> Balanced(r)
    BY BalanceStays DEF Cleared
  <2>2. Certified(r) \/ (q.op = "complete" /\ q.other = r)
    BY <1>1 DEF Certified
  <2> QED
    BY <2>1, <2>2 DEF Kept, Certificate
<1>8. Resolving'
  BY <1>1 DEF Kept, Resolving
<1> QED
  BY <1>2, <1>3, <1>4, <1>5, <1>6, <1>7, <1>8 DEF Kept

(* A request that reads its lines: what it has seen is what is there.        *)
LEMMA Reading ==
  ASSUME Kept, NEW p \in People, NEW op \in Ops, op \notin {"undo", "resolve"}, NEW ls \in SUBSET Lines,
         NEW other \in Lines \cup Recs \cup {None}, Read(p, op, ls, other),
         op \in Deciding => \A l \in ls : line[l].state # "reconciled",
         op = "rule" => \A l \in ls : line[l].state \in {"new", "suggested"},
         op = "transfer" => Legs(ls, other),
         op \in Sessions => other \in Recs,
         op = "complete" => Balanced(other),
         op = "start" => /\ rec[other].status = "none"
                         /\ \A t \in People : request[t].other # other,
         op \in Sessions \ {"start"} => rec[other].status # "none"
  PROVE  Kept'
<1>1. PICK seen : seen = [l \in ls |-> line[l]]
  OBVIOUS
<1>2. PICK q : q = Asking(op, ls, other, seen)
  OBVIOUS
<1>3. q.op = op /\ q.on = ls /\ q.other = other /\ q.seen = seen /\ q.event = 0
        /\ q.change = NoChange
  BY <1>2, AskingIs
<1>4. request' = [request EXCEPT ![p] = q]
  BY <1>1, <1>2 DEF Read, Asking
<1>5. DOMAIN seen = ls /\ \A l \in ls : seen[l] = line[l] /\ seen[l] \in Row
  BY <1>1 DEF Kept, Rows
<1>6. Asked(q)
  BY <1>3, <1>5 DEF Asked
<1>7. q.event <= Len(event)
  BY <1>3, LenProperties DEF Kept, Logging
<1>8. q.op = "complete" => Balanced(q.other)
  BY <1>3, Zenon
<1> QED
  BY <1>3, <1>4, <1>6, <1>7, <1>8, Requests DEF Read

LEMMA KeptBegin ==
  ASSUME Kept, NEW p \in People, Begin(p)
  PROVE  Kept'
<1> USE BankAssumption DEF Deciding, Sessions, Ops, Edits
<1>1. ASSUME NEW ls \in SUBSET Lines, BeginCategorize(p, ls) \/ BeginRule(p, ls)
      PROVE  Kept'
  <2>1. CASE BeginCategorize(p, ls)
    BY <1>1, <2>1, Reading DEF BeginCategorize, Editable
  <2>2. CASE BeginRule(p, ls)
    BY <1>1, <2>2, Reading DEF BeginRule
  <2> QED
    BY <1>1, <2>1, <2>2
<1>2. ASSUME NEW l \in Lines,
             BeginSplit(p, l) \/ BeginExclude(p, l) \/ BeginAccept(p, l) \/ BeginNote(p, l)
      PROVE  Kept'
  <2>1. CASE BeginSplit(p, l)
    BY <1>2, <2>1, Reading DEF BeginSplit, Editable
  <2>2. CASE BeginExclude(p, l)
    BY <1>2, <2>2, Reading DEF BeginExclude, Editable
  <2>3. CASE BeginAccept(p, l)
    BY <1>2, <2>3, Reading DEF BeginAccept
  <2>4. CASE BeginNote(p, l)
    BY <1>2, <2>4, Reading DEF BeginNote
  <2> QED
    BY <1>2, <2>1, <2>2, <2>3, <2>4
<1>3. ASSUME NEW l \in Lines, NEW m \in (Lines \ {l}) \cup {None}, BeginTransfer(p, l, m)
      PROVE  Kept'
  <2>1. PICK ls \in SUBSET Lines : ls = {l, m} \ {None}
    OBVIOUS
  <2>2. Read(p, "transfer", ls, m) /\ \A k \in ls : line[k].state # "reconciled"
    BY <1>3, <2>1 DEF BeginTransfer, Editable
  <2>3. Legs(ls, m)
    BY <1>3, <2>1 DEF Legs, BeginTransfer
  <2> QED
    BY <1>3, <2>2, <2>3, Reading
<1>4. ASSUME NEW i \in DOMAIN event, BeginUndo(p, i)
      PROVE  Kept'
  <2>1. PICK q : q = [NoRequest EXCEPT !.op = "undo", !.event = i]
    OBVIOUS
  <2>2. i \in Nat /\ i # 0 /\ i <= Len(event)
    BY <1>4 DEF Kept, Logging
  <2>3. /\ q.op = "undo" /\ q.on = {} /\ q.other = None /\ q.event = i
        /\ q.seen = <<>> /\ q.change = NoChange
    BY <2>1 DEF NoRequest
  <2>4. Asked(q)
    BY <2>2, <2>3 DEF Asked
  <2>5. request' = [request EXCEPT ![p] = q]
    BY <1>4, <2>1 DEF BeginUndo
  <2> QED
    BY <1>4, <2>2, <2>3, <2>4, <2>5, Requests DEF BeginUndo
<1>5. ASSUME NEW r \in Recs, BeginStart(p, r) \/ BeginComplete(p, r) \/ BeginReopen(p, r)
      PROVE  Kept'
  <2>1. CASE BeginStart(p, r)
    BY <1>5, <2>1, Reading DEF BeginStart
  <2>2. CASE BeginComplete(p, r)
    <3>1. Read(p, "complete", {}, r) /\ Balanced(r) /\ rec[r].status = "in_progress"
      BY <2>2 DEF BeginComplete
    <3> QED
      BY <1>5, <3>1, Reading
  <2>3. CASE BeginReopen(p, r)
    BY <1>5, <2>3, Reading DEF BeginReopen
  <2> QED
    BY <1>5, <2>1, <2>2, <2>3
<1>6. ASSUME NEW r \in Recs, NEW op \in {"clear", "unclear"}, NEW ls \in SUBSET Lines,
             BeginClear(p, op, ls, r)
      PROVE  Kept'
  BY <1>6, Reading DEF BeginClear
<1>7. ASSUME NEW l \in Lines, NEW change \in Changes, BeginResolve(p, l, change)
      PROVE  Kept'
  <2>1. PICK q : q = [NoRequest EXCEPT !.op = "resolve", !.other = l, !.change = change]
    OBVIOUS
  <2>2. /\ q.op = "resolve" /\ q.on = {} /\ q.other = l /\ q.event = 0
        /\ q.seen = <<>> /\ q.change = change
    BY <2>1 DEF NoRequest
  <2>3. Asked(q) /\ q.event <= Len(event)
    <3>1. Len(event) \in Nat
      BY DEF Kept, Logging
    <3> QED
      BY <2>2, <3>1 DEF Asked, FeedOps
  <2>4. /\ request' = [request EXCEPT ![p] = q] /\ revision[l][change] = "held"
        /\ UNCHANGED <<scenario, line, posted, rec, revision, bank, event, history>>
    BY <1>7, <2>1 DEF BeginResolve
  <2> QED
    BY <2>2, <2>3, <2>4, Requests
<1> QED
  BY <1>1, <1>2, <1>3, <1>4, <1>5, <1>6, <1>7 DEF Begin

LEMMA KeptGiveUp ==
  ASSUME Kept, NEW p \in People, GiveUp(p)
  PROVE  Kept'
<1>1. NoRequest.event <= Len(event)
  BY NoRequestIs, LenProperties DEF Kept, Logging
<1> QED
  BY <1>1, NoRequestIs, Requests DEF GiveUp, Sessions

-----------------------------------------------------------------------------
(* Rows, their entries and what is said of them.                            *)

(* An audited change is one event more, or as many as it has snapshots.      *)
LEMMA RecordKept ==
  ASSUME Kept, NEW p \in People, NEW befores \in Seq(Befores), Record(p, befores)
  PROVE  event' \in Seq(Event) /\ Len(event) <= Len(event')
<1> DEFINE e(i) == [by |-> p, before |-> befores[i], undone |-> FALSE, at |-> Len(event) + 1]
           more == [i \in DOMAIN befores |-> e(i)]
<1>1. event \in Seq(Event) /\ Len(event) \in Nat /\ Len(befores) \in Nat
  BY DEF Kept, Logging
<1>2. Len(event) + Len(befores) <= scenario.events /\ event' = event \o more
  BY DEF Record
<1>3. scenario.events \in 0 .. MaxEvents /\ MaxEvents \in Nat
  BY ScenarioAssumption, BankAssumption DEF Kept, Others, Scenario
<1>4. ASSUME NEW i \in DOMAIN befores PROVE e(i) \in Event
  <2>1. Len(event) + 1 \in 1 .. MaxEvents
    <3>1. 1 <= Len(befores)
      BY <1>4
    <3> QED
      BY <1>1, <1>2, <1>3, <3>1
  <2>2. befores[i] \in Befores
    BY <1>4
  <2> QED
    BY <2>1, <2>2 DEF Event
<1>5. more \in Seq(Event)
  <2>1. DOMAIN befores = 1 .. Len(befores)
    OBVIOUS
  <2>2. more \in [1 .. Len(befores) -> Event]
    <3> HIDE DEF e
    <3> QED
      BY <1>4, <2>1
  <2> QED
    BY <1>1, <2>2
<1> HIDE DEF more
<1>6. event \o more \in Seq(Event) /\ Len(event \o more) = Len(event) + Len(more) /\ Len(more) \in Nat
  BY <1>1, <1>5
<1> QED
  BY <1>1, <1>2, <1>6

(* One snapshot, one event.                                                  *)
LEMMA RecordOne ==
  ASSUME Kept, NEW p \in People, NEW before, before \in Befores, Record(p, <<before>>)
  PROVE  event' \in Seq(Event) /\ Len(event) <= Len(event')
<1>1. PICK befores \in Seq(Befores) : befores = <<before>>
  <2>1. <<before>> \in Seq(Befores)
    BY SMT
  <2> QED
    BY <2>1, Zenon
<1>2. Record(p, befores)
  BY <1>1
<1> QED
  BY <1>2, RecordKept

(* The entry a row is given when the ledger follows it.                      *)
LEMMA SyncedIs ==
  ASSUME NEW row \in Row
  PROVE  /\ Synced(row) \in [kind : {"none", "own", "pair"}, figure : Figured]
         /\ Synced(row).kind # "pair"
         /\ Synced(row) # NoEntry => Synced(row).figure = row.figure
         /\ Synced(row) # NoEntry => row.state \in {"categorized", "reconciled"}
         /\ row.transfer = TRUE => Synced(row) = NoEntry
BY DEF Synced, Postable, NoEntry, Row, Figured

(* Lines are written and the ledger follows, their pairing stays.            *)
LEMMA SyncSafe ==
  ASSUME Kept, NEW ls \in SUBSET Lines, NEW new, WriteAndSync(ls, new),
         \A l \in ls : new[l] \in Row /\ new[l].pair = line[l].pair,
         \A l \in ls : line[l].transfer = TRUE /\ l \notin unpaired' => new[l].transfer = TRUE,
         unpaired \subseteq unpaired', \A l \in Lines \ ls : l \in ruled => l \in ruled'
  PROVE  /\ Rows' /\ EntryStands' /\ PairsHold'
         /\ \A l \in Lines : line'[l] = IF l \in ls THEN new[l] ELSE line[l]
<1>1. \A l \in Lines : /\ line'[l] = IF l \in ls THEN new[l] ELSE line[l]
                       /\ posted'[l] = IF l \in ls THEN Synced(new[l]) ELSE posted[l]
  BY DEF WriteAndSync
<1>2. ASSUME NEW l \in ls
      PROVE  /\ posted'[l] \in [kind : {"none", "own", "pair"}, figure : Figured]
             /\ posted'[l].kind # "pair"
             /\ posted'[l] # NoEntry => posted'[l].figure = line'[l].figure
             /\ posted'[l] # NoEntry => line'[l].state \in {"categorized", "reconciled"}
             /\ line'[l].transfer = TRUE => posted'[l] = NoEntry
  <2>1. PICK row \in Row : row = new[l]
    OBVIOUS
  <2>2. posted'[l] = Synced(row) /\ line'[l] = row
    <3>1. posted' = [k \in Lines |-> IF k \in ls THEN Synced(new[k]) ELSE posted[k]]
      BY DEF WriteAndSync
    <3>2. posted'[l] = Synced(new[l])
      BY <3>1
    <3>3. Synced(new[l]) = Synced(row)
      BY <2>1 DEF Synced, Postable
    <3> QED
      BY <1>1, <2>1, <3>2, <3>3
  <2> QED
    BY <2>2, SyncedIs
<1>3. Rows'
  <2>1. line' = [l \in Lines |-> line'[l]] /\ posted' = [l \in Lines |-> posted'[l]]
    BY DEF WriteAndSync
  <2>2. \A l \in Lines : line'[l] \in Row
    BY <1>1 DEF Kept, Rows
  <2>3. \A l \in Lines : posted'[l] \in [kind : {"none", "own", "pair"}, figure : Figured]
    BY <1>2, <1>1 DEF Kept, Rows
  <2> QED
    BY <2>1, <2>2, <2>3 DEF Rows
<1>4. EntryStands'
  <2> SUFFICES ASSUME NEW l \in Lines, posted'[l] # NoEntry
               PROVE  /\ posted'[l].figure = line'[l].figure
                      /\ l \in ruled' \/ line'[l].state \in {"categorized", "matched", "reconciled"}
    BY DEF EntryStands
  <2>1. CASE l \in ls
    BY <1>2, <2>1
  <2>2. CASE l \notin ls
    BY <1>1, <2>2 DEF Kept, EntryStands
  <2> QED
    BY <2>1, <2>2
<1>5. PairsHold'
  <2> SUFFICES ASSUME NEW l \in Lines, l \notin unpaired', NEW k \in Lines,
                      posted'[k].kind = "pair", line'[k].pair = l
               PROVE  /\ k # l /\ line'[l].pair = k
                      /\ line'[l].transfer = TRUE /\ posted'[l] = NoEntry
    BY DEF PairsHold
  <2>1. k \notin ls
    BY <1>2
  <2>2. k # l /\ line[l].pair = k /\ line[l].transfer = TRUE /\ posted[l] = NoEntry
    BY <1>1, <2>1 DEF Kept, PairsHold
  <2>3. CASE l \in ls
    <3>1. line'[l] = new[l] /\ new[l].pair = k /\ new[l].transfer = TRUE
      BY <1>1, <2>2, <2>3
    <3>2. line'[l].transfer = TRUE
      BY <3>1
    <3>3. posted'[l] = NoEntry
      BY <1>2, <2>3, <3>2
    <3> QED
      BY <2>2, <3>1, <3>2, <3>3
  <2>4. CASE l \notin ls
    BY <1>1, <2>2, <2>4
  <2> QED
    BY <2>3, <2>4
<1> QED
  BY <1>1, <1>3, <1>4, <1>5

(* Lines are written and the ledger is not told: where an entry stands, the  *)
(* figure stays and the line is in the books or a rule is to blame.          *)
LEMMA RowsSafe ==
  ASSUME Kept, line' \in [Lines -> Row], posted' = posted, unpaired' = unpaired,
         \A l \in Lines : line'[l].pair = line[l].pair /\ line'[l].transfer = line[l].transfer,
         \A l \in Lines : posted[l] # NoEntry =>
           /\ line'[l].figure = line[l].figure
           /\ l \in ruled' \/ line'[l].state \in {"categorized", "matched", "reconciled"}
  PROVE  Rows' /\ EntryStands' /\ PairsHold'
<1>1. Rows'
  BY DEF Kept, Rows
<1>2. EntryStands'
  BY DEF Kept, EntryStands
<1>3. PairsHold'
  BY DEF Kept, PairsHold
<1> QED
  BY <1>1, <1>2, <1>3

(* No figure moves and the feed is silent.                                   *)
LEMMA FeedSilent ==
  ASSUME Kept, UNCHANGED <<revision, bank, unsaid>>,
         \A l \in Lines : line'[l].figure = line[l].figure
  PROVE  Heard'
BY DEF Kept, Heard

(* No line is cleared, and what is cleared keeps its figure.                 *)
LEMMA CertificateSafe ==
  ASSUME Kept,
         \A l \in Lines : /\ line'[l].recon = line[l].recon
                          /\ line[l].recon # None => line'[l].figure = line[l].figure,
         \A r \in Recs : rec'[r].due = rec[r].due /\ (Certified(r)' => Certified(r)),
         moved' = moved
  PROVE  Certificate'
<1> SUFFICES ASSUME NEW r \in Recs, Certified(r)' PROVE Balanced(r)' \/ r \in moved'
  BY DEF Certificate
<1>1. Cleared(r)' = Cleared(r)
  BY DEF Cleared
<1>2. \A l \in Cleared(r) : line'[l].figure = line[l].figure
  BY BankAssumption DEF Cleared
<1>3. Balanced(r)' <=> Balanced(r)
  BY <1>1, <1>2, BalanceStays
<1> QED
  BY <1>3 DEF Kept, Certificate

(* p's request is over, or nobody's is.                                      *)
LEMMA RequestsSafe ==
  ASSUME Kept, NEW p \in People, rec' = rec, Len(event) <= Len(event'), event' \in Seq(Event),
         request' = [request EXCEPT ![p] = NoRequest] \/ request' = request
  PROVE  /\ Requested' /\ Starting'
         /\ \A r \in Recs : Certified(r)' => Certified(r)
         /\ \A t \in People : request'[t] = request[t] \/ request'[t].op = "none"
<1>1. \A t \in People : request'[t] = request[t] \/ request'[t] = NoRequest
  BY DEF Kept, Requested
<1>2. DOMAIN request' = People
  BY DEF Kept, Requested
<1>3. NoRequest.op = "none" /\ Asked(NoRequest) /\ NoRequest.event = 0
  BY NoRequestIs
<1>4. Requested'
  <2>1. Len(event) \in Nat /\ Len(event') \in Nat
    BY DEF Kept, Logging
  <2> SUFFICES ASSUME NEW t \in People
               PROVE  Asked(request'[t]) /\ request'[t].event <= Len(event')
    BY <1>2 DEF Requested, Asked
  <2>2. CASE request'[t] = NoRequest
    BY <1>3, <2>1, <2>2
  <2>3. CASE request'[t] = request[t]
    <3>1. Asked(request[t]) /\ request[t].event <= Len(event) /\ request[t].event \in Nat
      BY DEF Kept, Requested, Asked
    <3> QED
      BY <2>1, <2>3, <3>1
  <2> QED
    BY <1>1, <2>2, <2>3
<1>5. Starting'
  BY <1>1, <1>3 DEF Kept, Starting, Sessions
<1>6. \A r \in Recs : Certified(r)' => Certified(r)
  BY <1>1, <1>3 DEF Certified
<1> QED
  BY <1>1, <1>3, <1>4, <1>5, <1>6

(* Nothing leaves the log, and nobody begins to settle anything.             *)
LEMMA ResolvingStays ==
  ASSUME Kept,
         \A x \in Lines, e \in Changes : revision[x][e] # "none" => revision'[x][e] # "none",
         \A t \in People : request'[t] = request[t] \/ request'[t].op = "none"
  PROVE  Resolving'
<1> SUFFICES ASSUME NEW t \in People, request'[t].op = "resolve"
             PROVE  revision'[request'[t].other][request'[t].change] # "none"
  BY DEF Resolving
<1>1. request'[t] = request[t] /\ request[t].op = "resolve"
  OBVIOUS
<1>2. request[t].other \in Lines /\ request[t].change \in Changes
  BY <1>1 DEF Kept, Requested, Asked
<1> QED
  BY <1>1, <1>2 DEF Kept, Resolving

-----------------------------------------------------------------------------
(* A person's request commits.                                              *)

(* What is left to show of a request about lines: the rows.                  *)
LEMMA LinesDone ==
  ASSUME Kept, NEW p \in People, Commit(p), Rows', EntryStands', PairsHold',
         event' \in Seq(Event), Len(event) <= Len(event'),
         ruled' \subseteq Lines, unpaired' \subseteq Lines,
         \A l \in Lines : line'[l].figure = line[l].figure /\ line'[l].recon = line[l].recon
  PROVE  Kept'
<1>1. /\ Requested' /\ Starting'
      /\ \A r \in Recs : Certified(r)' => Certified(r)
      /\ \A t \in People : request'[t] = request[t] \/ request'[t].op = "none"
  BY RequestsSafe DEF Commit
<1>2. Heard'
  BY FeedSilent DEF Commit
<1>3. Certificate'
  BY <1>1, CertificateSafe DEF Commit
<1>4. Logging' /\ Others'
  BY DEF Kept, Logging, Others, Commit
<1>5. Resolving'
  BY <1>1, ResolvingStays DEF Commit
<1> QED
  BY <1>1, <1>2, <1>3, <1>4, <1>5 DEF Kept

(* What a request has seen of its lines, as an audited snapshot.             *)
LEMMA SeenIs ==
  ASSUME Kept, NEW p \in People
  PROVE  /\ Asked(request[p])
         /\ \A l \in request[p].on : Seen(p)[l] \in Snapshots
         /\ DOMAIN Seen(p) = request[p].on
         /\ Seen(p) \in Befores
<1>1. Asked(request[p])
  BY DEF Kept, Requested
<1>2. \A l \in request[p].on : Snapshot(request[p].seen[l]) \in Snapshots
  BY <1>1 DEF Asked, Snapshot, Snapshots, Row
<1>3. Seen(p) = [l \in request[p].on |-> Snapshot(request[p].seen[l])]
  BY DEF Seen
<1>4. Seen(p) \in [request[p].on -> Snapshots]
  BY <1>2, <1>3
<1>5. request[p].on \in SUBSET Lines
  BY <1>1 DEF Asked
<1> QED
  BY <1>1, <1>2, <1>3, <1>4, <1>5 DEF Befores

(* What an edit leaves alone.                                                *)
LEMMA EditedIs ==
  ASSUME NEW op \in {"categorize", "split", "exclude", "accept"}, NEW row \in Row, NEW seen \in Row
  PROVE  /\ Edited(op, row, seen) \in Row
         /\ Edited(op, row, seen).pair = row.pair
         /\ Edited(op, row, seen).transfer = row.transfer
         /\ Edited(op, row, seen).figure = row.figure
         /\ Edited(op, row, seen).recon = row.recon
<1>1. CASE op = "categorize"
  <2> DEFINE a == [row EXCEPT !.state = "categorized"]
             b == [a EXCEPT !.coded = TRUE]
             c == [b EXCEPT !.split = FALSE]
             d == [c EXCEPT !.rows = IF seen.split THEN 0 ELSE c.rows]
  <2>1. a \in Row /\ a.pair = row.pair /\ a.transfer = row.transfer /\ a.figure = row.figure
          /\ a.recon = row.recon
    BY DEF Row, States
  <2>2. Edited(op, row, seen) = d
    BY <1>1 DEF Edited
  <2> HIDE DEF a
  <2>3. b \in Row /\ b.pair = row.pair /\ b.transfer = row.transfer /\ b.figure = row.figure
          /\ b.recon = row.recon
    BY <2>1 DEF Row
  <2> HIDE DEF b
  <2>4. c \in Row /\ c.pair = row.pair /\ c.transfer = row.transfer /\ c.figure = row.figure
          /\ c.recon = row.recon
    BY <2>3 DEF Row
  <2> HIDE DEF c
  <2>5. d \in Row /\ d.pair = row.pair /\ d.transfer = row.transfer /\ d.figure = row.figure
          /\ d.recon = row.recon
    BY <2>4 DEF Row, Figured
  <2> QED
    BY <2>2, <2>5
<1>2. CASE op = "split"
  <2> DEFINE a == [row EXCEPT !.state = "categorized"]
             b == [a EXCEPT !.coded = FALSE]
             c == [b EXCEPT !.split = TRUE]
             d == [c EXCEPT !.rows = seen.figure]
  <2>1. a \in Row /\ a.pair = row.pair /\ a.transfer = row.transfer /\ a.figure = row.figure
          /\ a.recon = row.recon
    BY DEF Row, States
  <2>2. Edited(op, row, seen) = d
    BY <1>2 DEF Edited
  <2> HIDE DEF a
  <2>3. b \in Row /\ b.pair = row.pair /\ b.transfer = row.transfer /\ b.figure = row.figure
          /\ b.recon = row.recon
    BY <2>1 DEF Row
  <2> HIDE DEF b
  <2>4. c \in Row /\ c.pair = row.pair /\ c.transfer = row.transfer /\ c.figure = row.figure
          /\ c.recon = row.recon
    BY <2>3 DEF Row
  <2> HIDE DEF c
  <2>5. d \in Row /\ d.pair = row.pair /\ d.transfer = row.transfer /\ d.figure = row.figure
          /\ d.recon = row.recon
    BY <2>4 DEF Row, Figured
  <2> QED
    BY <2>2, <2>5
<1>3. CASE op = "exclude"
  BY <1>3 DEF Edited, Row, States
<1>4. CASE op = "accept"
  BY <1>4 DEF Edited, Row, States
<1> QED
  BY <1>1, <1>2, <1>3, <1>4

LEMMA KeptCommitEdit ==
  ASSUME Kept, NEW p \in People, CommitEdit(p)
  PROVE  Kept'
<1>1. PICK q : q = request[p]
  OBVIOUS
<1>2. Asked(q) /\ q.op \in {"categorize", "split", "exclude", "accept"}
  BY <1>1, SeenIs DEF CommitEdit
<1>3. PICK ls \in SUBSET Lines : ls = q.on
  BY <1>2 DEF Asked
<1>4. PICK new : new = [l \in ls |-> Edited(q.op, line[l], q.seen[l])]
  OBVIOUS
<1>5. WriteAndSync(ls, new) /\ Record(p, <<Seen(p)>>) /\ ruled' = ruled \ ls /\ unpaired' = unpaired
        /\ Commit(p)
  BY <1>1, <1>3, <1>4 DEF CommitEdit
<1>6. ASSUME NEW l \in ls
      PROVE  /\ new[l] \in Row /\ new[l].pair = line[l].pair
             /\ new[l].transfer = line[l].transfer
             /\ new[l].figure = line[l].figure /\ new[l].recon = line[l].recon
  <2>1. line[l] \in Row /\ q.seen[l] \in Row
    BY <1>2, <1>3 DEF Kept, Rows, Asked
  <2>2. new[l] = Edited(q.op, line[l], q.seen[l])
    BY <1>4
  <2> QED
    BY <1>2, <2>1, <2>2, EditedIs
<1>7. /\ Rows' /\ EntryStands' /\ PairsHold'
      /\ \A l \in Lines : line'[l] = IF l \in ls THEN new[l] ELSE line[l]
  <2>1. \A l \in ls : new[l] \in Row /\ new[l].pair = line[l].pair
    BY <1>6
  <2>2. \A l \in ls : line[l].transfer = TRUE /\ l \notin unpaired' => new[l].transfer = TRUE
    BY <1>6
  <2>3. unpaired \subseteq unpaired' /\ \A l \in Lines \ ls : l \in ruled => l \in ruled'
    BY <1>5
  <2> QED
    BY <1>5, <2>1, <2>2, <2>3, SyncSafe
<1>8. event' \in Seq(Event) /\ Len(event) <= Len(event')
  <2>1. PICK before : before = Seen(p)
    OBVIOUS
  <2>2. before \in Befores /\ Record(p, <<before>>)
    BY <1>5, <2>1, SeenIs
  <2> QED
    BY <2>2, RecordOne
<1>9. ruled' \subseteq Lines /\ unpaired' \subseteq Lines
  BY <1>5 DEF Kept, Others
<1> QED
  BY <1>5, <1>6, <1>7, <1>8, <1>9, LinesDone

LEMMA KeptCommitNote ==
  ASSUME Kept, NEW p \in People, CommitNote(p)
  PROVE  Kept'
<1>1. event' \in Seq(Event) /\ Len(event) <= Len(event')
  <2>1. PICK before : before = Seen(p)
    OBVIOUS
  <2>2. before \in Befores /\ Record(p, <<before>>)
    BY <2>1, SeenIs DEF CommitNote
  <2> QED
    BY <2>2, RecordOne
<1>2. UNCHANGED <<line, posted, unpaired, ruled>> /\ Commit(p)
  BY DEF CommitNote
<1>3. Rows' /\ EntryStands' /\ PairsHold'
  BY <1>2 DEF Kept, Rows, EntryStands, PairsHold
<1>4. ruled' \subseteq Lines /\ unpaired' \subseteq Lines
  BY <1>2 DEF Kept, Others
<1> QED
  BY <1>1, <1>2, <1>3, <1>4, LinesDone

LEMMA KeptCommitRule ==
  ASSUME Kept, NEW p \in People, NEW state \in {"suggested", "categorized"}, CommitRule(p, state)
  PROVE  Kept'
<1>1. PICK q : q = request[p]
  OBVIOUS
<1>2. Asked(q) /\ q.op = "rule"
  BY <1>1, SeenIs DEF CommitRule
<1>3. PICK on \in SUBSET Lines : on = q.on
  BY <1>2 DEF Asked
<1>4. /\ line' = [l \in Lines |-> IF l \in on
                                 THEN [line[l] EXCEPT !.coded = TRUE, !.state = state]
                                 ELSE line[l]]
      /\ ruled' = ruled \cup {l \in on : Overtaken(p, l)}
      /\ Commit(p) /\ UNCHANGED <<posted, unpaired>>
      /\ Record(p, <<[l \in on |-> [Bare(Seen(p)[l].state) EXCEPT !.coded = Seen(p)[l].coded]]>>)
  BY <1>1, <1>3 DEF CommitRule
<1>5. ASSUME NEW l \in Lines
      PROVE  /\ line'[l] \in Row /\ line'[l].pair = line[l].pair
             /\ line'[l].transfer = line[l].transfer
             /\ line'[l].figure = line[l].figure /\ line'[l].recon = line[l].recon
             /\ l \notin on => line'[l] = line[l]
  <2>1. line[l] \in Row
    BY DEF Kept, Rows
  <2>2. CASE l \in on
    <3> DEFINE a == [line[l] EXCEPT !.coded = TRUE]
               b == [a EXCEPT !.state = state]
    <3>1. a \in Row /\ a.pair = line[l].pair /\ a.transfer = line[l].transfer
            /\ a.figure = line[l].figure /\ a.recon = line[l].recon
      BY <2>1 DEF Row
    <3>2. line'[l] = b
      BY <1>4, <2>2
    <3> HIDE DEF a
    <3>3. b \in Row /\ b.pair = line[l].pair /\ b.transfer = line[l].transfer
            /\ b.figure = line[l].figure /\ b.recon = line[l].recon
      BY <3>1 DEF Row, States
    <3> QED
      BY <2>2, <3>2, <3>3
  <2>3. CASE l \notin on
    BY <1>4, <2>1, <2>3
  <2> QED
    BY <2>2, <2>3
<1>6. ASSUME NEW l \in Lines, posted[l] # NoEntry
      PROVE  l \in ruled' \/ line'[l].state \in {"categorized", "matched", "reconciled"}
  <2>1. l \in ruled \/ line[l].state \in {"categorized", "matched", "reconciled"}
    BY <1>6 DEF Kept, EntryStands
  <2>2. CASE l \in on /\ l \notin ruled
    <3>1. q.seen[l].state \in {"new", "suggested"}
      BY <1>2, <1>3, <2>2 DEF Asked
    <3>2. request[p].seen[l] # line[l]
      BY <1>1, <2>1, <2>2, <3>1
    <3> QED
      BY <1>1, <1>3, <1>4, <2>2, <3>2 DEF Overtaken
  <2>3. CASE l \notin on \/ l \in ruled
    BY <1>4, <1>5, <2>1, <2>3
  <2> QED
    BY <2>2, <2>3
<1>7. line' \in [Lines -> Row]
  BY <1>4, <1>5
<1>8. Rows' /\ EntryStands' /\ PairsHold'
  BY <1>4, <1>5, <1>6, <1>7, RowsSafe
<1>9. event' \in Seq(Event) /\ Len(event) <= Len(event')
  <2>1. ASSUME NEW l \in on
        PROVE  [Bare(Seen(p)[l].state) EXCEPT !.coded = Seen(p)[l].coded] \in Snapshots
    <3>1. Seen(p)[l] \in Snapshots
      BY <1>1, <1>3, SeenIs
    <3>2. Bare(Seen(p)[l].state) \in Snapshots
      BY <3>1 DEF Bare, Snapshots
    <3> QED
      BY <3>1, <3>2 DEF Snapshots
  <2>2. PICK before : before = [l \in on |-> [Bare(Seen(p)[l].state) EXCEPT !.coded = Seen(p)[l].coded]]
    OBVIOUS
  <2>3. before \in [on -> Snapshots]
    BY <2>1, <2>2
  <2>4. before \in Befores
    BY <2>3 DEF Befores
  <2>5. Record(p, <<before>>)
    BY <1>4, <2>2
  <2> QED
    BY <2>4, <2>5, RecordOne
<1>10. ruled' \subseteq Lines /\ unpaired' \subseteq Lines
  BY <1>4 DEF Kept, Others
<1> QED
  BY <1>4, <1>5, <1>8, <1>9, <1>10, LinesDone

(* The other leg of a transfer, if it has one.                               *)
LEMMA OtherLeg ==
  ASSUME NEW on \in SUBSET Lines, NEW m \in Lines, Legs(on, m), NEW l \in on
  PROVE  \E x \in on : /\ x # l /\ on = {l, x} /\ (CHOOSE k \in on : k # l) = x
                       /\ (x \in Outgoing) # (l \in Outgoing)
<1>1. PICK x \in on : x # l /\ on = {l, x} /\ (x \in Outgoing) # (l \in Outgoing)
  BY BankAssumption DEF Legs
<1>2. \E k \in on : k # l
  BY <1>1
<1>3. (CHOOSE k \in on : k # l) \in on /\ (CHOOSE k \in on : k # l) # l
  BY <1>2
<1> QED
  BY <1>1, <1>3

LEMMA KeptCommitTransfer ==
  ASSUME Kept, NEW p \in People, CommitTransfer(p)
  PROVE  Kept'
<1> DEFINE on == request[p].on
           m == request[p].other
<1>1. /\ on = request[p].on /\ m = request[p].other
      /\ Asked(request[p]) /\ request[p].op = "transfer"
  BY SeenIs DEF CommitTransfer
<1>2. on \in SUBSET Lines
  BY <1>1 DEF Asked
<1>3. line' = [l \in Lines |->
         IF l \in on
         THEN [line[l] EXCEPT !.state = "matched", !.transfer = TRUE,
                              !.pair = IF m = None THEN None ELSE CHOOSE k \in on : k # l]
         ELSE line[l]]
  BY DEF CommitTransfer
<1>4. /\ posted' = [l \in Lines |->
           IF l \notin on THEN posted[l]
           ELSE IF m # None /\ l \in Outgoing THEN [kind |-> "pair", figure |-> line[l].figure]
           ELSE NoEntry]
      /\ Record(p, <<[l \in on \ {m} |-> Seen(p)[l]]>>)
      /\ ruled' = ruled \ on
      /\ unpaired' = unpaired \cup {l \in Lines : line[l].pair # None /\ l \in on}
      /\ Commit(p)
  BY DEF CommitTransfer
<1> HIDE DEF on, m
<1>5. Legs(on, m) /\ (m = None \/ m \in Lines)
  BY <1>1 DEF Asked, Legs
<1>6. PICK other : other = [l \in Lines |-> IF m = None THEN None ELSE CHOOSE k \in on : k # l]
  OBVIOUS
<1>7. ASSUME NEW l \in on, m # None
      PROVE  /\ other[l] \in on /\ other[l] # l /\ on = {l, other[l]}
             /\ (other[l] \in Outgoing) # (l \in Outgoing)
  BY <1>2, <1>5, <1>6, <1>7, OtherLeg
<1>8. ASSUME NEW l \in Lines
      PROVE  /\ line'[l] \in Row
             /\ line'[l].figure = line[l].figure /\ line'[l].recon = line[l].recon
             /\ l \in on => /\ line'[l].state = "matched" /\ line'[l].transfer = TRUE
                            /\ line'[l].pair = other[l]
             /\ l \notin on => line'[l] = line[l] /\ posted'[l] = posted[l]
  <2>1. line[l] \in Row
    BY DEF Kept, Rows
  <2>2. CASE l \in on
    <3> DEFINE a == [line[l] EXCEPT !.state = "matched"]
               b == [a EXCEPT !.transfer = TRUE]
               c == [b EXCEPT !.pair = other[l]]
    <3>1. line'[l] = c
      <4>1. other[l] = IF m = None THEN None ELSE CHOOSE k \in on : k # l
        BY <1>6
      <4> QED
        BY <1>3, <2>2, <4>1
    <3>2. other[l] \in Lines \cup {None}
      BY <1>2, <1>6, <1>7, <2>2
    <3>3. a \in Row /\ a.figure = line[l].figure /\ a.recon = line[l].recon /\ a.state = "matched"
      BY <2>1 DEF Row, States
    <3> HIDE DEF a
    <3>4. /\ b \in Row /\ b.figure = line[l].figure /\ b.recon = line[l].recon
          /\ b.state = "matched" /\ b.transfer = TRUE
      BY <3>3 DEF Row
    <3> HIDE DEF b
    <3>5. /\ c \in Row /\ c.figure = line[l].figure /\ c.recon = line[l].recon
          /\ c.state = "matched" /\ c.transfer = TRUE /\ c.pair = other[l]
      BY <3>2, <3>4 DEF Row
    <3> QED
      BY <2>2, <3>1, <3>5
  <2>3. CASE l \notin on
    BY <1>3, <1>4, <2>1, <2>3
  <2> QED
    BY <2>2, <2>3
<1>9. ASSUME NEW l \in on
      PROVE  /\ posted'[l] \in [kind : {"none", "own", "pair"}, figure : Figured]
             /\ posted'[l].kind = "pair" <=> m # None /\ l \in Outgoing
             /\ posted'[l].kind # "pair" => posted'[l] = NoEntry
             /\ posted'[l].kind = "pair" => posted'[l].figure = line[l].figure
  <2>1. line[l].figure \in Figures
    BY <1>2 DEF Kept, Rows, Row
  <2> QED
    BY <1>2, <1>4, <2>1 DEF NoEntry, Figured
<1>10. Rows'
  <2>1. line' \in [Lines -> Row]
    BY <1>3, <1>8
  <2>2. posted' = [l \in Lines |-> posted'[l]]
    BY <1>4
  <2>3. \A l \in Lines : posted'[l] \in [kind : {"none", "own", "pair"}, figure : Figured]
    BY <1>8, <1>9 DEF Kept, Rows
  <2> QED
    BY <2>1, <2>2, <2>3 DEF Rows
<1>11. EntryStands'
  <2> SUFFICES ASSUME NEW l \in Lines, posted'[l] # NoEntry
               PROVE  /\ posted'[l].figure = line'[l].figure
                      /\ l \in ruled' \/ line'[l].state \in {"categorized", "matched", "reconciled"}
    BY DEF EntryStands
  <2>1. CASE l \in on
    BY <1>8, <1>9, <2>1
  <2>2. CASE l \notin on
    BY <1>4, <1>8, <2>2 DEF Kept, EntryStands
  <2> QED
    BY <2>1, <2>2
<1>12. PairsHold'
  <2> SUFFICES ASSUME NEW l \in Lines, l \notin unpaired', NEW k \in Lines,
                      posted'[k].kind = "pair", line'[k].pair = l
               PROVE  /\ k # l /\ line'[l].pair = k
                      /\ line'[l].transfer = TRUE /\ posted'[l] = NoEntry
    BY DEF PairsHold
  <2>1. CASE k \in on
    <3>1. m # None /\ k \in Outgoing /\ other[k] = l
      BY <1>8, <1>9, <2>1
    <3>2. l \in on /\ l # k /\ on = {k, l} /\ l \notin Outgoing
      BY <1>7, <2>1, <3>1
    <3>3. other[l] = k
      BY <1>7, <3>1, <3>2
    <3> QED
      BY <1>8, <1>9, <3>2, <3>3
  <2>2. CASE k \notin on
    <3>1. posted[k].kind = "pair" /\ line[k].pair = l /\ l \notin unpaired
      BY <1>4, <1>8, <2>2
    <3>2. k # l /\ line[l].pair = k /\ line[l].transfer = TRUE /\ posted[l] = NoEntry
      BY <3>1 DEF Kept, PairsHold
    <3>3. l \notin on
      <4>1. line[l].pair # None
        BY <3>2, BankAssumption
      <4>2. unpaired' = unpaired \cup {x \in Lines : line[x].pair # None /\ x \in on}
        BY <1>4
      <4> QED
        BY <4>1, <4>2
    <3> QED
      BY <1>8, <3>2, <3>3
  <2> QED
    BY <2>1, <2>2
<1>13. event' \in Seq(Event) /\ Len(event) <= Len(event')
  <2>1. PICK before : before = [l \in on \ {m} |-> Seen(p)[l]]
    OBVIOUS
  <2>2. before \in [on \ {m} -> Snapshots]
    BY <1>1, <2>1, SeenIs
  <2>3. before \in Befores
    BY <1>2, <2>2 DEF Befores
  <2> QED
    BY <1>4, <2>1, <2>3, RecordOne
<1>14. ruled' \subseteq Lines /\ unpaired' \subseteq Lines
  BY <1>4 DEF Kept, Others
<1> QED
  BY <1>4, <1>8, <1>10, <1>11, <1>12, <1>13, <1>14, LinesDone

LEMMA KeptCommitUndo ==
  ASSUME Kept, NEW p \in People, CommitUndo(p)
  PROVE  Kept'
<1>1. PICK i : i = request[p].event
  OBVIOUS
<1>2. i \in DOMAIN event /\ event[i] \in Event
  <2>1. Asked(request[p]) /\ request[p].op = "undo" /\ request[p].event <= Len(event)
    BY DEF Kept, Requested, CommitUndo
  <2> QED
    BY <1>1, <2>1 DEF Asked, Kept, Logging
<1>3. PICK back : back = event[i].before
  OBVIOUS
<1>4. PICK ls \in SUBSET Lines : back \in [ls -> Snapshots]
  BY <1>2, <1>3 DEF Event, Befores
<1>5. DOMAIN back = ls /\ \A l \in ls : back[l] \in Snapshots
  BY <1>4
<1>6. PICK new : new = [l \in ls |->
         [line[l] EXCEPT !.state = back[l].state, !.coded = back[l].coded,
                         !.split = back[l].split, !.transfer = back[l].transfer,
                         !.rows = IF back[l].split THEN @ ELSE 0]]
  OBVIOUS
<1>7. /\ WriteAndSync(ls, new)
      /\ event' = [event EXCEPT ![i].undone = (ls # {})]
      /\ unpaired' = unpaired \cup {l \in ls : line[l].transfer /\ ~ back[l].transfer}
      /\ ruled' = ruled \ ls
      /\ Commit(p)
  BY <1>1, <1>3, <1>5, <1>6 DEF CommitUndo
<1>8. ASSUME NEW l \in ls
      PROVE  /\ new[l] \in Row /\ new[l].pair = line[l].pair
             /\ new[l].transfer = back[l].transfer
             /\ new[l].figure = line[l].figure /\ new[l].recon = line[l].recon
  <2>1. PICK row \in Row, was \in Snapshots : row = line[l] /\ was = back[l]
    BY <1>5 DEF Kept, Rows
  <2> DEFINE a == [row EXCEPT !.state = was.state]
             b == [a EXCEPT !.coded = was.coded]
             c == [b EXCEPT !.split = was.split]
             d == [c EXCEPT !.transfer = was.transfer]
             e == [d EXCEPT !.rows = IF was.split THEN d.rows ELSE 0]
  <2>2. new[l] = e
    BY <1>6, <2>1
  <2>3. a \in Row /\ a.pair = row.pair /\ a.figure = row.figure /\ a.recon = row.recon
    BY DEF Row, Snapshots
  <2> HIDE DEF a
  <2>4. b \in Row /\ b.pair = row.pair /\ b.figure = row.figure /\ b.recon = row.recon
    BY <2>3 DEF Row, Snapshots
  <2> HIDE DEF b
  <2>5. c \in Row /\ c.pair = row.pair /\ c.figure = row.figure /\ c.recon = row.recon
    BY <2>4 DEF Row, Snapshots
  <2> HIDE DEF c
  <2>6. /\ d \in Row /\ d.pair = row.pair /\ d.figure = row.figure /\ d.recon = row.recon
        /\ d.transfer = was.transfer
    BY <2>5 DEF Row, Snapshots
  <2> HIDE DEF d
  <2>7. /\ e \in Row /\ e.pair = row.pair /\ e.figure = row.figure /\ e.recon = row.recon
        /\ e.transfer = was.transfer
    BY <2>6 DEF Row, Snapshots, Figured
  <2> QED
    BY <2>1, <2>2, <2>7
<1>9. /\ Rows' /\ EntryStands' /\ PairsHold'
      /\ \A l \in Lines : line'[l] = IF l \in ls THEN new[l] ELSE line[l]
  <2>1. \A l \in ls : new[l] \in Row /\ new[l].pair = line[l].pair
    BY <1>8
  <2>2. \A l \in ls : line[l].transfer = TRUE /\ l \notin unpaired' => new[l].transfer = TRUE
    BY <1>5, <1>7, <1>8 DEF Snapshots
  <2>3. unpaired \subseteq unpaired' /\ \A l \in Lines \ ls : l \in ruled => l \in ruled'
    BY <1>7
  <2>4. WriteAndSync(ls, new)
    BY <1>7
  <2> QED
    BY <2>1, <2>2, <2>3, <2>4, SyncSafe
<1>10. event' \in Seq(Event) /\ Len(event) <= Len(event')
  <2>1. PICK undone \in BOOLEAN : undone = (ls # {})
    OBVIOUS
  <2>2. PICK e \in Event : e = [event[i] EXCEPT !.undone = undone]
    BY <1>2 DEF Event
  <2>3. event' = [event EXCEPT ![i] = e]
    BY <1>7, <2>1, <2>2
  <2>4. event \in Seq(Event)
    BY DEF Kept, Logging
  <2> QED
    BY <1>2, <2>3, <2>4
<1>11. ruled' \subseteq Lines /\ unpaired' \subseteq Lines
  BY <1>7 DEF Kept, Others
<1> QED
  BY <1>7, <1>8, <1>9, <1>10, <1>11, LinesDone

-----------------------------------------------------------------------------
(* A session's request commits.                                             *)

(* Only its own session changes; and of the lines, at most where they are    *)
(* cleared, or the state they have in the books.                             *)
LEMMA SessionDone ==
  ASSUME Kept, NEW p \in People, NEW op \in Sessions, CommitSession(p, op),
         rec' \in [Recs -> [status : {"none", "in_progress", "completed", "reopened"}, due : Int]],
         \A r \in Recs \ {request[p].other} : rec'[r] = rec[r],
         line' \in [Lines -> Row],
         \A l \in Lines : /\ line'[l].pair = line[l].pair /\ line'[l].transfer = line[l].transfer
                          /\ line'[l].figure = line[l].figure
                          /\ line'[l].state \in {line[l].state, "categorized", "reconciled"},
         moved' \subseteq Recs
  PROVE  /\ Rows' /\ EntryStands' /\ PairsHold' /\ Requested' /\ Starting'
         /\ Heard' /\ Logging' /\ Others'
         /\ \A t \in People : request'[t] = request[t] \/ (t = p /\ request'[t].op = "none")
<1>1. /\ request[p].op = op /\ request' = [request EXCEPT ![p] = NoRequest]
      /\ UNCHANGED <<scenario, posted, revision, bank, event, ruled, unpaired, unsaid>>
  BY DEF CommitSession
<1>2. \A t \in People : request'[t] = IF t = p THEN NoRequest ELSE request[t]
  BY <1>1 DEF Kept, Requested
<1>3. NoRequest.op = "none" /\ Asked(NoRequest) /\ NoRequest.event = 0
  BY NoRequestIs
<1>4. Requested'
  <2>1. DOMAIN request' = People /\ Len(event) \in Nat /\ event' = event
    BY <1>1 DEF Kept, Requested, Logging
  <2>2. \A t \in People : Asked(request'[t]) /\ request'[t].event <= Len(event)
    BY <1>2, <1>3, <2>1 DEF Kept, Requested
  <2> QED
    BY <2>1, <2>2 DEF Requested, Asked
<1>5. Starting'
  <2> SUFFICES ASSUME NEW t \in People, request'[t].op = "start"
               PROVE  /\ rec'[request'[t].other].status = "none"
                      /\ \A u \in People \ {t} : request'[u].op \in Sessions =>
                           request'[u].other # request'[t].other
    BY DEF Starting
  <2>1. t # p /\ request'[t] = request[t]
    BY <1>2, <1>3
  <2>2. /\ rec[request[t].other].status = "none"
        /\ \A u \in People \ {t} : request[u].op \in Sessions =>
             request[u].other # request[t].other
    BY <2>1 DEF Kept, Starting
  <2>3. request[t].other # request[p].other
    BY <1>1, <2>1, <2>2
  <2>4. request[t].other \in Recs
    BY <2>1 DEF Kept, Requested, Asked, Sessions
  <2>5. rec'[request'[t].other].status = "none"
    BY <2>1, <2>2, <2>3, <2>4
  <2>6. ASSUME NEW u \in People \ {t}, request'[u].op \in Sessions
        PROVE  request'[u].other # request'[t].other
    <3>1. u # p
      BY <1>2, <1>3, <2>6 DEF Sessions
    <3> QED
      BY <1>2, <2>1, <2>2, <2>6, <3>1
  <2> QED
    BY <2>5, <2>6
<1>6. Rows' /\ PairsHold' /\ Heard' /\ Logging'
  <2>1. Rows' /\ Logging'
    BY <1>1 DEF Kept, Rows, Logging
  <2>2. PairsHold'
    BY <1>1 DEF Kept, PairsHold
  <2>3. Heard'
    BY <1>1, FeedSilent DEF Kept
  <2> QED
    BY <2>1, <2>2, <2>3
<1>7. EntryStands'
  BY <1>1 DEF Kept, EntryStands
<1>8. Others'
  BY <1>1 DEF Kept, Others
<1> QED
  BY <1>2, <1>3, <1>4, <1>5, <1>6, <1>7, <1>8

LEMMA KeptCommitStart ==
  ASSUME Kept, NEW p \in People, NEW l \in Lines, CommitStart(p, Signed(l))
  PROVE  Kept'
<1>1. PICK r \in Recs : r = request[p].other
  BY DEF Kept, Requested, Asked, CommitStart, CommitSession, Sessions
<1>2. PICK due \in Int : due = Signed(l)
  <2>1. line[l].figure \in Nat
    BY BankAssumption DEF Kept, Rows, Row
  <2>2. Signed(l) \in Int
    BY <2>1 DEF Signed
  <2> QED
    BY <2>2
<1>3. /\ CommitSession(p, "start")
      /\ rec' = [rec EXCEPT ![r] = [status |-> "in_progress", due |-> due]]
      /\ UNCHANGED <<line, moved>>
  BY <1>1, <1>2 DEF CommitStart
<1>4. /\ rec' \in [Recs -> [status : {"none", "in_progress", "completed", "reopened"}, due : Int]]
      /\ \A x \in Recs \ {r} : rec'[x] = rec[x]
      /\ rec'[r].status = "in_progress"
  BY <1>3 DEF Kept, Others
<1>5. line' \in [Lines -> Row] /\ moved' \subseteq Recs
  BY <1>3 DEF Kept, Rows, Others
<1>6. /\ Rows' /\ EntryStands' /\ PairsHold' /\ Requested' /\ Starting'
      /\ Heard' /\ Logging' /\ Others'
      /\ \A t \in People : request'[t] = request[t] \/ (t = p /\ request'[t].op = "none")
  <2>1. "start" \in Sessions
    BY DEF Sessions
  <2> QED
    BY <1>1, <1>3, <1>4, <1>5, <2>1, SessionDone
<1>7. Certificate'
  <2> SUFFICES ASSUME NEW x \in Recs, Certified(x)' PROVE Balanced(x)' \/ x \in moved'
    BY DEF Certificate
  <2>1. x # r
    <3> SUFFICES ASSUME x = r PROVE FALSE
      OBVIOUS
    <3>1. PICK t \in People : request'[t].op = "complete" /\ request'[t].other = r
      BY <1>4 DEF Certified
    <3>2. t # p /\ request[t].op = "complete" /\ request[t].other = r
      BY <1>3, <1>6, <3>1 DEF CommitSession
    <3> QED
      BY <1>1, <1>3, <3>2 DEF Kept, Starting, CommitSession, Sessions
  <2>2. Certified(x)
    BY <1>4, <1>6, <2>1 DEF Certified
  <2>3. Balanced(x)' <=> Balanced(x)
    BY <1>3, <1>4, <2>1, BalanceStays DEF Cleared
  <2> QED
    BY <1>3, <2>2, <2>3 DEF Kept, Certificate
<1>8. Resolving'
  BY <1>3, <1>6, ResolvingStays DEF CommitSession
<1> QED
  BY <1>6, <1>7, <1>8 DEF Kept

LEMMA KeptCommitClear ==
  ASSUME Kept, NEW p \in People, NEW op \in {"clear", "unclear"}, CommitClear(p, op)
  PROVE  Kept'
<1>1. PICK on, to : /\ on = request[p].on
                    /\ to = IF op = "clear" THEN request[p].other ELSE None
  OBVIOUS
<1>2. /\ CommitSession(p, op) /\ rec' = rec
      /\ line' = [l \in Lines |-> IF l \in on THEN [line[l] EXCEPT !.recon = to] ELSE line[l]]
      /\ moved' = moved \cup {r \in Recs : /\ Certified(r)
                                          /\ \E l \in on : r \in {line[l].recon, to}
                                                           /\ line[l].recon # to}
  BY <1>1 DEF CommitClear
<1>3. to \in Recs \cup {None}
  BY <1>1, <1>2 DEF CommitSession, Kept, Requested, Asked, Sessions
<1>4. ASSUME NEW l \in Lines
      PROVE  /\ line'[l] \in Row
             /\ line'[l].pair = line[l].pair /\ line'[l].transfer = line[l].transfer
             /\ line'[l].figure = line[l].figure /\ line'[l].state = line[l].state
             /\ line'[l].recon = IF l \in on THEN to ELSE line[l].recon
  <2>1. PICK row \in Row : row = line[l]
    BY DEF Kept, Rows
  <2>2. line'[l] = IF l \in on THEN [row EXCEPT !.recon = to] ELSE row
    BY <1>2, <2>1
  <2> QED
    BY <1>3, <2>1, <2>2 DEF Row
<1>5. /\ Rows' /\ EntryStands' /\ PairsHold' /\ Requested' /\ Starting'
      /\ Heard' /\ Logging' /\ Others'
      /\ \A t \in People : request'[t] = request[t] \/ (t = p /\ request'[t].op = "none")
  <2>1. op \in Sessions
    BY DEF Sessions
  <2>2. rec' \in [Recs -> [status : {"none", "in_progress", "completed", "reopened"}, due : Int]]
    BY <1>2 DEF Kept, Others
  <2>3. line' \in [Lines -> Row]
    BY <1>2, <1>4
  <2>4. moved' \subseteq Recs
    BY <1>2 DEF Kept, Others
  <2>5. \A l \in Lines : /\ line'[l].pair = line[l].pair /\ line'[l].transfer = line[l].transfer
                         /\ line'[l].figure = line[l].figure
                         /\ line'[l].state \in {line[l].state, "categorized", "reconciled"}
    BY <1>4
  <2> QED
    BY <1>2, <2>1, <2>2, <2>3, <2>4, <2>5, SessionDone
<1>6. Certificate'
  <2> SUFFICES ASSUME NEW r \in Recs, Certified(r)', r \notin moved' PROVE Balanced(r)'
    BY DEF Certificate
  <2>1. Certified(r)
    BY <1>2, <1>5 DEF Certified
  <2>2. r \notin moved /\ \A l \in on : r \in {line[l].recon, to} => line[l].recon = to
    BY <1>2, <2>1
  <2>3. \A l \in Lines : line'[l].recon = r <=> line[l].recon = r
    BY <1>4, <2>2
  <2>4. Balanced(r)' <=> Balanced(r)
    BY <1>2, <1>4, <2>3, BalanceStays DEF Cleared
  <2> QED
    BY <2>1, <2>2, <2>4 DEF Kept, Certificate
<1>7. Resolving'
  BY <1>2, <1>5, ResolvingStays DEF CommitSession
<1> QED
  BY <1>5, <1>6, <1>7 DEF Kept

(* A session is completed or reopened: its lines take the new state.         *)
LEMMA KeptSeal ==
  ASSUME Kept, NEW p \in People, NEW op \in {"complete", "reopen"}, CommitSession(p, op),
         NEW status \in {"completed", "reopened"}, NEW state \in {"categorized", "reconciled"},
         Seal(request[p].other, status, state), status = "completed" => op = "complete"
  PROVE  Kept'
<1>1. PICK r \in Recs : r = request[p].other
  BY DEF Kept, Requested, Asked, CommitSession, Sessions
<1>2. /\ rec' = [rec EXCEPT ![r].status = status]
      /\ line' = [l \in Lines |-> IF l \in Cleared(r) THEN [line[l] EXCEPT !.state = state]
                                  ELSE line[l]]
      /\ moved' = moved
  BY <1>1 DEF Seal
<1>3. /\ rec' \in [Recs -> [status : {"none", "in_progress", "completed", "reopened"}, due : Int]]
      /\ \A x \in Recs \ {r} : rec'[x] = rec[x]
      /\ rec'[r].status = status /\ \A x \in Recs : rec'[x].due = rec[x].due
  BY <1>2 DEF Kept, Others
<1>4. ASSUME NEW l \in Lines
      PROVE  /\ line'[l] \in Row
             /\ line'[l].pair = line[l].pair /\ line'[l].transfer = line[l].transfer
             /\ line'[l].figure = line[l].figure /\ line'[l].recon = line[l].recon
             /\ line'[l].state \in {line[l].state, state}
  <2>1. PICK row \in Row : row = line[l]
    BY DEF Kept, Rows
  <2>2. line'[l] = IF l \in Cleared(r) THEN [row EXCEPT !.state = state] ELSE row
    BY <1>2, <2>1
  <2> QED
    BY <2>1, <2>2 DEF Row, States
<1>5. /\ Rows' /\ EntryStands' /\ PairsHold' /\ Requested' /\ Starting'
      /\ Heard' /\ Logging' /\ Others'
      /\ \A t \in People : request'[t] = request[t] \/ (t = p /\ request'[t].op = "none")
  <2>1. op \in Sessions
    BY DEF Sessions
  <2>2. line' \in [Lines -> Row]
    BY <1>2, <1>4
  <2>3. moved' \subseteq Recs
    BY <1>2 DEF Kept, Others
  <2>4. \A l \in Lines : /\ line'[l].pair = line[l].pair /\ line'[l].transfer = line[l].transfer
                         /\ line'[l].figure = line[l].figure
                         /\ line'[l].state \in {line[l].state, "categorized", "reconciled"}
    BY <1>4
  <2> QED
    BY <1>1, <1>3, <2>1, <2>2, <2>3, <2>4, SessionDone
<1>6. Certificate'
  <2>1. \A x \in Recs : Certified(x)' => Certified(x)
    BY <1>1, <1>3, <1>5 DEF Certified, CommitSession
  <2>2. \A l \in Lines : /\ line'[l].recon = line[l].recon
                         /\ line[l].recon # None => line'[l].figure = line[l].figure
    BY <1>4
  <2> QED
    BY <1>2, <1>3, <2>1, <2>2, CertificateSafe
<1>7. Resolving'
  BY <1>5, ResolvingStays DEF CommitSession
<1> QED
  BY <1>5, <1>6, <1>7 DEF Kept

-----------------------------------------------------------------------------
(* The feed, and what becomes of what it said.                              *)

(* Nobody asks for more and no line is cleared; a cleared line keeps its      *)
(* figure, and what is in the log stays there.                               *)
LEMMA FeedDone ==
  ASSUME Kept, UNCHANGED <<scenario, rec, moved>>,
         \/ request' = request
         \/ \E p \in People : request' = [request EXCEPT ![p] = NoRequest],
         \A x \in Lines, e \in Changes : revision[x][e] # "none" => revision'[x][e] # "none",
         Rows', EntryStands', PairsHold', Heard',
         event' \in Seq(Event), Len(event) <= Len(event'),
         revision' \in [Lines -> [Changes -> {"none", "held", "applied", "dismissed"}]],
         bank' \in [Lines -> Figures \cup {Withdrawn}],
         ruled' \subseteq Lines, unpaired' = unpaired, unsaid' \subseteq Lines,
         \A l \in Lines : /\ line'[l].recon = line[l].recon
                          /\ line[l].recon # None => line'[l].figure = line[l].figure
  PROVE  Kept'
<1>1. /\ Requested' /\ Starting' /\ \A r \in Recs : Certified(r)' => Certified(r)
      /\ \A t \in People : request'[t] = request[t] \/ request'[t].op = "none"
  <2>1. PICK p : p \in People \/ People = {}
    OBVIOUS
  <2>2. CASE p \in People
    BY <2>2, RequestsSafe
  <2>3. CASE People = {}
    BY <2>3 DEF Kept, Requested, Starting, Certified
  <2> QED
    BY <2>1, <2>2, <2>3
<1>2. Certificate'
  <2>1. \A r \in Recs : rec'[r].due = rec[r].due /\ (Certified(r)' => Certified(r))
    BY <1>1
  <2> QED
    BY <2>1, CertificateSafe
<1>3. Logging' /\ Others'
  BY DEF Kept, Logging, Others
<1>4. Resolving'
  BY <1>1, ResolvingStays
<1> QED
  BY <1>1, <1>2, <1>3, <1>4 DEF Kept

(* What is said of a line is in the log after it, and nothing leaves the log. *)
LEMMA LoggedIs ==
  ASSUME Kept, NEW l \in Lines, NEW c \in Changes, NEW d \in {"held", "applied"}, Logged(l, c, d)
  PROVE  /\ revision' \in [Lines -> [Changes -> {"none", "held", "applied", "dismissed"}]]
         /\ revision'[l][c] # "none"
         /\ \A x \in Lines \ {l} : revision'[x] = revision[x]
         /\ \A x \in Lines, e \in Changes : revision[x][e] # "none" => revision'[x][e] # "none"
<1>1. revision \in [Lines -> [Changes -> {"none", "held", "applied", "dismissed"}]]
  BY DEF Kept, Others
<1>2. CASE revision[l][c] # "none"
  BY <1>1, <1>2 DEF Logged
<1>3. CASE revision[l][c] = "none"
  <2>1. PICK log \in [Changes -> {"none", "held", "applied", "dismissed"}] :
          log = [revision[l] EXCEPT ![c] = d]
    BY <1>1
  <2>2. revision' = [revision EXCEPT ![l] = log]
    BY <1>3, <2>1 DEF Logged
  <2>3. log[c] = d /\ \A e \in Changes \ {c} : log[e] = revision[l][e]
    BY <1>1, <2>1
  <2> QED
    BY <1>1, <1>3, <2>2, <2>3
<1> QED
  BY <1>2, <1>3

(* The bank says something of l, and it is written down.                     *)
LEMMA HeardSaid ==
  ASSUME Kept, NEW l \in Lines, NEW what \in Figures \cup {Withdrawn}, Says(l, what),
         unsaid' = unsaid \ {l},
         IF what = Withdrawn THEN \E f \in Figures : revision'[l][<<"retraction", f>>] # "none"
         ELSE revision'[l][<<"revision", what>>] # "none",
         \A x \in Lines \ {l} : revision'[x] = revision[x] /\ line'[x].figure = line[x].figure
  PROVE  Heard' /\ bank' \in [Lines -> Figures \cup {Withdrawn}] /\ unsaid' \subseteq Lines
<1>1. bank' = [bank EXCEPT ![l] = what] /\ bank \in [Lines -> Figures \cup {Withdrawn}]
        /\ unsaid \subseteq Lines
  BY DEF Says, Kept, Others
<1>2. bank'[l] = what /\ \A x \in Lines \ {l} : bank'[x] = bank[x]
  BY <1>1
<1>3. Heard'
  <2> SUFFICES ASSUME NEW x \in Lines \ unsaid'
               PROVE  IF bank'[x] = Withdrawn
                      THEN \E f \in Figures : revision'[x][<<"retraction", f>>] # "none"
                      ELSE \/ revision'[x][<<"revision", bank'[x]>>] # "none"
                           \/ line'[x].figure = bank'[x] /\ \A c \in Changes : revision'[x][c] = "none"
    BY DEF Heard
  <2>1. CASE x = l
    BY <1>2, <2>1
  <2>2. CASE x # l
    <3>1. x \in Lines \ unsaid
      BY <2>2
    <3>2. IF bank[x] = Withdrawn
          THEN \E f \in Figures : revision[x][<<"retraction", f>>] # "none"
          ELSE \/ revision[x][<<"revision", bank[x]>>] # "none"
               \/ line[x].figure = bank[x] /\ \A c \in Changes : revision[x][c] = "none"
      BY <3>1 DEF Kept, Heard
    <3> QED
      BY <1>2, <2>2, <3>2
  <2> QED
    BY <2>1, <2>2
<1> QED
  BY <1>1, <1>3

(* The feed repeats what the line shows.                                     *)
LEMMA KeptNothingNew ==
  ASSUME Kept, NEW l \in Lines, NEW what \in Figures \cup {Withdrawn}, SaysNothingNew(l, what)
  PROVE  Kept'
<1>1. /\ bank' = [bank EXCEPT ![l] = what]
      /\ unsaid' = IF bank[l] = what THEN unsaid ELSE unsaid \cup {l}
      /\ UNCHANGED <<scenario, rec, request, ruled, unpaired, moved, line, posted, revision, event>>
  BY DEF SaysNothingNew, Says
<1>2. bank \in [Lines -> Figures \cup {Withdrawn}] /\ unsaid \subseteq Lines
  BY DEF Kept, Others
<1>3. /\ bank' \in [Lines -> Figures \cup {Withdrawn}] /\ unsaid' \subseteq Lines
      /\ \A x \in Lines \ {l} : bank'[x] = bank[x]
  BY <1>1, <1>2
<1>4. Heard'
  <2>1. CASE bank[l] = what
    <3>1. bank' = bank /\ unsaid' = unsaid
      BY <1>1, <1>2, <2>1
    <3> QED
      BY <1>1, <3>1 DEF Kept, Heard
  <2>2. CASE bank[l] # what
    BY <1>1, <1>3, <2>2 DEF Kept, Heard
  <2> QED
    BY <2>1, <2>2
<1>5. Rows' /\ EntryStands' /\ PairsHold'
  BY <1>1 DEF Kept, Rows, EntryStands, PairsHold
<1>6. event' \in Seq(Event) /\ Len(event) <= Len(event')
  BY <1>1 DEF Kept, Logging
<1>7. /\ revision' \in [Lines -> [Changes -> {"none", "held", "applied", "dismissed"}]]
      /\ ruled' \subseteq Lines /\ unpaired' = unpaired
  BY <1>1 DEF Kept, Others
<1> QED
  BY <1>1, <1>3, <1>4, <1>5, <1>6, <1>7, FeedDone

(* A line nothing holds back is neither cleared nor paired nor in the books. *)
LEMMA HeldBack ==
  ASSUME NEW l
  PROVE  /\ ~ HeldByPeople(l) => line[l].recon = None /\ line[l].pair = None
         /\ ~ Holds(l) => ~ HeldByPeople(l) /\ posted[l] = NoEntry
BY DEF Holds, HeldByPeople

(* The figure of one line is corrected.                                      *)
LEMMA FigureIs ==
  ASSUME Kept, NEW l \in Lines, NEW f \in Figures, line' = [line EXCEPT ![l].figure = f]
  PROVE  /\ line' \in [Lines -> Row] /\ line'[l].figure = f
         /\ \A x \in Lines : /\ line'[x].pair = line[x].pair /\ line'[x].transfer = line[x].transfer
                             /\ line'[x].state = line[x].state /\ line'[x].recon = line[x].recon
                             /\ x # l => line'[x] = line[x]
<1>1. line \in [Lines -> Row]
  BY DEF Kept, Rows
<1>2. PICK row \in Row : row = line[l]
  BY <1>1
<1>3. PICK new : new = [row EXCEPT !.figure = f]
  OBVIOUS
<1>4. /\ new \in Row /\ new.pair = row.pair /\ new.transfer = row.transfer
      /\ new.state = row.state /\ new.recon = row.recon /\ new.figure = f
  BY <1>3 DEF Row
<1>5. line' = [line EXCEPT ![l] = new]
  BY <1>2, <1>3
<1> QED
  BY <1>1, <1>2, <1>4, <1>5

LEMMA KeptRevise ==
  ASSUME Kept, NEW l \in Lines, NEW f \in Figures, Revise(l, f)
  PROVE  Kept'
<1>1. CASE f = line[l].figure
  BY <1>1, KeptNothingNew DEF Revise
<1>2. CASE f # line[l].figure
  <2>1. /\ Says(l, f) /\ unsaid' = unsaid \ {l} /\ UNCHANGED <<posted, event>>
        /\ UNCHANGED <<scenario, rec, request, ruled, unpaired, moved>>
    BY <1>2 DEF Revise, Says
  <2>2. PICK c \in Changes : c = <<"revision", f>>
    BY DEF Changes
  <2>3. \/ Holds(l) /\ Logged(l, c, "held") /\ line' = line
        \/ ~ Holds(l) /\ Logged(l, c, "applied") /\ line' = [line EXCEPT ![l].figure = f]
    BY <1>2, <2>2 DEF Revise
  <2>4. /\ revision' \in [Lines -> [Changes -> {"none", "held", "applied", "dismissed"}]]
        /\ revision'[l][c] # "none" /\ \A x \in Lines \ {l} : revision'[x] = revision[x]
        /\ \A x \in Lines, e \in Changes : revision[x][e] # "none" => revision'[x][e] # "none"
    BY <2>3, LoggedIs
  <2>5. /\ line' \in [Lines -> Row]
        /\ \A x \in Lines : /\ line'[x].pair = line[x].pair
                            /\ line'[x].transfer = line[x].transfer
                            /\ line'[x].state = line[x].state /\ line'[x].recon = line[x].recon
                            /\ x # l => line'[x] = line[x]
        /\ posted[l] # NoEntry \/ line[l].recon # None => line' = line
    <3>1. CASE line' = line
      BY <3>1 DEF Kept, Rows
    <3>2. CASE ~ Holds(l) /\ line' = [line EXCEPT ![l].figure = f]
      BY <3>2, FigureIs, HeldBack
    <3> QED
      BY <2>3, <3>1, <3>2
  <2>6. Heard' /\ bank' \in [Lines -> Figures \cup {Withdrawn}] /\ unsaid' \subseteq Lines
    <3>1. f # Withdrawn
      BY BankAssumption DEF Withdrawn
    <3>2. \A x \in Lines \ {l} : revision'[x] = revision[x] /\ line'[x].figure = line[x].figure
      BY <2>4, <2>5
    <3>3. IF f = Withdrawn THEN \E g \in Figures : revision'[l][<<"retraction", g>>] # "none"
          ELSE revision'[l][<<"revision", f>>] # "none"
      BY <2>2, <2>4, <3>1
    <3> QED
      BY <2>1, <3>2, <3>3, HeardSaid
  <2>7. Rows' /\ EntryStands' /\ PairsHold'
    <3>1. \A x \in Lines : posted[x] # NoEntry =>
            /\ line'[x].figure = line[x].figure
            /\ x \in ruled' \/ line'[x].state \in {"categorized", "matched", "reconciled"}
      BY <2>1, <2>5 DEF Kept, EntryStands
    <3> QED
      BY <2>1, <2>5, <3>1, RowsSafe
  <2>8. event' \in Seq(Event) /\ Len(event) <= Len(event')
    BY <2>1 DEF Kept, Logging
  <2>9. ruled' \subseteq Lines /\ unpaired' = unpaired
    BY <2>1 DEF Kept, Others
  <2>10. \A x \in Lines : /\ line'[x].recon = line[x].recon
                          /\ line[x].recon # None => line'[x].figure = line[x].figure
    BY <2>5
  <2> QED
    BY <2>1, <2>4, <2>6, <2>7, <2>8, <2>9, <2>10, FeedDone
<1> QED
  BY <1>1, <1>2

(* A line is withdrawn: it leaves the books, with two events to undo.        *)
LEMMA ExcludeIs ==
  ASSUME Kept, NEW p \in People, NEW l \in Lines, Exclude(p, l),
         unpaired' = unpaired, \A x \in Lines \ {l} : x \in ruled => x \in ruled'
  PROVE  /\ Rows' /\ EntryStands' /\ PairsHold'
         /\ event' \in Seq(Event) /\ Len(event) <= Len(event')
         /\ \A x \in Lines : line'[x].recon = line[x].recon /\ line'[x].figure = line[x].figure
<1>1. PICK ls \in SUBSET Lines : ls = {l}
  OBVIOUS
<1>2. PICK row \in Row : row = line[l]
  BY DEF Kept, Rows
<1>3. PICK out : out = [row EXCEPT !.state = "excluded"]
  OBVIOUS
<1>4. /\ out \in Row /\ out.pair = row.pair /\ out.transfer = row.transfer
      /\ out.figure = row.figure /\ out.recon = row.recon
  BY <1>3 DEF Row, States
<1>5. PICK new : new = [k \in ls |-> out]
  OBVIOUS
<1>6. WriteAndSync(ls, new)
  <2>1. [k \in {l} |-> [line[l] EXCEPT !.state = "excluded"]] = new
    BY <1>1, <1>2, <1>3, <1>5
  <2>2. WriteAndSync({l}, [k \in {l} |-> [line[l] EXCEPT !.state = "excluded"]])
    BY DEF Exclude
  <2> QED
    BY <1>1, <2>1, <2>2
<1>7. /\ \A k \in ls : new[k] \in Row /\ new[k].pair = line[k].pair
      /\ \A k \in ls : line[k].transfer = TRUE /\ k \notin unpaired' => new[k].transfer = TRUE
      /\ \A k \in ls : new[k].figure = line[k].figure /\ new[k].recon = line[k].recon
  BY <1>1, <1>2, <1>4, <1>5
<1>8. unpaired \subseteq unpaired' /\ \A k \in Lines \ ls : k \in ruled => k \in ruled'
  BY <1>1
<1>9. /\ Rows' /\ EntryStands' /\ PairsHold'
      /\ \A k \in Lines : line'[k] = IF k \in ls THEN new[k] ELSE line[k]
  BY <1>6, <1>7, <1>8, SyncSafe
<1>10. event' \in Seq(Event) /\ Len(event) <= Len(event')
  <2>1. PICK b, c : b = [k \in {l} |-> Snapshot(line[l])] /\ c = [k \in {l} |-> Bare(line[l].state)]
    OBVIOUS
  <2>2. Snapshot(line[l]) \in Snapshots /\ Bare(line[l].state) \in Snapshots
    BY <1>2 DEF Snapshot, Bare, Snapshots, Row
  <2>3. b \in [{l} -> Snapshots] /\ c \in [{l} -> Snapshots]
    BY <2>1, <2>2
  <2>4. b \in Befores /\ c \in Befores
    BY <2>3 DEF Befores
  <2>5. PICK befores \in Seq(Befores) : befores = <<b, c>>
    <3>1. <<b, c>> \in Seq(Befores)
      BY <2>4, SMT
    <3> QED
      BY <3>1, Zenon
  <2>6. Record(p, befores)
    BY <2>1, <2>5 DEF Exclude
  <2> QED
    BY <2>6, RecordKept
<1> QED
  BY <1>7, <1>9, <1>10

LEMMA KeptRetract ==
  ASSUME Kept, NEW p \in People, NEW l \in Lines, Retract(p, l)
  PROVE  Kept'
<1>1. CASE line[l].state = "excluded"
  <2>1. SaysNothingNew(l, Withdrawn)
    BY <1>1 DEF Retract
  <2> QED
    BY <2>1, KeptNothingNew
<1>2. CASE line[l].state # "excluded"
  <2>1. /\ Says(l, Withdrawn) /\ unsaid' = unsaid \ {l}
        /\ UNCHANGED <<scenario, rec, request, ruled, unpaired, moved>>
    BY <1>2 DEF Retract, Says
  <2>2. PICK f \in Figures : f = line[l].figure
    BY DEF Kept, Rows, Row
  <2>3. PICK c \in Changes : c = <<"retraction", f>>
    BY DEF Changes
  <2>4. \/ Holds(l) /\ Logged(l, c, "held") /\ UNCHANGED <<line, posted, event>>
        \/ ~ Holds(l) /\ Logged(l, c, "applied") /\ Exclude(p, l)
    BY <1>2, <2>2, <2>3 DEF Retract
  <2>5. /\ revision' \in [Lines -> [Changes -> {"none", "held", "applied", "dismissed"}]]
        /\ revision'[l][c] # "none" /\ \A x \in Lines \ {l} : revision'[x] = revision[x]
        /\ \A x \in Lines, e \in Changes : revision[x][e] # "none" => revision'[x][e] # "none"
    BY <2>4, LoggedIs
  <2>6. /\ Rows' /\ EntryStands' /\ PairsHold'
        /\ event' \in Seq(Event) /\ Len(event) <= Len(event')
        /\ \A x \in Lines : line'[x].recon = line[x].recon /\ line'[x].figure = line[x].figure
    <3>1. CASE UNCHANGED <<line, posted, event>>
      BY <2>1, <3>1 DEF Kept, Rows, EntryStands, PairsHold, Logging
    <3>2. CASE Exclude(p, l)
      BY <2>1, <3>2, ExcludeIs
    <3> QED
      BY <2>4, <3>1, <3>2
  <2>7. Heard' /\ bank' \in [Lines -> Figures \cup {Withdrawn}] /\ unsaid' \subseteq Lines
    <3>1. PICK what \in Figures \cup {Withdrawn} : what = Withdrawn
      OBVIOUS
    <3>2. Says(l, what)
      BY <2>1, <3>1
    <3>3. IF what = Withdrawn THEN \E g \in Figures : revision'[l][<<"retraction", g>>] # "none"
          ELSE revision'[l][<<"revision", what>>] # "none"
      BY <2>3, <2>5, <3>1
    <3>4. \A x \in Lines \ {l} : revision'[x] = revision[x] /\ line'[x].figure = line[x].figure
      BY <2>5, <2>6
    <3> QED
      BY <2>1, <3>2, <3>3, <3>4, HeardSaid
  <2>8. ruled' \subseteq Lines /\ unpaired' = unpaired
    BY <2>1 DEF Kept, Others
  <2> QED
    BY <2>1, <2>5, <2>6, <2>7, <2>8, FeedDone
<1> QED
  BY <1>1, <1>2

(* A person settles what was held: it was in the log and stays there,         *)
(* whatever has become of it since it was read.                              *)
LEMMA ResolveIs ==
  ASSUME Kept, NEW p \in People, NEW l, NEW c, l = request[p].other, c = request[p].change,
         NEW d \in {"applied", "dismissed"}, Resolve(p, d)
  PROVE  /\ l \in Lines /\ c \in Changes
         /\ UNCHANGED <<scenario, rec, bank, unpaired, moved, unsaid>>
         /\ request' = [request EXCEPT ![p] = NoRequest]
         /\ revision' \in [Lines -> [Changes -> {"none", "held", "applied", "dismissed"}]]
         /\ bank' \in [Lines -> Figures \cup {Withdrawn}] /\ unsaid' \subseteq Lines
         /\ \A x \in Lines, e \in Changes : revision'[x][e] = "none" <=> revision[x][e] = "none"
         /\ revision[l][c] # "none"
<1>0. l \in Lines /\ c \in Changes /\ revision[l][c] # "none"
  BY DEF Resolve, Kept, Requested, Asked, Resolving
<1>1. revision \in [Lines -> [Changes -> {"none", "held", "applied", "dismissed"}]]
  BY DEF Kept, Others
<1>2. PICK log \in [Changes -> {"none", "held", "applied", "dismissed"}] :
        log = [revision[l] EXCEPT ![c] = d]
  BY <1>0, <1>1
<1>3. revision' = [revision EXCEPT ![l] = log]
  BY <1>2 DEF Resolve
<1>4. \A e \in Changes : log[e] = IF e = c THEN d ELSE revision[l][e]
  BY <1>1, <1>2
<1>5. /\ UNCHANGED <<scenario, rec, bank, unpaired, moved, unsaid>>
      /\ request' = [request EXCEPT ![p] = NoRequest]
  BY DEF Resolve
<1>6. bank' \in [Lines -> Figures \cup {Withdrawn}] /\ unsaid' \subseteq Lines
  BY <1>5 DEF Kept, Others
<1>7. \A x \in Lines : revision'[x] = IF x = l THEN log ELSE revision[x]
  BY <1>0, <1>1, <1>3
<1>8. \A x \in Lines, e \in Changes : revision'[x][e] = "none" <=> revision[x][e] = "none"
  BY <1>0, <1>4, <1>7
<1>9. revision' \in [Lines -> [Changes -> {"none", "held", "applied", "dismissed"}]]
  BY <1>0, <1>1, <1>3
<1> QED
  BY <1>0, <1>5, <1>6, <1>8, <1>9

(* What was heard stays heard when something of l is settled, unless the     *)
(* figure of another line moves.                                             *)
LEMMA HeardSettled ==
  ASSUME Kept, NEW l \in Lines, NEW c \in Changes, UNCHANGED <<bank, unsaid>>,
         \A x \in Lines, e \in Changes : revision'[x][e] = "none" <=> revision[x][e] = "none",
         revision[l][c] # "none",
         \A x \in Lines \ {l} : line'[x].figure = line[x].figure
  PROVE  Heard'
<1> SUFFICES ASSUME NEW x \in Lines \ unsaid
             PROVE  IF bank[x] = Withdrawn
                    THEN \E f \in Figures : revision'[x][<<"retraction", f>>] # "none"
                    ELSE \/ revision'[x][<<"revision", bank[x]>>] # "none"
                         \/ line'[x].figure = bank[x] /\ \A e \in Changes : revision'[x][e] = "none"
  BY DEF Heard
<1>1. IF bank[x] = Withdrawn
      THEN \E f \in Figures : revision[x][<<"retraction", f>>] # "none"
      ELSE \/ revision[x][<<"revision", bank[x]>>] # "none"
           \/ line[x].figure = bank[x] /\ \A e \in Changes : revision[x][e] = "none"
  BY DEF Kept, Heard
<1>2. \A f \in Figures : <<"retraction", f>> \in Changes /\ <<"revision", f>> \in Changes
  BY DEF Changes
<1>3. bank[x] \in Figures \cup {Withdrawn}
  BY DEF Kept, Others
<1>4. CASE bank[x] = Withdrawn
  BY <1>1, <1>2, <1>4
<1>5. CASE bank[x] # Withdrawn
  <2>1. CASE revision[x][<<"revision", bank[x]>>] # "none"
    BY <1>2, <1>3, <1>5, <2>1
  <2>2. CASE line[x].figure = bank[x] /\ \A e \in Changes : revision[x][e] = "none"
    BY <1>5, <2>2
  <2> QED
    BY <1>1, <1>5, <2>1, <2>2
<1> QED
  BY <1>4, <1>5

LEMMA KeptApplyWithdrawal ==
  ASSUME Kept, NEW p \in People, NEW l \in Lines, ApplyWithdrawal(p, l)
  PROVE  Kept'
<1>1. PICK c : c = request[p].change
  OBVIOUS
<1>2. /\ l = request[p].other /\ Resolve(p, "applied") /\ Exclude(p, l)
      /\ ruled' = ruled \ {l}
  BY DEF ApplyWithdrawal
<1>3. /\ c \in Changes /\ UNCHANGED <<scenario, rec, bank, unpaired, moved, unsaid>>
      /\ request' = [request EXCEPT ![p] = NoRequest]
      /\ revision' \in [Lines -> [Changes -> {"none", "held", "applied", "dismissed"}]]
      /\ bank' \in [Lines -> Figures \cup {Withdrawn}] /\ unsaid' \subseteq Lines
      /\ \A x \in Lines, e \in Changes : revision'[x][e] = "none" <=> revision[x][e] = "none"
      /\ revision[l][c] # "none"
  BY <1>1, <1>2, ResolveIs
<1>4. /\ Rows' /\ EntryStands' /\ PairsHold'
      /\ event' \in Seq(Event) /\ Len(event) <= Len(event')
      /\ \A x \in Lines : line'[x].recon = line[x].recon /\ line'[x].figure = line[x].figure
  BY <1>2, <1>3, ExcludeIs
<1>5. Heard'
  <2>1. \A x \in Lines \ {l} : line'[x].figure = line[x].figure
    BY <1>4
  <2> QED
    BY <1>3, <2>1, HeardSettled
<1>6. ruled' \subseteq Lines
  BY <1>2 DEF Kept, Others
<1> QED
  BY <1>3, <1>4, <1>5, <1>6, FeedDone

LEMMA KeptApplyFigure ==
  ASSUME Kept, NEW p \in People, NEW l \in Lines, NEW f \in Figures, ApplyFigure(p, l, f)
  PROVE  Kept'
<1>1. PICK c \in Changes : c = request[p].change /\ c = <<"revision", f>>
  BY DEF Changes, ApplyFigure
<1>2. PICK row \in Row : row = line[l]
  BY DEF Kept, Rows
<1>3. PICK corrected : corrected = [row EXCEPT !.figure = f]
  OBVIOUS
<1>4. /\ l = request[p].other /\ Resolve(p, "applied") /\ ~ HeldByPeople(l)
      /\ ruled' = ruled \ {l}
      /\ IF posted[l] # NoEntry THEN WriteAndSync({l}, [k \in {l} |-> corrected])
         ELSE line' = [line EXCEPT ![l] = corrected] /\ posted' = posted
      /\ Record(p, <<[k \in {l} |-> Bare("new")]>>)
  BY <1>1, <1>2, <1>3 DEF ApplyFigure
<1>5. /\ corrected \in Row /\ corrected.pair = row.pair /\ corrected.transfer = row.transfer
      /\ corrected.state = row.state /\ corrected.recon = row.recon
  BY <1>3 DEF Row
<1>6. /\ UNCHANGED <<scenario, rec, bank, unpaired, moved, unsaid>>
      /\ request' = [request EXCEPT ![p] = NoRequest]
      /\ revision' \in [Lines -> [Changes -> {"none", "held", "applied", "dismissed"}]]
      /\ bank' \in [Lines -> Figures \cup {Withdrawn}] /\ unsaid' \subseteq Lines
      /\ \A x \in Lines, e \in Changes : revision'[x][e] = "none" <=> revision[x][e] = "none"
      /\ revision[l][c] # "none"
  <2>1. c = request[p].change /\ l = request[p].other /\ Resolve(p, "applied")
    BY <1>1, <1>4
  <2> QED
    BY <2>1, ResolveIs
<1>7. /\ Rows' /\ EntryStands' /\ PairsHold'
      /\ \A x \in Lines : line'[x] = IF x = l THEN corrected ELSE line[x]
  <2>1. CASE posted[l] # NoEntry
    <3>1. PICK ls \in SUBSET Lines : ls = {l}
      OBVIOUS
    <3>2. PICK new : new = [k \in ls |-> corrected]
      OBVIOUS
    <3>3. WriteAndSync(ls, new)
      BY <1>4, <2>1, <3>1, <3>2
    <3>4. /\ \A k \in ls : new[k] \in Row /\ new[k].pair = line[k].pair
          /\ \A k \in ls : line[k].transfer = TRUE /\ k \notin unpaired' => new[k].transfer = TRUE
      BY <1>2, <1>5, <3>1, <3>2
    <3>5. unpaired \subseteq unpaired' /\ \A k \in Lines \ ls : k \in ruled => k \in ruled'
      BY <1>4, <1>6, <3>1
    <3>6. /\ Rows' /\ EntryStands' /\ PairsHold'
          /\ \A k \in Lines : line'[k] = IF k \in ls THEN new[k] ELSE line[k]
      BY <3>3, <3>4, <3>5, SyncSafe
    <3> QED
      BY <3>1, <3>2, <3>6
  <2>2. CASE posted[l] = NoEntry
    <3>1. line' = [line EXCEPT ![l] = corrected] /\ posted' = posted
      BY <1>4, <2>2
    <3>2. /\ line' \in [Lines -> Row]
          /\ \A x \in Lines : line'[x] = IF x = l THEN corrected ELSE line[x]
      BY <1>5, <3>1 DEF Kept, Rows
    <3>3. \A x \in Lines : line'[x].pair = line[x].pair /\ line'[x].transfer = line[x].transfer
      BY <1>2, <1>5, <3>2
    <3>4. \A x \in Lines : posted[x] # NoEntry =>
            /\ line'[x].figure = line[x].figure
            /\ x \in ruled' \/ line'[x].state \in {"categorized", "matched", "reconciled"}
      BY <1>4, <2>2, <3>2 DEF Kept, EntryStands
    <3> QED
      BY <1>6, <3>1, <3>2, <3>3, <3>4, RowsSafe
  <2> QED
    BY <2>1, <2>2
<1>8. event' \in Seq(Event) /\ Len(event) <= Len(event')
  <2>1. PICK before : before = [k \in {l} |-> Bare("new")]
    OBVIOUS
  <2>2. before \in [{l} -> Snapshots]
    BY <2>1 DEF Bare, Snapshots, States
  <2>3. before \in Befores
    BY <2>2 DEF Befores
  <2> QED
    BY <1>4, <2>1, <2>3, RecordOne
<1>9. Heard'
  <2>1. \A x \in Lines \ {l} : line'[x].figure = line[x].figure
    BY <1>7
  <2> QED
    BY <1>6, <2>1, HeardSettled
<1>10. \A x \in Lines : /\ line'[x].recon = line[x].recon
                        /\ line[x].recon # None => line'[x].figure = line[x].figure
  BY <1>2, <1>4, <1>5, <1>7, HeldBack
<1>11. ruled' \subseteq Lines
  BY <1>4 DEF Kept, Others
<1> QED
  BY <1>6, <1>7, <1>8, <1>9, <1>10, <1>11, FeedDone

LEMMA KeptDismiss ==
  ASSUME Kept, NEW p \in People, DismissRevision(p)
  PROVE  Kept'
<1>0. PICK l, c : l = request[p].other /\ c = request[p].change
  OBVIOUS
<1>1. Resolve(p, "dismissed") /\ Record(p, <<<<>>>>) /\ UNCHANGED <<line, posted, ruled>>
  BY DEF DismissRevision
<1>2. /\ l \in Lines /\ c \in Changes
      /\ UNCHANGED <<scenario, rec, bank, unpaired, moved, unsaid>>
      /\ request' = [request EXCEPT ![p] = NoRequest]
      /\ revision' \in [Lines -> [Changes -> {"none", "held", "applied", "dismissed"}]]
      /\ bank' \in [Lines -> Figures \cup {Withdrawn}] /\ unsaid' \subseteq Lines
      /\ \A x \in Lines, e \in Changes : revision'[x][e] = "none" <=> revision[x][e] = "none"
      /\ revision[l][c] # "none"
  BY <1>0, <1>1, ResolveIs
<1>3. event' \in Seq(Event) /\ Len(event) <= Len(event')
  <2>1. PICK none \in SUBSET Lines : none = {}
    OBVIOUS
  <2>2. PICK before : before = <<>>
    OBVIOUS
  <2>3. before \in [none -> Snapshots]
    BY <2>1, <2>2
  <2>4. before \in Befores
    BY <2>3 DEF Befores
  <2> QED
    BY <1>1, <2>2, <2>4, RecordOne
<1>4. Rows' /\ EntryStands' /\ PairsHold'
  BY <1>1, <1>2 DEF Kept, Rows, EntryStands, PairsHold
<1>5. Heard'
  <2>1. \A x \in Lines \ {l} : line'[x].figure = line[x].figure
    BY <1>1
  <2> QED
    BY <1>2, <2>1, HeardSettled
<1>6. /\ ruled' \subseteq Lines
      /\ \A x \in Lines : /\ line'[x].recon = line[x].recon
                          /\ line[x].recon # None => line'[x].figure = line[x].figure
  BY <1>1 DEF Kept, Others
<1> QED
  BY <1>2, <1>3, <1>4, <1>5, <1>6, FeedDone

-----------------------------------------------------------------------------
(* Kept always holds.                                                       *)

LEMMA KeptInit ==
  ASSUME BankInit
  PROVE  Kept
<1> USE BankAssumption
<1>1. \A p \in People : request[p] = NoRequest
  BY DEF BankInit
<1>2. NoRequest.op = "none" /\ Asked(NoRequest) /\ NoRequest.event = 0
  BY NoRequestIs
<1>3. event = <<>> /\ Len(event) = 0
  BY DEF BankInit
<1>4. Requested
  BY <1>1, <1>2, <1>3 DEF BankInit, Requested
<1>5. Logging
  BY <1>3 DEF Logging
<1>6. \A l \in Lines : /\ line[l].pair = None /\ line[l].figure = FirstFigure
                       /\ posted[l] = NoEntry /\ bank[l] = FirstFigure
                       /\ \A c \in Changes : revision[l][c] = "none"
  BY DEF BankInit
<1>7. Rows
  <2>1. [state |-> "new", coded |-> FALSE, split |-> FALSE, rows |-> 0, transfer |-> FALSE,
         pair |-> None, figure |-> FirstFigure, recon |-> None] \in Row
    BY DEF Row, States, Figured
  <2>2. NoEntry \in [kind : {"none", "own", "pair"}, figure : Figured]
    BY DEF NoEntry, Figured
  <2> QED
    BY <2>1, <2>2 DEF BankInit, Rows
<1>8. Others
  BY DEF BankInit, Others
<1>9. EntryStands /\ PairsHold
  BY <1>6 DEF EntryStands, PairsHold, NoEntry
<1>10. Heard
  BY <1>6 DEF Heard, Withdrawn
<1>11. Starting /\ Certificate
  BY <1>1, <1>2 DEF Starting, Certificate, Certified, BankInit
<1>12. Resolving
  BY <1>1, <1>2 DEF Resolving
<1> QED
  BY <1>4, <1>5, <1>7, <1>8, <1>9, <1>10, <1>11, <1>12 DEF Kept

LEMMA KeptNext ==
  ASSUME Kept, BankNext
  PROVE  Kept'
<1>1. ASSUME NEW p \in People, End(p) PROVE Kept'
  <2>1. CASE GiveUp(p)
    BY <2>1, KeptGiveUp
  <2>2. CASE CommitEdit(p)
    BY <2>2, KeptCommitEdit
  <2>3. CASE CommitNote(p)
    BY <2>3, KeptCommitNote
  <2>4. CASE CommitTransfer(p)
    BY <2>4, KeptCommitTransfer
  <2>5. CASE CommitUndo(p)
    BY <2>5, KeptCommitUndo
  <2>6. CASE \E state \in {"suggested", "categorized"} : CommitRule(p, state)
    BY <2>6, KeptCommitRule
  <2>7. CASE \E l \in Lines : CommitStart(p, Signed(l))
    BY <2>7, KeptCommitStart
  <2>8. CASE \E op \in {"clear", "unclear"} : CommitClear(p, op)
    BY <2>8, KeptCommitClear
  <2>9. CASE CommitComplete(p)
    BY <2>9, KeptSeal DEF CommitComplete
  <2>10. CASE CommitReopen(p)
    BY <2>10, KeptSeal DEF CommitReopen
  <2> QED
    BY <1>1, <2>1, <2>2, <2>3, <2>4, <2>5, <2>6, <2>7, <2>8, <2>9, <2>10 DEF End
<1>2. ASSUME NEW p \in People, Resolution(p) PROVE Kept'
  BY <1>2, KeptApplyWithdrawal, KeptApplyFigure, KeptDismiss DEF Resolution
<1> QED
  BY <1>1, <1>2, KeptBegin, KeptRetract, KeptRevise DEF BankNext

LEMMA AlwaysKept == BankSpec => []Kept
<1>1. BankInit => Kept
  BY KeptInit
<1>2. Kept /\ [BankNext]_bankVars => Kept'
  <2> SUFFICES ASSUME Kept, [BankNext]_bankVars PROVE Kept'
    OBVIOUS
  <2>1. CASE BankNext
    BY <2>1, KeptNext
  <2>2. CASE UNCHANGED bankVars
    <3> USE <2>2 DEF bankVars, history
    <3>1. Rows' /\ Logging' /\ Others' /\ Requested'
      BY DEF Kept, Rows, Logging, Others, Requested, Asked
    <3>2. EntryStands' /\ PairsHold' /\ Starting' /\ Resolving'
      BY DEF Kept, EntryStands, PairsHold, Starting, Resolving
    <3>3. Heard'
      BY DEF Kept, Heard
    <3>4. Certificate'
      <4> SUFFICES ASSUME NEW r \in Recs, Certified(r)' PROVE Balanced(r)' \/ r \in moved'
        BY DEF Certificate
      <4>1. Certified(r)
        BY DEF Certified
      <4>2. Balanced(r)' <=> Balanced(r)
        BY BalanceStays DEF Cleared
      <4> QED
        BY <4>1, <4>2 DEF Kept, Certificate
    <3> QED
      BY <3>1, <3>2, <3>3, <3>4 DEF Kept
  <2> QED
    BY <2>1, <2>2
<1> QED
  BY <1>1, <1>2, PTL DEF BankSpec

-----------------------------------------------------------------------------
(* What the runs check, for all lines, people, sessions and figures.        *)

(* Lines, entries, sessions, what the feed said, requests and audited changes *)
(* are what the tables and the handlers can hold.                            *)
THEOREM BankTypeCorrect == BankSpec => []BankTypeOK
<1>1. Kept => BankTypeOK
  <2> SUFFICES ASSUME Kept PROVE BankTypeOK
    OBVIOUS
  <2>1. ASSUME NEW p \in People
        PROVE  /\ request[p].op \in Ops \cup {"none"} /\ request[p].on \subseteq Lines
               /\ request[p].other \in Lines \cup Recs \cup {None}
               /\ request[p].event \in 0 .. Len(event)
               /\ request[p].change \in Changes \cup {NoChange}
    BY LenProperties DEF Kept, Requested, Asked, Logging
  <2>2. ASSUME NEW e \in ToSet(event)
        PROVE  /\ e.by \in People /\ e.undone \in BOOLEAN
               /\ e.at \in 1 .. MaxEvents /\ DOMAIN e.before \subseteq Lines
               /\ Range(e.before) \subseteq Snapshots
    <3>1. e \in Event
      BY DEF Kept, Logging, ToSet
    <3>2. PICK ls \in SUBSET Lines : e.before \in [ls -> Snapshots]
      BY <3>1 DEF Event, Befores
    <3> QED
      BY <3>1, <3>2 DEF Event, Range
  <2> QED
    BY <2>1, <2>2 DEF BankTypeOK, Kept, Rows, Others
<1> QED
  BY <1>1, AlwaysKept, PTL

(* An entry carries its line at the figure the line shows, and stands for a  *)
(* line that is in the books, whatever edits, the feed and undo overtake each *)
(* other; but for a line a rule wrote having read an earlier row.             *)
THEOREM BooksFollowTheLines == BankSpec => []EntryStands
<1>1. Kept => EntryStands
  BY DEF Kept
<1> QED
  BY <1>1, AlwaysKept, PTL

(* The two legs of a transfer are one entry: no leg's money is in two, unless *)
(* undo took the leg out of its pair or it was paired again.                  *)
THEOREM CountedOnce == BankSpec => []MoneyMovesOnce
<1>1. Kept => MoneyMovesOnce
  <2> SUFFICES ASSUME Kept, NEW l \in Lines, l \notin unpaired
               PROVE  Cardinality(Counted(l)) <= 1
    BY DEF MoneyMovesOnce
  <2>1. \E x : Counted(l) \subseteq {x}
    <3>1. CASE \E k \in Lines : posted[k].kind = "pair" /\ line[k].pair = l
      BY <3>1 DEF Counted, Kept, PairsHold
    <3>2. CASE ~ \E k \in Lines : posted[k].kind = "pair" /\ line[k].pair = l
      BY <3>2 DEF Counted
    <3> QED
      BY <3>1, <3>2
  <2>2. PICK x : Counted(l) = {} \/ Counted(l) = {x}
    BY <2>1
  <2>3. Cardinality({}) = 0 /\ Cardinality({x}) = 1
    BY FS_EmptySet, FS_Singleton
  <2> QED
    BY <2>2, <2>3
<1> QED
  BY <1>1, AlwaysKept, PTL

(* A completed reconciliation goes on adding up to its statement, unless     *)
(* lines were moved into or out of it.                                       *)
THEOREM CompletedStaysBalanced == BankSpec => []CertificateStands
<1>1. Kept => CertificateStands
  BY DEF Kept, Certificate, CertificateStands, Certified
<1> QED
  BY <1>1, AlwaysKept, PTL

(* What the bank said last is what the line shows or was written down for a   *)
(* person, unless it agreed with the line when it was said.                   *)
THEOREM BankIsHeard == BankSpec => []FeedIsHeard
<1>1. Kept => FeedIsHeard
  BY DEF Kept, Heard, FeedIsHeard
<1> QED
  BY <1>1, AlwaysKept, PTL

\* The entry of l changes, or what the books know of it.
Disturbed(l) == posted'[l] # posted[l] \/ Snapshot(line[l])' # Snapshot(line[l])

\* Somebody's request ends that may do so.
Answerable(l) ==
  \E p \in People : /\ ~ Idle(p) /\ Idle(p)'
                    /\ request[p].op \in {"reopen", "undo"} \/ Overtaken(p, l)

(* A line that is not written is not disturbed, nor is one whose figure or    *)
(* session alone changes.                                                    *)
LEMMA Undisturbed ==
  ASSUME NEW l, posted'[l] = posted[l],
         line'[l].state = line[l].state, line'[l].coded = line[l].coded,
         line'[l].split = line[l].split, line'[l].transfer = line[l].transfer
  PROVE  ~ Disturbed(l)
BY DEF Disturbed, Snapshot

(* Whoever decides about l has read it before it was reconciled.             *)
LEMMA DecidedEarlier ==
  ASSUME Kept, NEW p \in People, NEW l \in Lines, line[l].state = "reconciled",
         request' = [request EXCEPT ![p] = NoRequest],
         \/ request[p].op \in Deciding /\ l \in request[p].on
         \/ request[p].op \in {"reopen", "undo"}
  PROVE  Answerable(l)
<1>1. request'[p] = NoRequest
  BY DEF Kept, Requested
<1>2. NoRequest.op = "none"
  BY NoRequestIs
<1>3. request[p] # NoRequest
  BY <1>2 DEF Deciding
<1>4. request[p].op \in {"reopen", "undo"} \/ Overtaken(p, l)
  <2>1. CASE request[p].op \in Deciding /\ l \in request[p].on
    <3>1. request[p].seen[l].state # "reconciled"
      BY <2>1 DEF Kept, Requested, Asked
    <3> QED
      BY <2>1, <3>1 DEF Overtaken
  <2> QED
    BY <2>1
<1> QED
  BY <1>1, <1>3, <1>4 DEF Answerable, Idle

LEMMA DisturbedByPeople ==
  ASSUME Kept, NEW p \in People, End(p), NEW l \in Lines, line[l].state = "reconciled", Disturbed(l)
  PROVE  Answerable(l)
<1>1. CASE GiveUp(p)
  BY <1>1, Undisturbed DEF GiveUp
<1>2. CASE CommitEdit(p)
  <2>1. request[p].op \in Deciding /\ request' = [request EXCEPT ![p] = NoRequest]
    BY <1>2 DEF CommitEdit, Commit, Deciding
  <2>2. CASE l \notin request[p].on
    <3>1. line'[l] = line[l] /\ posted'[l] = posted[l]
      BY <1>2, <2>2 DEF CommitEdit, WriteAndSync
    <3> QED
      BY <3>1, Undisturbed
  <2> QED
    BY <2>1, <2>2, DecidedEarlier
<1>3. CASE CommitNote(p)
  BY <1>3, Undisturbed DEF CommitNote
<1>4. CASE CommitTransfer(p)
  <2>1. request[p].op \in Deciding /\ request' = [request EXCEPT ![p] = NoRequest]
    BY <1>4 DEF CommitTransfer, Commit, Deciding
  <2>2. CASE l \notin request[p].on
    <3>1. line'[l] = line[l] /\ posted'[l] = posted[l]
      BY <1>4, <2>2 DEF CommitTransfer
    <3> QED
      BY <3>1, Undisturbed
  <2> QED
    BY <2>1, <2>2, DecidedEarlier
<1>5. CASE CommitUndo(p)
  BY <1>5, DecidedEarlier DEF CommitUndo, Commit
<1>6. CASE \E state \in {"suggested", "categorized"} : CommitRule(p, state)
  <2>1. PICK state \in {"suggested", "categorized"} : CommitRule(p, state)
    BY <1>6
  <2>2. request[p].op \in Deciding /\ request' = [request EXCEPT ![p] = NoRequest]
    BY <2>1 DEF CommitRule, Commit, Deciding
  <2>3. CASE l \notin request[p].on
    <3>1. line'[l] = line[l] /\ posted'[l] = posted[l]
      BY <2>1, <2>3 DEF CommitRule
    <3> QED
      BY <3>1, Undisturbed
  <2> QED
    BY <2>2, <2>3, DecidedEarlier
<1>7. CASE \E x \in Lines : CommitStart(p, Signed(x))
  BY <1>7, Undisturbed DEF CommitStart, CommitSession
<1>8. CASE \E op \in {"clear", "unclear"} : CommitClear(p, op)
  <2>1. PICK op \in {"clear", "unclear"} : CommitClear(p, op)
    BY <1>8
  <2>2. PICK row \in Row : row = line[l]
    BY DEF Kept, Rows
  <2>3. PICK to : line'[l] = row \/ line'[l] = [row EXCEPT !.recon = to]
    BY <2>1, <2>2 DEF CommitClear
  <2>4. posted'[l] = posted[l]
    BY <2>1 DEF CommitClear, CommitSession
  <2>5. /\ line'[l].state = line[l].state /\ line'[l].coded = line[l].coded
        /\ line'[l].split = line[l].split /\ line'[l].transfer = line[l].transfer
    BY <2>2, <2>3 DEF Row
  <2> QED
    BY <2>4, <2>5, Undisturbed
<1>9. CASE CommitComplete(p)
  <2>1. PICK row \in Row : row = line[l]
    BY DEF Kept, Rows
  <2>2. line'[l] = row \/ line'[l] = [row EXCEPT !.state = "reconciled"]
    BY <1>9, <2>1 DEF CommitComplete, Seal
  <2>3. posted'[l] = posted[l]
    BY <1>9 DEF CommitComplete, CommitSession
  <2>4. /\ line'[l].state = line[l].state /\ line'[l].coded = line[l].coded
        /\ line'[l].split = line[l].split /\ line'[l].transfer = line[l].transfer
    BY <2>1, <2>2 DEF Row
  <2> QED
    BY <2>3, <2>4, Undisturbed
<1>10. CASE CommitReopen(p)
  BY <1>10, DecidedEarlier DEF CommitReopen, CommitSession
<1> QED
  BY <1>1, <1>2, <1>3, <1>4, <1>5, <1>6, <1>7, <1>8, <1>9, <1>10 DEF End

(* A correction of a figure is not of what the books know of a line.          *)
LEMMA NotDisturbedByFigures ==
  ASSUME Kept, NEW l \in Lines, NEW x \in Lines, NEW f \in Figures, Revise(x, f)
  PROVE  ~ Disturbed(l)
<1>1. posted' = posted
  BY DEF Revise, SaysNothingNew
<1>2. PICK row \in Row : row = line[l]
  BY DEF Kept, Rows
<1>3. line'[l] = row \/ line'[l] = [row EXCEPT !.figure = f]
  BY <1>2 DEF Revise, SaysNothingNew, Kept, Rows
<1>4. /\ line'[l].state = line[l].state /\ line'[l].coded = line[l].coded
      /\ line'[l].split = line[l].split /\ line'[l].transfer = line[l].transfer
  BY <1>2, <1>3 DEF Row
<1> QED
  BY <1>1, <1>4, Undisturbed

(* A withdrawal, and what people make of a change that was held, writes lines *)
(* that nothing holds back, and leaves a reconciled one in peace.             *)
LEMMA NotDisturbedByFeed ==
  ASSUME Kept, NEW l \in Lines, line[l].state = "reconciled", NEW x \in Lines,
         NEW p \in People, NEW f \in Figures,
         \/ Retract(p, x) \/ ApplyWithdrawal(p, x) \/ ApplyFigure(p, x, f)
         \/ DismissRevision(p)
  PROVE  ~ Disturbed(l)
<1>1. HeldByPeople(l) /\ Holds(l)
  BY DEF HeldByPeople, Holds
<1>2. ASSUME Exclude(p, x), x # l
      PROVE  line'[l] = line[l] /\ posted'[l] = posted[l]
  BY <1>2 DEF Exclude, WriteAndSync
<1>3. CASE Retract(p, x)
  <2>1. line'[l] = line[l] /\ posted'[l] = posted[l]
    BY <1>1, <1>2, <1>3 DEF Retract, SaysNothingNew
  <2> QED
    BY <2>1, Undisturbed
<1>4. CASE ApplyWithdrawal(p, x)
  <2>1. line'[l] = line[l] /\ posted'[l] = posted[l]
    BY <1>1, <1>2, <1>4 DEF ApplyWithdrawal
  <2> QED
    BY <2>1, Undisturbed
<1>5. CASE ApplyFigure(p, x, f)
  <2>1. x # l
    BY <1>1, <1>5 DEF ApplyFigure
  <2>2. line'[l] = line[l] /\ posted'[l] = posted[l]
    BY <1>5, <2>1 DEF ApplyFigure, WriteAndSync, Kept, Rows
  <2> QED
    BY <2>2, Undisturbed
<1>6. CASE DismissRevision(p)
  BY <1>6, Undisturbed DEF DismissRevision
<1> QED
  BY <1>3, <1>4, <1>5, <1>6

(* A request begins by reading.                                              *)
LEMMA BeginningReads ==
  ASSUME NEW p \in People, Begin(p)
  PROVE  UNCHANGED <<line, posted>>
<1>1. ASSUME NEW op, NEW ls, NEW other, Read(p, op, ls, other)
      PROVE  UNCHANGED <<line, posted>>
  BY <1>1 DEF Read
<1>2. CASE \E ls \in SUBSET Lines : BeginCategorize(p, ls) \/ BeginRule(p, ls)
  BY <1>1, <1>2 DEF BeginCategorize, BeginRule
<1>3. CASE \E l \in Lines : BeginSplit(p, l) \/ BeginExclude(p, l) \/ BeginAccept(p, l)
                              \/ BeginNote(p, l)
  BY <1>1, <1>3 DEF BeginSplit, BeginExclude, BeginAccept, BeginNote
<1>4. CASE \E l \in Lines, m \in Lines \cup {None} : BeginTransfer(p, l, m)
  BY <1>1, <1>4 DEF BeginTransfer
<1>5. CASE \E i \in DOMAIN event : BeginUndo(p, i)
  BY <1>5 DEF BeginUndo
<1>6. CASE \E r \in Recs : BeginStart(p, r) \/ BeginComplete(p, r) \/ BeginReopen(p, r)
  BY <1>1, <1>6 DEF BeginStart, BeginComplete, BeginReopen
<1>7. CASE \E r \in Recs, op \in {"clear", "unclear"}, ls \in SUBSET Lines : BeginClear(p, op, ls, r)
  BY <1>1, <1>7 DEF BeginClear
<1>8. CASE \E l \in Lines, change \in Changes : BeginResolve(p, l, change)
  BY <1>8 DEF BeginResolve
<1> QED
  BY <1>2, <1>3, <1>4, <1>5, <1>6, <1>7, <1>8 DEF Begin

(* A reconciled line is disturbed only when its session is reopened, by undo,  *)
(* or by a request that read it before it was reconciled.                     *)
THEOREM ReconciledIsLeftAlone == BankSpec => ReconciledStands
<1>1. ASSUME Kept, BankNext, NEW l \in Lines, line[l].state = "reconciled", Disturbed(l)
      PROVE  Answerable(l)
  <2>1. CASE \E p \in People : Begin(p)
    <3>1. UNCHANGED <<line, posted>>
      BY <2>1, BeginningReads
    <3> QED
      BY <1>1, <3>1, Undisturbed
  <2>2. CASE \E p \in People : End(p)
    BY <1>1, <2>2, DisturbedByPeople
  <2>3. CASE \E p \in People : Resolution(p)
    <3>1. FirstFigure \in Figures
      BY BankAssumption
    <3> QED
      BY <1>1, <2>3, <3>1, NotDisturbedByFeed DEF Resolution
  <2>4. CASE \E x \in Lines, p \in People : Retract(p, x)
    <3>1. FirstFigure \in Figures
      BY BankAssumption
    <3> QED
      BY <1>1, <2>4, <3>1, NotDisturbedByFeed
  <2>5. CASE \E x \in Lines, f \in Figures : Revise(x, f)
    BY <1>1, <2>5, NotDisturbedByFigures
  <2> QED
    BY <1>1, <2>1, <2>2, <2>3, <2>4, <2>5 DEF BankNext
<1>2. Kept /\ [BankNext]_bankVars =>
        [\A l \in Lines :
           line[l].state = "reconciled"
             /\ (posted'[l] # posted[l] \/ Snapshot(line[l])' # Snapshot(line[l]))
           => \E p \in People :
                /\ ~ Idle(p) /\ Idle(p)'
                /\ request[p].op \in {"reopen", "undo"} \/ Overtaken(p, l)]_bankVars
  <2> SUFFICES ASSUME Kept, BankNext, NEW l \in Lines, line[l].state = "reconciled",
                      posted'[l] # posted[l] \/ Snapshot(line[l])' # Snapshot(line[l])
               PROVE  \E p \in People :
                        /\ ~ Idle(p) /\ Idle(p)'
                        /\ request[p].op \in {"reopen", "undo"} \/ Overtaken(p, l)
    OBVIOUS
  <2>1. Answerable(l)
    BY <1>1 DEF Disturbed
  <2> QED
    BY <2>1 DEF Answerable
<1> QED
  BY <1>2, AlwaysKept, PTL DEF BankSpec, ReconciledStands
=============================================================================
