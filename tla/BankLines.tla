----------------------------- MODULE BankLines ------------------------------
(***************************************************************************)
(* The lines of a bank feed, from the inbox to the books:                  *)
(* what people decide about them                                           *)
(* (src/src/modules/bookkeeping/transactions.ts, rules-engine.ts), the     *)
(* entry the ledger derives (src/src/modules/ledger/posting.ts), their     *)
(* reconciliation (src/src/modules/reconciliation/service.ts) and what the *)
(* feed revises or withdraws later                                         *)
(* (src/src/modules/banking/revision-service.ts, revisions.ts).            *)
(*                                                                         *)
(* A request reads the lines it is about, and checks them, before its      *)
(* transaction begins; the transaction, which takes the rows' locks, does  *)
(* not look again.  A request is those two steps, one request per person.  *)
(* What the feed says is decided with the row locked, in one step; what a  *)
(* person decides about it, in two: the revision is read before the lock.  *)
(***************************************************************************)
EXTENDS Integers, Sequences, FiniteSets, FiniteSetsExt, SequencesExt

CONSTANTS
  Lines,       \* bank transactions
  Outgoing,    \* those with a negative amount
  AccountOf,   \* the financial account of each
  People,      \* users with a request in flight
  Recs,        \* reconciliations
  RecAccount,  \* the account that is reconciled
  Figures,     \* the figures a feed gives for a line: its amount and date
  FirstFigure,
  None,
  MaxEvents,   \* bound: audited changes of lines
  Scenarios    \* bound: which Scenario the instance goes through

ASSUME BankAssumption ==
  /\ Outgoing \subseteq Lines /\ DOMAIN AccountOf = Lines
  /\ Figures \subseteq Nat \ {0} /\ FirstFigure \in Figures
  /\ None \notin Lines \cup Recs /\ MaxEvents \in Nat

Edits     == {"categorize", "split", "exclude", "accept", "note", "rule"}
Sessions  == {"start", "clear", "unclear", "complete", "reopen"}
FeedOps   == {"revise", "retract", "resolve"}
Ops       == Edits \cup Sessions \cup FeedOps \cup {"transfer", "undo"}

\* What is done, to which lines, and how many changes are audited.
Scenario == [does : SUBSET Ops, lines : SUBSET Lines, events : 0 .. MaxEvents]

ASSUME ScenarioAssumption == Scenarios \subseteq Scenario

VARIABLES
  scenario,  \* never changes
  line,      \* the row of each line
  posted,    \* the posted journal entry whose source is the line
  rec,       \* the reconciliations, and the total each statement asks for
  revision,  \* bank_transaction_revisions: what became of what the feed said
  bank,      \* what the feed said last: a figure, or that there is no line
  request,   \* what each person's request has read
  event,     \* the audit trail of the lines, as undo sees it
  ruled,     \* history: lines a rule wrote having read an earlier row
  unpaired,  \* history: legs taken out of a pair, or paired again
  moved,     \* history: reconciliations whose cleared lines were changed
             \* while they were, or were about to be, completed
  unsaid     \* history: lines whose last word from the bank was what they
             \* showed, so that it is written down nowhere

history  == <<ruled, unpaired, moved, unsaid>>
bankVars == <<scenario, line, posted, rec, revision, bank, request, event, history>>

Figured == Figures \cup {0}
Changes == {"revision", "retraction"} \X Figures
States  == {"new", "suggested", "categorized", "excluded", "matched", "reconciled"}
Withdrawn == 0

\* rows: the total of the line's split rows, 0 if it has none.
Row == [state : States, coded : BOOLEAN, split : BOOLEAN, rows : Figured,
        transfer : BOOLEAN, pair : Lines \cup {None}, figure : Figures,
        recon : Recs \cup {None}]

Snapshots == [state : States, coded : BOOLEAN, split : BOOLEAN, transfer : BOOLEAN]

NoEntry == [kind |-> "none", figure |-> 0]
NoChange == <<"none", 0>>
NoRequest == [op |-> "none", on |-> {}, other |-> None, seen |-> <<>>, event |-> 0,
              change |-> NoChange]

BankTypeOK ==
  /\ line \in [Lines -> Row]
  /\ posted \in [Lines -> [kind : {"none", "own", "pair"}, figure : Figured]]
  /\ rec \in [Recs -> [status : {"none", "in_progress", "completed", "reopened"},
                       due : Int]]
  /\ revision \in [Lines -> [Changes -> {"none", "held", "applied", "dismissed"}]]
  /\ bank \in [Lines -> Figures \cup {Withdrawn}]
  /\ \A p \in People :
       /\ request[p].op \in Ops \cup {"none"} /\ request[p].on \subseteq Lines
       /\ request[p].other \in Lines \cup Recs \cup {None}
       /\ request[p].event \in 0 .. Len(event)
       /\ request[p].change \in Changes \cup {NoChange}
  /\ \A e \in ToSet(event) : /\ e.by \in People /\ e.undone \in BOOLEAN
                             /\ e.at \in 1 .. MaxEvents /\ DOMAIN e.before \subseteq Lines
                             /\ Range(e.before) \subseteq Snapshots
  /\ ruled \subseteq Lines /\ unpaired \subseteq Lines
  /\ moved \subseteq Recs /\ unsaid \subseteq Lines
  /\ scenario \in Scenarios

BankInit ==
  /\ scenario \in Scenarios
  /\ line = [l \in Lines |->
       [state |-> "new", coded |-> FALSE, split |-> FALSE, rows |-> 0, transfer |-> FALSE,
        pair |-> None, figure |-> FirstFigure, recon |-> None]]
  /\ posted = [l \in Lines |-> NoEntry]
  /\ rec = [r \in Recs |-> [status |-> "none", due |-> 0]]
  /\ revision = [l \in Lines |-> [c \in Changes |-> "none"]]
  /\ bank = [l \in Lines |-> FirstFigure]
  /\ request = [p \in People |-> NoRequest]
  /\ event = <<>>
  /\ ruled = {} /\ unpaired = {} /\ moved = {} /\ unsaid = {}

-----------------------------------------------------------------------------
(* What the ledger derives from a line (posting.ts).                        *)

\* MUTANT: a leg of a transfer is posted like any other line.
PostableLeg(row) ==
  /\ row.state \in {"categorized", "reconciled"}
  /\ IF row.split THEN row.rows # 0 ELSE row.coded

\* buildLines(): the lines that have an entry of their own.
Postable(row) ==
  /\ ~ row.transfer /\ row.state \in {"categorized", "reconciled"}
  /\ IF row.split THEN row.rows # 0 ELSE row.coded

\* An entry that does not balance is refused, and its transaction with it.
Balances(row) == Postable(row) /\ row.split => row.rows = row.figure

\* syncLedgerForTransaction(): what stood is voided, what should stand posted.
Synced(row) == IF Postable(row) THEN [kind |-> "own", figure |-> row.figure] ELSE NoEntry

\* The rows of ls become new[l] and the ledger follows.
WriteAndSync(ls, new) ==
  /\ \A l \in ls : Balances(new[l])
  /\ line' = [l \in Lines |-> IF l \in ls THEN new[l] ELSE line[l]]
  /\ posted' = [l \in Lines |-> IF l \in ls THEN Synced(new[l]) ELSE posted[l]]

-----------------------------------------------------------------------------
(* A person's request: the reading half.                                    *)

Idle(p) == request[p] = NoRequest

Read(p, op, ls, other) ==
  /\ Idle(p) /\ op \in scenario.does /\ ls \subseteq scenario.lines
  /\ request' = [request EXCEPT ![p] =
       [NoRequest EXCEPT !.op = op, !.on = ls, !.other = other,
                         !.seen = [l \in ls |-> line[l]]]]
  /\ UNCHANGED <<scenario, line, posted, rec, revision, bank, event, history>>

\* MUTANT: a reconciled line is not refused.
EditableAlways(l) == l \in Lines

\* loadEditableTransaction(), assertEditable().
Editable(l) == line[l].state # "reconciled"

BeginCategorize(p, ls) ==   \* categorize(), bulkCategorize()
  /\ ls # {} /\ \A l \in ls : Editable(l)
  /\ Read(p, "categorize", ls, None)

BeginSplit(p, l) == Editable(l) /\ Read(p, "split", {l}, None)

BeginExclude(p, l) == Editable(l) /\ Read(p, "exclude", {l}, None)

BeginAccept(p, l) == line[l].state = "suggested" /\ line[l].coded /\ Read(p, "accept", {l}, None)

BeginNote(p, l) == Read(p, "note", {l}, None)

\* applyRuleToExisting(), applyRulesToNewTransactions().
BeginRule(p, ls) ==
  /\ ls # {} /\ \A l \in ls : line[l].state \in {"new", "suggested"}
  /\ Read(p, "rule", ls, None)

BeginTransfer(p, l, m) ==
  /\ Editable(l)
  /\ m # None => /\ Editable(m) /\ line[m].figure = line[l].figure
                 /\ AccountOf[m] # AccountOf[l] /\ (m \in Outgoing) # (l \in Outgoing)
  /\ Read(p, "transfer", {l, m} \ {None}, m)

\* lastUndoableEvent(): the person's latest change not undone yet; those of
\* one transaction carry the same time.
NextUndone(p, i) ==
  LET mine == {j \in DOMAIN event : event[j].by = p /\ ~ event[j].undone}
  IN i \in mine /\ \A j \in mine : event[j].at <= event[i].at

BeginUndo(p, i) ==
  /\ Idle(p) /\ "undo" \in scenario.does /\ NextUndone(p, i)
  /\ request' = [request EXCEPT ![p] = [NoRequest EXCEPT !.op = "undo", !.event = i]]
  /\ UNCHANGED <<scenario, line, posted, rec, revision, bank, event, history>>

\* A check fails, a period is closed, the connection drops: nothing is kept.
GiveUp(p) ==
  /\ ~ Idle(p)
  /\ request' = [request EXCEPT ![p] = NoRequest]
  /\ UNCHANGED <<scenario, line, posted, rec, revision, bank, event, history>>

-----------------------------------------------------------------------------
(* The writing half.                                                        *)

\* MUTANT: the snapshot leaves the transfer flag out.
SnapshotOfCoding(row) == [state |-> row.state, coded |-> row.coded, split |-> row.split]

\* snapshot(), and what undo makes of a snapshot that lacks the fields.
Snapshot(row) ==
  [state |-> row.state, coded |-> row.coded, split |-> row.split, transfer |-> row.transfer]
Bare(state) == [state |-> state, coded |-> FALSE, split |-> FALSE, transfer |-> FALSE]

\* recordAudit(): the events of one transaction that p can undo.
Record(p, befores) ==
  /\ Len(event) + Len(befores) <= scenario.events
  /\ event' = event \o [i \in DOMAIN befores |->
       [by |-> p, before |-> befores[i], undone |-> FALSE, at |-> Len(event) + 1]]

Seen(p) == [l \in request[p].on |-> Snapshot(request[p].seen[l])]

Overtaken(p, l) == l \in request[p].on /\ request[p].seen[l] # line[l]

\* p's request about the lines commits.
Commit(p) ==
  /\ request' = [request EXCEPT ![p] = NoRequest]
  /\ UNCHANGED <<scenario, rec, revision, bank, moved, unsaid>>

\* What each edit makes of the row, having read `seen`.
Edited(op, row, seen) ==
  CASE op = "categorize" -> [row EXCEPT !.state = "categorized", !.coded = TRUE, !.split = FALSE,
                                        !.rows = IF seen.split THEN 0 ELSE @]
    [] op = "split"      -> [row EXCEPT !.state = "categorized", !.coded = FALSE, !.split = TRUE,
                                        !.rows = seen.figure]
    [] op = "exclude"    -> [row EXCEPT !.state = "excluded"]
    [] op = "accept"     -> [row EXCEPT !.state = "categorized"]

CommitEdit(p) ==
  LET q == request[p] IN
  /\ q.op \in {"categorize", "split", "exclude", "accept"}
  /\ WriteAndSync(q.on, [l \in q.on |-> Edited(q.op, line[l], q.seen[l])])
  /\ Record(p, <<Seen(p)>>)
  /\ ruled' = ruled \ q.on
  /\ Commit(p) /\ UNCHANGED unpaired

CommitNote(p) ==
  /\ request[p].op = "note"
  /\ Record(p, <<Seen(p)>>)
  /\ Commit(p) /\ UNCHANGED <<line, posted, unpaired, ruled>>

\* A rule writes the category and does not touch the ledger; `state` is what
\* its action says.
CommitRule(p, state) ==
  LET on == request[p].on IN
  /\ request[p].op = "rule"
  /\ line' = [l \in Lines |-> IF l \in on THEN [line[l] EXCEPT !.coded = TRUE, !.state = state]
                              ELSE line[l]]
  /\ Record(p, <<[l \in on |-> [Bare(Seen(p)[l].state) EXCEPT !.coded = Seen(p)[l].coded]]>>)
  /\ ruled' = ruled \cup {l \in on : Overtaken(p, l)}
  /\ Commit(p) /\ UNCHANGED <<posted, unpaired>>

\* markAsTransfer(), syncLedgerForTransferPair(): one entry, its source the
\* leg the money leaves; unpostTransaction() if there is no other leg yet.
CommitTransfer(p) ==
  LET q == request[p]
      m == q.other
      Other(l) == IF m = None THEN None ELSE CHOOSE k \in q.on : k # l
  IN /\ q.op = "transfer"
     /\ line' = [l \in Lines |-> IF l \in q.on
                                 THEN [line[l] EXCEPT !.state = "matched", !.transfer = TRUE,
                                                      !.pair = Other(l)]
                                 ELSE line[l]]
     /\ posted' = [l \in Lines |->
          IF l \notin q.on THEN posted[l]
          ELSE IF m # None /\ l \in Outgoing THEN [kind |-> "pair", figure |-> line[l].figure]
          ELSE NoEntry]
     /\ Record(p, <<[l \in q.on \ {m} |-> Seen(p)[l]]>>)
     /\ ruled' = ruled \ q.on
     /\ unpaired' = unpaired \cup {l \in Lines : line[l].pair # None /\ l \in q.on}
     /\ Commit(p)

\* undoLast(): the snapshots are put back as they were, the pairing is not.
\* An event without a snapshot is passed over, and stays the next to undo.
CommitUndo(p) ==
  LET i == request[p].event
      back == event[i].before
      ls == DOMAIN back
      Restored(l) == [line[l] EXCEPT !.state = back[l].state, !.coded = back[l].coded,
                                     !.split = back[l].split, !.transfer = back[l].transfer,
                                     !.rows = IF back[l].split THEN @ ELSE 0]
  IN /\ request[p].op = "undo"
     /\ WriteAndSync(ls, [l \in ls |-> Restored(l)])
     /\ event' = [event EXCEPT ![i].undone = (ls # {})]
     /\ unpaired' = unpaired \cup {l \in ls : line[l].transfer /\ ~ back[l].transfer}
     /\ ruled' = ruled \ ls
     /\ Commit(p)

-----------------------------------------------------------------------------
(* Reconciliation (reconciliation/service.ts).                              *)

Signed(l) == IF l \in Outgoing THEN - line[l].figure ELSE line[l].figure

Cleared(r) == {l \in Lines : line[l].recon = r}

\* summarize(): the difference is zero.
Balanced(r) == MapThenSumSet(Signed, Cleared(r)) = rec[r].due

\* p's request about the session commits.
CommitSession(p, op) ==
  /\ request[p].op = op
  /\ request' = [request EXCEPT ![p] = NoRequest]
  /\ UNCHANGED <<scenario, posted, revision, bank, event, ruled, unpaired, unsaid>>

BeginStart(p, r) ==
  /\ rec[r].status = "none" /\ \A q \in People : request[q].other # r
  /\ \A q \in Recs : rec[q].status # "in_progress"
  /\ Read(p, "start", {}, r)

\* `due` is what the statement asks to be cleared.
CommitStart(p, due) ==
  /\ CommitSession(p, "start")
  /\ rec' = [rec EXCEPT ![request[p].other] = [status |-> "in_progress", due |-> due]]
  /\ UNCHANGED <<line, moved>>

\* setCleared(): the lines are asked to be of the account, and no more.
BeginClear(p, op, ls, r) ==
  /\ ls # {} /\ \A l \in ls : AccountOf[l] = RecAccount
  /\ rec[r].status \in {"in_progress", "reopened"}
  /\ Read(p, op, ls, r)

Certified(r) ==
  \/ rec[r].status = "completed"
  \/ \E p \in People : request[p].op = "complete" /\ request[p].other = r

CommitClear(p, op) ==
  LET on == request[p].on
      to == IF op = "clear" THEN request[p].other ELSE None
  IN /\ CommitSession(p, op)
     /\ line' = [l \in Lines |-> IF l \in on THEN [line[l] EXCEPT !.recon = to] ELSE line[l]]
     /\ moved' = moved \cup {r \in Recs : /\ Certified(r)
                                         /\ \E l \in on : r \in {line[l].recon, to}
                                                          /\ line[l].recon # to}
     /\ UNCHANGED rec

BeginComplete(p, r) ==
  rec[r].status = "in_progress" /\ Balanced(r) /\ Read(p, "complete", {}, r)

\* The lines cleared by now become `state`, the session `status`.
Seal(r, status, state) ==
  /\ rec' = [rec EXCEPT ![r].status = status]
  /\ line' = [l \in Lines |-> IF l \in Cleared(r) THEN [line[l] EXCEPT !.state = state]
                              ELSE line[l]]
  /\ UNCHANGED moved

CommitComplete(p) ==
  CommitSession(p, "complete") /\ Seal(request[p].other, "completed", "reconciled")

BeginReopen(p, r) == rec[r].status = "completed" /\ Read(p, "reopen", {}, r)

\* From here the session can be cleared, and never completed.
CommitReopen(p) ==
  CommitSession(p, "reopen") /\ Seal(request[p].other, "reopened", "categorized")

-----------------------------------------------------------------------------
(* The feed (revision-service.ts).                                          *)

\* MUTANT: neither a reconciled nor a cleared line holds a change back.
HeldUnlessReconciled(l) ==
  line[l].state = "matched" \/ line[l].split \/ line[l].transfer \/ line[l].pair # None

\* FEED_CHANGE_HOLDS but the last: what has to be undone first.  Only a change
\* of the figure asks; one of the description, or of `pending', is written
\* onto the row whatever has been derived from it, and is left out.
HeldByPeople(l) ==
  \/ line[l].state \in {"reconciled", "matched"} \/ line[l].recon # None
  \/ line[l].split \/ line[l].transfer \/ line[l].pair # None

\* MUTANT: a posted entry does not hold a change back.
HoldsUnlessPosted(l) == HeldByPeople(l)

Holds(l) == HeldByPeople(l) \/ posted[l] # NoEntry

\* MUTANT: a change that is held is not logged.
LoggedIfApplied(l, change, disposition) ==
  revision' = IF disposition = "held" \/ revision[l][change] # "none" THEN revision
              ELSE [revision EXCEPT ![l][change] = disposition]

\* A change already in the log is not recorded again, whatever became of it.
Logged(l, change, disposition) ==
  revision' = IF revision[l][change] # "none" THEN revision
              ELSE [revision EXCEPT ![l][change] = disposition]

\* The feed may say again what it said before; it is decided again.
Says(l, what) ==
  /\ l \in scenario.lines
  /\ bank' = [bank EXCEPT ![l] = what]
  /\ UNCHANGED <<scenario, rec, request, ruled, unpaired, moved>>

\* The feed says what the line shows already: nothing is written down.
SaysNothingNew(l, what) ==
  /\ Says(l, what)
  /\ unsaid' = IF bank[l] = what THEN unsaid ELSE unsaid \cup {l}
  /\ UNCHANGED <<line, posted, revision, event>>

\* recordRevisions(): the feed sends the line again, with the figure f.
Revise(l, f) ==
  /\ "revise" \in scenario.does
  /\ IF f = line[l].figure THEN SaysNothingNew(l, f)
     ELSE /\ Says(l, f)
          /\ IF Holds(l)
             THEN Logged(l, <<"revision", f>>, "held") /\ UNCHANGED line
             ELSE Logged(l, <<"revision", f>>, "applied") /\ line' = [line EXCEPT ![l].figure = f]
          /\ unsaid' = unsaid \ {l}
          /\ UNCHANGED <<posted, event>>

\* excludeTransaction(), and the withdrawal's own event, whose snapshot has
\* the state and nothing else.
Exclude(p, l) ==
  /\ WriteAndSync({l}, [k \in {l} |-> [line[l] EXCEPT !.state = "excluded"]])
  /\ Record(p, <<[k \in {l} |-> Snapshot(line[l])], [k \in {l} |-> Bare(line[l].state)]>>)

\* recordRetractions(): the feed withdraws the line, in a sync run as p.
Retract(p, l) ==
  LET change == <<"retraction", line[l].figure>> IN
  /\ "retract" \in scenario.does
  /\ IF line[l].state = "excluded" THEN SaysNothingNew(l, Withdrawn)
     ELSE /\ Says(l, Withdrawn)
          /\ IF Holds(l)
             THEN Logged(l, change, "held") /\ UNCHANGED <<line, posted, event>>
             ELSE Logged(l, change, "applied") /\ Exclude(p, l)
          /\ unsaid' = unsaid \ {l}

\* loadHeld(): the revision is read before the row's lock is taken.
BeginResolve(p, l, change) ==
  /\ Idle(p) /\ "resolve" \in scenario.does /\ l \in scenario.lines
  /\ revision[l][change] = "held"
  /\ request' = [request EXCEPT ![p] =
       [NoRequest EXCEPT !.op = "resolve", !.other = l, !.change = change]]
  /\ UNCHANGED <<scenario, line, posted, rec, revision, bank, event, history>>

\* Whatever has become of the revision meanwhile.
Resolve(p, disposition) ==
  LET q == request[p] IN
  /\ q.op = "resolve"
  /\ revision' = [revision EXCEPT ![q.other][q.change] = disposition]
  /\ request' = [request EXCEPT ![p] = NoRequest]
  /\ UNCHANGED <<scenario, rec, bank, unpaired, moved, unsaid>>

\* applyHeldChange(): decided again; only a posted entry may still stand.
ApplyWithdrawal(p, l) ==
  /\ request[p].other = l /\ request[p].change[1] = "retraction" /\ ~ HeldByPeople(l)
  /\ Resolve(p, "applied") /\ Exclude(p, l)
  /\ ruled' = ruled \ {l}

ApplyFigure(p, l, f) ==
  LET new == [line[l] EXCEPT !.figure = f] IN
  /\ request[p].other = l /\ request[p].change = <<"revision", f>>
  /\ ~ HeldByPeople(l) /\ f # line[l].figure
  /\ Resolve(p, "applied")
  /\ IF posted[l] # NoEntry THEN WriteAndSync({l}, [k \in {l} |-> new])
     ELSE line' = [line EXCEPT ![l] = new] /\ UNCHANGED posted
  /\ Record(p, <<[k \in {l} |-> Bare("new")]>>)
  /\ ruled' = ruled \ {l}

\* dismissRevision(): takes no lock on the row; its event has no snapshot.
DismissRevision(p) ==
  /\ Resolve(p, "dismissed")
  /\ Record(p, <<<<>>>>)
  /\ UNCHANGED <<line, posted, ruled>>

-----------------------------------------------------------------------------
Begin(p) ==
  \/ \E ls \in SUBSET Lines : BeginCategorize(p, ls) \/ BeginRule(p, ls)
  \/ \E l \in Lines : \/ BeginSplit(p, l) \/ BeginExclude(p, l)
                      \/ BeginAccept(p, l) \/ BeginNote(p, l)
                      \/ \E m \in (Lines \ {l}) \cup {None} : BeginTransfer(p, l, m)
  \/ \E i \in DOMAIN event : BeginUndo(p, i)
  \/ \E r \in Recs : \/ BeginStart(p, r) \/ BeginComplete(p, r) \/ BeginReopen(p, r)
                     \/ \E op \in {"clear", "unclear"}, ls \in SUBSET Lines : BeginClear(p, op, ls, r)
  \/ \E l \in Lines, change \in Changes : BeginResolve(p, l, change)

End(p) ==
  \/ GiveUp(p)
  \/ CommitEdit(p) \/ CommitNote(p) \/ CommitTransfer(p) \/ CommitUndo(p)
  \/ \E state \in {"suggested", "categorized"} : CommitRule(p, state)
  \/ \E l \in Lines : CommitStart(p, Signed(l))
  \/ \E op \in {"clear", "unclear"} : CommitClear(p, op)
  \/ CommitComplete(p) \/ CommitReopen(p)

Resolution(p) ==
  \/ \E l \in Lines : ApplyWithdrawal(p, l) \/ \E f \in Figures : ApplyFigure(p, l, f)
  \/ DismissRevision(p)

BankNext ==
  \/ \E p \in People : Begin(p) \/ End(p) \/ Resolution(p)
  \/ \E l \in Lines : (\E p \in People : Retract(p, l)) \/ (\E f \in Figures : Revise(l, f))

BankSpec == BankInit /\ [][BankNext]_bankVars

-----------------------------------------------------------------------------
(* Properties                                                               *)

\* The books carry a line at the figure the line shows: neither the feed nor
\* an edit that overtakes it moves a figure from under its entry, and none
\* stands for a line that is not in the books.  The hole: a rule that read the
\* line before somebody decided about it.
EntryStands ==
  \A l \in Lines : posted[l] # NoEntry =>
    /\ posted[l].figure = line[l].figure
    /\ l \in ruled \/ line[l].state \in {"categorized", "matched", "reconciled"}

\* The entries a line's money is in.
Counted(l) ==
  {k \in Lines : posted[k] # NoEntry /\ (k = l \/ (posted[k].kind = "pair" /\ line[k].pair = l))}

\* The comments in posting.ts: one entry for a pair, because each leg of its
\* own would count the money twice.  The hole: a leg undo has taken out of its
\* pair, or that is paired again, leaves the other leg's entry behind.
MoneyMovesOnce == \A l \in Lines : l \in unpaired \/ Cardinality(Counted(l)) <= 1

\* A completed reconciliation goes on adding up to its statement, whatever the
\* feed and people do to its lines, unless lines are moved into or out of it.
CertificateStands ==
  \A r \in Recs : rec[r].status = "completed" => Balanced(r) \/ r \in moved

\* A reconciled line changes in the books only when its reconciliation is
\* reopened, by undo, which does not ask, and by a request that had read it
\* before it was reconciled.
ReconciledStands ==
  [][\A l \in Lines :
       line[l].state = "reconciled"
         /\ (posted'[l] # posted[l] \/ Snapshot(line[l])' # Snapshot(line[l]))
       => \E p \in People :
            /\ ~ Idle(p) /\ Idle(p)'
            /\ request[p].op \in {"reopen", "undo"} \/ Overtaken(p, l)
    ]_bankVars

\* What the bank said last is what the line shows or is waiting for a person,
\* who may have dismissed it.  The holes: a word that agreed with the line is
\* not kept, and an older one can then be applied; and a change that was
\* recorded once is not recorded when it is made again.
FeedIsHeard ==
  \A l \in Lines : l \notin unsaid =>
    IF bank[l] = Withdrawn
    THEN line[l].state = "excluded" \/ \E f \in Figures : revision[l][<<"retraction", f>>] # "none"
    ELSE line[l].figure = bank[l] \/ revision[l][<<"revision", bank[l]>>] # "none"

\* The comment on UNDOABLE_ENTITY_TYPES: no event that cannot be undone stands
\* before a person's changes that can.
UndoReachesBack ==
  \A i, j \in DOMAIN event : \A p \in People :
    NextUndone(p, i) /\ event[j].by = p /\ ~ event[j].undone /\ event[i].before = <<>>
      => event[j].before = <<>>
=============================================================================
