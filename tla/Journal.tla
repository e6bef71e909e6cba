------------------------------- MODULE Journal -------------------------------
(***************************************************************************)
(* The general ledger's journal (src/src/modules/ledger/journal.ts), the   *)
(* corrections a person may make to it (corrections.ts,                    *)
(* corrections-service.ts) and the documents whose ledger half it holds    *)
(* (receivables/service.ts).                                               *)
(*                                                                         *)
(* A request runs as a READ COMMITTED transaction: it reads what others    *)
(* have committed, statement by statement, and its own writes are seen     *)
(* when it commits.  Each action is one statement that matters, or the     *)
(* write with its commit: an UPDATE by id waits for the row and then       *)
(* applies to whatever the row has become, so writes to a row happen in    *)
(* the order of their commits.                                             *)
(***************************************************************************)
EXTENDS Naturals, FiniteSets, FiniteSetsExt

CONSTANTS
  Entries,    \* ids of journal_entries rows; an id is never used twice
  Sessions,   \* requests in flight
  Docs,       \* documents with a ledger half: invoices and bills
  Dates,      \* the days entries are dated on
  Today,
  EntryDates, \* the days people date new entries on
  Closings,   \* ids of accounting_periods rows
  Spans,      \* the <<first, last>> days people close
  NoEntry, NoDoc, NoSession

ASSUME JournalAssumption ==
  /\ Dates \subseteq Nat /\ Today \in Dates /\ EntryDates \subseteq Dates
  /\ \A span \in Spans : span \in Dates \X Dates /\ span[1] <= span[2]
  /\ NoEntry \notin Entries /\ NoDoc \notin Docs /\ NoSession \notin Sessions

VARIABLES
  entry,   \* journal_entries
  period,  \* accounting_periods
  doc,     \* the documents' status
  lock,    \* who holds the company's advisory lock
  sess     \* where each request is; "lost": what was committed under it

vars == <<entry, period, doc, lock, sess>>

Creates == {"post", "draft", "document", "reverse"}
Ops == Creates \cup {"postDraft", "discard", "void", "voidDocument"}
Row == [status : {"none", "draft", "posted", "void", "deleted"}, number : Nat,
        date : Dates, doc : Docs \cup {NoDoc}, reverses : Entries \cup {NoEntry}]
Session == [op : Ops \cup {"none"}, pc : {"idle", "decided", "number", "insert", "write"},
            id : Entries \cup {NoEntry}, doc : Docs \cup {NoDoc}, date : Dates,
            number : Nat, lost : SUBSET {"close", "entry"}]

JournalTypeOK ==
  /\ entry \in [Entries -> Row]
  /\ period \in [Closings -> [status : {"none", "closed", "reopened"}, start : Dates, end : Dates]]
  /\ doc \in [Docs -> {"none", "open", "void"}]
  /\ lock \in Sessions \cup {NoSession}
  /\ sess \in [Sessions -> Session]

NoRow == [status |-> "none", number |-> 0, date |-> Today, doc |-> NoDoc, reverses |-> NoEntry]
Idle == [op |-> "none", pc |-> "idle", id |-> NoEntry, doc |-> NoDoc, date |-> Today,
         number |-> 0, lost |-> {}]

Init ==
  /\ entry = [e \in Entries |-> NoRow]
  /\ period = [p \in Closings |-> [status |-> "none", start |-> Today, end |-> Today]]
  /\ doc = [d \in Docs |-> "none"]
  /\ lock = NoSession
  /\ sess = [s \in Sessions |-> Idle]

Live == {e \in Entries : entry[e].status \in {"draft", "posted", "void"}}
Unused == {e \in Entries : entry[e].status = "none"}
Books(d) == {e \in Entries : entry[e].status = "posted" /\ entry[e].date = d}
Closed(d) ==
  \E p \in Closings :
    period[p].status = "closed" /\ period[p].start <= d /\ d <= period[p].end
Reversals(e) == {r \in Entries : entry[r].status = "posted" /\ entry[r].reverses = e}

\* MUTANT: a correction may be asked for any entry on the books.
IsDerivedNever(e) == e \notin Entries

IsDerived(e) == entry[e].doc # NoDoc

Stage(s, pc) == sess[s].pc = pc
Enter(s, request) == sess' = [sess EXCEPT ![s] = request]

\* The request ends: committed, refused or rolled back.
Leave(s) ==
  /\ Enter(s, Idle)
  /\ lock' = IF lock = s THEN NoSession ELSE lock

\* The request commits a change to entry e under those that have read it.
Commit(s, e) ==
  /\ sess' = [t \in Sessions |->
       IF t = s THEN Idle
       ELSE IF sess[t].id = e /\ e # NoEntry
         THEN [sess[t] EXCEPT !.lost = @ \cup {"entry"}]
         ELSE sess[t]]
  /\ lock' = IF lock = s THEN NoSession ELSE lock

-----------------------------------------------------------------------------
(* The requests, up to the last thing they read.  A request's read of a row   *)
(* and its check of the period are one action: what another commits between   *)
(* them could as well have been committed just after.                         *)

Request(op, pc, e) == [Idle EXCEPT !.op = op, !.pc = pc, !.id = e]

\* postManualEntry, draftJournalEntry
BeginCreate(s) ==
  /\ Stage(s, "idle")
  /\ \E op \in {"post", "draft"}, d \in EntryDates :
       /\ ~Closed(d)
       /\ Enter(s, [Request(op, "number", NoEntry) EXCEPT !.date = d])
  /\ UNCHANGED <<entry, period, doc, lock>>

\* createInvoice or createBill, at its createJournalEntry; its id is its own
BeginDocument(s) ==
  /\ Stage(s, "idle")
  /\ \E d \in Docs, date \in EntryDates :
       /\ doc[d] = "none" /\ \A t \in Sessions : sess[t].doc # d
       /\ ~Closed(date)
       /\ Enter(s, [Request("document", "number", NoEntry) EXCEPT !.doc = d, !.date = date])
  /\ UNCHANGED <<entry, period, doc, lock>>

\* MUTANT: the period is trusted from when the draft was written.
BeginPostDraftUnchecked(s) ==
  /\ Stage(s, "idle")
  /\ \E e \in Entries :
       /\ entry[e].status = "draft"
       /\ Enter(s, Request("postDraft", "write", e))
  /\ UNCHANGED <<entry, period, doc, lock>>

BeginPostDraft(s) ==
  /\ Stage(s, "idle")
  /\ \E e \in Entries :
       /\ entry[e].status = "draft" /\ ~Closed(entry[e].date)
       /\ Enter(s, Request("postDraft", "write", e))
  /\ UNCHANGED <<entry, period, doc, lock>>

\* MUTANT: any entry on the books may be discarded.
BeginDiscardAny(s) ==
  /\ Stage(s, "idle")
  /\ \E e \in Live : Enter(s, Request("discard", "write", e))
  /\ UNCHANGED <<entry, period, doc, lock>>

BeginDiscard(s) ==
  /\ Stage(s, "idle")
  /\ \E e \in Entries :
       /\ entry[e].status = "draft"
       /\ Enter(s, Request("discard", "write", e))
  /\ UNCHANGED <<entry, period, doc, lock>>

\* voidDocument; voidJournalEntry has nothing to check for an entry already void.
BeginVoidDocument(s) ==
  /\ Stage(s, "idle")
  /\ \E e \in Live :
       /\ entry[e].doc # NoDoc
       /\ doc[entry[e].doc] = "open"
       /\ entry[e].status = "void" \/ ~Closed(entry[e].date)
       /\ Enter(s, Request("voidDocument", "write", e))
  /\ UNCHANGED <<entry, period, doc, lock>>

\* MUTANT: when today is closed too there is no day, and none passes for one.
ReversalDateOrNull(e) ==
  IF ~Closed(entry[e].date) THEN entry[e].date ELSE IF ~Closed(Today) THEN Today ELSE 0

\* reversalDateFor: the entry's own day while it is open, else today.
ReversalDate(e) == IF Closed(entry[e].date) THEN Today ELSE entry[e].date

\* MUTANT: the screen knows which entries were reversed; the service does not ask.
MayUseAgain(e, method) ==
  /\ entry[e].status # "void" /\ ~IsDerived(e)
  /\ method = "void" => ~Closed(entry[e].date)
  /\ method = "reverse" => ~Closed(ReversalDate(e))

\* correctionFor and mayUse; correctEntry lets a draft pass for posted.
MayUse(e, method) ==
  /\ entry[e].status # "void" /\ ~IsDerived(e) /\ Reversals(e) = {}
  /\ method = "void" => ~Closed(entry[e].date)
  /\ method = "reverse" => ~Closed(ReversalDate(e))

\* correctEntry decides, outside any transaction.
BeginCorrect(s) ==
  /\ Stage(s, "idle")
  /\ \E e \in Live, method \in {"void", "reverse"} :
       /\ MayUse(e, method)
       /\ Enter(s, [Request(method, "decided", e) EXCEPT !.date = ReversalDate(e)])
  /\ UNCHANGED <<entry, period, doc, lock>>

\* voidJournalEntry leaves a void entry alone and checks the period ...
ReadToVoid(s) ==
  LET e == sess[s].id IN
  /\ Stage(s, "decided") /\ sess[s].op = "void"
  /\ IF e \in Live /\ entry[e].status # "void" /\ ~Closed(entry[e].date)
     THEN Enter(s, [Request("void", "write", e) EXCEPT !.lost = sess[s].lost])
     ELSE Enter(s, Idle)
  /\ UNCHANGED <<entry, period, doc, lock>>

\* ... and reverseEntry wants a posted entry, and the reversal's day open.
ReadToReverse(s) ==
  /\ Stage(s, "decided") /\ sess[s].op = "reverse"
  /\ IF entry[sess[s].id].status = "posted" /\ ~Closed(sess[s].date)
     THEN Enter(s, [sess[s] EXCEPT !.pc = "number"])
     ELSE Enter(s, Idle)
  /\ UNCHANGED <<entry, period, doc, lock>>

-----------------------------------------------------------------------------
(* The writes.                                                              *)

MaxNumber == Max({entry[e].number : e \in Live} \cup {0})

\* MUTANT: no advisory lock.
TakeNumberUnlocked(s) ==
  /\ Stage(s, "number")
  /\ Enter(s, [sess[s] EXCEPT !.pc = "insert", !.number = MaxNumber + 1])
  /\ UNCHANGED <<entry, period, doc, lock>>

\* nextEntryNumber: wait for the company's lock, then read the highest number.
TakeNumber(s) ==
  /\ Stage(s, "number") /\ lock = NoSession
  /\ lock' = s
  /\ Enter(s, [sess[s] EXCEPT !.pc = "insert", !.number = MaxNumber + 1])
  /\ UNCHANGED <<entry, period, doc>>

NewRow(s) ==
  [status |-> IF sess[s].op = "draft" THEN "draft" ELSE "posted",
   number |-> sess[s].number, date |-> sess[s].date, doc |-> sess[s].doc,
   reverses |-> IF sess[s].op = "reverse" THEN sess[s].id ELSE NoEntry]

\* The insert and the commit, which lets the lock go.  A document is written in
\* the same transaction; a reversal whose original is gone fails its foreign key.
Insert(s) ==
  /\ Stage(s, "insert")
  /\ sess[s].op = "reverse" => sess[s].id \in Live
  /\ Unused # {}
  /\ entry' = [entry EXCEPT ![CHOOSE e \in Unused : TRUE] = NewRow(s)]
  /\ doc' = IF sess[s].op = "document" THEN [doc EXCEPT ![sess[s].doc] = "open"] ELSE doc
  /\ Commit(s, sess[s].id)
  /\ UNCHANGED period

\* The UPDATE or DELETE by id, and the commit.  A row that is gone is no error;
\* one that is deleted takes the reversals' pointers with it.
SetStatus(e, status) ==
  entry' = IF e \in Live THEN [entry EXCEPT ![e].status = status] ELSE entry

Delete(e) ==
  entry' = [f \in Entries |->
    IF f = e THEN [NoRow EXCEPT !.status = "deleted"]
    ELSE IF entry[f].reverses = e THEN [entry[f] EXCEPT !.reverses = NoEntry]
    ELSE entry[f]]

Write(s) ==
  LET e == sess[s].id IN
  /\ Stage(s, "write")
  /\ \/ sess[s].op = "postDraft" /\ SetStatus(e, "posted") /\ UNCHANGED doc
     \/ sess[s].op = "void" /\ SetStatus(e, "void") /\ UNCHANGED doc
     \/ sess[s].op = "discard" /\ Delete(e) /\ UNCHANGED doc
     \/ /\ sess[s].op = "voidDocument"
        /\ SetStatus(e, "void")
        /\ doc' = [doc EXCEPT ![entry[e].doc] = "void"]
  /\ Commit(s, e)
  /\ UNCHANGED period

\* The connection is lost, the process is killed, a later statement throws.
RollBack(s) ==
  /\ ~Stage(s, "idle")
  /\ Leave(s)
  /\ UNCHANGED <<entry, period, doc>>

-----------------------------------------------------------------------------

\* The day of the entry that request s has checked the period for.
CheckedDay(s) == IF sess[s].pc = "write" THEN entry[sess[s].id].date ELSE sess[s].date

ClosePeriod(p) ==
  /\ period[p].status = "none"
  /\ \E span \in Spans :
       /\ period' = [period EXCEPT ![p] = [status |-> "closed", start |-> span[1], end |-> span[2]]]
       /\ sess' = [s \in Sessions |->
            IF sess[s].pc \in {"number", "insert", "write"} /\ CheckedDay(s) \in span[1] .. span[2]
            THEN [sess[s] EXCEPT !.lost = @ \cup {"close"}] ELSE sess[s]]
  /\ UNCHANGED <<entry, doc, lock>>

\* reopenPeriod does not ask whether the period is closed.
ReopenPeriod(p) ==
  /\ period[p].status # "none"
  /\ period' = [period EXCEPT ![p].status = "reopened"]
  /\ UNCHANGED <<entry, doc, lock, sess>>

Handle(s) ==
  \/ BeginCreate(s) \/ BeginDocument(s) \/ BeginPostDraft(s) \/ BeginDiscard(s)
  \/ BeginCorrect(s) \/ BeginVoidDocument(s)
  \/ ReadToVoid(s) \/ ReadToReverse(s)
  \/ TakeNumber(s) \/ Insert(s) \/ Write(s) \/ RollBack(s)

Next ==
  \/ \E s \in Sessions : Handle(s)
  \/ \E p \in Closings : ClosePeriod(p) \/ ReopenPeriod(p)

Spec == Init /\ [][Next]_vars

-----------------------------------------------------------------------------

Corrections(e) == Cardinality(Reversals(e)) + (IF entry[e].status = "void" THEN 1 ELSE 0)

\* A step in which request s ends, with nothing of these kinds committed under it.
Ends(s, kinds) == ~Stage(s, "idle") /\ sess'[s] = Idle /\ sess[s].lost \cap kinds = {}

(* The number a request is about to insert under belongs to no committed     *)
(* entry and to no other request, so the unique constraint never fires: what *)
(* nextEntryNumber's advisory lock is for, whatever is discarded meanwhile.  *)
NumberIsFree ==
  \A s \in Sessions : Stage(s, "insert") =>
    /\ \A e \in Live : entry[e].number # sess[s].number
    /\ \A t \in Sessions \ {s} : ~Stage(t, "insert")

(* Subledger and ledger agree: a document stands exactly when its entry does, *)
(* however people correct the journal and void documents at once.             *)
DocumentsAgree ==
  \A d \in Docs :
    doc[d] = "open" <=> \E e \in Entries : entry[e].doc = d /\ entry[e].status = "posted"

(* The figures of a closed day are changed by no request, unless the close    *)
(* was committed after the request had checked the period, or another request *)
(* had changed the same entry: a discard that meets a posted one asks nothing.*)
ClosedDaysStand ==
  [][\A s \in Sessions : Ends(s, {"close", "entry"}) =>
       \A d \in Dates : Closed(d) => Books(d)' = Books(d)]_vars

(* A posted entry stays or becomes void and a void one stays void, unless a   *)
(* request commits on what it read before another changed the same entry.     *)
HistoryStands ==
  [][\A s \in Sessions : Ends(s, {"entry"}) => \A e \in Entries :
       /\ entry[e].status = "posted" => entry'[e].status \in {"posted", "void"}
       /\ entry[e].status = "void" => entry'[e].status = "void"]_vars

(* An entry is corrected once: a void or a reversal is added only to an entry *)
(* that has neither, under the same exception.                                *)
CorrectedOnce ==
  [][\A s \in Sessions : Ends(s, {"entry"}) => \A e \in Entries :
       Corrections(e)' > Corrections(e) => Corrections(e) = 0]_vars

-----------------------------------------------------------------------------
(* What the schema says without the exceptions.                              *)

(* db/schema/ledger.ts, accountingPeriods: an entry dated inside a closed     *)
(* period cannot be created, changed, or voided.                              *)
ClosedMeansClosed ==
  [][\A d \in Dates : Closed(d) /\ Closed(d)' => Books(d)' = Books(d)]_vars

=============================================================================
