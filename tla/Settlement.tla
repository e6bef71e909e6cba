----------------------------- MODULE Settlement -----------------------------
(***************************************************************************)
(* Money against an invoice (src/src/modules/receivables/service.ts,       *)
(* payment-voiding.ts): a receipt takes its amount off the balance, a void *)
(* of the receipt puts it back, an invoice nothing was paid on is voided.  *)
(*                                                                         *)
(* Each is a READ COMMITTED transaction that reads the invoice without a   *)
(* lock and later writes the balance it has worked out, as a value.  An    *)
(* action is the last read, or the write with its commit: an UPDATE waits  *)
(* for the row, so writes to an invoice happen in the order of commits.    *)
(***************************************************************************)
EXTENDS Naturals, FiniteSets, FiniteSetsExt

CONSTANTS
  Sessions,    \* requests and jobs in flight
  Invoices,
  Total,       \* what each invoice was issued for
  Payments,    \* ids of payments rows
  Charges,     \* what a payment's reference may name
  Cash,        \* the reference of a payment that is not a card's
  NoInvoice, NoPayment, NoCharge

ASSUME SettlementAssumption ==
  /\ Total \in Nat \ {0}
  /\ Cash \notin Charges /\ NoCharge \notin Charges
  /\ NoInvoice \notin Invoices /\ NoPayment \notin Payments

VARIABLES
  invoice,  \* invoices: the status and the balance
  payment,  \* payments, each with its one application
  sess,     \* where each request is, and the balance it has read
  damaged   \* history: invoices written from a balance that had changed meanwhile

settlementVars == <<invoice, payment, sess, damaged>>

Amounts == 1 .. Total
Invoice == [status : {"open", "partial", "paid", "void"}, balance : Nat]
Payment == [status : {"none", "posted", "void"}, invoice : Invoices \cup {NoInvoice},
            amount : 0 .. Total, reference : Charges \cup {Cash}]
Session == [pc : {"idle", "receipt", "voidInvoice", "voidPayment",
                  "claim", "decline", "writeOff", "expire", "cap", "read", "attach", "fee"},
            invoice : Invoices \cup {NoInvoice}, payment : Payments \cup {NoPayment},
            charge : Charges \cup {NoCharge}, amount : 0 .. Total, balance : Nat,
            stale : BOOLEAN]

NoRow == [status |-> "none", invoice |-> NoInvoice, amount |-> 0, reference |-> Cash]
Idle == [pc |-> "idle", invoice |-> NoInvoice, payment |-> NoPayment, charge |-> NoCharge,
         amount |-> 0, balance |-> 0, stale |-> FALSE]

SettlementInit ==
  /\ invoice = [i \in Invoices |-> [status |-> "open", balance |-> Total]]
  /\ payment = [p \in Payments |-> NoRow]
  /\ sess = [s \in Sessions |-> Idle]
  /\ damaged = {}

At(s, pc) == sess[s].pc = pc
Enter(s, request) == sess' = [sess EXCEPT ![s] = request]
Unused == {p \in Payments : payment[p].status = "none"}
Posted(i) == {p \in Payments : payment[p].status = "posted" /\ payment[p].invoice = i}
Received(i) == MapThenSumSet(LAMBDA p : payment[p].amount, Posted(i))

\* Request s commits what it has worked out for invoice i, and is then at `next'.
CommitInvoice(s, i, status, balance, next) ==
  /\ invoice' = [invoice EXCEPT ![i] = [status |-> status, balance |-> balance]]
  /\ damaged' = IF sess[s].stale THEN damaged \cup {i} ELSE damaged
  /\ sess' = [t \in Sessions |->
       IF t = s THEN next
       ELSE IF sess[t].pc \in {"receipt", "voidInvoice", "voidPayment"} /\ sess[t].invoice = i
         THEN [sess[t] EXCEPT !.stale = TRUE]
         ELSE sess[t]]

-----------------------------------------------------------------------------
(* recordPayment(), for a receipt                                           *)

\* MUTANT: the balance is not compared with.
AcceptsAnything(i, amount) == invoice[i].status # "void" /\ amount > 0

\* reduceDocumentBalance: not void, and no more than is owed.
Accepts(i, amount) == invoice[i].status # "void" /\ amount <= invoice[i].balance

\* applyToDocument reads the invoice, inside the transaction.
ReadForReceipt(s, i, amount, charge) ==
  /\ Accepts(i, amount)
  /\ Enter(s, [Idle EXCEPT !.pc = "receipt", !.invoice = i, !.amount = amount,
                           !.balance = invoice[i].balance, !.charge = charge])

\* Money somebody has banked, for any amount the screen takes.
BeginReceipt(s) ==
  /\ At(s, "idle")
  /\ \E i \in Invoices, amount \in Amounts : ReadForReceipt(s, i, amount, NoCharge)
  /\ UNCHANGED <<invoice, payment, damaged>>

Reference(s) == IF sess[s].charge = NoCharge THEN Cash ELSE sess[s].charge

\* The payment, its application and its entry, and the invoice: one commit.
\* A card's payment has still to be attached to its checkout.
Receive(s) ==
  LET left == sess[s].balance - sess[s].amount
      p == CHOOSE p \in Unused : TRUE
  IN /\ At(s, "receipt") /\ Unused # {}
     /\ payment' = [payment EXCEPT ![p] =
          [status |-> "posted", invoice |-> sess[s].invoice, amount |-> sess[s].amount,
           reference |-> Reference(s)]]
     /\ CommitInvoice(s, sess[s].invoice, IF left = 0 THEN "paid" ELSE "partial", left,
          IF sess[s].charge = NoCharge THEN Idle
          ELSE [Idle EXCEPT !.pc = "attach", !.payment = p, !.charge = sess[s].charge])

-----------------------------------------------------------------------------
(* voidDocument(), for an invoice                                           *)

\* MUTANT: an invoice that is not fully paid may be voided.
UntouchedOrPartial(i) == invoice[i].status \in {"open", "partial"}

\* Nothing has been applied: the balance is what it was issued for.
Untouched(i) == invoice[i].status # "void" /\ invoice[i].balance = Total

BeginVoidInvoice(s) ==
  /\ At(s, "idle")
  /\ \E i \in Invoices :
       /\ Untouched(i)
       /\ Enter(s, [Idle EXCEPT !.pc = "voidInvoice", !.invoice = i])
  /\ UNCHANGED <<invoice, payment, damaged>>

VoidInvoice(s) ==
  /\ At(s, "voidInvoice")
  /\ CommitInvoice(s, sess[s].invoice, "void", 0, Idle)
  /\ UNCHANGED payment

-----------------------------------------------------------------------------
(* voidPayment()                                                            *)

\* The ties and the balance are read before the transaction is opened; a
\* payment in `settled' is one the card processor has settled.
BeginVoidPayment(s, settled) ==
  /\ At(s, "idle")
  /\ \E p \in Payments \ settled :
       LET i == payment[p].invoice IN
       /\ payment[p].status = "posted" /\ invoice[i].status # "void"
       /\ Enter(s, [Idle EXCEPT !.pc = "voidPayment", !.invoice = i, !.payment = p,
                                !.amount = payment[p].amount, !.balance = invoice[i].balance])
  /\ UNCHANGED <<invoice, payment, damaged>>

StillPosted(p) == payment[p].status = "posted"

\* The claim on the payment is conditional on its status, the restored balance
\* is not conditional on anything.
VoidPayment(s) ==
  LET p == sess[s].payment
      back == sess[s].balance + sess[s].amount
  IN /\ At(s, "voidPayment") /\ StillPosted(p)
     /\ payment' = [payment EXCEPT ![p].status = "void"]
     /\ CommitInvoice(s, sess[s].invoice, IF back >= Total THEN "open" ELSE "partial", back, Idle)

\* Somebody else voided it a moment ago.
VoidPaymentRefused(s) ==
  /\ At(s, "voidPayment") /\ ~StillPosted(sess[s].payment)
  /\ Enter(s, Idle)
  /\ UNCHANGED <<invoice, payment, damaged>>

Clerk(s, settled) ==
  \/ BeginReceipt(s) \/ BeginVoidInvoice(s) \/ BeginVoidPayment(s, settled)
  \/ VoidInvoice(s) \/ VoidPayment(s) \/ VoidPaymentRefused(s)

-----------------------------------------------------------------------------

(* The invoice says what its payments left of it, unless a request wrote a    *)
(* balance it had worked out from one that another had changed meanwhile:     *)
(* reduceDocumentBalance and voidPayment write values, under no lock.         *)
BalanceIsWhatIsLeft ==
  \A i \in Invoices \ damaged :
    IF invoice[i].status = "void" THEN invoice[i].balance = 0 /\ Posted(i) = {}
    ELSE invoice[i].balance + Received(i) = Total

=============================================================================
