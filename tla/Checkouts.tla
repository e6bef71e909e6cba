------------------------------ MODULE Checkouts ------------------------------
(***************************************************************************)
(* Card payments of invoices (src/src/modules/payments/service.ts,         *)
(* reconcile.ts): a checkout is started, the processor takes the money or  *)
(* declines, and the customer's return to the page, the action that sent   *)
(* them there or the hourly sweep asks the processor and posts what it     *)
(* says.  All of them race, and the process may be killed anywhere.        *)
(*                                                                         *)
(* Posting is four transactions: the claim of the checkout, recordPayment  *)
(* (Settlement), the payment's id on the checkout, and the fee's entry.    *)
(***************************************************************************)
EXTENDS Settlement

CONSTANTS
  Sweeper,     \* the session of the hourly job; the others are people's requests
  MaxOutages,  \* bound: answers of `unknown' the processor gives
  MaxKills     \* bound: how often a request is killed

ASSUME CheckoutAssumption ==
  /\ Sweeper \in Sessions
  /\ MaxOutages \in Nat /\ MaxKills \in Nat

VARIABLES
  checkout,  \* checkouts, by the processor's id
  charge,    \* the processor's own record of each
  late,      \* the checkouts past their expires_at
  fees,      \* how many fee entries each has
  outages, kills

vars == <<settlementVars, checkout, charge, late, fees, outages, kills>>

Checkout == [status : {"none", "pending", "succeeded", "failed", "expired"},
             invoice : Invoices \cup {NoInvoice}, gross : 0 .. Total,
             payment : Payments \cup {NoPayment}]

TypeOK ==
  /\ invoice \in [Invoices -> Invoice]
  /\ payment \in [Payments -> Payment]
  /\ sess \in [Sessions -> Session]
  /\ damaged \in SUBSET Invoices
  /\ checkout \in [Charges -> Checkout]
  /\ charge \in [Charges -> {"none", "pending", "succeeded", "failed"}]
  /\ late \in SUBSET Charges
  /\ fees \in [Charges -> Nat]
  /\ outages \in Nat /\ kills \in Nat

Init ==
  /\ SettlementInit
  /\ checkout = [c \in Charges |->
       [status |-> "none", invoice |-> NoInvoice, gross |-> 0, payment |-> NoPayment]]
  /\ charge = [c \in Charges |-> "none"]
  /\ late = {}
  /\ fees = [c \in Charges |-> 0]
  /\ outages = 0 /\ kills = 0

\* The payments tiesFor finds a settled checkout for.
Settled == {checkout[c].payment : c \in {c \in Charges : checkout[c].status = "succeeded"}}

-----------------------------------------------------------------------------
(* startCheckout(), and the customer at the processor's page                *)

StartCheckout(c) ==
  /\ checkout[c].status = "none"
  /\ \E i \in Invoices, gross \in Amounts :
       /\ invoice[i].status # "void" /\ gross <= invoice[i].balance
       /\ checkout' = [checkout EXCEPT ![c] =
            [status |-> "pending", invoice |-> i, gross |-> gross, payment |-> NoPayment]]
  /\ charge' = [charge EXCEPT ![c] = "pending"]
  /\ UNCHANGED <<settlementVars, late, fees, outages, kills>>

CustomerPays(c) ==
  /\ charge[c] = "pending"
  /\ \E answer \in {"succeeded", "failed"} : charge' = [charge EXCEPT ![c] = answer]
  /\ UNCHANGED <<settlementVars, checkout, late, fees, outages, kills>>

DeadlinePasses(c) ==
  /\ checkout[c].status = "pending" /\ c \notin late
  /\ late' = late \cup {c}
  /\ UNCHANGED <<settlementVars, checkout, charge, fees, outages, kills>>

\* getPayment(): what the processor has, or `unknown' while it cannot say.
Reports(c, answer) ==
  \/ answer = charge[c] /\ UNCHANGED outages
  \/ answer = "unknown" /\ outages < MaxOutages /\ outages' = outages + 1

-----------------------------------------------------------------------------
(* settleCheckout()                                                         *)

\* MUTANT: what the processor cannot find it has declined.
AfterUnknownDeclined(answer) ==
  CASE answer = "succeeded" -> "claim" [] answer \in {"failed", "unknown"} -> "decline"
    [] OTHER -> "idle"

\* What the request does with the answer; `pending' and `unknown' change nothing.
AfterAnswer(answer) ==
  CASE answer = "succeeded" -> "claim" [] answer = "failed" -> "decline" [] OTHER -> "idle"

\* The row is read, and the processor asked if it is neither posted nor given up.
Settle(s, c) ==
  /\ checkout[c].status \in {"pending", "succeeded"} /\ checkout[c].payment = NoPayment
  /\ \E answer \in {charge[c], "unknown"} :
       /\ Reports(c, answer)
       /\ Enter(s, IF AfterAnswer(answer) = "idle" THEN Idle
                   ELSE [Idle EXCEPT !.pc = AfterAnswer(answer), !.charge = c])

\* The customer's browser returns.
Return(s) ==
  /\ s # Sweeper /\ At(s, "idle")
  /\ \E c \in Charges : Settle(s, c)
  /\ UNCHANGED <<invoice, payment, damaged, checkout, charge, late, fees, kills>>

\* The decline has no WHERE on the status.
Decline(s) ==
  /\ At(s, "decline")
  /\ checkout' = [checkout EXCEPT ![sess[s].charge].status = "failed"]
  /\ Enter(s, Idle)
  /\ UNCHANGED <<invoice, payment, damaged, charge, late, fees, outages, kills>>

\* MUTANT: the claim has no WHERE on the status.
ClaimableOrClaimed(c) == checkout[c].payment = NoPayment

Claimable(c) == checkout[c].status = "pending"

\* Only one caller moves the row out of `pending'; the others leave it to them.
Claim(s) ==
  LET c == sess[s].charge IN
  /\ At(s, "claim")
  /\ IF Claimable(c)
     THEN /\ checkout' = [checkout EXCEPT ![c].status = "succeeded"]
          /\ Enter(s, [Idle EXCEPT !.pc = "cap", !.charge = c])
     ELSE UNCHANGED checkout /\ Enter(s, Idle)
  /\ UNCHANGED <<invoice, payment, damaged, charge, late, fees, outages, kills>>

-----------------------------------------------------------------------------
(* postCapturedCheckout()                                                   *)

\* The invoice is read and the amount capped at what is owed; with nothing owed
\* the checkout is left claimed, for a person.
Cap(s) ==
  LET c == sess[s].charge
      i == checkout[c].invoice
      apply == IF checkout[c].gross < invoice[i].balance THEN checkout[c].gross
               ELSE invoice[i].balance
  IN /\ At(s, "cap")
     /\ Enter(s, IF apply <= 0 THEN Idle
                 ELSE [Idle EXCEPT !.pc = "read", !.charge = c, !.invoice = i, !.amount = apply])
     /\ UNCHANGED <<invoice, payment, damaged, checkout, charge, late, fees, outages, kills>>

\* recordPayment reads the invoice again, and throws if it owes less by now:
\* the checkout stays claimed.
ReadAgain(s) ==
  LET i == sess[s].invoice IN
  /\ At(s, "read")
  /\ \/ ReadForReceipt(s, i, sess[s].amount, sess[s].charge)
     \/ ~Accepts(i, sess[s].amount) /\ Enter(s, Idle)
  /\ UNCHANGED <<invoice, payment, damaged, checkout, charge, late, fees, outages, kills>>

\* UPDATE ... WHERE payment_id IS NULL, and then the fee whether it matched or not.
Attach(s) ==
  LET c == sess[s].charge IN
  /\ At(s, "attach")
  /\ checkout' = [checkout EXCEPT ![c].payment = IF @ = NoPayment THEN sess[s].payment ELSE @]
  /\ Enter(s, [Idle EXCEPT !.pc = "fee", !.charge = c])
  /\ UNCHANGED <<invoice, payment, damaged, charge, late, fees, outages, kills>>

PostFee(s) ==
  /\ At(s, "fee")
  /\ fees' = [fees EXCEPT ![sess[s].charge] = @ + 1]
  /\ Enter(s, Idle)
  /\ UNCHANGED <<invoice, payment, damaged, checkout, charge, late, outages, kills>>

-----------------------------------------------------------------------------
(* sweepUnresolvedCheckouts()                                               *)

\* What the sweep does with an answer (sweepDecision): what has succeeded goes to
\* settleCheckout, which asks again; `unknown' is left for a person.
Verdict(c, answer) ==
  CASE answer = "succeeded" -> "settle"
    [] answer = "failed" -> "writeOff"
    [] answer = "pending" /\ c \in late -> "expire"
    [] OTHER -> "wait"

\* The hourly job, or somebody who presses the button.
SweepOf(s, c) ==
  /\ At(s, "idle") /\ checkout[c].status = "pending"
  /\ \/ Verdict(c, charge[c]) = "settle" /\ Settle(s, c)
     \/ /\ Verdict(c, charge[c]) \in {"writeOff", "expire"}
        /\ Enter(s, [Idle EXCEPT !.pc = Verdict(c, charge[c]), !.charge = c])
        /\ UNCHANGED outages
  /\ UNCHANGED <<invoice, payment, damaged, checkout, charge, late, fees, kills>>

WriteOff(c, status) == checkout' = [checkout EXCEPT ![c].status = status]

\* MUTANT: the sweep writes off what it read as pending.
ResolveAnyway(s) ==
  /\ sess[s].pc \in {"writeOff", "expire"}
  /\ WriteOff(sess[s].charge, IF At(s, "expire") THEN "expired" ELSE "failed")
  /\ Enter(s, Idle)
  /\ UNCHANGED <<invoice, payment, damaged, charge, late, fees, outages, kills>>

\* Only while it is still pending: if something settled it, that write wins.
Resolve(s) ==
  LET c == sess[s].charge IN
  /\ sess[s].pc \in {"writeOff", "expire"}
  /\ IF checkout[c].status = "pending"
     THEN WriteOff(c, IF At(s, "expire") THEN "expired" ELSE "failed")
     ELSE UNCHANGED checkout
  /\ Enter(s, Idle)
  /\ UNCHANGED <<invoice, payment, damaged, charge, late, fees, outages, kills>>

-----------------------------------------------------------------------------

\* The process is killed, or a statement throws: what has committed stays.
Kill(s) ==
  /\ ~At(s, "idle")
  /\ kills < MaxKills
  /\ kills' = kills + 1
  /\ Enter(s, Idle)
  /\ UNCHANGED <<invoice, payment, damaged, checkout, charge, late, fees, outages>>

Continue(s) ==
  \/ Decline(s) \/ Claim(s) \/ Cap(s) \/ ReadAgain(s) \/ Attach(s) \/ PostFee(s) \/ Resolve(s)
  \/ Receive(s) /\ UNCHANGED <<checkout, charge, late, fees, outages, kills>>

Next ==
  \/ \E c \in Charges :
       \/ StartCheckout(c) \/ CustomerPays(c) \/ DeadlinePasses(c)
       \/ \E s \in Sessions : SweepOf(s, c)
  \/ \E s \in Sessions : Continue(s) \/ Return(s) \/ Kill(s)
  \/ \E s \in Sessions \ {Sweeper} :
       Clerk(s, Settled) /\ UNCHANGED <<checkout, charge, late, fees, outages, kills>>

Spec == Init /\ [][Next]_vars

\* The job runs every hour and asks about every pending checkout; nobody
\* has to come back to the page.
FairSpec ==
  /\ Spec
  /\ WF_vars(Continue(Sweeper))
  /\ \A c \in Charges : SF_vars(SweepOf(Sweeper, c))

-----------------------------------------------------------------------------

(* A charge reaches the books once: one receipt and at most one fee, however   *)
(* the page, the action and the sweep race, and whoever of them is killed.     *)
ChargedOnce ==
  \A c \in Charges :
    Cardinality({p \in Payments : payment[p].reference = c}) <= 1 /\ fees[c] <= 1

(* These books conclude only what the processor has said: an outage is not a   *)
(* decline, and a late decline does not overwrite a capture.                   *)
NothingIsGuessed ==
  \A c \in Charges :
    checkout[c].status \in {"succeeded", "failed"} => charge[c] = checkout[c].status

(* A claimed checkout stays claimed, and keeps the payment it was given: the   *)
(* sweep does not write off what was settled after it had asked.               *)
ClaimStands ==
  [][\A c \in Charges : checkout[c].status = "succeeded" =>
       /\ checkout'[c].status = "succeeded"
       /\ checkout[c].payment # NoPayment => checkout'[c].payment = checkout[c].payment]_vars

-----------------------------------------------------------------------------
(* What the comments say and the code does not do.                          *)

(* sweepDecision: `A processor's answer beats our own record every time [...]  *)
(* so succeeded settles even a checkout we had written off as expired'.  The   *)
(* sweep asks about pending checkouts only, and settleCheckout returns before  *)
(* it asks when the checkout has expired.                                      *)
ProcessorHasTheLastWord ==
  \A c \in Charges : charge[c] = "succeeded" ~> checkout[c].status = "succeeded"

=============================================================================
