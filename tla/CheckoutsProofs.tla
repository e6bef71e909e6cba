--------------------------- MODULE CheckoutsProofs ---------------------------
(***************************************************************************)
(* A card's money reaches the books once and as the processor reported it, *)
(* for any number of requests, invoices, payments and checkouts.           *)
(*                                                                         *)
(* The argument: a request that writes a conclusion about a charge has     *)
(* been told it by the processor, which does not change its mind; and the  *)
(* claim makes the one that won it the only request posting the charge.    *)
(***************************************************************************)
EXTENDS Checkouts, FiniteSetTheorems, Sums, TLAPS

Unreceived == {"cap", "read", "receipt"}
Posting == Unreceived \cup {"attach", "fee"}

\* Request s has won the claim of checkout c and is posting it.
Posts(s, c) == sess[s].charge = c /\ sess[s].pc \in Posting

\* A request at r names what it is going to write, and a receipt fits the balance it read.
Formed(r) ==
  /\ r.pc \in {"claim", "decline", "writeOff", "expire", "cap", "read", "attach", "fee"}
       => r.charge \in Charges
  /\ r.pc \in {"read", "receipt", "voidInvoice", "voidPayment"} => r.invoice \in Invoices
  /\ r.pc = "voidPayment" => r.payment \in Payments
  /\ r.pc = "receipt" => r.amount <= r.balance

\* What a request at r has been told of the charge it names.
Informed(r) ==
  /\ r.charge \in Charges /\ r.pc \in Posting \cup {"claim"} => charge[r.charge] = "succeeded"
  /\ r.charge \in Charges /\ r.pc \in {"decline", "writeOff"} => charge[r.charge] = "failed"

AllFormed ==
  /\ \A s \in Sessions : Formed(sess[s])
  /\ \A p \in Payments : payment[p].status # "none" => payment[p].invoice \in Invoices
  /\ \A c \in Charges : checkout[c].status # "none" => checkout[c].invoice \in Invoices

AllInformed == \A s \in Sessions : Informed(sess[s])

\* A checkout that is not in the table is not at the processor either.
NotAheadOfTable == \A c \in Charges : checkout[c].status = "none" => charge[c] = "none"

OnePoster ==
  \A c \in Charges, s \in Sessions : Posts(s, c) =>
    /\ checkout[c].status = "succeeded"
    /\ \A t \in Sessions : Posts(t, c) => t = s

\* Nothing is in the books before the claim, nor before the one that posts it gets there.
NothingYet ==
  \A c \in Charges :
    /\ checkout[c].status # "succeeded" =>
         fees[c] = 0 /\ \A p \in Payments : payment[p].reference # c
    /\ \A s \in Sessions : Posts(s, c) =>
         /\ fees[c] = 0
         /\ sess[s].pc \in Unreceived => \A p \in Payments : payment[p].reference # c

InTheBooksOnce ==
  \A c \in Charges :
    /\ fees[c] \in {0, 1}
    /\ \A p, q \in Payments : payment[p].reference = c /\ payment[q].reference = c => p = q

Told == AllInformed /\ NotAheadOfTable /\ NothingIsGuessed
Once == OnePoster /\ NothingYet /\ InTheBooksOnce
Safe == TypeOK /\ AllFormed /\ Told /\ Once

-----------------------------------------------------------------------------

\* The cases of Next.
LEMMA NextCases ==
  ASSUME Next
  PROVE \/ \E c \in Charges : StartCheckout(c)
        \/ \E c \in Charges : CustomerPays(c)
        \/ \E c \in Charges : DeadlinePasses(c)
        \/ \E c \in Charges, s \in Sessions : SweepOf(s, c)
        \/ \E s \in Sessions : Return(s)
        \/ \E s \in Sessions : Kill(s)
        \/ \E s \in Sessions : Decline(s)
        \/ \E s \in Sessions : Claim(s)
        \/ \E s \in Sessions : Cap(s)
        \/ \E s \in Sessions : ReadAgain(s)
        \/ \E s \in Sessions : Attach(s)
        \/ \E s \in Sessions : PostFee(s)
        \/ \E s \in Sessions : Resolve(s)
        \/ \E s \in Sessions :
             Receive(s) /\ UNCHANGED <<checkout, charge, late, fees, outages, kills>>
        \/ \E s \in Sessions :
             Clerk(s, Settled) /\ UNCHANGED <<checkout, charge, late, fees, outages, kills>>
BY DEF Next, Continue

LEMMA IdleIsSession == Idle \in Session /\ Idle.pc = "idle" /\ Idle.charge = NoCharge
BY SettlementAssumption DEF Idle, Session

\* What settlement applies, the lesser of the charge and the balance, is an amount.
LEMMA LesserIsWithinTotal ==
  ASSUME NEW g \in 0 .. Total, NEW b \in Nat
  PROVE (IF g < b THEN g ELSE b) \in 0 .. Total
BY SettlementAssumption

-----------------------------------------------------------------------------
(* What the steps that only read leave the request with.                    *)

LEMMA TypeInit == Init => TypeOK
BY SettlementAssumption, IdleIsSession
DEF Init, SettlementInit, TypeOK, Invoice, Payment, Checkout, NoRow

\* A request that only moves on.
LEMMA EnterKeepsType ==
  ASSUME TypeOK, NEW s \in Sessions, NEW r \in Session, Enter(s, r),
         UNCHANGED <<invoice, payment, damaged, checkout, charge, late, fees>>,
         outages' \in Nat, kills' \in Nat
  PROVE TypeOK'
BY DEF TypeOK, Enter

\* A request that has asked about c, and goes on as it was told.
Asked(r, c) ==
  /\ r.charge = c
  /\ \/ r.pc = "claim" /\ charge[c] = "succeeded"
     \/ r.pc \in {"decline", "writeOff"} /\ charge[c] = "failed"
     \/ r.pc = "expire"

LEMMA SettleEnters ==
  ASSUME TypeOK, NEW s \in Sessions, NEW c \in Charges, Settle(s, c)
  PROVE \E r \in Session :
          /\ Enter(s, r) /\ outages' \in Nat
          /\ r = Idle \/ Asked(r, c)
<1> PICK answer \in {charge[c], "unknown"} :
      /\ Reports(c, answer)
      /\ Enter(s, IF AfterAnswer(answer) = "idle" THEN Idle
                  ELSE [Idle EXCEPT !.pc = AfterAnswer(answer), !.charge = c])
  BY DEF Settle
<1>1. outages' \in Nat
  BY DEF Reports, TypeOK
<1>2. CASE AfterAnswer(answer) = "idle"
  BY <1>1, <1>2, IdleIsSession
<1>3. CASE AfterAnswer(answer) # "idle"
  <2>1. \/ answer = "succeeded" /\ AfterAnswer(answer) = "claim"
        \/ answer = "failed" /\ AfterAnswer(answer) = "decline"
    BY <1>3 DEF AfterAnswer
  <2>2. answer = charge[c]
    BY <2>1
  <2> PICK pc \in {"claim", "decline"} : pc = AfterAnswer(answer)
    BY <2>1
  <2> DEFINE r == [Idle EXCEPT !.pc = pc, !.charge = c]
  <2>4. r \in Session /\ r.charge = c /\ r.pc = pc
    BY IdleIsSession DEF Session
  <2>5. Enter(s, r)
    BY <1>3
  <2> HIDE DEF r
  <2> QED
    BY <1>1, <2>1, <2>2, <2>4, <2>5 DEF Asked
<1> QED
  BY <1>2, <1>3

LEMMA SweepEnters ==
  ASSUME TypeOK, NEW s \in Sessions, NEW c \in Charges, SweepOf(s, c)
  PROVE \E r \in Session :
          /\ Enter(s, r) /\ outages' \in Nat
          /\ r = Idle \/ Asked(r, c)
<1>1. CASE Settle(s, c)
  BY <1>1, SettleEnters
<1>2. CASE /\ Verdict(c, charge[c]) \in {"writeOff", "expire"}
           /\ Enter(s, [Idle EXCEPT !.pc = Verdict(c, charge[c]), !.charge = c])
           /\ UNCHANGED outages
  <2> PICK pc \in {"writeOff", "expire"} : pc = Verdict(c, charge[c])
    BY <1>2
  <2> DEFINE r == [Idle EXCEPT !.pc = pc, !.charge = c]
  <2>2. r \in Session /\ r.charge = c /\ r.pc = pc
    BY IdleIsSession DEF Session
  <2>3. pc = "writeOff" => charge[c] = "failed"
    BY DEF Verdict
  <2>4. outages' \in Nat /\ Enter(s, r)
    BY <1>2 DEF TypeOK
  <2> HIDE DEF r
  <2> QED
    BY <1>2, <2>2, <2>3, <2>4 DEF Asked
<1> QED
  BY <1>1, <1>2 DEF SweepOf

\* The actions of a clerk that read: none is about a charge.
LEMMA ClerkEnters ==
  ASSUME TypeOK, AllFormed, NEW s \in Sessions,
         \/ BeginReceipt(s) \/ BeginVoidInvoice(s) \/ BeginVoidPayment(s, Settled)
         \/ VoidPaymentRefused(s)
  PROVE \E r \in Session : Enter(s, r) /\ r.charge = NoCharge /\ Formed(r)
<1> USE IdleIsSession DEF TypeOK, Session
<1>1. CASE BeginReceipt(s)
  <2> PICK i \in Invoices, amount \in Amounts : ReadForReceipt(s, i, amount, NoCharge)
    BY <1>1 DEF BeginReceipt
  <2> DEFINE r == [Idle EXCEPT !.pc = "receipt", !.invoice = i, !.amount = amount,
                               !.balance = invoice[i].balance, !.charge = NoCharge]
  <2>1. invoice[i].balance \in Nat /\ amount \in 0 .. Total
    BY SettlementAssumption DEF Invoice, Amounts
  <2>2. /\ r \in Session /\ r.charge = NoCharge
        /\ r.pc = "receipt" /\ r.invoice = i
        /\ r.amount = amount /\ r.balance = invoice[i].balance
    BY <2>1
  <2>3. Enter(s, r) /\ amount <= invoice[i].balance
    BY DEF ReadForReceipt, Accepts
  <2> HIDE DEF r
  <2> QED
    BY <2>2, <2>3 DEF Formed
<1>2. CASE BeginVoidInvoice(s)
  <2> PICK i \in Invoices : Enter(s, [Idle EXCEPT !.pc = "voidInvoice", !.invoice = i])
    BY <1>2 DEF BeginVoidInvoice
  <2> DEFINE r == [Idle EXCEPT !.pc = "voidInvoice", !.invoice = i]
  <2>1. r \in Session /\ r.charge = NoCharge /\ r.pc = "voidInvoice" /\ r.invoice = i
    OBVIOUS
  <2>2. Enter(s, r)
    OBVIOUS
  <2> HIDE DEF r
  <2> QED
    BY <2>1, <2>2 DEF Formed
<1>3. CASE BeginVoidPayment(s, Settled)
  <2> PICK p \in Payments \ Settled :
        /\ payment[p].status = "posted"
        /\ Enter(s, [Idle EXCEPT !.pc = "voidPayment", !.invoice = payment[p].invoice,
                                 !.payment = p, !.amount = payment[p].amount,
                                 !.balance = invoice[payment[p].invoice].balance])
    BY <1>3 DEF BeginVoidPayment
  <2> DEFINE i == payment[p].invoice
             r == [Idle EXCEPT !.pc = "voidPayment", !.invoice = payment[p].invoice,
                               !.payment = p, !.amount = payment[p].amount,
                               !.balance = invoice[payment[p].invoice].balance]
  <2>1. i \in Invoices /\ payment[p].amount \in 0 .. Total
    BY DEF AllFormed, Payment
  <2>2. invoice[i].balance \in Nat
    BY <2>1 DEF Invoice
  <2>3. /\ r \in Session /\ r.charge = NoCharge
        /\ r.pc = "voidPayment" /\ r.invoice = i /\ r.payment = p
    BY <2>1, <2>2
  <2>4. Enter(s, r)
    OBVIOUS
  <2> HIDE DEF r
  <2> QED
    BY <2>1, <2>3, <2>4 DEF Formed
<1>4. CASE VoidPaymentRefused(s)
  BY <1>4 DEF VoidPaymentRefused, Formed
<1> QED
  BY <1>1, <1>2, <1>3, <1>4

\* On its way to the receipt, a request goes on about the charge it has claimed.
LEMMA PosterEnters ==
  ASSUME Safe, NEW s \in Sessions, Cap(s) \/ ReadAgain(s)
  PROVE \E r \in Session :
          /\ Enter(s, r) /\ Formed(r)
          /\ \/ r = Idle
             \/ /\ sess[s].pc \in Unreceived /\ r.pc \in Unreceived
                /\ r.charge = sess[s].charge /\ r.charge \in Charges
<1> DEFINE c == sess[s].charge
<1> USE IdleIsSession DEF Safe, TypeOK, Session
<1>1. Formed(Idle)
  BY DEF Formed
<1>2. CASE Cap(s)
  <2> DEFINE i == checkout[c].invoice
             apply == IF checkout[c].gross < invoice[i].balance THEN checkout[c].gross
                      ELSE invoice[i].balance
             r == [Idle EXCEPT !.pc = "read", !.charge = c, !.invoice = i, !.amount = apply]
  <2>1. sess[s].pc = "cap" /\ c \in Charges
    BY <1>2 DEF Cap, At, AllFormed, Formed
  <2>2. checkout[c].status = "succeeded"
    BY <2>1 DEF Once, OnePoster, Posts, Posting, Unreceived
  <2>3. i \in Invoices
    BY <2>1, <2>2 DEF AllFormed
  <2>4. invoice[i].balance \in Nat /\ checkout[c].gross \in 0 .. Total
    BY <2>1, <2>3 DEF Invoice, Checkout
  <2>5. apply \in 0 .. Total
    BY <2>4, LesserIsWithinTotal
  <2>6. Enter(s, Idle) \/ Enter(s, r)
    BY <1>2 DEF Cap
  <2> HIDE DEF apply, i
  <2>7. r \in Session /\ r.pc = "read" /\ r.charge = c /\ r.invoice = i
    BY <2>1, <2>3, <2>5
  <2> HIDE DEF r
  <2> QED
    BY <1>1, <2>1, <2>3, <2>6, <2>7 DEF Formed, Unreceived
<1>3. CASE ReadAgain(s)
  <2> DEFINE i == sess[s].invoice
             r == [Idle EXCEPT !.pc = "receipt", !.invoice = i, !.amount = sess[s].amount,
                               !.balance = invoice[i].balance, !.charge = c]
  <2>1. sess[s].pc = "read" /\ c \in Charges /\ i \in Invoices
    BY <1>3 DEF ReadAgain, At, AllFormed, Formed
  <2>2. invoice[i].balance \in Nat /\ sess[s].amount \in 0 .. Total
    BY <2>1 DEF Invoice
  <2>3. \/ Enter(s, Idle)
        \/ Enter(s, r) /\ sess[s].amount <= invoice[i].balance
    BY <1>3 DEF ReadAgain, ReadForReceipt, Accepts
  <2>4. /\ r \in Session /\ r.pc = "receipt" /\ r.charge = c /\ r.invoice = i
        /\ r.amount = sess[s].amount /\ r.balance = invoice[i].balance
    BY <2>1, <2>2
  <2> HIDE DEF r
  <2> QED
    BY <1>1, <2>1, <2>3, <2>4 DEF Formed, Unreceived
<1> QED
  BY <1>2, <1>3

-----------------------------------------------------------------------------
(* What such steps, and commits to an invoice, preserve.                     *)

\* Request s goes to r; the others keep where they are and what they know.
Goes(s, r) ==
  /\ sess' \in [Sessions -> Session] /\ sess'[s] = r
  /\ \A t \in Sessions \ {s} :
       /\ sess'[t].pc = sess[t].pc /\ sess'[t].charge = sess[t].charge
       /\ sess'[t].invoice = sess[t].invoice /\ sess'[t].payment = sess[t].payment
       /\ sess'[t].amount = sess[t].amount /\ sess'[t].balance = sess[t].balance

LEMMA EnterGoes ==
  ASSUME TypeOK, NEW s \in Sessions, NEW r \in Session, Enter(s, r)
  PROVE Goes(s, r)
BY DEF TypeOK, Enter, Goes

\* It has been told what it now knows, and posts only what it was posting.
MayGo(s, r) ==
  /\ Formed(r) /\ Informed(r)
  /\ \A c \in Charges : r.charge = c /\ r.pc \in Posting =>
       Posts(s, c) /\ (r.pc \in Unreceived => sess[s].pc \in Unreceived)

\* No receipt, fee or checkout is written.
LEMMA GoingKeepsSafe ==
  ASSUME Safe, TypeOK', NEW s \in Sessions, NEW r \in Session, Goes(s, r), MayGo(s, r),
         UNCHANGED <<checkout, charge, fees>>,
         \A p \in Payments :
           /\ payment'[p].reference = payment[p].reference
           /\ payment'[p].status # "none" => payment[p].status # "none"
           /\ payment'[p].invoice = payment[p].invoice
  PROVE Safe'
<1> USE DEF Safe
<1>1. \A t \in Sessions : Formed(sess'[t])
  BY DEF Goes, MayGo, AllFormed, Formed
<1>2. AllFormed'
  BY <1>1 DEF AllFormed, Formed
<1>3. \A t \in Sessions : Informed(sess'[t])
  BY DEF Goes, MayGo, Told, AllInformed, Informed
<1>4. Told'
  BY <1>3 DEF Told, AllInformed, Informed, NotAheadOfTable, NothingIsGuessed
<1>5. \A t \in Sessions, c \in Charges : Posts(t, c)' =>
        Posts(t, c) /\ (sess'[t].pc \in Unreceived => sess[t].pc \in Unreceived)
  BY DEF Goes, MayGo, Posts
<1>6. Once'
  BY <1>5 DEF Once, OnePoster, NothingYet, InTheBooksOnce
<1> QED
  BY <1>2, <1>4, <1>6

\* A session whose reading has been overtaken is otherwise what it was.
LEMMA OvertakenSession ==
  ASSUME NEW r \in Session
  PROVE LET q == [r EXCEPT !.stale = TRUE]
        IN /\ q \in Session
           /\ q.pc = r.pc /\ q.charge = r.charge /\ q.invoice = r.invoice
           /\ q.payment = r.payment /\ q.amount = r.amount /\ q.balance = r.balance
<1> DEFINE q == [r EXCEPT !.stale = TRUE]
<1>1. q \in Session
  BY DEF Session
<1>2. q.pc = r.pc /\ q.charge = r.charge /\ q.invoice = r.invoice
  BY DEF Session
<1>3. q.payment = r.payment /\ q.amount = r.amount /\ q.balance = r.balance
  BY DEF Session
<1> QED
  BY <1>1, <1>2, <1>3

\* A commit to an invoice overtakes others' readings of it, and nothing else of theirs.
LEMMA CommitGoes ==
  ASSUME TypeOK, NEW s \in Sessions, NEW i \in Invoices,
         NEW status \in {"open", "partial", "paid", "void"}, NEW balance \in Nat,
         NEW next \in Session, CommitInvoice(s, i, status, balance, next)
  PROVE /\ invoice' \in [Invoices -> Invoice]
        /\ damaged' \in SUBSET Invoices
        /\ Goes(s, next)
<1>1. invoice' \in [Invoices -> Invoice]
  BY DEF TypeOK, CommitInvoice, Invoice
<1>2. damaged' \in SUBSET Invoices
  BY DEF TypeOK, CommitInvoice
<1>3. ASSUME NEW t \in Sessions \ {s}
      PROVE /\ sess'[t] \in Session
            /\ sess'[t].pc = sess[t].pc /\ sess'[t].charge = sess[t].charge
            /\ sess'[t].invoice = sess[t].invoice /\ sess'[t].payment = sess[t].payment
            /\ sess'[t].amount = sess[t].amount /\ sess'[t].balance = sess[t].balance
  <2>1. sess[t] \in Session
    BY DEF TypeOK
  <2>2. sess'[t] \in {sess[t], [sess[t] EXCEPT !.stale = TRUE]}
    BY DEF CommitInvoice
  <2>3. CASE sess'[t] = sess[t]
    BY <2>1, <2>3
  <2>4. CASE sess'[t] = [sess[t] EXCEPT !.stale = TRUE]
    BY <2>1, <2>4, OvertakenSession
  <2> QED
    BY <2>2, <2>3, <2>4
<1>4. sess'[s] = next
  BY DEF CommitInvoice
<1>5. sess' \in [Sessions -> Session]
  BY <1>3, <1>4 DEF CommitInvoice
<1> QED
  BY <1>1, <1>2, <1>3, <1>4, <1>5 DEF Goes

\* A step that only moves request s on.
LEMMA EnterKeepsSafe ==
  ASSUME Safe, NEW s \in Sessions, NEW r \in Session, Enter(s, r), MayGo(s, r),
         UNCHANGED <<invoice, payment, damaged, checkout, charge, late, fees>>,
         outages' \in Nat, kills' \in Nat
  PROVE Safe'
<1>1. TypeOK' /\ Goes(s, r)
  BY EnterKeepsType, EnterGoes DEF Safe
<1> QED
  BY <1>1, GoingKeepsSafe

LEMMA MayGoIdle == ASSUME NEW s PROVE MayGo(s, Idle)
BY IdleIsSession, SettlementAssumption DEF MayGo, Formed, Informed, Posting, Unreceived

\* One that is about no charge may go on without having been told anything.
LEMMA MayGoAboutNone ==
  ASSUME NEW s, NEW r, r.charge = NoCharge, Formed(r)
  PROVE MayGo(s, r)
BY SettlementAssumption DEF MayGo, Informed

LEMMA MayGoAsTold ==
  ASSUME NEW s, NEW r, NEW c \in Charges, Asked(r, c)
  PROVE MayGo(s, r)
BY DEF MayGo, Asked, Formed, Informed, Posting, Unreceived

-----------------------------------------------------------------------------
(* The steps.                                                               *)

LEMMA ReadingKeepsSafe ==
  ASSUME Safe, NEW s \in Sessions,
         \/ Return(s) \/ Kill(s) \/ Cap(s) \/ ReadAgain(s)
         \/ \E c \in Charges : SweepOf(s, c)
         \/ /\ \/ BeginReceipt(s) \/ BeginVoidInvoice(s) \/ BeginVoidPayment(s, Settled)
               \/ VoidPaymentRefused(s)
            /\ UNCHANGED <<checkout, charge, late, fees, outages, kills>>
  PROVE Safe'
<1> SUFFICES \E r \in Session :
      /\ Enter(s, r) /\ MayGo(s, r)
      /\ UNCHANGED <<invoice, payment, damaged, checkout, charge, late, fees>>
      /\ outages' \in Nat /\ kills' \in Nat
  BY EnterKeepsSafe
<1> USE DEF Safe
<1>1. outages \in Nat /\ kills \in Nat
  BY DEF TypeOK
<1>2. CASE Return(s)
  <2> PICK c \in Charges : Settle(s, c)
    BY <1>2 DEF Return
  <2> PICK r \in Session : Enter(s, r) /\ outages' \in Nat /\ (r = Idle \/ Asked(r, c))
    BY SettleEnters
  <2> QED
    BY <1>1, <1>2, MayGoIdle, MayGoAsTold DEF Return
<1>3. CASE Kill(s)
  BY <1>1, <1>3, MayGoIdle, IdleIsSession DEF Kill
<1>4. CASE Cap(s) \/ ReadAgain(s)
  <2> PICK r \in Session :
        /\ Enter(s, r) /\ Formed(r)
        /\ \/ r = Idle
           \/ /\ sess[s].pc \in Unreceived /\ r.pc \in Unreceived
              /\ r.charge = sess[s].charge /\ r.charge \in Charges
    BY <1>4, PosterEnters
  <2>1. CASE r = Idle
    BY <1>1, <1>4, <2>1, MayGoIdle DEF Cap, ReadAgain
  <2>2. CASE r # Idle
    <3>1. charge[r.charge] = "succeeded"
      BY <2>2 DEF Told, AllInformed, Informed, Posting
    <3>2. MayGo(s, r)
      BY <2>2, <3>1 DEF MayGo, Informed, Posts, Posting, Unreceived
    <3> QED
      BY <1>1, <1>4, <3>2 DEF Cap, ReadAgain
  <2> QED
    BY <2>1, <2>2
<1>5. CASE \E c \in Charges : SweepOf(s, c)
  <2> PICK c \in Charges : SweepOf(s, c)
    BY <1>5
  <2> PICK r \in Session : Enter(s, r) /\ outages' \in Nat /\ (r = Idle \/ Asked(r, c))
    BY SweepEnters
  <2> QED
    BY <1>1, MayGoIdle, MayGoAsTold DEF SweepOf
<1>6. CASE /\ \/ BeginReceipt(s) \/ BeginVoidInvoice(s) \/ BeginVoidPayment(s, Settled)
              \/ VoidPaymentRefused(s)
           /\ UNCHANGED <<checkout, charge, late, fees, outages, kills>>
  <2> PICK r \in Session : Enter(s, r) /\ r.charge = NoCharge /\ Formed(r)
    BY <1>6, ClerkEnters
  <2> QED
    BY <1>1, <1>6, MayGoAboutNone
    DEF BeginReceipt, BeginVoidInvoice, BeginVoidPayment, VoidPaymentRefused
<1> QED
  BY <1>2, <1>3, <1>4, <1>5, <1>6

\* A void of an invoice or of a payment.
LEMMA VoidingKeepsSafe ==
  ASSUME Safe, NEW s \in Sessions, VoidInvoice(s) \/ VoidPayment(s),
         UNCHANGED <<checkout, charge, late, fees, outages, kills>>
  PROVE Safe'
<1> USE DEF Safe
<1>1. CASE VoidInvoice(s)
  <2>1. sess[s].invoice \in Invoices
    BY <1>1 DEF VoidInvoice, At, AllFormed, Formed
  <2>2. /\ invoice' \in [Invoices -> Invoice] /\ damaged' \in SUBSET Invoices
        /\ Goes(s, Idle) /\ UNCHANGED payment
    BY <1>1, <2>1, CommitGoes, IdleIsSession DEF VoidInvoice
  <2>3. TypeOK'
    BY <2>2 DEF TypeOK, Goes
  <2> QED
    BY <2>2, <2>3, GoingKeepsSafe, MayGoIdle, IdleIsSession
<1>2. CASE VoidPayment(s)
  <2> DEFINE p == sess[s].payment
             back == sess[s].balance + sess[s].amount
  <2>1. sess[s].invoice \in Invoices /\ p \in Payments
    BY <1>2 DEF VoidPayment, At, AllFormed, Formed
  <2>2. back \in Nat
    BY SettlementAssumption DEF TypeOK, Session
  <2>3. /\ payment' = [payment EXCEPT ![p].status = "void"]
        /\ payment[p].status = "posted"
        /\ \E status \in {"open", "partial"} : CommitInvoice(s, sess[s].invoice, status, back, Idle)
    BY <1>2 DEF VoidPayment, StillPosted
  <2> HIDE DEF back, p
  <2>4. invoice' \in [Invoices -> Invoice] /\ damaged' \in SUBSET Invoices /\ Goes(s, Idle)
    BY <2>1, <2>2, <2>3, CommitGoes, IdleIsSession
  <2>5. /\ payment' \in [Payments -> Payment]
        /\ \A q \in Payments :
             /\ payment'[q].reference = payment[q].reference
             /\ payment'[q].status # "none" => payment[q].status # "none"
             /\ payment'[q].invoice = payment[q].invoice
    BY <2>1, <2>3 DEF TypeOK, Payment
  <2>6. TypeOK'
    BY <2>4, <2>5 DEF TypeOK, Goes
  <2> QED
    BY <2>4, <2>5, <2>6, GoingKeepsSafe, MayGoIdle, IdleIsSession
<1> QED
  BY <1>1, <1>2

\* recordPayment's commit: a clerk's, or that of the one poster of a charge.
LEMMA ReceivingKeepsSafe ==
  ASSUME Safe, NEW s \in Sessions, Receive(s),
         UNCHANGED <<checkout, charge, late, fees, outages, kills>>
  PROVE Safe'
<1> DEFINE c == sess[s].charge
           i == sess[s].invoice
           p == CHOOSE p \in Unused : TRUE
           left == sess[s].balance - sess[s].amount
           next == IF c = NoCharge THEN Idle
                   ELSE [Idle EXCEPT !.pc = "attach", !.payment = p, !.charge = c]
           new == [status |-> "posted", invoice |-> i, amount |-> sess[s].amount,
                   reference |-> Reference(s)]
<1> USE DEF Safe
<1>1. sess[s].pc = "receipt" /\ i \in Invoices /\ sess[s].amount <= sess[s].balance
  BY DEF Receive, At, AllFormed, Formed
<1>2. sess[s] \in Session /\ c \in Charges \cup {NoCharge}
  BY DEF TypeOK, Session
<1>3. left \in Nat
  BY <1>1, <1>2, SettlementAssumption DEF Session
<1>4. p \in Payments
  BY DEF Receive, Unused
<1>5. payment' = [payment EXCEPT ![p] = new]
  BY DEF Receive
<1>6. CommitInvoice(s, i, IF left = 0 THEN "paid" ELSE "partial", left, next)
  BY DEF Receive
<1>7. new \in Payment /\ new.status # "none" /\ new.invoice = i
  BY <1>1, <1>2 DEF Payment, Session, Reference
<1>8. new.reference = (IF c = NoCharge THEN Cash ELSE c)
  BY DEF Reference
<1>9. /\ next \in Session
      /\ c = NoCharge => next = Idle
      /\ c # NoCharge => next.pc = "attach" /\ next.charge = c
  <2> HIDE DEF p, c
  <2>1. CASE c = NoCharge
    BY <2>1, IdleIsSession
  <2>2. CASE c # NoCharge
    <3>1. next = [Idle EXCEPT !.pc = "attach", !.payment = p, !.charge = c]
      BY <2>2
    <3> QED
      BY <1>2, <1>4, <2>2, <3>1, IdleIsSession DEF Session
  <2> QED
    BY <2>1, <2>2
<1> HIDE DEF p, left, next, new
<1>10. /\ invoice' \in [Invoices -> Invoice] /\ damaged' \in SUBSET Invoices
       /\ Goes(s, next)
  <2> PICK status \in {"paid", "partial"} : CommitInvoice(s, i, status, left, next)
    BY <1>6
  <2> QED
    BY <1>1, <1>3, <1>9, CommitGoes
<1>11. payment' \in [Payments -> Payment]
  BY <1>4, <1>5, <1>7 DEF TypeOK
<1>12. TypeOK'
  BY <1>10, <1>11 DEF TypeOK, Goes
<1>13. c \in Charges => Posts(s, c) /\ sess[s].pc \in Unreceived /\ charge[c] = "succeeded"
  BY <1>1 DEF Posts, Posting, Unreceived, Told, AllInformed, Informed
<1>14. MayGo(s, Idle) /\ Formed(next) /\ Informed(next)
  BY <1>2, <1>9, <1>13, MayGoIdle DEF MayGo, Formed, Informed, Posting, Unreceived
<1>15. \A q \in Payments : payment'[q] = (IF q = p THEN new ELSE payment[q])
  BY <1>4, <1>5 DEF TypeOK
<1>16. AllFormed'
  <2>1. \A t \in Sessions : Formed(sess'[t])
    BY <1>10, <1>14 DEF Goes, AllFormed, Formed
  <2>2. \A q \in Payments : payment'[q].status # "none" => payment'[q].invoice \in Invoices
    BY <1>1, <1>7, <1>15 DEF AllFormed
  <2> QED
    BY <2>1, <2>2 DEF AllFormed, Formed
<1>17. Told'
  <2>1. \A t \in Sessions : Informed(sess'[t])
    BY <1>10, <1>14 DEF Goes, Told, AllInformed, Informed
  <2> QED
    BY <2>1 DEF Told, AllInformed, Informed, NotAheadOfTable, NothingIsGuessed
<1>18. \A t \in Sessions, d \in Charges : Posts(t, d)' =>
         Posts(t, d) /\ (t = s => sess'[t].pc \notin Unreceived)
                     /\ (t # s => sess'[t].pc = sess[t].pc)
  BY <1>2, <1>9, <1>10, <1>13, IdleIsSession, SettlementAssumption
  DEF Goes, Posts, Posting, Unreceived
<1>19. OnePoster'
  BY <1>18 DEF Once, OnePoster
<1>20. \A q \in Payments, d \in Charges : payment'[q].reference = d =>
         payment[q].reference = d \/ (q = p /\ d = c)
  BY <1>8, <1>15, SettlementAssumption
<1>21. c \in Charges => /\ checkout[c].status = "succeeded"
                        /\ \A q \in Payments : payment[q].reference # c
                        /\ \A t \in Sessions : Posts(t, c) => t = s
  BY <1>13 DEF Once, OnePoster, NothingYet
<1>22. NothingYet'
  BY <1>18, <1>20, <1>21 DEF Once, NothingYet
<1>23. InTheBooksOnce'
  BY <1>4, <1>20, <1>21 DEF Once, InTheBooksOnce
<1> QED
  BY <1>12, <1>16, <1>17, <1>19, <1>22, <1>23 DEF Once

\* Before a charge is taken nothing is known of it, and the processor says it once.
LEMMA OutsideKeepsSafe ==
  ASSUME Safe, NEW c \in Charges, StartCheckout(c) \/ CustomerPays(c) \/ DeadlinePasses(c)
  PROVE Safe'
<1> USE DEF Safe
<1>1. CASE StartCheckout(c)
  <2> PICK i \in Invoices, gross \in Amounts :
        checkout' = [checkout EXCEPT ![c] =
          [status |-> "pending", invoice |-> i, gross |-> gross, payment |-> NoPayment]]
    BY <1>1 DEF StartCheckout
  <2>1. checkout' \in [Charges -> Checkout]
    BY SettlementAssumption DEF TypeOK, Checkout, Amounts
  <2>2. /\ UNCHANGED <<invoice, payment, sess, damaged, late, fees, outages, kills>>
        /\ charge' = [charge EXCEPT ![c] = "pending"]
        /\ checkout[c].status = "none"
    BY <1>1 DEF StartCheckout, settlementVars
  <2>3. TypeOK'
    BY <2>1, <2>2 DEF TypeOK
  <2>4. charge[c] = "none"
    BY <2>2 DEF Told, NotAheadOfTable
  <2>5. \A d \in Charges : checkout'[d].status # "none" =>
          checkout'[d].invoice \in Invoices /\ (d = c \/ checkout'[d] = checkout[d])
    BY DEF TypeOK, AllFormed
  <2>6. AllFormed'
    BY <2>2, <2>5 DEF AllFormed, Formed
  <2>7. \A d \in Charges : d # c => checkout'[d] = checkout[d] /\ charge'[d] = charge[d]
    BY <2>2 DEF TypeOK
  <2>8. checkout'[c].status = "pending" /\ charge'[c] = "pending"
    BY <2>2 DEF TypeOK
  <2>9. Told'
    BY <2>2, <2>4, <2>7, <2>8 DEF Told, AllInformed, Informed, NotAheadOfTable, NothingIsGuessed
  <2>10. Once'
    BY <2>2, <2>7, <2>8 DEF Once, OnePoster, NothingYet, InTheBooksOnce, Posts
  <2> QED
    BY <2>3, <2>6, <2>9, <2>10
<1>2. CASE CustomerPays(c)
  <2>1. /\ UNCHANGED <<invoice, payment, sess, damaged, checkout, late, fees, outages, kills>>
        /\ charge[c] = "pending"
        /\ charge' \in {[charge EXCEPT ![c] = answer] : answer \in {"succeeded", "failed"}}
    BY <1>2 DEF CustomerPays, settlementVars
  <2>2. TypeOK'
    BY <2>1 DEF TypeOK
  <2>3. \A d \in Charges : charge[d] # "pending" => charge'[d] = charge[d]
    BY <2>1 DEF TypeOK
  <2>5. AllFormed' /\ Once'
    BY <2>1 DEF AllFormed, Formed, Once, OnePoster, NothingYet, InTheBooksOnce, Posts
  <2>6. Told'
    <3>1. AllInformed'
      BY <2>1, <2>3 DEF Told, AllInformed, Informed
    <3>2. NotAheadOfTable'
      BY <2>1, <2>3 DEF Told, NotAheadOfTable
    <3>3. NothingIsGuessed'
      BY <2>1, <2>3 DEF Told, NothingIsGuessed
    <3> QED
      BY <3>1, <3>2, <3>3 DEF Told
  <2> QED
    BY <2>2, <2>5, <2>6
<1>3. CASE DeadlinePasses(c)
  BY <1>3 DEF DeadlinePasses, settlementVars, TypeOK, AllFormed, Formed, Told, AllInformed,
     Informed, NotAheadOfTable, NothingIsGuessed, Once, OnePoster, NothingYet,
     InTheBooksOnce, Posts
<1> QED
  BY <1>1, <1>2, <1>3

\* A checkout that nobody has claimed is given up.
LEMMA GivingUpKeepsSafe ==
  ASSUME Safe, NEW s \in Sessions, NEW c \in Charges, NEW status \in {"failed", "expired"},
         checkout[c].status \notin {"none", "succeeded"},
         status = "failed" => charge[c] = "failed",
         checkout' = [checkout EXCEPT ![c].status = status], Enter(s, Idle),
         UNCHANGED <<invoice, payment, damaged, charge, late, fees, outages, kills>>
  PROVE Safe'
<1> USE DEF Safe
<1>1. Goes(s, Idle) /\ MayGo(s, Idle)
  BY EnterGoes, MayGoIdle, IdleIsSession
<1>2. checkout' \in [Charges -> Checkout]
  BY DEF TypeOK, Checkout
<1>3. TypeOK'
  BY <1>1, <1>2 DEF TypeOK, Goes
<1>4. /\ checkout'[c].status = status /\ checkout'[c].invoice = checkout[c].invoice
      /\ \A d \in Charges : d # c => checkout'[d] = checkout[d]
  BY DEF TypeOK, Checkout
<1>5. \A t \in Sessions : Formed(sess'[t]) /\ Informed(sess'[t])
  BY <1>1 DEF Goes, MayGo, AllFormed, Formed, Told, AllInformed, Informed
<1>6. AllFormed'
  BY <1>4, <1>5 DEF AllFormed, Formed
<1>7. Told'
  BY <1>4, <1>5 DEF Told, AllInformed, Informed, NotAheadOfTable, NothingIsGuessed
<1>8. \A t \in Sessions, d \in Charges : Posts(t, d)' =>
        Posts(t, d) /\ d # c /\ sess'[t].pc = sess[t].pc
  BY <1>1, IdleIsSession DEF Goes, Once, OnePoster, Posts, Posting, Unreceived
<1>9. Once'
  BY <1>4, <1>8 DEF Once, OnePoster, NothingYet, InTheBooksOnce
<1> QED
  BY <1>3, <1>6, <1>7, <1>9

LEMMA ResolvingKeepsSafe ==
  ASSUME Safe, NEW s \in Sessions, Decline(s) \/ Resolve(s)
  PROVE Safe'
<1> DEFINE c == sess[s].charge
<1>1. c \in Charges
  BY DEF Decline, Resolve, At, Safe, AllFormed, Formed
<1>2. CASE Decline(s)
  <2>1. charge[c] = "failed"
    BY <1>1, <1>2 DEF Decline, At, Safe, Told, AllInformed, Informed
  <2>2. checkout[c].status \notin {"none", "succeeded"}
    BY <1>1, <2>1 DEF Safe, Told, NotAheadOfTable, NothingIsGuessed
  <2> QED
    BY <1>1, <1>2, <2>1, <2>2, GivingUpKeepsSafe DEF Decline
<1>3. CASE Resolve(s) /\ checkout[c].status = "pending"
  <2>1. PICK status \in {"failed", "expired"} :
          /\ WriteOff(c, status)
          /\ status = "failed" => sess[s].pc = "writeOff"
    BY <1>3 DEF Resolve, At
  <2>2. status = "failed" => charge[c] = "failed"
    BY <1>1, <2>1 DEF Safe, Told, AllInformed, Informed
  <2> QED
    BY <1>1, <1>3, <2>1, <2>2, GivingUpKeepsSafe DEF Resolve, WriteOff
<1>4. CASE Resolve(s) /\ checkout[c].status # "pending"
  <2>1. Enter(s, Idle) /\ UNCHANGED <<invoice, payment, damaged, checkout, charge, late, fees>>
    BY <1>4 DEF Resolve
  <2>2. outages' \in Nat /\ kills' \in Nat
    BY <1>4 DEF Resolve, Safe, TypeOK
  <2> QED
    BY <2>1, <2>2, EnterKeepsSafe, MayGoIdle, IdleIsSession
<1> QED
  BY <1>2, <1>3, <1>4

\* The claim: nothing of the charge is in the books, and nobody is posting it.
LEMMA ClaimingKeepsSafe ==
  ASSUME Safe, NEW s \in Sessions, Claim(s)
  PROVE Safe'
<1> DEFINE c == sess[s].charge
           next == [Idle EXCEPT !.pc = "cap", !.charge = c]
<1>1. c \in Charges /\ charge[c] = "succeeded"
  BY DEF Claim, At, Safe, AllFormed, Formed, Told, AllInformed, Informed
<1>2. CASE ~Claimable(c)
  <2>1. Enter(s, Idle) /\ UNCHANGED <<invoice, payment, damaged, checkout, charge, late, fees>>
    BY <1>2 DEF Claim
  <2>2. outages' \in Nat /\ kills' \in Nat
    BY DEF Claim, Safe, TypeOK
  <2> QED
    BY <2>1, <2>2, EnterKeepsSafe, MayGoIdle, IdleIsSession
<1>3. CASE Claimable(c)
  <2> USE DEF Safe
  <2>1. /\ checkout[c].status = "pending"
        /\ checkout' = [checkout EXCEPT ![c].status = "succeeded"]
        /\ Enter(s, next)
        /\ UNCHANGED <<invoice, payment, damaged, charge, late, fees, outages, kills>>
    BY <1>3 DEF Claim, Claimable
  <2>2. next \in Session /\ next.pc = "cap" /\ next.charge = c
    BY <1>1, IdleIsSession DEF Session
  <2> HIDE DEF next, c
  <2>3. Goes(s, next)
    BY <2>1, <2>2, EnterGoes
  <2>4. checkout' \in [Charges -> Checkout]
    BY <1>1, <2>1 DEF TypeOK, Checkout
  <2>5. TypeOK'
    BY <2>1, <2>3, <2>4 DEF TypeOK, Goes
  <2>6. /\ checkout'[c].status = "succeeded" /\ checkout'[c].invoice = checkout[c].invoice
        /\ \A d \in Charges : d # c => checkout'[d] = checkout[d]
    BY <1>1, <2>1 DEF TypeOK, Checkout
  <2>7. \A t \in Sessions : Formed(sess'[t]) /\ Informed(sess'[t])
    BY <1>1, <2>2, <2>3 DEF Goes, AllFormed, Formed, Told, AllInformed, Informed
  <2>8. AllFormed'
    BY <2>1, <2>6, <2>7 DEF AllFormed, Formed
  <2>9. Told'
    BY <1>1, <2>1, <2>6, <2>7 DEF Told, AllInformed, Informed, NotAheadOfTable, NothingIsGuessed
  <2>10. \A t \in Sessions : ~Posts(t, c)
    BY <1>1, <2>1 DEF Once, OnePoster
  <2>11. \A t \in Sessions, d \in Charges : Posts(t, d)' =>
           \/ t = s /\ d = c
           \/ t # s /\ d # c /\ Posts(t, d) /\ sess'[t].pc = sess[t].pc
    BY <2>2, <2>3, <2>10 DEF Goes, Posts
  <2>12. fees[c] = 0 /\ \A p \in Payments : payment[p].reference # c
    BY <1>1, <2>1 DEF Once, NothingYet
  <2>13. Once'
    BY <2>1, <2>6, <2>11, <2>12 DEF Once, OnePoster, NothingYet, InTheBooksOnce
  <2> QED
    BY <2>5, <2>8, <2>9, <2>13
<1> QED
  BY <1>2, <1>3

\* After the receipt: the payment's id, and the fee.
LEMMA FinishingKeepsSafe ==
  ASSUME Safe, NEW s \in Sessions, Attach(s) \/ PostFee(s)
  PROVE Safe'
<1> DEFINE c == sess[s].charge
<1> USE DEF Safe
<1>1. c \in Charges /\ Posts(s, c) /\ charge[c] = "succeeded"
  BY DEF Attach, PostFee, At, AllFormed, Formed, Told, AllInformed, Informed, Posts, Posting
<1>2. CASE Attach(s)
  <2> DEFINE next == [Idle EXCEPT !.pc = "fee", !.charge = c]
  <2>1. /\ checkout' = [checkout EXCEPT ![c].payment = IF @ = NoPayment THEN sess[s].payment ELSE @]
        /\ Enter(s, next)
        /\ sess[s].pc = "attach"
        /\ UNCHANGED <<invoice, payment, damaged, charge, late, fees, outages, kills>>
    BY <1>2 DEF Attach, At
  <2>2. next \in Session /\ next.pc = "fee" /\ next.charge = c
    BY <1>1, IdleIsSession DEF Session
  <2> HIDE DEF next
  <2>3. Goes(s, next)
    BY <2>1, <2>2, EnterGoes
  <2>4. sess[s].payment \in Payments \cup {NoPayment}
    BY DEF TypeOK, Session
  <2>5. checkout' \in [Charges -> Checkout]
    <3>1. [checkout[c] EXCEPT !.payment = IF @ = NoPayment THEN sess[s].payment ELSE @] \in Checkout
      BY <1>1, <2>4 DEF TypeOK, Checkout
    <3> QED
      BY <1>1, <2>1, <3>1 DEF TypeOK
  <2>6. TypeOK'
    BY <2>1, <2>3, <2>5 DEF TypeOK, Goes
  <2>7. \A d \in Charges : /\ checkout'[d].status = checkout[d].status
                           /\ checkout'[d].invoice = checkout[d].invoice
    BY <1>1, <2>1 DEF TypeOK, Checkout
  <2>8. \A t \in Sessions : Formed(sess'[t]) /\ Informed(sess'[t])
    BY <1>1, <2>2, <2>3 DEF Goes, AllFormed, Formed, Told, AllInformed, Informed
  <2>9. AllFormed' /\ Told'
    BY <2>1, <2>7, <2>8
    DEF AllFormed, Formed, Told, AllInformed, Informed, NotAheadOfTable, NothingIsGuessed
  <2>10. \A t \in Sessions, d \in Charges : Posts(t, d)' =>
           Posts(t, d) /\ (sess'[t].pc \in Unreceived => sess[t].pc \in Unreceived)
    BY <1>1, <2>2, <2>3 DEF Goes, Posts, Unreceived
  <2>11. Once'
    BY <2>1, <2>7, <2>10 DEF Once, OnePoster, NothingYet, InTheBooksOnce
  <2> QED
    BY <2>6, <2>9, <2>11
<1>3. CASE PostFee(s)
  <2>1. /\ fees' = [fees EXCEPT ![c] = @ + 1]
        /\ Enter(s, Idle)
        /\ UNCHANGED <<invoice, payment, damaged, checkout, charge, late, outages, kills>>
    BY <1>3 DEF PostFee
  <2>9. fees' \in [Charges -> Nat]
    <3> HIDE DEF c
    <3> QED
      BY <1>1, <2>1 DEF TypeOK
  <2>2. Goes(s, Idle) /\ MayGo(s, Idle)
    BY <2>1, EnterGoes, MayGoIdle, IdleIsSession
  <2>3. TypeOK'
    BY <2>1, <2>2, <2>9 DEF TypeOK, Goes
  <2>4. \A t \in Sessions : Formed(sess'[t]) /\ Informed(sess'[t])
    BY <2>2 DEF Goes, MayGo, AllFormed, Formed, Told, AllInformed, Informed
  <2>5. AllFormed' /\ Told'
    BY <2>1, <2>4
    DEF AllFormed, Formed, Told, AllInformed, Informed, NotAheadOfTable, NothingIsGuessed
  <2>6. /\ fees[c] = 0 /\ fees'[c] = 1 /\ checkout[c].status = "succeeded"
        /\ \A d \in Charges : d # c => fees'[d] = fees[d]
    BY <1>1, <2>1 DEF TypeOK, Once, OnePoster, NothingYet
  <2>7. \A t \in Sessions, d \in Charges : Posts(t, d)' =>
          Posts(t, d) /\ d # c /\ sess'[t].pc = sess[t].pc
    BY <1>1, <2>2, IdleIsSession DEF Goes, Once, OnePoster, Posts, Posting, Unreceived
  <2>8. Once'
    BY <2>1, <2>6, <2>7 DEF Once, OnePoster, NothingYet, InTheBooksOnce
  <2> QED
    BY <2>3, <2>5, <2>8
<1> QED
  BY <1>2, <1>3

-----------------------------------------------------------------------------

LEMMA SafeInit == Init => Safe
<1> SUFFICES ASSUME Init PROVE Safe
  OBVIOUS
<1>1. TypeOK
  BY TypeInit
<1>2. \A s \in Sessions : sess[s] = Idle
  BY DEF Init, SettlementInit
<1>3. Formed(Idle) /\ Informed(Idle) /\ \A s \in Sessions, c \in Charges : ~Posts(s, c)
  BY <1>2, IdleIsSession, SettlementAssumption DEF Formed, Informed, Posts, Posting, Unreceived
<1>4. \A p \in Payments : payment[p].status = "none" /\ payment[p].reference = Cash
  BY DEF Init, SettlementInit, NoRow
<1>5. \A c \in Charges : checkout[c].status = "none" /\ charge[c] = "none" /\ fees[c] = 0
  BY DEF Init
<1>6. AllFormed /\ Told
  BY <1>2, <1>3, <1>4, <1>5 DEF AllFormed, Told, AllInformed, NotAheadOfTable, NothingIsGuessed
<1>7. Once
  BY <1>3, <1>4, <1>5, SettlementAssumption DEF Once, OnePoster, NothingYet, InTheBooksOnce
<1> QED
  BY <1>1, <1>6, <1>7 DEF Safe

LEMMA SafeStep == Safe /\ [Next]_vars => Safe'
<1> SUFFICES ASSUME Safe, [Next]_vars PROVE Safe'
  OBVIOUS
<1>1. CASE Next
  <2>1. ASSUME NEW s \in Sessions, Clerk(s, Settled),
               UNCHANGED <<checkout, charge, late, fees, outages, kills>>
        PROVE Safe'
    BY <2>1, ReadingKeepsSafe, VoidingKeepsSafe DEF Clerk
  <2> QED
    BY <1>1, <2>1, NextCases, OutsideKeepsSafe, ReadingKeepsSafe, ResolvingKeepsSafe,
       ClaimingKeepsSafe, FinishingKeepsSafe, ReceivingKeepsSafe
<1>2. CASE UNCHANGED vars
  BY <1>2 DEF vars, settlementVars, Safe, TypeOK, AllFormed, Formed, Told, AllInformed,
     Informed, NotAheadOfTable, NothingIsGuessed, Once, OnePoster, NothingYet,
     InTheBooksOnce, Posts
<1> QED
  BY <1>1, <1>2

LEMMA AlwaysSafe == Spec => []Safe
BY SafeInit, SafeStep, PTL DEF Spec

(* The rows, and what requests keep of them between two statements (service.ts *)
(* of payments and of receivables), stay in their types: no balance falls      *)
(* below zero, whatever is written under a stale reading.                      *)
THEOREM TypeCorrect == Spec => []TypeOK
BY AlwaysSafe, PTL DEF Safe

(* settleCheckout and the sweep conclude only what the processor has said.     *)
THEOREM NothingGuessed == Spec => []NothingIsGuessed
BY AlwaysSafe, PTL DEF Safe, Told

LEMMA OnceIsCharged == Safe => ChargedOnce
<1> SUFFICES ASSUME Safe, NEW c \in Charges
             PROVE /\ Cardinality({p \in Payments : payment[p].reference = c}) <= 1
                   /\ fees[c] <= 1
  BY DEF ChargedOnce
<1> DEFINE R == {p \in Payments : payment[p].reference = c}
<1>1. fees[c] <= 1
  BY DEF Safe, Once, InTheBooksOnce
<1>2. R = {} \/ \E p \in R : R = {p}
  BY DEF Safe, Once, InTheBooksOnce
<1> HIDE DEF R
<1>3. R = {} => Cardinality(R) <= 1
  BY FS_EmptySet
<1>4. ASSUME NEW p \in R, R = {p} PROVE Cardinality(R) <= 1
  <2>1. Cardinality({p}) = 1
    BY FS_Singleton
  <2> QED
    BY <1>4, <2>1
<1>5. Cardinality(R) <= 1
  BY <1>2, <1>3, <1>4, FS_EmptySet
<1> QED
  BY <1>1, <1>5 DEF R

(* The page, the action and the sweep between them post a charge once, one     *)
(* receipt and at most one fee, because settleCheckout's claim lets one pass.  *)
THEOREM ChargesPostOnce == Spec => []ChargedOnce
BY AlwaysSafe, OnceIsCharged, PTL

\* What a step may do to a claimed checkout.
Stands(c) ==
  /\ checkout'[c].status = "succeeded"
  /\ checkout[c].payment # NoPayment => checkout'[c].payment = checkout[c].payment

LEMMA ClaimStandsStep ==
  ASSUME Safe, Next, NEW c \in Charges, checkout[c].status = "succeeded"
  PROVE Stands(c)
<1>1. ASSUME NEW d \in Charges, StartCheckout(d) PROVE Stands(c)
  BY <1>1 DEF StartCheckout, Stands, Safe, TypeOK
<1>2. ASSUME NEW s \in Sessions, Decline(s) PROVE Stands(c)
  <2>1. charge[sess[s].charge] = "failed" /\ charge[c] = "succeeded" /\ sess[s].charge \in Charges
    BY <1>2 DEF Decline, At, Safe, AllFormed, Formed, Told, AllInformed, Informed, NothingIsGuessed
  <2> QED
    BY <1>2, <2>1 DEF Decline, Stands, Safe, TypeOK
<1>3. ASSUME NEW s \in Sessions, Claim(s) PROVE Stands(c)
  BY <1>3 DEF Claim, Claimable, Stands, Safe, TypeOK
<1>4. ASSUME NEW s \in Sessions, Attach(s) PROVE Stands(c)
  <2> DEFINE d == sess[s].charge
  <2>1. checkout' = [checkout EXCEPT ![d].payment = IF @ = NoPayment THEN sess[s].payment ELSE @]
    BY <1>4 DEF Attach
  <2> HIDE DEF d
  <2> QED
    BY <2>1 DEF Checkout, Stands, Safe, TypeOK
<1>5. ASSUME NEW s \in Sessions, Resolve(s) PROVE Stands(c)
  BY <1>5 DEF Resolve, WriteOff, Stands, Safe, TypeOK
<1>6. CASE UNCHANGED checkout
  BY <1>6 DEF Stands
<1>7. \/ UNCHANGED checkout
      \/ \E d \in Charges : StartCheckout(d)
      \/ \E s \in Sessions : Decline(s) \/ Claim(s) \/ Attach(s) \/ Resolve(s)
  <2>1. ASSUME NEW d \in Charges, CustomerPays(d) \/ DeadlinePasses(d) PROVE UNCHANGED checkout
    BY <2>1 DEF CustomerPays, DeadlinePasses
  <2>2. ASSUME NEW d \in Charges, NEW s \in Sessions, SweepOf(s, d) PROVE UNCHANGED checkout
    BY <2>2 DEF SweepOf
  <2>3. ASSUME NEW s \in Sessions, Return(s) \/ Kill(s) \/ Cap(s) \/ ReadAgain(s) \/ PostFee(s)
        PROVE UNCHANGED checkout
    BY <2>3 DEF Return, Kill, Cap, ReadAgain, PostFee
  <2> QED
    BY <2>1, <2>2, <2>3, NextCases
<1> QED
  BY <1>1, <1>2, <1>3, <1>4, <1>5, <1>6, <1>7

(* A claimed checkout is never written off, and keeps its payment: the WHERE   *)
(* of the sweep, and that nobody who was told of a decline can meet a claim.   *)
THEOREM ClaimsStand == Spec => ClaimStands
<1>1. Safe /\ [Next]_vars =>
        [\A c \in Charges : checkout[c].status = "succeeded" =>
           /\ checkout'[c].status = "succeeded"
           /\ checkout[c].payment # NoPayment => checkout'[c].payment = checkout[c].payment]_vars
  BY ClaimStandsStep DEF Stands
<1> QED
  BY <1>1, AlwaysSafe, PTL DEF Spec, ClaimStands


-----------------------------------------------------------------------------
(* What is left of an invoice.                                              *)

\* Where a request is about to write an invoice.
Writing == {"receipt", "voidInvoice", "voidPayment"}

\* What a request at r has read is what is there, unless it was written meanwhile;
\* its amount, and the payment it voids, are what they were in any case.
Abreast(r) ==
  /\ r.pc \in {"read", "receipt"} => r.amount # 0
  /\ r.pc = "voidPayment" => /\ payment[r.payment].status # "none"
                             /\ payment[r.payment].invoice = r.invoice
                             /\ payment[r.payment].amount = r.amount
  /\ r.pc \in Writing /\ r.stale = FALSE =>
       /\ invoice[r.invoice].status # "void"
       /\ invoice[r.invoice].balance = IF r.pc = "voidInvoice" THEN Total ELSE r.balance

AllAbreast == \A s \in Sessions : Abreast(sess[s])

Something == \A p \in Payments : payment[p].status = "posted" => payment[p].amount # 0

FinitelyMany == \A i \in Invoices : IsFiniteSet(Posted(i))

Left == AllAbreast /\ Something /\ FinitelyMany /\ BalanceIsWhatIsLeft

\* The amounts of the payments.
Amount == [p \in Payments |-> payment[p].amount]

LEMMA ReceivedIs ==
  ASSUME NEW i
  PROVE  /\ Received(i) = SumOver(Amount, Posted(i))
         /\ (Received(i) = SumOver(Amount, Posted(i)))'
<1>1. Received(i) = SumOver(Amount, Posted(i))
  <2>1. Posted(i) \subseteq Payments
    BY DEF Posted
  <2>2. MapThenSumSet(LAMBDA p : payment[p].amount, Posted(i)) = SumOver(Amount, Posted(i))
    BY <2>1 DEF MapThenSumSet, MapThenFoldSet, SumOver, SumIter, SumStep, Pick, Amount
  <2> QED
    BY <2>2 DEF Received
<1>2. (Received(i) = SumOver(Amount, Posted(i)))'
  BY <1>1, PTL
<1> QED
  BY <1>1, <1>2

\* What an invoice has received is a sum over the same payments, one more or one less.
LEMMA ReceivedMoves ==
  ASSUME TypeOK, TypeOK', NEW i, IsFiniteSet(Posted(i)),
         \A p \in Posted(i) : payment'[p].amount = payment[p].amount
  PROVE  /\ Received(i) \in Nat
         /\ Posted(i)' = Posted(i) => Received(i)' = Received(i)
         /\ \A p \in Payments \ Posted(i) :
              Posted(i)' = Posted(i) \cup {p} => Received(i)' = payment'[p].amount + Received(i)
         /\ \A p \in Posted(i) :
              Posted(i)' = Posted(i) \ {p} => Received(i) = payment[p].amount + Received(i)'
         /\ \A p \in Posted(i) : payment[p].amount <= Received(i)
<1>1. PICK S, T, f, g : S = Posted(i) /\ T = Posted(i)' /\ f = Amount /\ g = Amount'
  OBVIOUS
<1>2. /\ S \subseteq Payments /\ IsFiniteSet(S) /\ \A p \in S : f[p] = g[p]
      /\ \A p \in Payments : f[p] = payment[p].amount /\ g[p] = payment'[p].amount
      /\ \A p \in Payments : f[p] \in Nat /\ g[p] \in Nat
  <2>1. S \subseteq Payments /\ IsFiniteSet(S)
    BY <1>1 DEF Posted
  <2>2. \A p \in Payments : f[p] = payment[p].amount /\ g[p] = payment'[p].amount
    BY <1>1 DEF Amount
  <2>3. \A p \in Payments : payment[p].amount \in Nat /\ payment'[p].amount \in Nat
    BY SettlementAssumption DEF TypeOK, Payment
  <2> QED
    BY <1>1, <2>1, <2>2, <2>3
<1>3. Received(i) = SumOver(f, S) /\ Received(i)' = SumOver(g, T)
  <2>1. Received(i) = SumOver(Amount, Posted(i)) /\ (Received(i) = SumOver(Amount, Posted(i)))'
    BY ReceivedIs
  <2> QED
    BY <1>1, <2>1 DEF SumOver, SumIter, SumStep
<1>4. SumOver(f, S) = SumOver(g, S) /\ SumOver(f, S) \in Nat
  BY <1>2, SumCongruence, SumNat
<1>5. ASSUME NEW p \in Payments \ S PROVE SumOver(g, S \cup {p}) = g[p] + SumOver(g, S)
  <2>1. p \notin S /\ \A x \in S \cup {p} : g[x] \in Int
    BY <1>2
  <2> QED
    BY <1>2, <2>1, SumAdd
<1>6. ASSUME NEW p \in S PROVE SumOver(f, S) = f[p] + SumOver(g, S \ {p})
  <2>1. SumOver(f, S \ {p}) = SumOver(g, S \ {p})
    BY <1>2, SumCongruence
  <2>2. SumOver(f, S) = f[p] + SumOver(f, S \ {p})
    <3>1. \A x \in S : f[x] \in Int
      BY <1>2
    <3> QED
      BY <1>2, <3>1, SumRemove
  <2> QED
    BY <2>1, <2>2
<1>7. \A p \in S : f[p] <= SumOver(f, S)
  BY <1>2, SumAtLeast
<1> QED
  BY <1>1, <1>2, <1>3, <1>4, <1>5, <1>6, <1>7

\* No invoice and no payment is written.
LEMMA RestingKeepsLeft ==
  ASSUME Left, UNCHANGED <<invoice, payment, damaged>>, \A s \in Sessions : Abreast(sess'[s])
  PROVE  Left'
<1>1. AllAbreast'
  BY DEF AllAbreast, Abreast
<1>2. Something' /\ FinitelyMany'
  BY DEF Left, Something, FinitelyMany, Posted
<1>3. ASSUME NEW j PROVE Posted(j)' = Posted(j) /\ Received(j)' = Received(j)
  <2>1. PICK S, f : S = Posted(j) /\ f = Amount
    OBVIOUS
  <2>2. Posted(j)' = S /\ Amount' = f
    BY <2>1 DEF Posted, Amount
  <2>3. Received(j) = SumOver(Amount, Posted(j)) /\ (Received(j) = SumOver(Amount, Posted(j)))'
    BY ReceivedIs
  <2>4. Received(j) = SumOver(f, S) /\ Received(j)' = SumOver(f, S)
    BY <2>1, <2>2, <2>3 DEF SumOver, SumIter, SumStep
  <2> QED
    BY <2>1, <2>2, <2>4
<1>4. BalanceIsWhatIsLeft'
  BY <1>3 DEF Left, BalanceIsWhatIsLeft
<1> QED
  BY <1>1, <1>2, <1>4 DEF Left

LEMMA EnterKeepsLeft ==
  ASSUME TypeOK, Left, NEW s \in Sessions, NEW r \in Session, Enter(s, r), Abreast(r),
         UNCHANGED <<invoice, payment, damaged>>
  PROVE  Left'
<1>1. \A t \in Sessions : sess'[t] = IF t = s THEN r ELSE sess[t]
  BY DEF TypeOK, Enter
<1>2. \A t \in Sessions : Abreast(sess'[t])
  BY <1>1 DEF Left, AllAbreast
<1> QED
  BY <1>2, RestingKeepsLeft

LEMMA IdleIsAbreast == \A r \in Session : r.pc \notin Writing \cup {"read"} => Abreast(r)
BY DEF Abreast, Writing

\* Request s commits to i: whoever else has read it is overtaken, and what the
\* request writes is what is left, if it was not overtaken itself.
LEMMA CommitKeepsLeft ==
  ASSUME TypeOK, TypeOK', AllFormed, Left, NEW s \in Sessions, NEW i \in Invoices,
         NEW status, NEW balance, NEW next \in Session,
         CommitInvoice(s, i, status, balance, next),
         next.pc \notin Writing \cup {"read"},
         \A p \in Payments : payment[p].status # "none" =>
           /\ payment'[p].status # "none" /\ payment'[p].invoice = payment[p].invoice
           /\ payment'[p].amount = payment[p].amount,
         Something', IsFiniteSet(Posted(i)'),
         \A j \in Invoices \ {i} : Posted(j)' = Posted(j),
         sess[s].stale = FALSE /\ i \notin damaged =>
           IF status = "void" THEN balance = 0 /\ Posted(i)' = {}
           ELSE balance + Received(i)' = Total
  PROVE  Left'
<1>1. /\ invoice' = [invoice EXCEPT ![i] = [status |-> status, balance |-> balance]]
      /\ damaged' = IF sess[s].stale THEN damaged \cup {i} ELSE damaged
      /\ sess' = [t \in Sessions |->
           IF t = s THEN next
           ELSE IF sess[t].pc \in Writing /\ sess[t].invoice = i
             THEN [sess[t] EXCEPT !.stale = TRUE]
             ELSE sess[t]]
  BY DEF CommitInvoice, Writing
<1>2. /\ invoice'[i].status = status /\ invoice'[i].balance = balance
      /\ \A j \in Invoices \ {i} : invoice'[j] = invoice[j]
  BY <1>1 DEF TypeOK
<1>3. ASSUME NEW t \in Sessions PROVE Abreast(sess[t])'
  <2>1. sess[t] \in Session /\ Formed(sess[t]) /\ Abreast(sess[t])
    BY DEF TypeOK, AllFormed, Left, AllAbreast
  <2>2. PICK r \in Session : r = sess[t]
    BY <2>1
  <2>3. PICK q : q = IF t = s THEN next
                     ELSE IF r.pc \in Writing /\ r.invoice = i THEN [r EXCEPT !.stale = TRUE] ELSE r
    OBVIOUS
  <2>4. sess'[t] = q
    BY <1>1, <2>2, <2>3
  <2>5. CASE t = s
    BY <2>3, <2>4, <2>5 DEF Abreast, Writing
  <2>6. CASE t # s /\ r.pc \in Writing /\ r.invoice = i
    <3>1. /\ q.stale = TRUE /\ q.pc = r.pc /\ q.invoice = r.invoice
          /\ q.payment = r.payment /\ q.amount = r.amount
      <4>1. q = [r EXCEPT !.stale = TRUE]
        BY <2>3, <2>6
      <4>2. q.stale = TRUE
        BY <4>1 DEF Session
      <4> QED
        BY <4>1, <4>2, OvertakenSession
    <3> QED
      BY <2>1, <2>2, <2>4, <3>1 DEF Abreast, Formed
  <2>7. CASE t # s /\ ~(r.pc \in Writing /\ r.invoice = i)
    <3>1. q = r
      BY <2>3, <2>7
    <3>2. r.pc \in Writing => r.invoice \in Invoices /\ invoice'[r.invoice] = invoice[r.invoice]
      BY <1>2, <2>1, <2>2, <2>7 DEF Formed, Writing
    <3> QED
      BY <2>1, <2>2, <2>4, <3>1, <3>2 DEF Abreast, Formed
  <2> QED
    BY <2>5, <2>6, <2>7
<1>4. FinitelyMany'
  <2>1. \A j \in Invoices \ {i} : IsFiniteSet(Posted(j)')
    BY DEF Left, FinitelyMany
  <2> QED
    BY <2>1 DEF FinitelyMany
<1>5. BalanceIsWhatIsLeft'
  <2> SUFFICES ASSUME NEW j \in Invoices, j \notin damaged'
               PROVE  IF invoice'[j].status = "void" THEN invoice'[j].balance = 0 /\ Posted(j)' = {}
                      ELSE invoice'[j].balance + Received(j)' = Total
    BY DEF BalanceIsWhatIsLeft
  <2>1. CASE j = i
    <3>1. sess[s].stale = FALSE /\ i \notin damaged
      BY <1>1, <2>1 DEF TypeOK, Session
    <3> QED
      BY <1>2, <2>1, <3>1
  <2>2. CASE j # i
    <3>1. j \notin damaged
      BY <1>1
    <3>2. Posted(j)' = Posted(j)
      BY <2>2
    <3>3. \A p \in Posted(j) : payment'[p].amount = payment[p].amount
      BY DEF Posted
    <3>4. IsFiniteSet(Posted(j))
      BY DEF Left, FinitelyMany
    <3>5. Received(j)' = Received(j)
      BY <3>2, <3>3, <3>4, ReceivedMoves
    <3> QED
      BY <1>2, <2>2, <3>1, <3>2, <3>5 DEF Left, BalanceIsWhatIsLeft
  <2> QED
    BY <2>1, <2>2
<1> QED
  BY <1>3, <1>4, <1>5 DEF Left, AllAbreast

\* A receipt takes off what it adds.
LEMMA ReceivingKeepsLeft ==
  ASSUME Safe, TypeOK', Left, NEW s \in Sessions, Receive(s)
  PROVE  Left'
<1> USE DEF Safe
<1>1. PICK i \in Invoices, amount \in Nat, read \in Nat, c \in Charges \cup {NoCharge}, p \in Unused :
        /\ i = sess[s].invoice /\ amount = sess[s].amount /\ read = sess[s].balance
        /\ c = sess[s].charge /\ p = CHOOSE q \in Unused : TRUE
  <2>1. sess[s] \in Session /\ sess[s].invoice \in Invoices
    BY DEF TypeOK, AllFormed, Formed, Receive, At
  <2>2. sess[s].amount \in Nat
    BY <2>1, SettlementAssumption DEF Session
  <2>3. (CHOOSE q \in Unused : TRUE) \in Unused
    BY DEF Receive
  <2> QED
    BY <2>1, <2>2, <2>3 DEF Session
<1>2. PICK left, next, new :
        /\ left = read - amount
        /\ next = IF c = NoCharge THEN Idle
                  ELSE [Idle EXCEPT !.pc = "attach", !.payment = p, !.charge = c]
        /\ new = [status |-> "posted", invoice |-> i, amount |-> amount, reference |-> Reference(s)]
  OBVIOUS
<1>3. /\ payment' = [payment EXCEPT ![p] = new] /\ sess[s].pc = "receipt"
      /\ CommitInvoice(s, i, IF left = 0 THEN "paid" ELSE "partial", left, next)
  BY <1>1, <1>2 DEF Receive, At
<1>4. p \in Payments /\ payment[p].status = "none"
  BY DEF Unused
<1>5. next \in Session /\ next.pc \notin Writing \cup {"read"}
  <2>1. CASE c = NoCharge
    BY <1>2, <2>1, IdleIsSession DEF Writing
  <2>2. CASE c # NoCharge
    <3>1. next = [Idle EXCEPT !.pc = "attach", !.payment = p, !.charge = c]
      BY <1>2, <2>2
    <3>2. next \in Session /\ next.pc = "attach"
      BY <1>4, <3>1, IdleIsSession DEF Session
    <3> QED
      BY <3>2 DEF Writing
  <2> QED
    BY <2>1, <2>2
<1>6. Formed(sess[s]) /\ Abreast(sess[s]) /\ amount <= read /\ amount # 0 /\ left \in Nat
  <2>1. Formed(sess[s]) /\ Abreast(sess[s])
    BY DEF AllFormed, Left, AllAbreast
  <2> QED
    BY <1>1, <1>2, <1>3, <2>1 DEF Formed, Abreast
<1>7. \A q \in Payments : payment'[q] = IF q = p THEN new ELSE payment[q]
  BY <1>3, <1>4 DEF TypeOK
<1>8. new.status = "posted" /\ new.invoice = i /\ new.amount = amount
  BY <1>2
<1>9. \A q \in Payments : payment[q].status # "none" =>
        /\ payment'[q].status # "none" /\ payment'[q].invoice = payment[q].invoice
        /\ payment'[q].amount = payment[q].amount
  BY <1>4, <1>7
<1>10. Something'
  BY <1>6, <1>7, <1>8 DEF Left, Something
<1>11. Posted(i)' = Posted(i) \cup {p} /\ p \notin Posted(i)
  BY <1>4, <1>7, <1>8 DEF Posted
<1>12. \A j \in Invoices \ {i} : Posted(j)' = Posted(j)
  BY <1>4, <1>7, <1>8 DEF Posted
<1>13. IsFiniteSet(Posted(i)) /\ IsFiniteSet(Posted(i)')
  BY <1>11, FS_AddElement DEF Left, FinitelyMany
<1>14. Received(i)' = amount + Received(i) /\ Received(i) \in Nat
  <2>1. \A q \in Posted(i) : payment'[q].amount = payment[q].amount
    BY <1>9 DEF Posted
  <2> QED
    BY <1>4, <1>7, <1>8, <1>11, <1>13, <2>1, ReceivedMoves
<1>15. sess[s].stale = FALSE /\ i \notin damaged => left + Received(i)' = Total
  <2> SUFFICES ASSUME sess[s].stale = FALSE, i \notin damaged PROVE left + Received(i)' = Total
    OBVIOUS
  <2>1. invoice[i].status # "void" /\ invoice[i].balance = read
    BY <1>1, <1>3, <1>6 DEF Abreast, Writing
  <2>2. invoice[i].balance + Received(i) = Total
    BY <2>1 DEF Left, BalanceIsWhatIsLeft
  <2> QED
    BY <1>2, <1>14, <2>1, <2>2
<1>16. PICK status \in {"paid", "partial"} : CommitInvoice(s, i, status, left, next)
  BY <1>3
<1> QED
  BY <1>5, <1>9, <1>10, <1>12, <1>13, <1>15, <1>16, CommitKeepsLeft

\* An invoice nothing was received for is voided; a void puts back what the
\* payment took off.
LEMMA VoidingKeepsLeft ==
  ASSUME Safe, TypeOK', Left, NEW s \in Sessions, VoidInvoice(s) \/ VoidPayment(s)
  PROVE  Left'
<1> USE DEF Safe
<1>1. Formed(sess[s]) /\ Abreast(sess[s]) /\ sess[s] \in Session
  BY DEF TypeOK, AllFormed, Left, AllAbreast
<1>2. Idle.pc \notin Writing \cup {"read"}
  BY IdleIsSession DEF Writing
<1>3. CASE VoidInvoice(s)
  <2>1. PICK i \in Invoices : i = sess[s].invoice
    BY <1>1, <1>3 DEF VoidInvoice, At, Formed
  <2>2. sess[s].pc = "voidInvoice" /\ payment' = payment /\ CommitInvoice(s, i, "void", 0, Idle)
    BY <1>3, <2>1 DEF VoidInvoice, At
  <2>3. \A j : Posted(j)' = Posted(j)
    BY <2>2 DEF Posted
  <2>4. IsFiniteSet(Posted(i)) /\ IsFiniteSet(Posted(i)')
    BY <2>3 DEF Left, FinitelyMany
  <2>5. Something'
    BY <2>2 DEF Left, Something
  <2>6. sess[s].stale = FALSE /\ i \notin damaged => Posted(i)' = {}
    <3> SUFFICES ASSUME sess[s].stale = FALSE, i \notin damaged, NEW p \in Posted(i) PROVE FALSE
      BY <2>3
    <3>1. invoice[i].status # "void" /\ invoice[i].balance = Total
      BY <1>1, <2>1, <2>2 DEF Abreast, Writing
    <3>2. Total + Received(i) = Total
      BY <3>1 DEF Left, BalanceIsWhatIsLeft
    <3>3. /\ p \in Payments /\ payment[p].amount # 0 /\ payment[p].amount \in Nat
      BY SettlementAssumption DEF Posted, Left, Something, TypeOK, Payment
    <3>4. Received(i) \in Nat /\ payment[p].amount <= Received(i)
      BY <2>2, <2>4, ReceivedMoves
    <3> QED
      BY <3>2, <3>3, <3>4, SettlementAssumption
  <2>7. \A p \in Payments : payment[p].status # "none" =>
          /\ payment'[p].status # "none" /\ payment'[p].invoice = payment[p].invoice
          /\ payment'[p].amount = payment[p].amount
    BY <2>2
  <2> QED
    BY <1>2, <2>2, <2>3, <2>4, <2>5, <2>6, <2>7, IdleIsSession, CommitKeepsLeft
<1>4. CASE VoidPayment(s)
  <2>1. PICK i \in Invoices, p \in Payments, read \in Nat, amount \in Nat, back \in Nat :
          /\ i = sess[s].invoice /\ p = sess[s].payment /\ read = sess[s].balance
          /\ amount = sess[s].amount /\ back = read + amount
    BY <1>1, <1>4, SettlementAssumption DEF VoidPayment, At, Formed, Session
  <2>2. /\ sess[s].pc = "voidPayment" /\ payment[p].status = "posted"
        /\ payment' = [payment EXCEPT ![p].status = "void"]
        /\ CommitInvoice(s, i, IF back >= Total THEN "open" ELSE "partial", back, Idle)
    BY <1>4, <2>1 DEF VoidPayment, At, StillPosted
  <2>3. \A q \in Payments : /\ payment'[q].invoice = payment[q].invoice
                            /\ payment'[q].amount = payment[q].amount
                            /\ payment'[q].status = IF q = p THEN "void" ELSE payment[q].status
    <3>1. PICK row \in Payment : row = payment[p]
      BY DEF TypeOK
    <3>2. PICK void \in Payment : void = [row EXCEPT !.status = "void"]
      BY DEF Payment
    <3>3. void.invoice = row.invoice /\ void.amount = row.amount /\ void.status = "void"
      BY <3>2 DEF Payment
    <3>4. payment' = [payment EXCEPT ![p] = void]
      BY <2>2, <3>1, <3>2
    <3> QED
      BY <3>1, <3>3, <3>4 DEF TypeOK
  <2>4. payment[p].invoice = i /\ payment[p].amount = amount
    BY <1>1, <2>1, <2>2 DEF Abreast
  <2>5. Something'
    BY <2>3 DEF Left, Something
  <2>6. p \in Posted(i) /\ Posted(i)' = Posted(i) \ {p}
    BY <2>2, <2>3, <2>4 DEF Posted
  <2>7. \A j \in Invoices \ {i} : Posted(j)' = Posted(j)
    BY <2>3, <2>4 DEF Posted
  <2>8. IsFiniteSet(Posted(i)) /\ IsFiniteSet(Posted(i)')
    <3>1. IsFiniteSet(Posted(i))
      BY DEF Left, FinitelyMany
    <3> QED
      BY <2>6, <3>1, FS_Subset
  <2>9. Received(i) = amount + Received(i)' /\ Received(i)' \in Nat
    <3>1. \A q \in Posted(i) : payment'[q].amount = payment[q].amount
      BY <2>3 DEF Posted
    <3>2. Received(i) = payment[p].amount + Received(i)'
      BY <2>6, <2>8, <3>1, ReceivedMoves
    <3>3. Received(i)' \in Nat
      <4>1. PICK S, f : S = Posted(i)' /\ f = Amount'
        OBVIOUS
      <4>2. IsFiniteSet(S) /\ \A q \in S : f[q] \in Nat
        BY <2>8, <4>1, SettlementAssumption DEF Posted, Amount, TypeOK, Payment
      <4>3. (Received(i) = SumOver(Amount, Posted(i)))'
        BY ReceivedIs
      <4>4. Received(i)' = SumOver(f, S)
        BY <4>1, <4>3 DEF SumOver, SumIter, SumStep
      <4> QED
        BY <4>2, <4>4, SumNat
    <3> QED
      BY <2>4, <3>2, <3>3
  <2>10. sess[s].stale = FALSE /\ i \notin damaged => back + Received(i)' = Total
    <3> SUFFICES ASSUME sess[s].stale = FALSE, i \notin damaged PROVE back + Received(i)' = Total
      OBVIOUS
    <3>1. invoice[i].status # "void" /\ invoice[i].balance = read
      BY <1>1, <2>1, <2>2 DEF Abreast, Writing
    <3>2. invoice[i].balance + Received(i) = Total
      BY <3>1 DEF Left, BalanceIsWhatIsLeft
    <3> QED
      BY <2>1, <2>9, <3>1, <3>2
  <2>11. PICK status \in {"open", "partial"} : CommitInvoice(s, i, status, back, Idle)
    BY <2>2
  <2>12. \A q \in Payments : payment[q].status # "none" =>
           /\ payment'[q].status # "none" /\ payment'[q].invoice = payment[q].invoice
           /\ payment'[q].amount = payment[q].amount
    BY <2>3
  <2> QED
    BY <1>2, <2>5, <2>7, <2>8, <2>10, <2>11, <2>12, IdleIsSession, CommitKeepsLeft
<1> QED
  BY <1>3, <1>4

\* A clerk's request has just read what it is going to write from.
LEMMA ClerkKeepsLeft ==
  ASSUME Safe, Left, NEW s \in Sessions,
         \/ BeginReceipt(s) \/ BeginVoidInvoice(s) \/ BeginVoidPayment(s, Settled)
         \/ VoidPaymentRefused(s)
  PROVE  Left'
<1> USE IdleIsSession DEF Safe, TypeOK
<1>1. UNCHANGED <<invoice, payment, damaged>>
  BY DEF BeginReceipt, BeginVoidInvoice, BeginVoidPayment, VoidPaymentRefused
<1>2. CASE BeginReceipt(s)
  <2>1. PICK i \in Invoices, amount \in Amounts : ReadForReceipt(s, i, amount, NoCharge)
    BY <1>2 DEF BeginReceipt
  <2>2. PICK read \in Nat : read = invoice[i].balance
    BY DEF Invoice
  <2>3. PICK r : r = [Idle EXCEPT !.pc = "receipt", !.invoice = i, !.amount = amount,
                                  !.balance = read, !.charge = NoCharge]
    OBVIOUS
  <2>4. amount \in 0 .. Total /\ amount # 0
    BY SettlementAssumption DEF Amounts
  <2>5. /\ r \in Session /\ r.pc = "receipt" /\ r.invoice = i /\ r.amount = amount
        /\ r.balance = read
    BY <2>3, <2>4 DEF Session
  <2>6. Enter(s, r) /\ invoice[i].status # "void"
    BY <2>1, <2>2, <2>3 DEF ReadForReceipt, Accepts
  <2>7. Abreast(r)
    BY <2>2, <2>4, <2>5, <2>6 DEF Abreast
  <2> QED
    BY <1>1, <2>5, <2>6, <2>7, EnterKeepsLeft
<1>3. CASE BeginVoidInvoice(s)
  <2>1. PICK i \in Invoices :
          Untouched(i) /\ Enter(s, [Idle EXCEPT !.pc = "voidInvoice", !.invoice = i])
    BY <1>3 DEF BeginVoidInvoice
  <2>2. PICK r : r = [Idle EXCEPT !.pc = "voidInvoice", !.invoice = i]
    OBVIOUS
  <2>3. r \in Session /\ r.pc = "voidInvoice" /\ r.invoice = i
    BY <2>2 DEF Session
  <2>4. Abreast(r)
    BY <2>1, <2>3 DEF Abreast, Untouched
  <2> QED
    BY <1>1, <2>1, <2>2, <2>3, <2>4, EnterKeepsLeft
<1>4. CASE BeginVoidPayment(s, Settled)
  <2>1. PICK p \in Payments :
          /\ payment[p].status = "posted" /\ invoice[payment[p].invoice].status # "void"
          /\ Enter(s, [Idle EXCEPT !.pc = "voidPayment", !.invoice = payment[p].invoice,
                                   !.payment = p, !.amount = payment[p].amount,
                                   !.balance = invoice[payment[p].invoice].balance])
    BY <1>4 DEF BeginVoidPayment
  <2>2. PICK i \in Invoices, amount \in 0 .. Total : i = payment[p].invoice /\ amount = payment[p].amount
    BY <2>1 DEF AllFormed, Payment
  <2>3. PICK read \in Nat : read = invoice[i].balance
    BY DEF Invoice
  <2>4. PICK r : r = [Idle EXCEPT !.pc = "voidPayment", !.invoice = i, !.payment = p,
                                  !.amount = amount, !.balance = read]
    OBVIOUS
  <2>5. /\ r \in Session /\ r.pc = "voidPayment" /\ r.invoice = i /\ r.payment = p
        /\ r.amount = amount /\ r.balance = read
    BY <2>4 DEF Session
  <2>6. Enter(s, r)
    BY <2>1, <2>2, <2>3, <2>4
  <2>7. Abreast(r)
    BY <2>1, <2>2, <2>3, <2>5 DEF Abreast
  <2> QED
    BY <1>1, <2>5, <2>6, <2>7, EnterKeepsLeft
<1>5. CASE VoidPaymentRefused(s)
  <2>1. Abreast(Idle)
    BY IdleIsAbreast DEF Writing
  <2> QED
    BY <1>1, <1>5, <2>1, EnterKeepsLeft DEF VoidPaymentRefused
<1> QED
  BY <1>2, <1>3, <1>4, <1>5

\* The poster of a charge goes on only for an amount there is, and reads again.
LEMMA PosterKeepsLeft ==
  ASSUME Safe, Left, NEW s \in Sessions, Cap(s) \/ ReadAgain(s)
  PROVE  Left'
<1> USE IdleIsSession DEF Safe, TypeOK
<1>1. UNCHANGED <<invoice, payment, damaged>>
  BY DEF Cap, ReadAgain
<1>2. Abreast(Idle)
  BY IdleIsAbreast DEF Writing
<1>3. CASE Enter(s, Idle)
  BY <1>1, <1>2, <1>3, EnterKeepsLeft
<1>4. CASE Cap(s) /\ ~Enter(s, Idle)
  <2>1. PICK c \in Charges : c = sess[s].charge
    BY <1>4 DEF Cap, At, AllFormed, Formed
  <2>2. checkout[c].status = "succeeded"
    BY <1>4, <2>1 DEF Cap, At, Once, OnePoster, Posts, Posting, Unreceived
  <2>3. PICK i \in Invoices : i = checkout[c].invoice
    BY <2>1, <2>2 DEF AllFormed
  <2>4. PICK balance \in Nat, gross \in 0 .. Total :
          balance = invoice[i].balance /\ gross = checkout[c].gross
    BY <2>1, <2>3 DEF Invoice, Checkout
  <2>5. PICK apply : apply = IF gross < balance THEN gross ELSE balance
    OBVIOUS
  <2>6. apply \in 0 .. Total
    BY <2>4, <2>5, SettlementAssumption
  <2>7. PICK r : r = [Idle EXCEPT !.pc = "read", !.charge = c, !.invoice = i, !.amount = apply]
    OBVIOUS
  <2>8. Enter(s, r) /\ ~(apply <= 0)
    BY <1>4, <2>1, <2>3, <2>4, <2>5, <2>7 DEF Cap
  <2>9. r \in Session /\ r.pc = "read" /\ r.amount = apply
    BY <2>6, <2>7 DEF Session
  <2>10. Abreast(r)
    BY <2>6, <2>8, <2>9 DEF Abreast, Writing
  <2> QED
    BY <1>1, <2>8, <2>9, <2>10, EnterKeepsLeft
<1>5. CASE ReadAgain(s) /\ ~Enter(s, Idle)
  <2>1. PICK i \in Invoices, c \in Charges, amount \in 0 .. Total :
          i = sess[s].invoice /\ c = sess[s].charge /\ amount = sess[s].amount
    <3>1. sess[s] \in Session /\ Formed(sess[s]) /\ sess[s].pc = "read"
      BY <1>5 DEF ReadAgain, At, AllFormed
    <3> QED
      BY <3>1 DEF Formed, Session
  <2>2. amount # 0
    BY <1>5, <2>1 DEF ReadAgain, At, Left, AllAbreast, Abreast
  <2>3. PICK read \in Nat : read = invoice[i].balance
    BY DEF Invoice
  <2>4. PICK r : r = [Idle EXCEPT !.pc = "receipt", !.invoice = i, !.amount = amount,
                                  !.balance = read, !.charge = c]
    OBVIOUS
  <2>5. /\ r \in Session /\ r.pc = "receipt" /\ r.invoice = i /\ r.amount = amount
        /\ r.balance = read
    BY <2>4 DEF Session
  <2>6. Enter(s, r) /\ invoice[i].status # "void"
    BY <1>5, <2>1, <2>3, <2>4 DEF ReadAgain, ReadForReceipt, Accepts
  <2>7. Abreast(r)
    BY <2>2, <2>3, <2>5, <2>6 DEF Abreast
  <2> QED
    BY <1>1, <2>5, <2>6, <2>7, EnterKeepsLeft
<1> QED
  BY <1>3, <1>4, <1>5

\* What else a request may go on to is not about to write an invoice.
LEMMA MovingKeepsLeft ==
  ASSUME Safe, Left, NEW s \in Sessions,
         \/ Return(s) \/ Kill(s) \/ Decline(s) \/ Claim(s) \/ Attach(s) \/ PostFee(s) \/ Resolve(s)
         \/ \E c \in Charges : SweepOf(s, c)
  PROVE  Left'
<1> USE IdleIsSession DEF Safe, TypeOK
<1>1. UNCHANGED <<invoice, payment, damaged>>
  BY DEF Return, Kill, Decline, Claim, Attach, PostFee, Resolve, SweepOf
<1>2. ASSUME NEW r, Enter(s, r), r \in Session, r.pc \notin Writing \cup {"read"}
      PROVE  Left'
  BY <1>1, <1>2, IdleIsAbreast, EnterKeepsLeft
<1>3. CASE Kill(s) \/ Decline(s) \/ PostFee(s) \/ Resolve(s)
  BY <1>2, <1>3 DEF Kill, Decline, PostFee, Resolve, Writing
<1>4. CASE Claim(s) \/ Attach(s)
  <2>1. PICK c \in Charges : c = sess[s].charge
    <3>1. sess[s].pc = "claim" \/ sess[s].pc = "attach"
      BY <1>4 DEF Claim, Attach, At
    <3> QED
      BY <3>1 DEF AllFormed, Formed
  <2>2. PICK r \in Session : /\ Enter(s, r) /\ r.pc \in {"idle", "cap", "fee"}
    <3>1. \A pc \in {"cap", "fee"} : /\ [Idle EXCEPT !.pc = pc, !.charge = c] \in Session
                                     /\ [Idle EXCEPT !.pc = pc, !.charge = c].pc = pc
      BY DEF Session
    <3> QED
      BY <1>4, <2>1, <3>1 DEF Claim, Attach
  <2> QED
    BY <1>2, <2>2 DEF Writing
<1>5. CASE Return(s) \/ \E c \in Charges : SweepOf(s, c)
  <2>1. PICK c \in Charges : Settle(s, c) \/ SweepOf(s, c)
    BY <1>5 DEF Return
  <2>2. PICK r \in Session : Enter(s, r) /\ (r = Idle \/ Asked(r, c))
    BY <2>1, SettleEnters, SweepEnters
  <2> QED
    BY <1>2, <2>2 DEF Asked, Writing
<1> QED
  BY <1>3, <1>4, <1>5

LEMMA LeftInit == Init => Left
<1> SUFFICES ASSUME Init PROVE Left
  OBVIOUS
<1>1. \A i : Posted(i) = {} /\ IsFiniteSet(Posted(i))
  BY FS_EmptySet DEF Init, SettlementInit, Posted, NoRow
<1>2. \A i : Received(i) = 0
  BY <1>1, ReceivedIs, SumEmpty
<1>3. AllAbreast
  BY IdleIsSession DEF Init, SettlementInit, AllAbreast, Abreast, Writing
<1>4. Something /\ FinitelyMany
  BY <1>1 DEF Init, SettlementInit, Something, FinitelyMany, NoRow
<1>5. BalanceIsWhatIsLeft
  BY <1>2, SettlementAssumption DEF Init, SettlementInit, BalanceIsWhatIsLeft
<1> QED
  BY <1>3, <1>4, <1>5 DEF Left

LEMMA LeftStep == Safe /\ Left /\ [Next]_vars => Left'
<1> SUFFICES ASSUME Safe, Left, [Next]_vars PROVE Left'
  OBVIOUS
<1>1. TypeOK'
  BY SafeStep DEF Safe
<1>2. ASSUME UNCHANGED settlementVars PROVE Left'
  BY <1>2, RestingKeepsLeft DEF settlementVars, Left, AllAbreast
<1>3. ASSUME NEW s \in Sessions, Clerk(s, Settled) PROVE Left'
  BY <1>1, <1>3, ClerkKeepsLeft, VoidingKeepsLeft DEF Clerk
<1>4. ASSUME NEW c \in Charges, StartCheckout(c) \/ CustomerPays(c) \/ DeadlinePasses(c)
      PROVE  Left'
  BY <1>2, <1>4 DEF StartCheckout, CustomerPays, DeadlinePasses
<1>5. CASE Next
  BY <1>1, <1>3, <1>4, <1>5, NextCases, ReceivingKeepsLeft, PosterKeepsLeft, MovingKeepsLeft
<1>6. CASE UNCHANGED vars
  BY <1>2, <1>6 DEF vars
<1> QED
  BY <1>5, <1>6

(* An invoice owes what its payments left of it, and nothing is posted for a   *)
(* void one, unless a request wrote it from a balance another had changed      *)
(* (service.ts and payment-voiding.ts of receivables write values).            *)
THEOREM InvoicesOweWhatIsLeft == Spec => []BalanceIsWhatIsLeft
BY AlwaysSafe, LeftInit, LeftStep, PTL DEF Spec, Left
=============================================================================
