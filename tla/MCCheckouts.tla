----------------------------- MODULE MCCheckouts -----------------------------
(* Small instances of Checkouts: one invoice of two units.                     *)
EXTENDS Checkouts, TLC

CONSTANTS sweep, web1, web2, invoice1, p1, p2, c1

MCSessions == {sweep, web1, web2}
MCInvoices == {invoice1}
MCPayments == {p1, p2}
OnePayment == {p1}
OneCharge == {c1}

WebSymmetry == Permutations({web1, web2})
=============================================================================
