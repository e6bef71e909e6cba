------------------------------ MODULE MCOutbox ------------------------------
(* Small instances of Outbox.                                               *)
EXTENDS Outbox

CONSTANTS w1, w2, e1, notify, deposit, j1, j2

MCWorkers == {w1, w2}
MCKinds == {notify, deposit}

\* One event with two subscribers (proposal.accepted), one id per key.
OneEvent == {e1}
TwoJobs == {j1, j2}
TwoJobKeys == [j \in TwoJobs |-> <<e1, IF j = j2 THEN deposit ELSE notify>>]
OneEventSubscribers == [e \in OneEvent |-> MCKinds]

NoPriority == [j \in Jobs |-> 0]
=============================================================================
