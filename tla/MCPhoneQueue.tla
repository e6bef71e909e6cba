---------------------------- MODULE MCPhoneQueue ----------------------------
EXTENDS PhoneQueue

CONSTANTS e1, e2, categorize, attach

\* A decision taken twice, with a press of "try again" or "abandon" and two
\* taps at once; one followed by a receipt; and one on each of two lines, with
\* a request that may carry both or only one.
Taps(a, b, n, hands, mishaps, limit) ==
  [taps |-> <<a, b>>, presses |-> n, hands |-> hands, mishaps |-> mishaps, limit |-> limit]

MCScenarios == {
  Taps(<<categorize, e1>>, <<categorize, e1>>, 1, {1, 2}, {"kill"}, 2),
  Taps(<<categorize, e1>>, <<attach, e1>>, 0, {1}, {"kill", "prune"}, 2),
  Taps(<<categorize, e1>>, <<attach, e2>>, 0, {1, 2}, {"prune"}, 2),
  Taps(<<categorize, e1>>, <<attach, e2>>, 0, {1}, {"kill"}, 1)}

\* One tap at a time, against a drain.
LostScenarios == {Taps(<<categorize, e1>>, <<attach, e1>>, 0, {1}, {}, 2)}
=============================================================================
