---------------------------- MODULE MCBankLines -----------------------------
EXTENDS BankLines, TLC

CONSTANTS paid, owed, received, checking, savings

\* Money leaves the account that is reconciled and arrives in another.
MCAccountOf == paid :> checking @@ owed :> checking @@ received :> savings

Does(ops, ls, n) == [does |-> ops, lines |-> ls, events |-> n]

\* People decide about lines and take it back; they pair them; they reconcile
\* an account while a line of it changes; and the feed revises and withdraws.
MCScenarios == {
  Does({"categorize", "split", "undo", "note"}, {paid}, 3),
  Does({"categorize", "rule", "accept", "exclude", "undo"}, {paid}, 3),
  Does({"transfer", "categorize", "undo"}, {paid, received}, 2),
  Does({"transfer"}, {paid, owed, received}, 2),
  Does({"categorize", "exclude", "undo", "start", "clear", "complete", "reopen"}, {paid}, 2),
  Does({"categorize", "split", "start", "clear", "unclear", "complete", "revise"}, {paid}, 1),
  Does({"start", "clear", "unclear", "complete"}, {paid, owed}, 0),
  Does({"categorize", "undo", "revise", "retract", "resolve"}, {paid}, 2),
  Does({"categorize", "retract", "resolve"}, {paid}, 3)}

Symmetry == Permutations(People)
=============================================================================
