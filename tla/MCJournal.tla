------------------------------ MODULE MCJournal ------------------------------
(* Small instances of Journal: a closed day may lie behind an open one.       *)
EXTENDS Journal, TLC

CONSTANTS e1, e2, e3, s1, s2, invoice, c1

MCEntries == {e1, e2, e3}
MCSessions == {s1, s2}
MCDocs == {invoice}
MCDates == {1, 2}
MCClosings == {c1}
MCSpans == {<<1, 1>>, <<1, 2>>}

SessionSymmetry == Permutations(MCSessions)
=============================================================================
