---------------------------- MODULE EventDelivery ----------------------------
(***************************************************************************)
(* What the outbox promises (src/src/modules/worker/outbox.ts, the header  *)
(* comment and ADR 0010), with no tables, jobs, workers or crashes in it:  *)
(* a handler runs for an event only if what the event says did happen.     *)
(* How often a handler runs is not promised, so a second run is a stutter. *)
(***************************************************************************)
CONSTANTS Events, Kinds, Subscribers

VARIABLES
  happened,  \* the events whose cause has committed
  handled    \* the <<event, kind>> whose handler has committed

vars == <<happened, handled>>

Init ==
  /\ happened = {}
  /\ handled = {}

Happen(e) ==
  /\ e \notin happened
  /\ happened' = happened \cup {e}
  /\ UNCHANGED handled

Handle(e, k) ==
  /\ e \in happened
  /\ k \in Subscribers[e]
  /\ handled' = handled \cup {<<e, k>>}
  /\ UNCHANGED happened

Next == \E e \in Events : Happen(e) \/ \E k \in Kinds : Handle(e, k)

Spec == Init /\ [][Next]_vars

=============================================================================
