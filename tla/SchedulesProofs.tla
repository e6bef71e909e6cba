--------------------------- MODULE SchedulesProofs ---------------------------
(***************************************************************************)
(* What recurring work keeps, for any number of workers, schedules and row *)
(* ids, any cadence and any clock: no firing is passed over, and a job is  *)
(* for an instant of the cadence that has come.                            *)
(*                                                                         *)
(* The argument: a row's next_run_at, and whatever a worker has read of it *)
(* and still carries, is an instant of the cadence that lies after the row *)
(* was installed, however old the worker's reading is; and every firing    *)
(* before any of them has been answered for.                               *)
(***************************************************************************)
EXTENDS Schedules, TLAPS

\* A name for three variables, in every UNCHANGED that lists them.
USE DEF history

\* f is an instant of schedule i that lies after its installation.
Planned(i, f) ==
  /\ Exists(i)
  /\ installed[i] < f
  /\ f % Period[sched[i].default] = 0

RowsPlanned == \A i \in Ids : sched[i] # NoRow => Planned(i, sched[i].next)

\* What worker w carries was due when it was read.
CarriedPlanned ==
  \A w \in Workers : \A p \in due[w] \cup firing[w] :
    /\ Planned(p[1], p[2])
    /\ p[2] <= at[w]

JobsPlanned ==
  \A i \in Ids, f \in Instants : jobs[i][f] > 0 => Planned(i, f) /\ f <= now

ClockPast == /\ \A w \in Workers : at[w] <= now
             /\ \A i \in Ids : installed[i] <= now /\ reset[i] <= now

Cadence == ClockPast /\ RowsPlanned /\ CarriedPlanned /\ JobsPlanned

\* Every instant of i's cadence before f has been answered for, or let go.
AnsweredTo(i, f) ==
  \A h \in Instants :
    /\ installed[i] < h /\ h < f
    /\ h % Period[sched[i].default] = 0
    => h \in answered[i] \/ h <= reset[i]

\* Whatever is due, or is read as due, has nothing unanswered before it, and
\* what is to be advanced has its job.
Answering ==
  /\ \A i \in Ids : Exists(i) => AnsweredTo(i, sched[i].next)
  /\ \A w \in Workers : \A p \in due[w] \cup firing[w] : AnsweredTo(p[1], p[2])
  /\ \A w \in Workers : \A p \in firing[w] : jobs[p[1]][p[2]] > 0

-----------------------------------------------------------------------------

\* nextRunAt: strictly after t, and of the cadence.
LEMMA NextRunAfter ==
  ASSUME NEW d \in Defaults, NEW t \in Nat
  PROVE  /\ NextRunAt(d, t) \in Nat
         /\ NextRunAt(d, t) > t
         /\ NextRunAt(d, t) % Period[d] = 0
<1> DEFINE p == Period[d]
           q == t \div p
<1>1. p \in Nat /\ p > 0
  BY ScheduleAssumption
<1>2. q \in Nat /\ q * p <= t /\ t < (q + 1) * p
  BY <1>1
<1>3. (q + 1) * p \in Nat
  BY <1>1, <1>2
<1>4. ((q + 1) * p) % p = 0
  BY <1>1, <1>2
<1> QED
  BY <1>2, <1>3, <1>4 DEF NextRunAt

\* Between a time and its next firing the cadence has no instant.
LEMMA NoneBetween ==
  ASSUME NEW d \in Defaults, NEW t \in Nat, NEW h \in Nat,
         t < h, h < NextRunAt(d, t), h % Period[d] = 0
  PROVE  FALSE
<1> DEFINE p == Period[d]
           q == t \div p
           k == h \div p
<1>1. p \in Nat /\ p > 0
  BY ScheduleAssumption
<1>2. q \in Nat /\ q * p <= t /\ k \in Nat /\ h = k * p
  BY <1>1
<1>3. h < (q + 1) * p
  BY DEF NextRunAt
<1> HIDE DEF p, q, k
<1>4. CASE k <= q
  <2>1. k * p <= q * p
    BY <1>1, <1>2, <1>4
  <2> QED
    BY <2>1, <1>1, <1>2
<1>5. CASE k >= q + 1
  <2>1. k * p >= (q + 1) * p
    BY <1>1, <1>2, <1>5
  <2> QED
    BY <2>1, <1>1, <1>2, <1>3
<1> QED
  BY <1>2, <1>4, <1>5

\* The steps of the system, one by one.
LEMMA NextCases ==
  ASSUME [Next]_vars
  PROVE  \/ TimePasses
         \/ \E w \in Workers : EnsureRead(w)
         \/ \E w \in Workers : EnsureInstall(w)
         \/ \E w \in Workers : EnsureEnd(w)
         \/ \E w \in Workers : DueRead(w)
         \/ \E w \in Workers : Fire(w)
         \/ \E w \in Workers : Advance(w)
         \/ \E w \in Workers : TickEnd(w)
         \/ \E w \in Workers : Crash(w)
         \/ \E i \in Ids, b \in BOOLEAN : SetActive(i, b)
         \/ UNCHANGED vars
BY DEF Next, Tick

\* What an upsert does to the table: one row is written, its own default's or
\* a free one, and only a free one is installed.
LEMMA UpsertWrites ==
  ASSUME TypeOK, NEW d \in Defaults, Upsert(d)
  PROVE  \E i \in Ids :
           /\ sched' = [sched EXCEPT ![i] =
                [default |-> d, next |-> NextRunAt(d, now), active |-> TRUE]]
           /\ \/ /\ sched[i].default = d
                 /\ UNCHANGED installed /\ reset' = [reset EXCEPT ![i] = now]
              \/ /\ ~ Exists(i)
                 /\ installed' = [installed EXCEPT ![i] = now] /\ UNCHANGED reset
<1> DEFINE fresh == [default |-> d, next |-> NextRunAt(d, now), active |-> TRUE]
           free  == {i \in Ids : ~ Exists(i)}
           new   == CHOOSE i \in free : TRUE
<1>1. CASE \E i \in Ids : /\ Conflicts(i, d)
                          /\ sched' = [sched EXCEPT ![i] = fresh]
                          /\ reset' = [reset EXCEPT ![i] = now]
                          /\ UNCHANGED installed
  BY <1>1 DEF Conflicts
<1>2. CASE /\ free # {}
           /\ sched' = [sched EXCEPT ![new] = fresh]
           /\ installed' = [installed EXCEPT ![new] = now]
           /\ UNCHANGED reset
  <2>1. new \in free
    BY <1>2
  <2> QED
    BY <1>2, <2>1
<1> QED
  BY <1>1, <1>2 DEF Upsert

\* The clock and its readings lie on it.
LEMMA InstantsAreNat == Instants \subseteq Nat
BY ScheduleAssumption DEF Instants

LEMMA EarlierInstant == \A t \in Instants : \A f \in Nat : f <= t => f \in Instants
BY ScheduleAssumption DEF Instants

-----------------------------------------------------------------------------
(* Types.                                                                   *)

LEMMA TypeInit == Init => TypeOK
BY ScheduleAssumption DEF Init, TypeOK, NoRow, Row, NextRuns, Instants

\* A worker advances the row of a schedule it knows, so that the cadence it
\* takes the next firing from is one: Cadence says so.
LEMMA TypeStep == TypeOK /\ Cadence /\ [Next]_vars => TypeOK'
<1> SUFFICES ASSUME TypeOK, Cadence, [Next]_vars PROVE TypeOK'
  OBVIOUS
<1> USE DEF TypeOK
<1>1. CASE TimePasses
  <2>1. scenario.time \in Instants
    BY ScenarioAssumption DEF Scenario
  <2>2. now + 1 \in Instants
    BY <1>1, <2>1, ScheduleAssumption DEF TimePasses, Instants
  <2> QED
    BY <1>1, <2>2 DEF TimePasses
<1>2. ASSUME NEW w \in Workers, EnsureRead(w) PROVE TypeOK'
  BY <1>2 DEF EnsureRead
<1>3. ASSUME NEW w \in Workers, EnsureInstall(w) PROVE TypeOK'
  <2>1. PICK d \in missing[w] : Upsert(d) /\ missing' = [missing EXCEPT ![w] = @ \ {d}]
    BY <1>3 DEF EnsureInstall
  <2>2. d \in Defaults /\ now \in Nat
    BY InstantsAreNat
  <2>3. NextRunAt(d, now) \in Nat
    BY <2>2, NextRunAfter
  <2>4. PICK i \in Ids :
          /\ sched' = [sched EXCEPT ![i] =
               [default |-> d, next |-> NextRunAt(d, now), active |-> TRUE]]
          /\ \/ UNCHANGED installed /\ reset' = [reset EXCEPT ![i] = now]
             \/ installed' = [installed EXCEPT ![i] = now] /\ UNCHANGED reset
    BY <2>1, <2>2, UpsertWrites
  <2>5. sched' \in [Ids -> Row] /\ installed' \in [Ids -> Instants] /\ reset' \in [Ids -> Instants]
    BY <2>2, <2>3, <2>4 DEF Row, NextRuns
  <2> QED
    BY <1>3, <2>1, <2>5 DEF EnsureInstall
<1>4. ASSUME NEW w \in Workers, EnsureEnd(w) PROVE TypeOK'
  BY <1>4 DEF EnsureEnd
<1>5. ASSUME NEW w \in Workers, DueRead(w) PROVE TypeOK'
  <2>1. now \in Instants /\ \A i \in Ids : sched[i].next \in Nat
    BY DEF Row, NextRuns
  <2>2. \A i \in Ids : sched[i].next <= now => sched[i].next \in Instants
    BY <2>1, EarlierInstant
  <2>3. due' \in [Workers -> SUBSET (Ids \X Instants)]
    BY <1>5, <2>2 DEF DueRead
  <2> QED
    BY <1>5, <2>3 DEF DueRead
<1>6. ASSUME NEW w \in Workers, Fire(w) PROVE TypeOK'
  <2>1. PICK p \in due[w] :
          /\ jobs' = IF KeyTaken(p[1], p[2]) THEN jobs ELSE [jobs EXCEPT ![p[1]][p[2]] = @ + 1]
          /\ due' = [due EXCEPT ![w] = @ \ {p}]
          /\ firing' = [firing EXCEPT ![w] = {p}]
    BY <1>6 DEF Fire
  <2>2. p \in Ids \X Instants /\ p[1] \in Ids /\ p[2] \in Instants
    OBVIOUS
  <2>3. jobs' \in [Ids -> [Instants -> Nat]]
    BY <2>1, <2>2
  <2> QED
    BY <1>6, <2>1, <2>2, <2>3 DEF Fire
<1>7. ASSUME NEW w \in Workers, Advance(w) PROVE TypeOK'
  <2>1. PICK p \in firing[w] :
          /\ sched' = [sched EXCEPT ![p[1]].next = NextRunAt(sched[p[1]].default, at[w])]
          /\ Answer(w, p)
    BY <1>7 DEF Advance
  <2>2. PICK i \in Ids : i = p[1]
    OBVIOUS
  <2>3. at[w] \in Nat
    BY InstantsAreNat, at[w] \in Instants
  <2>4. sched[i].default \in Defaults
    BY <2>2 DEF Cadence, CarriedPlanned, Planned, Exists, Row
  <2>5. NextRunAt(sched[i].default, at[w]) \in NextRuns
    BY <2>3, <2>4, NextRunAfter DEF NextRuns
  <2>6. sched' = [sched EXCEPT ![i].next = NextRunAt(sched[i].default, at[w])]
    BY <2>1, <2>2
  <2>7. sched' \in [Ids -> Row]
    BY <2>5, <2>6 DEF Row
  <2>8. answered' \in [Ids -> SUBSET Instants]
    <3>0. p[2] \in 0 .. MaxTime /\ at[w] \in 0 .. MaxTime
      BY p[2] \in Instants, at[w] \in Instants DEF Instants
    <3>1. p[2] .. at[w] \subseteq Instants
      <4>1. \A m, n \in 0 .. MaxTime : m .. n \subseteq 0 .. MaxTime
        BY ScheduleAssumption
      <4> QED
        BY <3>0, <4>1 DEF Instants
    <3> QED
      BY <2>1, <3>1 DEF Answer
  <2> QED
    BY <1>7, <2>7, <2>8 DEF Advance
<1>8. ASSUME NEW w \in Workers, TickEnd(w) PROVE TypeOK'
  BY <1>8 DEF TickEnd
<1>9. ASSUME NEW w \in Workers, Crash(w) PROVE TypeOK'
  BY <1>9 DEF Crash
<1>10. ASSUME NEW i \in Ids, NEW b \in BOOLEAN, SetActive(i, b) PROVE TypeOK'
  <2>1. sched' \in [Ids -> Row]
    BY <1>10 DEF SetActive, Row
  <2>2. presses' \in Nat
    BY <1>10 DEF SetActive
  <2> QED
    BY <1>10, <2>1, <2>2 DEF SetActive
<1>11. CASE UNCHANGED vars
  BY <1>11 DEF vars
<1> QED
  BY <1>1, <1>2, <1>3, <1>4, <1>5, <1>6, <1>7, <1>8, <1>9, <1>10, <1>11, NextCases

-----------------------------------------------------------------------------
(* The cadence.                                                             *)

LEMMA CadenceInit == Init => Cadence
BY DEF Init, Cadence, ClockPast, RowsPlanned, CarriedPlanned, JobsPlanned, Exists, NoRow

\* No step makes another schedule of a row, or installs it again.
LEMMA RowsStay ==
  ASSUME TypeOK, [Next]_vars, NEW i \in Ids, Exists(i)
  PROVE  sched'[i].default = sched[i].default /\ installed'[i] = installed[i]
<1> USE DEF TypeOK, Row
<1>1. ASSUME NEW w \in Workers, EnsureInstall(w)
      PROVE  sched'[i].default = sched[i].default /\ installed'[i] = installed[i]
  <2>1. PICK d \in Defaults : Upsert(d)
    BY <1>1 DEF EnsureInstall
  <2>2. PICK k \in Ids :
          /\ sched' = [sched EXCEPT ![k] =
               [default |-> d, next |-> NextRunAt(d, now), active |-> TRUE]]
          /\ \/ sched[k].default = d /\ UNCHANGED installed
             \/ ~ Exists(k) /\ installed' = [installed EXCEPT ![k] = now]
    BY <2>1, UpsertWrites
  <2> QED
    BY <2>2
<1>2. ASSUME NEW w \in Workers, Advance(w)
      PROVE  sched'[i].default = sched[i].default /\ installed'[i] = installed[i]
  BY <1>2 DEF Advance
<1>3. ASSUME NEW k \in Ids, NEW b \in BOOLEAN, SetActive(k, b)
      PROVE  sched'[i].default = sched[i].default /\ installed'[i] = installed[i]
  BY <1>3 DEF SetActive
<1> QED
  BY <1>1, <1>2, <1>3, NextCases
  DEF TimePasses, EnsureRead, EnsureEnd, DueRead, Fire, TickEnd, Crash, vars

LEMMA PlannedStays ==
  ASSUME TypeOK, [Next]_vars, NEW i \in Ids, NEW f, Planned(i, f)
  PROVE  Planned(i, f)'
BY RowsStay DEF Planned, Exists

\* The clock does not go back.
LEMMA ClockStep == TypeOK /\ ClockPast /\ [Next]_vars => ClockPast' /\ now <= now'
<1> SUFFICES ASSUME TypeOK, ClockPast, [Next]_vars PROVE ClockPast' /\ now <= now'
  OBVIOUS
<1>1. now \in Nat
  BY InstantsAreNat DEF TypeOK
<1>2. /\ \A w \in Workers : at[w] \in Nat
      /\ \A i \in Ids : installed[i] \in Nat /\ reset[i] \in Nat
  BY InstantsAreNat DEF TypeOK
<1>3. ASSUME NEW w \in Workers, EnsureInstall(w) PROVE ClockPast' /\ now <= now'
  <2>1. PICK d \in Defaults : Upsert(d)
    BY <1>3 DEF EnsureInstall, TypeOK
  <2>2. \E k \in Ids : \/ UNCHANGED installed /\ reset' = [reset EXCEPT ![k] = now]
                       \/ installed' = [installed EXCEPT ![k] = now] /\ UNCHANGED reset
    BY <2>1, UpsertWrites
  <2>3. now' = now /\ at' = at
    BY <1>3 DEF EnsureInstall
  <2>4. \A k \in Ids : (installed'[k] = installed[k] \/ installed'[k] = now)
                   /\ (reset'[k] = reset[k] \/ reset'[k] = now)
    BY <2>2 DEF TypeOK
  <2> QED
    BY <1>1, <1>2, <2>3, <2>4 DEF ClockPast
<1>4. CASE TimePasses
  BY <1>1, <1>2, <1>4 DEF TimePasses, ClockPast
<1>5. ASSUME NEW w \in Workers, DueRead(w) PROVE ClockPast' /\ now <= now'
  BY <1>1, <1>5 DEF DueRead, ClockPast, TypeOK
<1> QED
  BY <1>1, <1>3, <1>4, <1>5, NextCases
  DEF ClockPast, EnsureRead, EnsureEnd, Fire, Advance, TickEnd, Crash, SetActive, vars

LEMMA RowsStep == TypeOK /\ Cadence /\ [Next]_vars => RowsPlanned'
<1> SUFFICES ASSUME TypeOK, Cadence, [Next]_vars, NEW i \in Ids, sched'[i] # NoRow
             PROVE  Planned(i, sched[i].next)'
  BY DEF RowsPlanned
<1> USE DEF TypeOK
<1>1. ASSUME sched[i] # NoRow, sched'[i].next = sched[i].next
      PROVE  Planned(i, sched[i].next)'
  <2>1. Planned(i, sched[i].next)
    BY <1>1 DEF Cadence, RowsPlanned
  <2> QED
    BY <1>1, <2>1, PlannedStays DEF Planned, Exists
<1>2. ASSUME NEW w \in Workers, EnsureInstall(w) PROVE Planned(i, sched[i].next)'
  <2>1. PICK d \in Defaults : Upsert(d)
    BY <1>2 DEF EnsureInstall
  <2>2. PICK k \in Ids :
          /\ sched' = [sched EXCEPT ![k] =
               [default |-> d, next |-> NextRunAt(d, now), active |-> TRUE]]
          /\ \/ sched[k].default = d /\ UNCHANGED installed
             \/ ~ Exists(k) /\ installed' = [installed EXCEPT ![k] = now]
    BY <2>1, UpsertWrites
  <2>3. CASE i = k
    <3>1. now \in Nat /\ installed[i] \in Nat /\ installed[i] <= now
      BY InstantsAreNat DEF Cadence, ClockPast
    <3>2. NextRunAt(d, now) \in Nat /\ NextRunAt(d, now) > now /\ NextRunAt(d, now) % Period[d] = 0
      BY <3>1, NextRunAfter
    <3>3. sched'[i] = [default |-> d, next |-> NextRunAt(d, now), active |-> TRUE]
      BY <2>2, <2>3
    <3>4. installed'[i] \in Nat /\ installed'[i] <= now
      BY <2>2, <2>3, <3>1
    <3> QED
      BY <3>1, <3>2, <3>3, <3>4, ScheduleAssumption DEF Planned, Exists
  <2>4. CASE i # k
    BY <1>1, <2>2, <2>4
  <2> QED
    BY <2>3, <2>4
<1>3. ASSUME NEW w \in Workers, Advance(w) PROVE Planned(i, sched[i].next)'
  <2>1. PICK p \in firing[w] :
          sched' = [sched EXCEPT ![p[1]].next = NextRunAt(sched[p[1]].default, at[w])]
    BY <1>3 DEF Advance
  <2>2. CASE i = p[1]
    <3>1. Planned(i, p[2]) /\ p[2] <= at[w]
      BY <2>1, <2>2 DEF Cadence, CarriedPlanned
    <3> DEFINE d == sched[i].default
    <3>2. d \in Defaults
      BY <3>1 DEF Planned, Exists, Row
    <3>3. at[w] \in Nat
      BY InstantsAreNat, at[w] \in Instants
    <3>4. p[2] \in Nat
      BY InstantsAreNat, p \in Ids \X Instants
    <3>5. installed[i] \in Nat
      BY InstantsAreNat, installed[i] \in Instants
    <3>6. NextRunAt(d, at[w]) \in Nat /\ NextRunAt(d, at[w]) > at[w] /\ NextRunAt(d, at[w]) % Period[d] = 0
      BY <3>2, <3>3, NextRunAfter
    <3>7. sched'[i].next = NextRunAt(d, at[w]) /\ sched'[i].default = d
      BY <2>1, <2>2 DEF Row
    <3>8. installed' = installed
      BY <1>3 DEF Advance
    <3> QED
      BY <3>1, <3>3, <3>4, <3>5, <3>6, <3>7, <3>8 DEF Planned, Exists
  <2>3. CASE i # p[1]
    BY <1>1, <2>1, <2>3
  <2> QED
    BY <2>2, <2>3
<1>4. ASSUME NEW k \in Ids, NEW b \in BOOLEAN, SetActive(k, b) PROVE Planned(i, sched[i].next)'
  <2>1. sched'[i].next = sched[i].next
    BY <1>4 DEF SetActive, Row
  <2>2. sched[i] # NoRow
    <3>1. CASE i = k
      BY <1>4, <3>1 DEF SetActive, Exists, NoRow
    <3>2. CASE i # k
      <4>1. sched'[i] = sched[i]
        BY <1>4, <3>2 DEF SetActive
      <4> QED
        BY <4>1
    <3> QED
      BY <3>1, <3>2
  <2> QED
    BY <1>1, <2>1, <2>2
<1> QED
  BY <1>1, <1>2, <1>3, <1>4, NextCases
  DEF TimePasses, EnsureRead, EnsureEnd, DueRead, Fire, TickEnd, Crash, vars

LEMMA CarriedStep == TypeOK /\ Cadence /\ [Next]_vars => CarriedPlanned'
<1> SUFFICES ASSUME TypeOK, Cadence, [Next]_vars,
                    NEW v \in Workers, NEW p \in (due[v] \cup firing[v])'
             PROVE  Planned(p[1], p[2])' /\ (p[2] <= at[v])'
  BY DEF CarriedPlanned
<1> USE DEF TypeOK
<1>1. ASSUME p \in due[v] \cup firing[v], at'[v] = at[v]
      PROVE  Planned(p[1], p[2])' /\ (p[2] <= at[v])'
  <2>1. p[1] \in Ids
    BY <1>1
  <2> QED
    BY <1>1, <2>1, PlannedStays DEF Cadence, CarriedPlanned
<1>2. ASSUME NEW w \in Workers, DueRead(w) PROVE Planned(p[1], p[2])' /\ (p[2] <= at[v])'
  <2>1. CASE v = w /\ p \in due'[v]
    <3>1. PICK i \in Ids : p = <<i, sched[i].next>> /\ sched[i].active /\ sched[i].next <= now
      BY <1>2, <2>1 DEF DueRead
    <3>2. sched[i] # NoRow
      BY <3>1 DEF NoRow
    <3>3. Planned(i, sched[i].next) /\ i = p[1] /\ sched[i].next = p[2]
      BY <3>1, <3>2 DEF Cadence, RowsPlanned
    <3>4. Planned(p[1], p[2])'
      BY <3>3, PlannedStays
    <3>5. at'[v] = now
      BY <1>2, <2>1 DEF DueRead
    <3> QED
      BY <3>1, <3>3, <3>4, <3>5
  <2>2. CASE v = w /\ p \in firing'[v]
    <3>1. p \in firing[w] /\ at'[w] = now
      BY <1>2, <2>2 DEF DueRead
    <3>2. p[1] \in Ids /\ p[2] \in Instants /\ now \in Instants /\ at[w] \in Instants
      BY <3>1
    <3>3. Planned(p[1], p[2]) /\ p[2] <= at[w] /\ at[w] <= now
      BY <3>1 DEF Cadence, CarriedPlanned, ClockPast
    <3>4. p[2] \in Nat /\ now \in Nat /\ at[w] \in Nat
      BY <3>2, InstantsAreNat
    <3>5. p[2] <= now
      BY <3>3, <3>4
    <3> QED
      BY <2>2, <3>1, <3>2, <3>3, <3>5, PlannedStays
  <2>3. CASE v # w
    BY <1>1, <1>2, <2>3 DEF DueRead
  <2> QED
    BY <2>1, <2>2, <2>3
<1>3. ASSUME NEW w \in Workers, Fire(w) PROVE Planned(p[1], p[2])' /\ (p[2] <= at[v])'
  BY <1>1, <1>3 DEF Fire
<1>4. ASSUME NEW w \in Workers, Advance(w) PROVE Planned(p[1], p[2])' /\ (p[2] <= at[v])'
  BY <1>1, <1>4 DEF Advance
<1>5. ASSUME NEW w \in Workers, Crash(w) PROVE Planned(p[1], p[2])' /\ (p[2] <= at[v])'
  BY <1>1, <1>5 DEF Crash
<1> QED
  BY <1>1, <1>2, <1>3, <1>4, <1>5, NextCases
  DEF TimePasses, EnsureRead, EnsureInstall, EnsureEnd, TickEnd, SetActive, vars

LEMMA JobsStep == TypeOK /\ Cadence /\ [Next]_vars => JobsPlanned'
<1> SUFFICES ASSUME TypeOK, Cadence, [Next]_vars,
                    NEW i \in Ids, NEW f \in Instants, jobs'[i][f] > 0
             PROVE  Planned(i, f)' /\ f <= now'
  BY DEF JobsPlanned
<1>1. f \in Nat /\ now \in Nat /\ now' \in Nat /\ now <= now'
  BY InstantsAreNat, TypeStep, ClockStep DEF TypeOK, Cadence
<1> USE DEF TypeOK
<1>2. ASSUME jobs[i][f] > 0 PROVE Planned(i, f)' /\ f <= now'
  BY <1>1, <1>2, PlannedStays DEF Cadence, JobsPlanned
<1>3. ASSUME NEW w \in Workers, Fire(w) PROVE Planned(i, f)' /\ f <= now'
  <2>1. PICK p \in due[w] :
          jobs' = IF KeyTaken(p[1], p[2]) THEN jobs ELSE [jobs EXCEPT ![p[1]][p[2]] = @ + 1]
    BY <1>3 DEF Fire
  <2>2. p[1] \in Ids /\ p[2] \in Instants /\ at[w] \in Instants
    OBVIOUS
  <2>3. CASE p = <<i, f>>
    <3>1. Planned(i, f) /\ f <= at[w] /\ at[w] <= now
      BY <2>3 DEF Cadence, CarriedPlanned, ClockPast
    <3>2. at[w] \in Nat
      BY <2>2, InstantsAreNat
    <3>3. f <= now'
      BY <1>1, <3>1, <3>2
    <3> QED
      BY <3>1, <3>3, PlannedStays
  <2>4. CASE p # <<i, f>>
    <3>1. jobs'[i][f] = jobs[i][f]
      BY <2>1, <2>2, <2>4
    <3> QED
      BY <1>2, <3>1
  <2> QED
    BY <2>3, <2>4
<1> QED
  BY <1>2, <1>3, NextCases
  DEF TimePasses, EnsureRead, EnsureInstall, EnsureEnd, DueRead, Advance, TickEnd, Crash,
      SetActive, vars

LEMMA CadenceStep == TypeOK /\ Cadence /\ [Next]_vars => TypeOK' /\ Cadence'
BY TypeStep, ClockStep, RowsStep, CarriedStep, JobsStep DEF Cadence

LEMMA CadenceAlways == Spec => [](TypeOK /\ Cadence)
<1>1. Init => TypeOK /\ Cadence
  BY TypeInit, CadenceInit
<1> QED
  BY <1>1, CadenceStep, PTL DEF Spec

-----------------------------------------------------------------------------
(* Nothing is passed over.                                                  *)

LEMMA AnsweringInit == Init => Answering
BY DEF Init, Answering, Exists, NoRow

\* What has been answered for, or let go, stays so.
LEMMA AnsweredStays ==
  ASSUME TypeOK, Cadence, [Next]_vars, NEW i \in Ids, NEW f, Exists(i), AnsweredTo(i, f)
  PROVE  AnsweredTo(i, f)'
<1> USE DEF TypeOK
<1>1. answered[i] \subseteq answered'[i]
  <2>1. ASSUME NEW w \in Workers, Advance(w) PROVE answered[i] \subseteq answered'[i]
    <3>1. PICK p \in firing[w] : Answer(w, p)
      BY <2>1 DEF Advance
    <3> QED
      BY <3>1 DEF Answer
  <2> QED
    BY <2>1, NextCases
    DEF TimePasses, EnsureRead, EnsureInstall, EnsureEnd, DueRead, Fire, TickEnd, Crash,
        SetActive, vars
<1>2. reset[i] <= reset'[i] /\ reset[i] \in Nat /\ reset'[i] \in Nat
  <2>1. reset[i] \in Nat /\ now \in Nat /\ reset[i] <= now
    BY InstantsAreNat DEF Cadence, ClockPast
  <2>2. ASSUME NEW w \in Workers, EnsureInstall(w) PROVE reset'[i] = reset[i] \/ reset'[i] = now
    <3>1. PICK d \in Defaults : Upsert(d)
      BY <2>2 DEF EnsureInstall
    <3> QED
      BY <3>1, UpsertWrites
  <2>3. reset'[i] = reset[i] \/ reset'[i] = now
    BY <2>2, NextCases
    DEF TimePasses, EnsureRead, EnsureEnd, DueRead, Fire, Advance, TickEnd, Crash, SetActive, vars
  <2> QED
    BY <2>1, <2>3
<1>3. sched'[i].default = sched[i].default /\ installed'[i] = installed[i]
  BY RowsStay
<1>4. \A h \in Instants : h \in Nat
  BY InstantsAreNat
<1> QED
  BY <1>1, <1>2, <1>3, <1>4 DEF AnsweredTo

\* A row that is inserted, or set back to its default, has no firing before
\* its next one that is not let go.
LEMMA UpsertAnswers ==
  ASSUME TypeOK, Cadence, NEW d \in Defaults, Upsert(d), answered' = answered,
         NEW i \in Ids,
         sched'[i] = [default |-> d, next |-> NextRunAt(d, now), active |-> TRUE],
         reset'[i] = now \/ installed'[i] = now
  PROVE  AnsweredTo(i, sched[i].next)'
<1> SUFFICES ASSUME NEW h \in Instants,
                    installed'[i] < h, h < NextRunAt(d, now), h % Period[d] = 0
             PROVE  h <= reset'[i]
  BY DEF AnsweredTo
<1>1. h \in Nat /\ now \in Nat
  BY InstantsAreNat DEF TypeOK
<1>2. ~ (now < h)
  BY <1>1, NoneBetween
<1> QED
  BY <1>1, <1>2

\* An advance answers for the firing it carries and those missed since.
LEMMA AdvanceAnswers ==
  ASSUME TypeOK, Cadence, Answering, NEW w \in Workers, NEW p \in firing[w],
         sched' = [sched EXCEPT ![p[1]].next = NextRunAt(sched[p[1]].default, at[w])],
         Answer(w, p), installed' = installed, reset' = reset
  PROVE  AnsweredTo(p[1], sched[p[1]].next)'
<1> DEFINE i == p[1]
           d == sched[i].default
<1> USE DEF TypeOK
<1>1. i \in Ids /\ p[2] \in Nat /\ at[w] \in Nat
  BY InstantsAreNat, p \in Ids \X Instants, at[w] \in Instants
<1>2. Planned(i, p[2]) /\ AnsweredTo(i, p[2]) /\ jobs[i][p[2]] > 0
  BY DEF Cadence, CarriedPlanned, Answering
<1>3. d \in Defaults
  BY <1>1, <1>2 DEF Planned, Exists, Row
<1>4. sched'[i].next = NextRunAt(d, at[w]) /\ sched'[i].default = d
  BY <1>1 DEF Row
<1>5. answered'[i] = answered[i] \cup p[2] .. at[w]
  BY <1>1, <1>2 DEF Answer, KeyTaken
<1> SUFFICES ASSUME NEW h \in Instants, installed[i] < h, h < NextRunAt(d, at[w]),
                    h % Period[d] = 0
             PROVE  h \in answered'[i] \/ h <= reset[i]
  BY <1>4 DEF AnsweredTo
<1>6. h \in Nat
  BY InstantsAreNat
<1>7. h <= at[w]
  <2>1. d \in Defaults /\ at[w] \in Nat /\ h \in Nat
    BY <1>1, <1>3, <1>6
  <2>2. ~ (at[w] < h)
    BY <2>1, NoneBetween
  <2> QED
    BY <2>1, <2>2
<1>8. CASE h < p[2]
  BY <1>2, <1>5, <1>8 DEF AnsweredTo
<1>9. CASE ~ (h < p[2])
  BY <1>1, <1>5, <1>6, <1>7, <1>9
<1> QED
  BY <1>8, <1>9

LEMMA RowsAnswered ==
  ASSUME TypeOK, Cadence, Answering, [Next]_vars, NEW i \in Ids, Exists(i)'
  PROVE  AnsweredTo(i, sched[i].next)'
<1> USE DEF TypeOK
<1>1. ASSUME Exists(i), sched'[i].next = sched[i].next PROVE AnsweredTo(i, sched[i].next)'
  <2>1. AnsweredTo(i, sched[i].next)
    BY <1>1 DEF Answering
  <2>2. PICK f : f = sched[i].next
    OBVIOUS
  <2>3. AnsweredTo(i, f)
    BY <2>1, <2>2
  <2>4. AnsweredTo(i, f)'
    BY <1>1, <2>3, AnsweredStays
  <2> QED
    BY <1>1, <2>2, <2>4 DEF AnsweredTo
<1>2. ASSUME NEW w \in Workers, EnsureInstall(w) PROVE AnsweredTo(i, sched[i].next)'
  <2>1. PICK d \in Defaults : Upsert(d)
    BY <1>2 DEF EnsureInstall
  <2>2. PICK k \in Ids :
          /\ sched' = [sched EXCEPT ![k] =
               [default |-> d, next |-> NextRunAt(d, now), active |-> TRUE]]
          /\ \/ reset' = [reset EXCEPT ![k] = now]
             \/ installed' = [installed EXCEPT ![k] = now]
    BY <2>1, UpsertWrites
  <2>3. CASE i = k
    <3>1. sched'[i] = [default |-> d, next |-> NextRunAt(d, now), active |-> TRUE]
      BY <2>2, <2>3
    <3>2. reset'[i] = now \/ installed'[i] = now
      BY <2>2, <2>3
    <3>3. answered' = answered
      BY <1>2 DEF EnsureInstall
    <3> QED
      BY <2>1, <3>1, <3>2, <3>3, UpsertAnswers
  <2>4. CASE i # k
    <3>1. sched'[i] = sched[i]
      BY <2>2, <2>4
    <3> QED
      BY <3>1, <1>1 DEF Exists
  <2> QED
    BY <2>3, <2>4
<1>3. ASSUME NEW w \in Workers, Advance(w) PROVE AnsweredTo(i, sched[i].next)'
  <2>1. PICK p \in firing[w] :
          /\ sched' = [sched EXCEPT ![p[1]].next = NextRunAt(sched[p[1]].default, at[w])]
          /\ Answer(w, p)
    BY <1>3 DEF Advance
  <2>2. installed' = installed /\ reset' = reset
    BY <1>3 DEF Advance
  <2>3. CASE i = p[1]
    BY <2>1, <2>2, <2>3, AdvanceAnswers
  <2>4. CASE i # p[1]
    <3>1. sched'[i] = sched[i]
      BY <2>1, <2>4
    <3> QED
      BY <3>1, <1>1 DEF Exists
  <2> QED
    BY <2>3, <2>4
<1>4. ASSUME NEW k \in Ids, NEW b \in BOOLEAN, SetActive(k, b)
      PROVE  AnsweredTo(i, sched[i].next)'
  <2>1. sched'[i].next = sched[i].next /\ sched'[i].default = sched[i].default
    BY <1>4 DEF SetActive, Row
  <2> QED
    BY <2>1, <1>1 DEF Exists
<1> QED
  BY <1>1, <1>2, <1>3, <1>4, NextCases
  DEF Exists, TimePasses, EnsureRead, EnsureEnd, DueRead, Fire, TickEnd, Crash, vars

LEMMA CarriedAnswered ==
  ASSUME TypeOK, Cadence, Answering, [Next]_vars,
         NEW v \in Workers, NEW p \in (due[v] \cup firing[v])'
  PROVE  AnsweredTo(p[1], p[2])'
<1> USE DEF TypeOK
<1>1. ASSUME p \in due[v] \cup firing[v] PROVE AnsweredTo(p[1], p[2])'
  <2>1. p[1] \in Ids /\ Exists(p[1]) /\ AnsweredTo(p[1], p[2])
    BY <1>1 DEF Answering, Cadence, CarriedPlanned, Planned
  <2> QED
    BY <2>1, AnsweredStays
<1>2. ASSUME NEW w \in Workers, DueRead(w) PROVE AnsweredTo(p[1], p[2])'
  <2>1. CASE v = w /\ p \in due'[v]
    <3>1. PICK i \in Ids : p = <<i, sched[i].next>> /\ sched[i].active
      BY <1>2, <2>1 DEF DueRead
    <3>2. sched[i] # NoRow
      BY <3>1 DEF NoRow
    <3>3. Exists(i)
      BY <3>2 DEF Cadence, RowsPlanned, Planned
    <3>4. p[1] = i /\ AnsweredTo(i, p[2])
      BY <3>1, <3>3 DEF Answering
    <3> QED
      BY <3>3, <3>4, AnsweredStays
  <2>2. CASE v = w /\ p \in firing'[v]
    BY <1>1, <1>2, <2>2 DEF DueRead
  <2>3. CASE v # w
    BY <1>1, <1>2, <2>3 DEF DueRead
  <2> QED
    BY <2>1, <2>2, <2>3
<1>3. ASSUME NEW w \in Workers, Fire(w) PROVE AnsweredTo(p[1], p[2])'
  BY <1>1, <1>3 DEF Fire
<1>4. ASSUME NEW w \in Workers, Advance(w) PROVE AnsweredTo(p[1], p[2])'
  BY <1>1, <1>4 DEF Advance
<1>5. ASSUME NEW w \in Workers, Crash(w) PROVE AnsweredTo(p[1], p[2])'
  BY <1>1, <1>5 DEF Crash
<1> QED
  BY <1>1, <1>2, <1>3, <1>4, <1>5, NextCases
  DEF TimePasses, EnsureRead, EnsureInstall, EnsureEnd, TickEnd, SetActive, vars

LEMMA FiringHasJob ==
  ASSUME TypeOK, Answering, [Next]_vars, NEW v \in Workers, NEW p \in firing'[v]
  PROVE  jobs'[p[1]][p[2]] > 0
<1> USE DEF TypeOK
<1>1. ASSUME p \in firing[v], jobs' = jobs PROVE jobs'[p[1]][p[2]] > 0
  BY <1>1 DEF Answering
<1>2. ASSUME NEW w \in Workers, Fire(w) PROVE jobs'[p[1]][p[2]] > 0
  <2>1. PICK q \in due[w] :
          /\ jobs' = IF KeyTaken(q[1], q[2]) THEN jobs ELSE [jobs EXCEPT ![q[1]][q[2]] = @ + 1]
          /\ firing' = [firing EXCEPT ![w] = {q}]
    BY <1>2 DEF Fire
  <2>2. q[1] \in Ids /\ q[2] \in Instants /\ jobs[q[1]][q[2]] \in Nat
    OBVIOUS
  <2>3. jobs'[q[1]][q[2]] > 0
    BY <2>1, <2>2 DEF KeyTaken
  <2>4. CASE v = w
    BY <2>1, <2>3, <2>4
  <2>5. CASE v # w
    <3>1. p \in firing[v]
      BY <2>1, <2>5
    <3>2. p[1] \in Ids /\ p[2] \in Instants /\ jobs[p[1]][p[2]] > 0
      BY <3>1 DEF Answering
    <3> QED
      BY <2>1, <2>2, <3>2
  <2> QED
    BY <2>4, <2>5
<1> QED
  BY <1>1, <1>2, NextCases
  DEF TimePasses, EnsureRead, EnsureInstall, EnsureEnd, DueRead, Advance, TickEnd, Crash,
      SetActive, vars

LEMMA AnsweringStep == TypeOK /\ Cadence /\ Answering /\ [Next]_vars => Answering'
BY RowsAnswered, CarriedAnswered, FiringHasJob DEF Answering

-----------------------------------------------------------------------------

(* The tables hold rows, counts and instants (schedules.ts, defaults.ts).    *)
(* It needs Cadence: a worker that advances a row it has read takes the next *)
(* firing from the row's own cadence, so the row must still be a schedule's. *)
THEOREM TypeCorrect == Spec => []TypeOK
BY CadenceAlways, PTL

(* runDueSchedules: no instant of a schedule's cadence is passed over without *)
(* a job of its own or an earlier one's standing in for it, for any number of *)
(* workers that stall, are killed or set next_run_at back, unless a stale     *)
(* ensureSchedules put the row back to its default.                           *)
THEOREM NothingIsPassedOver == Spec => []NoFiringIsPassedOver
<1>1. Init => Answering
  BY AnsweringInit
<1>2. Answering => NoFiringIsPassedOver
  BY DEF Answering, AnsweredTo, NoFiringIsPassedOver
<1> QED
  BY <1>1, <1>2, AnsweringStep, CadenceAlways, PTL DEF Spec

(* nextRunAt and the order of a tick: no job is inserted early, for the time *)
(* before its schedule was installed, or off the cadence.                    *)
THEOREM FiredInTime == Spec => []FiringsAreOfTheCadence
<1>1. TypeOK /\ Cadence => FiringsAreOfTheCadence
  BY DEF Cadence, JobsPlanned, Planned, FiringsAreOfTheCadence
<1> QED
  BY <1>1, CadenceAlways, PTL
=============================================================================
