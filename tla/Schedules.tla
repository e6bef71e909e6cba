------------------------------ MODULE Schedules ------------------------------
(***************************************************************************)
(* Recurring work: the rows of job_schedules, the workers that turn due    *)
(* rows into jobs, and the workers that install the rows that are missing  *)
(* (src/src/modules/worker/schedules.ts, defaults.ts).                     *)
(*                                                                         *)
(* Every statement is a transaction of its own.  A tick reads what is      *)
(* missing, installs it row by row, reads what is due, and then enqueues   *)
(* and advances row by row; other workers tick at the same time, and a     *)
(* worker may be killed or may stall between any two statements.           *)
(*                                                                         *)
(* A cadence is kept as a period: nextRunAt is the first multiple of it    *)
(* strictly after the time given.                                          *)
(***************************************************************************)
EXTENDS Naturals, FiniteSets

CONSTANTS
  Workers,
  Defaults,    \* the schedules every company, and the deployment, should have
  Global,      \* those of them whose company_id is NULL
  Period,      \* the cadence of each
  Ids,         \* row ids
  NoDefault,
  MaxTime,     \* bound: the clock
  Scenarios    \* bound: which Scenario the instance goes through

ASSUME ScheduleAssumption ==
  /\ Global \subseteq Defaults
  /\ Period \in [Defaults -> Nat \ {0}]
  /\ NoDefault \notin Defaults
  /\ MaxTime \in Nat

Instants == 0 .. MaxTime
NextRuns == Nat   \* next_run_at may lie after the end of the clock

\* How far the clock goes, and how many kills and presses of Pause and Resume
\* there are.
Scenario == [time : Instants, crashes : Nat, presses : Nat]

ASSUME ScenarioAssumption == Scenarios \subseteq Scenario

VARIABLES
  scenario,   \* never changes
  now,        \* the clock
  sched,      \* the table
  jobs,       \* jobs[i][f]: how many jobs were inserted for schedule i's firing at f
  phase,      \* where worker w is in its tick
  missing,    \* the defaults w found no row for and has not installed yet
  at,         \* the `now' of w's tick
  due,        \* the <<row, firing>> w read as due and has not dealt with
  firing,     \* the <<row, firing>> w has enqueued and has still to advance
  installed,  \* history: when each row was inserted
  reset,      \* history: when each row was last set back to its default
  answered,     \* history: the instants a tick has answered for with a job, by row
  crashes, presses

history == <<installed, reset, answered>>
vars == <<scenario, now, sched, jobs, phase, missing, at, due, firing, history, crashes, presses>>

\* MUTANT: not strictly after.
NextRunAtOrNow(d, t) == ((t + Period[d] - 1) \div Period[d]) * Period[d]

\* The next firing strictly after t.
NextRunAt(d, t) == ((t \div Period[d]) + 1) * Period[d]

NoRow == [default |-> NoDefault, next |-> 0, active |-> FALSE]
Row == [default : Defaults \cup {NoDefault}, next : NextRuns, active : BOOLEAN]
Exists(i) == sched[i].default # NoDefault

TypeOK ==
  /\ scenario \in Scenarios
  /\ now \in Instants
  /\ sched \in [Ids -> Row]
  /\ jobs \in [Ids -> [Instants -> Nat]]
  /\ phase \in [Workers -> {"idle", "ensure", "read", "fire"}]
  /\ missing \in [Workers -> SUBSET Defaults]
  /\ at \in [Workers -> Instants]
  /\ due \in [Workers -> SUBSET (Ids \X Instants)]
  /\ firing \in [Workers -> SUBSET (Ids \X Instants)]
  /\ installed \in [Ids -> Instants]
  /\ reset \in [Ids -> Instants]
  /\ answered \in [Ids -> SUBSET Instants]
  /\ crashes \in Nat /\ presses \in Nat

Init ==
  /\ scenario \in Scenarios
  /\ now = 0
  /\ sched = [i \in Ids |-> NoRow]
  /\ jobs = [i \in Ids |-> [f \in Instants |-> 0]]
  /\ phase = [w \in Workers |-> "idle"]
  /\ missing = [w \in Workers |-> {}]
  /\ at = [w \in Workers |-> 0]
  /\ due = [w \in Workers |-> {}]
  /\ firing = [w \in Workers |-> {}]
  /\ installed = [i \in Ids |-> 0]
  /\ reset = [i \in Ids |-> 0]
  /\ answered = [i \in Ids |-> {}]
  /\ crashes = 0 /\ presses = 0

TimePasses ==
  /\ now < scenario.time
  /\ now' = now + 1
  /\ UNCHANGED <<scenario, sched, jobs, phase, missing, at, due, firing, history, crashes, presses>>

-----------------------------------------------------------------------------
(* ensureSchedules()                                                        *)

\* MUTANT: a table with any row in it is taken to have them all.
EnsureReadIfEmpty(w) ==
  /\ phase[w] = "idle"
  /\ phase' = [phase EXCEPT ![w] = "ensure"]
  /\ missing' = [missing EXCEPT ![w] = IF \E i \in Ids : Exists(i) THEN {} ELSE Defaults]
  /\ UNCHANGED <<scenario, now, sched, jobs, at, due, firing, history, crashes, presses>>

EnsureRead(w) ==
  /\ phase[w] = "idle"
  /\ phase' = [phase EXCEPT ![w] = "ensure"]
  /\ missing' = [missing EXCEPT ![w] = {d \in Defaults : \A i \in Ids : sched[i].default # d}]
  /\ UNCHANGED <<scenario, now, sched, jobs, at, due, firing, history, crashes, presses>>

\* The unique index on (company_id, kind): NULL is distinct from NULL.
Conflicts(i, d) == d \notin Global /\ sched[i].default = d

\* upsertSchedule(): insert, or on conflict set the row back to its default.
\* Which unused id an insert takes makes no difference.
Upsert(d) ==
  LET fresh == [default |-> d, next |-> NextRunAt(d, now), active |-> TRUE]
      free == {i \in Ids : ~Exists(i)}
  IN \/ \E i \in Ids :
          /\ Conflicts(i, d)
          /\ sched' = [sched EXCEPT ![i] = fresh]
          /\ reset' = [reset EXCEPT ![i] = now]
          /\ UNCHANGED installed
     \/ /\ \A i \in Ids : ~Conflicts(i, d)
        /\ free # {}
        /\ LET i == CHOOSE i \in free : TRUE
           IN /\ sched' = [sched EXCEPT ![i] = fresh]
              /\ installed' = [installed EXCEPT ![i] = now]
              /\ UNCHANGED reset

EnsureInstall(w) ==
  /\ phase[w] = "ensure"
  /\ \E d \in missing[w] :
       /\ Upsert(d)
       /\ missing' = [missing EXCEPT ![w] = @ \ {d}]
  /\ UNCHANGED <<scenario, now, jobs, phase, at, due, firing, answered, crashes, presses>>

EnsureEnd(w) ==
  /\ phase[w] = "ensure" /\ missing[w] = {}
  /\ phase' = [phase EXCEPT ![w] = "read"]
  /\ UNCHANGED <<scenario, now, sched, jobs, missing, at, due, firing, history, crashes, presses>>

-----------------------------------------------------------------------------
(* runDueSchedules()                                                        *)

DueRead(w) ==
  /\ phase[w] = "read"
  /\ phase' = [phase EXCEPT ![w] = "fire"]
  /\ at' = [at EXCEPT ![w] = now]
  /\ due' = [due EXCEPT ![w] =
       {<<i, sched[i].next>> : i \in {i \in Ids : sched[i].active /\ sched[i].next <= now}}]
  /\ UNCHANGED <<scenario, now, sched, jobs, missing, firing, history, crashes, presses>>

\* The dedupe key is the schedule and the firing.
KeyTaken(i, f) == jobs[i][f] > 0

\* MUTANT: a firing somebody else has enqueued is left for them to advance.
FireUnlessTaken(w) ==
  /\ phase[w] = "fire" /\ firing[w] = {}
  /\ \E p \in due[w] :
       /\ \A q \in due[w] : p[2] <= q[2]
       /\ jobs' = IF KeyTaken(p[1], p[2]) THEN jobs ELSE [jobs EXCEPT ![p[1]][p[2]] = @ + 1]
       /\ due' = [due EXCEPT ![w] = @ \ {p}]
       /\ firing' = [firing EXCEPT ![w] = IF KeyTaken(p[1], p[2]) THEN {} ELSE {p}]
  /\ UNCHANGED <<scenario, now, sched, phase, missing, at, history, crashes, presses>>

\* Oldest first; a firing that is enqueued already is skipped, not an error.
Fire(w) ==
  /\ phase[w] = "fire" /\ firing[w] = {}
  /\ \E p \in due[w] :
       /\ \A q \in due[w] : p[2] <= q[2]
       /\ jobs' = IF KeyTaken(p[1], p[2]) THEN jobs ELSE [jobs EXCEPT ![p[1]][p[2]] = @ + 1]
       /\ due' = [due EXCEPT ![w] = @ \ {p}]
       /\ firing' = [firing EXCEPT ![w] = {p}]
  /\ UNCHANGED <<scenario, now, sched, phase, missing, at, history, crashes, presses>>

\* The job for a firing stands in for the firings missed since, up to the
\* tick's `now'.
Answer(w, p) ==
  answered' = IF KeyTaken(p[1], p[2])
              THEN [answered EXCEPT ![p[1]] = @ \cup p[2] .. at[w]] ELSE answered

\* MUTANT: the row is advanced from the clock, the tick having begun before.
AdvanceFromClock(w) ==
  /\ \E p \in firing[w] :
       /\ sched' = [sched EXCEPT ![p[1]].next = NextRunAt(sched[p[1]].default, now)]
       /\ Answer(w, p)
  /\ firing' = [firing EXCEPT ![w] = {}]
  /\ UNCHANGED <<scenario, now, jobs, phase, missing, at, due, installed, reset, crashes, presses>>

\* Won or skipped, the row is advanced from the tick's `now'.
Advance(w) ==
  /\ \E p \in firing[w] :
       /\ sched' = [sched EXCEPT ![p[1]].next = NextRunAt(sched[p[1]].default, at[w])]
       /\ Answer(w, p)
  /\ firing' = [firing EXCEPT ![w] = {}]
  /\ UNCHANGED <<scenario, now, jobs, phase, missing, at, due, installed, reset, crashes, presses>>

TickEnd(w) ==
  /\ phase[w] = "fire" /\ due[w] = {} /\ firing[w] = {}
  /\ phase' = [phase EXCEPT ![w] = "idle"]
  /\ UNCHANGED <<scenario, now, sched, jobs, missing, at, due, firing, history, crashes, presses>>

Crash(w) ==
  /\ phase[w] # "idle"
  /\ crashes < scenario.crashes
  /\ crashes' = crashes + 1
  /\ phase' = [phase EXCEPT ![w] = "idle"]
  /\ missing' = [missing EXCEPT ![w] = {}]
  /\ due' = [due EXCEPT ![w] = {}]
  /\ firing' = [firing EXCEPT ![w] = {}]
  /\ UNCHANGED <<scenario, now, sched, jobs, at, history, presses>>

\* setScheduleActive()
\* MUTANT: Pause clears next_run_at.
SetActiveClearing(i, b) ==
  /\ Exists(i) /\ sched[i].active # b
  /\ presses < scenario.presses
  /\ presses' = presses + 1
  /\ sched' = [sched EXCEPT ![i].active = b, ![i].next = IF b THEN @ ELSE NoDefault]
  /\ UNCHANGED <<scenario, now, jobs, phase, missing, at, due, firing, history, crashes>>

SetActive(i, b) ==
  /\ Exists(i) /\ sched[i].active # b
  /\ presses < scenario.presses
  /\ presses' = presses + 1
  /\ sched' = [sched EXCEPT ![i].active = b]
  /\ UNCHANGED <<scenario, now, jobs, phase, missing, at, due, firing, history, crashes>>

-----------------------------------------------------------------------------

Tick(w) ==
  \/ EnsureRead(w) \/ EnsureInstall(w) \/ EnsureEnd(w)
  \/ DueRead(w) \/ Fire(w) \/ Advance(w) \/ TickEnd(w)

Next ==
  \/ TimePasses
  \/ \E w \in Workers : Tick(w) \/ Crash(w)
  \/ \E i \in Ids, b \in BOOLEAN : SetActive(i, b)

Spec == Init /\ [][Next]_vars

\* Workers keep ticking unless killed; nothing else has to happen.
FairSpec == Spec /\ \A w \in Workers : WF_vars(Tick(w))

-----------------------------------------------------------------------------

(* No firing goes by unanswered: when next_run_at has passed an instant of   *)
(* the cadence, that instant had a job, or an earlier firing's job stood in  *)
(* for it in a tick that began when it had come.  Two workers, one stalled   *)
(* between the job and the advance, one killed there, set next_run_at back   *)
(* and forth and still skip nothing.  The exception is a row that a stale    *)
(* ensureSchedules put back to its default: its firings until then are let   *)
(* go (runDueSchedules advances from the `now' it read the due rows with).   *)
NoFiringIsPassedOver ==
  \A i \in Ids, f \in Instants :
    /\ Exists(i)
    /\ installed[i] < f /\ f < sched[i].next
    /\ f % Period[sched[i].default] = 0
    => f \in answered[i] \/ f <= reset[i]

(* A job is for an instant of the cadence that has come, and that lies after *)
(* the schedule was installed: nothing is fired early or for the past.       *)
FiringsAreOfTheCadence ==
  \A i \in Ids, f \in Instants : jobs[i][f] > 0 =>
    /\ Exists(i)
    /\ installed[i] < f /\ f <= now
    /\ f % Period[sched[i].default] = 0

(* A schedule that is due does not stay due: some worker advances it, though *)
(* the one that enqueued its job was killed before the advance.              *)
DueIsAdvanced ==
  \A i \in Ids :
    sched[i].active /\ sched[i].next <= now ~> (~sched[i].active \/ sched[i].next > now)

(* Every default is installed in the end, though the worker installing them  *)
(* was killed half way.                                                      *)
EveryDefaultIsInstalled == \A d \in Defaults : <>(\E i \in Ids : sched[i].default = d)

=============================================================================
