# A verification of Accountrix Plus

Accountrix Plus is double-entry accounting for small companies: a Next.js / TypeScript
monolith over one Postgres database (drizzle, READ COMMITTED transactions) and a
background worker. The parts of it that are hard to get right are not its pages but
what happens when two requests, a request and the worker, or a worker and its own
restart meet on the same rows. That is what this directory models.

Paths are relative to the repository; `worker/queue.ts` is short for
`src/modules/worker/queue.ts` of the application.

## 1. The system

### Parts, state, operations

| part (under `src/modules`) | state | operations that change it | modelled by |
|---|---|---|---|
| `worker` queue and runner: `queue.ts`, `runner.ts`, `backoff.ts` | `background_jobs` | enqueue, claimJobs, runJob (handler, completeJob, failJob), retry, cancel, prune | `JobQueue` |
| `worker` outbox: `outbox.ts` | `domain_events` | recordEvent, relayPendingEvents | `Outbox`, `EventDelivery` |
| `worker` schedules: `schedules.ts`, `defaults.ts` | `job_schedules` | ensureSchedules, upsertSchedule, runDueSchedules, setScheduleActive | `Schedules` |
| `ledger` journal: `journal.ts`, `corrections.ts`, `corrections-service.ts` | `journal_entries` and lines, `accounting_periods` | create, draft, post, discard, void, reverse, close, reopen | `Journal` |
| `receivables`: `service.ts`, `payment-voiding.ts` | invoices, bills, payments, applications | createInvoice, recordPayment, voidDocument, voidPayment, credits, refunds | `Settlement` (receipts and voids of an invoice), `Journal` (the document's entry) |
| `payments`: `service.ts`, `reconcile.ts` | `checkouts`, payouts | startCheckout, settleCheckout, sweepUnresolvedCheckouts, importPayouts | `Checkouts` (all but payouts) |
| `bookkeeping`: `transactions.ts`, `rules-engine.ts`; `ledger/posting.ts`; `banking/revision-service.ts`; `reconciliation/service.ts` | bank lines, their derived entries, the audit trail undo reads, reconciliations, feed revisions | categorize, split, transfer, exclude, accept, note, rules, undo; start, clear, complete, reopen; revise, withdraw, apply, dismiss | `BankLines` |
| `ledger/closing.ts` | fiscal closes | closeFiscalYear, reopenFiscalYear | planned |
| `mobile`: `outbox.ts`, `idempotency.ts`; `app/m/outbox-client.ts`, `app/api/mobile/v1/sync` | the phone's store, requests on their way, idempotency keys | queue, retry, abandon, drain; runOnce, prune | `PhoneQueue` |
| `billing`, `payables`, `payroll`, `timebilling`, `properties` | recurring invoices, pay runs | run once per period | planned |
| `drawer`, `pos`, `inventory`, `manufacturing`, `vehicles`, `funds` | shifts, stock layers, orders | see `PROJECT.json` | not modelled |
| reports, screens, auth, CRM content, parsing, presentation | — | read-only, wording or I/O | not modelled |

`PROJECT.json` lists every module directory of the application with its status and, when
it is left out, why.

### How they interact

* **Requests and the worker share only the database.** A request runs its statements on
  one transaction (or, in several places named under *hazards*, on the bare connection,
  one transaction per statement). The worker is a loop (`runForever`) or a cron tick
  (`worker-once.ts`, `app/api/cron`); any number run at once.
* **A tick** (`runOnce`) installs missing schedules, turns due schedules into jobs,
  relays events into jobs, claims a batch of jobs and runs it, in that order, and
  nothing in it is one transaction.
* **Events.** A domain transaction inserts into `domain_events` (`recordEvent`); the
  relay inserts one job per subscriber with a dedupe key and marks the event.
* **Subledgers post to the ledger.** `createInvoice`, `recordPayment`, bank posting and
  the rest call `createJournalEntry` on their own transaction; an entry with a source
  document may only be corrected through its document.
* **Bank lines** are imported by the sync job and decided about by people, on the web or
  from a phone. Each decision derives the line's journal entry anew; the feed may later
  revise or withdraw the line, and a reconciliation certifies it.
* **The phone** keeps decisions in a store of its own and sends them when it can, each
  under a key that is a row in the transaction of the work.
* **Card payments** call `recordPayment` from three places that race: the customer's
  return to the page, the action that sent them out, and the hourly sweep.

### What is hard

Claims that expire under a worker that is merely slow; outcomes that name a row by id
and not by holder; a crash between any two statements; read-then-insert with a unique
index that does not compare NULLs; a maximum read as the next number; a period checked
in one statement and relied on in a later one; balances written as values computed from
an unlocked read; a processor asked in one step and believed in another; a line checked
before the transaction that changes it; a feed that changes its mind about what the books
already carry; a store read, held across a network call and written back whole.
`PROJECT.json` lists these under `hazards`, each at its line, with the properties that
would notice it going wrong, or with the reason there is none yet.

### What makes each part correct

* *Queue*: nobody runs a row another worker is running (until a claim expires); a
  recorded success did happen; a handler runs again only for a reason that can be named;
  attempts are limited; a settled row stays settled; every row comes to rest.
* *Outbox*: a handler runs only for what happened; relayed means every subscriber has a
  job; every event reaches every subscriber or a place where a person sees that it did not.
* *Schedules*: no firing is passed over; none is early or for the past; due does not stay due.
* *Journal*: entry numbers are unique; subledger and ledger agree; closed days stand;
  posted history is only ever corrected, and once.
* *Settlement*: an invoice's balance is its total less what is posted against it.
* *Checkouts*: a charge reaches the books once; nothing is concluded that the processor
  has not said; a claim stands.
* *Bank lines*: the books carry a line at the figure it shows, and its money once; a
  completed reconciliation goes on adding up; what the bank said last is shown or waits
  for a person; undo reaches back through a person's changes.
* *Phone*: an operation is performed once, in the order decided, and does not leave the
  phone unperformed; every entry is performed or parked in the end.

## 2. The modules

```
EventDelivery                                             Settlement
     ^ implemented by                                          ^ extended by
   Outbox --extends--> JobQueue   Schedules   Journal      Checkouts     BankLines   PhoneQueue
     ^ proved in          ^           ^          ^             ^             ^            ^
     |                 JobRuns        |          |             |             |            |
     |                    ^           |          |             |             |            |
OutboxProofs  -->  JobQueueProofs  Schedules-  Journal-   Checkouts-    BankLines-   PhoneQueue-
                                   Proofs      Proofs      Proofs        Proofs       Proofs
                                                               \___ Sums ___/
```

Each `MC<Module>.tla` gives TLC a small instance of its module; each `.cfg` is one
question. Operators whose comment starts with MUTANT are not the code: each is a
plausible slip in the definition that follows it, kept to show that a property notices.

### JobQueue, JobRuns — `worker/queue.ts`, `runner.ts`, `backoff.ts`

`row` is the table, `claim[w][j]` the attempts value worker `w` was handed with row `j`
(zero: it holds none), `outcome[w]` what its handler has done and is not yet recorded.
`Claim` is the one SQL statement of `claimJobs` (due rows, queued or failed or expired,
best priority first, at most a batch). A handler's end and its record are separate
actions: `HandlerCommits`/`HandlerThrows`, then `RecordSuccess`/`RecordFailure`, with
`RecordSuccessErrors` for a `completeJob` that throws into the catch. `Crash` is a kill
at any point, or a tick abandoned because `failJob` itself threw. Time is what the code
compares it for: `due` is `run_at <= now`, `expired` is `locked_at` older than the claim
timeout; each may come true at any moment, so a slow worker needs no clock.
`done` and `stolen` are history. `JobRuns` extends it with one history variable, `spare`: the
commits of a row's handler there may still be, one to begin with and one more for each
excuse (a claim taken over after it expired, a success `completeJob` failed to write
down). It watches `JobQueue`'s steps and changes none. Left out: payloads, `run_at` as an order among equal
priorities (any order is allowed), and the handlers' own work.

### Outbox, EventDelivery — `worker/outbox.ts`

`Outbox` extends `JobQueue` with the domain transaction of each event, the relay's read,
one enqueue per subscriber and the mark, each a statement of its own, and the rest of the
tick. `EventDelivery` is the promise without tables or workers: causes commit, handlers
run only for committed causes. The refinement maps `happened` to the committed
transactions and `handled` to the keys of rows whose handler committed; every other step
is a stutter. The relay's limit of 100 events is not modelled. `Sweep` bounds pruning: a
row is swept only while another id is left to insert its key under, so a stalled relay
can insert a pruned key again. The instance TLC checks has one id per key, so nothing is
swept in it (a third id takes the run past its time); the theorems of `OutboxProofs` are
about any number of ids and cover the sweep.

### Schedules — `worker/schedules.ts`, `defaults.ts`

`sched` is the table, `jobs[i][f]` counts the jobs inserted for schedule `i`'s firing at
`f`. A tick reads what is missing, installs row by row, reads what is due, and enqueues
and advances row by row; `Advance` writes from the tick's own `now`, as the code does, so
a stalled worker can set a schedule back. A cadence is a period. Jobs are not pruned here,
so the dedupe key of a firing is never free again. `answered` is history: a tick that
advances a row after its firing has a job has answered for that firing and for those
missed since, up to the tick's `now`; so is `reset`, when a stale `ensureSchedules` put
the row back. What `answered` does not say is how old the job is: when a worker is killed
between the job and the advance and no tick follows for a while, the old job, run long ago
perhaps, stands in for the firings missed meanwhile, in the code as in the model.
`scenario` bounds how long the clock runs and how many kills and presses there are, so
that one run can go far in time or have many disturbances, and not both.

### Journal — `ledger/journal.ts`, `corrections*.ts`, `receivables/service.ts`

A request is a session that reads, may wait for the company's advisory lock, and
commits. The last read and the write-with-commit are separate actions; between them
others commit, and a session remembers in `lost` what was committed under it (`close`: a
period over its day; `entry`: a change to its entry). This lets a property say precisely
when the code keeps its promise. `correctEntry` decides outside any transaction, which
is why it has a `decided` stage. Merged: a row's read and its period check, and
`correctEntry`'s three reads. Left out: lines and amounts (an entry is its day, number,
status, document and what it reverses), dimensions, permissions and audit;
`voidDocument`'s balance guard (that is `Settlement`); and the callers that pass the bare
connection (listed as a hazard).

### Settlement, Checkouts — `receivables/service.ts`, `payment-voiding.ts`, `payments/service.ts`, `reconcile.ts`

`Settlement` is money against an invoice. Each request reads the invoice with no lock and
writes the balance it computed as a value; `stale` marks a request whose reading another
commit has overtaken, `damaged` the invoices written by one. One payment has one
application here; the ledger half, the period checks and the deposit and drawer ties of a
payment are left out. `Checkouts` extends it with the processor's record, the checkout
row and the four transactions of posting a captured charge: the claim, `recordPayment`
(actions of `Settlement`), the payment's id on the checkout, the fee's entry. Any
session may be killed anywhere, which stands for a statement that throws as well. The
row's read and the question to the processor are one action; the processor may answer
`unknown`. The sweep is the hourly job's (`Sweeper`) or a person's; its limit of 200 is not
modelled, and every charge has a fee.

### BankLines — `bookkeeping/transactions.ts`, `rules-engine.ts`, `ledger/posting.ts`, `banking/revision-service.ts`, `revisions.ts`, `reconciliation/service.ts`

`line` is the row (review state, whether it has a category, splits and their total,
transfer flag and pair, the figure it shows, its reconciliation); `posted` is the one
posted entry whose source is the line; `revision` is the log of what the feed said later;
`bank` is what it said last, which the code does not store. A decision is two actions:
`Begin…` reads and checks the rows (`loadEditableTransaction` and its like run before
`db.transaction`), `Commit…` writes without looking again, the ledger following in the same
transaction (`WriteAndSync`). The feed's handlers lock the row first and are one action; it
may say again what it said, and is decided again. What a person decides about a held
change is two: `loadHeld` reads the revision before the row's lock, and a dismissal takes
none, so two people may apply and dismiss one change.
`event` is the audit trail as undo sees it: the changes of one batch are one event, whose
snapshot may be full, partial (a rule's, a revision's) or absent (a dismissal's).
A figure stands for amount and date. A change of anything else the feed says (the
description, `pending`) is written onto the row whatever has been derived from it, and is
left out; the log's key has `pending` in it, so a figure said again with the flag changed is
logged again in the code and not here. `scenario` says which
operations, lines and how many audited changes a behaviour may have: nine combinations
in which the operations meet, instead of all of them over all lines, which TLC cannot
finish. History variables name the holes: `ruled`, `unpaired`, `moved`, `unsaid`.

Left out: which account or job a category names, notes and reasons (a note only leaves
its event), currencies and recorded rates, closed periods (`GiveUp` stands for every
refusal), permissions, matches to receivables and deposits, the beginning balance and
chain of sessions, rules created by `rememberVendor` and their undo. One request per
person. Pairs of transfers are made through the module's function; the screens of this
commit mark single legs only. The session is started once, so the race of two starts is
not in the model.

### PhoneQueue — `mobile/outbox.ts`, `idempotency.ts`, `app/m/outbox-client.ts`, `app/api/mobile/v1/sync/route.ts`

`queue` is the IndexedDB store. A tap (`queueOperation`, `retryParked`, `discardEntry`)
reads all of it, awaits, and writes all of it: `BeginQueue` or `BeginPress`, and the write.
Nothing holds a tap back while another is between the two: the deck's and the capture's
busy flags and the badge's are separate, and the badge's discard has none. `edit[h]` is what
hand `h` is doing and has read. The badge offers its buttons for the entries it has last
seen failed (`shown`), whatever has become of them. A drain reads the store
(`DrainStart`), marks and sends (`DrainSend`), and writes when the request ends:
`DrainAnswered` with a verdict per operation, `DrainFails` with none, `DrainRefused` for
the batch as a whole; or it does not write, when the body of a 200 is no JSON
(`DrainUnreadable`: nothing catches `response.json()`, and `draining` is reset). Taps and the one
drain interleave at every await; the flag `draining` is the page's own. `request` is the
server's side, one operation at a time with its two steps, the key's lookup and the
transaction; a request the phone has given up on may still run, be overtaken, or be lost.
The transaction that loses the race for a key is answered with the winner's result or
refused: `isUniqueViolation` looks for the error's own code, and the driver's error may
come wrapped. `Kill` ends what the app was doing. `gone`, `missed`, `crossed`, `unwritten` and `pruned` are
the history the properties need. Back-off is a set of entries a drain leaves out. The server
may refuse any operation it has not performed. Left out: two tabs, each with its own
`draining`; a write of IndexedDB that fails; payloads, so that a key reused for another
payload does not occur; `InFlightError`, which nothing raises while a key is inserted in
the transaction of its work.

## 3. The runs

| run | what it asks | bounds |
|---|---|---|
| `queue` | all the queue's safety properties, and that repeats of a handler are accounted for | 2 workers, 2 rows of different priority (the lower one of a kind with no handler), 2 attempts, batches of 2, one kill, two presses |
| `queue_out_of_attempts` (violated) | "a job out of attempts becomes dead rather than … retried forever" | 1 attempt, 2 kills |
| `outbox` | relayed means enqueued; refinement of `EventDelivery`; every event is dealt with; every row settles | 2 workers, one event with two subscribers (one of a kind with no handler), 2 attempts, one kill, one relay error; nothing is swept |
| `schedules` | no firing is passed over; firings are of the cadence; due is advanced; defaults are installed | 2 workers, one company and one global schedule, 3 ids; clock to 2 with a kill, or clock to 1 with a kill and a press |
| `journal` | numbers, documents, closed days, history, corrections | 2 requests, 3 entries, one document, two days, one closing |
| `journal_closed` (violated) | an entry dated inside a closed period cannot be created, changed or voided | the same |
| `checkouts` | charged once, nothing guessed, claims stand, balances | sweeper and 2 requests, one invoice of 2, 2 payments, one charge, one outage, one kill |
| `checkouts_expired` (violated) | "a processor's answer beats our own record every time" | one payment, no outages, no kills |
| `bank` | an entry stands for its line; money moves once; certificates and reconciled lines stand; the feed is heard | 2 people, 3 lines (two that leave the reconciled account, one that arrives in another), 2 figures, as often as the feed likes, one session, up to 3 audited changes, nine scenarios |
| `bank_undo` (violated) | no event that cannot be undone stands before changes that can | the same |
| `mobile` | performed once; in order; leaves only when done; nothing stranded; every entry settles | 2 operations on one line or two, 2 requests, 2 attempts, in four scenarios: two taps at once with a press and a kill; a kill and a pruned key; two lines and two taps at once with a pruned key; batches of one against two with a kill |
| `mobile_lost` (violated) | "parked, not dropped" | one tap at a time against a drain, no kill, no press |

Why these are enough. Each race in this code is between two actors over one row (two
claims, two relays, a request and a close, a return and the sweep), so two of each kind of
actor with one or two rows reach it; a third actor repeats a case already there. Attempts
of 2 distinguish "has attempts left" from "has used them". An invoice of two units has an
untouched, a partial and a paid state. Two days with a closing over one or both give a
reversal an open day and none. Three entries are an original, a correction and one more
correction, the shortest history in which correcting twice is possible. Two figures are
what a feed needs to revise a line and take the revision back; three lines are a pair and
a line that would be paired again; three audited changes are a decision, its withdrawal
(two events) or a decision, a note and an undo. Two operations are what supersedes,
overtakes or blocks another; two requests are one given up on and its retry; two taps are
what it takes to cross; the limit of fifty a batch is scaled to one against two. Workers,
web requests, journal sessions and people are symmetric and are declared so, but never in
a run with liveness. One kill at an arbitrary point covers a restart between any two
statements. `MaxCrashes`, `MaxKills`, `MaxPresses`, `MaxOutages`, `MaxRelayErrors`,
`MaxTime`, `MaxEvents`, `MaxOps`, `MaxHands`, `MaxRequests` and the `Scenarios` are the
bounds of otherwise unbounded repetition. Deadlock is checked in the journal's runs; the
others stop when ids, attempts, charges or the clock are used up.

**Fairness.** `OutboxFairSpec` and Schedules' `FairSpec` ask that a worker that is not killed
takes its next step and then ticks again (`runForever` sleeps and loops; the cron route
is called every minute) and that clocks run. Checkouts' `FairSpec` asks
that the sweeper finishes what it started, weakly, and that a checkout that is pending
again and again is asked about, strongly: the hourly job goes through every pending row.
Nobody has to press a button, return to a page or commit a transaction; the processor
need not be paid. `PhoneFairSpec` asks that awaits resolve and that the server works through
what reached it or loses it; and, strongly, that a drain is started with every back-off
over: the page drains every sixty seconds, when it becomes visible and when the network
returns, and the longest back-off is five minutes. An app killed for ever sends nothing:
the person opening it again is part of that assumption.

### What the violated runs show

1. `queue_out_of_attempts`: only `failJob` compares attempts with the limit; a job that
   kills its worker is claimed again whatever its count.
2. `journal_closed`: nothing orders `assertPeriodOpen` against `closePeriod`; an entry
   checked before a close commits after it.
3. `checkouts_expired`: the sweep asks about pending checkouts only; money taken after a
   checkout was written off as expired is never posted.
4. `mobile_lost`: a drain writes back the queue it read before its network call
   (`writeQueue` clears the store first); a decision queued meanwhile is neither sent nor
   kept.
5. `bank_undo`: `dismissRevision` audits the line with no snapshot; `undoLast` takes that
   event as the latest, passes over it and marks nothing, so undo has no effect from then
   on, though changes that can be undone wait behind it.

Seen while modelling, in no run of its own:

* `failJob` names the row by id: a slow worker's late failure puts back the row of the
  worker that now holds it under a fresh claim (`stolen` is the exception for it).
* The unique index of `job_schedules` does not compare NULL company ids: two workers' first
  ticks install each global schedule twice, and each row then fires (the properties are of
  one row each).
* A worker killed between a schedule's job and its advance leaves a row whose next advance
  takes that job, however old, for the firings missed since.
* A rule that read a line before somebody decided about it overwrites the decision and
  leaves the ledger as it was (`ruled`).
* Undo of one leg of a pair, or pairing a leg again, leaves the other leg's pairing and
  possibly its entry (`unpaired`).
* Undo of a revision that was applied has a snapshot of amount and date only, and resets
  the line to new and uncategorised; undo does not ask whether a line is reconciled.
* `setCleared` moves lines into and out of a session, and out of another one, while it is
  completed or being completed (`moved`). A reopened session can never be completed again,
  as `completeReconciliation` wants `in_progress`.
* A change of the feed is in the log once: a figure sent, taken back and sent again is
  not recorded the second time, whatever became of the first (`FeedIsHeard` exempts it),
  and a word that agrees with the line leaves an older held one to be applied (`unsaid`).
* Two people who have read one held change may apply and dismiss it: it is done, and
  reads as dismissed.
* An answer that cannot be read (a broken-off body, a captive portal's page with a 200)
  leaves its entries marked as being sent: `drainOutbox` throws, the service worker's
  caller swallows it, and nothing sends, parks or lets past such an entry again. A kill
  does the same, and a tap that puts back a store read before a drain's write
  (`unwritten`, `crossed` in `SendingIsBeingSent`).
* Taps that overlap wipe each other's entries as a drain does: a discard on the badge
  that read the store before a decision was queued writes it back without it (`missed`).
* `runOnce` knows a lost race for a key by the error's own `code`, while
  `drawer/service.ts:703` and `appointments/service.ts:296` look through `cause` for theirs:
  if the driver's error comes wrapped, an operation that was done is answered as refused
  and parked. Nothing is done twice either way.
* A decision sent, then superseded on the phone while its answer is outstanding, may reach
  the books after the one that replaced it (`InTheOrderDecided`).

The passing properties are stated with the exceptions these leave (`stolen`, `lost`,
`damaged`, `ruled`, `missed` and the others), so that what remains true is checked rather than dropped.

## 4. The proofs

Every safety property of every passing run, invariant or action property, is also a
theorem: it holds for every number of workers, rows, people, lines, requests and so on,
every bound, and every value of the other constants that the assumptions admit. So is the
refinement of `EventDelivery`. The assumptions are the named ASSUMEs of the modules (the
types of the constants, and null values that are not members of the sets they stand
outside of); TLC evaluates them on every run.

| module | theorems about | inductive invariant |
|---|---|---|
| `JobQueueProofs` | `JobQueue`: types, `HolderOwnsRow`, `ExclusiveUntilExpiry`, `SucceededMeansDone`, `AttemptsWithinLimit`, `SettledStaysSettled`; `JobRuns`: `RepeatsAreAccountedFor` | `TypeOK /\ Safe`, `AllCovered` |
| `OutboxProofs` | `Outbox`: types, the queue's `Safe` under the relay, `RelayedMeansEnqueued`, the refinement `DeliversOnlyWhatHappened` | `Kept` |
| `SchedulesProofs` | `Schedules`: types, `NoFiringIsPassedOver`, `FiringsAreOfTheCadence` | `TypeOK /\ Cadence /\ Answering` |
| `JournalProofs` | `Journal`: types, `NumberIsFree`, `DocumentsAgree`, `HistoryStands`, `CorrectedOnce`, `ClosedDaysStand` | `Kept` |
| `CheckoutsProofs` | `Settlement` and `Checkouts`: types, `NothingIsGuessed`, `ChargedOnce`, `ClaimStands`, `BalanceIsWhatIsLeft` | `Safe`, `Left` |
| `BankLinesProofs` | `BankLines`: types, `EntryStands`, `MoneyMovesOnce`, `CertificateStands`, `FeedIsHeard`, `ReconciledStands` | `Kept` |
| `PhoneQueueProofs` | `PhoneQueue`: types, `AtMostOnce`, `LeavesOnlyWhenDone`, `SendingIsBeingSent`, `InTheOrderDecided` | `Safe`, `Marks`, `Orderly` |
| `Sums` | lemmas about `MapThenSumSet` | — |

Each is laid out alike: lemmas about the operators, one lemma per action (or group of
actions that change the same variables) that it preserves the invariant, and the theorems
from those. Every inductive invariant was checked by TLC over the states of its run before
it was proved. What each needs beyond the properties:

**Queue.** No property is inductive alone. `HolderOwnsRow` is preserved by the record of
an outcome only because its worker still holds, in its own eyes, the row it is of
(`OutcomeIsOfHeldRow`, a part of `Safe`); from this `SucceededMeansDone` follows at
`RecordSuccess`, and `AttemptsWithinLimit` needs the claim's attempts to equal the row's at
`RecordFailure`, which is `HolderOwnsRow` again.
`SettledStaysSettled` is shown step by step: the only actions that write a status from a
claim need a held row, and one that was not stolen is running, not settled.
`RepeatsAreAccountedFor` is about stolen rows too and rests on a count (`Covered`): the workers
that may yet commit a row's handler, and the row itself while it can be claimed without
an excuse, are never more than `spare`. A claim moves one from the row to the worker, an
expired claim taken over adds a worker and an excuse, and a late outcome that puts the row
back for claiming ends a worker.

**Outbox.** The queue's lemmas are used as they are: a step of the whole is a step of
`JobQueue`, a kill, or leaves its variables alone. `Carried` adds that a batch holds
committed events only, that what is being fanned out has a row for every subscriber no
longer `left` (`Fanning`), and that every row was inserted for a committed event and a
subscriber of it (`RowsHaveHappened`). The refinement rests on the last: a handler that
commits runs a row that is there, so its event is in `happened`; the theorem shows each
step to be `Happen`, `Handle` or a stutter of `EventDelivery`.

**Schedules.** `Cadence`: the next run of a row, and whatever firing a tick has read and
still carries, is an instant of its cadence after the row was installed, and not after the
tick's clock, which is never ahead of time. It is what survives a stalled worker that sets
`next_run_at` back. `Answering`: whatever is due, or is read as due and still carried, has
nothing unanswered before it, and what is to be advanced has its job. An advance to the
instant after the tick's `now` then passes over nothing, as the tick's own firing and
those before it are answered and the job stands in for those up to `now`.

**Journal.** `Meets` and `Reads` are what a request still knows of what it read: `Meets`
holds whatever others commit (an entry once written stays; its document never changes),
`Reads` unless its `lost` says otherwise. The exceptions in the three action properties
are exactly `lost`, so each follows from `Reads` at the commit. `Numbered` says that the
request between its number and its insert holds the lock and its number is above all live
ones; it needs `Bounded` and `Finite`, as the number is a maximum. `DocumentsAgree` needs
`OwnDocument` and the second half of `Documented`: one entry per document.

**Checkouts.** `Safe` has the types; `AllFormed` (a request names rows that exist, and a
receipt about to be committed fits the balance it read, so what it writes is not negative
however stale); `Told` (whoever is about to claim, post, decline or write off was told so
by the processor, which does not change its mind) and `Once` (at most one request is past
the claim of a checkout; before it gets there nothing of the charge is in the books).
`ClaimStands` needs `Told`: the decline has no WHERE on the status, and is harmless only
because nobody is told of a decline of a charge that was taken. `Left` is for the
balances: a request that is not `stale` has read what the invoice has (`AllAbreast`),
posted payments are of something, and an invoice's are finitely many. What is received is
a sum over a set, so adding a payment or taking one away needs `SumAdd` and `SumRemove`.

**Bank lines.** A request writes without looking again, so half of `Kept` is about what
requests carry: rows they have read are rows, and nobody who is about to decide read a
reconciled one (`Asked`); a session being started is nobody else's (`Starting`). The other
half relates rows: `PairsHold` (whoever carries a pair's entry and names a leg is the leg
that leg names, and the leg has no entry of its own) is what makes `MoneyMovesOnce`
inductive; `Resolving` says that a change somebody is about to apply or dismiss was
written down, and stays so whatever becomes of it meanwhile; `Certificate` extends
`CertificateStands` to the session that is about to be completed, which has been found to
balance and is not looked at again; `Heard` says of the log what `FeedIsHeard` says of the
line, and survives later words of the bank.

**Phone.** `Safe`: in the store and in every copy of it an entry that waits has attempts
left (this bounds `attempts`); what was performed has its key or had it pruned; whatever
the store lacks of what was queued was performed, replaced, abandoned or wiped
(`Accounted`): a write can lack no more, as what its writer had not seen is in `missed`.
`Marks`: the awaited request still has every operation it has not answered for, so the
last write of a drain leaves no mark behind; a mark in the copy a drain has read was
crossed, or left by a drain that never wrote its last, already. `Orderly`: what is still
owed (queued, and not performed, given up or wiped) is in the store, for otherwise
`Accounted` would say where it went; so nothing is sent, is with the server or was
performed while an earlier one of its line is owed (`Past`), and what is not owed any more
never is again.

**Sums.** `MapThenSumSet` folds over a set by CHOOSE. The library's induction theorems
take an operator as a parameter, which the provers cannot instantiate; here each induction
is on a set of would-be counterexamples, of which a minimal one exists because strict
inclusion is well-founded on the subsets of a finite set. From this come the recursion,
the type, and that one element can be added or removed.

Checked by TLC only: liveness (`EveryRowSettles`, `EveryEventIsDealtWith`,
`DueIsAdvanced`, `EveryDefaultIsInstalled`, `EveryEntrySettles`), which needs fairness and
ENABLED, outside the prover's reach; and the five violated runs, each a counterexample. No
recursive definition is proved about; none is in the models. What the models leave out,
the proofs leave out as well: they are about these modules, and the map is what ties them
to the code.

## 5. Not modelled

`PROJECT.json` gives each part's reason. Four kinds: code with no state of its own to get
wrong (reports, screens, parsing, wording, PDF); callers of what is modelled (point of
sale, progress billing); state machines of single rows with nobody to race
(engagement, studio); and the parts planned below. Most of the application's lines are of
the first two kinds.

## 6. The plan

Done: `JobQueue`, `Outbox` over it, `Schedules`, `Journal`, `Settlement`, `Checkouts`,
`BankLines` and `PhoneQueue`, each with the proofs of its safety properties. In order, next:

1. Stronger theorems: the exceptions (`ruled`, `damaged`, `missed`, `crossed`, `lost`) related to
   what raises them, so that a behaviour without that step has the plain property; and an
   abstract specification of the phone's queue that `PhoneQueue` implements.
2. `Settlement` with bills, several applications per payment, credits and refunds; its
   ledger half composed with `Journal`; payouts in `Checkouts`.
3. The company's advisory lock and row locks in one module: the lock order of
   `bulkCategorize` against the other requests that take both.
4. `YearClose`: what `staleCloses` can see of changes after a close.
5. `Cadence`: `nextRunAt` as pure operators checked against a reference definition.
6. Recurring billing and pay runs: work that must be done once by a job that runs at
   least once.

New modules join existing runs or replace them: each run is one question, and two
questions about one state space are asked in one run.
