# Classroom Token Hub: a TLA+ model of the class economy

Classroom Token Hub is a Flask application over PostgreSQL in which a teacher runs a
classroom economy: students are paid, save, buy, pay rent and fines. This directory models
the parts of it that are hard to test: the money ledger under concurrent commands, the row
locks its writers take, the rent of a class from bill cycle to payment, hall passes and the
attendance log, payroll, the store with its entitlements and collective goals, insurance from
premium to claim, and the election of the one process that runs the scheduled jobs.

## The system

A request handler (`app/routes`) parses a form and enters a *FEAT*
(`app/feats/base.py: FEATContext`), which is exactly one database transaction. The FEAT
orchestrates *services* (`app/services`), each owner of some tables. Scheduled jobs
(`app/scheduled_tasks.py`) enter FEATs the same way, from whichever server process owns the
scheduler (`app/scheduler_ownership.py`). Processes share nothing but the database: they meet
in row locks (`SELECT ... FOR UPDATE`), unique indexes and the advisory lock of the scheduler.

| component | state | operations | meets others through |
|---|---|---|---|
| money ledger (`ledger_*_service`) | `ledger_transaction`, `ledger_command_reservation`, `ledger_balance_snapshot` | credit, transfer, charge with overdraft protection, fine, reversal, recovery, settlement | seat rows, class row, reservation index, posting sequence |
| FEAT context (`feats/base.py`) | thread-local stack, session transaction | enter, nest, commit, roll back | every other component runs inside one |
| hall passes (`hall_pass_request_*`, `prod.py`) | pending requests, pass log | submit, approve, reject, close prior day | seat rows, request rows, entitlements |
| attendance and payroll | tap log, intervals, payroll events, cycles | tap, invalidate, settle a cycle, correct | seat rows, class row, ledger credits |
| obligations and rent | `assessment_events`, `bill_cycles`, rent policies, PERK grants | succeed a cycle, assess, pay, waive, withdraw, grant and expire perks, terminate | seat and class rows, unique indexes, ledger charges, hourly job |
| store and entitlements | stock, grants, redemptions, collective goals | purchase, grant, redeem, expire and refund | ledger charges and reversals |
| insurance | policy versions, entitlements with premium lineages, claims | publish, buy, renew, continue, pay, lapse, cancel, expire, claim, decide | seat rows, the unique index of bill cycles, two jobs, ledger reservations |
| savings interest | interest periods | pay out a class | ledger credits, seat rows |
| identity and recovery | users, seats, claim generations, codes | claim, unclaim, bind, recover | class row and seat rows |
| scheduler ownership | advisory lock, session, scheduler | acquire, heartbeat, release | the one lock |
| audit lineage | hash chain and its head | append, verify | head row, after the class row |

What is hard about it: two commands of one student, a sweep and a teacher's batch interleave
at READ COMMITTED; clients retry; workers die between statements; previews are read long
before they are applied; several kinds of rows are locked by dozens of FEATs in an order
nothing enforces; the database may drop the session that owns the scheduler.
`PROJECT.json` lists each hazard at its line with the properties that cover it.

## Modules

| module | models | role |
|---|---|---|
| `Ledger` | the ledger services and the FEATs that call them | state machine and its properties |
| `AtomicLedger` | what the ledger promises | abstract specification: balances and a book of entries, each command one step |
| `MCLedger` | | commands of the `MCLedger*.cfg` runs |
| `LedgerProofs` | | theorems on `Ledger` |
| `LockOrder` | the `FOR UPDATE` order of the writers | state machine over lock programs |
| `MCLockOrder`, `LockOrderProofs` | | instances; theorems |
| `Obligations` | the tables of the Obligations domain and what is derived from them | state and pure operators |
| `RentObligations` | `reconcile_rent`, `pay_rent_bill`, waiving, saving settings, switching rent off and on | state machine and its properties, over `Obligations` |
| `MCRentObligations` | | policies, bills and amounts of the `MCRent*.cfg` runs |
| `RentProofs` | | theorems on `RentObligations` |
| `Attendance` | the attendance log of a seat, its writer's guards, the sweep's rows, interval derivation, the lifecycle of a pass | pure operators, no state |
| `HallPasses` | the pass entitlement, its request, its log and the attendance rows | state machine and its properties, over `Attendance` |
| `MCHallPasses`, `HallPassProofs` | | holders and queue of the instance; theorems |
| `Payroll` | taps, payroll runs, rulings on intervals | state machine and its properties, over `Attendance` |
| `MCPayroll`, `PayrollProofs` | | instances; theorems |
| `Store` | purchases, grants, use requests, decisions, reversals, collective goals | state machine and its properties |
| `MCStore`, `StoreProofs` | | products of the instance; theorems |
| `InsuranceCoverage` | policy versions, covers and their premium lineages, renewal, cancellation, expiry | state machine (actions only) |
| `Insurance` | claims on those covers; the whole of insurance and its properties | state machine and its properties, over `InsuranceCoverage` |
| `MCInsurance`, `InsuranceProofs` | | terms of the `MCInsurance*.cfg` runs; theorems |
| `SchedulerOwnership` | `scheduler_ownership.py` and the jobs' threads | state machine |
| `MCSchedulerOwnership`, `SchedulerOwnershipProofs` | | instances; theorem |

Operators whose comment begins with "Mutant of" are plausible bugs, used to show that a
property can fail; no specification refers to them.

### Ledger

One class economy, cents as integers. `rows`, `resv` and `snap` are the committed tables;
`buf` and `sbuf` are a transaction's uncommitted rows and snapshots, visible to it alone until
`Commit`. `seatLock`, `classLock` and `resLock` are the `FOR UPDATE` rows and the pending
insert in the reservation's unique index.

A command walks `Submit` (with the preview a teacher confirms, read without locks) ->
`LockSeat` once per seat in ascending order -> `LockClass` -> `Decide` (reads balances,
refuses or fixes its effects) -> `Reserve` -> `Write` (once per seat; allocates sequences) ->
`Commit`. Transfers and interest credits take the class row only when they allocate a
sequence, after `Reserve`; this is what `ClassFirst` tells apart. `Fail` is an
exception, a killed worker or a lost connection anywhere on the way. The same command may be
submitted again at any time, by any worker, so a retry can meet every stage of the first
attempt. The sweep (`SweepStart`, `SweepNext`, `Settle`) settles one seat per transaction. A balance is
read in one step, because the code reads snapshot and pending rows in one SQL statement
(`ledger_balance_query_service.py:78-125`); `SnapshotIsHistory` is about the rows between reads.

Abstractions. A *credit* stands for payroll, manual payment and interest; a *charge* for
purchase, rent, premium (`funded`, refused if not covered) and a fine (not refused).
The fine's per-seat idempotency keys are one key and the seat. Authorization, descriptions, currency formatting, audit records and
correlation ids carry no property and are left out. The overdraft fee effect is left out
because no caller passes a fee authority other than `NONE`. A posted credit stays the origin a
recovery names; the historical evidence of rows from older schemas is not modelled.
`TotalAmount` is a community fold; `SumAmounts` guards it with a type test (always true) so
that the prover can type it without induction.

`AtomicLedger` keeps only balances, the accepted commands and a book of their entries, of which
it knows what was recovered and what was reversed. The refinement mapping reads `bal` as the
available balance of the detailed state and `book` as its rows without their sequences, so
`ImplementsAtomicLedger` says that commands are linearizable: each takes effect once, at its
commit, on the balances committed before it, and settlement is invisible.

`LedgerAssumption` says of commands what their callers say: a credit or a charge is never typed
`Withdrawal` or `Deposit`, the types `ledger_transfer_service.py` gives the legs of a transfer, and a
charge that no balance has to cover is a `penalty` (fines are the one caller that does not ask for funds).

### LockOrder

A transaction is a *lock program*: the rows it locks in order. `Begin` picks one, `Acquire`
takes the next row (at once when it already holds it), `Commit` and `Rollback` free
everything. The programs (`SeatMoney`, `TeacherPenalty`, `VoidBatch`, `SavingsInterest`,
`PayrollCycle`, the hall-pass FEATs) are read off the code; `GoalExpiry` and `UnclaimSeat` are
those that break the order (see *Statements without a run*). The audit chain head, locked by audited
writers after the class row, would be one more row at the end of the order and is left out.

### Obligations and RentObligations

The clock stops at class-local midnights, the only instants the rent schedule resolves to. A
liability (`correlation_id`) is a triple: the seat, the number of its bill cycle, and 0 for the
rent or k for its k-th late fee. `Obligations` keeps the committed tables and the definitions
the code derives from them: what is owed, satisfied or withdrawn, when a lineage is due, which
period contains a day, how many late fees have accrued.

`RentObligations` is everything that writes those tables. Each is one READ COMMITTED
transaction, cut where another transaction can come in between:

- A reconciliation (`run`): `JobCheck` (the hourly job passes over a class whose rent is off),
  `Begin` (clock, feature and newest policy read once), the succession loop `Succeed` (dates of
  the successor) -> `Derive` (the lineage read again, the number) -> `InsertCycle` (unique index:
  wait, conflict or insert), then `ReadRoster` -> `InsertRent` -> `ExpirePerks` -> `GrantPerks` ->
  `ReadLateRent` -> `InsertFees` -> `RunCommit`. Conflicts and `SuccessionNotDueError` roll the run
  back; `RunAbort` is a failure from outside.
- A payment (`pay`): `PayRead` reads the bill before any lock, `PayLock` takes seat and class
  rows `FOR UPDATE` and screens the whole bill, `PaySlice` is `pay_rent` for one liability of the
  bill, `PayCommit` ends the FEAT. A failure *result* commits, only an exception rolls back.
- A waiver: `WaiveCheck`, then `WaiveInsert`. Disabling: `DisableRead` (inserts the feature row,
  reads which advance bills are untouched), then `DisableCommit`. `Enable`, `SaveSettings` (every
  save is a new policy row) and `Claim` are one step.

Every INSERT takes the class row in key-share mode through its foreign key; this, and not a lock
the rent code asks for, is what orders payments with reconciliations and disablements
(`ClassHeld`, `ClassShared`).

Abstractions. Dates are day numbers, and a policy's period, grace and preview are days; the
frequency arithmetic and time zones are left out. Only rent moves the seat's `funds`: the
ledger's own races are `Ledger`'s. The rows of one roster are inserted in one step. `MaxCycles`
stands for the loop's catch-up bound. Not in the model: termination of a lineage (`InsuranceCoverage` has it), voided
payments, the hall passes a perk turns into and their holding limits, unclaiming a seat,
`first_rent_due_date`, a policy whose grace period is left empty, and the replay identity of a succession
(each run of the job makes a new one).

### Attendance, HallPasses and Payroll

`Attendance` is what `attendance_service`, `attendance_writer_service` and
`hall_pass_status_service` compute from the rows of one seat, a set read in the order of their times
and, at one time, of their ids, since a row may be dated before rows already there:
whether a session is live, whether a row may be recorded (`RecordAllowed`), what recording
writes (`Recorded`: the due closure at the daily limit, the return of a pass still out, the row),
what the hourly sweep writes (`Swept`), the closed pairs and the open one
(`list_attendance_intervals`), and where a pass stands. An instant is a natural number and a day
is `DayLength` of them.

`HallPasses` holds the five tables that a pass passes through: `granted` and `terminal` (the
`GRANTED`, and the `REVOKED` or `EXPIRED`, entitlement events), `requests`, `uses` (the pass
log) and `log` (attendance). Whether a pass has ended is derived from two of them and no index spans
both. Every route reads before the FEAT it calls takes the seat lock, so it is two
actions: `Check...` puts what it read into `inflight`, and the FEAT
(`submit_hall_pass_request`, `approve_hall_pass_request`, `record_attendance_session`) is the
locked transaction that runs on whatever is true by then. Removal, reversal, expiry, rejection,
close of day and the sweep are one locked transaction each. A row carries any time between the route's
reading and the lock, so it may be dated before rows that were recorded meanwhile. The clock moves
within a day as well as to the next. Of a request and of an issued pass only the day is ever read, and
only the day is kept.

`Payroll` keeps the same log with the events that pay it. A run is `run_automatic_payroll_job`
or `run_payroll` (the boundary and the replay guard are read) and later
`complete_payroll_cycle`: close due sessions as of the boundary, refuse on evidence that no
longer matches, pay each seat its unpaid pairs, anchor the key. Nothing says "paid": it is derived
from the pairs frozen in the events recorded up to the reader's own instant. The teacher's ruling
on an interval is a preview and, later, the FEAT that takes it again under the locks.

Attendance is two steps there, as in the code. `handle_tap`, `checkout_hall_pass`,
`checkin_hall_pass` and `enforce_daily_limits_job` check the seat, and the clock is read before
`lock_attendance_seat` is waited for (`attendance_writer_service.py:131-159`): they put a handler into
`inflight`, together with the instant since which it runs. `record_attendance_session` and `SweepSeat` are
what it does under the lock, as of any instant since then (`ReadAt`): the guards of the log are taken
again on the rows of that moment, and the row may land behind rows of taps, sweeps and runs that
committed in the meantime, runs that have already paid them included.

Abstractions. One destination, which consumes a pass, in the hall-pass instance; issuing a
non-consuming log writes no pass id and is left to the last section of *Runs*. In `Payroll` a pass
belongs to its `Holder` and has been issued, the sweep commits each seat by itself, the amounts are left
out and so are legacy intervals and
the recovery of an interval already paid (the money of that recovery is `Ledger`'s). Instants are
never the first of a day, so that "at midnight" and "after midnight" do not fall together.

### Store

A lot is one purchase correlation: its charge (`money`) and the units it granted (`ends`), or a
teacher's grant that cost nothing. A purchase holds the seat row from `PurchaseBegin`, where
everything it decides is read, to `PurchaseCommit` or `PurchaseRefused` (overdue rent, too
little money or a failure: the choice is free, the reasons are other modules'). A use request is three
steps, `CheckUse`, `CountAttempts` and `execute_use_item_request`, because the route's check,
its count of attempts and the insert are three reads of a moving table. A decision is loaded by
the route and made by the FEAT, which locks the request again (`StillWaiting`). A reversal
(`ReversePurchase`) and an issue's refund (`RefundPurchase`) share the gate
`lock_and_resolve_purchase_eligibility`. The goal job counts (`SweepCount`), loads the open
buy-ins (`SweepLoad`), and then refunds and expires them one seat after the other in one
transaction, or fails as a whole (`SweepRollback`).

Abstractions. Prices, discounts and bundles are left out; a whole-class goal's target is a
constant (`Target`). Editing and hiding products, rent perks (`RentObligations`), the
FEAT of items used on the spot, the replay of a purchase (`Ledger`) and insurance are left out.

### InsuranceCoverage and Insurance

One student's insurance in a class. A *cover* is an `INSURANCE` entitlement with its premium
lineage `insurance:{entitlement_id}`: one bill cycle, one premium and one coverage period are one
record of `cycles`; the terminal bill cycle is `stop` and the `EXPIRED` event is `ended`.
`versions` holds the availability of each version the teacher has published.

- A purchase and a premium payment hold the seat row from their first read, so each is one action.
- The renewal (`run`) reads clock and entitlement (`RenewBegin`), waits for the seat
  (`RenewLock`), and turns the loop of `renew_insurance_coverage` on its own uncommitted copy
  (`draft`): `RenewRead` reads the eligibility; then exactly one of `Lapse`, `NotDue`, `Continue` (a
  new cover under the edited version, with which the loop goes on), `StopRenewal`, `RenewCycle` or
  `RenewRefused`, and in the end `RenewCommit`. `RenewAbort` is a failure or a crash.
- A cancellation locks nothing. `CancelRead` takes the latest cycle and the termination instant,
  `CancelWithdraw` reads what is untouched after it, and `CancelCommit` writes, unless another row has
  taken the number of its terminal one (`LineageMoved`). What orders it with a renewal is the seat
  row's key-share lock of a WITHDRAWN row and the unique index (`MayInsert`).
- `run_insurance_expiry_job` expires one cover whose `stop` has come, on any later day.
- Filing is `FileRead` (all the checks, under the lock of the GRANTED row) and `create_claim`,
  whose foreign key waits for the seat. A decision reads (`ApproveRead`, `RejectRead`) and commits later on
  a status it does not read again; two approvals meet in the ledger reservation of the claim
  (`Credited`, `ApproveRefused`).

Abstractions. Instants are class-local days; cadences are a number of days, anchored at the
purchase. Only the newest version is edited, hidden or retired, because the older ones are
retired by the edit and nothing reads them but `has_active_coverage_in_group`, for which every version is of
one group (`Grouped`). One renewal, one cancellation and one filing are in flight. A loss is a debit of
the student's that may be reversed; the other reasons an item ceases to be a loss are the same
guard. Not in the model: PRODUCTIVITY claims, the filing window (a teacher may override it), exact
replays of a purchase, a payment or a claim (`Ledger` has them for money), the class row that a
purchase also takes.

### SchedulerOwnership

Every server process runs `_ownership_loop`: `TryAcquire`, `InitScheduledTasks` (or
`InitFails`), `Heartbeat` (or `HeartbeatFails`), `Shutdown`, `Close`. `StartJob` and
`FinishJob` are its APScheduler threads. `DropSession` is the database losing the session and
with it the lock, while the process still believes it owns it; `Crash` and `Restart` are the
server's. Releasing has the two steps of the code: wait for the jobs, then close.

## Runs

| run | question | states |
|---|---|---|
| `ledger_spend` | can racing, retried, conflicting commands double-spend or duplicate; does every effect post and every command end? | 17,550 |
| `ledger_correct` | can corrections of one paycheck together exceed it; does settlement leave history intact; is it linearizable? | 132,080 |
| `locks` | can the ordered writers deadlock; do they end? | 16,754 |
| `scheduler` | can jobs of two processes overlap; do the jobs come back? | 9,336 |
| `rent_pay` | do overlapping reconciliations bill a seat twice or on other terms than the cycle's; can racing, repeated and partial payments overpay a bill or keep perks too long? | 1,246,456 |
| `rent_toggle` | does switching rent off and on withdraw paid bills, charge withdrawn ones or give perks too early; has every claimed seat a bill that stands while rent is on, but where switching rent off withdrew it? | 165,338 |
| `hall_passes` | can a pass end twice, be taken from a waiting request, exceed the queue, come back to life or outlive its day? | 374,530 |
| `payroll` | can runs side by side, with taps and sweeps that land late, pay a session or an instant twice, skip or repeat a payday, lose the evidence they froze, or ignore a ruling? | 384,866 |
| `store` | do money and item end together; do limits and decisions hold; is an unmet goal refunded and a met one left alone? | 484,852 |
| `insurance_cover` | are two covers ever in force at once; do continuations abut; does what is stopped stay stopped and owe nothing; does unpaid cover end? | 108,740 |
| `insurance_claims` | can two decisions of one claim pay it twice or write an amount that was not paid? | 1,247,145 |
| `payroll_late` (violation) | and when a run commits before another whose boundary is earlier? | |

**Bounds.** Ledger and locks: two seats and two workers (three sessions in `locks`), as every
conflict in this code is between two commands, or a command and the sweep, on one seat, or
between two seats locked in different orders. `ledger_spend` has one seat: its liveness does not say that
a sweep that fails on one seat goes on with the next. Commands are few and chosen so that their sum
exceeds the balance (`SpendCommands`), and that four corrections meet one credit while a fine
over both seats is previewed before and applied after them (`CorrectionCommands`). Each may be submitted any
number of times; the reservation makes the state space finite. `MaxFailures` (rollbacks) and
`MaxFaults` (crashes, drops, failed heartbeats) bound the environment's faults; one rollback
suffices for a partial failure at each point, as the point is free; it happens in `ledger_spend`, while
`ledger_correct`, which has many more commands, fails none. Workers and runs are
symmetric in the safety runs that say so; liveness runs use no symmetry.

Rent: one seat, since liabilities of two seats share nothing but the class row. `rent_pay` has two
reconciliations, which is what a change of scheduler owner can make overlap, and two payment forms of
the same amount, which pays the rent and a part of its fee, each submitted up to `MaxTries` times; two together
exceed the bill. As the forms are alike, they are symmetric, and so are the runs (`RentSymmetry`). The teacher moves from daily
rent to periods of two days with a preview day. In `rent_toggle` one run and one form, submitted twice, meet
a waiver and at most `MaxToggles` switches, with periods of two days assessed a day ahead. Three days
(`MaxTime = 2`) hold an assessment in advance, a boundary, a grace boundary, a late fee and an ended
period. A transaction spans at most one
midnight (`NoneOverdue`). The policies of the runs leave one day of grace; on those of `rent_toggle` with
none (`NoGrace`) all its properties hold too. There a disablement that reads before a midnight and
commits after it races a late fee of the period that began at that midnight: `NoFeeOnWithdrawn` excepts a
bill without grace that was switched off on its period's first day, and nothing else. `RosterBilled` excepts a bill
that switching rent off withdrew before its period: the code never makes it again. `rent_toggle` fails one run or transaction; `rent_pay` fails none, as a failure leaves
nothing behind. `CyclesNumberedOnce` (proved) holds on `MCRentPay` without `SYMMETRY` and with `Payments = {}`,
`Asked <- WholeBill`, `MaxCycles = 3`, `MaxTime = 3`; `PeriodsAbut` and `FundsCovered` hold on it with
`Runs = {r1}`; see below for two.

Hall passes: two students on one queue slot, three passes of the three ways to acquire one, two
requests and two issued passes, three rows of the first student (arrive, leave, come back) and one of
the second, who only competes for the queue, two handlers in flight, and one instant of each
of two days: enough for a stale handler of one pass to meet the other, for a row dated before
one already recorded, and for a pass left out overnight. Two instants of one day are in `payroll`.
Payroll: one seat, because seats share only the run and its key (the proofs cover any number);
two workers, one manual token, a hall pass, two paydays, a daily limit of two instants, three rows by
taps (closures by the sweep and by runs come on top), and one handler at a time between its reads and its lock, started up to
`LastStart`: it is enough that a tap dated before the limit lands after a run closed and paid the
session at the limit, and that a sweep read days earlier lands then. `InstantsPaidOnce` and
`EvidenceStaysProvable` also hold with two handlers in flight, four rows, one worker and `LastInstant = 5`. Store: one product of
each kind that matters, a goal both students must join, two lots, one request, two handlers in
flight; two lots suffice because a lot meets another only through a holding limit, a goal's count
or the sweep. A seat may hold one item and two passes, so that a second purchase of the one, and a third
grant or purchase of the other, meets its limit.

Insurance: two versions of a policy with a period of two days, a preview day, a deadline of one day
and, in the second, a waiting day; five days, so that two renewals, a lapse, a continuation and a job
running days late all fit; two purchases, of which the second competes with a continuation; money for two
premiums; and one renewal that crashes. That run has no losses and files no
claim. `insurance_claims` has one version with a period of three days, two losses whose refunds
together exceed the cap, and two requests that decide; there the
student can be short of a premium because of a loss.

Deadlock is checked in the ledger, lock and scheduler runs. In the others the clock, the commands
or the tables are used up and then the system may stop.

**Fairness.** Ledger and locks: strong fairness of each process's step, because a contended row
lock or unique-index wait is granted in queue order by PostgreSQL; the scheduler keeps starting
the sweep every few minutes (weak). `SchedulerOwnership`: the loop thread and the job threads run
(weak), and nothing is assumed of crashes or dropped sessions except their bound. Rent: days go
by, the job fires every hour (`JobCheck`) and the steps of runs and payments, which queue for
rows, are strongly fair; a disablement that has read commits (weak). Store: a purchase that holds a seat ends, as a
request does (weak); the job visits every lapsed goal each hour, and a sweep's lock requests are
queued, so it is not overtaken for ever (strong). `Insurance`: days go by and a renewal that has begun ends (weak); the hourly renewal visits
every cover in turn and the daily expiry every stopped one, and a row lock they wait for is granted in
queue order (strong, per cover). `HallPasses` and `Payroll` state safety only. No client is assumed to
retry, no student to pay and no teacher to act.

**Finding.** `payroll_late`: a run takes its boundary before it waits for the seat locks and
counts as paid only what was recorded at or before that boundary. A run whose boundary is
earlier but which gets the locks later does not see the other run's events and pays the same
sessions again; from then on the pair is named by two events, which every later settlement of
the class refuses. `InstantsPaidOnce` shows that this order is the only
way to pay twice: as long as runs settle in the order of their boundaries, it holds, whatever rows
land late. It is not the only way to lose evidence: see `EvidenceAlwaysProvable` below.

**Statements without a run.** The modules also state the following, which the documents or
comments say and the code does not keep. TLC finds the counterexample when the
property replaces those of the configuration named, without its `SYMMETRY` and with the changes given:

| property | configuration | what the code does |
|---|---|---|
| `NoCircularWait` | `MCLockOrder`, `Writers <- WithGoalExpiry` | goal expiry reverses purchases of several seats without locking the seats first and deadlocks with a writer of such a seat; PostgreSQL aborts one of the two |
| `NoCircularWait` | `MCLockOrder`, `Writers <- WithUnclaim` | unclaiming takes the class row before the seat |
| `TransferReversalsBalance` | `MCLedgerSpend`, `LegKeys`, `LegCommands`, `Spec` | one leg of a transfer is reversed alone |
| `ReplayNeverCharges` | `MCRentPay`, `MaxCycles = 1`, `Payments = {p1}` | a pay form submitted twice, when its first submission paid exactly the rent and a late fee is owed, pays the fee too, under the same nonce |
| `RefusalPaysNothing` | the same, `Terms <- InFull`, `Asked <- AskThree`, `Runs = {r1}`, `MaxTime = 3` | a later slice refused with `PARTIAL_NOT_ALLOWED` leaves the earlier ones charged |
| `WaivedOnce` | the same as `ReplayNeverCharges`, `Waivers = {w1, w2}` | two requests record two WAIVED rows |
| `PerksEnd` | `MCRentToggle`, `Terms <- DailyAhead`, `MaxCycles = 3`, `MaxTries = 1`, `Waivers = {}` (it holds with `MaxToggles = 0` added) | the hourly job passes over a class whose rent is off, so what `reconcile_rent` does "whether enabled or not" is never reached |
| `NothingFollowsWithdrawal` | `MCRentToggle` | a waiver that looked first is recorded after the withdrawal |
| `PerksGrantedOnce` | `MCRentToggle`, `Spec`, `Runs = {r1, r2}`, `Waivers = {}`, `MaxFailures = 0` | two runs both grant perks paid for in advance |
| `NoRentSurvivesDisable` | `MCRentToggle` | a run that began before the disablement assesses after it |
| `EverythingWhereYouLeftIt` | `MCRentToggle` | "Turn it back on and everything is where you left it" (`docs/user-guides/features/teacher/settings/economy-features.md:88`; `:91` adds that bills already issued are not cancelled): switching rent off withdraws the untouched bills of periods ahead, and `check_idempotency_assessment` (`obligations_service.py:643-662`) counts a withdrawn assessment, so a student is never billed for that period |
| `PeriodsAbut` | `MCRentPay`, `MaxCycles = 3`, `MaxTime = 3`, `Payments = {}`, `Asked <- WholeBill` | dates from one read and number from another: two runs around an assessment point bill one period twice |
| `LeavesOnce` | `MCHallPasses`, `DayLength = 3`, `Seats = {s1}`, `Passes = {p1}`, `Mechanisms = {"self", "teacher"}`, four rows, `LastInstant = 1`, `InitialGrants` holding `p1` alone | the exit of a pass is checked before the seat lock: two checkouts in flight, with a return between them, record two exits of one pass |
| `EveryPassCloses` | the same, `Mechanisms = {"teacher"}`, three rows, `LastInstant = 4` | "close every open pass of this seat whose day has ended" (`attendance_writer_service.py:77-81`): a return whose time was read before an exit committed is recorded after it and dated before it; an active row then names the pass, so the sweep passes over it, and it reads as left for ever |
| `EvidenceAlwaysProvable` | `MCPayroll` | a tap reads the clock before it waits for the seat's lock (`attendance_writer_service.py:131-159`): dated before a session's limit, it lands after a run closed the session at the limit and paid it; the scan then pairs the session with the tap, the frozen pair is gone and every later settlement of the class is refused |
| `OneRequestPerItem` | `MCStore`, `Spec`, `MaxRequests = 2` | the pending check and the count of attempts are two reads: a request that commits between them lets a second one in under the next key |
| `NoBuyInStranded` | `MCStore`, `Spec`, `Withdrawable = {}` | a purchase that read the deadline before it passed commits after the sweep, and the retired goal is never visited again |
| `FiledStaysAdjudicable` | `MCInsuranceClaims`, `MaxTime = 5`, `MaxClaims = 1`, `Decisions = {d1}` | "A claim filed while the entitlement was usable remains adjudicable after a later lapse, expiry, nonpayment, or termination" (`docs/FEATURE-EXECUTION/FEAT-STOR-003_INSURANCE_CLAIM_LIFECYCLE.md:134`): a premium paid while its cancellation is being committed, or after its deadline but before the late job, makes the cover usable; the cancellation or the job then stops the lineage at an earlier instant, and `_period_for_claim` no longer finds the period the claim was filed in |

Further differences found while reading, too small for a property: a goal that is met between the
job's count and its commit is refunded anyway; a pass log of a destination that consumes nothing
carries no pass id, so its holder can never be checked out and it keeps its queue slot all day;
a pass of an earlier day can still be left by a route that checked before
midnight; a session tapped closed after the limit and before the sweep is paid past the limit. In insurance: a cancellation whose
instant was computed before the next premium was paid ends the cover before the paid period; a
late renewal may pay a premium automatically and lapse the cover at an earlier deadline in the same transaction;
a rejection that commits after an approval leaves a paid claim that reads REJECTED, and one that is
read REJECTED can be filed again; two approvals of different claims in flight may
together pay more than the cap of the period; a cover whose cancellation commits between
two reads of its renewal may be continued under the edited version all the same; without a tier group an edited policy may be
held in both versions.

## Proofs

Every safety invariant and action property the passing runs check but `EvidenceStaysProvable` is a
theorem, for all constants
that satisfy the modules' assumptions (`NoCircularWait` for programs that are `Ordered`), and so is the type invariant `TypeOK` of each module that
states one: no run asks for it, and TLC confirmed it on the constants of `MCLedgerCorrect`, `MCLockOrder`,
`MCSchedulerOwnership`, `MCRentPay`, `MCHallPasses`, `MCPayroll` and `MCStore` before it was proved. Other
theorems about properties no run asks for, confirmed in the same way: `AppendOnly`,
`AvailableIsHistory`, `TransfersBalance`, `OnlyForcedDebitsOverdraw` (on the constants of
`MCLedgerCorrect`), `CyclesNumberedOnce` and `FundsNeverOverspent` (`MCRentPay`), `PaidOnceInOrder` (`MCPayroll`), which
`InstantsPaidOnce` implies there but which, unlike it, holds of any pairing of the rows. `UnguardedSchedulerStops` holds on the constants of `MCSchedulerOwnership`.

**Ledger.** `LedgerProofs` holds for any seats, workers, keys, commands and failure bound. Almost
nothing it proves is inductive, as each property speaks of committed tables and a commit copies
what a process wrote long before. Five invariants say what is true of a command under way, each
resting on the ones before it:

- `LedgerInv`, for type correctness, `SnapshotIsHistory` and `AppendOnly`. `ClassHeld`: a process that
  writes or commits holds the class row, and one whose command takes it first holds it while
  deciding and reserving too. `SequencesGapless`: committed sequences are 1..n and a
  writer's uncommitted ones follow. `CursorsBehind`, `SettlementsRight`: a cursor is 0 or the
  sequence of a committed row; an uncommitted snapshot equals the rebuild and is ahead of the old
  one. `JobsRun`, `ReservationsOwned`, `BuffersOwned`: who may have what. Seat locks are not
  needed: the class row alone protects sequences and snapshots.
- `OnceInv`, for `ExactlyOnce`. `KeysReserved`: the pending insert in the unique index belongs to the
  process whose command has the key, and the key is not accepted yet. `PlansCarriedOut`,
  `BuffersUnique`: each seat's effects are planned, then written all at once, under that key.
- `CapInv`, for `CompensationCapped`. Now the seat locks matter (`SeatsHeld`): a correction fits in
  what is left of its credit when it is decided, and `CorrectionsFit` keeps that true until
  it commits, because another correction of the same credit would need the same seat.
- `DecisionInv`: what a command decided stands. `Agrees` says that what is still planned and what
  is already written are together the effects the command would be given if it decided again
  at this instant; every step of another process leaves them so.
- `RefinementInv` is all of these with `AvailableIsHistory` and `CorrectionsVisible`.

From the last, `LedgerIsAtomic`: initial states map to initial states; a commit maps to the step
of `AtomicLedger` that takes the command's effects on the balances of that instant, and every other
step, settlement included, to a stutter. `TransfersStayBalanced` and `OverdraftsAreForced`
follow from the same account of a commit: the rows it adds are the command's effects. The
sums are those of the community fold, a recursive function over finite sets; that it exists and
that it splits is proved from a least counterexample on cardinality (`TotalAdd`, `TotalUnion`).

**Locks and scheduler.** `LockOrderProofs` proves that sessions whose programs are `Ordered` never wait in a circle, for
any number of them. `LockInv` says that a session holds only rows it has
passed in its program; in a circle each session wants a row `Before` the next one's, and a
measure on rows (`Distance`) with the well-foundedness of the naturals rules that out. A second
theorem shows that the programs of the FEATs are ordered for any seats.

`SchedulerOwnershipProofs` proves `JobsNeverOverlap` from `Guarded`: a process that may run a
job holds the lock or had its session dropped, one without a connection runs nothing.

**Rent.** `RentProofs` holds for any seats, saved policies, overlapping runs, payments, waivers and
failures. `RentInv`, for `CyclesNumberedOnce`, `AssessedOnce` and `BilledOnFrozenTerms`, says what is
true of rows that runs have inserted and not committed:

- `SuccessorsNumbered`: they continue the committed lineage, and at most one run has any, because
  the others wait in the unique index on the cycle number;
- `NumbersCurrent`: a run about to insert a successor has a number that is the next one or one
  that is already taken, in which case the run rolls back; once a run has inserted a
  successor nobody else can commit one, so its further numbers are exact;
- `AssessmentsFrozen`: what a run assesses lies in the lineage it sees, on that cycle's terms;
  other runs' commits only extend that lineage at its end;
- `AssessmentsNew`: what a run has inserted is neither committed nor inserted by another run.

`PayInv`, for `SliceChargedOnce`, `NeverOverpaid` and `PaidNeverWithdrawn`, is about money under way.
`PaysAlone`: a payment holds the class row alone. `CommandsSound`: each debit about to commit is its command's
only one for an assessed liability and fits in what is unpaid of it; the slices are of different
liabilities. `WithdrawalsUntouched`: what a disablement is about to withdraw has not been paid.
`TablesGrow` carries an assessment's amount and cycle across every step.

`PerkInv`, for `PerksEarned`, `PerksLastTheirPeriod` and `NoFeeOnWithdrawn`, is about the dates.
`RunsSound`: what a run has decided to assess as a late fee is past its grace by the run's own
clock, what it grants was earned, what it expires had ended; `FeesLate`, `GrantsEarned` and
`ExpiriesEnded` say the same of the tables. A late fee and the withdrawal of its rent meet in
`OffTheDayItWasDue`: a fee is assessed after the grace of its bill, a withdrawal is of bills whose period had
not begun when the disablement read, and only a single midnight can pass before the disablement commits. So the two
can only be of one bill if its grace ends where its period begins and the disablement is dated at
that instant. `rent_schedule_service.py:205-216` allows such a bill.

`CoverInv`, for `FundsNeverOverspent`, follows the money of a payment from slice to slice. `Covered` says
that its debits add up to no more than the seat's cash while it holds the class row, that no debit
exceeds what was asked of its slice, and that the budget left is not negative. The last needs the one
before it: a replayed slice takes the earlier debit off the budget, not what is asked now, and
`replay_reserved_charge` only accepts it when the two requests are the same. `PaysAlone` keeps
another command from spending the cash in between; the sums are folds again (`TotalAdd`).
`FundsNeverOverspent` is about rent alone: nothing else of the economy spends in that module.
`RentTypes` assumes that the class has a student.

TLC checks `CoverInv` on the constants of `MCRentPay`, `RentInv` there too with `Payments = {}`, the others on those of
`MCRentToggle`; the proofs have one lemma per action that can disturb a part, and one for the others.

**Hall passes and payroll.** `HallPassProofs` holds for any students, passes, settings and bounds.
`PassInv`, for `EndsOnce` and `ReservedPassStays`, is `TablesTyped` and `SubmissionsTyped` (what a
handler in flight carries is a seat and a row of its own kind), `UsedOnce` and `NotBoth` (the
halves of `EndsOnce`: at most one log; never a log and a terminal event) and `ReservedPassStays`
itself, on which `UsedOnce` rests: an approval logs the pass its request names, which is unused
because nobody ends a reserved pass.

The other three rest on the attendance rows only ever being added to. `RecordedAdds` and `SweptAdds`
say it of what recording and the sweep write, which may lie in the past, and `RowsGrow` of every
step; a status is read off which rows name the pass, not off the latest, so it only goes forward
(`StatusForward`, for `LifecycleForward`). `QueueInv`, for `QueueRespected`, adds that a pass was issued
no later than today, so that the passes an approval counts are those the property counts
(`QueuedAreOut`), and `QueuedStep` says that no step but an approval adds to them. `RowsInv`,
for `DayEndsThePass`, adds that the logs are finite and their times and ids are numbers: then a
sweep that changes nothing found no hanging exit (`NothingHangs`), and an exit that does not
hang has a row that brings its pass back (`NamedIsBack`), unless that row is dated before the exit.
The property names that exception, `EveryPassCloses` does without it and fails. `TypeInv` adds what
recording and the sweep write and what a handler holds between its check and its commit.

`PayrollProofs` holds for any seats, workers, tokens and log. `PayInv`, for `PaidOnceInOrder` and
`PaydaysInTurn`, adds `EventsSound` (an event is not ahead of the clock, and the key of its run is
done) and `RunsSound` (what a run read is an instant gone by and, if it is scheduled, the first
payday or one that follows a settled one). The step that matters is a run that settles: if the
appended events keep the order of boundaries, every earlier event is at or before its boundary
and so among the ones it subtracts; and a payday that another run settled meanwhile has its key
done, so the completion refuses. Both hold of any pairing of the rows.

`RulingHonoured` does not: run and ruling name a pair by the ids of its rows, so it matters that the
scan never returns two pairs that differ and bear the same ids. `RulingInv` says that each
row has an id of its own, at most the number of rows; the sweep, which writes several rows at once,
numbers them by rank (`Ranks`, `NumberedRows`, `AddRows`). The scan is a recursive function over the
rows in order; that it exists and is unique is proved from a least counterexample, and
`ScanKeeps` carries from row to row that every pair it has closed is witnessed by two rows
(`Witnessed`), whose ids therefore determine it (`ClosedByIds`). A ruling looks again under
the locks whether its pair has been paid, and a run leaves out the pairs that are ruled out.

`NoInstantPaidTwice` needs no order of the rows at all, which is what lets it stand while taps and sweeps
land late. Its argument is about one reading of a log, whatever its rows: the scan goes through them in the
order of their times, holds at most one session open and closes it no later than the row at which the
next begins, so the closed pairs of one reading lie apart. That is an invariant along the scan (`ScanApart`,
kept by `ScanKeepsApart`, case by case in `ScanCases`), with `LastIsLatest` for the order of the rows read; `ClosedApart` says it of
`list_attendance_intervals`. A run that pays a seat has refused any evidence it cannot find, so everything
paid up to its boundary is among the closed pairs of its reading, next to the ones it adds (`RunReads`): old and new pairs lie
apart, and so do the new ones. In boundary order nothing is paid beyond that boundary (`SettleInstants`).

The same proofs cover the handlers in flight: `HandlersSound` says what they carry, `HandlerLands` what they
may write at any instant since they started, and `RowsSound` survives it, because ids are given under
the lock.

`EvidenceStaysProvable` is only model-checked. It says that the scan still returns a frozen pair after
whatever has been recorded since, closures the sweep dates to a midnight included, as long as
the other rows of the seat landed in the order of their times (`LandedInOrder`). Without that
condition it fails, as listed above.

**Store.** `StoreProofs` holds for any students, products, limits and requests. `StoreInv`, for
`TypeOK`, `MoneyFollowsItem` and `DecidedOnce`, adds what the handlers in flight rely on:
`InFlightKnown` (they name entitlements that were granted and requests that were made),
`SweepKnown` (so does what the sweep loaded), `PurchasesTyped`, `WonTyped`, and `WaitingUndecided` (a request
that still waits has not been decided). `LotsMove` says how a step may change a lot: it keeps buyer,
product and size, and a unit that has ended is not given back. So only a purchase or a grant can
raise what a seat holds, and `HoldInv`, for `HoldingLimitRespected`, says that a purchase in progress
still has room under the limit, since it holds the seat from its count to its commit.

`WonInv`, for `WonGoalStands`, follows a goal from the count to the last write of the sweep:
`OneShareEach` (a share of a goal is one unit, and is bought, never given), `SweepSound` (the goal
the sweep is at is lapsed and was not met by its deadline, or lost a buy-in since; what it has
loaded are shares of that goal) and `WonStands` (no share of a goal that kept its buy-ins has
expired). TLC checks `HoldInv` and `WonInv` on the constants of `MCStore`.

**Insurance.** `InsuranceProofs` holds for any terms, losses, decisions and bounds. `ClaimInv`, for
`ClaimPaidOnce`, is inductive because it speaks of every claim, approved or not
(`PaidAsWritten`: what was credited is nothing or what the row says), and knows that a decision in
flight is of a claim that was filed. `CoverInv`, for `StoppedStaysStopped`, relates the three states of a
lineage that can differ: what is committed, the draft of a renewal and what a cancellation has read.

- `RunInv`: a draft that has been written `Kept` what is committed (lineages only grow, and not
  after they have stopped), because whoever writes a lineage waits for the seat or for the
  uncommitted cycle; so the commit of the draft is a step that keeps too;
- `CancelInv`: the number a cancellation wants for its terminal row is not above the next free one,
  so a lineage that has stopped or grown since has more rows than it saw, and the unique
  index turns it away.

The writes themselves are lemmas on records (`SettleKeeps`, `TerminateGrows`, `KeptAdded`), and
one lemma per operation applies them.

`PeriodInv`, for `ContinuesWhereItEnds`, `NoDebtPastTheEnd` and `OneCoverInForce`, adds the dates.
`SoundCovers` says it of any sequence of covers, so that it can be said of the committed ones and of a
draft alike: the periods of a cover follow one another from its anchor and end before `Never`
(`Periodic`); nothing is owed of a period at or after its stop (`Stops`); a cover has ended only
after it stopped, and in the past (`SoundEnd`); a continuation starts where its predecessor stops
(`Follows`); and of a tier group every earlier cover is over when a later one begins (`Over`). The
three properties are its consequences, but it is not inductive alone. `RenewalSound` says that
the draft is sound too and that what the turn of the loop has read still holds when it acts;
`CancellationSound`, that a cancellation which may still commit will leave nothing owed. `Aged` carries what
either of them read across the steps of the others: a later state of a cover has more periods and more
paid. TLC checked `PeriodInv` on the constants of both insurance runs before it was proved.

The assumptions are those named in the modules (`LedgerAssumption`, `LockOrderAssumption`,
`OwnershipAssumption`, `ObligationConstants`, `RentConstants`, `AttendanceConstants`,
`HallPassConstants`, `PayrollConstants`, `StoreConstants`, `CoverageConstants`, `ClaimConstants`), which TLC evaluates on every run.

A day has at least two instants (`AttendanceConstants`): its midnight, which only the sweep dates
rows at, and one at which something can happen.

Only model-checked: the liveness properties (`EffectsPost`, `CommandsFinish`, `WritersFinish`,
`SchedulerComesBack`, `RosterBilled`, `LapsedGoalIsRefunded`, `CoverageEnds`), which need fairness and
`ENABLED`; `EvidenceStaysProvable`; and the violation of `payroll_late`, which is a counterexample.

## Not modelled, and the plan

`PROJECT.json` gives the reason for each component left out. Briefly: read-only derivations
(interpretation, historical reconstruction, view models) change no state; configuration and its
portability are written by one teacher and appear as constants of the modules that read them;
support tickets share no state with the economy; migrations, vendored code and templates are not
behaviour. Next, in this order:

1. `Identity`: claim generations, unclaim and recovery. Properties: a seat has one owner; an old
   claim code never binds.
2. Payroll, second part: corrections, manual credits, recovery of paid intervals, composed with
   the ledger's recoveries.
3. Rent, second part: voided payments; key-share mode in `LockOrder`, so that payments and
   reconciliations are ordered with the other writers.
4. `FeatContext`: nesting, adopted and discarded autobegins, thread-local restoration.
   Abstract specification: an outermost FEAT is one atomic transaction.
5. Interest compounding and the audit chain, as pure operators and a small chain module.

Each of these comes with its theorems; of the modules here, liveness and `EvidenceStaysProvable` are
left unproved.
