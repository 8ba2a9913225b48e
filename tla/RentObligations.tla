-------------------------- MODULE RentObligations --------------------------
(***************************************************************************)
(* The rent of one class: the hourly reconciliation that creates bill      *)
(* cycles, assesses the roster, grants and expires perks and assesses late *)
(* fees (FEAT-OBL-002), students paying bills (FEAT-OBL-001), the teacher  *)
(* waiving rent (FEAT-OBL-003), saving new rent settings and switching the *)
(* feature off and on (FEAT-CLASS-004).                                    *)
(*                                                                         *)
(* Each of these is one database transaction at READ COMMITTED.  What a    *)
(* transaction has written and not committed lives in its own record.  Two *)
(* kinds of row lock order them:                                           *)
(*   - a payment holds its seat row and the class row FOR UPDATE from      *)
(*     PayLock to its end (lock_recovery_scope);                           *)
(*   - every INSERT takes the class row FOR KEY SHARE through its foreign  *)
(*     key, which excludes payments but not other inserting transactions.  *)
(* A reconciliation also locks the seats whose perks it may expire.        *)
(***************************************************************************)
EXTENDS Obligations, FiniteSets, FiniteSetsExt

CONSTANTS
  Runs,          \* reconciliation runs that may overlap
  Payments,      \* payment commands: one rendered pay form each
  Waivers,       \* waiver requests of the teacher
  Bill,          \* the rent liability each payment command names
  Asked,         \* the amount it asks to pay, 0 for the whole bill
  InitialFunds,  \* what the seat can spend, overdraft protection included
  MaxTime,       \* bound: last day
  MaxTries,      \* bound: submissions of one payment command
  MaxToggles,    \* bound: switches of the rent feature
  MaxFailures    \* bound: transactions rolled back from outside

ASSUME RentConstants ==
  /\ Bill \in [Payments -> Corr]
  /\ \A k \in Payments : IsRent(Bill[k])
  /\ Asked \in [Payments -> Nat]
  /\ InitialFunds \in [Seats -> Nat]
  /\ MaxTime \in Nat /\ MaxTries \in Nat
  /\ MaxToggles \in Nat /\ MaxFailures \in Nat

VARIABLES
  now,       \* the day
  policy,    \* newest saved rent policy, 0 before the first
  features,  \* class_features rows of "rent", oldest first
  claimed,   \* claimed, non-exempt student seats
  funds,     \* spendable money of each seat
  posted,    \* rent_payment debits with their PAYMENT rows
  run,       \* reconciliation runs
  pay,       \* payment commands
  waive,     \* waiver requests
  disable,   \* the teacher's disabling transaction
  failures

clockVars == <<now, policy, features, claimed>>
moneyVars == <<funds, posted>>
teacherVars == <<waive, disable>>
vars == <<tables, clockVars, moneyVars, run, pay, teacherVars, failures>>

RunPcs == {"idle", "begin", "succeed", "derive", "cycle", "roster", "assess", "expire",
           "grant", "late", "fees", "commit"}

RunType ==
  [pc: RunPcs, now: Nat, on: BOOLEAN, policy: Nat, next: Seq(CycleType),
   cyc: Seq(CycleType), todo: SUBSET Corr, ins: SUBSET (Corr \X Policies),
   seats: SUBSET Seats, expiring: SUBSET (Corr \X Nat), granting: SUBSET Corr]

IdleRun ==
  [pc |-> "idle", now |-> 0, on |-> FALSE, policy |-> 0, next |-> <<>>,
   cyc |-> <<>>, todo |-> {}, ins |-> {}, seats |-> {}, expiring |-> {},
   granting |-> {}]

Outcomes == {"none", "ok", "refused", "error"}

PostType == [cmd: Payments, try: Nat, corr: Corr, asked: Nat, amount: Nat]

PayType ==
  [pc: {"idle", "lock", "paying"}, try: Nat, out: Outcomes, prev: Outcomes,
   slices: Seq(Corr \X Nat), budget: Nat, posts: SUBSET PostType,
   granting: SUBSET Corr]

NewPay ==
  [pc |-> "idle", try |-> 0, out |-> "none", prev |-> "none", slices |-> <<>>,
   budget |-> 0, posts |-> {}, granting |-> {}]

WaiveType == [pc: {"idle", "insert", "done"}, corr: Corr]
FeatureType == [at: Nat, on: BOOLEAN]
DisableType == [pc: {"idle", "commit"}, at: Nat, withdraw: SUBSET Corr]

(* The types of the variables. *)
TypeOK ==
  /\ TablesOK
  /\ now \in 0..MaxTime
  /\ policy \in 0..Len(Terms)
  /\ features \in Seq(FeatureType)
  /\ claimed \in SUBSET Seats
  /\ funds \in [Seats -> Int]
  /\ posted \in SUBSET PostType
  /\ run \in [Runs -> RunType]
  /\ pay \in [Payments -> PayType]
  /\ waive \in [Waivers -> WaiveType]
  /\ disable \in DisableType
  /\ failures \in 0..MaxFailures

AnyCorr == CHOOSE c \in Corr : TRUE

Init ==
  /\ TablesInit
  /\ now = 0 /\ policy = 0
  /\ features = <<[at |-> 0, on |-> TRUE]>>
  /\ claimed = {}
  /\ funds = InitialFunds
  /\ posted = {}
  /\ run = [r \in Runs |-> IdleRun]
  /\ pay = [k \in Payments |-> NewPay]
  /\ waive = [w \in Waivers |-> [pc |-> "idle", corr |-> AnyCorr]]
  /\ disable = [pc |-> "idle", at |-> 0, withdraw |-> {}]
  /\ failures = 0

-----------------------------------------------------------------------------
(* Row locks. *)

Wrote(r) ==
  \/ run[r].cyc # <<>> \/ run[r].ins # {}
  \/ run[r].expiring # {} \/ run[r].granting # {}

(* A payment holds the class row FOR UPDATE: no INSERT of the class gets     *)
(* through.                                                                  *)
ClassHeld == \E k \in Payments : pay[k].pc = "paying"

\* Mutant of ClassShared: the class row is not locked, only the seat.
ClassSharedByRuns == \E r \in Runs : Wrote(r)

(* Some transaction has inserted and not committed: no payment gets the      *)
(* class row.                                                                *)
ClassShared == (\E r \in Runs : Wrote(r)) \/ disable.pc = "commit"

-----------------------------------------------------------------------------
(* The teacher, the roster and the clock. *)

(* A transaction spans at most one midnight. *)
NoneOverdue ==
  /\ \A r \in Runs : run[r].pc \in {"idle", "begin"} \/ run[r].now = now
  /\ disable.pc = "idle" \/ disable.at = now

Tick ==
  /\ now < MaxTime /\ NoneOverdue
  /\ now' = now + 1
  /\ UNCHANGED <<tables, policy, features, claimed, moneyVars, run, pay,
                 teacherVars, failures>>

Claim(s) ==
  /\ s \notin claimed
  /\ claimed' = claimed \cup {s}
  /\ UNCHANGED <<tables, now, policy, features, moneyVars, run, pay,
                 teacherVars, failures>>

(* Every submission of the rent settings form inserts a new policy row. *)
SaveSettings ==
  /\ policy < Len(Terms) /\ ~ClassHeld
  /\ policy' = policy + 1
  /\ UNCHANGED <<tables, now, features, claimed, moneyVars, run, pay,
                 teacherVars, failures>>

(* The route and satisfy_obligation look for a waiver and a withdrawal ... *)
WaiveCheck(w, c) ==
  /\ waive[w].pc = "idle"
  /\ IsRent(c) /\ Assessed(c)
  /\ waived[c] = 0 /\ c \notin withdrawn
  /\ waive' = [waive EXCEPT ![w] = [pc |-> "insert", corr |-> c]]
  /\ UNCHANGED <<tables, clockVars, moneyVars, run, pay, disable, failures>>

(* ... and the WAIVED row is inserted; no index makes it unique. *)
WaiveInsert(w) ==
  /\ waive[w].pc = "insert" /\ ~ClassHeld
  /\ waived' = [waived EXCEPT ![waive[w].corr] = @ + 1]
  /\ waive' = [waive EXCEPT ![w].pc = "done"]
  /\ UNCHANGED <<cycles, rows, paid, withdrawn, granted, expired, clockVars,
                 moneyVars, run, pay, disable, failures>>

RentOn == features[Len(features)].on
MayToggle == Len(features) <= MaxToggles

(* Disabling inserts the class_features row, then reads which advance        *)
(* assessments are untouched ...                                             *)
DisableRead ==
  /\ RentOn /\ disable.pc = "idle" /\ MayToggle /\ ~ClassHeld
  /\ disable' =
       [pc |-> "commit", at |-> now,
        withdraw |-> {c \in Corr : /\ IsRent(c) /\ Assessed(c)
                                   /\ cycles[CycleOf(c)].boundary >= now
                                   /\ ~HasSatisfaction(c) /\ c \notin withdrawn}]
  /\ UNCHANGED <<tables, clockVars, moneyVars, run, pay, waive, failures>>

(* ... and withdraws those. *)
DisableCommit ==
  /\ disable.pc = "commit"
  /\ withdrawn' = withdrawn \cup disable.withdraw
  /\ features' = Append(features, [at |-> disable.at, on |-> FALSE])
  /\ disable' = [pc |-> "idle", at |-> 0, withdraw |-> {}]
  /\ UNCHANGED <<cycles, rows, paid, waived, granted, expired, now, policy, claimed,
                 moneyVars, run, pay, waive, failures>>

Enable ==
  /\ ~RentOn /\ MayToggle /\ ~ClassHeld
  /\ features' = Append(features, [at |-> now, on |-> TRUE])
  /\ UNCHANGED <<tables, now, policy, claimed, moneyVars, run, pay, teacherVars,
                 failures>>

-----------------------------------------------------------------------------
(* Rent reconciliation. *)

View(r) == cycles \o run[r].cyc
Mine(r) == {i[1] : i \in run[r].ins}
Goto(r, pc) == run' = [run EXCEPT ![r].pc = pc]
onlyRun == <<tables, clockVars, moneyVars, pay, teacherVars, failures>>

(* run_rent_reconciliation_job passes over a class whose rent is off. *)
JobCheck(r) ==
  /\ run[r].pc = "idle" /\ RentOn
  /\ Goto(r, "begin")
  /\ UNCHANGED onlyRun

(* reconcile_rent reads the clock, the feature and the newest settings once. *)
Begin(r) ==
  /\ run[r].pc = "begin"
  /\ run' = [run EXCEPT ![r] =
               IF policy = 0 THEN IdleRun
               ELSE [IdleRun EXCEPT !.pc = "succeed", !.now = now, !.on = RentOn,
                                    !.policy = policy]]
  /\ UNCHANGED onlyRun

(* _rent_disabled_for_period: the row in force at a boundary that has not    *)
(* passed is a disablement.                                                  *)
DisabledForPeriod(r, boundary) ==
  LET before == {i \in DOMAIN features : features[i].at <= boundary}
  IN  run[r].now <= boundary /\ before # {} /\ ~features[Max(before)].on

(* One turn of the succession loop: the lineage is evaluated and, if it is   *)
(* due, the dates of its successor are resolved.                             *)
Succeed(r) ==
  LET due == NextDue(View(r), run[r].now)
      go == /\ run[r].on
            /\ MaySucceed(View(r), run[r].now)
            /\ Len(View(r)) < MaxCycles
            /\ ~DisabledForPeriod(r, due)
  IN  /\ run[r].pc = "succeed"
      /\ run' = [run EXCEPT ![r].pc = IF go THEN "derive" ELSE "roster",
                            ![r].next = IF go THEN <<Schedule(run[r].policy, due, 0)>>
                                        ELSE <<>>]
      /\ UNCHANGED onlyRun

(* schedule_next_bill_cycle evaluates the lineage again and numbers the      *)
(* successor from what it finds; SuccessionNotDueError rolls the run back.   *)
Derive(r) ==
  /\ run[r].pc = "derive"
  /\ run' = [run EXCEPT ![r] =
               IF MaySucceed(View(r), run[r].now) /\ Len(View(r)) < MaxCycles
               THEN [@ EXCEPT !.pc = "cycle", !.next[1].num = Len(View(r)) + 1]
               ELSE IdleRun]
  /\ UNCHANGED onlyRun

Number(r) == run[r].next[1].num

\* Mutant of SuccessorTaken: without uq_bill_cycles_ref_cycle.
NeverTaken(r) == FALSE

(* uq_bill_cycles_ref_cycle. *)
SuccessorTaken(r) == \E n \in DOMAIN cycles : cycles[n].num = Number(r)

(* The unique index makes an INSERT wait for another run's uncommitted row.  *)
SuccessorPending(r) ==
  \E q \in Runs \ {r} : \E n \in DOMAIN run[q].cyc : run[q].cyc[n].num = Number(r)

(* The successor is inserted, or another command has created it:             *)
(* SuccessionConflictError rolls the whole run back.                         *)
InsertCycle(r) ==
  /\ run[r].pc = "cycle" /\ ~ClassHeld /\ ~SuccessorPending(r)
  /\ run' = [run EXCEPT ![r] =
               IF SuccessorTaken(r) THEN IdleRun
               ELSE [@ EXCEPT !.pc = "succeed", !.cyc = run[r].cyc \o run[r].next,
                              !.next = <<>>]]
  /\ UNCHANGED onlyRun

\* Mutant of RosterCycles: the latest cycle stands for the current one.
LatestCycle(r) == {n \in DOMAIN View(r) : n = Len(View(r))}

RosterCycles(r) ==
  CurrentCycles(View(r), run[r].now) \cup UpcomingCycles(View(r), run[r].now)

(* check_idempotency_assessment, for every roster seat and the cycles to bill. *)
ReadRoster(r) ==
  /\ run[r].pc = "roster"
  /\ run' = [run EXCEPT ![r].pc = "assess",
               ![r].todo = {RentOf(s, n) : s \in claimed,
                              n \in IF run[r].on THEN RosterCycles(r) ELSE {}}
                           \ {c \in Corr : Assessed(c)}]
  /\ UNCHANGED onlyRun

\* Mutant of AssessmentPolicy: the settings now in force, not the cycle's own.
CurrentPolicy(r, c) == run[r].policy

(* _cycle_terms: the policy frozen on the bill cycle. *)
AssessmentPolicy(r, c) == View(r)[CycleOf(c)].policy

\* Mutant of NewAssessments: without the partial unique index on ASSESSMENT rows.
AllAssessments(r) == run[r].todo

(* assess_obligation: a row that appeared since the check is taken as it is. *)
NewAssessments(r) == {c \in run[r].todo : ~Assessed(c)}

AssessmentsPending(r) == \E q \in Runs \ {r} : run[r].todo \cap Mine(q) # {}

InsertAssessments(r, from, to) ==
  /\ run[r].pc = from
  /\ run[r].todo # {} => ~ClassHeld /\ ~AssessmentsPending(r)
  /\ run' = [run EXCEPT ![r].pc = to, ![r].todo = {},
               ![r].ins = run[r].ins
                            \cup {<<c, AssessmentPolicy(r, c)>> : c \in NewAssessments(r)}]
  /\ UNCHANGED onlyRun

InsertRent(r) == InsertAssessments(r, "assess", "expire")
InsertFees(r) == InsertAssessments(r, "fees", "commit")

\* Mutant of PerksToEnd: perks end when the successor is created.
PerksOfPriorCycle(r) ==
  {c \in Corr : /\ IsRent(c) /\ granted[c] > expired[c]
                /\ run[r].cyc # <<>> /\ CycleOf(c) = Len(cycles)}

PerksToEnd(r) ==
  {c \in Corr : /\ IsRent(c) /\ granted[c] > expired[c]
                /\ CycleOf(c) \in EndedCycles(View(r), run[r].now)}

PerkHolders(r) ==
  {s \in Seats : \E n \in EndedCycles(View(r), run[r].now) : granted[RentOf(s, n)] > 0}

(* _expire_ended_period_perks: holders are locked, then what is still        *)
(* unexpired gets an EXPIRED row.                                            *)
ExpirePerks(r) ==
  /\ run[r].pc = "expire"
  /\ PerkHolders(r) # {} => ~ClassHeld
  /\ \A q \in Runs \ {r} : PerkHolders(r) \cap run[q].seats = {}
  /\ run' = [run EXCEPT ![r].pc = "grant", ![r].seats = PerkHolders(r),
                        ![r].expiring = {<<c, granted[c]>> : c \in PerksToEnd(r)}]
  /\ UNCHANGED onlyRun

PerksEarnedInAdvance(r) ==
  {c \in Corr : /\ IsRent(c) /\ CycleOf(c) \in CurrentCycles(View(r), run[r].now)
                /\ Satisfied(c) /\ waived[c] = 0 /\ granted[c] = 0}

(* _grant_period_start_perks; nothing orders two runs that both find no grant. *)
GrantPerks(r) ==
  /\ run[r].pc = "grant"
  /\ PerksEarnedInAdvance(r) # {} => ~ClassHeld
  /\ run' = [run EXCEPT ![r].pc = "late", ![r].granting = PerksEarnedInAdvance(r)]
  /\ UNCHANGED onlyRun

(* _assess_late_fees, over every cycle, for rent that is still outstanding. *)
ReadLateRent(r) ==
  LET ys == View(r)
      late(s, n) == IF Outstanding(RentOf(s, n)) \/ RentOf(s, n) \in Mine(r)
                    THEN {<<s, n, k>> : k \in LateFees(ys[n], run[r].now)} ELSE {}
  IN  /\ run[r].pc = "late"
      /\ run' = [run EXCEPT ![r].pc = "fees",
                   ![r].todo = UNION {late(s, n) : s \in claimed, n \in DOMAIN ys}
                               \ {c \in Corr : Assessed(c)}]
      /\ UNCHANGED onlyRun

RunCommit(r) ==
  LET me == run[r] IN
  /\ me.pc = "commit"
  /\ cycles' = View(r)
  /\ rows' = [c \in Corr |-> IF c \in Mine(r)
                             THEN Append(rows[c], (CHOOSE i \in me.ins : i[1] = c)[2])
                             ELSE rows[c]]
  /\ expired' = [c \in Corr |-> IF \E e \in me.expiring : e[1] = c
                                THEN (CHOOSE e \in me.expiring : e[1] = c)[2]
                                ELSE expired[c]]
  /\ granted' = [c \in Corr |-> IF c \in me.granting THEN granted[c] + 1 ELSE granted[c]]
  /\ run' = [run EXCEPT ![r] = IdleRun]
  /\ UNCHANGED <<paid, waived, withdrawn, clockVars, moneyVars, pay, teacherVars, failures>>

(* An exception, a crash or a deadlock victim: everything is rolled back. *)
RunAbort(r) ==
  /\ run[r].pc # "idle" /\ failures < MaxFailures
  /\ run' = [run EXCEPT ![r] = IdleRun]
  /\ failures' = failures + 1
  /\ UNCHANGED <<tables, clockVars, moneyVars, pay, teacherVars>>

RunStep(r) ==
  \/ Begin(r) \/ Succeed(r) \/ Derive(r) \/ InsertCycle(r) \/ ReadRoster(r) \/ InsertRent(r)
  \/ ExpirePerks(r) \/ GrantPerks(r) \/ ReadLateRent(r) \/ InsertFees(r) \/ RunCommit(r)

-----------------------------------------------------------------------------
(* Bill payment. *)

onlyPay == <<tables, clockVars, moneyVars, run, teacherVars, failures>>

(* The bill in settlement order: the rent, then its late fees oldest first. *)
BillOf(k) ==
  LET c == Bill[k]
      fees == {j \in 1..MaxFees : Assessed(<<c[1], c[2], j>>)}
      last == IF fees = {} THEN 0 ELSE Max(fees)
  IN  [j \in 1..(last + 1) |-> <<c[1], c[2], j - 1>>]

SumRemaining(slices) == FoldFunction(+, 0, [j \in DOMAIN slices |-> slices[j][2]])

Finish(k, outcome) ==
  pay' = [pay EXCEPT ![k] = [NewPay EXCEPT !.try = pay[k].try, !.out = outcome,
                                           !.prev = pay[k].prev]]

(* A submission reads what remains of the bill before it takes any lock; a   *)
(* settled bill is reported as paid.                                         *)
PayRead(k) ==
  LET bill == BillOf(k)
      slices == [j \in DOMAIN bill |-> <<bill[j], Remaining(bill[j])>>]
      group == SumRemaining(slices)
      again == [NewPay EXCEPT !.try = pay[k].try + 1, !.prev = pay[k].out]
  IN  /\ pay[k].pc = "idle" /\ pay[k].try < MaxTries
      /\ Assessed(Bill[k])
      /\ pay' = [pay EXCEPT ![k] =
                   IF group = 0 THEN [again EXCEPT !.out = "ok"]
                   ELSE [again EXCEPT !.pc = "lock", !.slices = slices,
                           !.budget = IF Asked[k] = 0 \/ Asked[k] > group
                                      THEN group ELSE Asked[k]]]
      /\ UNCHANGED onlyPay

(* The reservations of this command for one slice. *)
Posted(k, c) == {p \in posted : p.cmd = k /\ p.corr = c}

\* Mutant of PriorSlice: the reservation is not looked up.
NoPrior(k, c) == {}

(* replay_reserved_charge. *)
PriorSlice(k, c) == Posted(k, c)

Replayed(k) == \E j \in DOMAIN pay[k].slices : Posted(k, pay[k].slices[j][1]) # {}

Payer(k) == Bill[k][1]

(* The seat and class rows; then a command none of whose slices has posted   *)
(* is screened as a whole against the seat's funds.                          *)
PayLock(k) ==
  /\ pay[k].pc = "lock" /\ ~ClassHeld /\ ~ClassShared
  /\ \A r \in Runs : Payer(k) \notin run[r].seats
  /\ IF ~Replayed(k) /\ pay[k].budget > funds[Payer(k)]
     THEN Finish(k, "refused")
     ELSE pay' = [pay EXCEPT ![k].pc = "paying"]
  /\ UNCHANGED onlyPay

Spent(k) == MapThenSumSet(LAMBDA p : p.amount, pay[k].posts)

\* Mutant of StillOwed: what remained when the form was read, before the lock.
OwedWhenRead(k, c) == pay[k].slices[1][2]

StillOwed(k, c) == Amount(c) - paid[c]

Affords(k, amount) == funds[Payer(k)] - Spent(k) >= amount

\* Mutant of PeriodHasBegun: a bill paid in advance earns its perks at once.
PeriodAnyTime(c) == TRUE

PeriodHasBegun(c) == cycles[CycleOf(c)].boundary <= now

(* pay_rent returns without a failure: on to the next slice. *)
NextSlice(k, fields) ==
  pay' = [pay EXCEPT ![k] = [fields EXCEPT !.slices = Tail(@)]]

(* pay_rent reports a failure: the bill stops here, nothing is rolled back. *)
Refuse(k) == pay' = [pay EXCEPT ![k].slices = <<>>, ![k].out = "refused"]

(* pay_rent for one slice of the bill. *)
PaySlice(k) ==
  LET me == pay[k]
      c == me.slices[1][1]
      asked == Min({me.slices[1][2], me.budget})
      prior == PriorSlice(k, c)
      owed == StillOwed(k, c)
      amount == Min({asked, owed})
      settles == amount = owed /\ IsRent(c) /\ PeriodHasBegun(c)
  IN  /\ me.pc = "paying" /\ me.slices # <<>> /\ me.budget > 0
      /\ \/ me.slices[1][2] = 0 /\ NextSlice(k, me)
         \/ /\ me.slices[1][2] > 0
            /\ \/ c \in withdrawn /\ Refuse(k)
               \/ c \notin withdrawn /\ waived[c] > 0 /\ NextSlice(k, me)
               \/ /\ c \notin withdrawn /\ waived[c] = 0
                  /\ \/ \E p \in prior :
                          IF p.asked = asked
                          THEN NextSlice(k, [me EXCEPT !.budget = @ - p.amount])
                          ELSE Finish(k, "error")
                     \/ prior = {} /\ owed <= 0 /\ NextSlice(k, me)
                     \/ /\ prior = {} /\ owed > 0
                        /\ IF \/ asked < owed /\ ~FrozenTerms(c).incremental
                              \/ ~Affords(k, amount)
                           THEN Refuse(k)
                           ELSE NextSlice(k, [me EXCEPT
                                  !.budget = @ - amount,
                                  !.posts = @ \cup {[cmd |-> k, try |-> me.try, corr |-> c,
                                                     asked |-> asked, amount |-> amount]},
                                  !.granting = IF settles THEN @ \cup {c} ELSE @])
      /\ UNCHANGED onlyPay

(* Leaving the FEAT without an exception commits, whatever the result says. *)
PayCommit(k) ==
  LET me == pay[k] IN
  /\ me.pc = "paying" /\ (me.slices = <<>> \/ me.budget = 0)
  /\ paid' = [c \in Corr |-> paid[c] +
                MapThenSumSet(LAMBDA p : p.amount, {p \in me.posts : p.corr = c})]
  /\ funds' = [funds EXCEPT ![Payer(k)] = @ - Spent(k)]
  /\ posted' = posted \cup me.posts
  /\ granted' = [c \in Corr |-> IF c \in me.granting THEN granted[c] + 1 ELSE granted[c]]
  /\ Finish(k, IF me.out = "none" THEN "ok" ELSE me.out)
  /\ UNCHANGED <<cycles, rows, waived, withdrawn, expired, clockVars, run, teacherVars,
                 failures>>

PayAbort(k) ==
  /\ pay[k].pc # "idle" /\ failures < MaxFailures
  /\ Finish(k, "error")
  /\ failures' = failures + 1
  /\ UNCHANGED <<tables, clockVars, moneyVars, run, teacherVars>>

PayStep(k) == PayLock(k) \/ PaySlice(k) \/ PayCommit(k)

-----------------------------------------------------------------------------
Next ==
  \/ Tick \/ SaveSettings \/ DisableRead \/ DisableCommit \/ Enable
  \/ \E s \in Seats : Claim(s)
  \/ \E r \in Runs : JobCheck(r) \/ RunStep(r) \/ RunAbort(r)
  \/ \E k \in Payments : PayRead(k) \/ PayStep(k) \/ PayAbort(k)
  \/ \E w \in Waivers : (\E c \in Corr : WaiveCheck(w, c)) \/ WaiveInsert(w)

Spec == Init /\ [][Next]_vars

(***************************************************************************)
(* Days go by, the job fires every hour, a transaction that can go on      *)
(* does, and one that waits for a lock gets it in its turn.                *)
(***************************************************************************)
FairSpec ==
  /\ Spec
  /\ SF_vars(Tick) /\ WF_vars(DisableCommit)
  /\ \A r \in Runs : SF_vars(JobCheck(r)) /\ SF_vars(RunStep(r))
  /\ \A k \in Payments : SF_vars(PayStep(k))

-----------------------------------------------------------------------------
(* Properties. *)

(***************************************************************************)
(* A cycle number is used once: two reconciliations that both find the     *)
(* lineage due (schedule_next_bill_cycle) create one successor, not two.   *)
(***************************************************************************)
CyclesNumberedOnce == \A n \in DOMAIN cycles : cycles[n].num = n

(***************************************************************************)
(* A period begins where the one before it ends, so no day is billed twice *)
(* and none is skipped, however late the catch-up runs and whatever new    *)
(* settings were saved (resolve_cycle_schedule, get_succession_eligibility). *)
(***************************************************************************)
PeriodsAbut ==
  \A n \in DOMAIN cycles : n > 1 => cycles[n].boundary = cycles[n - 1].next

(***************************************************************************)
(* A seat is assessed once for a period and once for each late fee, though *)
(* runs overlap and repeat (assess_obligation).                            *)
(***************************************************************************)
AssessedOnce == \A c \in Corr : Len(rows[c]) <= 1

(***************************************************************************)
(* Everything assessed for a period, a seat claimed late and a late fee    *)
(* included, is on the terms frozen on its cycle, whatever was saved since *)
(* (_cycle_terms).                                                         *)
(***************************************************************************)
BilledOnFrozenTerms ==
  \A c \in Corr : Assessed(c) =>
    /\ CycleOf(c) \in DOMAIN cycles
    /\ \A i \in DOMAIN rows[c] : rows[c][i] = cycles[CycleOf(c)].policy

(* Rent of the period y was switched off on its first day, and its terms     *)
(* leave no day of grace.                                                    *)
OffTheDayItWasDue(y) ==
  /\ y.grace = y.boundary
  /\ \E i \in DOMAIN features : ~features[i].on /\ features[i].at = y.boundary

(***************************************************************************)
(* A rent that was withdrawn accrues no late fee (_assess_late_fees asks   *)
(* get_obligation_state): the class can be re-enabled and the day of its   *)
(* grace boundary passes like any other.  The one exception is a           *)
(* disablement that reads before midnight and commits after it: the late   *)
(* fee of a period without grace that began that day can come first.       *)
(***************************************************************************)
NoFeeOnWithdrawn ==
  \A c \in withdrawn : \A k \in 1..MaxFees :
    Assessed(<<c[1], c[2], k>>) => OffTheDayItWasDue(cycles[c[2]])

(***************************************************************************)
(* However payments of one bill race, repeat or are split, a liability     *)
(* takes no more than its assessed amount (pay_rent).                      *)
(***************************************************************************)
NeverOverpaid == \A c \in Corr : paid[c] > 0 => Assessed(c) /\ paid[c] <= Amount(c)

(***************************************************************************)
(* Rent never takes more than the seat can spend (INSUFFICIENT_FUNDS in    *)
(* pay_rent and pay_rent_bill), on a repeated command too, which skips the *)
(* screen of the whole bill.                                               *)
(***************************************************************************)
FundsCovered == \A s \in Seats : funds[s] >= 0

(***************************************************************************)
(* One command charges one liability at most once, however often it is     *)
(* submitted (replay_reserved_charge).                                     *)
(***************************************************************************)
SliceChargedOnce ==
  \A p, q \in posted : p.cmd = q.cmd /\ p.corr = q.corr => p = q

(***************************************************************************)
(* Perks are granted only for rent paid in full with money, and only once  *)
(* its period has begun, by whichever of payment and reconciliation grants *)
(* them (_period_has_begun, _grant_period_start_perks).                    *)
(***************************************************************************)
PerksEarned ==
  \A c \in Corr : granted[c] > 0 =>
    IsRent(c) /\ paid[c] >= Amount(c) /\ cycles[CycleOf(c)].boundary <= now

(***************************************************************************)
(* Perks end with their period and not when a successor is assessed in     *)
(* advance of it (_expire_ended_period_perks).                             *)
(***************************************************************************)
PerksLastTheirPeriod ==
  \A c \in Corr : expired[c] > 0 => cycles[CycleOf(c)].next <= now

(***************************************************************************)
(* Switching rent off never withdraws a bill that has been paid, in whole  *)
(* or in part, even while it decides which bills are untouched             *)
(* (_withdraw_untouched_advance_rent).                                     *)
(***************************************************************************)
PaidNeverWithdrawn == \A c \in withdrawn : paid[c] = 0

(* A bill that stands: assessed, and not withdrawn since. *)
Billed(s, n) == Assessed(RentOf(s, n)) /\ RentOf(s, n) \notin withdrawn

(* The bill fell to a disablement dated no later than its period's first day. *)
SwitchedOff(s, n) ==
  /\ RentOf(s, n) \in withdrawn
  /\ \E i \in DOMAIN features : ~features[i].on /\ features[i].at <= cycles[n].boundary

(***************************************************************************)
(* Every claimed seat eventually has a bill that stands for the last day's *)
(* period, through failed runs and a rent that is switched off and on      *)
(* again (reconcile_rent, run_rent_reconciliation_job).  It has none while *)
(* rent stays off, nor when the bill was withdrawn by switching rent off   *)
(* on or before the period's first day: check_idempotency_assessment       *)
(* counts the withdrawn assessment, so the bill is never made again.       *)
(***************************************************************************)
RosterBilled ==
  \A s \in Seats :
    (s \in claimed /\ policy > 0 /\ now = MaxTime)
      ~> \/ ~RentOn
         \/ \E n \in CurrentCycles(cycles, MaxTime) : Billed(s, n) \/ SwitchedOff(s, n)

(***************************************************************************)
(* docs/user-guides/features/teacher/settings/economy-features.md: "Turn   *)
(* it back on and everything is where you left it", the rent billed ahead  *)
(* included.                                                               *)
(***************************************************************************)
EverythingWhereYouLeftIt ==
  \A s \in Seats :
    (s \in claimed /\ policy > 0 /\ now = MaxTime)
      ~> \/ ~RentOn
         \/ \E n \in CurrentCycles(cycles, MaxTime) : Billed(s, n)

(***************************************************************************)
(* The perks of a period that has ended are eventually taken back          *)
(* (_expire_ended_period_perks).                                           *)
(***************************************************************************)
PerksEnd ==
  \A c \in Corr :
    (granted[c] > 0 /\ CycleOf(c) \in EndedCycles(cycles, now)) ~> expired[c] >= granted[c]

(***************************************************************************)
(* Repeating a payment command that succeeded charges nothing more         *)
(* (rent_payment_feat: the form's nonce identifies the command).           *)
(***************************************************************************)
ReplayNeverCharges ==
  [][\A k \in Payments : pay[k].prev = "ok" =>
       {p \in posted' : p.cmd = k} = {p \in posted : p.cmd = k}]_vars

(***************************************************************************)
(* A submission that is refused has paid nothing (pay_rent_bill).          *)
(***************************************************************************)
RefusalPaysNothing ==
  [][\A k \in Payments : pay'[k].out = "refused" =>
       {p \in posted' : p.cmd = k} = {p \in posted : p.cmd = k}]_vars

(* A liability is waived at most once (satisfy_obligation). *)
WaivedOnce == \A c \in Corr : waived[c] <= 1

(* A withdrawn assessment is never satisfied (satisfy_obligation).         *)
NothingFollowsWithdrawal == \A c \in withdrawn : ~HasSatisfaction(c)

(* The perks of one rent are granted once, by payment or reconciliation.   *)
PerksGrantedOnce == \A c \in Corr : granted[c] <= 1

(***************************************************************************)
(* While rent is off, no untouched assessment stands for a period that     *)
(* begins after the disablement (_withdraw_untouched_advance_rent).  *)
(***************************************************************************)
NoRentSurvivesDisable ==
  \A c \in Corr :
    (IsRent(c) /\ Assessed(c) /\ c \notin withdrawn /\ ~HasSatisfaction(c) /\ ~RentOn)
      => cycles[CycleOf(c)].boundary <= features[Len(features)].at

=============================================================================
