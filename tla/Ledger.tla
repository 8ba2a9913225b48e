------------------------------- MODULE Ledger -------------------------------
(***************************************************************************)
(* The money ledger of one class economy: ledger_transaction rows, command *)
(* reservations and per-account balance snapshots in PostgreSQL, written   *)
(* by web workers that run Ledger commands and by the settlement sweep.    *)
(*                                                                         *)
(* Every command is one database transaction at READ COMMITTED.  A process *)
(* holds row locks (seats, then the class row) until it commits or rolls   *)
(* back; a statement sees what other processes have committed, so a        *)
(* process's own uncommitted rows live in buf[p] and sbuf[p] until Commit. *)
(*                                                                         *)
(* Commands (services under app/services, reached from the FEATs):         *)
(*   credit    one idempotent credit (payroll, manual payment, interest)   *)
(*   transfer  checking <-> savings by the student (FEAT-LED-005)          *)
(*   charge    a debit of checking funded by overdraft protection: store   *)
(*             purchase, rent, premium (funded |-> TRUE: refused when it   *)
(*             cannot be covered) or a teacher's fine (funded |-> FALSE,   *)
(*             one or more seats)                                          *)
(*   reverse   exact reversal of one earlier row                           *)
(*   recover   partial (amt > 0) or residual (amt = 0) recovery of a       *)
(*             posted credit, against a preview taken without locks        *)
(*   settle    one (seat, class) context of the settlement sweep           *)
(***************************************************************************)
EXTENDS Integers, Sequences, FiniteSets, FiniteSetsExt

CONSTANTS
  Workers,            \* web workers
  Sweeper,            \* the scheduled settlement job
  Seats,              \* seat ids of the class
  Keys,               \* idempotency keys
  Commands,           \* the commands clients may submit, any number of times
  ProtectionEnabled,  \* the class's overdraft-protection directive
  MaxFailures,        \* bound on rollbacks (exceptions, crashes)
  Null

Account == {"checking", "savings"}

Kinds == {"credit", "transfer", "charge", "reverse", "recover"}

Types == {"payroll", "Interest", "Withdrawal", "Deposit", "purchase",
          "penalty", "REVERSAL", "payroll_correction"}

Command ==
  [kind : Kinds, key : Keys, seats : SUBSET Seats, acct : Account, amt : Nat,
   type : Types, funded : BOOLEAN, of : Keys, ofType : Types]

(***************************************************************************)
(* Seat ids are positive integers, each command touches at least one seat  *)
(* and only fines touch several.  Transfer legs are written by             *)
(* build_transfer_effect_pair alone, and only a fine is never refused.     *)
(***************************************************************************)
ASSUME LedgerAssumption ==
  /\ Sweeper \notin Workers
  /\ Seats \subseteq (Nat \ {0})
  /\ Commands \subseteq Command
  /\ \A c \in Commands :
       /\ \E s \in Seats : s \in c.seats
       /\ c.kind # "charge" => \A s, t \in c.seats : s = t
       /\ c.kind \in {"credit", "transfer", "charge"} => c.amt > 0
       /\ c.kind \in {"credit", "charge"} => c.type \notin {"Withdrawal", "Deposit"}
       /\ c.kind = "charge" /\ ~c.funded => c.type = "penalty"
  /\ ProtectionEnabled \in BOOLEAN
  /\ MaxFailures \in Nat
  /\ Null \notin Commands /\ Null \notin Keys \cup Workers \cup {Sweeper}
  /\ \A s \in Seats : Null # [kind |-> "settle", seats |-> {s}]

Procs == Workers \cup {Sweeper}

Row == [seq : Nat \ {0}, seat : Seats, acct : Account, amt : Int, type : Types,
        key : Keys, leg : Nat \ {0}, of : Nat, comp : Nat]

\* A settlement of one seat's context is a job like any command.
SettleJob(s) == [kind |-> "settle", seats |-> {s}]

VARIABLES
  rows,       \* committed ledger_transaction rows
  resv,       \* committed command reservations: key -> accepted command
  snap,       \* committed snapshots: cur = reconciled_through (0: none), bal
  seatLock,   \* seat row -> process holding FOR UPDATE
  classLock,  \* ClassEconomy row -> process holding FOR UPDATE
  resLock,    \* reservation key -> process with an uncommitted insert
  job,        \* process -> its command
  pc,         \* process -> where it is in the command
  plan,       \* process -> effects still to write, seat by seat
  prev,       \* process -> the balances and recovery its preview showed
  buf,        \* process -> uncommitted rows
  sbuf,       \* process -> uncommitted snapshots, by account
  todo,       \* contexts the sweep has still to settle
  failures

vars == <<rows, resv, snap, seatLock, classLock, resLock, job, pc, plan, prev,
          buf, sbuf, todo, failures>>

-----------------------------------------------------------------------------
(***************************************************************************)
(* Reads.                                                                  *)
(***************************************************************************)

TotalAmount(S) == MapThenSumSet(LAMBDA r : r.amt, S)

\* int(total or 0): SQL's SUM of the amounts, which is NULL over no rows.
SumAmounts(S) == IF S # {} /\ TotalAmount(S) \in Int THEN TotalAmount(S) ELSE 0

\* The rows of one account that reconciliation through the cursor admits.
AdmittedRows(R, s, a, cursor) ==
  {r \in R : r.seat = s /\ r.acct = a /\ r.seq =< cursor}

\* _posted_history_cents: reconstruct cents through the admission boundary.
PostedHistoryCents(R, s, a, boundary) == SumAmounts(AdmittedRows(R, s, a, boundary))

\* Transaction.posting_state: POSTED iff the account's cursor reached the row.
Posted(r) == r.seq =< snap[r.seat][r.acct].cur

\* Mutant of PendingRows: settlement looks at the checking account only.
PendingCheckingRows(s) == {r \in rows : r.seat = s /\ r.acct = "checking" /\ ~Posted(r)}

\* The seat's rows that no cursor has admitted yet.
PendingRows(s) == {r \in rows : r.seat = s /\ ~Posted(r)}

\* _available_balance_expression: snapshot, else posted history, plus pending.
Available(s, a) ==
  LET posted == IF snap[s][a].cur # 0 THEN snap[s][a].bal
                ELSE PostedHistoryCents(rows, s, a, snap[s][a].cur)
  IN  posted + SumAmounts({r \in PendingRows(s) : r.acct = a})

TotalCompensation(S) == MapThenSumSet(LAMBDA r : r.comp, S)

\* Cents already attributed to recovering the credit with sequence q.
RecoveredCents(q) ==
  LET S == {r \in rows : r.of = q}
  IN  IF TotalCompensation(S) \in Nat THEN TotalCompensation(S) ELSE 0

\* The row a reverse or recover command names, if it is committed.
Originals(c) ==
  {r \in rows : r.key = c.of /\ r.type = c.ofType /\ r.seat \in c.seats}

Original(c) == CHOOSE r \in Originals(c) : TRUE

\* get_exact_reversal
ExactReversals(o) == {r \in rows : r.type = "REVERSAL" /\ r.of = o.seq}

-----------------------------------------------------------------------------
(***************************************************************************)
(* Effect vectors.                                                         *)
(***************************************************************************)
Effect(s, a, amt, type, of, comp) ==
  [seat |-> s, acct |-> a, amt |-> amt, type |-> type, of |-> of, comp |-> comp]

Other(a) == IF a = "checking" THEN "savings" ELSE "checking"

\* build_transfer_effect_pair
TransferPair(s, amt, from) ==
  << Effect(s, from, -amt, "Withdrawal", 0, 0),
     Effect(s, Other(from), amt, "Deposit", 0, 0) >>

\* resolve_intended_ledger_plan (fee_authority NONE, as every debit passes):
\* the overdraft-protection transfer, all of the shortfall or nothing.
FundingTransfer(s, amt, a) ==
  LET shortfall == amt - Available(s, "checking")
  IN  IF /\ a = "checking" /\ amt > 0 /\ shortfall > 0
         /\ ProtectionEnabled /\ Available(s, "savings") >= shortfall
      THEN shortfall ELSE 0

\* ResolvedLedgerPlan.checking_after of a debit of checking
CheckingAfter(s, amt) ==
  Available(s, "checking") + FundingTransfer(s, amt, "checking") - amt

\* apply_resolved_ledger_plan: funding legs first, then the principal.
ChargeEffects(s, amt, a, type, of, comp) ==
  LET t == FundingTransfer(s, amt, a)
      principal == Effect(s, a, -amt, type, of, comp)
  IN  IF t > 0 THEN TransferPair(s, t, "savings") \o <<principal>>
      ELSE <<principal>>

\* Mutant of ReversalEffects: a reversed credit is not marked as recovered.
ReversalEffectsUnattributed(o) ==
  IF o.amt > 0
  THEN ChargeEffects(o.seat, o.amt, o.acct, "REVERSAL", o.seq, 0)
  ELSE <<Effect(o.seat, o.acct, -o.amt, "REVERSAL", o.seq, 0)>>

\* reverse_transaction: a debit is refunded to its account; a credit is
\* recovered through the same charge plan, never refused for lack of funds.
ReversalEffects(o) ==
  IF o.amt > 0
  THEN ChargeEffects(o.seat, o.amt, o.acct, "REVERSAL", o.seq, o.amt)
  ELSE <<Effect(o.seat, o.acct, -o.amt, "REVERSAL", o.seq, 0)>>

\* resolve_credit_recovery: an interval's share, or all that remains.
RecoveryCents(c) ==
  IF c.amt > 0 THEN c.amt ELSE Original(c).amt - RecoveredCents(Original(c).seq)

\* The effects of command c on seat s, resolved from committed state.
EffectsFor(c, s) ==
  CASE c.kind = "credit"   -> <<Effect(s, c.acct, c.amt, c.type, 0, 0)>>
    [] c.kind = "transfer" -> TransferPair(s, c.amt, c.acct)
    [] c.kind = "charge"   -> ChargeEffects(s, c.amt, "checking", c.type, 0, 0)
    [] c.kind = "reverse"  -> ReversalEffects(Original(c))
    [] c.kind = "recover"  -> ChargeEffects(s, RecoveryCents(c), Original(c).acct,
                                "payroll_correction", Original(c).seq, RecoveryCents(c))

NoPlan == [s \in Seats |-> <<>>]

-----------------------------------------------------------------------------
(***************************************************************************)
(* Transaction boundaries.                                                 *)
(***************************************************************************)
NoPreview == [bal |-> [s \in Seats |-> [a \in Account |-> 0]], rec |-> 0]

\* What a preview shows of the seats a command touches, and of its origin.
PreviewOf(c) ==
  [bal |-> [s \in Seats |-> [a \in Account |->
              IF s \in c.seats THEN Available(s, a) ELSE 0]],
   rec |-> IF c.kind = "recover" THEN RecoveredCents(Original(c).seq) ELSE 0]

NeedsPreview(c) == c.kind = "recover" \/ (c.kind = "charge" /\ ~c.funded)

\* The end of a transaction frees every lock its process holds.
Release(p) ==
  /\ seatLock' = [s \in Seats |-> IF seatLock[s] = p THEN Null ELSE seatLock[s]]
  /\ classLock' = IF classLock = p THEN Null ELSE classLock
  /\ resLock' = [k \in Keys |-> IF resLock[k] = p THEN Null ELSE resLock[k]]
  /\ job' = [job EXCEPT ![p] = Null]
  /\ pc' = [pc EXCEPT ![p] = "idle"]
  /\ plan' = [plan EXCEPT ![p] = NoPlan]
  /\ prev' = [prev EXCEPT ![p] = NoPreview]
  /\ buf' = [buf EXCEPT ![p] = {}]
  /\ sbuf' = [sbuf EXCEPT ![p] = [a \in Account |-> Null]]

\* Rollback, or a commit that wrote nothing (a replay, a refusal).
EndWithout(p) == Release(p) /\ UNCHANGED <<rows, resv, snap, todo>>

Goto(p, at) == pc' = [pc EXCEPT ![p] = at]

-----------------------------------------------------------------------------
(***************************************************************************)
(* Actions.                                                                *)
(***************************************************************************)
Init ==
  /\ rows = {}
  /\ resv = [k \in Keys |-> Null]
  /\ snap = [s \in Seats |-> [a \in Account |-> [cur |-> 0, bal |-> 0]]]
  /\ seatLock = [s \in Seats |-> Null]
  /\ classLock = Null
  /\ resLock = [k \in Keys |-> Null]
  /\ job = [p \in Procs |-> Null]
  /\ pc = [p \in Procs |-> "idle"]
  /\ plan = [p \in Procs |-> NoPlan]
  /\ prev = [p \in Procs |-> NoPreview]
  /\ buf = [p \in Procs |-> {}]
  /\ sbuf = [p \in Procs |-> [a \in Account |-> Null]]
  /\ todo = {}
  /\ failures = 0

\* The row the command corrects must exist; a recovery previews a posted one.
Submittable(c) ==
  /\ c.kind \in {"reverse", "recover"} => Originals(c) # {}
  /\ c.kind = "recover" => Posted(Original(c))

\* A client submits a command, for the first time or again.
Submit(w, c) ==
  /\ pc[w] = "idle" /\ Submittable(c)
  /\ job' = [job EXCEPT ![w] = c]
  /\ prev' = [prev EXCEPT ![w] = IF NeedsPreview(c) THEN PreviewOf(c) ELSE NoPreview]
  /\ Goto(w, "seat")
  /\ UNCHANGED <<rows, resv, snap, seatLock, classLock, resLock, plan, buf, sbuf,
                 todo, failures>>

\* settle_pending_transaction_contexts: materialize the contexts ...
SweepStart ==
  /\ pc[Sweeper] = "idle" /\ todo = {}
  /\ todo' = {s \in Seats : PendingRows(s) # {}}
  /\ todo' # {}
  /\ UNCHANGED <<rows, resv, snap, seatLock, classLock, resLock, job, pc, plan,
                 prev, buf, sbuf, failures>>

\* ... then settle each in its own transaction, whatever became of the last.
SweepNext ==
  /\ pc[Sweeper] = "idle"
  /\ \E s \in todo :
       /\ \A t \in todo : s =< t
       /\ todo' = todo \ {s}
       /\ job' = [job EXCEPT ![Sweeper] = SettleJob(s)]
  /\ Goto(Sweeper, "seat")
  /\ UNCHANGED <<rows, resv, snap, seatLock, classLock, resLock, plan, prev, buf,
                 sbuf, failures>>

\* Commands that take the class row before they decide; a transfer and an
\* interest credit reach it only when they allocate a posting sequence.
ClassFirst(j) ==
  j.kind \in {"charge", "reverse", "recover", "settle"}
    \/ (j.kind = "credit" /\ j.type = "payroll")

UnlockedSeats(p) == {s \in job[p].seats : seatLock[s] # p}

\* Mutant of LockSeat: the seats are read without FOR UPDATE.
LockSeatNoWait(p) ==
  /\ pc[p] = "seat"
  /\ Goto(p, IF ClassFirst(job[p]) THEN "class" ELSE "decide")
  /\ UNCHANGED <<rows, resv, snap, seatLock, classLock, resLock, job, plan, prev,
                 buf, sbuf, todo, failures>>

\* Seat rows FOR UPDATE, in ascending order (lock_ledger_seats).
LockSeat(p) ==
  /\ pc[p] = "seat"
  /\ \E s \in UnlockedSeats(p) :
       /\ \A t \in UnlockedSeats(p) : s =< t
       /\ seatLock[s] = Null
       /\ seatLock' = [seatLock EXCEPT ![s] = p]
       /\ Goto(p, IF UnlockedSeats(p) # {s} THEN "seat"
                  ELSE IF ClassFirst(job[p]) THEN "class" ELSE "decide")
  /\ UNCHANGED <<rows, resv, snap, classLock, resLock, job, plan, prev, buf, sbuf,
                 todo, failures>>

\* The ClassEconomy row FOR UPDATE.
LockClass(p) ==
  /\ pc[p] = "class"
  /\ classLock = Null
  /\ classLock' = p
  /\ Goto(p, IF ClassFirst(job[p]) THEN "decide" ELSE "write")
  /\ UNCHANGED <<rows, resv, snap, seatLock, resLock, job, plan, prev, buf, sbuf,
                 todo, failures>>

\* PREVIEW_CHANGED: what the command would decide on is not what was shown.
PreviewChanged(p) == PreviewOf(job[p]) # prev[p]

\* reverse_transaction, EXACT_REVERSAL: terminal, already reversed, or a credit
\* some of which was already recovered.
Unreversible(o) ==
  o.type = "REVERSAL" \/ ExactReversals(o) # {} \/ (o.amt > 0 /\ RecoveredCents(o.seq) > 0)

\* Mutant of OverRecovers: earlier recoveries of the credit are not deducted.
OverRecoversOriginal(c) == RecoveryCents(c) > Original(c).amt

\* INTERVAL or RESIDUAL: nothing is left of the credit, or less than is asked.
OverRecovers(c) ==
  LET left == Original(c).amt - RecoveredCents(Original(c).seq)
  IN  left =< 0 \/ RecoveryCents(c) > left

\* The command's own reasons to refuse, evaluated under its locks.
Refused(p) ==
  LET c == job[p] IN
  \/ c.kind = "transfer" /\ \E s \in c.seats : Available(s, c.acct) < c.amt
  \/ c.kind = "charge" /\ resv[c.key] # Null
  \/ c.kind = "charge" /\ c.funded /\ \E s \in c.seats : CheckingAfter(s, c.amt) < 0
  \/ NeedsPreview(c) /\ PreviewChanged(p)
  \/ c.kind = "reverse" /\ Unreversible(Original(c))
  \/ c.kind = "recover" /\ OverRecovers(c)

\* Read the ledger, refuse, or fix the effects to write.
Decide(p) ==
  /\ pc[p] = "decide" /\ job[p].kind # "settle"
  /\ \/ /\ Refused(p)
        /\ EndWithout(p)
     \/ /\ ~Refused(p)
        /\ plan' = [plan EXCEPT ![p] = [s \in Seats |->
                      IF s \in job[p].seats THEN EffectsFor(job[p], s) ELSE <<>>]]
        /\ Goto(p, "reserve")
        /\ UNCHANGED <<rows, resv, snap, seatLock, classLock, resLock, job, prev,
                       buf, sbuf, todo>>
  /\ UNCHANGED failures

\* Mutant of Reserve: an accepted reservation is not looked up.
ReserveBlind(p) ==
  /\ pc[p] = "reserve"
  /\ resLock[job[p].key] = Null
  /\ resLock' = [resLock EXCEPT ![job[p].key] = p]
  /\ Goto(p, IF ClassFirst(job[p]) THEN "write" ELSE "class")
  /\ UNCHANGED <<rows, resv, snap, seatLock, classLock, job, plan, prev, buf, sbuf,
                 todo, failures>>

\* Mutant of Reserve: a duplicate is decided again instead of replayed.
ReserveRetries(p) ==
  /\ pc[p] = "reserve"
  /\ \/ /\ resv[job[p].key] # Null
        /\ Goto(p, "decide")
        /\ UNCHANGED resLock
     \/ /\ resv[job[p].key] = Null
        /\ resLock[job[p].key] = Null
        /\ resLock' = [resLock EXCEPT ![job[p].key] = p]
        /\ Goto(p, IF ClassFirst(job[p]) THEN "write" ELSE "class")
  /\ UNCHANGED <<rows, resv, snap, seatLock, classLock, job, plan, prev, buf, sbuf,
                 todo, failures>>

\* create_reserved_effects / create_transfer_pair: an accepted reservation is
\* replayed (or refused, when its fingerprint differs) and writes nothing; an
\* uncommitted one with the same key makes the insert wait on the unique index.
Reserve(p) ==
  /\ pc[p] = "reserve"
  /\ \/ /\ resv[job[p].key] # Null
        /\ EndWithout(p)
     \/ /\ resv[job[p].key] = Null
        /\ resLock[job[p].key] = Null
        /\ resLock' = [resLock EXCEPT ![job[p].key] = p]
        /\ Goto(p, IF ClassFirst(job[p]) THEN "write" ELSE "class")
        /\ UNCHANGED <<rows, resv, snap, seatLock, classLock, job, plan, prev, buf,
                       sbuf, todo>>
  /\ UNCHANGED failures

\* allocate_creation_posting_sequence: max over the class, plus one.
Allocated(p) == {r.seq : r \in rows \cup buf[p]}

NextSequence(p) == Max(Allocated(p) \cup {0}) + 1

RowOf(e, seq, key, leg) ==
  [seq |-> seq, seat |-> e.seat, acct |-> e.acct, amt |-> e.amt, type |-> e.type,
   key |-> key, leg |-> leg, of |-> e.of, comp |-> e.comp]

\* create_pending_transaction, once per effect of the next seat of the plan.
NewRows(p, s) ==
  {RowOf(plan[p][s][i], NextSequence(p) + i - 1, job[p].key, i) : i \in DOMAIN plan[p][s]}

\* Unique indexes: (class, posting_sequence) and one REVERSAL per original.
UniqueIn(new) ==
  \A n \in new, r \in rows :
    /\ r.seq # n.seq
    /\ ~(r.type = "REVERSAL" /\ n.type = "REVERSAL" /\ r.of = n.of)

SeatsToWrite(p) == {s \in Seats : plan[p][s] # <<>>}

Write(p) ==
  /\ pc[p] = "write"
  /\ \E s \in SeatsToWrite(p) :
       /\ \A t \in SeatsToWrite(p) : s =< t
       /\ UniqueIn(NewRows(p, s))
       /\ buf' = [buf EXCEPT ![p] = @ \cup NewRows(p, s)]
       /\ plan' = [plan EXCEPT ![p][s] = <<>>]
       /\ Goto(p, IF SeatsToWrite(p) = {s} THEN "commit" ELSE "write")
  /\ UNCHANGED <<rows, resv, snap, seatLock, classLock, resLock, job, prev, sbuf,
                 todo, failures>>

\* Mutant of NewCursor: the cursor runs one past the largest pending row.
CursorPastEnd(s, a) == Max({r.seq : r \in {q \in PendingRows(s) : q.acct = a}}) + 1

\* The largest pending sequence of the account: where its cursor goes.
NewCursor(s, a) == Max({r.seq : r \in {q \in PendingRows(s) : q.acct = a}})

\* Mutant of Reconciled: the balance before the pending rows is forgotten.
ReconciledPendingOnly(s, a) ==
  [cur |-> NewCursor(s, a), bal |-> SumAmounts({r \in PendingRows(s) : r.acct = a})]

\* The snapshot of an account recomputed from history through its new cursor.
Reconciled(s, a) ==
  [cur |-> NewCursor(s, a), bal |-> PostedHistoryCents(rows, s, a, NewCursor(s, a))]

\* settle_balances: each account with pending rows advances its cursor and is
\* recomputed from history through it.
Settle(p) ==
  /\ pc[p] = "decide" /\ job[p].kind = "settle"
  /\ \E s \in job[p].seats :
       \/ /\ PendingRows(s) = {}
          /\ EndWithout(p)
       \/ /\ PendingRows(s) # {}
          /\ sbuf' = [sbuf EXCEPT ![p] = [a \in Account |->
                IF \E r \in PendingRows(s) : r.acct = a THEN Reconciled(s, a) ELSE Null]]
          /\ Goto(p, "commit")
          /\ UNCHANGED <<rows, resv, snap, seatLock, classLock, resLock, job, plan,
                         prev, buf, todo>>
  /\ UNCHANGED failures

Commit(p) ==
  /\ pc[p] = "commit"
  /\ rows' = rows \cup buf[p]
  /\ resv' = [k \in Keys |-> IF resLock[k] = p THEN job[p] ELSE resv[k]]
  /\ snap' = [s \in Seats |-> [a \in Account |->
                IF s \in job[p].seats /\ sbuf[p][a] # Null THEN sbuf[p][a]
                ELSE snap[s][a]]]
  /\ Release(p)
  /\ UNCHANGED <<todo, failures>>

\* An exception, a lost connection or a killed worker rolls the command back.
Fail(p) ==
  /\ pc[p] # "idle" /\ failures < MaxFailures
  /\ failures' = failures + 1
  /\ EndWithout(p)

Step(p) ==
  LockSeat(p) \/ LockClass(p) \/ Decide(p) \/ Reserve(p) \/ Write(p) \/ Settle(p)
    \/ Commit(p)

Next ==
  \/ \E w \in Workers, c \in Commands : Submit(w, c)
  \/ SweepStart
  \/ SweepNext
  \/ \E p \in Procs : Step(p) \/ Fail(p)

Spec == Init /\ [][Next]_vars

(***************************************************************************)
(* A running transaction executes its next statement; PostgreSQL grants a  *)
(* contended row lock or unique-index wait in queue order, so a statement  *)
(* that is grantable again and again runs (strong fairness); the scheduler *)
(* keeps starting the sweep.                                               *)
(***************************************************************************)
Fairness ==
  /\ \A p \in Procs : SF_vars(Step(p))
  /\ WF_vars(SweepStart) /\ WF_vars(SweepNext)

FairSpec == Spec /\ Fairness

-----------------------------------------------------------------------------
(***************************************************************************)
(* Properties.                                                             *)
(***************************************************************************)
EffectType == [seat : Seats, acct : Account, amt : Int, type : Types, of : Nat, comp : Nat]

Snapshot == [cur : Nat, bal : Int]

Preview == [bal : [Seats -> [Account -> Int]], rec : Nat]

\* Type invariant: each table, lock and local of the ledger holds what its
\* column or variable can hold.
TypeOK ==
  /\ rows \subseteq Row
  /\ resv \in [Keys -> Commands \cup {Null}]
  /\ snap \in [Seats -> [Account -> Snapshot]]
  /\ seatLock \in [Seats -> Procs \cup {Null}]
  /\ classLock \in Procs \cup {Null}
  /\ resLock \in [Keys -> Procs \cup {Null}]
  /\ job \in [Procs -> Commands \cup {SettleJob(s) : s \in Seats} \cup {Null}]
  /\ pc \in [Procs -> {"idle", "seat", "class", "decide", "reserve", "write", "commit"}]
  /\ plan \in [Procs -> [Seats -> Seq(EffectType)]]
  /\ prev \in [Procs -> Preview]
  /\ buf \in [Procs -> SUBSET Row]
  /\ sbuf \in [Procs -> [Account -> Snapshot \cup {Null}]]
  /\ todo \subseteq Seats
  /\ failures \in 0..MaxFailures

\* INV-LED-006: a snapshot's posted balance is what a rebuild from the rows its
\* cursor admits would give (settle_balances, verify_posted_balance).
SnapshotIsHistory ==
  \A s \in Seats, a \in Account :
    snap[s][a].bal = PostedHistoryCents(rows, s, a, snap[s][a].cur)

\* The available balance read from snapshot and pending rows is the sum of the
\* account's whole history: settlement neither loses nor counts twice an effect.
AvailableIsHistory ==
  \A s \in Seats, a \in Account :
    Available(s, a) = SumAmounts({r \in rows : r.seat = s /\ r.acct = a})

\* INV-LED-005: one accepted reservation owns its effects once: a retry, however
\* it interleaves with the first attempt, adds no row, and an accepted
\* reservation always has committed effects to replay on every seat it names.
ExactlyOnce ==
  /\ \A q, r \in rows : q.key = r.key /\ q.seat = r.seat /\ q.leg = r.leg => q = r
  /\ \A r \in rows : resv[r.key] # Null
  /\ \A k \in Keys : resv[k] # Null =>
       \A s \in resv[k].seats : \E r \in rows : r.key = k /\ r.seat = s

\* INV-LED-014: the transfer legs one command commits for a seat, standalone or
\* funding a charge, are one withdrawal and one deposit that sum to zero.
TransfersBalance ==
  \A k \in Keys, s \in Seats :
    LET legs == {r \in rows : r.key = k /\ r.seat = s /\ r.type \in {"Withdrawal", "Deposit"}}
    IN  Cardinality(legs) \in {0, 2} /\ SumAmounts(legs) = 0

\* FEAT-LED-002 III.2.1: reversing a two-effect transfer "preserves the
\* equal-and-opposite total": a transfer's legs and their exact reversals sum to
\* zero, so no correction of a transfer creates or destroys money.  The code
\* reverses one row at a time (execute_void_transactions, reverse_transaction).
TransferReversalsBalance ==
  \A k \in Keys, s \in Seats :
    LET legs == {r \in rows : r.key = k /\ r.seat = s /\ r.type \in {"Withdrawal", "Deposit"}}
    IN  SumAmounts(legs \cup UNION {ExactReversals(r) : r \in legs}) = 0

\* DOM-LED-001 VII.1A and INV-LED-013: pending and posted recoveries of a credit,
\* its exact reversal included, never exceed it, and no row is reversed twice.
CompensationCapped ==
  \A o \in rows :
    /\ o.amt > 0 => RecoveredCents(o.seq) =< o.amt
    /\ Cardinality(ExactReversals(o)) =< 1

\* INV-LED-002/007: rows are only added, a posted row stays posted, and adding
\* rows posts nothing: no row is ever created at or below its account's cursor.
AppendOnly ==
  [][ /\ rows \subseteq rows'
      /\ \A r \in rows : Posted(r) => Posted(r)'
      /\ \A r \in rows' \ rows : ~Posted(r)' ]_vars

\* INV-LED-015: no student transfer, funded charge or protection transfer drives
\* an account below zero; only a fine, a reversal or a payroll correction may.
OnlyForcedDebitsOverdraw ==
  [][ \A s \in Seats, a \in Account :
        Available(s, a)' < 0 /\ Available(s, a)' < Available(s, a) =>
          \E r \in rows' \ rows :
            /\ r.seat = s /\ r.acct = a
            /\ r.type \in {"penalty", "REVERSAL", "payroll_correction"} ]_vars

\* A row as its command's caller knows it: without sequence or correction marks.
EntryOf(r) ==
  [key |-> r.key, seat |-> r.seat, leg |-> r.leg, acct |-> r.acct, amt |-> r.amt,
   type |-> r.type]

Entries == {EntryOf(r) : r \in rows}

\* What a caller sees: balances, accepted commands, entries and corrections.
Balances == [s \in Seats |-> [a \in Account |-> Available(s, a)]]

Accepted == {resv[k] : k \in Keys} \ {Null}

Recovered ==
  [e \in Entries |-> RecoveredCents((CHOOSE r \in rows : EntryOf(r) = e).seq)]

Reversed == {EntryOf(r) : r \in {o \in rows : ExactReversals(o) # {}}}

\* The ledger is linearizable: seen through available balances and the rows'
\* entries, each command takes effect once, at its commit, on what was committed
\* before it - the checks made under the locks are not stale when the rows appear.
Atomic == INSTANCE AtomicLedger WITH
  bal <- Balances, accepted <- Accepted, book <- Entries, recovered <- Recovered,
  reversed <- Reversed

ImplementsAtomicLedger == Atomic!AtomicSpec

\* The sweep admits every effect: nothing a command wrote stays pending forever.
EffectsPost ==
  \A k \in Keys :
    [](resv[k] # Null => <>(\A r \in rows : r.key = k => Posted(r)))

\* No command waits forever for a lock, a reservation or the sweep.
CommandsFinish == \A p \in Procs : pc[p] # "idle" ~> pc[p] = "idle"

=============================================================================
