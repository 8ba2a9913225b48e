----------------------------- MODULE LockOrder ------------------------------
(***************************************************************************)
(* The row locks (SELECT ... FOR UPDATE) the FEATs of one class take, and  *)
(* the order they take them in.  A database transaction acquires the rows  *)
(* of its lock program one by one and frees them all when it ends; a row   *)
(* it already holds is granted at once.  A set of transactions that wait   *)
(* for each other is a deadlock: PostgreSQL kills one of them and the      *)
(* request or job it served fails.                                         *)
(*                                                                         *)
(* Each operator under "Lock programs" is the sequence of rows one writer  *)
(* locks.  Rows of other tables that only one of the writers locks, and    *)
(* the audit chain head that every writer locks last, are left out: they   *)
(* add no cycle.                                                           *)
(***************************************************************************)
EXTENDS Integers, Sequences

CONSTANTS
  Procs,     \* database sessions: web workers and scheduled jobs
  Seats,     \* seat ids of the class
  LastSeat,  \* no seat id is larger
  Writers,   \* the lock programs that may run
  Null

SeatRow(s) == <<"seat", s>>
RequestRow(s) == <<"request", s>>   \* the seat's pending hall-pass request
ClassRow == <<"class", 0>>

Lock == {SeatRow(s) : s \in Seats} \cup {RequestRow(s) : s \in Seats} \cup {ClassRow}

ASSUME LockOrderAssumption ==
  /\ LastSeat \in Nat /\ Seats \subseteq 0..LastSeat
  /\ Writers \subseteq Seq(Lock) \ {<<>>}
  /\ Null \notin Procs

-----------------------------------------------------------------------------
(***************************************************************************)
(* Lock programs.  q is a sequence of seats, s one seat.                   *)
(***************************************************************************)
SeatRows(q) == [i \in DOMAIN q |-> SeatRow(q[i])]

\* settle_balances, lock_recovery_scope, execute_account_transfer,
\* allocate_creation_posting_sequence: one seat's money.
SeatMoney(s) == <<SeatRow(s), ClassRow>>

\* Mutant of TeacherPenalty: the class row is locked before the seats.
TeacherPenaltyClassFirst(q) == <<ClassRow>> \o SeatRows(q)

\* execute_teacher_penalty: lock_ledger_seats, then the class.
TeacherPenalty(q) == SeatRows(q) \o <<ClassRow>>

\* execute_void_transactions: lock_ledger_seats, then each reversal relocks.
VoidBatch(q) == SeatRows(q) \o <<ClassRow>>

\* run_savings_interest_job: lock_ledger_seats, then each credit allocates.
SavingsInterest(q) == SeatRows(q) \o <<ClassRow>>

\* settle_class_payroll_cycle: lock_attendance_seat for every eligible seat,
\* then each seat's event takes the class row.
PayrollCycle(q) == SeatRows(q) \o <<ClassRow>>

\* submit_hall_pass_request
SubmitHallPass(s) == <<SeatRow(s), RequestRow(s)>>

\* Mutant of ApproveHallPass: the request is locked before its seat.
ApproveHallPassRequestFirst(s) == <<RequestRow(s), SeatRow(s), ClassRow>>

\* approve_hall_pass_request, then _enforce_hall_pass_settings' class lock.
ApproveHallPass(s) == <<SeatRow(s), RequestRow(s), ClassRow>>

\* reject_hall_pass_request, cancel_hall_pass_request
DropHallPass(s) == <<RequestRow(s)>>

\* close_prior_day_hall_pass_requests on two seats: seat, its request, next.
ClosePriorDay(s, t) == <<SeatRow(s), RequestRow(s), SeatRow(t), RequestRow(t)>>

\* expire_lapsed_collective_goal: reverse_transaction per purchase, in the order
\* the purchases were made; the class row is held from the first one on.
GoalExpiry(s, t) == SeatMoney(s) \o SeatMoney(t)

\* unclaim_student_seat: the class row, then the seat row (claiming a seat and
\* roster deletion take them in this order too).
UnclaimSeat(s) == <<ClassRow, SeatRow(s)>>

-----------------------------------------------------------------------------
VARIABLES
  prog,    \* session -> the lock program it runs, <<>> when idle
  at,      \* session -> how many of its locks it has
  owner    \* row -> the session that holds it

vars == <<prog, at, owner>>

Init ==
  /\ prog = [p \in Procs |-> <<>>]
  /\ at = [p \in Procs |-> 0]
  /\ owner = [l \in Lock |-> Null]

Begin(p) ==
  /\ prog[p] = <<>>
  /\ \E w \in Writers : prog' = [prog EXCEPT ![p] = w]
  /\ UNCHANGED <<at, owner>>

Wanted(p) == prog[p][at[p] + 1]

Acquiring(p) == at[p] < Len(prog[p])

Acquire(p) ==
  /\ Acquiring(p)
  /\ owner[Wanted(p)] \in {Null, p}
  /\ owner' = [owner EXCEPT ![Wanted(p)] = p]
  /\ at' = [at EXCEPT ![p] = @ + 1]
  /\ UNCHANGED prog

\* The transaction ends: every row it locked is free again.
Release(p) ==
  /\ prog' = [prog EXCEPT ![p] = <<>>]
  /\ at' = [at EXCEPT ![p] = 0]
  /\ owner' = [l \in Lock |-> IF owner[l] = p THEN Null ELSE owner[l]]

Commit(p) == prog[p] # <<>> /\ ~Acquiring(p) /\ Release(p)

\* A refusal, an exception or a lost connection, at any point.
Rollback(p) == prog[p] # <<>> /\ Release(p)

Next == \E p \in Procs : Begin(p) \/ Acquire(p) \/ Commit(p) \/ Rollback(p)

Spec == Init /\ [][Next]_vars

\* Row locks are granted in queue order, and a transaction that has its locks
\* ends.  Nothing obliges a transaction to roll back.
Fairness == \A p \in Procs : SF_vars(Acquire(p)) /\ WF_vars(Commit(p))

FairSpec == Spec /\ Fairness

-----------------------------------------------------------------------------
\* Type invariant: a session is at most at the end of the program it runs, and
\* every row is free or locked by a session.
TypeOK ==
  /\ prog \in [Procs -> Writers \cup {<<>>}]
  /\ at \in [Procs -> Nat]
  /\ \A p \in Procs : at[p] =< Len(prog[p])
  /\ owner \in [Lock -> Procs \cup {Null}]

\* Session p waits for a row that session q holds.
WaitsFor(p, q) == p # q /\ Acquiring(p) /\ owner[Wanted(p)] = q

\* The deadlock the lock-order comments of ledger_settlement_service, prod and
\* hall_pass_request_feat rule out: sessions that all wait for one another.
NoCircularWait ==
  \A D \in SUBSET Procs : D # {} => \E p \in D : \A q \in D : ~WaitsFor(p, q)

\* No transaction waits for its row locks forever.
WritersFinish == \A p \in Procs : prog[p] # <<>> ~> prog[p] = <<>>

-----------------------------------------------------------------------------
(***************************************************************************)
(* The order DOM-LED-001 and the hall-pass FEATs prescribe: seats by id,   *)
(* a seat's pending request after the seat, the class row last.            *)
(***************************************************************************)
Before(k, l) ==
  /\ k # ClassRow
  /\ \/ l = ClassRow
     \/ k[2] < l[2]
     \/ \E s \in Seats : k = SeatRow(s) /\ l = RequestRow(s)

\* Every lock a program takes is taken before, or again with, the later ones.
Ordered(w) == \A i, j \in DOMAIN w : i < j => w[i] = w[j] \/ Before(w[i], w[j])

Ascending(q) == \A i, j \in DOMAIN q : i < j => q[i] < q[j]

=============================================================================
