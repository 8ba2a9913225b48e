------------------------------- MODULE Payroll -------------------------------
(***************************************************************************)
(* Payroll of one class: attendance becomes closed pairs, a run pays the   *)
(* pairs no event has paid, and a teacher may rule a pair out.  Whoever    *)
(* writes reads the clock first and locks the seats afterwards: a row may  *)
(* land behind rows already there, and two runs may settle in the other    *)
(* order than their boundaries.  Nothing says "paid": every reading        *)
(* derives it from the pairs frozen in the events recorded at or before    *)
(* its own instant.                                                        *)
(***************************************************************************)
EXTENDS Attendance, SequencesExt, TLC

CONSTANTS
  Seats,      \* claimed student seats of the class
  Passes,     \* hall passes issued
  Holder,     \* the seat each pass was issued to
  Workers,    \* processes that run payroll: the scheduler, teachers' requests
  Tokens,     \* idempotency tokens of rendered payroll pages
  PayPeriod,  \* instants between two paydays, a multiple of the day
  NoRun,      \* a worker with no run under way
  MaxRows,     \* bound: a tap adds no row to a seat that has this many
  MaxInFlight, \* bound: attendance handlers between their reads and their lock
  LastStart,   \* bound: the last instant at which such a handler starts
  LastInstant  \* bound: instants passed

ASSUME PayrollConstants ==
  /\ IsFiniteSet(Seats) /\ Holder \in [Passes -> Seats]
  /\ PayPeriod \in Nat \ {0} /\ PayPeriod % DayLength = 0
  /\ {MaxRows, MaxInFlight, LastStart, LastInstant} \subseteq Nat

VARIABLES
  now,      \* the current instant, never the first of a day
  log,      \* attendance_sessions of each seat
  inflight, \* attendance handlers that have read and not yet locked the seat
  events,   \* payroll_event rows, in commit order
  done,     \* idempotency keys of payroll_cycle_completion
  runs,     \* what each worker read before it locks the seats
  previews, \* previews of invalidations a teacher has on screen
  invalid   \* attendance_interval_invalidation rows

vars == <<now, log, inflight, events, done, runs, previews, invalid>>

Init ==
  /\ now = 1
  /\ log = [s \in Seats |-> {}] /\ inflight = {}
  /\ events = <<>> /\ done = {}
  /\ runs = [w \in Workers |-> NoRun]
  /\ previews = {} /\ invalid = {}

Tick ==
  /\ now < LastInstant
  /\ now' = IF (now + 1) % DayLength = 0 THEN now + 2 ELSE now + 1
  /\ UNCHANGED <<log, inflight, events, done, runs, previews, invalid>>

-----------------------------------------------------------------------------
(* Attendance: taps, hall passes and the hourly sweep.  Each checks the seat *)
(* and reads the clock before it waits for the seat's lock, and whatever     *)
(* runs meanwhile commits before it: first it is put in flight, and what it  *)
(* writes under the lock is a step of its own, dated before the wait.        *)

Start(op) ==
  /\ now <= LastStart /\ Cardinality(inflight) < MaxInFlight
  /\ inflight' = inflight \cup {op}
  /\ UNCHANGED <<now, log, events, done, runs, previews, invalid>>

Tap(s, status, reason, pass) ==
  Start([op |-> "record", seat |-> s, status |-> status, reason |-> reason,
         pass |-> pass, since |-> now])

\* The route answers a start over a live session, and a stop without one.
handle_tap(s, status) ==
  /\ is_live_session(Latest(log[s]), now) <=> status = "inactive"
  /\ Tap(s, status, IF status = "active" THEN "start_work" ELSE "done_for_day", NoPass)

checkout_hall_pass(s, p) ==
  /\ Holder[p] = s /\ resolve_hall_pass_lifecycle_status(log[s], p) = "approved"
  /\ Tap(s, "inactive", "hall_pass", p)

checkin_hall_pass(s, p) ==
  /\ Holder[p] = s /\ resolve_hall_pass_lifecycle_status(log[s], p) # "returned"
  /\ Tap(s, "active", "start_work", p)

\* The job selects its seats, reads the clock and takes up one seat after the other.
enforce_daily_limits_job(s) ==
  SweepSelects(log[s]) /\ Start([op |-> "sweep", seat |-> s, since |-> now])

\* When the clock may have been read: after the checks, before the lock.
ReadAt(op) == { t \in op.since..now : t % DayLength # 0 }

Finish(op, rows) ==
  /\ inflight' = inflight \ {op}
  /\ log' = [log EXCEPT ![op.seat] = rows]
  /\ UNCHANGED <<now, events, done, runs, previews, invalid>>

\* Under the lock the seat is read again: what it does not allow writes nothing.
record_attendance_session(op) ==
  LET rows == log[op.seat]
      allowed(t) == /\ Cardinality(rows) < MaxRows
                    /\ RecordAllowed(rows, t, op.status, op.reason, op.pass)
  IN /\ op.op = "record"
     /\ \E t \in ReadAt(op) :
          Finish(op, IF allowed(t)
                     THEN Recorded(rows, t, op.status, op.reason, op.pass, "self")
                     ELSE rows)

\* Both closures of the sweep, as of the instant the job read.
SweepSeat(op) ==
  /\ op.op = "sweep"
  /\ \E t \in ReadAt(op) : \E rows \in {Swept(log[op.seat], t)} : Finish(op, rows)

-----------------------------------------------------------------------------
(* What a seat is owed, read as of an instant. *)

EventsOf(s, asOf) ==
  { i \in 1..Len(events) : events[i].seat = s /\ events[i].at <= asOf }

PaidPairs(s, asOf) == UNION { events[i].pairs : i \in EventsOf(s, asOf) }

\* Only what two events both name is refused.
OnlyNamedTwice(rows, s, asOf) ==
  \E i, j \in EventsOf(s, asOf) : i # j /\ events[i].pairs \cap events[j].pairs # {}

\* Frozen evidence that no longer matches the timeline, or names a pair twice.
InvalidEvidence(rows, s, asOf) ==
  \/ ~(PaidPairs(s, asOf) \subseteq Closed(list_attendance_intervals(rows, asOf)))
  \/ \E i, j \in EventsOf(s, asOf) : i # j /\ events[i].pairs \cap events[j].pairs # {}

RuledOut(s) == { r.pair : r \in { q \in invalid : q.seat = s } }

\* The closed, unpaid part; a session still open is never payable.
calculate_seat_payroll_intervals(rows, s, asOf) ==
  { i \in Closed(list_attendance_intervals(rows, asOf)) \ PaidPairs(s, asOf) :
      <<i.opening, i.closing>> \notin RuledOut(s) /\ i.from < i.to }

-----------------------------------------------------------------------------
(* The schedule. *)

SystemEvents(asOf) ==
  { i \in 1..Len(events) : events[i].mech = "SYSTEM" /\ events[i].at <= asOf }

\* The occurrence of the SYSTEM event recorded last, by its time and then its id.
last_system_payroll_occurrence(asOf) ==
  LET at == Max({ events[i].at : i \in SystemEvents(asOf) })
  IN events[Max({ i \in SystemEvents(asOf) : events[i].at = at })].occurrence

\* The first payday until the schedule has run, then the one after the last
\* occurrence it settled; a teacher's run is no input.
next_payroll_date(asOf) ==
  IF SystemEvents(asOf) = {} THEN PayPeriod
  ELSE ((last_system_payroll_occurrence(asOf) \div PayPeriod) + 1) * PayPeriod

-----------------------------------------------------------------------------
(* Runs. *)

\* The boundary is read; the replay guard finds no completed run of this key.
Begin(w, key, mech, occurrence) ==
  /\ runs[w] = NoRun /\ key \notin done
  /\ runs' = [runs EXCEPT ![w] = [key |-> key, mech |-> mech, boundary |-> now,
                                  occurrence |-> occurrence]]
  /\ UNCHANGED <<now, log, inflight, events, done, previews, invalid>>

run_automatic_payroll_job(w) ==
  LET due == next_payroll_date(now)
  IN due <= now /\ Begin(w, <<"auto", due>>, "SYSTEM", due)

run_payroll(w, token) == Begin(w, <<"manual", token>>, "TEACHER", 0)

\* Under the seat locks: due sessions are closed as of the run's boundary ...
ClosedBy(r) ==
  [s \in Seats |-> IF log[s] = {} THEN log[s]
                   ELSE close_due_attendance_intervals(log[s], r.boundary)]

\* ... and each seat that is owed something gets one event.
PayrollEvents(r, rows) ==
  { e \in { [seat |-> s, at |-> r.boundary, mech |-> r.mech, key |-> r.key,
             occurrence |-> r.occurrence,
             pairs |-> calculate_seat_payroll_intervals(rows[s], s, r.boundary)] :
              s \in Seats } : e.pairs # {} }

\* The second run of a key overwrites the completion.
AnchorOverwritten(r) == FALSE

\* record_run_completion: another run of this key committed while this waited.
CompletionConflict(r) == r.key \in done

\* Every refusal below rolls the whole run back.
complete_payroll_cycle(w) ==
  LET r == runs[w]
  IN /\ r # NoRun
     /\ \E rows \in {ClosedBy(r)} : \E paid \in {PayrollEvents(r, rows)} :
          IF \/ \E s \in Seats : InvalidEvidence(rows[s], s, r.boundary)
             \/ paid = {}
             \/ CompletionConflict(r)
          THEN UNCHANGED <<log, events, done>>
          ELSE /\ log' = rows
               /\ \E order \in SetToSeqs(paid) : events' = events \o order
               /\ done' = done \cup {r.key}
     /\ runs' = [runs EXCEPT ![w] = NoRun]
     /\ UNCHANGED <<now, inflight, previews, invalid>>

-----------------------------------------------------------------------------
(* A teacher rules a completed interval out. *)

Disposition(s, pair) == IF pair \in PaidPairs(s, now) THEN "PAID" ELSE "UNPAID"

preview_attendance_interval_invalidation(s) ==
  /\ previews = {}
  /\ ~InvalidEvidence(log[s], s, now)
  /\ \E pair \in Closed(list_attendance_intervals(log[s], now)) :
       /\ <<pair.opening, pair.closing>> \notin RuledOut(s)
       /\ previews' = {[seat |-> s, pair |-> pair, disposition |-> Disposition(s, pair)]}
  /\ UNCHANGED <<now, log, inflight, events, done, runs, invalid>>

PairStillThere(p) ==
  p.pair \in Closed(list_attendance_intervals(log[p.seat], now))

\* The preview is taken again under the locks and must be the one that was shown.
SamePreview(p) ==
  /\ p.pair \in Closed(list_attendance_intervals(log[p.seat], now))
  /\ ~InvalidEvidence(log[p.seat], p.seat, now)
  /\ Disposition(p.seat, p.pair) = p.disposition

invalidate_attendance_interval(p) ==
  /\ p \in previews /\ previews' = {}
  /\ invalid' =
       IF SamePreview(p) /\ <<p.pair.opening, p.pair.closing>> \notin RuledOut(p.seat)
       THEN invalid \cup { [seat |-> p.seat, disposition |-> p.disposition,
                            pair |-> <<p.pair.opening, p.pair.closing>>] }
       ELSE invalid
  /\ UNCHANGED <<now, log, inflight, events, done, runs>>

-----------------------------------------------------------------------------
Next ==
  \/ Tick
  \/ \E s \in Seats :
       \/ \E status \in {"active", "inactive"} : handle_tap(s, status)
       \/ \E p \in Passes : checkout_hall_pass(s, p) \/ checkin_hall_pass(s, p)
       \/ enforce_daily_limits_job(s)
       \/ preview_attendance_interval_invalidation(s)
  \/ \E op \in inflight : record_attendance_session(op) \/ SweepSeat(op)
  \/ \E p \in previews : invalidate_attendance_interval(p)
  \/ \E w \in Workers :
       \/ run_automatic_payroll_job(w)
       \/ \E token \in Tokens : run_payroll(w, token)
       \/ complete_payroll_cycle(w)

Spec == Init /\ [][Next]_vars

-----------------------------------------------------------------------------
(* Properties. *)

\* Rows have their shape; no handler, run or event is dated ahead of the clock, and
\* no event pays nothing.
TypeOK ==
  /\ now \in Nat /\ now % DayLength # 0
  /\ \A op \in inflight : op.seat \in Seats /\ op.since \in 0..now
  /\ log \in [Seats -> SUBSET RowType(Passes)]
  /\ \A i \in 1..Len(events) :
       events[i].seat \in Seats /\ events[i].at <= now /\ events[i].pairs # {}
  /\ \A w \in Workers : runs[w] # NoRun => runs[w].boundary <= now

PaidTwice ==
  \E i, j \in 1..Len(events) :
    i # j /\ events[i].seat = events[j].seat /\ events[i].pairs \cap events[j].pairs # {}

InBoundaryOrder ==
  \A i, j \in 1..Len(events) : i < j => events[i].at <= events[j].at

\* As long as runs settle in the order of their boundaries, whatever teachers and
\* the scheduler start side by side, no session is paid twice.
PaidOnceInOrder == InBoundaryOrder => ~PaidTwice

Overlap(p, q) == p.from < q.to /\ q.from < p.to

\* Nor is any instant of a student's attendance, which says more, as no pair is
\* empty: rows that land late, of taps and sweeps that waited for the lock, may
\* split, move or reopen sessions, and a run that finds a paid one changed pays
\* nothing (calculate_seat_payroll_intervals).
InstantsPaidOnce ==
  InBoundaryOrder =>
    \A i, j \in 1..Len(events) : events[i].seat = events[j].seat =>
      \A p \in events[i].pairs, q \in events[j].pairs :
        Overlap(p, q) => i = j /\ p = q

\* Rows land in the order of their instants, those the sweep dates to a midnight
\* excepted.
LandedInOrder(rows) ==
  \A q, r \in rows : q.id < r.id /\ r.at % DayLength # 0 => q.at <= r.at

\* A seat whose frozen evidence no longer matches blocks every settlement of its
\* class.  Where runs settle in boundary order and no row waited behind a later
\* one, nothing does that: neither a day's end recorded days later by the sweep,
\* nor a hanging pass's return and stop dated between rows already paid.
EvidenceStaysProvable ==
  InBoundaryOrder =>
    \A s \in Seats : LandedInOrder(log[s]) => ~InvalidEvidence(log[s], s, now)

\* Without that condition it fails: a tap that read the clock before a session's
\* limit, and waited while a run closed it there and paid it, is dated before the
\* close, and the scan pairs the session with the tap instead.
EvidenceAlwaysProvable ==
  InBoundaryOrder => \A s \in Seats : ~InvalidEvidence(log[s], s, now)

\* Scheduled paydays are settled one after the other, and all the events of one
\* come from a single run, however often the job retries or overlaps itself.
PaydaysInTurn ==
  \A j \in 1..Len(events) : events[j].mech = "SYSTEM" =>
    /\ \/ events[j].occurrence = PayPeriod
       \/ \E i \in 1..(j - 1) : /\ events[i].mech = "SYSTEM"
                                /\ events[i].occurrence + PayPeriod = events[j].occurrence
    /\ \A i \in 1..(j - 1) :
         events[i].key = events[j].key => events[i].at = events[j].at

\* A ruling recorded as being about unpaid time is: no run paid the pair between
\* the preview and the ruling, and none pays it afterwards.
RulingHonoured ==
  \A r \in invalid :
    r.disposition = "UNPAID" =>
      \A i \in 1..Len(events) : events[i].seat = r.seat =>
        r.pair \notin { <<p.opening, p.closing>> : p \in events[i].pairs }

\* calculate_seat_payroll_intervals: "Every session is therefore paid exactly
\* once and never split across windows."
PaidOnce == ~PaidTwice
=============================================================================
