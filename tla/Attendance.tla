----------------------------- MODULE Attendance -----------------------------
(***************************************************************************)
(* The attendance log of one seat and what the code derives from it.  A    *)
(* log is the set of the seat's attendance_sessions rows; every reader     *)
(* orders it by timestamp and then row id.  The operators are the readers  *)
(* of attendance_service and the writers of attendance_writer_service; the *)
(* modules that own logs (HallPasses, Payroll) apply them under the seat's *)
(* row lock, as lock_attendance_seat does.                                 *)
(***************************************************************************)
EXTENDS Naturals, Sequences, FiniteSets, FiniteSetsExt, Folds

CONSTANTS
  DayLength,   \* instants of one class-local day: midnight and those after it
  DailyLimit,  \* credited instants a day may hold, 0 when there is none
  NoPass       \* hall_pass_id of a row that names no pass

ASSUME AttendanceConstants ==
  /\ DayLength \in Nat /\ DayLength > 1
  /\ DailyLimit \in Nat

DayStart(t) == (t \div DayLength) * DayLength
DayEnd(t) == DayStart(t) + DayLength

\* No row carries the id 0.
NoRow == [id |-> 0, status |-> "none", reason |-> "none", pass |-> NoPass,
          at |-> 0, mech |-> "none"]

Reasons == {"start_work", "hall_pass", "done_for_day"}

RowType(passes) ==
  [id: Nat \ {0}, status: {"active", "inactive"}, reason: Reasons,
   pass: passes \cup {NoPass}, at: Nat, mech: {"self", "teacher", "system"}]

LastIdFirst(q, r) == q.at < r.at \/ (q.at = r.at /\ q.id > r.id)

\* Every reader's ORDER BY timestamp, id.
Precedes(q, r) == q.at < r.at \/ (q.at = r.at /\ q.id < r.id)

LastOf(rows) == CHOOSE r \in rows : ~\E q \in rows : Precedes(r, q)

Latest(log) == IF log = {} THEN NoRow ELSE LastOf(log)

Row(id, status, reason, pass, at, mech) ==
  [id |-> id, status |-> status, reason |-> reason, pass |-> pass, at |-> at, mech |-> mech]

\* A new row takes the next id, so it follows the rows of its own instant.
Append1(log, status, reason, pass, at, mech) ==
  log \cup { Row(Cardinality(log) + 1, status, reason, pass, at, mech) }

before_current_class_day(at, t) == at < DayStart(t)

is_live_session(row, t) ==
  /\ row.status = "active"
  /\ ~before_current_class_day(row.at, t)

IsHallPassExit(row) == row.status = "inactive" /\ row.reason = "hall_pass"

-----------------------------------------------------------------------------
(* Pairing rows into intervals. *)

Interval(opening, closing, to) ==
  [opening |-> opening.id, closing |-> closing, from |-> opening.at,
   to |-> to, mech |-> opening.mech]

\* The recorded system close of a day whose end was reached unclosed.
BoundaryClose(log, end, used) ==
  LET found == { r \in log :
                   /\ r.id \notin used /\ r.status = "inactive" /\ r.at = end
                   /\ r.mech = "system" /\ r.reason = "done_for_day" }
  IN IF found = {} THEN 0 ELSE Min({ r.id : r \in found })

\* One row of the scan: the open row, the closings already used, the pairs.
Scan(log, acc, row) ==
  LET open == acc.open
      end == DayEnd(open.at)
      boundary == BoundaryClose(log, end, acc.used)
  IN CASE row.id \in acc.used -> acc
       [] row.status = "active" /\ open.id = 0 -> [acc EXCEPT !.open = row]
       [] row.status = "active" /\ open.id # 0 /\ row.at < end -> acc
       [] row.status = "active" /\ open.id # 0 /\ row.at >= end ->
            [open |-> row, used |-> acc.used \cup ({boundary} \ {0}),
             pairs |-> acc.pairs \cup {Interval(open, boundary, end)}]
       [] row.status = "inactive" /\ open.id = 0 -> acc
       [] OTHER ->
            [open |-> NoRow, used |-> acc.used,
             pairs |-> acc.pairs \cup { IF row.at > end THEN Interval(open, 0, end)
                                        ELSE Interval(open, row.id, row.at) }]

\* The intervals of a log as of an instant; closing 0 is a session still open
\* then, or one whose day ended with no close on record.  The fold scans the rows
\* in order, as it takes the last one last.  (The one-element set makes TLC
\* evaluate what came before once.)
list_attendance_intervals(log, asOf) ==
  LET scanned == MapThenFoldSet(
        LAMBDA row, acc : CHOOSE x \in { Scan(log, a, row) : a \in {acc} } : TRUE,
        [open |-> NoRow, used |-> {}, pairs |-> {}],
        LAMBDA row : row, LastOf, { r \in log : r.at <= asOf })
  IN UNION { last.pairs \cup
               IF last.open.id = 0 THEN {}
               ELSE { Interval(last.open, 0, Min({asOf, DayEnd(last.open.at)})) } :
             last \in {scanned} }

Closed(intervals) == { i \in intervals : i.closing # 0 }

elapsed_attendance_seconds(intervals) ==
  MapThenSumSet(LAMBDA i : i.to - i.from, intervals)

-----------------------------------------------------------------------------
(* Done for the day. *)

is_done_for_day(log, t) ==
  LET start == DayStart(t)
      rows == { r \in log :
                  /\ r.status = "inactive" /\ r.reason = "done_for_day"
                  /\ r.at >= start /\ r.at < DayEnd(t) }
      priorDay == { i.closing : i \in
                      { j \in list_attendance_intervals(log, start) :
                          j.mech = "system" \/ j.from < start } }
  IN \/ \E r \in rows : r.at # start
     \/ \E r \in rows : r.id \notin priorDay

-----------------------------------------------------------------------------
(* The one writer, and the two closures of the scheduled sweep. *)

\* Everything record_attendance_session_command refuses, given a claimed seat.
RecordAllowed(log, t, status, reason, pass) ==
  LET last == Latest(log)
      sameDay == DayStart(t) = DayStart(last.at)
      returning == pass # NoPass /\ pass = last.pass
  IN /\ status = "inactive" /\ reason = "hall_pass" =>
          pass # NoPass /\ is_live_session(last, t)
     /\ status = "active" =>
          /\ pass # NoPass => IsHallPassExit(last) /\ last.pass = pass
          /\ ~is_done_for_day(log, t)
          /\ IsHallPassExit(last) => (sameDay <=> returning)

\* A start over an open session closes that session first, on its own day.
Recorded(log, t, status, reason, pass, mech) ==
  LET last == Latest(log)
      closed == IF status = "active" /\ last.status = "active"
                THEN Append1(log, "inactive", "done_for_day", NoPass,
                             Min({t, DayEnd(last.at)}), mech)
                ELSE log
  IN Append1(closed, status, reason, pass, t, mech)

\* When an unclosed interval must end: its day's end, or earlier at the limit.
DueAt(intervals, i) ==
  LET start == DayStart(i.from)
      previous == elapsed_attendance_seconds({ j \in Closed(intervals) :
                               start <= j.from /\ j.from < i.from })
      remaining == IF previous >= DailyLimit THEN 0 ELSE DailyLimit - previous
  IN IF DailyLimit = 0 THEN DayEnd(i.from)
                       ELSE Min({DayEnd(i.from), i.from + remaining})

\* One close for each instant that is due, in order.
close_due_attendance_intervals(log, asOf) ==
  LET intervals == list_attendance_intervals(log, asOf)
      due == { d \in 0..asOf :
                 \E i \in intervals : i.closing = 0 /\ DueAt(intervals, i) = d }
      id(d) == Cardinality(log) + 1 + Cardinality({ e \in due : e < d })
  IN log \cup { Row(id(d), "inactive", "done_for_day", NoPass, d, "system") : d \in due }

OnlyLatestExit(log, asOf) ==
  { r \in {Latest(log)} : IsHallPassExit(r) /\ DayEnd(r.at) <= asOf }

\* Passes with an exit and no active row naming them, whose day has ended.
HangingExits(log, asOf) ==
  { r \in log :
      /\ IsHallPassExit(r)
      /\ ~\E q \in log : q.status = "active" /\ q.pass = r.pass
      /\ DayEnd(r.at) <= asOf }

\* For each, in order, a return at its day's end and the end of work there.
close_due_hanging_hall_pass(log, asOf) ==
  LET exits == HangingExits(log, asOf)
      id(r) == Cardinality(log) + 2 * Cardinality({ q \in exits : Precedes(q, r) })
  IN log
     \cup { Row(id(r) + 1, "active", "start_work", r.pass, DayEnd(r.at), "system") :
               r \in exits }
     \cup { Row(id(r) + 2, "inactive", "done_for_day", NoPass, DayEnd(r.at), "system") :
               r \in exits }

\* The seats the sweep looks at: a session open, or a pass out with no return.
SweepSelects(log) ==
  \/ Latest(log).status = "active"
  \/ \E r \in log :
       /\ r.reason = "hall_pass"
       /\ ~\E q \in log : q.status = "active" /\ q.pass = r.pass

\* The hourly sweep of one claimed seat.
Swept(log, t) ==
  CHOOSE x \in { close_due_hanging_hall_pass(l, t) :
                   l \in {close_due_attendance_intervals(log, t)} } : TRUE

-----------------------------------------------------------------------------
(* A pass's state, from the rows that name it. *)

StatusFromLatestRow(log, pass) ==
  CASE Latest(log).pass # pass -> "approved"
    [] IsHallPassExit(Latest(log)) -> "left"
    [] OTHER -> "returned"

\* Left at its first exit, returned at the first active row from then on.
resolve_hall_pass_lifecycle_status(log, pass) ==
  LET left == { r \in log : r.pass = pass /\ IsHallPassExit(r) }
      back == { r \in log : /\ r.pass = pass /\ r.status = "active"
                            /\ \E q \in left : q.at <= r.at }
  IN IF left = {} THEN "approved" ELSE IF back = {} THEN "left" ELSE "returned"

=============================================================================
