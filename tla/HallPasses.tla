----------------------------- MODULE HallPasses -----------------------------
(***************************************************************************)
(* Hall passes of one class: the entitlement that is granted, the request  *)
(* that reserves it, the log that uses it, and the attendance rows that    *)
(* say whether its holder is out.  A pass ends by a use log or by a        *)
(* terminal event, which live in different tables, so what makes it end    *)
(* once is the seat lock every such writer takes (lock_hall_pass_holder)   *)
(* and the pending-action row that reserves it.                            *)
(*                                                                         *)
(* A route reads before the FEAT it calls takes the seat lock.  Such a     *)
(* handler is two actions: Check... puts what it read in flight, Commit... *)
(* is the locked transaction, which may run after anything else.           *)
(***************************************************************************)
EXTENDS Attendance, TLC

CONSTANTS
  Seats,          \* claimed student seats of the class
  Passes,         \* entitlement ids of HALL_PASS lineages
  InitialGrants,  \* passes granted before the behaviour starts, oldest first
  Holder,         \* the seat a pass is granted to
  Acquisition,    \* GRANT, PURCHASE or PERK
  Destinations,   \* the pass types of the class's settings
  Consuming,      \* destinations whose consume_pass is set
  MaxQueue,       \* max_queue of each destination
  MaxQueueLimit,  \* the settings' max_queue_limit
  Mechanisms,     \* who records: self, teacher
  MaxRequests,    \* bound: requests submitted
  MaxUses,        \* bound: passes issued
  MaxRows,        \* bound: attendance rows of each seat that are not the sweep's
  MaxInFlight,    \* bound: handlers between their check and their commit
  LastInstant     \* bound: instants passed

ASSUME HallPassConstants ==
  /\ InitialGrants \in Seq(Passes)
  /\ \A i, j \in 1..Len(InitialGrants) :
       InitialGrants[i] = InitialGrants[j] => i = j
  /\ Holder \in [Passes -> Seats]
  /\ Acquisition \in [Passes -> {"GRANT", "PURCHASE", "PERK"}]
  /\ IsFiniteSet(Destinations) /\ Consuming \subseteq Destinations
  /\ MaxQueue \in [Destinations -> Nat] /\ MaxQueueLimit \in Nat
  /\ NoPass \notin Passes /\ Mechanisms \subseteq {"self", "teacher"}
  /\ MaxRows \in [Seats -> Nat]
  /\ {MaxRequests, MaxUses, MaxInFlight, LastInstant} \subseteq Nat

VARIABLES
  now,        \* the current instant, never the first of a day
  granted,    \* GRANTED events, oldest first
  terminal,   \* REVOKED or EXPIRED event of a lineage, or "none"
  requests,   \* pending_actions rows of kind hall_pass_request
  submitted,  \* ids given to requests so far
  uses,       \* hall_pass_logs, oldest first
  log,        \* attendance_sessions of each seat
  inflight    \* handlers that have read and not yet locked

vars == <<now, granted, terminal, requests, submitted, uses, log, inflight>>

\* Only the day of a request or of an issued pass is ever read, so its time is cut
\* to the start of that day; the times of attendance rows are kept whole.
Requests ==
  [id: Nat, seat: Seats, pass: Passes, dest: Destinations, at: Nat]

Uses ==
  [seat: Seats, pass: Passes \cup {NoPass}, dest: Destinations, at: Nat]

-----------------------------------------------------------------------------
(* What the code derives from the tables. *)

UsedBy(p, logs) == { i \in 1..Len(logs) : logs[i].pass = p }

\* ended_entitlement_ids: a terminal event, or a logged use.
Ended(p) == terminal[p] # "none" \/ UsedBy(p, uses) # {}

NeverWaiting(p, reqs) == FALSE

\* entitlements_with_pending_action.
Waiting(p, reqs) == \E r \in reqs : r.pass = p

\* Positions of a seat's grants; the oldest comes first.
Granted(s) == { i \in 1..Len(granted) : Holder[granted[i]] = s }

get_hall_pass_balance(s) == Cardinality({ i \in Granted(s) : ~Ended(granted[i]) })

AvailableUnlessWaiting(s, reqs) ==
  { i \in Granted(s) : ~Waiting(granted[i], reqs) }

\* The seat's exercisable passes, given the requests waiting.
Available(s, reqs) ==
  { i \in Granted(s) : ~Ended(granted[i]) /\ ~Waiting(granted[i], reqs) }

Acquired(s, how) ==
  { i \in Available(s, requests) : Acquisition[granted[i]] = how }

Oldest(positions) ==
  { granted[i] : i \in { j \in positions : \A k \in positions : j <= k } }

StatusOf(use) == resolve_hall_pass_lifecycle_status(log[use.seat], use.pass)

hall_pass_revoked(use) ==
  StatusOf(use) = "approved" /\ before_current_class_day(use.at, now)

OnlyThoseWhoLeft ==
  { i \in 1..Len(uses) : /\ DayStart(uses[i].at) = DayStart(now)
                         /\ StatusOf(uses[i]) = "left" }

\* Passes of today that hold a queue slot.
CurrentlyOut ==
  { i \in 1..Len(uses) : /\ DayStart(uses[i].at) = DayStart(now)
                         /\ StatusOf(uses[i]) # "returned" }

QueueLimit ==
  Min({MaxQueueLimit, MapThenSumSet(LAMBDA d : MaxQueue[d], Destinations)})

_enforce_hall_pass_settings(d) ==
  /\ Cardinality(CurrentlyOut) < QueueLimit
  /\ Cardinality({ i \in CurrentlyOut : uses[i].dest = d }) < MaxQueue[d]

-----------------------------------------------------------------------------
Init ==
  /\ now = 1
  /\ granted = InitialGrants
  /\ terminal = [p \in Passes |-> "none"]
  /\ requests = {} /\ submitted = 0
  /\ uses = <<>>
  /\ log = [s \in Seats |-> {}]
  /\ inflight = {}

Tick ==
  /\ now < LastInstant
  /\ now' = IF (now + 1) % DayLength = 0 THEN now + 2 ELSE now + 1
  /\ UNCHANGED <<granted, terminal, requests, submitted, uses, log, inflight>>

-----------------------------------------------------------------------------
(* Grants and the writers that end a pass without using it. *)

grant_hall_passes(p) ==
  /\ p \notin { granted[i] : i \in 1..Len(granted) }
  /\ granted' = Append(granted, p)
  /\ UNCHANGED <<now, terminal, requests, submitted, uses, log, inflight>>

End(ps, event) ==
  /\ terminal' = [p \in Passes |-> IF p \in ps THEN event ELSE terminal[p]]
  /\ UNCHANGED <<now, granted, requests, submitted, uses, log, inflight>>

\* A teacher takes back the oldest unused pass that was given directly.
remove_hall_passes(s) ==
  \E p \in Oldest(Acquired(s, "GRANT")) : End({p}, "REVOKED")

\* A reversed purchase: refused while a request waits or once the pass ended.
revoke_reversed_purchase_grants(p) ==
  /\ p \in { granted[i] : i \in 1..Len(granted) }
  /\ Acquisition[p] = "PURCHASE"
  /\ ~Waiting(p, requests) /\ ~Ended(p)
  /\ End({p}, "REVOKED")

\* The perks of a seat's rent period end; one with a request waiting is skipped.
expire_rent_perks(s) ==
  /\ Acquired(s, "PERK") # {}
  /\ End({ granted[i] : i \in Acquired(s, "PERK") }, "EXPIRED")

-----------------------------------------------------------------------------
(* Requests. *)

Start(op) ==
  /\ Cardinality(inflight) < MaxInFlight /\ op \notin inflight
  /\ inflight' = inflight \cup {op}
  /\ UNCHANGED <<now, granted, terminal, requests, submitted, uses, log>>

Finish(op) == op \in inflight /\ inflight' = inflight \ {op}

\* The route: a pass in the balance and a live session, read without a lock.
CheckSubmit(s, d) ==
  /\ get_hall_pass_balance(s) > 0
  /\ is_live_session(Latest(log[s]), now)
  /\ Start([op |-> "submit", seat |-> s, dest |-> d, at |-> DayStart(now)])

\* The newest request replaces the seat's earlier one and reserves a pass.
submit_hall_pass_request(op) ==
  LET others == { r \in requests : r.seat # op.seat }
      passes == Available(op.seat, others)
      new(p) == [id |-> submitted + 1, seat |-> op.seat, pass |-> p,
                 dest |-> op.dest, at |-> op.at]
  IN /\ op.op = "submit" /\ Finish(op)
     /\ IF passes # {} /\ submitted < MaxRequests
        THEN /\ \E p \in Oldest(passes) : requests' = others \cup {new(p)}
             /\ submitted' = submitted + 1
        ELSE UNCHANGED <<requests, submitted>>
     /\ UNCHANGED <<now, granted, terminal, uses, log>>

\* Approval peeks at the request, and at its day, before it locks the seat.
CheckApprove(r) ==
  /\ r \in requests /\ ~before_current_class_day(r.at, now)
  /\ Start([op |-> "approve", request |-> r])

_named_hall_pass(p) == UsedBy(p, uses) = {}

approve_hall_pass_request(op) ==
  LET r == op.request
      use == [seat |-> r.seat, dest |-> r.dest, at |-> DayStart(now),
              pass |-> IF r.dest \in Consuming THEN r.pass ELSE NoPass]
      allowed == /\ r \in requests /\ Len(uses) < MaxUses
                 /\ _enforce_hall_pass_settings(r.dest)
                 /\ r.dest \in Consuming => _named_hall_pass(r.pass)
  IN /\ op.op = "approve" /\ Finish(op)
     /\ IF allowed
        THEN requests' = requests \ {r} /\ uses' = Append(uses, use)
        ELSE UNCHANGED <<requests, uses>>
     /\ UNCHANGED <<now, granted, terminal, submitted, log>>

\* Rejection by the teacher and withdrawal by the student delete the row.
reject_hall_pass_request(r) ==
  /\ r \in requests
  /\ requests' = requests \ {r}
  /\ UNCHANGED <<now, granted, terminal, submitted, uses, log, inflight>>

Stale(r) == before_current_class_day(r.at, now)

close_prior_day_hall_pass_requests ==
  /\ \E r \in requests : Stale(r)
  /\ requests' = { r \in requests : ~Stale(r) }
  /\ UNCHANGED <<now, granted, terminal, submitted, uses, log, inflight>>

-----------------------------------------------------------------------------
(* Attendance. *)

\* A tap of the student or of the teacher, on what the page last read.
CheckTap(s, status, mech) ==
  /\ is_live_session(Latest(log[s]), now) <=> status = "inactive"
  /\ Start([op |-> "record", seat |-> s, status |-> status, pass |-> NoPass,
            reason |-> IF status = "active" THEN "start_work" ELSE "done_for_day",
            mech |-> mech, at |-> now])

\* Leaving reads the pass's own rows; so does returning.
CheckLeave(u, mech) ==
  /\ StatusOf(u) = "approved" /\ ~hall_pass_revoked(u)
  /\ Start([op |-> "record", seat |-> u.seat, status |-> "inactive",
            pass |-> u.pass, reason |-> "hall_pass", mech |-> mech, at |-> now])

CheckReturn(u, mech) ==
  /\ StatusOf(u) # "returned"
  /\ Start([op |-> "record", seat |-> u.seat, status |-> "active",
            pass |-> u.pass, reason |-> "start_work", mech |-> mech, at |-> now])

\* The event's time is read before the lock, so it may be from before the wait.
record_attendance_session(op) ==
  LET rows == log[op.seat]
  IN /\ op.op = "record" /\ Finish(op)
     /\ \E t \in { i \in op.at..now : i % DayLength # 0 } :
          IF /\ RecordAllowed(rows, t, op.status, op.reason, op.pass)
             /\ Cardinality(rows) < MaxRows[op.seat]
          THEN log' = [log EXCEPT ![op.seat] =
                 Recorded(rows, t, op.status, op.reason, op.pass, op.mech)]
          ELSE log' = log
     /\ UNCHANGED <<now, granted, terminal, requests, submitted, uses>>

enforce_daily_limits_job(s) ==
  /\ SweepSelects(log[s])
  /\ log' = [log EXCEPT ![s] = Swept(@, now)]
  /\ log' # log
  /\ UNCHANGED <<now, granted, terminal, requests, submitted, uses, inflight>>

-----------------------------------------------------------------------------
Next ==
  \/ Tick
  \/ \E p \in Passes : grant_hall_passes(p) \/ revoke_reversed_purchase_grants(p)
  \/ \E s \in Seats : remove_hall_passes(s) \/ expire_rent_perks(s)
  \/ \E s \in Seats, d \in Destinations : CheckSubmit(s, d)
  \/ \E r \in requests : CheckApprove(r) \/ reject_hall_pass_request(r)
  \/ close_prior_day_hall_pass_requests
  \/ \E s \in Seats, m \in Mechanisms, x \in {"active", "inactive"} : CheckTap(s, x, m)
  \/ \E i \in 1..Len(uses), m \in Mechanisms :
       CheckLeave(uses[i], m) \/ CheckReturn(uses[i], m)
  \/ \E op \in inflight :
       \/ submit_hall_pass_request(op)
       \/ approve_hall_pass_request(op)
       \/ record_attendance_session(op)
  \/ \E s \in Seats : enforce_daily_limits_job(s)

Spec == Init /\ [][Next]_vars

-----------------------------------------------------------------------------
(* Properties. *)

\* What a handler holds between its check and its commit.
InFlight ==
  [op: {"submit"}, seat: Seats, dest: Destinations, at: Nat]
    \cup [op: {"approve"}, request: Requests]
    \cup [op: {"record"}, seat: Seats, status: {"active", "inactive"},
          pass: Passes \cup {NoPass}, reason: Reasons, mech: Mechanisms, at: Nat]

\* Every table holds rows of its own shape, with times and ids in range.
TypeOK ==
  /\ now \in Nat
  /\ granted \in Seq(Passes)
  /\ terminal \in [Passes -> {"none", "REVOKED", "EXPIRED"}]
  /\ requests \subseteq Requests /\ submitted \in Nat
  /\ uses \in Seq(Uses)
  /\ log \in [Seats -> SUBSET RowType(Passes)]
  /\ inflight \subseteq InFlight

\* A pass ends once: at most one log uses it, and never one that a REVOKED or
\* EXPIRED event also ended (lock_hall_pass_holder; no index spans the tables).
EndsOnce ==
  \A p \in Passes :
    /\ Cardinality(UsedBy(p, uses)) <= 1
    /\ terminal[p] # "none" => UsedBy(p, uses) = {}

\* While a request waits, its pass is the requester's and nobody ends it, so its
\* approval finds the pass it names; no two requests share a seat or a pass.
ReservedPassStays ==
  /\ \A r \in requests : Holder[r.pass] = r.seat /\ ~Ended(r.pass)
  /\ \A r, q \in requests : r # q => r.seat # q.seat /\ r.pass # q.pass

\* Approvals to different students never issue more unreturned passes in a day
\* than the class's queue allows (the class lock of _enforce_hall_pass_settings).
QueueRespected ==
  Cardinality({ i \in 1..Len(uses) :
                  /\ ~before_current_class_day(uses[i].at, now)
                  /\ StatusOf(uses[i]) # "returned" }) <= QueueLimit

Rank == [x \in {"approved", "left", "returned"} |->
           CASE x = "approved" -> 0 [] x = "left" -> 1 [] OTHER -> 2]

\* No row, not even one dated into the past by the sweep or by a handler that
\* waited for the lock, takes a pass back from returned or from left.
LifecycleForward ==
  [][\A i \in 1..Len(uses) : Rank[StatusOf(uses[i])] <= Rank[StatusOf(uses[i])']]_vars

\* api.py, handle_hall_pass_action: "A pass leaves once: this pass's own
\* attendance sequence decides".  The sequence is read before the seat lock.
LeavesOnce ==
  \A s \in Seats, p \in Passes :
    Cardinality({ r \in log[s] : IsHallPassExit(r) /\ r.pass = p }) <= 1

SweepDone(s) == ~SweepSelects(log[s]) \/ Swept(log[s], now) = log[s]

\* A return that waited for the seat while the pass left is dated before it left.
ReturnedEarly(s, exit) ==
  \E r \in log[s] : r.status = "active" /\ r.pass = exit.pass /\ r.at < exit.at

DayEnded(s, exit) ==
  resolve_hall_pass_lifecycle_status(log[s], exit.pass) = "returned"

ExitsBeforeToday(s) ==
  { r \in log[s] : IsHallPassExit(r) /\ before_current_class_day(r.at, now) }

\* What the sweep leaves behind: once it finds nothing to do for a seat, every
\* pass left on an earlier day is back, also of a student who started work again
\* since, or whose rows a handler that waited for the lock dated into the past.
DayEndsThePass ==
  \A s \in Seats : SweepDone(s) =>
    \A r \in ExitsBeforeToday(s) : ReturnedEarly(s, r) \/ DayEnded(s, r)

\* close_due_hanging_hall_pass: "close every open pass of this seat whose day has
\* ended".
EveryPassCloses ==
  \A s \in Seats : SweepDone(s) => \A r \in ExitsBeforeToday(s) : DayEnded(s, r)
=============================================================================
