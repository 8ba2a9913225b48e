--------------------------- MODULE HallPassProofs ---------------------------
(***************************************************************************)
(* Theorems about HallPasses for any seats, passes, settings and bounds: a *)
(* pass ends once, a waiting request keeps the pass it names, a pass only  *)
(* goes forward, the queue's limit holds, the sweep leaves no pass out on  *)
(* an earlier day, and every table keeps its shape.  How rows become       *)
(* intervals stays unexpanded: the theorems rest on rows being only added, *)
(* each with its instant.                                                  *)
(***************************************************************************)
EXTENDS HallPasses, FiniteSetTheorems, WellFoundedInduction, TLAPS

-----------------------------------------------------------------------------
\* A day starts at or before each of its instants.
LEMMA DayStartFacts ==
  ASSUME AttendanceConstants, NEW t \in Nat
  PROVE  /\ DayStart(t) \in Nat /\ DayEnd(t) \in Nat
         /\ DayStart(t) <= t /\ t < DayEnd(t)
<1>1. /\ DayLength \in Nat /\ DayLength > 0
      /\ t \div DayLength \in Nat
      /\ (t \div DayLength) * DayLength <= t
      /\ t < (t \div DayLength) * DayLength + DayLength
  BY DEF AttendanceConstants
<1>2. (t \div DayLength) * DayLength \in Nat
  BY <1>1
<1> QED
  BY <1>1, <1>2 DEF DayStart, DayEnd

(***************************************************************************)
(* The inductive invariant.                                                *)
(***************************************************************************)

\* The part of TypeOK the argument needs.
TablesTyped ==
  /\ now \in Nat /\ submitted \in Nat
  /\ granted \in Seq(Passes)
  /\ terminal \in [Passes -> {"none", "REVOKED", "EXPIRED"}]
  /\ requests \subseteq Requests
  /\ uses \in Seq(Uses)

\* A submission in flight carries a seat and a destination of the class.
SubmissionsTyped ==
  \A op \in inflight :
    op.op = "submit" => op.seat \in Seats /\ op.dest \in Destinations /\ op.at \in Nat

\* A pass is used by at most one log, stated without cardinality.
UsedOnce ==
  \A p \in Passes : \A i, j \in UsedBy(p, uses) : i = j

\* A pass that a terminal event ended was never used.
NotBoth == \A p \in Passes : terminal[p] # "none" => UsedBy(p, uses) = {}

PassInv ==
  /\ TablesTyped /\ SubmissionsTyped
  /\ UsedOnce /\ NotBoth /\ ReservedPassStays

LEMMA InitPassInv == HallPassConstants /\ Init => PassInv
  BY DEF HallPassConstants, Init, PassInv, TablesTyped, SubmissionsTyped, UsedOnce,
         NotBoth, ReservedPassStays, UsedBy

-----------------------------------------------------------------------------
(***************************************************************************)
(* What is available is neither ended nor reserved.                        *)
(***************************************************************************)

LEMMA OldestAvailable ==
  ASSUME TablesTyped, NEW s \in Seats, NEW reqs, NEW positions,
         positions \subseteq Available(s, reqs), NEW p \in Oldest(positions)
  PROVE  p \in Passes /\ Holder[p] = s /\ ~Ended(p) /\ ~Waiting(p, reqs)
<1>1. PICK i \in positions : p = granted[i]
  BY DEF Oldest
<1>2. i \in 1..Len(granted) /\ Holder[granted[i]] = s
      /\ ~Ended(granted[i]) /\ ~Waiting(granted[i], reqs)
  BY <1>1 DEF Available, Granted
<1> QED
  BY <1>1, <1>2 DEF TablesTyped

\* Every writer that ends a pass without using it ends passes that are neither
\* ended already nor reserved.
LEMMA EndStep ==
  ASSUME PassInv, NEW ps, NEW event \in {"REVOKED", "EXPIRED"},
         \A p \in ps : ~Ended(p) /\ ~Waiting(p, requests),
         End(ps, event)
  PROVE  PassInv'
<1>1. /\ terminal' = [p \in Passes |-> IF p \in ps THEN event ELSE terminal[p]]
      /\ UNCHANGED <<now, granted, requests, submitted, uses, log, inflight>>
  BY DEF End
<1>2. TablesTyped' /\ SubmissionsTyped' /\ UsedOnce'
  BY <1>1 DEF PassInv, TablesTyped, SubmissionsTyped, UsedOnce, UsedBy
<1>3. NotBoth'
  BY <1>1 DEF PassInv, NotBoth, Ended, UsedBy
<1>4. ReservedPassStays'
  <2>1. \A r \in requests : r.pass \notin ps /\ r.pass \in Passes
    BY DEF Waiting, PassInv, TablesTyped, Requests
  <2> QED
    BY <1>1, <2>1 DEF PassInv, ReservedPassStays, Ended, UsedBy
<1> QED
  BY <1>2, <1>3, <1>4 DEF PassInv

\* A reader or a grant leaves every row the invariant is about alone.
LEMMA RowsUnchanged ==
  ASSUME PassInv, now' \in Nat, granted' \in Seq(Passes),
         UNCHANGED <<terminal, requests, submitted, uses>>, SubmissionsTyped'
  PROVE  PassInv'
  BY DEF PassInv, TablesTyped, UsedOnce, NotBoth, ReservedPassStays, UsedBy, Ended

LEMMA FinishKeeps ==
  ASSUME SubmissionsTyped, NEW op, Finish(op)
  PROVE  SubmissionsTyped'
  BY DEF Finish, SubmissionsTyped

-----------------------------------------------------------------------------
(***************************************************************************)
(* Requests come and go.                                                   *)
(***************************************************************************)

\* Fewer requests, whoever withdrew or refused them.
LEMMA FewerRequests ==
  ASSUME PassInv, requests' \subseteq requests,
         UNCHANGED <<now, granted, terminal, submitted, uses>>, SubmissionsTyped'
  PROVE  PassInv'
  BY DEF PassInv, TablesTyped, UsedOnce, NotBoth, ReservedPassStays, UsedBy, Ended

\* A submission replaces the seat's request and reserves a pass that is free once
\* that request is gone.
LEMMA SubmitStep ==
  ASSUME PassInv, NEW op \in inflight, submit_hall_pass_request(op)
  PROVE  PassInv'
<1> DEFINE others == { r \in requests : r.seat # op.seat }
           passes == Available(op.seat, others)
           new(p) == [id |-> submitted + 1, seat |-> op.seat, pass |-> p,
                      dest |-> op.dest, at |-> op.at]
<1>1. /\ op.op = "submit" /\ Finish(op)
      /\ UNCHANGED <<now, granted, terminal, uses, log>>
      /\ \/ /\ \E p \in Oldest(passes) : requests' = others \cup {new(p)}
            /\ submitted' = submitted + 1
         \/ UNCHANGED <<requests, submitted>>
  BY DEF submit_hall_pass_request
<1>2. SubmissionsTyped'
  BY <1>1, FinishKeeps DEF PassInv
<1>3. op.seat \in Seats /\ op.dest \in Destinations /\ op.at \in Nat
  BY <1>1 DEF PassInv, SubmissionsTyped
<1>4. CASE UNCHANGED <<requests, submitted>>
  BY <1>1, <1>2, <1>4, RowsUnchanged DEF PassInv, TablesTyped
<1>5. ASSUME NEW p \in Oldest(passes), requests' = others \cup {new(p)},
             submitted' = submitted + 1
      PROVE  PassInv'
  <2>1. p \in Passes /\ Holder[p] = op.seat /\ ~Ended(p) /\ ~Waiting(p, others)
    BY <1>3, OldestAvailable DEF PassInv
  <2>2. new(p) \in Requests /\ new(p).seat = op.seat /\ new(p).pass = p
    BY <1>3, <2>1 DEF Requests, PassInv, TablesTyped
  <2> HIDE DEF new
  <2>3. TablesTyped'
    BY <1>1, <1>5, <2>2 DEF PassInv, TablesTyped
  <2>4. UsedOnce' /\ NotBoth'
    BY <1>1 DEF PassInv, UsedOnce, NotBoth, UsedBy
  <2>5. \A r \in others : r.pass # p /\ r.seat # op.seat /\ r \in requests
    BY <2>1 DEF Waiting
  <2>6. ReservedPassStays'
    <3>1. \A r \in requests' : Holder[r.pass] = r.seat /\ ~Ended(r.pass)
      BY <1>5, <2>1, <2>2, <2>5 DEF PassInv, ReservedPassStays
    <3>2. \A r, q \in requests' : r # q => r.seat # q.seat /\ r.pass # q.pass
      BY <1>5, <2>2, <2>5 DEF PassInv, ReservedPassStays
    <3>3. \A q : Ended(q)' <=> Ended(q)
      BY <1>1 DEF Ended, UsedBy
    <3> QED
      BY <3>1, <3>2, <3>3 DEF ReservedPassStays
  <2> QED
    BY <1>2, <2>3, <2>4, <2>6 DEF PassInv
<1> QED
  BY <1>1, <1>4, <1>5

\* One more log uses the pass it names and no other.
LEMMA LoggedUse ==
  ASSUME uses \in Seq(Uses), NEW use \in Uses, uses' = Append(uses, use), NEW p
  PROVE  UsedBy(p, uses)' = IF use.pass = p THEN UsedBy(p, uses) \cup {Len(uses) + 1}
                                            ELSE UsedBy(p, uses)
<1>1. /\ Len(uses) \in Nat /\ Len(uses') = Len(uses) + 1
      /\ uses'[Len(uses) + 1] = use
      /\ \A i \in 1..Len(uses) : uses'[i] = uses[i]
  OBVIOUS
<1>2. 1..Len(uses') = 1..Len(uses) \cup {Len(uses) + 1}
  BY <1>1
<1> QED
  BY <1>1, <1>2 DEF UsedBy

\* An approval uses the pass its request reserved, which nobody ended meanwhile.
LEMMA ApproveStep ==
  ASSUME PassInv, HallPassConstants, AttendanceConstants,
         NEW op \in inflight, approve_hall_pass_request(op)
  PROVE  PassInv'
<1> DEFINE r == op.request
           use == [seat |-> r.seat, dest |-> r.dest, at |-> DayStart(now),
                   pass |-> IF r.dest \in Consuming THEN r.pass ELSE NoPass]
<1>1. /\ op.op = "approve" /\ Finish(op)
      /\ UNCHANGED <<now, granted, terminal, submitted, log>>
      /\ \/ r \in requests /\ requests' = requests \ {r} /\ uses' = Append(uses, use)
         \/ UNCHANGED <<requests, uses>>
  BY DEF approve_hall_pass_request
<1>2. SubmissionsTyped'
  BY <1>1, FinishKeeps DEF PassInv
<1>3. CASE UNCHANGED <<requests, uses>>
  BY <1>1, <1>2, <1>3, RowsUnchanged DEF PassInv, TablesTyped
<1>4. CASE r \in requests /\ requests' = requests \ {r} /\ uses' = Append(uses, use)
  <2>1. r \in Requests /\ ~Ended(r.pass) /\ r.pass \in Passes
    BY <1>4 DEF PassInv, TablesTyped, ReservedPassStays, Requests
  <2>2. use \in Uses /\ use.pass \in {r.pass, NoPass}
    <3>1. DayStart(now) \in Nat
      BY DayStartFacts DEF PassInv, TablesTyped
    <3> QED
      BY <2>1, <3>1 DEF Uses, Requests
  <2> HIDE DEF use
  <2>3. \A p : UsedBy(p, uses)' = IF use.pass = p THEN UsedBy(p, uses) \cup {Len(uses) + 1}
                                                  ELSE UsedBy(p, uses)
    BY <1>4, <2>2, LoggedUse DEF PassInv, TablesTyped
  <2>4. \A p \in Passes : use.pass = p => p = r.pass
    BY <2>2 DEF HallPassConstants
  <2>5. UsedBy(r.pass, uses) = {} /\ terminal[r.pass] = "none"
    BY <2>1 DEF Ended
  <2>6. TablesTyped'
    BY <1>1, <1>4, <2>2 DEF PassInv, TablesTyped
  <2>7. UsedOnce' /\ NotBoth'
    <3>1. \A p \in Passes : \/ UsedBy(p, uses)' = UsedBy(p, uses)
                            \/ p = r.pass /\ UsedBy(p, uses)' = {Len(uses) + 1}
      BY <2>3, <2>4, <2>5
    <3> QED
      BY <1>1, <2>5, <3>1 DEF PassInv, UsedOnce, NotBoth
  <2>8. ReservedPassStays'
    <3>1. \A q \in requests' : q \in requests /\ q.pass # r.pass /\ q.pass \in Passes
      BY <1>4, <2>1 DEF PassInv, TablesTyped, ReservedPassStays, Requests
    <3>2. \A q \in requests' : Ended(q.pass)' <=> Ended(q.pass)
      BY <1>1, <2>3, <2>4, <3>1 DEF Ended
    <3> QED
      BY <3>1, <3>2 DEF PassInv, ReservedPassStays
  <2> QED
    BY <1>2, <2>6, <2>7, <2>8 DEF PassInv
<1> QED
  BY <1>1, <1>3, <1>4

-----------------------------------------------------------------------------
(***************************************************************************)
(* The theorems.                                                           *)
(***************************************************************************)

\* A handler's check puts what it read in flight.
LEMMA StartStep ==
  ASSUME PassInv, NEW op, Start(op),
         op.op = "submit" => op.seat \in Seats /\ op.dest \in Destinations /\ op.at \in Nat
  PROVE  PassInv'
<1>1. SubmissionsTyped'
  BY DEF Start, PassInv, SubmissionsTyped
<1> QED
  BY <1>1, RowsUnchanged DEF Start, PassInv, TablesTyped

LEMMA StepPassInv ==
  ASSUME PassInv, HallPassConstants, AttendanceConstants, [Next]_vars
  PROVE  PassInv'
<1>1. CASE UNCHANGED vars
  BY <1>1 DEF vars, PassInv, TablesTyped, SubmissionsTyped, UsedOnce, NotBoth,
              ReservedPassStays, UsedBy, Ended
<1>2. CASE Tick
  <2>1. now' \in Nat /\ SubmissionsTyped'
    BY <1>2 DEF Tick, PassInv, TablesTyped, SubmissionsTyped
  <2> QED
    BY <1>2, <2>1, RowsUnchanged DEF Tick, PassInv, TablesTyped
<1>3. ASSUME NEW p \in Passes, grant_hall_passes(p)
      PROVE  PassInv'
  <2>1. granted' \in Seq(Passes) /\ now' \in Nat /\ SubmissionsTyped'
    BY <1>3 DEF grant_hall_passes, PassInv, TablesTyped, SubmissionsTyped
  <2> QED
    BY <1>3, <2>1, RowsUnchanged DEF grant_hall_passes
<1>4. ASSUME NEW p \in Passes, revoke_reversed_purchase_grants(p)
      PROVE  PassInv'
  BY <1>4, EndStep DEF revoke_reversed_purchase_grants
<1>5. ASSUME NEW s \in Seats, remove_hall_passes(s)
      PROVE  PassInv'
  <2>1. PICK p \in Oldest(Acquired(s, "GRANT")) : End({p}, "REVOKED")
    BY <1>5 DEF remove_hall_passes
  <2>2. ~Ended(p) /\ ~Waiting(p, requests)
    BY <2>1, OldestAvailable DEF Acquired, PassInv
  <2> QED
    BY <2>1, <2>2, EndStep
<1>6. ASSUME NEW s \in Seats, expire_rent_perks(s)
      PROVE  PassInv'
  <2>1. \A p \in { granted[i] : i \in Acquired(s, "PERK") } :
          ~Ended(p) /\ ~Waiting(p, requests)
    BY DEF Acquired, Available
  <2> QED
    BY <1>6, <2>1, EndStep DEF expire_rent_perks
<1>7. ASSUME NEW s \in Seats, NEW d \in Destinations, CheckSubmit(s, d)
      PROVE  PassInv'
  <2>1. DayStart(now) \in Nat
    BY DayStartFacts DEF PassInv, TablesTyped
  <2> QED
    BY <1>7, <2>1, StartStep DEF CheckSubmit
<1>8. ASSUME NEW r \in requests, CheckApprove(r) \/ reject_hall_pass_request(r)
      PROVE  PassInv'
  <2>1. CASE CheckApprove(r)
    BY <2>1, StartStep DEF CheckApprove
  <2>2. CASE reject_hall_pass_request(r)
    <3>1. SubmissionsTyped' /\ requests' \subseteq requests
      BY <2>2 DEF reject_hall_pass_request, PassInv, SubmissionsTyped
    <3> QED
      BY <2>2, <3>1, FewerRequests DEF reject_hall_pass_request
  <2> QED
    BY <1>8, <2>1, <2>2
<1>9. CASE close_prior_day_hall_pass_requests
  <2>1. SubmissionsTyped' /\ requests' \subseteq requests
    BY <1>9 DEF close_prior_day_hall_pass_requests, PassInv, SubmissionsTyped
  <2> QED
    BY <1>9, <2>1, FewerRequests DEF close_prior_day_hall_pass_requests
<1>10. ASSUME NEW s \in Seats, NEW m \in Mechanisms, NEW x \in {"active", "inactive"},
              CheckTap(s, x, m)
       PROVE  PassInv'
  BY <1>10, StartStep DEF CheckTap
<1>11. ASSUME NEW i \in 1..Len(uses), NEW m \in Mechanisms,
              CheckLeave(uses[i], m) \/ CheckReturn(uses[i], m)
       PROVE  PassInv'
  BY <1>11, StartStep DEF CheckLeave, CheckReturn
<1>12. ASSUME NEW op \in inflight,
              \/ submit_hall_pass_request(op)
              \/ approve_hall_pass_request(op)
              \/ record_attendance_session(op)
       PROVE  PassInv'
  <2>1. CASE record_attendance_session(op)
    <3>1. /\ Finish(op)
          /\ UNCHANGED <<now, granted, terminal, requests, submitted, uses>>
      BY <2>1 DEF record_attendance_session
    <3> QED
      BY <3>1, FinishKeeps, RowsUnchanged DEF PassInv, TablesTyped
  <2> QED
    BY <1>12, <2>1, SubmitStep, ApproveStep
<1>13. ASSUME NEW s \in Seats, enforce_daily_limits_job(s)
       PROVE  PassInv'
  <2>1. UNCHANGED <<now, granted, terminal, requests, submitted, uses, inflight>>
    BY <1>13 DEF enforce_daily_limits_job
  <2> QED
    BY <2>1, RowsUnchanged DEF PassInv, TablesTyped, SubmissionsTyped
<1> QED
  BY <1>1, <1>2, <1>3, <1>4, <1>5, <1>6, <1>7, <1>8, <1>9, <1>10, <1>11, <1>12, <1>13
     DEF Next

LEMMA PassAlways == Spec => []PassInv
<1>1. Init => PassInv
  BY HallPassConstants, InitPassInv
<1>2. PassInv /\ [Next]_vars => PassInv'
  BY HallPassConstants, AttendanceConstants, StepPassInv
<1> QED
  BY <1>1, <1>2, PTL DEF Spec

\* At most one element of a set: a cardinality of one or none.
LEMMA OneAtMost ==
  ASSUME NEW S, \A i, j \in S : i = j
  PROVE  Cardinality(S) <= 1
<1>1. CASE S = {}
  BY <1>1, FS_EmptySet
<1>2. CASE S # {}
  <2>1. PICK x : S = {x}
    BY <1>2
  <2> QED
    BY <2>1, FS_Singleton
<1> QED
  BY <1>1, <1>2

\* A pass ends once: one log at most uses it, and never one a teacher, a reversal
\* or the end of a rent period also ended, for any number of seats and passes.
THEOREM PassEndsOnce == Spec => []EndsOnce
<1>1. PassInv => EndsOnce
  BY OneAtMost DEF PassInv, UsedOnce, NotBoth, EndsOnce
<1> QED
  BY <1>1, PassAlways, PTL

\* A waiting request keeps its pass until it is decided, withdrawn or replaced.
THEOREM RequestKeepsPass == Spec => []ReservedPassStays
<1>1. PassInv => ReservedPassStays
  BY DEF PassInv
<1> QED
  BY <1>1, PassAlways, PTL

-----------------------------------------------------------------------------
(***************************************************************************)
(* Rows are only ever added.                                               *)
(***************************************************************************)

LEMMA RecordedAdds ==
  ASSUME NEW rows, NEW t, NEW status, NEW reason, NEW pass, NEW mech
  PROVE  rows \subseteq Recorded(rows, t, status, reason, pass, mech)
  BY DEF Recorded, Append1

LEMMA SweptIs ==
  ASSUME NEW rows, NEW t
  PROVE  Swept(rows, t)
           = close_due_hanging_hall_pass(close_due_attendance_intervals(rows, t), t)
  BY DEF Swept

LEMMA SweptAdds ==
  ASSUME NEW rows, NEW t
  PROVE  rows \subseteq Swept(rows, t)
<1>1. \A l : l \subseteq close_due_hanging_hall_pass(l, t)
  BY DEF close_due_hanging_hall_pass
<1>2. rows \subseteq close_due_attendance_intervals(rows, t)
  BY DEF close_due_attendance_intervals
<1> QED
  BY <1>1, <1>2, SweptIs

\* Whatever rows are added, and wherever they are dated, a pass that left has left
\* and one that is back is back.
LEMMA StatusForward ==
  ASSUME NEW rows, NEW more, rows \subseteq more, NEW p
  PROVE  /\ resolve_hall_pass_lifecycle_status(rows, p) \in {"approved", "left", "returned"}
         /\ resolve_hall_pass_lifecycle_status(more, p) \in {"approved", "left", "returned"}
         /\ Rank[resolve_hall_pass_lifecycle_status(rows, p)]
              <= Rank[resolve_hall_pass_lifecycle_status(more, p)]
<1> DEFINE left(l) == { r \in l : r.pass = p /\ IsHallPassExit(r) }
           back(l) == { r \in l : /\ r.pass = p /\ r.status = "active"
                                  /\ \E q \in left(l) : q.at <= r.at }
<1>1. left(rows) \subseteq left(more) /\ back(rows) \subseteq back(more)
  OBVIOUS
<1>2. \A l : resolve_hall_pass_lifecycle_status(l, p)
               = IF left(l) = {} THEN "approved" ELSE IF back(l) = {} THEN "left" ELSE "returned"
  BY DEF resolve_hall_pass_lifecycle_status
<1>3. back(rows) # {} => left(rows) # {}
  OBVIOUS
<1> HIDE DEF left, back
<1>4. Rank["approved"] = 0 /\ Rank["left"] = 1 /\ Rank["returned"] = 2
  BY DEF Rank
<1> QED
  BY <1>1, <1>2, <1>3, <1>4

LogsNamed == log = [s \in Seats |-> log[s]]

\* A step adds rows to logs and logs to uses, and takes none away.
LEMMA RowsGrow ==
  ASSUME PassInv, LogsNamed, AttendanceConstants, [Next]_vars
  PROVE  /\ LogsNamed'
         /\ \A s \in Seats : log[s] \subseteq log'[s]
         /\ \A i \in 1..Len(uses) : i \in 1..Len(uses') /\ uses'[i] = uses[i]
<1>1. CASE UNCHANGED <<log, uses>>
  BY <1>1 DEF LogsNamed
<1>2. ASSUME NEW op \in inflight, record_attendance_session(op)
      PROVE  /\ LogsNamed' /\ UNCHANGED uses
             /\ \A s \in Seats : log[s] \subseteq log'[s]
  <2>1. UNCHANGED uses
    BY <1>2 DEF record_attendance_session
  <2>2. CASE log' = log
    BY <2>1, <2>2 DEF LogsNamed
  <2>3. ASSUME NEW t,
               log' = [log EXCEPT ![op.seat] =
                         Recorded(log[op.seat], t, op.status, op.reason, op.pass, op.mech)]
        PROVE  LogsNamed' /\ \A s \in Seats : log[s] \subseteq log'[s]
    <3>1. log[op.seat] \subseteq
            Recorded(log[op.seat], t, op.status, op.reason, op.pass, op.mech)
      BY RecordedAdds
    <3> QED
      BY <2>3, <3>1 DEF LogsNamed
  <2> QED
    BY <1>2, <2>1, <2>2, <2>3 DEF record_attendance_session
<1>3. ASSUME NEW s \in Seats, enforce_daily_limits_job(s)
      PROVE  /\ LogsNamed' /\ UNCHANGED uses
             /\ \A x \in Seats : log[x] \subseteq log'[x]
  <2>1. /\ log' = [log EXCEPT ![s] = Swept(log[s], now)]
        /\ UNCHANGED uses
    BY <1>3 DEF enforce_daily_limits_job
  <2> QED
    BY <2>1, SweptAdds DEF LogsNamed
<1>4. ASSUME NEW op \in inflight, approve_hall_pass_request(op)
      PROVE  /\ UNCHANGED log
             /\ \A i \in 1..Len(uses) : i \in 1..Len(uses') /\ uses'[i] = uses[i]
  <2>1. UNCHANGED log /\ (UNCHANGED uses \/ \E use \in Uses : uses' = Append(uses, use))
    <3> DEFINE r == op.request
               use == [seat |-> r.seat, dest |-> r.dest, at |-> DayStart(now),
                       pass |-> IF r.dest \in Consuming THEN r.pass ELSE NoPass]
    <3>1. /\ UNCHANGED log
          /\ UNCHANGED uses \/ (r \in requests /\ uses' = Append(uses, use))
      BY <1>4 DEF approve_hall_pass_request
    <3>2. r \in requests => use \in Uses
      <4>1. DayStart(now) \in Nat
        BY DayStartFacts DEF PassInv, TablesTyped
      <4> QED
        BY <4>1 DEF PassInv, TablesTyped, Requests, Uses
    <3> QED
      BY <3>1, <3>2
  <2> QED
    BY <2>1 DEF PassInv, TablesTyped
<1>5. \/ UNCHANGED <<log, uses>>
      \/ \E op \in inflight : record_attendance_session(op) \/ approve_hall_pass_request(op)
      \/ \E s \in Seats : enforce_daily_limits_job(s)
  BY DEF Next, vars, Tick, grant_hall_passes, revoke_reversed_purchase_grants, End,
         remove_hall_passes, expire_rent_perks, CheckSubmit, CheckApprove, Start,
         reject_hall_pass_request, close_prior_day_hall_pass_requests, CheckTap,
         CheckLeave, CheckReturn, submit_hall_pass_request
<1> QED
  BY <1>1, <1>2, <1>3, <1>4, <1>5 DEF LogsNamed

LEMMA StatusStep ==
  ASSUME PassInv, LogsNamed, AttendanceConstants, [Next]_vars, NEW i \in 1..Len(uses)
  PROVE  Rank[StatusOf(uses[i])] <= Rank[StatusOf(uses[i])']
<1>1. uses[i].seat \in Seats
  <2>1. uses[i] \in Uses
    BY DEF PassInv, TablesTyped
  <2> QED
    BY <2>1 DEF Uses
<1>2. log[uses[i].seat] \subseteq log'[uses[i].seat] /\ uses'[i] = uses[i]
  BY <1>1, RowsGrow
<1> QED
  BY <1>2, StatusForward DEF StatusOf

\* A pass never goes back from returned or from left, whatever order its rows are
\* recorded in and whatever instants the sweep and late handlers date them to.
THEOREM StatusOnlyForward == Spec => LifecycleForward
<1>1. Init => LogsNamed
  BY DEF Init, LogsNamed
<1>2. PassInv /\ LogsNamed /\ [Next]_vars => LogsNamed'
  BY AttendanceConstants, RowsGrow
<1>3. PassInv /\ LogsNamed /\ [Next]_vars =>
        [\A i \in 1..Len(uses) : Rank[StatusOf(uses[i])] <= Rank[StatusOf(uses[i])']]_vars
  BY AttendanceConstants, StatusStep
<1> QED
  BY <1>1, <1>2, <1>3, PassAlways, PTL DEF Spec, LifecycleForward

-----------------------------------------------------------------------------
(***************************************************************************)
(* The queue's limit is a number: sums over a finite set exist, and each   *)
(* lemma is proved on a smallest set for which it would fail.              *)
(***************************************************************************)

\* The element a sum over s takes first, and the function a sum is defined by.
First(s) == CHOOSE x \in s : TRUE

IsSum(h, f, S) ==
  h = [s \in SUBSET S |-> IF s = {} THEN 0 ELSE f[First(s)] + h[s \ {First(s)}]]

\* The sum of f over the finite set S.
Total(f, S) == (CHOOSE h : IsSum(h, f, S))[S]

\* A nonempty collection of subsets of a finite set has a minimal one.
LEMMA SmallestSubset ==
  ASSUME NEW S, IsFiniteSet(S), NEW C \in SUBSET (SUBSET S), C # {}
  PROVE  \E T \in C : \A U \in C : U \subseteq T => U = T
<1>1. IsWellFoundedOn(StrictSubsetOrdering(S), SUBSET S)
  BY FS_StrictSubsetOrderingWellFounded, FS_FiniteSubsetsOfFinite
<1>2. PICK T \in C : \A U \in C : ~ (<<U, T>> \in StrictSubsetOrdering(S))
  BY <1>1, WFMin
<1> QED  BY <1>2 DEF StrictSubsetOrdering

\* The first element is one of the set.
LEMMA FirstFacts == \A s : s # {} => First(s) \in s
  BY DEF First

\* A sum restricted to subsets is a sum.
LEMMA SumRestricted ==
  ASSUME NEW f, NEW S, NEW h, IsSum(h, f, S), NEW T \in SUBSET S
  PROVE  IsSum([s \in SUBSET T |-> h[s]], f, T)
<1> DEFINE g == [s \in SUBSET T |-> h[s]]
<1>1. \A s \in SUBSET T : g[s] = IF s = {} THEN 0 ELSE f[First(s)] + g[s \ {First(s)}]
  <2> TAKE s \in SUBSET T
  <2>1. s \in SUBSET S /\ s \ {First(s)} \in SUBSET T
    OBVIOUS
  <2>2. h[s] = IF s = {} THEN 0 ELSE f[First(s)] + h[s \ {First(s)}]
    BY <2>1 DEF IsSum
  <2> QED  BY <2>1, <2>2
<1> QED  BY <1>1 DEF IsSum

\* Two sums of the same values are the same function.
LEMMA SumUnique ==
  ASSUME NEW f, NEW S, IsFiniteSet(S), NEW g, IsSum(g, f, S), NEW h, IsSum(h, f, S)
  PROVE  g = h
<1>1. \A s \in SUBSET S :
        /\ g[s] = IF s = {} THEN 0 ELSE f[First(s)] + g[s \ {First(s)}]
        /\ h[s] = IF s = {} THEN 0 ELSE f[First(s)] + h[s \ {First(s)}]
  BY DEF IsSum
<1>2. \A s \in SUBSET S : g[s] = h[s]
  <2> DEFINE C == {s \in SUBSET S : g[s] # h[s]}
  <2> SUFFICES ASSUME C # {} PROVE FALSE
    OBVIOUS
  <2>1. PICK T \in C : \A U \in C : U \subseteq T => U = T
    <3>1. C \in SUBSET (SUBSET S)
      OBVIOUS
    <3> HIDE DEF C
    <3> QED  BY <3>1, SmallestSubset
  <2>2. CASE T = {}
    BY <1>1, <2>1, <2>2
  <2>3. CASE T # {}
    <3>1. T \ {First(T)} \in SUBSET S /\ T \ {First(T)} # T
      BY <2>3, FirstFacts
    <3>2. g[T \ {First(T)}] = h[T \ {First(T)}]
      BY <2>1, <3>1
    <3> QED  BY <1>1, <2>1, <2>3, <3>2
  <2> QED  BY <2>2, <2>3
<1>3. g = [s \in SUBSET S |-> g[s]] /\ h = [s \in SUBSET S |-> h[s]]
  BY DEF IsSum
<1> QED  BY <1>2, <1>3

\* Where a sum exists, it is the one Total chooses, on every subset.
LEMMA TotalOfSum ==
  ASSUME NEW f, NEW S, IsFiniteSet(S), NEW h, IsSum(h, f, S), NEW T \in SUBSET S
  PROVE  Total(f, T) = h[T]
<1>1. IsFiniteSet(T)
  BY FS_Subset
<1> DEFINE g == [s \in SUBSET T |-> h[s]]
<1>2. IsSum(g, f, T)
  BY SumRestricted
<1> HIDE DEF g
<1>3. IsSum(CHOOSE k : IsSum(k, f, T), f, T)
  BY <1>2
<1>4. (CHOOSE k : IsSum(k, f, T)) = g
  BY <1>1, <1>2, <1>3, SumUnique
<1>5. Total(f, T) = g[T]
  BY <1>4 DEF Total
<1> QED  BY <1>5 DEF g

\* Every finite set has a sum.
LEMMA SumExists ==
  ASSUME NEW f, NEW S, IsFiniteSet(S)
  PROVE  \E h : IsSum(h, f, S)
<1> DEFINE C == {T \in SUBSET S : ~ \E h : IsSum(h, f, T)}
<1> SUFFICES ASSUME C # {} PROVE FALSE
  OBVIOUS
<1>1. PICK T \in C : \A U \in C : U \subseteq T => U = T
  <2>1. C \in SUBSET (SUBSET S)
    OBVIOUS
  <2> HIDE DEF C
  <2> QED  BY <2>1, SmallestSubset
<1>2. IsFiniteSet(T) /\ T \in SUBSET S
  BY <1>1, FS_Subset
<1> DEFINE g == [s \in SUBSET T |->
                   IF s = {} THEN 0 ELSE f[First(s)] + Total(f, s \ {First(s)})]
<1>3. ASSUME NEW s \in SUBSET T, s # T
      PROVE  g[s] = Total(f, s)
  <2>1. PICK h : IsSum(h, f, s)
    BY <1>1, <1>2, <1>3
  <2>2. IsFiniteSet(s) /\ s \ {First(s)} \in SUBSET s /\ s \in SUBSET s
    BY <1>2, FS_Subset
  <2>3. Total(f, s) = h[s] /\ Total(f, s \ {First(s)}) = h[s \ {First(s)}]
    BY <2>1, <2>2, TotalOfSum
  <2>4. h[s] = IF s = {} THEN 0 ELSE f[First(s)] + h[s \ {First(s)}]
    BY <2>1, <2>2 DEF IsSum
  <2> QED  BY <2>3, <2>4
<1>4. \A s \in SUBSET T : g[s] = IF s = {} THEN 0 ELSE f[First(s)] + g[s \ {First(s)}]
  <2> TAKE s \in SUBSET T
  <2>1. CASE s = {}
    BY <2>1
  <2>2. CASE s # {}
    <3>1. s \ {First(s)} \in SUBSET T /\ s \ {First(s)} # T
      BY <2>2, FirstFacts
    <3>2. g[s \ {First(s)}] = Total(f, s \ {First(s)})
      BY <1>3, <3>1
    <3>3. g[s] = f[First(s)] + Total(f, s \ {First(s)})
      BY <2>2
    <3> QED  BY <2>2, <3>2, <3>3
  <2> QED  BY <2>1, <2>2
<1>5. IsSum(g, f, T)
  BY <1>4 DEF IsSum
<1> QED  BY <1>1, <1>5

\* A total is its first value plus the rest.
LEMMA TotalUnfold ==
  ASSUME NEW f, NEW S, IsFiniteSet(S)
  PROVE  Total(f, S) = IF S = {} THEN 0 ELSE f[First(S)] + Total(f, S \ {First(S)})
<1>1. PICK h : IsSum(h, f, S)
  BY SumExists
<1>2. S \in SUBSET S /\ S \ {First(S)} \in SUBSET S
  OBVIOUS
<1>3. Total(f, S) = h[S] /\ Total(f, S \ {First(S)}) = h[S \ {First(S)}]
  BY <1>1, <1>2, TotalOfSum
<1> QED  BY <1>1, <1>2, <1>3 DEF IsSum

\* A total of naturals is a natural number.
LEMMA TotalNat ==
  ASSUME NEW f, NEW S, IsFiniteSet(S), \A x \in S : f[x] \in Nat
  PROVE  Total(f, S) \in Nat
<1> DEFINE C == {T \in SUBSET S : Total(f, T) \notin Nat}
<1> SUFFICES ASSUME C # {} PROVE FALSE
  OBVIOUS
<1>1. PICK T \in C : \A U \in C : U \subseteq T => U = T
  <2>1. C \in SUBSET (SUBSET S)
    OBVIOUS
  <2> HIDE DEF C
  <2> QED  BY <2>1, SmallestSubset
<1>2. Total(f, T) = IF T = {} THEN 0 ELSE f[First(T)] + Total(f, T \ {First(T)})
  BY <1>1, FS_Subset, TotalUnfold
<1>3. T # {} /\ First(T) \in T /\ f[First(T)] \in Nat
  BY <1>1, <1>2, FirstFacts
<1>4. Total(f, T \ {First(T)}) \in Nat
  BY <1>1, <1>3
<1> QED  BY <1>1, <1>2, <1>3, <1>4

LEMMA QueueLimitNat ==
  ASSUME HallPassConstants
  PROVE  QueueLimit \in Nat
<1> DEFINE sum == MapThenSumSet(LAMBDA d : MaxQueue[d], Destinations)
<1>1. sum = Total(MaxQueue, Destinations)
  BY DEF MapThenSumSet, MapThenFoldSet, First, Total, IsSum
<1>2. sum \in Nat
  BY <1>1, TotalNat DEF HallPassConstants
<1> HIDE DEF sum
<1>3. MaxQueueLimit \in Nat
  BY DEF HallPassConstants
<1>4. \E x \in {MaxQueueLimit, sum} : \A y \in {MaxQueueLimit, sum} : x <= y
  BY <1>2, <1>3
<1>5. Min({MaxQueueLimit, sum}) \in {MaxQueueLimit, sum}
  BY <1>4 DEF Min
<1>6. QueueLimit = Min({MaxQueueLimit, sum})
  BY DEF QueueLimit, sum
<1> QED
  BY <1>2, <1>3, <1>5, <1>6

-----------------------------------------------------------------------------
(***************************************************************************)
(* The queue.                                                              *)
(***************************************************************************)

LEMMA DayMultiples ==
  ASSUME NEW j \in Nat, NEW k \in Nat, NEW d \in Nat \ {0}
  PROVE  /\ j < k => j * d + d <= k * d
         /\ j <= k => j * d <= k * d
<1>1. ASSUME j < k PROVE j * d + d <= k * d
  <2>1. PICK m \in Nat : k = j + 1 + m
    <3>1. k - j - 1 \in Nat /\ k = j + 1 + (k - j - 1)
      BY <1>1
    <3> QED
      BY <3>1
  <2>2. k * d = j * d + d + m * d
    BY <2>1
  <2>3. m * d \in Nat /\ j * d \in Nat
    OBVIOUS
  <2> QED
    BY <2>2, <2>3
<1> QED
  BY <1>1

\* Days do not go back, and an earlier instant of today is of the same day.
LEMMA DayOrder ==
  ASSUME AttendanceConstants, NEW t \in Nat, NEW u \in Nat, t <= u
  PROVE  /\ DayStart(t) <= DayStart(u)
         /\ ~before_current_class_day(t, u) => DayStart(t) = DayStart(u)
         /\ before_current_class_day(t, u) => DayEnd(t) <= DayStart(u)
<1> DEFINE j == t \div DayLength
           k == u \div DayLength
<1>1. /\ j \in Nat /\ k \in Nat /\ DayLength \in Nat \ {0}
      /\ j * DayLength <= t /\ t < j * DayLength + DayLength
      /\ k * DayLength <= u /\ u < k * DayLength + DayLength
  BY DEF AttendanceConstants
<1>2. DayStart(t) = j * DayLength /\ DayStart(u) = k * DayLength
      /\ DayEnd(t) = j * DayLength + DayLength
  BY DEF DayStart, DayEnd
<1> HIDE DEF j, k
<1>3. /\ j < k => j * DayLength + DayLength <= k * DayLength
      /\ k < j => k * DayLength + DayLength <= j * DayLength
  BY <1>1, DayMultiples
<1>4. j * DayLength \in Nat /\ k * DayLength \in Nat
  BY <1>1
<1>5. j < k \/ j = k \/ k < j
  BY <1>1
<1>6. ~(k < j)
  BY <1>1, <1>3, <1>4
<1>7. before_current_class_day(t, u) <=> t < DayStart(u)
  BY DEF before_current_class_day
<1> QED
  BY <1>1, <1>2, <1>3, <1>4, <1>5, <1>6, <1>7

\* Every pass was issued at or before the present, and the queue respected.
QueueInv ==
  /\ LogsNamed
  /\ \A i \in 1..Len(uses) : uses[i].at <= now
  /\ QueueRespected

\* The passes that count against the limit.
Queued == { i \in 1..Len(uses) : /\ ~before_current_class_day(uses[i].at, now)
                                 /\ StatusOf(uses[i]) # "returned" }

LEMMA UsesTyped ==
  ASSUME PassInv
  PROVE  /\ Len(uses) \in Nat /\ now \in Nat
         /\ \A i \in 1..Len(uses) : uses[i].at \in Nat /\ uses[i].seat \in Seats
<1>1. \A i \in 1..Len(uses) : uses[i] \in Uses
  BY DEF PassInv, TablesTyped
<1> QED
  BY <1>1 DEF PassInv, TablesTyped, Uses

LEMMA QueuedAreOut ==
  ASSUME PassInv, QueueInv, AttendanceConstants
  PROVE  Queued = CurrentlyOut
<1>1. \A i \in 1..Len(uses) :
        ~before_current_class_day(uses[i].at, now) <=> DayStart(uses[i].at) = DayStart(now)
  <2> TAKE i \in 1..Len(uses)
  <2>1. uses[i].at \in Nat /\ uses[i].at <= now /\ now \in Nat
    BY UsesTyped DEF QueueInv
  <2>2. DayStart(uses[i].at) <= uses[i].at /\ DayStart(uses[i].at) \in Nat
    BY <2>1, DayStartFacts
  <2>3. before_current_class_day(uses[i].at, now) <=> uses[i].at < DayStart(now)
    BY DEF before_current_class_day
  <2> QED
    BY <2>1, <2>2, <2>3, DayOrder
<1> QED
  BY <1>1 DEF Queued, CurrentlyOut

LEMMA QueuedFinite ==
  ASSUME PassInv
  PROVE  IsFiniteSet(Queued) /\ Cardinality(Queued) \in Nat
<1>1. IsFiniteSet(1..Len(uses)) /\ Queued \subseteq 1..Len(uses)
  BY UsesTyped, FS_Interval DEF Queued
<1> QED
  BY <1>1, FS_Subset, FS_CardinalityType

\* The clock never goes back, and only an approval issues a pass, now.
LEMMA UsesStep ==
  ASSUME PassInv, [Next]_vars
  PROVE  /\ now <= now'
         /\ \/ UNCHANGED uses
            \/ \E use : /\ UNCHANGED now /\ use.at = DayStart(now)
                        /\ uses' = Append(uses, use)
                        /\ Cardinality(CurrentlyOut) < QueueLimit
<1>1. now \in Nat
  BY DEF PassInv, TablesTyped
<1>2. CASE Tick
  BY <1>1, <1>2 DEF Tick
<1>3. ASSUME NEW op \in inflight, approve_hall_pass_request(op)
      PROVE  /\ UNCHANGED now
             /\ \/ UNCHANGED uses
                \/ \E use : /\ use.at = DayStart(now) /\ uses' = Append(uses, use)
                            /\ Cardinality(CurrentlyOut) < QueueLimit
  <2> DEFINE r == op.request
             use == [seat |-> r.seat, dest |-> r.dest, at |-> DayStart(now),
                     pass |-> IF r.dest \in Consuming THEN r.pass ELSE NoPass]
  <2>1. /\ UNCHANGED now
        /\ \/ UNCHANGED uses
           \/ _enforce_hall_pass_settings(r.dest) /\ uses' = Append(uses, use)
    BY <1>3 DEF approve_hall_pass_request
  <2>2. use.at = DayStart(now)
    OBVIOUS
  <2> HIDE DEF use
  <2> QED
    BY <2>1, <2>2 DEF _enforce_hall_pass_settings
<1>4. \/ Tick \/ UNCHANGED <<now, uses>>
      \/ \E op \in inflight : approve_hall_pass_request(op)
  BY DEF Next, vars, grant_hall_passes, revoke_reversed_purchase_grants, End,
         remove_hall_passes, expire_rent_perks, CheckSubmit, CheckApprove, Start,
         reject_hall_pass_request, close_prior_day_hall_pass_requests, CheckTap,
         CheckLeave, CheckReturn, submit_hall_pass_request, record_attendance_session,
         enforce_daily_limits_job
<1> QED
  BY <1>1, <1>2, <1>3, <1>4 DEF Tick

\* No step adds a pass to those that count but the one it issues.
LEMMA QueuedStep ==
  ASSUME PassInv, QueueInv, AttendanceConstants, [Next]_vars, PassInv'
  PROVE  \A i \in 1..Len(uses) : i \in Queued' => i \in Queued
<1> SUFFICES ASSUME NEW i \in 1..Len(uses), i \in Queued'
             PROVE  i \in Queued
  OBVIOUS
<1>1. uses'[i] = uses[i] /\ uses[i].seat \in Seats
  BY RowsGrow, UsesTyped DEF QueueInv
<1>2. StatusOf(uses[i]) # "returned"
  <2>1. log[uses[i].seat] \subseteq log'[uses[i].seat]
    BY <1>1, RowsGrow DEF QueueInv
  <2>2. resolve_hall_pass_lifecycle_status(log'[uses[i].seat], uses[i].pass) # "returned"
    BY <1>1 DEF Queued, StatusOf
  <2>3. Rank["approved"] = 0 /\ Rank["left"] = 1 /\ Rank["returned"] = 2
    BY DEF Rank
  <2> QED
    BY <2>1, <2>2, <2>3, StatusForward DEF StatusOf
<1>3. ~before_current_class_day(uses[i].at, now)
  <2>1. uses[i].at \in Nat /\ now \in Nat /\ now' \in Nat /\ now <= now'
    BY UsesTyped, UsesStep DEF PassInv, TablesTyped
  <2>2. ~(uses[i].at < DayStart(now'))
    BY <1>1 DEF Queued, before_current_class_day
  <2>3. DayStart(now) <= DayStart(now') /\ DayStart(now) \in Nat /\ DayStart(now') \in Nat
    BY <2>1, DayOrder, DayStartFacts
  <2> QED
    BY <2>1, <2>2, <2>3 DEF before_current_class_day
<1> QED
  BY <1>2, <1>3 DEF Queued

LEMMA OneFurther ==
  ASSUME NEW n \in Nat, NEW i \in 1..(n + 1)
  PROVE  i \in 1..n \/ i = n + 1
  OBVIOUS

LEMMA QueueInvStep ==
  ASSUME PassInv, PassInv', QueueInv, HallPassConstants, AttendanceConstants, [Next]_vars
  PROVE  QueueInv'
<1>1. LogsNamed'
  BY RowsGrow DEF QueueInv
<1>2. now \in Nat /\ now' \in Nat /\ now <= now' /\ Len(uses) \in Nat
  BY UsesStep, UsesTyped DEF PassInv, TablesTyped
<1>3. IsFiniteSet(Queued) /\ Cardinality(Queued) \in Nat /\ QueueLimit \in Nat
  BY QueuedFinite, QueueLimitNat
<1>4. Cardinality(Queued) <= QueueLimit
  BY DEF QueueInv, QueueRespected, Queued
<1>5. Queued' \subseteq 1..Len(uses')
  BY DEF Queued
<1>6. CASE UNCHANGED uses
  <2>1. Queued' \subseteq Queued
    BY <1>5, <1>6, QueuedStep
  <2>2. Cardinality(Queued') <= Cardinality(Queued) /\ Cardinality(Queued') \in Nat
    BY <1>3, <2>1, FS_Subset, FS_CardinalityType
  <2>3. QueueRespected'
    BY <1>3, <1>4, <2>2 DEF QueueRespected, Queued
  <2>4. \A i \in 1..Len(uses') : uses'[i].at <= now'
    BY <1>2, <1>6, UsesTyped DEF QueueInv
  <2> QED
    BY <1>1, <2>3, <2>4 DEF QueueInv
<1>7. ASSUME NEW use, UNCHANGED now, use.at = DayStart(now), uses' = Append(uses, use),
             Cardinality(CurrentlyOut) < QueueLimit
      PROVE  QueueInv'
  <2>0. use.at \in Nat /\ use.at <= now
    BY <1>2, <1>7, DayStartFacts
  <2>1. /\ Len(uses') = Len(uses) + 1 /\ uses'[Len(uses) + 1] = use
        /\ \A i \in 1..Len(uses) : uses'[i] = uses[i]
    BY <1>7 DEF PassInv, TablesTyped
  <2>2. Queued' \subseteq Queued \cup {Len(uses) + 1}
    BY <1>2, <1>5, <2>1, QueuedStep
  <2>3. /\ IsFiniteSet(Queued \cup {Len(uses) + 1})
        /\ Cardinality(Queued \cup {Len(uses) + 1}) <= Cardinality(Queued) + 1
    <3>1. IsFiniteSet(Queued \cup {Len(uses) + 1})
      BY <1>3, FS_AddElement, Zenon
    <3>2. Cardinality(Queued \cup {Len(uses) + 1})
            \in {Cardinality(Queued), Cardinality(Queued) + 1}
      BY <1>3, FS_AddElement, Zenon
    <3> QED
      BY <1>3, <3>1, <3>2
  <2>4. Cardinality(Queued') <= Cardinality(Queued \cup {Len(uses) + 1})
    BY <2>2, <2>3, FS_Subset
  <2>5. /\ Cardinality(Queued') \in Nat
        /\ Cardinality(Queued \cup {Len(uses) + 1}) \in Nat
    BY <2>2, <2>3, FS_Subset, FS_CardinalityType
  <2>6. Cardinality(Queued) < QueueLimit
    BY <1>7, QueuedAreOut
  <2>7. QueueRespected'
    BY <1>3, <2>3, <2>4, <2>5, <2>6 DEF QueueRespected, Queued
  <2>8. \A i \in 1..Len(uses') : uses'[i].at <= now'
    <3> TAKE i \in 1..Len(uses')
    <3>1. i \in 1..Len(uses) \/ i = Len(uses) + 1
      <4>1. Len(uses') = Len(uses) + 1 /\ i \in 1..Len(uses')
        BY <2>1
      <4>2. i \in 1..(Len(uses) + 1)
        BY <4>1, Zenon
      <4> QED
        BY <1>2, <4>2, OneFurther
    <3> QED
      BY <1>2, <1>7, <2>0, <2>1, <3>1 DEF QueueInv
  <2> QED
    BY <1>1, <2>7, <2>8 DEF QueueInv
<1> QED
  BY <1>6, <1>7, UsesStep

LEMMA InitQueueInv ==
  ASSUME HallPassConstants, Init
  PROVE  QueueInv
<1>1. Queued = {} /\ LogsNamed /\ uses = <<>>
  BY DEF Init, Queued, LogsNamed
<1>2. Cardinality(Queued) = 0
  BY <1>1, FS_EmptySet
<1>3. QueueRespected
  BY <1>2, QueueLimitNat DEF QueueRespected, Queued
<1> QED
  BY <1>1, <1>3 DEF QueueInv

\* The passes of a day that are not back never exceed the class's limit, however
\* many requests are approved side by side and whatever rows arrive late.
THEOREM QueueNeverExceeded == Spec => []QueueRespected
<1>1. Init => QueueInv
  BY HallPassConstants, InitQueueInv
<1>2. PassInv /\ PassInv' /\ QueueInv /\ [Next]_vars => QueueInv'
  BY HallPassConstants, AttendanceConstants, QueueInvStep
<1>3. QueueInv => QueueRespected
  BY DEF QueueInv
<1> QED
  BY <1>1, <1>2, <1>3, PassAlways, PTL DEF Spec

-----------------------------------------------------------------------------
(***************************************************************************)
(* Every row of a seat has its instant, whoever dated it.                  *)
(***************************************************************************)

RowsSound(rows) ==
  IsFiniteSet(rows) /\ \A r \in rows : r.at \in Nat /\ r.id \in Nat

\* What a handler holds when it records.
RecordsTyped == \A op \in inflight : op.op = "record" => op.at \in Nat

LEMMA RowFacts ==
  \A id, status, reason, pass, at, mech :
    LET r == Row(id, status, reason, pass, at, mech)
    IN r.id = id /\ r.status = status /\ r.reason = reason /\ r.pass = pass /\ r.at = at
  BY DEF Row

\* A finite nonempty set of rows has a last one.
LEMMA LastFacts ==
  ASSUME NEW rows, RowsSound(rows), rows # {}
  PROVE  LastOf(rows) \in rows
<1> DEFINE Final(T) == { r \in T : \A q \in T : ~Precedes(r, q) }
           C == { T \in SUBSET rows : T # {} /\ Final(T) = {} }
<1>1. C = {}
  <2> SUFFICES ASSUME C # {} PROVE FALSE
    OBVIOUS
  <2>1. PICK T \in C : \A U \in C : U \subseteq T => U = T
    <3>1. C \in SUBSET (SUBSET rows) /\ IsFiniteSet(rows)
      BY DEF RowsSound
    <3> HIDE DEF C
    <3> QED
      BY <3>1, SmallestSubset
  <2>2. PICK x \in T : TRUE
    OBVIOUS
  <2>3. \A r \in T : r.at \in Nat /\ r.id \in Nat
    BY DEF RowsSound
  <2>4. ~Precedes(x, x)
    BY <2>3 DEF Precedes
  <2>5. T \ {x} # {}
    BY <2>2, <2>4
  <2>6. T \ {x} \notin C /\ T \ {x} \in SUBSET rows
    BY <2>1, <2>2
  <2>7. PICK m \in T \ {x} : \A q \in T \ {x} : ~Precedes(m, q)
    BY <2>5, <2>6
  <2>8. m \in Final(T) \/ x \in Final(T)
    <3>1. CASE Precedes(m, x)
      <4>1. \A q \in T \ {x} : ~Precedes(x, q)
        <5> SUFFICES ASSUME NEW q \in T \ {x}, Precedes(x, q) PROVE Precedes(m, q)
          BY <2>7
        <5> QED
          BY <2>3, <3>1 DEF Precedes
      <4> QED
        BY <2>4, <4>1
    <3>2. CASE ~Precedes(m, x)
      BY <2>7, <3>2
    <3> QED
      BY <3>1, <3>2
  <2> QED
    BY <2>8
<1>2. \E r \in rows : ~\E q \in rows : Precedes(r, q)
  BY <1>1
<1> QED
  BY <1>2 DEF LastOf

LEMMA LatestSound ==
  ASSUME NEW rows, RowsSound(rows)
  PROVE  Latest(rows).at \in Nat
  BY LastFacts DEF Latest, NoRow, RowsSound

LEMMA MinOfTwo ==
  ASSUME NEW a \in Nat, NEW b \in Nat
  PROVE  Min({a, b}) \in Nat
<1>1. \E x \in {a, b} : \A y \in {a, b} : x <= y
  OBVIOUS
<1>2. Min({a, b}) \in {a, b}
  BY <1>1 DEF Min
<1> QED
  BY <1>2

LEMMA Append1Sound ==
  ASSUME NEW rows, RowsSound(rows), NEW status, NEW reason, NEW pass, NEW at \in Nat, NEW mech
  PROVE  RowsSound(Append1(rows, status, reason, pass, at, mech))
<1>1. Cardinality(rows) + 1 \in Nat
  BY FS_CardinalityType DEF RowsSound
<1> DEFINE r == Row(Cardinality(rows) + 1, status, reason, pass, at, mech)
<1>2. r.at \in Nat /\ r.id \in Nat
  BY <1>1, RowFacts
<1>3. IsFiniteSet(rows \cup {r})
  BY FS_AddElement, Zenon DEF RowsSound
<1> QED
  BY <1>2, <1>3 DEF Append1, RowsSound

LEMMA RecordedSound ==
  ASSUME AttendanceConstants, NEW rows, RowsSound(rows),
         NEW t \in Nat, NEW status, NEW reason, NEW pass, NEW mech
  PROVE  RowsSound(Recorded(rows, t, status, reason, pass, mech))
<1> DEFINE end == Min({t, DayEnd(Latest(rows).at)})
           over == Append1(rows, "inactive", "done_for_day", NoPass, end, mech)
<1>1. end \in Nat
  BY LatestSound, DayStartFacts, MinOfTwo
<1>2. RowsSound(over)
  BY <1>1, Append1Sound
<1>3. \/ Recorded(rows, t, status, reason, pass, mech)
           = Append1(rows, status, reason, pass, t, mech)
      \/ Recorded(rows, t, status, reason, pass, mech)
           = Append1(over, status, reason, pass, t, mech)
  BY DEF Recorded
<1> HIDE DEF over
<1> QED
  BY <1>2, <1>3, Append1Sound

LEMMA ImageFinite ==
  ASSUME NEW S, IsFiniteSet(S), NEW f
  PROVE  IsFiniteSet({ f[x] : x \in S })
<1> DEFINE T == { f[x] : x \in S }
           g == [x \in S |-> f[x]]
<1>1. g \in Surjection(S, T)
  <2>1. g \in [S -> T]
    OBVIOUS
  <2>2. \A y \in T : \E x \in S : g[x] = y
    OBVIOUS
  <2> QED
    BY <2>1, <2>2 DEF Surjection
<1> HIDE DEF g, T
<1>2. IsFiniteSet(T)
  BY <1>1, FS_Surjection
<1> QED
  BY <1>2 DEF T

LEMMA DueSound ==
  ASSUME NEW rows, RowsSound(rows), NEW t \in Nat
  PROVE  RowsSound(close_due_attendance_intervals(rows, t))
<1> DEFINE intervals == list_attendance_intervals(rows, t)
           due == { d \in 0..t :
                      \E i \in intervals : i.closing = 0 /\ DueAt(intervals, i) = d }
           id(d) == Cardinality(rows) + 1 + Cardinality({ e \in due : e < d })
           row(d) == Row(id(d), "inactive", "done_for_day", NoPass, d, "system")
           f == [d \in due |-> row(d)]
<1>1. close_due_attendance_intervals(rows, t) = rows \cup { row(d) : d \in due }
  BY DEF close_due_attendance_intervals
<1>2. IsFiniteSet(due) /\ due \subseteq Nat
  <2>1. IsFiniteSet(0..t) /\ due \subseteq 0..t
    BY FS_Interval
  <2> QED
    BY <2>1, FS_Subset
<1> HIDE DEF due
<1>3. \A d \in due : id(d) \in Nat
  <2> TAKE d \in due
  <2>1. IsFiniteSet({ e \in due : e < d })
    BY <1>2, FS_Subset
  <2> QED
    BY <2>1, FS_CardinalityType DEF RowsSound
<1> HIDE DEF id
<1>4. \A d \in due : row(d).at \in Nat /\ row(d).id \in Nat
  BY <1>2, <1>3, RowFacts
<1>5. { row(d) : d \in due } = { f[d] : d \in due }
  OBVIOUS
<1> HIDE DEF row, f
<1>6. IsFiniteSet({ row(d) : d \in due })
  BY <1>2, <1>5, ImageFinite
<1>7. IsFiniteSet(rows \cup { row(d) : d \in due })
  BY <1>6, FS_Union DEF RowsSound
<1> QED
  BY <1>1, <1>4, <1>7 DEF RowsSound

LEMMA HangingSound ==
  ASSUME AttendanceConstants, NEW rows, RowsSound(rows), NEW t \in Nat
  PROVE  RowsSound(close_due_hanging_hall_pass(rows, t))
<1> DEFINE exits == HangingExits(rows, t)
           id(r) == Cardinality(rows) + 2 * Cardinality({ q \in exits : Precedes(q, r) })
           back(r) == Row(id(r) + 1, "active", "start_work", r.pass, DayEnd(r.at), "system")
           end(r) == Row(id(r) + 2, "inactive", "done_for_day", NoPass, DayEnd(r.at), "system")
           f == [r \in exits |-> back(r)]
           g == [r \in exits |-> end(r)]
<1>1. close_due_hanging_hall_pass(rows, t)
        = (rows \cup { back(r) : r \in exits }) \cup { end(r) : r \in exits }
  BY DEF close_due_hanging_hall_pass
<1>2. IsFiniteSet(exits) /\ exits \subseteq rows
  BY FS_Subset DEF HangingExits, RowsSound
<1> HIDE DEF exits
<1>3. \A r \in exits : id(r) \in Nat
  <2> TAKE r \in exits
  <2>1. IsFiniteSet({ q \in exits : Precedes(q, r) })
    BY <1>2, FS_Subset
  <2> QED
    BY <2>1, FS_CardinalityType DEF RowsSound
<1> HIDE DEF id
<1>4. \A r \in exits : /\ back(r).at \in Nat /\ back(r).id \in Nat
                       /\ end(r).at \in Nat /\ end(r).id \in Nat
  <2> TAKE r \in exits
  <2>1. DayEnd(r.at) \in Nat
    BY <1>2, DayStartFacts DEF RowsSound
  <2> QED
    BY <1>3, <2>1, RowFacts
<1>5. /\ { back(r) : r \in exits } = { f[r] : r \in exits }
      /\ { end(r) : r \in exits } = { g[r] : r \in exits }
  OBVIOUS
<1> HIDE DEF back, end, f, g
<1>6. IsFiniteSet({ back(r) : r \in exits }) /\ IsFiniteSet({ end(r) : r \in exits })
  <2>1. IsFiniteSet({ f[r] : r \in exits })
    BY <1>2, ImageFinite
  <2>2. IsFiniteSet({ g[r] : r \in exits })
    BY <1>2, ImageFinite
  <2> QED
    BY <1>5, <2>1, <2>2
<1>7. IsFiniteSet((rows \cup { back(r) : r \in exits }) \cup { end(r) : r \in exits })
  BY <1>6, FS_Union DEF RowsSound
<1> QED
  BY <1>1, <1>4, <1>7 DEF RowsSound

RowsInv ==
  /\ LogsNamed /\ RecordsTyped
  /\ \A s \in Seats : RowsSound(log[s])

LEMMA InitRowsInv == Init => RowsInv
<1> SUFFICES ASSUME Init PROVE RowsInv
  OBVIOUS
<1>1. \A s \in Seats : log[s] = {}
  BY DEF Init
<1>2. RowsSound({})
  BY FS_EmptySet DEF RowsSound
<1> QED
  BY <1>1, <1>2 DEF Init, RowsInv, LogsNamed, RecordsTyped

LEMMA RowsInvStep ==
  ASSUME PassInv, RowsInv, AttendanceConstants, [Next]_vars
  PROVE  RowsInv'
<1>1. LogsNamed' /\ now \in Nat
  BY RowsGrow DEF RowsInv, PassInv, TablesTyped
<1>2. CASE UNCHANGED <<log, inflight>>
  BY <1>1, <1>2 DEF RowsInv, RecordsTyped
<1>3. ASSUME NEW op, Start(op), op.op = "record" => op.at = now
      PROVE  RowsInv'
  BY <1>1, <1>3 DEF Start, RowsInv, RecordsTyped
<1>4. ASSUME NEW op, Finish(op), UNCHANGED log
      PROVE  RowsInv'
  BY <1>1, <1>4 DEF Finish, RowsInv, RecordsTyped
<1>5. ASSUME NEW op \in inflight, record_attendance_session(op)
      PROVE  RowsInv'
  <2>1. op.at \in Nat /\ RecordsTyped'
    BY <1>5 DEF record_attendance_session, Finish, RowsInv, RecordsTyped
  <2>2. CASE log' = log
    BY <1>1, <2>1, <2>2 DEF RowsInv
  <2>3. ASSUME NEW t \in op.at..now,
               log' = [log EXCEPT ![op.seat] =
                         Recorded(log[op.seat], t, op.status, op.reason, op.pass, op.mech)]
        PROVE  RowsInv'
    <3>1. t \in Nat
      BY <1>1, <2>1
    <3>2. ASSUME NEW s \in Seats PROVE RowsSound(log'[s])
      <4>1. RowsSound(log[s])
        BY DEF RowsInv
      <4>2. RowsSound(Recorded(log[s], t, op.status, op.reason, op.pass, op.mech))
        BY <3>1, <4>1, RecordedSound
      <4>3. \/ log'[s] = log[s]
            \/ log'[s] = Recorded(log[s], t, op.status, op.reason, op.pass, op.mech)
        BY <2>3 DEF RowsInv, LogsNamed
      <4> QED
        BY <4>1, <4>2, <4>3
    <3> QED
      BY <1>1, <2>1, <3>2 DEF RowsInv
  <2> QED
    BY <1>5, <2>2, <2>3 DEF record_attendance_session
<1>6. ASSUME NEW s \in Seats, enforce_daily_limits_job(s)
      PROVE  RowsInv'
  <2>1. log' = [log EXCEPT ![s] = Swept(log[s], now)] /\ UNCHANGED inflight
    BY <1>6 DEF enforce_daily_limits_job
  <2>2. RowsSound(Swept(log[s], now))
    BY <1>1, DueSound, HangingSound, SweptIs DEF RowsInv
  <2>3. \A x \in Seats : log'[x] = log[x] \/ log'[x] = Swept(log[s], now)
    BY <2>1 DEF RowsInv, LogsNamed
  <2> QED
    BY <1>1, <2>1, <2>2, <2>3 DEF RowsInv, RecordsTyped
<1>7. ASSUME NEW s \in Seats, NEW d \in Destinations, CheckSubmit(s, d)
      PROVE  RowsInv'
  BY <1>3, <1>7 DEF CheckSubmit
<1>8. ASSUME NEW r \in requests, CheckApprove(r)
      PROVE  RowsInv'
  BY <1>3, <1>8 DEF CheckApprove
<1>9. ASSUME NEW s \in Seats, NEW m \in Mechanisms, NEW x \in {"active", "inactive"},
             CheckTap(s, x, m)
      PROVE  RowsInv'
  BY <1>3, <1>9 DEF CheckTap
<1>10. ASSUME NEW i \in 1..Len(uses), NEW m \in Mechanisms,
              CheckLeave(uses[i], m) \/ CheckReturn(uses[i], m)
       PROVE  RowsInv'
  BY <1>3, <1>10 DEF CheckLeave, CheckReturn
<1>11. ASSUME NEW op \in inflight, submit_hall_pass_request(op) \/ approve_hall_pass_request(op)
       PROVE  RowsInv'
  BY <1>4, <1>11 DEF submit_hall_pass_request, approve_hall_pass_request
<1>12. \/ UNCHANGED <<log, inflight>>
       \/ \E s \in Seats, d \in Destinations : CheckSubmit(s, d)
       \/ \E r \in requests : CheckApprove(r)
       \/ \E s \in Seats, m \in Mechanisms, x \in {"active", "inactive"} : CheckTap(s, x, m)
       \/ \E i \in 1..Len(uses), m \in Mechanisms :
            CheckLeave(uses[i], m) \/ CheckReturn(uses[i], m)
       \/ \E op \in inflight : \/ submit_hall_pass_request(op)
                               \/ approve_hall_pass_request(op)
                               \/ record_attendance_session(op)
       \/ \E s \in Seats : enforce_daily_limits_job(s)
  BY DEF Next, vars, Tick, grant_hall_passes, revoke_reversed_purchase_grants, End,
         remove_hall_passes, expire_rent_perks, reject_hall_pass_request,
         close_prior_day_hall_pass_requests
<1> QED
  BY <1>2, <1>5, <1>6, <1>7, <1>8, <1>9, <1>10, <1>11, <1>12

-----------------------------------------------------------------------------
(***************************************************************************)
(* What the sweep leaves.                                                  *)
(***************************************************************************)

\* A row that names the pass and starts work ends the absence, unless it is dated
\* before the pass left.
LEMMA NamedIsBack ==
  ASSUME NEW s \in Seats, RowsSound(log[s]), NEW r \in log[s], IsHallPassExit(r),
         NEW q \in log[s], q.status = "active", q.pass = r.pass
  PROVE  ReturnedEarly(s, r) \/ DayEnded(s, r)
<1> DEFINE left == { x \in log[s] : x.pass = r.pass /\ IsHallPassExit(x) }
           back == { x \in log[s] : /\ x.pass = r.pass /\ x.status = "active"
                                    /\ \E y \in left : y.at <= x.at }
<1>1. q.at < r.at \/ r.at <= q.at
  BY DEF RowsSound
<1>2. CASE q.at < r.at
  BY <1>2 DEF ReturnedEarly
<1>3. CASE r.at <= q.at
  <2>1. r \in left /\ q \in back
    BY <1>3
  <2> QED
    BY <2>1 DEF DayEnded, resolve_hall_pass_lifecycle_status
<1> QED
  BY <1>1, <1>2, <1>3

\* A sweep that changes nothing found no pass hanging.
LEMMA NothingHangs ==
  ASSUME AttendanceConstants, NEW rows, RowsSound(rows), NEW t \in Nat,
         Swept(rows, t) = rows, NEW r \in rows, IsHallPassExit(r),
         before_current_class_day(r.at, t)
  PROVE  \E q \in rows : q.status = "active" /\ q.pass = r.pass
<1>1. close_due_attendance_intervals(rows, t) = rows
  <2>1. rows \subseteq close_due_attendance_intervals(rows, t)
    BY DEF close_due_attendance_intervals
  <2>2. close_due_attendance_intervals(rows, t) \subseteq Swept(rows, t)
    BY SweptIs DEF close_due_hanging_hall_pass
  <2> QED
    BY <2>1, <2>2
<1>2. close_due_hanging_hall_pass(rows, t) = rows
  BY <1>1, SweptIs
<1>3. DayEnd(r.at) <= t
  <2>1. r.at \in Nat /\ r.at < DayStart(t) /\ DayStart(t) <= t /\ DayStart(t) \in Nat
    BY DayStartFacts DEF RowsSound, before_current_class_day
  <2>2. DayEnd(r.at) <= DayStart(t) /\ DayEnd(r.at) \in Nat
    BY <2>1, DayOrder, DayStartFacts
  <2> QED
    BY <2>1, <2>2
<1> SUFFICES ASSUME ~\E q \in rows : q.status = "active" /\ q.pass = r.pass
             PROVE  FALSE
  OBVIOUS
<1>4. r \in HangingExits(rows, t)
  BY <1>3 DEF HangingExits
<1>5. \E i : Row(i, "active", "start_work", r.pass, DayEnd(r.at), "system") \in rows
  BY <1>2, <1>4 DEF close_due_hanging_hall_pass
<1> QED
  BY <1>5, RowFacts

\* Once the sweep finds nothing to do for a seat, every pass that left on an
\* earlier day is back, unless a return was dated before the pass left.
THEOREM SweepEndsEarlierDays == Spec => []DayEndsThePass
<1>1. PassInv /\ RowsInv /\ [Next]_vars => RowsInv'
  BY AttendanceConstants, RowsInvStep
<1>2. PassInv /\ RowsInv => DayEndsThePass
  <2> SUFFICES ASSUME PassInv, RowsInv, NEW s \in Seats, SweepDone(s),
                      NEW r \in ExitsBeforeToday(s)
               PROVE  ReturnedEarly(s, r) \/ DayEnded(s, r)
    BY DEF DayEndsThePass
  <2>1. /\ r \in log[s] /\ IsHallPassExit(r) /\ before_current_class_day(r.at, now)
        /\ RowsSound(log[s]) /\ now \in Nat
    BY DEF ExitsBeforeToday, RowsInv, PassInv, TablesTyped
  <2>2. \E q \in log[s] : q.status = "active" /\ q.pass = r.pass
    <3>1. CASE ~SweepSelects(log[s])
      BY <2>1, <3>1 DEF SweepSelects, IsHallPassExit
    <3>2. CASE Swept(log[s], now) = log[s]
      BY <2>1, <3>2, NothingHangs, AttendanceConstants
    <3> QED
      BY <3>1, <3>2 DEF SweepDone
  <2> QED
    BY <2>1, <2>2, NamedIsBack
<1> QED
  BY <1>1, <1>2, InitRowsInv, PassAlways, PTL DEF Spec

-----------------------------------------------------------------------------
(***************************************************************************)
(* Type correctness.                                                       *)
(***************************************************************************)

Typed(rows) == rows \subseteq RowType(Passes)

TypeInv == inflight \subseteq InFlight /\ \A s \in Seats : Typed(log[s])

LEMMA Append1Typed ==
  ASSUME NEW rows, RowsSound(rows), Typed(rows), NEW status \in {"active", "inactive"},
         NEW reason \in Reasons, NEW pass \in Passes \cup {NoPass}, NEW at \in Nat,
         NEW mech \in {"self", "teacher", "system"}
  PROVE  Typed(Append1(rows, status, reason, pass, at, mech))
<1>1. Cardinality(rows) + 1 \in Nat \ {0}
  BY FS_CardinalityType DEF RowsSound
<1>2. Row(Cardinality(rows) + 1, status, reason, pass, at, mech) \in RowType(Passes)
  BY <1>1 DEF Row, RowType
<1> QED
  BY <1>2 DEF Append1, Typed

LEMMA RecordedTyped ==
  ASSUME AttendanceConstants, NEW rows, RowsSound(rows), Typed(rows), NEW t \in Nat,
         NEW status \in {"active", "inactive"}, NEW reason \in Reasons,
         NEW pass \in Passes \cup {NoPass}, NEW mech \in {"self", "teacher", "system"}
  PROVE  Typed(Recorded(rows, t, status, reason, pass, mech))
<1> DEFINE last == Latest(rows)
           end == Min({t, DayEnd(last.at)})
           over == Append1(rows, "inactive", "done_for_day", NoPass, end, mech)
<1>1. end \in Nat
  <2>1. DayEnd(last.at) \in Nat
    BY LatestSound, DayStartFacts
  <2> QED
    BY <2>1, MinOfTwo
<1>2. RowsSound(over) /\ Typed(over)
  <2>1. "done_for_day" \in Reasons /\ NoPass \in Passes \cup {NoPass}
    BY DEF Reasons
  <2> HIDE DEF end
  <2> QED
    BY <1>1, <2>1, Append1Sound, Append1Typed
<1>3. \/ Recorded(rows, t, status, reason, pass, mech)
           = Append1(rows, status, reason, pass, t, mech)
      \/ Recorded(rows, t, status, reason, pass, mech)
           = Append1(over, status, reason, pass, t, mech)
  BY DEF Recorded
<1> HIDE DEF over
<1> QED
  BY <1>2, <1>3, Append1Typed

LEMMA DueTyped ==
  ASSUME NEW rows, RowsSound(rows), Typed(rows), NEW t \in Nat
  PROVE  Typed(close_due_attendance_intervals(rows, t))
<1> DEFINE due == { d \in 0..t : \E i \in list_attendance_intervals(rows, t) :
                      i.closing = 0 /\ DueAt(list_attendance_intervals(rows, t), i) = d }
           id(d) == Cardinality(rows) + 1 + Cardinality({ e \in due : e < d })
<1>1. close_due_attendance_intervals(rows, t)
        = rows \cup { Row(id(d), "inactive", "done_for_day", NoPass, d, "system") : d \in due }
  BY DEF close_due_attendance_intervals
<1>2. IsFiniteSet(0..t) /\ due \subseteq 0..t
  BY FS_Interval
<1> HIDE DEF due
<1>3. ASSUME NEW d \in due
      PROVE  Row(id(d), "inactive", "done_for_day", NoPass, d, "system") \in RowType(Passes)
  <2>1. IsFiniteSet({ e \in due : e < d })
    BY <1>2, FS_Subset
  <2>2. id(d) \in Nat \ {0} /\ d \in Nat
    BY <1>2, <2>1, FS_CardinalityType DEF RowsSound
  <2> QED
    BY <2>2 DEF Row, RowType, Reasons
<1> QED
  BY <1>1, <1>3 DEF Typed

LEMMA HangingTyped ==
  ASSUME AttendanceConstants, NEW rows, RowsSound(rows), Typed(rows), NEW t \in Nat
  PROVE  Typed(close_due_hanging_hall_pass(rows, t))
<1> DEFINE exits == HangingExits(rows, t)
           id(r) == Cardinality(rows) + 2 * Cardinality({ q \in exits : Precedes(q, r) })
           back(r) == Row(id(r) + 1, "active", "start_work", r.pass, DayEnd(r.at), "system")
           end(r) == Row(id(r) + 2, "inactive", "done_for_day", NoPass, DayEnd(r.at), "system")
<1>1. close_due_hanging_hall_pass(rows, t)
        = (rows \cup { back(r) : r \in exits }) \cup { end(r) : r \in exits }
  BY DEF close_due_hanging_hall_pass
<1>2. IsFiniteSet(exits) /\ exits \subseteq rows
  BY FS_Subset DEF HangingExits, RowsSound
<1> HIDE DEF exits
<1>3. ASSUME NEW r \in exits
      PROVE  back(r) \in RowType(Passes) /\ end(r) \in RowType(Passes)
  <2>1. IsFiniteSet({ q \in exits : Precedes(q, r) })
    BY <1>2, FS_Subset
  <2>2. id(r) + 1 \in Nat \ {0} /\ id(r) + 2 \in Nat \ {0}
    BY <2>1, FS_CardinalityType DEF RowsSound
  <2>3. DayEnd(r.at) \in Nat
    BY <1>2, DayStartFacts DEF RowsSound
  <2>4. r.pass \in Passes \cup {NoPass}
    BY <1>2 DEF Typed, RowType
  <2> HIDE DEF id
  <2> QED
    BY <2>2, <2>3, <2>4 DEF Row, RowType, Reasons
<1> QED
  BY <1>1, <1>3 DEF Typed

LEMMA TypeInvStep ==
  ASSUME PassInv, RowsInv, TypeInv, AttendanceConstants, HallPassConstants, [Next]_vars
  PROVE  TypeInv'
<1>1. CASE UNCHANGED <<log, inflight>>
  BY <1>1 DEF TypeInv
<1>2. ASSUME NEW op \in InFlight, Start(op)
      PROVE  TypeInv'
  BY <1>2 DEF Start, TypeInv
<1>3. ASSUME NEW op, Finish(op), UNCHANGED log
      PROVE  TypeInv'
  BY <1>3 DEF Finish, TypeInv
<1>4. ASSUME NEW s \in Seats, NEW rows, Typed(rows), log' = [log EXCEPT ![s] = rows],
             inflight' \subseteq inflight
      PROVE  TypeInv'
  <2>1. \A x \in Seats : log'[x] = log[x] \/ log'[x] = rows
    BY <1>4 DEF RowsInv, LogsNamed
  <2> QED
    BY <1>4, <2>1 DEF TypeInv
<1>5. /\ now \in Nat /\ DayStart(now) \in Nat
      /\ requests \subseteq Requests
      /\ \A i \in 1..Len(uses) : uses[i] \in Uses
      /\ \A s \in Seats : RowsSound(log[s]) /\ Typed(log[s])
      /\ Mechanisms \subseteq {"self", "teacher"}
  <2>1. now \in Nat /\ requests \subseteq Requests /\ uses \in Seq(Uses)
    BY DEF PassInv, TablesTyped
  <2>2. DayStart(now) \in Nat
    BY <2>1, DayStartFacts
  <2>3. \A i \in 1..Len(uses) : uses[i] \in Uses
    BY <2>1
  <2>4. Mechanisms \subseteq {"self", "teacher"}
    BY DEF HallPassConstants
  <2> QED
    BY <2>1, <2>2, <2>3, <2>4 DEF RowsInv, TypeInv
<1>6. "start_work" \in Reasons /\ "hall_pass" \in Reasons /\ "done_for_day" \in Reasons
  BY DEF Reasons
<1>7. ASSUME NEW s \in Seats, NEW d \in Destinations, CheckSubmit(s, d)
      PROVE  TypeInv'
  BY <1>2, <1>5, <1>7 DEF CheckSubmit, InFlight
<1>8. ASSUME NEW r \in requests, CheckApprove(r)
      PROVE  TypeInv'
  BY <1>2, <1>5, <1>8 DEF CheckApprove, InFlight
<1>9. ASSUME NEW s \in Seats, NEW m \in Mechanisms, NEW x \in {"active", "inactive"},
             CheckTap(s, x, m)
      PROVE  TypeInv'
  BY <1>2, <1>5, <1>6, <1>9 DEF CheckTap, InFlight
<1>10. ASSUME NEW i \in 1..Len(uses), NEW m \in Mechanisms,
              CheckLeave(uses[i], m) \/ CheckReturn(uses[i], m)
       PROVE  TypeInv'
  <2>1. uses[i].seat \in Seats /\ uses[i].pass \in Passes \cup {NoPass}
    BY <1>5 DEF Uses
  <2> QED
    BY <1>2, <1>5, <1>6, <1>10, <2>1 DEF CheckLeave, CheckReturn, InFlight
<1>11. ASSUME NEW op \in inflight, submit_hall_pass_request(op) \/ approve_hall_pass_request(op)
       PROVE  TypeInv'
  BY <1>3, <1>11 DEF submit_hall_pass_request, approve_hall_pass_request
<1>12. ASSUME NEW op \in inflight, record_attendance_session(op)
       PROVE  TypeInv'
  <2>1. op.op = "record" /\ Finish(op) /\ inflight' \subseteq inflight
    BY <1>12 DEF record_attendance_session, Finish
  <2>2. op \in [op: {"record"}, seat: Seats, status: {"active", "inactive"},
                pass: Passes \cup {NoPass}, reason: Reasons, mech: Mechanisms, at: Nat]
    BY <2>1 DEF TypeInv, InFlight
  <2>3. /\ op.seat \in Seats /\ op.status \in {"active", "inactive"}
        /\ op.pass \in Passes \cup {NoPass} /\ op.reason \in Reasons
        /\ op.mech \in {"self", "teacher", "system"} /\ op.at \in Nat
    BY <1>5, <2>2
  <2>4. \A t \in op.at..now :
          Typed(Recorded(log[op.seat], t, op.status, op.reason, op.pass, op.mech))
    <3> TAKE t \in op.at..now
    <3>1. t \in Nat
      BY <1>5, <2>3
    <3> QED
      BY <1>5, <2>3, <3>1, RecordedTyped
  <2>5. CASE log' = log
    BY <1>3, <2>1, <2>5
  <2>6. CASE \E t \in op.at..now : log' = [log EXCEPT ![op.seat] =
               Recorded(log[op.seat], t, op.status, op.reason, op.pass, op.mech)]
    BY <1>4, <2>1, <2>3, <2>4, <2>6
  <2> QED
    BY <1>12, <2>5, <2>6 DEF record_attendance_session
<1>13. ASSUME NEW s \in Seats, enforce_daily_limits_job(s)
       PROVE  TypeInv'
  <2>1. Typed(Swept(log[s], now))
    BY <1>5, SweptIs, DueSound, DueTyped, HangingTyped
  <2> QED
    BY <1>4, <1>13, <2>1 DEF enforce_daily_limits_job
<1>14. \/ UNCHANGED <<log, inflight>>
       \/ \E s \in Seats, d \in Destinations : CheckSubmit(s, d)
       \/ \E r \in requests : CheckApprove(r)
       \/ \E s \in Seats, m \in Mechanisms, x \in {"active", "inactive"} : CheckTap(s, x, m)
       \/ \E i \in 1..Len(uses), m \in Mechanisms :
            CheckLeave(uses[i], m) \/ CheckReturn(uses[i], m)
       \/ \E op \in inflight : \/ submit_hall_pass_request(op)
                               \/ approve_hall_pass_request(op)
                               \/ record_attendance_session(op)
       \/ \E s \in Seats : enforce_daily_limits_job(s)
  BY DEF Next, vars, Tick, grant_hall_passes, revoke_reversed_purchase_grants, End,
         remove_hall_passes, expire_rent_perks, reject_hall_pass_request,
         close_prior_day_hall_pass_requests
<1> QED
  BY <1>1, <1>7, <1>8, <1>9, <1>10, <1>11, <1>12, <1>13, <1>14

\* Every table of the hall passes holds rows of its own shape, and what a handler
\* read before its lock still has the shape its transaction expects.
THEOREM HallPassTypes == Spec => []TypeOK
<1>1. PassInv /\ RowsInv /\ [Next]_vars => RowsInv'
  BY AttendanceConstants, RowsInvStep
<1>2. Init => TypeInv
  BY DEF Init, TypeInv, Typed
<1>3. PassInv /\ RowsInv /\ TypeInv /\ [Next]_vars => TypeInv'
  BY AttendanceConstants, HallPassConstants, TypeInvStep
<1>4. PassInv /\ RowsInv /\ TypeInv => TypeOK
  BY DEF PassInv, TablesTyped, RowsInv, LogsNamed, TypeInv, Typed, TypeOK
<1> QED
  BY <1>1, <1>2, <1>3, <1>4, InitRowsInv, PassAlways, PTL DEF Spec
=============================================================================
