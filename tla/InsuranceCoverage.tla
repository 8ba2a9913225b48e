------------------------- MODULE InsuranceCoverage -------------------------
(***************************************************************************)
(* The insurance one student holds in a class: the versions of a policy    *)
(* the teacher publishes, the entitlements bought under them, and the      *)
(* premium lineage of each, one bill cycle per coverage period.            *)
(*                                                                         *)
(* Three processes write a lineage.  A purchase and a premium payment hold *)
(* the student's seat row FOR UPDATE from their first read to the commit:  *)
(* each is one action.  The hourly renewal locks the seat after it has     *)
(* read the clock and the entitlement, and then turns a loop: every turn   *)
(* reads the lineage and writes to its open transaction, run.draft, which  *)
(* nobody else sees.  A cancellation locks nothing; what holds it up is    *)
(* the key-share lock its WITHDRAWN row needs on the seat, the             *)
(* uncommitted bill cycle of a renewal, and the unique index on            *)
(* (internal_ref, cycle_number).                                           *)
(*                                                                         *)
(* Time is counted in class-local days.  A period is a premium owed at its *)
(* start; `stop` stands for the terminal bill cycle of the lineage and     *)
(* `ended` for the EXPIRED event, each Never until it is written.          *)
(***************************************************************************)
EXTENDS Integers, Sequences, FiniteSets, FiniteSetsExt

CONSTANTS
  Terms,          \* the terms of the versions, in order of publication
  InitialFunds,   \* what the student has in checking
  Grouped,        \* whether the policy belongs to a tier group
  Never,          \* later than every instant
  MaxTime,        \* bound: the last day
  MaxPurchases,   \* bound: covers bought
  MaxFailures     \* bound: renewals that crash

TermsType ==
  [premium: Nat, period: Nat, preview: Nat, cancelAfter: Nat, wait: Nat,
   cap: Nat, allowance: Nat]

\* cancelAfter 0 stands for ACCUMULATE (insurance_recurring_terms_violation).
ASSUME CoverageConstants ==
  /\ Terms \in Seq(TermsType) /\ Terms # <<>>
  /\ \A v \in DOMAIN Terms :
       /\ Terms[v].premium > 0
       /\ 0 < Terms[v].preview /\ Terms[v].preview < Terms[v].period
       /\ MaxTime + 2 * Terms[v].period + Terms[v].cancelAfter < Never
  /\ Grouped \in BOOLEAN
  /\ {InitialFunds, Never, MaxTime, MaxPurchases, MaxFailures} \subseteq Nat

VARIABLES
  now,         \* class-local day
  versions,    \* availability of each published version; the last is the newest
  funds,       \* checking balance
  covers,      \* entitlements with their lineages, in the order they were granted
  run,         \* the renewal in progress
  cancelling,  \* the cancellation in progress
  failures     \* renewals that have crashed

coverVars == <<now, versions, funds, covers, run, cancelling, failures>>

States == {"IN_USE", "HIDDEN", "RETIRED"}

Covers == DOMAIN covers

Newest == Len(versions)

Idle == [pc |-> "idle"]

NoRun == [pc |-> "idle", wrote |-> FALSE]

-----------------------------------------------------------------------------
(* A lineage, read at an instant. *)

Last(cv) == Len(cv.cycles)

Terminal(cv) == cv.stop # Never

\* Rows of the lineage: the next one takes the number after it.
Rows(cv) == Last(cv) + (IF Terminal(cv) THEN 1 ELSE 0)

Active(c) == covers[c].ended = Never

\* get_current_bill_cycle: the period containing t, unless the lineage has
\* stopped at or before t.
CurrentCycles(cv, t) ==
  { n \in DOMAIN cv.cycles :
      cv.cycles[n].start <= t /\ t < cv.cycles[n].end /\ t < cv.stop }

InForce(cv, t) == CurrentCycles(cv, t) # {} /\ t < cv.ended

Due(cv, t) == cv.cycles[Last(cv)].end - Terms[cv.policy].preview <= t

\* get_succession_eligibility.
Eligibility(cv, t) ==
  IF Terminal(cv) THEN "terminal" ELSE IF Due(cv, t) THEN "due" ELSE "not_due"

\* get_stop_renewal_instant: the end of the last committed period.
StopInstant(cv, t) ==
  LET last == cv.cycles[Last(cv)]
      current == CurrentCycles(cv, t)
  IN  IF current = {} \/ Last(cv) \in current \/ last.paid > 0
      THEN last.end
      ELSE cv.cycles[Min(current)].end

Outstanding(cv) ==
  { n \in DOMAIN cv.cycles : cv.cycles[n].paid = 0 /\ ~cv.cycles[n].withdrawn }

\* terminate_bill_cycle withdraws what nobody has paid of the periods that begin
\* at or after the instant.
Untouched(cv, instant) ==
  { n \in DOMAIN cv.cycles : cv.cycles[n].start >= instant /\ cv.cycles[n].paid = 0 }

Withdraw(cv, ns) ==
  [cv EXCEPT !.cycles = [n \in DOMAIN @ |->
     IF n \in ns THEN [@[n] EXCEPT !.withdrawn = TRUE] ELSE @[n]]]

\* terminate_bill_cycle: an already-terminal lineage is returned unchanged.
Terminate(cv, instant) ==
  IF Terminal(cv) THEN cv
  ELSE [Withdraw(cv, Untouched(cv, instant)) EXCEPT !.stop = instant]

Deadline(cv, n) == cv.cycles[n].start + Terms[cv.policy].cancelAfter

\* find_nonpayment_deadline: the deadline of the earliest premium due by t that
\* was not paid by its own deadline, once t has reached it.
MissedDeadline(cv, t) ==
  LET missed == { n \in DOMAIN cv.cycles :
                    /\ cv.cycles[n].start <= t /\ ~cv.cycles[n].withdrawn
                    /\ cv.cycles[n].paid > 0 => cv.cycles[n].at > Deadline(cv, n) }
  IN  IF Terms[cv.policy].cancelAfter = 0 \/ missed = {} THEN Never
      ELSE IF Deadline(cv, Min(missed)) <= t THEN Deadline(cv, Min(missed)) ELSE Never

-----------------------------------------------------------------------------
(* Writing a lineage. *)

Cycle(start, v) ==
  [start |-> start, end |-> start + Terms[v].period, paid |-> 0, at |-> Never,
   withdrawn |-> FALSE]

Cover(v, from, continues) ==
  [policy |-> v, from |-> from, continues |-> continues, cycles |-> << Cycle(from, v) >>,
   stop |-> Never, ended |-> Never]

\* coverage_boundary: boundaries are counted from the anchor.
NextCycle(cv) == Cycle(cv.from + Last(cv) * Terms[cv.policy].period, cv.policy)

\* settle_insurance_premium: the debit and the PAYMENT, in one transaction.
Settle(d, c, n) ==
  [covers |-> [d.covers EXCEPT ![c].cycles[n].paid = @ + 1, ![c].cycles[n].at = now],
   funds |-> d.funds - Terms[d.covers[c].policy].premium]

Affords(d, v) == d.funds >= Terms[v].premium

\* _attempt_autopay: a premium that cannot be covered stays owed.
Autopay(d, c) ==
  IF Affords(d, d.covers[c].policy) THEN Settle(d, c, Last(d.covers[c])) ELSE d

Committed == [covers |-> covers, funds |-> funds]

-----------------------------------------------------------------------------
(* The teacher and the clock. *)

CoverageInit ==
  /\ now = 0
  /\ versions = << "IN_USE" >>
  /\ funds = InitialFunds
  /\ covers = << >>
  /\ run = NoRun /\ cancelling = Idle
  /\ failures = 0

Tick ==
  /\ now < MaxTime
  /\ now' = now + 1
  /\ UNCHANGED <<versions, funds, covers, run, cancelling, failures>>

\* submit_insurance_definition: an edit keeps the availability of the version it
\* retires; a hidden one may also be put back on sale by a version of its own.
submit_insurance_definition ==
  /\ Newest < Len(Terms)
  /\ \E s \in {versions[Newest]} \cup
              (IF versions[Newest] = "HIDDEN" THEN {"IN_USE"} ELSE {}) :
       versions' = Append([versions EXCEPT ![Newest] = "RETIRED"], s)
  /\ UNCHANGED <<now, funds, covers, run, cancelling, failures>>

\* The newest version is hidden or retired; no guard reads its earlier state.
set_availability ==
  /\ \E s \in {"HIDDEN", "RETIRED"} : versions' = [versions EXCEPT ![Newest] = s]
  /\ UNCHANGED <<now, funds, covers, run, cancelling, failures>>

-----------------------------------------------------------------------------
(* The student buys, and pays what is outstanding. *)

SeatFree == run.pc \in {"idle", "lock"}

\* Mutant of Excluded: the tier group is not looked at.
SamePolicyHeld(v) == \E c \in Covers : Active(c) /\ covers[c].policy = v

\* has_active_insurance_coverage and has_active_coverage_in_group.
Excluded(v) == \E c \in Covers : Active(c) /\ (covers[c].policy = v \/ Grouped)

Bought == { c \in Covers : covers[c].continues = 0 }

execute_purchase_insurance(v) ==
  /\ SeatFree /\ Cardinality(Bought) < MaxPurchases
  /\ versions[v] = "IN_USE" /\ ~Excluded(v) /\ Affords(Committed, v)
  /\ LET d == Settle([covers |-> Append(covers, Cover(v, now, 0)), funds |-> funds],
                     Len(covers) + 1, 1)
     IN  covers' = d.covers /\ funds' = d.funds
  /\ UNCHANGED <<now, versions, run, cancelling, failures>>

\* The oldest outstanding premium of the cover, also after the cover has ended.
execute_insurance_premium_payment(c) ==
  /\ SeatFree /\ Outstanding(covers[c]) # {} /\ Affords(Committed, covers[c].policy)
  /\ LET d == Settle(Committed, c, Min(Outstanding(covers[c])))
     IN  covers' = d.covers /\ funds' = d.funds
  /\ UNCHANGED <<now, versions, run, cancelling, failures>>

-----------------------------------------------------------------------------
(* Renewal.  run.saw is the eligibility the turn of the loop has read. *)

onlyRun == <<now, versions, funds, covers, cancelling, failures>>

View == IF run.wrote THEN run.draft ELSE Committed

Mine == View.covers[run.cover]

\* The clock, the grant and the terminal event, before the seat is locked.
RenewBegin(c) ==
  /\ run = NoRun /\ Active(c)
  /\ run' = [pc |-> "lock", cover |-> c, ref |-> now, saw |-> "", wrote |-> FALSE,
             draft |-> <<>>]
  /\ UNCHANGED onlyRun

RenewLock ==
  /\ run.pc = "lock"
  /\ run' = [run EXCEPT !.pc = "read"]
  /\ UNCHANGED onlyRun

Release(pc) == run' = IF run.wrote THEN [run EXCEPT !.pc = pc] ELSE NoRun

\* A turn of the loop; a terminal lineage ends it.
RenewRead ==
  /\ run.pc = "read"
  /\ LET saw == Eligibility(Mine, run.ref)
     IN  IF saw = "terminal" THEN Release("commit")
         ELSE run' = [run EXCEPT !.pc = "act", !.saw = saw]
  /\ UNCHANGED onlyRun

Lapsing == MissedDeadline(Mine, run.ref) # Never

Successor == Newest > Mine.policy /\ versions[Newest] = "IN_USE"

Write(pc, c, d) ==
  run' = [run EXCEPT !.pc = pc, !.cover = c, !.saw = "", !.wrote = TRUE, !.draft = d]

\* _terminate_for_nonpayment: EXPIRED at the deadline, and the lineage stopped
\* there, unless each is already on record.
Lapse ==
  LET deadline == MissedDeadline(Mine, run.ref)
      over == [Mine EXCEPT !.ended = IF @ = Never THEN deadline ELSE @]
  IN  /\ run.pc = "act" /\ Lapsing
      /\ Write("commit", run.cover,
               [View EXCEPT !.covers[run.cover] = Terminate(over, deadline)])
      /\ UNCHANGED onlyRun

\* The next assessment point is still ahead.
NotDue ==
  /\ run.pc = "act" /\ ~Lapsing /\ run.saw = "not_due"
  /\ Release("commit")
  /\ UNCHANGED onlyRun

Stopped == Terminate(Mine, StopInstant(Mine, run.ref))

\* _continue_under_successor: a new cover from the instant the old one stops,
\* with its first premium; the loop then goes on with the new cover.
Continue ==
  LET next == Len(View.covers) + 1
      d == [View EXCEPT !.covers =
              Append([@ EXCEPT ![run.cover] = Stopped],
                     Cover(Newest, Stopped.stop, run.cover))]
  IN  /\ run.pc = "act" /\ ~Lapsing /\ run.saw = "due" /\ Successor
      /\ Write("read", next, Autopay(d, next))
      /\ UNCHANGED onlyRun

\* The version is no longer offered and nothing succeeds it.
StopRenewal ==
  /\ run.pc = "act" /\ ~Lapsing /\ run.saw = "due"
  /\ ~Successor /\ versions[Mine.policy] # "IN_USE"
  /\ Write("commit", run.cover, [View EXCEPT !.covers[run.cover] = Stopped])
  /\ UNCHANGED onlyRun

\* Mutant of StillDue: what the loop read is not read again.
DueWhenRead == TRUE

\* schedule_next_bill_cycle evaluates the lineage again.
StillDue == Eligibility(Mine, run.ref) = "due"

Renewing ==
  /\ run.pc = "act" /\ ~Lapsing /\ run.saw = "due"
  /\ ~Successor /\ versions[Mine.policy] = "IN_USE"

\* The next period, its premium, and the attempt to pay it.
RenewCycle ==
  LET d == [View EXCEPT !.covers[run.cover].cycles = Append(@, NextCycle(Mine))]
  IN  /\ Renewing /\ StillDue
      /\ Write("read", run.cover, Autopay(d, run.cover))
      /\ UNCHANGED onlyRun

\* SuccessionAfterTerminalError rolls the transaction back.
RenewRefused ==
  /\ Renewing /\ ~StillDue
  /\ run' = NoRun
  /\ UNCHANGED onlyRun

RenewCommit ==
  /\ run.pc = "commit"
  /\ covers' = run.draft.covers /\ funds' = run.draft.funds
  /\ run' = NoRun
  /\ UNCHANGED <<now, versions, cancelling, failures>>

\* An exception or a crash: the transaction leaves nothing.
RenewAbort ==
  /\ run # NoRun /\ failures < MaxFailures
  /\ run' = NoRun /\ failures' = failures + 1
  /\ UNCHANGED <<now, versions, funds, covers, cancelling>>

RenewStep ==
  \/ RenewLock \/ RenewRead \/ Lapse \/ NotDue \/ Continue \/ StopRenewal
  \/ RenewCycle \/ RenewRefused \/ RenewCommit

-----------------------------------------------------------------------------
(* Cancellation, and the end of a cover whose lineage has stopped. *)

onlyCancel == <<now, versions, funds, covers, run, failures>>

\* The active cover, its latest cycle and the instant it would stop at.
CancelRead(c) ==
  /\ cancelling = Idle /\ Active(c) /\ ~Terminal(covers[c])
  /\ cancelling' = [pc |-> "withdraw", cover |-> c, rows |-> Rows(covers[c]),
                    instant |-> StopInstant(covers[c], now), todo |-> {}]
  /\ UNCHANGED onlyCancel

\* What is withdrawn is decided by a later read; a period that has begun since
\* refuses it.
CancelWithdraw ==
  LET todo == Untouched(covers[cancelling.cover], cancelling.instant)
  IN  /\ cancelling.pc = "withdraw"
      /\ cancelling' =
           IF \E n \in todo : covers[cancelling.cover].cycles[n].start < now THEN Idle
           ELSE [cancelling EXCEPT !.pc = "commit", !.todo = todo]
      /\ UNCHANGED onlyCancel

\* Mutant of LineageMoved: without uq_bill_cycles_ref_cycle.
NeverMoved == FALSE

\* Another row has taken the number of the terminal one.
LineageMoved == Rows(covers[cancelling.cover]) # cancelling.rows

\* A WITHDRAWN row waits for the seat, a terminal row for an uncommitted cycle (of
\* another cover it would not, and then the order of the two commits is immaterial).
MayInsert == SeatFree \/ (~run.wrote /\ cancelling.todo = {})

CancelCommit ==
  /\ cancelling.pc = "commit" /\ MayInsert
  /\ covers' = IF LineageMoved THEN covers
               ELSE [covers EXCEPT ![cancelling.cover] =
                       [Withdraw(@, cancelling.todo) EXCEPT !.stop = cancelling.instant]]
  /\ cancelling' = Idle
  /\ UNCHANGED <<now, versions, funds, run, failures>>

CancelStep == CancelWithdraw \/ CancelCommit

\* Mutant of Boundary: the coverage expires on the day the job runs.
DayOfTheJob(c) == now

Boundary(c) == covers[c].stop

\* Mutant of Reached: the job looks for boundaries of its own day only.
ReachedToday(c) == covers[c].stop = now

Reached(c) == covers[c].stop <= now

\* run_insurance_expiry_job, for one terminal cycle whose instant has come.
run_insurance_expiry_job(c) ==
  /\ SeatFree /\ Reached(c) /\ Active(c)
  /\ covers' = [covers EXCEPT ![c].ended = Boundary(c)]
  /\ UNCHANGED <<now, versions, funds, run, cancelling, failures>>

CoverageStep ==
  \/ Tick \/ submit_insurance_definition \/ set_availability
  \/ \E v \in DOMAIN versions : execute_purchase_insurance(v)
  \/ \E c \in Covers :
       \/ execute_insurance_premium_payment(c) \/ RenewBegin(c) \/ CancelRead(c)
       \/ run_insurance_expiry_job(c)
  \/ RenewStep \/ RenewAbort \/ CancelStep
=============================================================================
