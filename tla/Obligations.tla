---------------------------- MODULE Obligations ----------------------------
(***************************************************************************)
(* The tables of the Obligations domain for the rent of one class, and the *)
(* state the code derives from them: assessment_events, bill_cycles, the   *)
(* rent policy versions they freeze, and the PERK rows of                  *)
(* entitlement_events.                                                     *)
(*                                                                         *)
(* The clock stops at class-local midnights, the instants the rent         *)
(* schedule resolves to, and an instant is the number of its day.  A       *)
(* liability (correlation_id) is a triple: the seat, the number of the     *)
(* bill cycle and 0 for the rent itself or k for the k-th late fee that    *)
(* arose from it.                                                          *)
(***************************************************************************)
EXTENDS Integers, Sequences

CONSTANTS
  Seats,      \* student seats of the class
  Terms,      \* rent policy versions, in the order the teacher saves them
  MaxCycles,  \* bound: bill cycles of the lineage
  MaxFees     \* late fees of one rent: _MAX_LATE_FEE_PERIODS

Policies == DOMAIN Terms
Corr == Seats \X (1..MaxCycles) \X (0..MaxFees)
RentOf(s, n) == <<s, n, 0>>
IsRent(c) == c[3] = 0
CycleOf(c) == c[2]

(* What one saved row of rent_settings fixes. *)
TermsType ==
  [rent: Nat \ {0}, fee: Nat, every: Nat, incremental: BOOLEAN,
   period: Nat \ {0}, grace: Nat, preview: Nat]

ASSUME ObligationConstants ==
  /\ MaxCycles \in Nat \ {0}
  /\ MaxFees \in Nat
  /\ Terms \in Seq(TermsType)

VARIABLES
  cycles,     \* bill_cycles rows of lineage rent:{class_id}, by cycle_number
  rows,       \* ASSESSMENT rows of each liability: the policies they carry
  paid,       \* sum of the Ledger magnitudes of its PAYMENT rows
  waived,     \* number of its WAIVED rows
  withdrawn,  \* liabilities with a WITHDRAWN row
  granted,    \* PERK grants made for it
  expired     \* PERK grants of it that have an EXPIRED row

tables == <<cycles, rows, paid, waived, withdrawn, granted, expired>>

CycleType == [num: Nat, boundary: Nat, next: Nat, grace: Nat, policy: Policies]

TablesOK ==
  /\ cycles \in Seq(CycleType)
  /\ rows \in [Corr -> Seq(Policies)]
  /\ paid \in [Corr -> Nat]
  /\ waived \in [Corr -> Nat]
  /\ withdrawn \in SUBSET Corr
  /\ granted \in [Corr -> Nat]
  /\ expired \in [Corr -> Nat]

TablesInit ==
  /\ cycles = <<>>
  /\ rows = [c \in Corr |-> <<>>]
  /\ paid = [c \in Corr |-> 0]
  /\ waived = [c \in Corr |-> 0]
  /\ withdrawn = {}
  /\ granted = [c \in Corr |-> 0]
  /\ expired = [c \in Corr |-> 0]

-----------------------------------------------------------------------------
(* Derived state of one liability. *)

Assessed(c) == rows[c] # <<>>

FrozenTerms(c) == Terms[rows[c][1]]

(* resolve_assessment_amount: the amount is read through the policy_uuid the *)
(* assessment carries, never stored.                                         *)
Amount(c) == IF IsRent(c) THEN FrozenTerms(c).rent ELSE FrozenTerms(c).fee

HasSatisfaction(c) == paid[c] > 0 \/ waived[c] > 0

Satisfied(c) ==
  /\ Assessed(c)
  /\ c \notin withdrawn
  /\ waived[c] > 0 \/ paid[c] >= Amount(c)

\* Mutant of Outstanding: a withdrawn assessment is still owed.
OutstandingUnlessSatisfied(c) == Assessed(c) /\ ~Satisfied(c)

Outstanding(c) == Assessed(c) /\ c \notin withdrawn /\ ~Satisfied(c)

Remaining(c) == IF Outstanding(c) THEN Amount(c) - paid[c] ELSE 0

-----------------------------------------------------------------------------
(* The bill-cycle lineage.  A transaction sees the committed rows and its    *)
(* own, so the rows are a parameter.                                         *)

AssessmentPoint(y) == y.next - Terms[y.policy].preview

(* get_succession_eligibility: EMPTY or DUE. *)
MaySucceed(ys, t) == ys = <<>> \/ AssessmentPoint(ys[Len(ys)]) <= t

(* first_due_local_date, and the due date of a successor. *)
NextDue(ys, t) == IF ys = <<>> THEN t ELSE ys[Len(ys)].next

(* resolve_cycle_schedule. *)
Schedule(p, due, n) ==
  [num |-> n, boundary |-> due, next |-> due + Terms[p].period,
   grace |-> due + Terms[p].grace, policy |-> p]

(* get_current_bill_cycle: the first cycle whose period contains t, as a set. *)
CurrentCycles(ys, t) ==
  LET containing == {n \in DOMAIN ys : ys[n].boundary <= t /\ t < ys[n].next}
  IN  {n \in containing : \A m \in containing : n <= m}

(* The latest cycle, when its period has not begun. *)
UpcomingCycles(ys, t) == {n \in DOMAIN ys : n = Len(ys) /\ ys[n].boundary > t}

EndedCycles(ys, t) == {n \in DOMAIN ys : ys[n].next <= t}

FeesElapsed(y, t) ==
  LET every == Terms[y.policy].every
  IN  IF every = 0 THEN 1 ELSE 1 + (t - y.grace) \div every

FeesAccrue(y, t) == Terms[y.policy].fee > 0 /\ t > y.grace

(* _late_fee_periods_elapsed, under the conditions of _assess_late_fees. *)
LateFees(y, t) ==
  IF FeesAccrue(y, t) THEN {k \in 1..MaxFees : k <= FeesElapsed(y, t)} ELSE {}

=============================================================================
