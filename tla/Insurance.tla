----------------------------- MODULE Insurance -----------------------------
(***************************************************************************)
(* Claims on the covers of InsuranceCoverage.  A student files a claim for *)
(* a loss, a transaction of their own; the teacher approves it, which      *)
(* credits the student, or rejects it.                                     *)
(*                                                                         *)
(* Filing locks the GRANTED row, so one claim at a time is filed under a   *)
(* cover, and reads everything it checks before the insert, whose foreign  *)
(* key waits for the seat.  A decision locks nothing: it reads the claim,  *)
(* the loss and what the period has left, and commits later; the ledger    *)
(* reservation of the claim is what two approvals meet at.                 *)
(***************************************************************************)
EXTENDS InsuranceCoverage

CONSTANTS
  Losses,      \* transactions a claim may be about
  Price,       \* what a loss costs
  Refund,      \* what the policy reimburses of it, before the cap
  Decisions,   \* requests of the teacher that decide a claim
  WeekLength,  \* days of the filing week
  LossDays,    \* bound: the days on which a loss may happen
  MaxClaims    \* bound: claims filed

ASSUME ClaimConstants ==
  /\ Price \in [Losses -> Nat] /\ Refund \in [Losses -> Nat \ {0}]
  /\ WeekLength \in Nat \ {0} /\ MaxClaims \in Nat

VARIABLES
  lossAt,     \* when each loss happened
  reversed,   \* losses whose transaction has been compensated
  filing,     \* the claim being filed
  claims,     \* claims, in the order they were filed
  credits,    \* what has been credited for each claim
  deciding    \* what each request of the teacher has read

claimVars == <<lossAt, reversed, filing, claims, credits, deciding>>

vars == <<coverVars, claimVars>>

Claims == DOMAIN claims

CoverOf(k) == covers[claims[k].cover]

-----------------------------------------------------------------------------
(* What a filing and a decision read. *)

\* are_required_obligations_satisfied: premiums due by t, paid by t.
PremiumsMet(cv, t) ==
  \A n \in DOMAIN cv.cycles :
    cv.cycles[n].start <= t /\ ~cv.cycles[n].withdrawn =>
      cv.cycles[n].paid > 0 /\ cv.cycles[n].at <= t

\* evaluate_insurance_usability.
Usable(cv, t) == InForce(cv, t) /\ PremiumsMet(cv, t)

\* covered_from_utc: a continuation waits for nothing.
CoveredFrom(cv) ==
  cv.from + (IF cv.continues = 0 THEN Terms[cv.policy].wait ELSE 0)

\* The loss backs no claim of this cover that is pending or approved.
Unclaimed(c, l) ==
  \A k \in Claims : ~(claims[k].cover = c /\ claims[k].loss = l /\ claims[k].status # "REJECTED")

FiledIn(c, from, before) ==
  { k \in Claims : claims[k].cover = c /\ from <= claims[k].at /\ claims[k].at < before }

ThisWeek(c) ==
  LET start == now - (now % WeekLength) IN FiledIn(c, start, start + WeekLength)

Approved(ks) == { k \in ks : claims[k].status = "APPROVED" }

\* The cap of the period less what its approved claims were paid.
Remaining(c, n) ==
  LET p == covers[c].cycles[n]
      paid(k) == claims[k].result
  IN  Terms[covers[c].policy].cap
        - MapThenSumSet(paid, Approved(FiledIn(c, p.start, p.end)))

\* _period_for_claim: the period in force at the filing, read when it is decided.
PeriodOf(k) == CurrentCycles(CoverOf(k), claims[k].at)

-----------------------------------------------------------------------------
Init ==
  /\ CoverageInit
  /\ lossAt = [l \in Losses |-> Never]
  /\ reversed = {}
  /\ filing = Idle
  /\ claims = << >> /\ credits = << >>
  /\ deciding = [d \in Decisions |-> Idle]

onlyMoney == <<now, versions, covers, run, cancelling, failures>>

\* A debit of the student's, posted elsewhere.
Lose(l) ==
  /\ lossAt[l] = Never /\ now \in LossDays /\ SeatFree /\ funds >= Price[l]
  /\ lossAt' = [lossAt EXCEPT ![l] = now]
  /\ funds' = funds - Price[l]
  /\ UNCHANGED <<onlyMoney, reversed, filing, claims, credits, deciding>>

\* The teacher reverses it.
Reverse(l) ==
  /\ lossAt[l] # Never /\ l \notin reversed /\ SeatFree
  /\ reversed' = reversed \cup {l}
  /\ funds' = funds + Price[l]
  /\ UNCHANGED <<onlyMoney, lossAt, filing, claims, credits, deciding>>

-----------------------------------------------------------------------------
(* Filing. *)

\* Every check of _submit_insurance_claim_impl.
Claimable(c, l) ==
  /\ Active(c) /\ Usable(covers[c], now)
  /\ Unclaimed(c, l)
  /\ CoveredFrom(covers[c]) <= now
  /\ CoveredFrom(covers[c]) <= lossAt[l] /\ lossAt[l] # Never /\ l \notin reversed
  /\ Cardinality(ThisWeek(c)) < Terms[covers[c].policy].allowance
  /\ \A n \in CurrentCycles(covers[c], now) : Remaining(c, n) > 0

FileRead(c, l) ==
  /\ filing = Idle /\ Len(claims) < MaxClaims
  /\ Claimable(c, l)
  /\ filing' = [pc |-> "insert", cover |-> c, loss |-> l, at |-> now]
  /\ UNCHANGED <<coverVars, lossAt, reversed, claims, credits, deciding>>

create_claim ==
  /\ filing.pc = "insert" /\ SeatFree
  /\ claims' = Append(claims, [cover |-> filing.cover, loss |-> filing.loss,
                               at |-> filing.at, status |-> "SUBMITTED", result |-> 0])
  /\ credits' = Append(credits, << >>)
  /\ filing' = Idle
  /\ UNCHANGED <<coverVars, lossAt, reversed, deciding>>

-----------------------------------------------------------------------------
(* Decisions. *)

\* What an approval would pay: the loss must still be one, and the period the
\* claim was filed in must exist and have something left.
Payable(k) ==
  { Min({Refund[claims[k].loss], Remaining(claims[k].cover, n)}) :
      n \in { m \in PeriodOf(k) : /\ claims[k].loss \notin reversed
                                  /\ Remaining(claims[k].cover, m) > 0 } }

Decide(d, k, verdict, amount) ==
  /\ deciding[d] = Idle /\ claims[k].status = "SUBMITTED"
  /\ deciding' = [deciding EXCEPT ![d] =
                    [pc |-> verdict, claim |-> k, amount |-> amount]]
  /\ UNCHANGED <<coverVars, lossAt, reversed, filing, claims, credits>>

ApproveRead(d, k) == \E amount \in Payable(k) : Decide(d, k, "APPROVED", amount)

RejectRead(d, k) == Decide(d, k, "REJECTED", 0)

\* Mutant of Credited: the reservation of the claim is not looked up.
NotCredited(k) == FALSE

Credited(k) == credits[k] # << >>

\* A reservation made since is a replay if the amount is the same.
MayApprove(d) ==
  LET k == deciding[d].claim
  IN  Credited(k) => credits[k] = << deciding[d].amount >>

\* create_pending_transaction_idempotent and decide_claim, which writes over the
\* status that was read.
ApproveCommit(d) ==
  LET k == deciding[d].claim
      amount == deciding[d].amount
  IN  /\ deciding[d].pc = "APPROVED" /\ SeatFree /\ MayApprove(d)
      /\ IF Credited(k) THEN UNCHANGED <<credits, funds>>
         ELSE /\ credits' = [credits EXCEPT ![k] = Append(@, amount)]
              /\ funds' = funds + amount
      /\ claims' = [claims EXCEPT ![k].status = "APPROVED", ![k].result = amount]
      /\ deciding' = [deciding EXCEPT ![d] = Idle]
      /\ UNCHANGED <<onlyMoney, lossAt, reversed, filing>>

\* The reservation holds another amount: the command fails.
ApproveRefused(d) ==
  /\ deciding[d].pc = "APPROVED" /\ SeatFree /\ ~MayApprove(d)
  /\ deciding' = [deciding EXCEPT ![d] = Idle]
  /\ UNCHANGED <<coverVars, lossAt, reversed, filing, claims, credits>>

\* A rejection inserts nothing and waits for nobody.
RejectCommit(d) ==
  /\ deciding[d].pc = "REJECTED"
  /\ claims' = [claims EXCEPT ![deciding[d].claim].status = "REJECTED"]
  /\ deciding' = [deciding EXCEPT ![d] = Idle]
  /\ UNCHANGED <<coverVars, lossAt, reversed, filing, credits>>

ClaimStep ==
  \/ \E l \in Losses : Lose(l) \/ Reverse(l) \/ \E c \in Covers : FileRead(c, l)
  \/ create_claim
  \/ \E d \in Decisions :
       \/ \E k \in Claims : ApproveRead(d, k) \/ RejectRead(d, k)
       \/ ApproveCommit(d) \/ ApproveRefused(d) \/ RejectCommit(d)

-----------------------------------------------------------------------------
Next ==
  \/ CoverageStep /\ UNCHANGED claimVars
  \/ ClaimStep

Spec == Init /\ [][Next]_vars

\* Both jobs run on their clocks; a renewal that has begun ends, and visits every
\* cover in turn; a row lock queues those that wait for it.
Fairness ==
  /\ WF_vars(Tick /\ UNCHANGED claimVars)
  /\ WF_vars(RenewStep /\ UNCHANGED claimVars)
  /\ SF_vars((\E c \in Covers : run_insurance_expiry_job(c)) /\ UNCHANGED claimVars)
  /\ \A c \in 1..(MaxPurchases * Len(Terms)) :
       SF_vars(c \in Covers /\ RenewBegin(c) /\ UNCHANGED claimVars)

FairSpec == Spec /\ Fairness

-----------------------------------------------------------------------------
(* Properties. *)

Instants == 0..MaxTime

\* "At most one active coverage per tier_group_id" (purchase_insurance_feat.py),
\* for the periods themselves: at no instant, past or present, are two covers of
\* the group in force, however purchases, renewals, edits, late jobs and
\* cancellations were interleaved.
OneCoverInForce ==
  Grouped => \A t \in Instants : Cardinality({ c \in Covers : InForce(covers[c], t) }) <= 1

\* A continuation begins at the instant its predecessor stops, is the only one of
\* it, and the predecessor ends nowhere else.
ContinuesWhereItEnds ==
  \A c \in Covers :
    LET p == covers[c].continues
    IN  p # 0 =>
          /\ covers[p].stop = covers[c].from
          /\ covers[p].ended \in {Never, covers[c].from}
          /\ \A b \in Covers : covers[b].continues = p => b = c

\* A terminal lineage is the end of it: nothing is scheduled after the terminal
\* cycle and its instant never moves.
StoppedStaysStopped ==
  [][\A c \in Covers :
       Terminal(covers[c]) =>
         covers'[c].stop = covers[c].stop /\ Last(covers'[c]) = Last(covers[c])]_vars

\* Stopping withdraws what was billed ahead: no premium is owed for a period that
\* begins at or after the instant the lineage stops.
NoDebtPastTheEnd ==
  \A c \in Covers : \A n \in Outstanding(covers[c]) :
    covers[c].cycles[n].start < covers[c].stop

\* A claim is paid once, and an approved claim was paid what its row says.
ClaimPaidOnce ==
  \A k \in Claims :
    /\ Len(credits[k]) <= 1
    /\ claims[k].status = "APPROVED" => credits[k] = << claims[k].result >>

\* "A claim filed while the entitlement was usable remains adjudicable after a
\* later lapse, expiry, nonpayment, or termination" (FEAT-STOR-003).
FiledStaysAdjudicable == \A k \in Claims : PeriodOf(k) # {}

\* A premium has passed its deadline unpaid and the lineage goes on, or the
\* lineage has stopped, its instant has come and the cover has not expired.
Overdue(c) ==
  c \in Covers /\ \/ ~Terminal(covers[c]) /\ MissedDeadline(covers[c], now) < now
                  \/ Active(c) /\ covers[c].stop <= now

\* Cover that nobody pays for lapses and cover that has run out expires, whatever
\* fails and whoever cancels in between (the two jobs of scheduled_tasks.py): there
\* is always a later moment at which no cover is overdue.
CoverageEnds ==
  []<>(\A c \in 1..(MaxPurchases * Len(Terms)) : ~Overdue(c))
=============================================================================
