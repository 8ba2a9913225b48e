-------------------------- MODULE InsuranceProofs --------------------------
(***************************************************************************)
(* Theorems about Insurance for any terms, losses, decisions and bounds,   *)
(* whatever purchases, renewals, edits, cancellations and decisions        *)
(* interleave: a claim is paid once (ClaimInv); a lineage that has stopped *)
(* stays as it stopped (CoverInv); the periods of a cover and of its       *)
(* continuation meet, covers of a group never overlap, and nothing is owed *)
(* past the end (PeriodInv).                                               *)
(***************************************************************************)
EXTENDS Insurance, FiniteSetTheorems, SequenceTheorems, WellFoundedInduction, TLAPS

-----------------------------------------------------------------------------
(***************************************************************************)
(* Claims.  The amounts stay untyped: what a period has left is a sum over *)
(* a set.                                                                  *)
(***************************************************************************)

IsSequence(s) == s \in Seq({ s[i] : i \in DOMAIN s })

IsClaim(r) ==
  r = [cover |-> r.cover, loss |-> r.loss, at |-> r.at, status |-> r.status,
       result |-> r.result]

ClaimsShaped ==
  /\ IsSequence(claims) /\ IsSequence(credits)
  /\ Len(credits) = Len(claims)
  /\ \A k \in Claims : IsClaim(claims[k])

\* A decision in flight is of a claim that was filed.
DecisionsKnown ==
  \A d \in Decisions : deciding[d] = Idle \/ deciding[d].claim \in Claims

\* What has been credited is what the row says, and an approved row was credited.
PaidAsWritten ==
  \A k \in Claims :
    /\ credits[k] \in {<< >>, << claims[k].result >>}
    /\ claims[k].status = "APPROVED" => credits[k] # << >>

ClaimInv ==
  /\ ClaimsShaped /\ PaidAsWritten
  /\ DOMAIN deciding = Decisions /\ DecisionsKnown

LEMMA Appended ==
  ASSUME NEW s, NEW e, IsSequence(s)
  PROVE  /\ IsSequence(Append(s, e))
         /\ Len(s) \in Nat /\ DOMAIN s = 1..Len(s)
         /\ Len(Append(s, e)) = Len(s) + 1
         /\ DOMAIN Append(s, e) = 1..(Len(s) + 1)
         /\ \A i \in 1..Len(s) : Append(s, e)[i] = s[i]
         /\ Append(s, e)[Len(s) + 1] = e
<1> DEFINE S == { s[i] : i \in DOMAIN s }
           T == S \cup {e}
           a == Append(s, e)
<1>1. s \in Seq(S)
  BY DEF IsSequence
<1>2. s \in Seq(T)
  BY <1>1, SeqMonotonic
<1>3. /\ a \in Seq(T) /\ Len(a) = Len(s) + 1
      /\ \A i \in 1..Len(s) : a[i] = s[i]
      /\ a[Len(s) + 1] = e
  BY <1>2, AppendProperties
<1>4. /\ Len(s) \in Nat /\ DOMAIN s = 1..Len(s)
      /\ DOMAIN a = 1..Len(a) /\ Len(a) \in Nat /\ a \in [1..Len(a) -> T]
  BY <1>2, <1>3, LenProperties
<1>5. a \in Seq({ a[i] : i \in DOMAIN a })
  <2>1. a \in [1..Len(a) -> { a[i] : i \in DOMAIN a }]
    BY <1>4
  <2> QED
    BY <2>1, <1>4, SeqDef
<1> QED
  BY <1>3, <1>4, <1>5 DEF IsSequence

LEMMA FunctionIsSequence ==
  ASSUME NEW T, NEW n \in Nat, NEW r \in [1..n -> T]
  PROVE  r \in Seq(T)
BY SeqDef

LEMMA Reshaped ==
  ASSUME NEW s, IsSequence(s), NEW r, DOMAIN r = DOMAIN s,
         r = [i \in DOMAIN r |-> r[i]]
  PROVE  IsSequence(r) /\ Len(r) = Len(s)
<1>1. Len(s) \in Nat /\ DOMAIN s = 1..Len(s)
  BY LenProperties DEF IsSequence
<1>2. r \in [1..Len(s) -> { r[i] : i \in DOMAIN r }]
  BY <1>1
<1>3. r \in Seq({ r[i] : i \in DOMAIN r })
  BY <1>1, <1>2, FunctionIsSequence
<1>4. IsSequence(r)
  BY <1>3 DEF IsSequence
<1>5. Len(r) = Len(s)
  BY <1>1, <1>3, LenProperties
<1> QED
  BY <1>4, <1>5

\* A decision that keeps the amount written and the amounts credited in step.
LEMMA DecisionKeeps ==
  ASSUME ClaimInv, NEW d \in Decisions, deciding[d] # Idle,
         NEW row, NEW paid,
         row = [claims[deciding[d].claim] EXCEPT !.status = row.status, !.result = row.result],
         paid \in {<< >>, << row.result >>},
         row.status = "APPROVED" => paid # << >>,
         claims' = [claims EXCEPT ![deciding[d].claim] = row],
         credits' = [credits EXCEPT ![deciding[d].claim] = paid],
         deciding' = [deciding EXCEPT ![d] = Idle]
  PROVE  ClaimInv'
<1> DEFINE k == deciding[d].claim
<1>1. /\ k \in DOMAIN claims /\ IsSequence(claims) /\ IsSequence(credits)
      /\ Len(credits) = Len(claims) /\ IsClaim(claims[k])
  BY DEF ClaimInv, ClaimsShaped, DecisionsKnown, Claims
<1>2. k \in DOMAIN credits /\ DOMAIN credits = DOMAIN claims
  BY <1>1, LenProperties DEF IsSequence
<1> HIDE DEF k
<1>3. /\ IsSequence(claims') /\ Len(claims') = Len(claims) /\ DOMAIN claims' = DOMAIN claims
      /\ claims'[k] = row /\ \A i \in DOMAIN claims : i # k => claims'[i] = claims[i]
  <2>1. claims' = [claims EXCEPT ![k] = row]
    BY DEF k
  <2>2. /\ DOMAIN claims' = DOMAIN claims /\ claims'[k] = row
        /\ \A i \in DOMAIN claims : i # k => claims'[i] = claims[i]
    BY <2>1, <1>1
  <2>3. claims' = [i \in DOMAIN claims' |-> claims'[i]]
    BY <2>1
  <2>4. IsSequence(claims)
    BY <1>1
  <2>5. IsSequence(claims') /\ Len(claims') = Len(claims)
    BY <2>2, <2>3, <2>4, Reshaped
  <2> QED
    BY <2>2, <2>5
<1>4. /\ IsSequence(credits') /\ Len(credits') = Len(credits) /\ DOMAIN credits' = DOMAIN credits
      /\ credits'[k] = paid /\ \A i \in DOMAIN credits : i # k => credits'[i] = credits[i]
  <2>1. credits' = [credits EXCEPT ![k] = paid]
    BY DEF k
  <2>2. /\ DOMAIN credits' = DOMAIN credits /\ credits'[k] = paid
        /\ \A i \in DOMAIN credits : i # k => credits'[i] = credits[i]
    BY <2>1, <1>1, <1>2
  <2>3. credits' = [i \in DOMAIN credits' |-> credits'[i]]
    BY <2>1
  <2>4. IsSequence(credits)
    BY <1>1
  <2>5. IsSequence(credits') /\ Len(credits') = Len(credits)
    BY <2>2, <2>3, <2>4, Reshaped
  <2> QED
    BY <2>2, <2>5
<1>5. IsClaim(row)
  BY <1>1 DEF IsClaim, k
<1>6. ClaimsShaped'
  BY <1>1, <1>3, <1>4, <1>5 DEF ClaimInv, ClaimsShaped, Claims, IsClaim
<1>7. PaidAsWritten'
  BY <1>1, <1>2, <1>3, <1>4 DEF ClaimInv, PaidAsWritten, Claims
<1>8. DOMAIN deciding' = Decisions /\ DecisionsKnown'
  BY <1>3 DEF ClaimInv, DecisionsKnown, Claims
<1> QED
  BY <1>6, <1>7, <1>8 DEF ClaimInv

\* Steps that touch neither the claims nor the credits nor a decision.
LEMMA ClaimsUntouched ==
  ASSUME ClaimInv, UNCHANGED <<claims, credits, deciding>>
  PROVE  ClaimInv'
BY DEF ClaimInv, ClaimsShaped, PaidAsWritten, DecisionsKnown, Claims, IsClaim, IsSequence

LEMMA ClaimInit == Init => ClaimInv
<1> SUFFICES ASSUME Init PROVE ClaimInv
  OBVIOUS
<1>1. claims = << >> /\ credits = << >> /\ deciding = [d \in Decisions |-> Idle]
  BY DEF Init
<1>2. IsSequence(<< >>) /\ Len(<< >>) = 0 /\ DOMAIN << >> = {}
  BY EmptySeq DEF IsSequence
<1> QED
  BY <1>1, <1>2 DEF ClaimInv, ClaimsShaped, PaidAsWritten, DecisionsKnown, Claims

LEMMA ClaimNext == ClaimInv /\ [Next]_vars => ClaimInv'
<1> SUFFICES ASSUME ClaimInv, [Next]_vars PROVE ClaimInv'
  OBVIOUS
<1>1. CASE CoverageStep /\ UNCHANGED claimVars
  BY <1>1, ClaimsUntouched DEF claimVars
<1>2. ASSUME NEW l \in Losses, Lose(l) PROVE ClaimInv'
  BY <1>2, ClaimsUntouched DEF Lose
<1>3. ASSUME NEW l \in Losses, Reverse(l) PROVE ClaimInv'
  BY <1>3, ClaimsUntouched DEF Reverse
<1>4. ASSUME NEW l \in Losses, NEW c \in Covers, FileRead(c, l) PROVE ClaimInv'
  BY <1>4, ClaimsUntouched DEF FileRead
<1>5. ASSUME create_claim PROVE ClaimInv'
  <2> DEFINE row == [cover |-> filing.cover, loss |-> filing.loss, at |-> filing.at,
                     status |-> "SUBMITTED", result |-> 0]
  <2>1. claims' = Append(claims, row) /\ credits' = Append(credits, << >>)
        /\ deciding' = deciding
    BY <1>5 DEF create_claim
  <2>2. IsClaim(row) /\ row.status # "APPROVED"
    BY DEF IsClaim
  <2> HIDE DEF row
  <2>3. IsSequence(claims) /\ IsSequence(credits) /\ Len(credits) = Len(claims)
    BY DEF ClaimInv, ClaimsShaped
  <2>4. /\ IsSequence(claims') /\ Len(claims) \in Nat /\ DOMAIN claims = 1..Len(claims)
        /\ Len(claims') = Len(claims) + 1 /\ DOMAIN claims' = 1..(Len(claims) + 1)
        /\ \A i \in 1..Len(claims) : claims'[i] = claims[i]
        /\ claims'[Len(claims) + 1] = row
    BY <2>1, <2>3, Appended
  <2>5. /\ IsSequence(credits') /\ Len(credits') = Len(claims) + 1
        /\ \A i \in 1..Len(claims) : credits'[i] = credits[i]
        /\ credits'[Len(claims) + 1] = << >>
    BY <2>1, <2>3, Appended
  <2>6. \A k \in Claims' : \/ k \in Claims /\ claims'[k] = claims[k] /\ credits'[k] = credits[k]
                           \/ claims'[k] = row /\ credits'[k] = << >>
    BY <2>4, <2>5 DEF Claims
  <2>7. ClaimsShaped'
    BY <2>2, <2>4, <2>5, <2>6 DEF ClaimInv, ClaimsShaped, IsClaim
  <2>8. PaidAsWritten'
    BY <2>2, <2>6 DEF ClaimInv, PaidAsWritten
  <2>9. DOMAIN deciding' = Decisions /\ DecisionsKnown'
    BY <2>1, <2>4 DEF ClaimInv, DecisionsKnown, Claims
  <2> QED
    BY <2>7, <2>8, <2>9 DEF ClaimInv
<1>6. ASSUME NEW d \in Decisions, NEW k \in Claims, NEW verdict, NEW amount,
             Decide(d, k, verdict, amount)
      PROVE  ClaimInv'
  <2>1. /\ deciding' = [deciding EXCEPT ![d] =
                          [pc |-> verdict, claim |-> k, amount |-> amount]]
        /\ claims' = claims /\ credits' = credits
    BY <1>6 DEF Decide
  <2>2. DOMAIN deciding' = Decisions /\ DecisionsKnown'
    BY <2>1 DEF ClaimInv, DecisionsKnown, Claims
  <2> QED
    BY <2>1, <2>2 DEF ClaimInv, ClaimsShaped, PaidAsWritten, Claims, IsClaim, IsSequence
<1>7. ASSUME NEW d \in Decisions, ApproveCommit(d) PROVE ClaimInv'
  <2> DEFINE k == deciding[d].claim
             amount == deciding[d].amount
             row == [claims[k] EXCEPT !.status = "APPROVED", !.result = amount]
  <2>1. deciding[d] # Idle
    BY <1>7 DEF ApproveCommit, Idle
  <2>2. k \in Claims /\ IsClaim(claims[k]) /\ IsSequence(credits) /\ DOMAIN credits = Claims
    BY <2>1, LenProperties
       DEF ClaimInv, ClaimsShaped, DecisionsKnown, Claims, IsSequence
  <2>3. row.status = "APPROVED" /\ row.result = amount
    BY <2>2 DEF IsClaim
  <2>4. claims' = [claims EXCEPT ![k] = row] /\ deciding' = [deciding EXCEPT ![d] = Idle]
    BY <1>7, <2>2 DEF ApproveCommit, Claims
  <2>5. credits' = [credits EXCEPT ![k] = << amount >>]
    <3>1. CASE Credited(k)
      <4>1. credits' = credits /\ credits[k] = << amount >>
        BY <1>7, <3>1 DEF ApproveCommit, MayApprove
      <4> QED
        BY <4>1, <2>2 DEF IsSequence
    <3>2. CASE ~Credited(k)
      <4>1. credits' = [credits EXCEPT ![k] = Append(@, amount)] /\ credits[k] = << >>
        BY <1>7, <3>2 DEF ApproveCommit, Credited
      <4>2. Append(<< >>, amount) = << amount >>
        OBVIOUS
      <4> QED
        BY <4>1, <4>2
    <3> QED
      BY <3>1, <3>2
  <2>6. << amount >> # << >>
    OBVIOUS
  <2>7. row = [claims[k] EXCEPT !.status = row.status, !.result = row.result]
    BY <2>3
  <2> HIDE DEF row
  <2> QED
    BY <2>1, <2>3, <2>4, <2>5, <2>6, <2>7, DecisionKeeps
<1>8. ASSUME NEW d \in Decisions, ApproveRefused(d) PROVE ClaimInv'
  <2>1. /\ deciding' = [deciding EXCEPT ![d] = Idle]
        /\ claims' = claims /\ credits' = credits
    BY <1>8 DEF ApproveRefused
  <2>2. DOMAIN deciding' = Decisions /\ DecisionsKnown'
    BY <2>1 DEF ClaimInv, DecisionsKnown, Claims
  <2> QED
    BY <2>1, <2>2 DEF ClaimInv, ClaimsShaped, PaidAsWritten, Claims, IsClaim, IsSequence
<1>9. ASSUME NEW d \in Decisions, RejectCommit(d) PROVE ClaimInv'
  <2> DEFINE k == deciding[d].claim
             row == [claims[k] EXCEPT !.status = "REJECTED"]
  <2>1. deciding[d] # Idle
    BY <1>9 DEF RejectCommit, Idle
  <2>2. k \in Claims /\ IsClaim(claims[k]) /\ IsSequence(credits) /\ DOMAIN credits = Claims
    BY <2>1, LenProperties
       DEF ClaimInv, ClaimsShaped, DecisionsKnown, Claims, IsSequence
  <2>3. row.status = "REJECTED" /\ row.result = claims[k].result
    BY <2>2 DEF IsClaim
  <2>4. claims' = [claims EXCEPT ![k] = row] /\ deciding' = [deciding EXCEPT ![d] = Idle]
        /\ credits' = credits
    BY <1>9 DEF RejectCommit
  <2>5. credits' = [credits EXCEPT ![k] = credits[k]]
    BY <2>2, <2>4 DEF IsSequence
  <2>6. credits[k] \in {<< >>, << row.result >>}
    BY <2>2, <2>3 DEF ClaimInv, PaidAsWritten
  <2>7. row = [claims[k] EXCEPT !.status = row.status, !.result = row.result]
    BY <2>2, <2>3 DEF IsClaim
  <2> HIDE DEF row
  <2> QED
    BY <2>1, <2>3, <2>4, <2>5, <2>6, <2>7, DecisionKeeps
<1>10. CASE UNCHANGED vars
  BY <1>10, ClaimsUntouched DEF vars, claimVars
<1> QED
  BY <1>1, <1>2, <1>3, <1>4, <1>5, <1>6, <1>7, <1>8, <1>9, <1>10
     DEF Next, ClaimStep, ApproveRead, RejectRead

\* However two approvals, a rejection and a new filing interleave between what
\* they read and what they commit, a claim is credited at most once, and the row
\* of an approved claim says what was credited (_approve_insurance_claim_impl).
THEOREM ClaimsArePaidOnce == Spec => []ClaimPaidOnce
<1>1. ClaimInv => ClaimPaidOnce
  <2> SUFFICES ASSUME ClaimInv, NEW k \in Claims
               PROVE  /\ Len(credits[k]) <= 1
                      /\ claims[k].status = "APPROVED" => credits[k] = << claims[k].result >>
    BY DEF ClaimPaidOnce
  <2>1. Len(<< >>) = 0 /\ Len(<< claims[k].result >>) = 1
    OBVIOUS
  <2>2. CASE credits[k] = << >>
    BY <2>1, <2>2 DEF ClaimInv, PaidAsWritten
  <2>3. CASE credits[k] = << claims[k].result >>
    BY <2>1, <2>3
  <2> QED
    BY <2>2, <2>3 DEF ClaimInv, PaidAsWritten
<1> QED
  BY <1>1, ClaimInit, ClaimNext, PTL DEF Spec
-----------------------------------------------------------------------------
(***************************************************************************)
(* Lineages.  A renewal writes to a draft and commits it later: the draft  *)
(* keeps what was committed when it began, and nobody stops a lineage      *)
(* between its first write and its commit.                                 *)
(***************************************************************************)

IsCover(cv) ==
  /\ cv = [policy |-> cv.policy, from |-> cv.from, continues |-> cv.continues,
           cycles |-> cv.cycles, stop |-> cv.stop, ended |-> cv.ended]
  /\ IsSequence(cv.cycles)

ShapedCovers(cs) == IsSequence(cs) /\ \A c \in DOMAIN cs : IsCover(cs[c])

\* A lineage only grows, and not after it has stopped.
Grown(old, new) ==
  /\ IsCover(new)
  /\ Last(old) <= Last(new)
  /\ Terminal(old) => new.stop = old.stop /\ Last(new) = Last(old)

Kept(cs, ds) ==
  /\ ShapedCovers(cs) /\ ShapedCovers(ds)
  /\ \A c \in DOMAIN cs : c \in DOMAIN ds /\ Grown(cs[c], ds[c])

RunInv ==
  /\ run.wrote \in BOOLEAN
  /\ run.pc \in {"idle", "lock"} => run.wrote = FALSE
  /\ run.pc = "commit" => run.wrote
  /\ run.pc # "idle" =>
       /\ run = [pc |-> run.pc, cover |-> run.cover, ref |-> run.ref, saw |-> run.saw,
                 wrote |-> run.wrote, draft |-> run.draft]
       /\ run.cover \in DOMAIN View.covers
  /\ run.wrote =>
       /\ run.draft = [covers |-> run.draft.covers, funds |-> run.draft.funds]
       /\ Kept(covers, run.draft.covers)

\* The number a cancellation wants for its terminal row is not above the next one.
CancelInv ==
  cancelling # Idle =>
    /\ cancelling.cover \in Covers
    /\ cancelling.rows \in Int /\ cancelling.rows <= Last(covers[cancelling.cover])

CoverInv == ShapedCovers(covers) /\ RunInv /\ CancelInv

LEMMA SequenceLength ==
  ASSUME NEW s, IsSequence(s)
  PROVE  Len(s) \in Nat /\ DOMAIN s = 1..Len(s) /\ s = [i \in DOMAIN s |-> s[i]]
BY LenProperties DEF IsSequence

LEMMA GrownItself ==
  ASSUME NEW cv, IsCover(cv)
  PROVE  Grown(cv, cv)
BY SequenceLength DEF Grown, IsCover, Last

LEMMA KeptItself ==
  ASSUME NEW cs, ShapedCovers(cs)
  PROVE  Kept(cs, cs)
BY GrownItself DEF Kept, ShapedCovers

LEMMA GrownOn ==
  ASSUME NEW cv, NEW dv, NEW ev, IsCover(cv), Grown(cv, dv), Grown(dv, ev)
  PROVE  Grown(cv, ev)
<1>1. Last(cv) \in Nat /\ Last(dv) \in Nat /\ Last(ev) \in Nat
  BY SequenceLength DEF Grown, IsCover, Last
<1> QED
  BY <1>1 DEF Grown, Terminal

LEMMA KeptOn ==
  ASSUME NEW cs, NEW ds, NEW es, Kept(cs, ds), Kept(ds, es)
  PROVE  Kept(cs, es)
BY GrownOn DEF Kept, ShapedCovers

LEMMA KeptReplaced ==
  ASSUME NEW cs, ShapedCovers(cs), NEW c \in DOMAIN cs, NEW cv, Grown(cs[c], cv),
         NEW ds, ds = [cs EXCEPT ![c] = cv]
  PROVE  Kept(cs, ds)
<1>1. DOMAIN ds = DOMAIN cs /\ ds[c] = cv /\ \A b \in DOMAIN cs : b # c => ds[b] = cs[b]
  OBVIOUS
<1>2. ds = [b \in DOMAIN ds |-> ds[b]] /\ IsSequence(cs)
  BY DEF ShapedCovers
<1>3. IsSequence(ds)
  BY <1>1, <1>2, Reshaped
<1>4. \A b \in DOMAIN cs : Grown(cs[b], ds[b])
  BY <1>1, GrownItself DEF ShapedCovers
<1> QED
  BY <1>1, <1>3, <1>4 DEF Kept, ShapedCovers, Grown

LEMMA KeptAdded ==
  ASSUME NEW cs, ShapedCovers(cs), NEW cv, IsCover(cv)
  PROVE  /\ Kept(cs, Append(cs, cv))
         /\ Len(cs) + 1 \in DOMAIN Append(cs, cv)
<1> DEFINE ds == Append(cs, cv)
<1>1. /\ IsSequence(ds) /\ Len(cs) \in Nat /\ DOMAIN cs = 1..Len(cs)
      /\ DOMAIN ds = 1..(Len(cs) + 1) /\ ds[Len(cs) + 1] = cv
      /\ \A b \in 1..Len(cs) : ds[b] = cs[b]
  BY Appended DEF ShapedCovers
<1> HIDE DEF ds
<1>2. \A b \in DOMAIN cs : b \in DOMAIN ds /\ Grown(cs[b], ds[b])
  BY <1>1, GrownItself DEF ShapedCovers
<1>3. \A b \in DOMAIN ds : IsCover(ds[b])
  BY <1>1 DEF ShapedCovers
<1>4. Kept(cs, ds) /\ Len(cs) + 1 \in DOMAIN ds
  BY <1>1, <1>2, <1>3 DEF Kept, ShapedCovers
<1> QED
  BY <1>4 DEF ds

LEMMA WithdrawGrows ==
  ASSUME NEW cv, IsCover(cv), NEW ns
  PROVE  /\ IsCover(Withdraw(cv, ns))
         /\ Last(Withdraw(cv, ns)) = Last(cv) /\ Withdraw(cv, ns).stop = cv.stop
<1> DEFINE s == cv.cycles
           r == [n \in DOMAIN s |-> IF n \in ns THEN [s[n] EXCEPT !.withdrawn = TRUE] ELSE s[n]]
           w == [cv EXCEPT !.cycles = r]
<1>1. w = Withdraw(cv, ns)
  BY DEF Withdraw
<1>2. IsSequence(s) /\ DOMAIN r = DOMAIN s /\ r = [n \in DOMAIN r |-> r[n]]
  BY DEF IsCover
<1> HIDE DEF r, s
<1>3. IsSequence(r) /\ Len(r) = Len(s)
  BY <1>2, Reshaped
<1>4. /\ w.cycles = r /\ w.stop = cv.stop
      /\ w = [policy |-> w.policy, from |-> w.from, continues |-> w.continues,
              cycles |-> w.cycles, stop |-> w.stop, ended |-> w.ended]
  BY DEF IsCover
<1> HIDE DEF w
<1>5. IsCover(w) /\ Last(w) = Last(cv) /\ w.stop = cv.stop
  BY <1>3, <1>4 DEF IsCover, Last, s
<1> QED
  BY <1>1, <1>5

\* Nothing but the terminal cycle and the end is written.
LEMMA MarkedGrows ==
  ASSUME NEW cv, IsCover(cv), NEW i
  PROVE  /\ IsCover([cv EXCEPT !.stop = i]) /\ Last([cv EXCEPT !.stop = i]) = Last(cv)
         /\ Grown(cv, [cv EXCEPT !.ended = i])
<1>1. Last(cv) \in Nat
  BY SequenceLength DEF IsCover, Last
<1> QED
  BY <1>1 DEF IsCover, Last, Grown

LEMMA TerminateGrows ==
  ASSUME NEW cv, IsCover(cv), NEW i
  PROVE  Grown(cv, Terminate(cv, i))
<1>1. CASE Terminal(cv)
  BY <1>1, GrownItself DEF Terminate
<1>2. CASE ~Terminal(cv)
  <2> DEFINE w == Withdraw(cv, Untouched(cv, i))
             t == [w EXCEPT !.stop = i]
  <2>1. t = Terminate(cv, i)
    BY <1>2 DEF Terminate
  <2>2. IsCover(w) /\ Last(w) = Last(cv) /\ Last(cv) \in Nat
    BY WithdrawGrows, SequenceLength DEF IsCover, Last
  <2> HIDE DEF w
  <2>3. IsCover(t) /\ Last(t) = Last(cv)
    BY <2>2, MarkedGrows
  <2> HIDE DEF t
  <2>4. Grown(cv, t)
    BY <2>2, <2>3, <1>2 DEF Grown
  <2> QED
    BY <2>1, <2>4
<1> QED
  BY <1>1, <1>2

LEMMA SettleKeeps ==
  ASSUME NEW d, NEW cs, cs = d.covers, ShapedCovers(cs), NEW c \in DOMAIN cs, NEW n
  PROVE  Kept(cs, Settle(d, c, n).covers)
<1> DEFINE ds == [d.covers EXCEPT ![c].cycles[n].paid = @ + 1, ![c].cycles[n].at = now]
           cv == ds[c]
<1>1. Settle(d, c, n).covers = ds
  BY DEF Settle
<1>2. IsCover(cs[c]) /\ IsSequence(cs) /\ cs = [b \in DOMAIN cs |-> cs[b]]
  BY SequenceLength DEF ShapedCovers
<1>3. ds = [cs EXCEPT ![c] = cv]
  <2> DEFINE paid == [cs EXCEPT ![c].cycles[n].paid = @ + 1]
  <2>1. /\ paid = [b \in DOMAIN cs |-> paid[b]]
        /\ \A b \in DOMAIN cs : b # c => paid[b] = cs[b]
    OBVIOUS
  <2>2. ds = [paid EXCEPT ![c].cycles[n].at = now]
    OBVIOUS
  <2> HIDE DEF paid
  <2>3. /\ ds = [b \in DOMAIN paid |-> ds[b]]
        /\ \A b \in DOMAIN paid : b # c => ds[b] = paid[b]
    BY <2>2
  <2> HIDE DEF ds
  <2> QED
    BY <2>1, <2>3
<1>4. /\ cv = [cs[c] EXCEPT !.cycles = cv.cycles]
      /\ DOMAIN cv.cycles = DOMAIN cs[c].cycles
      /\ cv.cycles = [i \in DOMAIN cv.cycles |-> cv.cycles[i]]
  <2> DEFINE cw == [cs[c] EXCEPT !.cycles[n].paid = @ + 1]
             r == [cs[c].cycles EXCEPT ![n].paid = @ + 1]
             q == [r EXCEPT ![n].at = now]
  <2>1. cv = [cw EXCEPT !.cycles[n].at = now]
    BY <1>2
  <2>2. /\ cw = [policy |-> cs[c].policy, from |-> cs[c].from, continues |-> cs[c].continues,
                 cycles |-> r, stop |-> cs[c].stop, ended |-> cs[c].ended]
        /\ DOMAIN r = DOMAIN cs[c].cycles
    BY <1>2 DEF IsCover
  <2> HIDE DEF cw, cv, r
  <2>3. /\ cv = [policy |-> cs[c].policy, from |-> cs[c].from, continues |-> cs[c].continues,
                 cycles |-> q, stop |-> cs[c].stop, ended |-> cs[c].ended]
        /\ DOMAIN q = DOMAIN r /\ q = [i \in DOMAIN r |-> q[i]]
    BY <2>1, <2>2
  <2> HIDE DEF q
  <2> QED
    BY <2>2, <2>3, <1>2 DEF IsCover
<1> HIDE DEF cv
<1>5. IsSequence(cv.cycles) /\ Len(cv.cycles) = Len(cs[c].cycles) /\ Len(cv.cycles) \in Nat
  <2>1. IsSequence(cs[c].cycles)
    BY <1>2 DEF IsCover
  <2>2. IsSequence(cv.cycles) /\ Len(cv.cycles) = Len(cs[c].cycles)
    BY <2>1, <1>4, Reshaped
  <2> QED
    BY <2>2, SequenceLength
<1>6. /\ cv.stop = cs[c].stop
      /\ cv = [policy |-> cv.policy, from |-> cv.from, continues |-> cv.continues,
               cycles |-> cv.cycles, stop |-> cv.stop, ended |-> cv.ended]
  BY <1>2, <1>4 DEF IsCover
<1>7. Grown(cs[c], cv)
  BY <1>5, <1>6 DEF Grown, IsCover, Last
<1>8. Kept(cs, ds)
  BY <1>3, <1>7, KeptReplaced
<1> QED
  BY <1>1, <1>8

\* What the renewal sees: its draft, or what is committed.
LEMMA ViewKeeps ==
  ASSUME CoverInv, run.pc # "idle"
  PROVE  /\ View = [covers |-> View.covers, funds |-> View.funds]
         /\ ShapedCovers(View.covers) /\ Kept(covers, View.covers)
         /\ run.cover \in DOMAIN View.covers /\ IsCover(Mine)
<1>1. /\ run.wrote \in BOOLEAN /\ run.cover \in DOMAIN View.covers /\ ShapedCovers(covers)
      /\ run.wrote => /\ run.draft = [covers |-> run.draft.covers, funds |-> run.draft.funds]
                      /\ Kept(covers, run.draft.covers)
  BY DEF CoverInv, RunInv
<1>2. CASE run.wrote
  <2>1. View = run.draft
    BY <1>2 DEF View
  <2> QED
    BY <2>1, <1>1, <1>2 DEF Kept, ShapedCovers, Mine
<1>3. CASE ~run.wrote
  <2>1. View = [covers |-> covers, funds |-> funds]
    BY <1>3 DEF View, Committed
  <2> QED
    BY <2>1, <1>1, KeptItself DEF ShapedCovers, Mine
<1> QED
  BY <1>1, <1>2, <1>3

LEMMA WriteKeeps ==
  ASSUME CoverInv, run.pc # "idle", NEW pc \in {"read", "commit"}, NEW c, NEW d,
         Write(pc, c, d), d = [covers |-> d.covers, funds |-> d.funds],
         Kept(View.covers, d.covers), c \in DOMAIN d.covers,
         UNCHANGED <<covers, cancelling>>
  PROVE  CoverInv'
<1>1. Kept(covers, d.covers)
  BY ViewKeeps, KeptOn
<1>2. run' = [pc |-> pc, cover |-> c, ref |-> run.ref, saw |-> "", wrote |-> TRUE, draft |-> d]
  BY DEF Write, CoverInv, RunInv
<1>3. View' = d
  BY <1>2 DEF View
<1>4. RunInv'
  BY <1>1, <1>2, <1>3 DEF RunInv
<1> QED
  BY <1>4 DEF CoverInv, CancelInv, Covers, Last

LEMMA WriteCover ==
  ASSUME CoverInv, run.pc # "idle", NEW cv, Grown(Mine, cv),
         Write("commit", run.cover, [View EXCEPT !.covers[run.cover] = cv]),
         UNCHANGED <<covers, cancelling>>
  PROVE  CoverInv'
<1> DEFINE ds == [View.covers EXCEPT ![run.cover] = cv]
           d == [covers |-> ds, funds |-> View.funds]
<1>1. [View EXCEPT !.covers[run.cover] = cv] = d
  BY ViewKeeps
<1>2. Kept(View.covers, ds) /\ run.cover \in DOMAIN ds
  BY ViewKeeps, KeptReplaced DEF Mine
<1>3. Write("commit", run.cover, d) /\ d = [covers |-> d.covers, funds |-> d.funds]
      /\ d.covers = ds
  BY <1>1
<1> HIDE DEF d, ds
<1> QED
  BY <1>2, <1>3, WriteKeeps

\* A turn that writes nothing.
LEMMA TurnKeeps ==
  ASSUME CoverInv, run.pc # "idle",
         \/ run' = NoRun
         \/ run' = [run EXCEPT !.pc = "read"]
         \/ run.wrote /\ run' = [run EXCEPT !.pc = "commit"]
         \/ run' = [run EXCEPT !.pc = "act", !.saw = run'.saw],
         UNCHANGED <<covers, funds, cancelling>>
  PROVE  CoverInv'
<1>1. /\ run.wrote \in BOOLEAN
      /\ run = [pc |-> run.pc, cover |-> run.cover, ref |-> run.ref, saw |-> run.saw,
                wrote |-> run.wrote, draft |-> run.draft]
      /\ run.cover \in DOMAIN View.covers
  BY DEF CoverInv, RunInv
<1>2. CASE run' = NoRun
  BY <1>2 DEF NoRun, CoverInv, RunInv, CancelInv, Covers, Last
<1>3. CASE run' # NoRun
  <2>1. /\ run' = [pc |-> run'.pc, cover |-> run.cover, ref |-> run.ref, saw |-> run'.saw,
                   wrote |-> run.wrote, draft |-> run.draft]
        /\ run'.pc \in {"read", "act", "commit"} /\ (run'.pc = "commit" => run.wrote)
    BY <1>1, <1>3
  <2>2. View' = View
    BY <2>1 DEF View, Committed
  <2>3. RunInv'
    BY <1>1, <2>1, <2>2 DEF CoverInv, RunInv
  <2> QED
    BY <2>3 DEF CoverInv, CancelInv, Covers, Last
<1> QED
  BY <1>2, <1>3

LEMMA CancelStays ==
  ASSUME CancelInv, Kept(covers, covers'), ShapedCovers(covers'),
         \/ cancelling' = Idle
         \/ cancelling'.cover = cancelling.cover /\ cancelling'.rows = cancelling.rows
              /\ cancelling # Idle
         \/ cancelling' = cancelling
  PROVE  CancelInv'
<1> SUFFICES ASSUME cancelling # Idle, cancelling' # Idle,
                    cancelling'.cover = cancelling.cover, cancelling'.rows = cancelling.rows
             PROVE  CancelInv'
  BY DEF CancelInv
<1> DEFINE c == cancelling.cover
<1>1. /\ c \in DOMAIN covers /\ cancelling.rows \in Int /\ cancelling.rows <= Last(covers[c])
  BY DEF CancelInv, Covers
<1>2. c \in DOMAIN covers' /\ Grown(covers[c], covers'[c]) /\ IsCover(covers[c])
  BY <1>1 DEF Kept, ShapedCovers
<1>3. Last(covers[c]) \in Nat /\ Last(covers'[c]) \in Nat /\ Last(covers[c]) <= Last(covers'[c])
  BY <1>2, SequenceLength DEF IsCover, Grown, Last
<1> QED
  BY <1>1, <1>2, <1>3 DEF CancelInv, Covers, Last

\* Nobody but the renewal itself writes a lineage it has written.
LEMMA OthersKeep ==
  ASSUME CoverInv, Kept(covers, covers'), run' = run,
         run.wrote => UNCHANGED covers,
         \/ cancelling' = Idle
         \/ cancelling'.cover = cancelling.cover /\ cancelling'.rows = cancelling.rows
              /\ cancelling # Idle
         \/ cancelling' = cancelling
  PROVE  CoverInv'
<1>1. ShapedCovers(covers') /\ \A c \in DOMAIN covers : c \in DOMAIN covers'
  BY DEF Kept
<1>2. CancelInv'
  BY <1>1, CancelStays DEF CoverInv
<1>3. RunInv'
  <2>1. CASE run.wrote
    BY <2>1 DEF CoverInv, RunInv, View
  <2>2. CASE ~run.wrote
    <3>1. View = Committed /\ View' = [covers |-> covers', funds |-> funds']
      BY <2>2 DEF View, Committed
    <3>2. run.cover \in DOMAIN covers => run.cover \in DOMAIN View'.covers
      BY <1>1, <3>1
    <3> QED
      BY <2>2, <3>1, <3>2 DEF CoverInv, RunInv, Committed
  <2> QED
    BY <2>1, <2>2 DEF CoverInv, RunInv
<1> QED
  BY <1>1, <1>2, <1>3 DEF CoverInv

-----------------------------------------------------------------------------
(* What each operation does to the lineages. *)

Step == CoverInv' /\ Kept(covers, covers')

LEMMA PurchaseKeeps ==
  ASSUME CoverInv, NEW v, execute_purchase_insurance(v)
  PROVE  Step
<1> DEFINE cs == Append(covers, Cover(v, now, 0))
           d == [covers |-> cs, funds |-> funds]
<1>1. ~run.wrote
  BY DEF execute_purchase_insurance, SeatFree, CoverInv, RunInv
<1>2. covers' = Settle(d, Len(covers) + 1, 1).covers /\ d.covers = cs
      /\ run' = run /\ cancelling' = cancelling
  BY DEF execute_purchase_insurance
<1>3. IsCover(Cover(v, now, 0))
  <2>1. << Cycle(now, v) >> \in Seq({ << Cycle(now, v) >>[i] : i \in {1} })
    OBVIOUS
  <2>2. IsSequence(<< Cycle(now, v) >>)
    BY <2>1 DEF IsSequence
  <2> QED
    BY <2>2 DEF IsCover, Cover
<1>4. Kept(covers, cs) /\ Len(covers) + 1 \in DOMAIN cs
  BY <1>3, KeptAdded DEF CoverInv
<1> HIDE DEF cs, d
<1>5. Kept(cs, covers')
  BY <1>2, <1>4, SettleKeeps DEF Kept
<1>6. Kept(covers, covers')
  BY <1>4, <1>5, KeptOn
<1> QED
  BY <1>1, <1>2, <1>6, OthersKeep DEF Step

LEMMA PaymentKeeps ==
  ASSUME CoverInv, NEW c \in Covers, execute_insurance_premium_payment(c)
  PROVE  Step
<1>1. ~run.wrote /\ run' = run /\ cancelling' = cancelling
  BY DEF execute_insurance_premium_payment, SeatFree, CoverInv, RunInv
<1>2. /\ covers' = Settle(Committed, c, Min(Outstanding(covers[c]))).covers
      /\ Committed.covers = covers
  BY DEF execute_insurance_premium_payment, Committed
<1>3. Kept(covers, covers')
  BY <1>2, SettleKeeps DEF CoverInv, Covers
<1> QED
  BY <1>1, <1>3, OthersKeep DEF Step

LEMMA ExpiryKeeps ==
  ASSUME CoverInv, NEW c \in Covers, run_insurance_expiry_job(c)
  PROVE  Step
<1>1. ~run.wrote /\ run' = run /\ cancelling' = cancelling
  BY DEF run_insurance_expiry_job, SeatFree, CoverInv, RunInv
<1> DEFINE cv == [covers[c] EXCEPT !.ended = Boundary(c)]
<1>2. covers' = [covers EXCEPT ![c] = cv]
  BY DEF run_insurance_expiry_job
<1>3. c \in DOMAIN covers /\ ShapedCovers(covers) /\ Grown(covers[c], cv)
  BY MarkedGrows DEF CoverInv, ShapedCovers, Covers
<1> HIDE DEF cv
<1>4. Kept(covers, covers')
  BY <1>2, <1>3, KeptReplaced
<1> QED
  BY <1>1, <1>4, OthersKeep DEF Step

LEMMA CancelReadKeeps ==
  ASSUME CoverInv, NEW c \in Covers, CancelRead(c)
  PROVE  Step
<1>1. Last(covers[c]) \in Nat
  BY SequenceLength DEF CoverInv, ShapedCovers, IsCover, Covers, Last
<1>2. /\ cancelling'.cover = c /\ cancelling'.rows = Last(covers[c])
      /\ covers' = covers /\ funds' = funds /\ run' = run
  <2>1. Rows(covers[c]) = Last(covers[c])
    BY <1>1 DEF CancelRead, Rows
  <2> QED
    BY <2>1 DEF CancelRead, onlyCancel
<1>3. CancelInv'
  BY <1>1, <1>2 DEF CancelInv, Covers, Last
<1>4. RunInv'
  BY <1>2 DEF CoverInv, RunInv, View, Committed
<1> QED
  BY <1>2, <1>3, <1>4, KeptItself DEF Step, CoverInv

\* The unique number of the terminal row: a lineage that has stopped since the
\* cancellation read it has more rows than it saw.
LEMMA CancelCommitKeeps ==
  ASSUME CoverInv, CancelCommit
  PROVE  Step
<1> DEFINE c == cancelling.cover
           cv == [Withdraw(covers[c], cancelling.todo) EXCEPT !.stop = cancelling.instant]
<1>1. ~run.wrote /\ run' = run /\ cancelling' = Idle
  BY DEF CancelCommit, MayInsert, SeatFree, CoverInv, RunInv
<1>2. /\ c \in DOMAIN covers /\ IsCover(covers[c]) /\ Last(covers[c]) \in Nat
      /\ cancelling.rows \in Int /\ cancelling.rows <= Last(covers[c])
  <2>1. cancelling # Idle
    BY DEF CancelCommit, Idle
  <2> QED
    BY <2>1, SequenceLength DEF CoverInv, CancelInv, ShapedCovers, IsCover, Covers, Last
<1>3. CASE LineageMoved
  <2>1. covers' = covers
    BY <1>3 DEF CancelCommit
  <2> QED
    BY <2>1, <1>1, KeptItself, OthersKeep DEF Step, CoverInv
<1>4. CASE ~LineageMoved
  <2>1. ~Terminal(covers[c])
    BY <1>2, <1>4 DEF LineageMoved, Rows
  <2>2. IsCover(cv) /\ Last(cv) = Last(covers[c])
    BY <1>2, WithdrawGrows, MarkedGrows
  <2>3. covers' = [covers EXCEPT ![c] = cv]
    BY <1>2, <1>4 DEF CancelCommit
  <2> HIDE DEF cv
  <2>4. Grown(covers[c], cv)
    BY <1>2, <2>1, <2>2 DEF Grown
  <2>5. Kept(covers, covers')
    BY <1>2, <2>3, <2>4, KeptReplaced DEF CoverInv
  <2> QED
    BY <1>1, <2>5, OthersKeep DEF Step
<1> QED
  BY <1>3, <1>4

LEMMA RenewCommitKeeps ==
  ASSUME CoverInv, RenewCommit
  PROVE  Step
<1>1. /\ covers' = run.draft.covers /\ Kept(covers, run.draft.covers)
      /\ run' = NoRun /\ cancelling' = cancelling
  BY DEF RenewCommit, CoverInv, RunInv
<1>2. ShapedCovers(covers') /\ Kept(covers, covers')
  BY <1>1 DEF Kept
<1>3. CancelInv'
  BY <1>1, <1>2, CancelStays DEF CoverInv
<1>4. RunInv'
  BY <1>1 DEF RunInv, NoRun
<1> QED
  BY <1>2, <1>3, <1>4 DEF Step, CoverInv

LEMMA LapseKeeps ==
  ASSUME CoverInv, Lapse
  PROVE  Step
<1> DEFINE deadline == MissedDeadline(Mine, run.ref)
           over == [Mine EXCEPT !.ended = IF @ = Never THEN deadline ELSE @]
           cv == Terminate(over, deadline)
<1>1. run.pc # "idle" /\ covers' = covers /\ cancelling' = cancelling
      /\ Write("commit", run.cover, [View EXCEPT !.covers[run.cover] = cv])
  BY DEF Lapse, onlyRun
<1>2. IsCover(Mine)
  BY <1>1, ViewKeeps
<1>3. Grown(Mine, over)
  <2>1. over = [Mine EXCEPT !.ended = IF Mine.ended = Never THEN deadline ELSE Mine.ended]
    BY <1>2 DEF IsCover
  <2> HIDE DEF over, deadline
  <2> QED
    BY <1>2, <2>1, MarkedGrows
<1>4. Grown(over, cv)
  BY <1>3, TerminateGrows DEF Grown
<1> HIDE DEF over, deadline
<1>5. Grown(Mine, cv)
  BY <1>2, <1>3, <1>4, GrownOn
<1> QED
  BY <1>1, <1>5, WriteCover, KeptItself DEF Step, CoverInv

LEMMA StopRenewalKeeps ==
  ASSUME CoverInv, StopRenewal
  PROVE  Step
<1>1. run.pc # "idle" /\ covers' = covers /\ cancelling' = cancelling
      /\ Write("commit", run.cover, [View EXCEPT !.covers[run.cover] = Stopped])
  BY DEF StopRenewal, onlyRun
<1>2. Grown(Mine, Stopped)
  BY <1>1, ViewKeeps, TerminateGrows DEF Stopped
<1> QED
  BY <1>1, <1>2, WriteCover, KeptItself DEF Step, CoverInv

\* The draft after the attempt to pay the premium it has just billed.
LEMMA PaidDraftKeeps ==
  ASSUME CoverInv, run.pc # "idle", NEW d, NEW c \in DOMAIN d.covers,
         d = [covers |-> d.covers, funds |-> d.funds],
         Kept(View.covers, d.covers), Write("read", c, Autopay(d, c)),
         UNCHANGED <<covers, cancelling>>
  PROVE  Step
<1> DEFINE e == Autopay(d, c)
<1>1. e = [covers |-> e.covers, funds |-> e.funds]
  BY DEF Autopay, Settle
<1>2. Kept(d.covers, e.covers)
  <2>1. ShapedCovers(d.covers)
    BY DEF Kept
  <2> QED
    BY <2>1, SettleKeeps, KeptItself DEF Autopay
<1>3. c \in DOMAIN e.covers
  BY <1>2 DEF Kept
<1> HIDE DEF e
<1>4. Kept(View.covers, e.covers)
  BY <1>2, KeptOn
<1>5. Write("read", c, e)
  BY DEF e
<1>6. CoverInv'
  BY <1>1, <1>3, <1>4, <1>5, WriteKeeps
<1> QED
  BY <1>6, KeptItself DEF Step, CoverInv

LEMMA ContinueKeeps ==
  ASSUME CoverInv, Continue
  PROVE  Step
<1> DEFINE next == Len(View.covers) + 1
           first == Cover(Newest, Stopped.stop, run.cover)
           cs == [View.covers EXCEPT ![run.cover] = Stopped]
           d == [covers |-> Append(cs, first), funds |-> View.funds]
<1>1. /\ run.pc # "idle" /\ covers' = covers /\ cancelling' = cancelling
  BY DEF Continue, onlyRun
<1>2. Write("read", next, Autopay([View EXCEPT !.covers =
               Append([@ EXCEPT ![run.cover] = Stopped], first)], next))
  BY DEF Continue
<1>3. [View EXCEPT !.covers = Append([@ EXCEPT ![run.cover] = Stopped], first)] = d
  <2>1. View = [covers |-> View.covers, funds |-> View.funds]
    BY <1>1, ViewKeeps
  <2> HIDE DEF first
  <2> QED
    BY <2>1
<1>4. IsCover(first)
  <2>1. << Cycle(Stopped.stop, Newest) >>
          \in Seq({ << Cycle(Stopped.stop, Newest) >>[i] : i \in {1} })
    OBVIOUS
  <2>2. IsSequence(<< Cycle(Stopped.stop, Newest) >>)
    BY <2>1 DEF IsSequence
  <2> QED
    BY <2>2 DEF IsCover, Cover
<1>5. Kept(View.covers, cs) /\ Len(cs) = Len(View.covers)
  <2>1. Grown(Mine, Stopped)
    BY <1>1, ViewKeeps, TerminateGrows DEF Stopped
  <2>2. /\ run.cover \in DOMAIN View.covers /\ ShapedCovers(View.covers)
        /\ Grown(View.covers[run.cover], Stopped)
    BY <1>1, <2>1, ViewKeeps DEF Mine
  <2>3. Kept(View.covers, cs)
    BY <2>2, KeptReplaced
  <2>4. DOMAIN cs = DOMAIN View.covers /\ cs = [i \in DOMAIN cs |-> cs[i]]
        /\ IsSequence(View.covers)
    BY <2>2 DEF ShapedCovers
  <2> HIDE DEF cs
  <2> QED
    BY <2>3, <2>4, Reshaped
<1> HIDE DEF cs, first
<1>6. Kept(cs, Append(cs, first)) /\ next \in DOMAIN Append(cs, first)
  BY <1>4, <1>5, KeptAdded DEF Kept
<1>7. Kept(View.covers, d.covers) /\ next \in DOMAIN d.covers
      /\ d = [covers |-> d.covers, funds |-> d.funds]
  BY <1>5, <1>6, KeptOn
<1>8. Write("read", next, Autopay(d, next))
  BY <1>2, <1>3
<1> HIDE DEF d, next
<1> QED
  BY <1>1, <1>7, <1>8, PaidDraftKeeps

LEMMA RenewCycleKeeps ==
  ASSUME CoverInv, RenewCycle
  PROVE  Step
<1> DEFINE more == Append(Mine.cycles, NextCycle(Mine))
           cv == [Mine EXCEPT !.cycles = more]
           d == [covers |-> [View.covers EXCEPT ![run.cover] = cv], funds |-> View.funds]
<1>1. /\ run.pc # "idle" /\ covers' = covers /\ cancelling' = cancelling
      /\ ~Terminal(Mine)
  BY DEF RenewCycle, Renewing, StillDue, Eligibility, onlyRun
<1>2. /\ View = [covers |-> View.covers, funds |-> View.funds] /\ IsCover(Mine)
      /\ run.cover \in DOMAIN View.covers /\ ShapedCovers(View.covers)
  BY <1>1, ViewKeeps
<1>3. /\ [View EXCEPT !.covers[run.cover].cycles = Append(@, NextCycle(Mine))] = d
  <2> DEFINE extra == NextCycle(Mine)
  <2>1. IsSequence(View.covers) /\ Mine = View.covers[run.cover]
    BY <1>2 DEF ShapedCovers, Mine
  <2> HIDE DEF extra
  <2> QED
    BY <1>2, <2>1
<1>4. IsSequence(more) /\ Len(Mine.cycles) \in Nat /\ Len(more) = Len(Mine.cycles) + 1
  BY <1>2, Appended DEF IsCover
<1> HIDE DEF more
<1>5. cv.cycles = more /\ cv = [policy |-> cv.policy, from |-> cv.from,
                                continues |-> cv.continues, cycles |-> cv.cycles,
                                stop |-> cv.stop, ended |-> cv.ended]
  BY <1>2 DEF IsCover
<1> HIDE DEF cv
<1>6. Grown(Mine, cv)
  BY <1>1, <1>4, <1>5 DEF Grown, IsCover, Last
<1>7. Kept(View.covers, [View.covers EXCEPT ![run.cover] = cv])
  BY <1>2, <1>6, KeptReplaced DEF Mine
<1>8. Kept(View.covers, d.covers) /\ run.cover \in DOMAIN d.covers
      /\ d = [covers |-> d.covers, funds |-> d.funds]
  BY <1>2, <1>7
<1>9. Write("read", run.cover, Autopay(d, run.cover))
  BY <1>3 DEF RenewCycle
<1> HIDE DEF d
<1> QED
  BY <1>1, <1>8, <1>9, PaidDraftKeeps

LEMMA CoverInit == Init => CoverInv
<1>1. IsSequence(<< >>) /\ DOMAIN << >> = {}
  BY EmptySeq DEF IsSequence
<1> QED
  BY <1>1
     DEF Init, CoverageInit, CoverInv, ShapedCovers, RunInv, CancelInv, NoRun

LEMMA CoverNext ==
  ASSUME CoverInv, [Next]_vars
  PROVE  Step
<1> USE DEF Step
<1>1. ASSUME UNCHANGED <<covers, run, cancelling>> PROVE Step
  BY <1>1, KeptItself, OthersKeep DEF CoverInv
<1>2. ASSUME NEW v \in DOMAIN versions, execute_purchase_insurance(v) PROVE Step
  BY <1>2, PurchaseKeeps
<1>3. ASSUME NEW c \in Covers, execute_insurance_premium_payment(c) PROVE Step
  BY <1>3, PaymentKeeps
<1>4. ASSUME NEW c \in Covers, RenewBegin(c) PROVE Step
  <2>1. /\ run' = [pc |-> "lock", cover |-> c, ref |-> now, saw |-> "", wrote |-> FALSE,
                   draft |-> <<>>]
        /\ covers' = covers /\ funds' = funds /\ cancelling' = cancelling
    BY <1>4 DEF RenewBegin, onlyRun
  <2>2. View' = [covers |-> covers, funds |-> funds]
    BY <2>1 DEF View, Committed
  <2>3. RunInv'
    BY <2>1, <2>2 DEF RunInv, Covers
  <2> QED
    BY <2>1, <2>3, KeptItself DEF CoverInv, CancelInv, Covers, Last
<1>5. ASSUME NEW c \in Covers, CancelRead(c) PROVE Step
  BY <1>5, CancelReadKeeps
<1>6. ASSUME NEW c \in Covers, run_insurance_expiry_job(c) PROVE Step
  BY <1>6, ExpiryKeeps
<1>7. CASE RenewStep
  <2>1. CASE RenewLock \/ RenewRead \/ NotDue \/ RenewRefused
    <3>1. run.pc # "idle" /\ UNCHANGED <<covers, funds, cancelling>>
      BY <2>1 DEF RenewLock, RenewRead, NotDue, RenewRefused, Renewing, onlyRun
    <3>2. \/ run' = NoRun
          \/ run' = [run EXCEPT !.pc = "read"]
          \/ run.wrote /\ run' = [run EXCEPT !.pc = "commit"]
          \/ run' = [run EXCEPT !.pc = "act", !.saw = run'.saw]
      <4>1. CASE RenewRead
        <5> DEFINE saw == Eligibility(Mine, run.ref)
        <5>1. CASE saw = "terminal"
          BY <4>1, <5>1 DEF RenewRead, Release
        <5>2. CASE saw # "terminal"
          <6>1. run' = [run EXCEPT !.pc = "act", !.saw = saw]
            BY <4>1, <5>2 DEF RenewRead
          <6>2. run = [pc |-> run.pc, cover |-> run.cover, ref |-> run.ref, saw |-> run.saw,
                       wrote |-> run.wrote, draft |-> run.draft]
            BY <3>1 DEF CoverInv, RunInv
          <6> HIDE DEF saw
          <6>3. run'.saw = saw
            BY <6>1, <6>2
          <6> QED
            BY <6>1, <6>3
        <5> QED
          BY <5>1, <5>2
      <4> QED
        BY <2>1, <4>1 DEF RenewLock, NotDue, RenewRefused, Release
    <3> QED
      BY <3>1, <3>2, TurnKeeps, KeptItself DEF CoverInv
  <2> QED
    BY <1>7, <2>1, LapseKeeps, ContinueKeeps, StopRenewalKeeps, RenewCycleKeeps,
       RenewCommitKeeps DEF RenewStep
<1>8. CASE RenewAbort
  <2>1. run' = NoRun /\ covers' = covers /\ cancelling' = cancelling
    BY <1>8 DEF RenewAbort
  <2> QED
    BY <2>1, KeptItself DEF CoverInv, RunInv, NoRun, CancelInv, Covers, Last
<1>9. CASE CancelStep
  <2>1. CASE CancelWithdraw
    <3>1. /\ covers' = covers /\ run' = run
          /\ \/ cancelling' = Idle
             \/ /\ cancelling # Idle
                /\ cancelling'.cover = cancelling.cover
                /\ cancelling'.rows = cancelling.rows
      BY <2>1 DEF CancelWithdraw, onlyCancel, Idle
    <3> QED
      BY <3>1, KeptItself, OthersKeep DEF CoverInv
  <2> QED
    BY <1>9, <2>1, CancelCommitKeeps DEF CancelStep
<1>10. CASE Tick \/ submit_insurance_definition \/ set_availability
  BY <1>1, <1>10 DEF Tick, submit_insurance_definition, set_availability
<1>11. CASE CoverageStep
  BY <1>2, <1>3, <1>4, <1>5, <1>6, <1>7, <1>8, <1>9, <1>10, <1>11 DEF CoverageStep
<1>12. CASE ClaimStep
  BY <1>1, <1>12
     DEF ClaimStep, Lose, Reverse, FileRead, create_claim, ApproveRead, RejectRead, Decide,
         ApproveCommit, ApproveRefused, RejectCommit, onlyMoney, coverVars
<1>13. CASE UNCHANGED vars
  BY <1>1, <1>13 DEF vars, coverVars
<1> QED
  BY <1>11, <1>12, <1>13 DEF Next

\* A stopped lineage takes no further cycle and its instant never moves, although
\* the renewal acts on what a turn of its loop read, a cancellation on what it read
\* before it could commit, and both may stop the same lineage
\* (terminate_bill_cycle, schedule_next_bill_cycle, uq_bill_cycles_ref_cycle).
THEOREM StoppedLineagesStay == Spec => StoppedStaysStopped
<1>1. CoverInv /\ [Next]_vars => CoverInv'
  BY CoverNext DEF Step
<1>2. CoverInv /\ [Next]_vars =>
        [\A c \in Covers :
           Terminal(covers[c]) =>
             covers'[c].stop = covers[c].stop /\ Last(covers'[c]) = Last(covers[c])]_vars
  BY CoverNext DEF Step, Kept, Grown, Covers
<1> QED
  BY <1>1, <1>2, CoverInit, PTL DEF Spec, StoppedStaysStopped
-----------------------------------------------------------------------------
(***************************************************************************)
(* Periods.  The periods of a cover follow one another from its anchor,    *)
(* what is owed of it begins before it stops, and a continuation begins    *)
(* where its predecessor stopped.  The draft of a renewal is as sound as   *)
(* what is committed, and only adds to it.                                 *)
(***************************************************************************)

PeriodType == [start: Nat, end: Nat, paid: Nat, at: Nat, withdrawn: BOOLEAN]

CoverType ==
  [policy: DOMAIN Terms, from: Nat, continues: Nat, cycles: Seq(PeriodType),
   stop: Nat, ended: Nat]

Length(cv) == Terms[cv.policy].period

Final(cv) == cv.cycles[Last(cv)].end

\* The periods are counted from the anchor, one after the other.
Periodic(cv) ==
  /\ Last(cv) >= 1
  /\ \A n \in DOMAIN cv.cycles :
       /\ cv.cycles[n].start >= cv.from
       /\ cv.cycles[n].end = cv.cycles[n].start + Length(cv)
       /\ cv.cycles[n].end <= Final(cv)
  /\ Final(cv) = cv.from + Last(cv) * Length(cv)
  /\ Final(cv) < Never

\* Nothing is owed of a period that begins at the end or after it.
Stops(cv) ==
  /\ cv.from <= cv.stop
  /\ Terminal(cv) => cv.stop <= Final(cv) \/ cv.stop <= MaxTime
  /\ \A n \in Outstanding(cv) : cv.cycles[n].start < cv.stop

SoundLine(cv) == cv \in CoverType /\ Periodic(cv) /\ Stops(cv)

\* At t, a cover that has expired had stopped, and expired in the past.
SoundEnd(cv, t) == cv.ended # Never => Terminal(cv) /\ cv.ended <= t

SoundCover(cv, t) == SoundLine(cv) /\ SoundEnd(cv, t)

Follows(cs, c, p) ==
  /\ p \in DOMAIN cs /\ Terminal(cs[p])
  /\ cs[p].stop = cs[c].from /\ cs[p].ended \in {Never, cs[c].from}
  /\ \A b \in DOMAIN cs : cs[b].continues = p => b = c

\* A cover is over by the instant `from`.
Over(cv, from) == Terminal(cv) /\ (cv.stop <= from \/ cv.ended <= from)

SoundCovers(cs, t) ==
  /\ IsSequence(cs)
  /\ \A c \in DOMAIN cs : SoundCover(cs[c], t)
  /\ \A c \in DOMAIN cs : cs[c].continues # 0 => Follows(cs, c, cs[c].continues)
  /\ Grouped => \A c, d \in DOMAIN cs : c < d => Over(cs[c], cs[d].from)

\* Later covers are the earlier ones with more paid and more periods.
AgedCover(cv, dv) ==
  /\ dv.from = cv.from /\ Final(cv) <= Final(dv)
  /\ \A n \in DOMAIN cv.cycles :
       /\ n \in DOMAIN dv.cycles
       /\ dv.cycles[n].start = cv.cycles[n].start
       /\ dv.cycles[n].paid = 0 => cv.cycles[n].paid = 0

Aged(cs, ds) == \A c \in DOMAIN cs : c \in DOMAIN ds /\ AgedCover(cs[c], ds[c])

VersionsSound == IsSequence(versions) /\ Newest \in 1..Len(Terms)

\* What the turn of the loop read is still so when it acts on it: nobody but a
\* cancellation touches the cover meanwhile.
Acting ==
  /\ Mine.ended = Never
  /\ \A b \in DOMAIN View.covers : View.covers[b].continues # run.cover
  /\ Grouped => run.cover = Len(View.covers)
  /\ run.saw = "due" => Due(Mine, run.ref)

RenewalSound ==
  /\ run.pc # "idle" => run.ref \in Nat /\ run.ref <= now
  /\ run.wrote => SoundCovers(run.draft.covers, now) /\ Aged(covers, run.draft.covers)
  /\ run.pc = "act" => Acting

\* A cancellation that may still commit withdraws all that nobody has paid.
CancellationSound ==
  cancelling # Idle =>
    LET cv == covers[cancelling.cover]
    IN  /\ cancelling.pc \in {"withdraw", "commit"}
        /\ cancelling.instant \in Nat
        /\ cv.from <= cancelling.instant /\ cancelling.instant <= Final(cv)
        /\ cancelling.pc = "commit" /\ ~LineageMoved =>
             Untouched(cv, cancelling.instant) \subseteq cancelling.todo

PeriodInv ==
  /\ now \in Nat /\ now <= MaxTime
  /\ VersionsSound /\ SoundCovers(covers, now) /\ RenewalSound /\ CancellationSound

-----------------------------------------------------------------------------
(* The terms, the periods of one cover, and their instants. *)

LEMMA MinIn ==
  ASSUME NEW S \in SUBSET Nat, S # {}
  PROVE  Min(S) \in S /\ \A y \in S : Min(S) <= y
<1>1. \E x \in S : \A y \in S : x <= y
  <2>1. IsWellFoundedOn(OpToRel(<, Nat), Nat)
    BY NatLessThanWellFounded
  <2>2. \E x \in S : \A y \in S : ~(<<y, x>> \in OpToRel(<, Nat))
    BY <2>1, WFMin
  <2>3. PICK x \in S : \A y \in S : ~(<<y, x>> \in OpToRel(<, Nat))
    BY <2>2
  <2>4. ASSUME NEW y \in S, ~(x <= y) PROVE FALSE
    <3>1. <<y, x>> \in Nat \X Nat /\ y < x
      BY <2>4
    <3>2. <<y, x>> \in OpToRel(<, Nat)
      BY <3>1 DEF OpToRel
    <3> QED
      BY <2>3, <3>2
  <2> QED
    BY <2>4
<1> QED
  BY <1>1 DEF Min

LEMMA TermsFacts ==
  /\ Never \in Nat /\ MaxTime \in Nat /\ MaxTime < Never
  /\ Len(Terms) \in Nat /\ DOMAIN Terms = 1..Len(Terms)
  /\ \A v \in DOMAIN Terms :
       /\ Terms[v].period \in Nat /\ Terms[v].preview \in Nat /\ Terms[v].cancelAfter \in Nat
       /\ 0 < Terms[v].preview /\ Terms[v].preview < Terms[v].period
       /\ MaxTime + Terms[v].period + Terms[v].period < Never
<1>1. Terms \in Seq(TermsType) /\ Terms # << >>
  BY CoverageConstants
<1>2. /\ Len(Terms) \in Nat /\ DOMAIN Terms = 1..Len(Terms)
      /\ \A v \in DOMAIN Terms : Terms[v] \in TermsType
  BY <1>1, LenProperties
<1>3. Len(Terms) # 0
  BY <1>1, EmptySeq
<1>4. 1 \in DOMAIN Terms
  BY <1>2, <1>3
<1>5. ASSUME NEW v \in DOMAIN Terms
      PROVE  /\ Terms[v].period \in Nat /\ Terms[v].preview \in Nat
             /\ Terms[v].cancelAfter \in Nat
             /\ 0 < Terms[v].preview /\ Terms[v].preview < Terms[v].period
             /\ MaxTime + Terms[v].period + Terms[v].period < Never
             /\ MaxTime \in Nat /\ Never \in Nat /\ MaxTime < Never
  <2>1. /\ Terms[v].period \in Nat /\ Terms[v].preview \in Nat /\ Terms[v].cancelAfter \in Nat
    BY <1>2 DEF TermsType
  <2>2. /\ 0 < Terms[v].preview /\ Terms[v].preview < Terms[v].period
        /\ MaxTime + 2 * Terms[v].period + Terms[v].cancelAfter < Never
        /\ MaxTime \in Nat /\ Never \in Nat
    BY CoverageConstants
  <2> QED
    BY <2>1, <2>2
<1> QED
  BY <1>2, <1>4, <1>5

LEMMA SequenceOf ==
  ASSUME NEW T, NEW s \in Seq(T)
  PROVE  IsSequence(s) /\ Len(s) \in Nat /\ DOMAIN s = 1..Len(s) /\ \A i \in DOMAIN s : s[i] \in T
<1>1. Len(s) \in Nat /\ DOMAIN s = 1..Len(s) /\ s \in [1..Len(s) -> T]
  BY LenProperties
<1>2. s \in [1..Len(s) -> { s[i] : i \in DOMAIN s }]
  BY <1>1
<1> QED
  BY <1>1, <1>2, FunctionIsSequence DEF IsSequence

LEMMA SequenceIn ==
  ASSUME NEW s, IsSequence(s), NEW T, \A i \in DOMAIN s : s[i] \in T
  PROVE  s \in Seq(T)
<1>1. Len(s) \in Nat /\ DOMAIN s = 1..Len(s) /\ s = [i \in DOMAIN s |-> s[i]]
  BY SequenceLength
<1>2. s \in [1..Len(s) -> T]
  BY <1>1
<1> QED
  BY <1>1, <1>2, FunctionIsSequence

LEMMA PeriodFacts ==
  ASSUME NEW cv, cv \in CoverType, Periodic(cv)
  PROVE  /\ IsCover(cv)
         /\ Last(cv) \in Nat /\ Last(cv) >= 1
         /\ DOMAIN cv.cycles = 1..Last(cv) /\ Last(cv) \in DOMAIN cv.cycles
         /\ cv.policy \in DOMAIN Terms /\ cv.continues \in Nat
         /\ cv.from \in Nat /\ cv.stop \in Nat /\ cv.ended \in Nat
         /\ Length(cv) \in Nat /\ Length(cv) > 0
         /\ Final(cv) \in Nat /\ Final(cv) < Never
         /\ \A n \in DOMAIN cv.cycles :
              /\ cv.cycles[n] \in PeriodType
              /\ cv.cycles[n].start \in Nat /\ cv.cycles[n].end \in Nat
              /\ cv.from <= cv.cycles[n].start /\ cv.cycles[n].end <= Final(cv)
              /\ cv.cycles[n].start < cv.cycles[n].end
<1>1. /\ cv.cycles \in Seq(PeriodType) /\ cv.policy \in DOMAIN Terms
      /\ cv.from \in Nat /\ cv.stop \in Nat /\ cv.ended \in Nat /\ cv.continues \in Nat
      /\ cv = [policy |-> cv.policy, from |-> cv.from, continues |-> cv.continues,
               cycles |-> cv.cycles, stop |-> cv.stop, ended |-> cv.ended]
  BY DEF CoverType
<1>2. /\ IsSequence(cv.cycles) /\ Last(cv) \in Nat /\ DOMAIN cv.cycles = 1..Last(cv)
      /\ \A n \in DOMAIN cv.cycles : cv.cycles[n] \in PeriodType
  BY <1>1, SequenceOf DEF Last
<1>3. Length(cv) \in Nat /\ Length(cv) > 0
  BY <1>1, TermsFacts DEF Length
<1>4. Last(cv) >= 1
  BY DEF Periodic
<1>5. Last(cv) \in DOMAIN cv.cycles
  BY <1>2, <1>4
<1>6. \A n \in DOMAIN cv.cycles : cv.cycles[n].start \in Nat /\ cv.cycles[n].end \in Nat
  BY <1>2 DEF PeriodType
<1>7. Final(cv) \in Nat
  BY <1>5, <1>6 DEF Final
<1>8. \A n \in DOMAIN cv.cycles :
        /\ cv.from <= cv.cycles[n].start /\ cv.cycles[n].end <= Final(cv)
        /\ cv.cycles[n].start < cv.cycles[n].end
  BY <1>1, <1>3, <1>6 DEF Periodic
<1> QED
  BY <1>1, <1>2, <1>3, <1>4, <1>5, <1>6, <1>7, <1>8 DEF Periodic, IsCover

\* The same periods, paid or withdrawn otherwise.
LEMMA LineRemade ==
  ASSUME NEW cv, cv \in CoverType, Periodic(cv), NEW dv,
         dv = [policy |-> cv.policy, from |-> cv.from, continues |-> cv.continues,
               cycles |-> dv.cycles, stop |-> dv.stop, ended |-> dv.ended],
         dv.stop \in Nat, dv.ended \in Nat,
         DOMAIN dv.cycles = DOMAIN cv.cycles,
         dv.cycles = [n \in DOMAIN dv.cycles |-> dv.cycles[n]],
         \A n \in DOMAIN cv.cycles :
           /\ dv.cycles[n] \in PeriodType
           /\ dv.cycles[n].start = cv.cycles[n].start /\ dv.cycles[n].end = cv.cycles[n].end
  PROVE  /\ dv \in CoverType /\ Periodic(dv)
         /\ Last(dv) = Last(cv) /\ Final(dv) = Final(cv) /\ Length(dv) = Length(cv)
<1> DEFINE r == dv.cycles
           s == cv.cycles
<1>1. /\ IsSequence(s) /\ Last(cv) \in DOMAIN s /\ cv.policy \in DOMAIN Terms
      /\ cv.from \in Nat /\ cv.continues \in Nat
  BY PeriodFacts DEF IsCover
<1>2. DOMAIN r = DOMAIN s /\ r = [n \in DOMAIN r |-> r[n]]
  OBVIOUS
<1>3. IsSequence(r) /\ Len(r) = Len(s)
  <2> HIDE DEF r, s
  <2> QED
    BY <1>1, <1>2, Reshaped
<1>4. r \in Seq(PeriodType)
  BY <1>2, <1>3, SequenceIn
<1>5. /\ dv.policy = cv.policy /\ dv.from = cv.from /\ dv.continues = cv.continues
  OBVIOUS
<1>6. dv \in CoverType
  BY <1>1, <1>4, <1>5 DEF CoverType
<1>7. Last(dv) = Last(cv) /\ Final(dv) = Final(cv) /\ Length(dv) = Length(cv)
  BY <1>1, <1>3, <1>5 DEF Last, Final, Length
<1>8. Periodic(dv)
  BY <1>5, <1>7 DEF Periodic
<1> QED
  BY <1>6, <1>7, <1>8

-----------------------------------------------------------------------------
(* What a payment, a withdrawal, an end and a renewal make of one cover. *)

\* dv is cv with one more payment of period n.
Paid(cv, n, dv) ==
  /\ dv = [policy |-> cv.policy, from |-> cv.from, continues |-> cv.continues,
           cycles |-> dv.cycles, stop |-> cv.stop, ended |-> cv.ended]
  /\ DOMAIN dv.cycles = DOMAIN cv.cycles /\ dv.cycles = [i \in DOMAIN dv.cycles |-> dv.cycles[i]]
  /\ \A i \in DOMAIN cv.cycles :
       dv.cycles[i] = IF i = n THEN [start |-> cv.cycles[n].start, end |-> cv.cycles[n].end,
                                     paid |-> cv.cycles[n].paid + 1, at |-> now,
                                     withdrawn |-> cv.cycles[n].withdrawn]
                      ELSE cv.cycles[i]

\* dv is cv stopped at i with the premiums of the periods ns withdrawn.
Halted(cv, ns, i, dv) ==
  /\ dv = [policy |-> cv.policy, from |-> cv.from, continues |-> cv.continues,
           cycles |-> dv.cycles, stop |-> i, ended |-> dv.ended]
  /\ DOMAIN dv.cycles = DOMAIN cv.cycles /\ dv.cycles = [n \in DOMAIN dv.cycles |-> dv.cycles[n]]
  /\ \A n \in DOMAIN cv.cycles :
       dv.cycles[n] = IF n \in ns THEN [start |-> cv.cycles[n].start, end |-> cv.cycles[n].end,
                                        paid |-> cv.cycles[n].paid, at |-> cv.cycles[n].at,
                                        withdrawn |-> TRUE]
                      ELSE cv.cycles[n]

Same(cv, dv) == dv.policy = cv.policy /\ dv.from = cv.from /\ dv.continues = cv.continues

LEMMA PeriodShape ==
  ASSUME NEW p \in PeriodType
  PROVE  /\ p = [start |-> p.start, end |-> p.end, paid |-> p.paid, at |-> p.at,
                 withdrawn |-> p.withdrawn]
         /\ p.start \in Nat /\ p.end \in Nat /\ p.paid \in Nat /\ p.at \in Nat
         /\ p.withdrawn \in BOOLEAN
BY DEF PeriodType

LEMMA SettleDoes ==
  ASSUME NEW d, NEW cs, cs = d.covers, ShapedCovers(cs), NEW c \in DOMAIN cs,
         NEW n \in DOMAIN cs[c].cycles, cs[c].cycles[n] \in PeriodType
  PROVE  \E dv : Settle(d, c, n).covers = [cs EXCEPT ![c] = dv] /\ Paid(cs[c], n, dv)
<1> DEFINE ds == [d.covers EXCEPT ![c].cycles[n].paid = @ + 1, ![c].cycles[n].at = now]
           dv == ds[c]
           cv == cs[c]
           cw == [cv EXCEPT !.cycles[n].paid = @ + 1]
           r == [cv.cycles EXCEPT ![n].paid = @ + 1]
           q == [r EXCEPT ![n].at = now]
<1>1. Settle(d, c, n).covers = ds
  BY DEF Settle
<1>2. IsCover(cv) /\ IsSequence(cs) /\ cs = [b \in DOMAIN cs |-> cs[b]]
  BY SequenceLength DEF ShapedCovers
<1>3. ds = [cs EXCEPT ![c] = dv]
  BY <1>2
<1>4. dv = [cw EXCEPT !.cycles[n].at = now]
  BY <1>2
<1>5. /\ cw = [policy |-> cv.policy, from |-> cv.from, continues |-> cv.continues,
               cycles |-> r, stop |-> cv.stop, ended |-> cv.ended]
      /\ DOMAIN r = DOMAIN cv.cycles
  BY <1>2 DEF IsCover
<1>6. /\ r[n] = [start |-> cv.cycles[n].start, end |-> cv.cycles[n].end,
                 paid |-> cv.cycles[n].paid + 1, at |-> cv.cycles[n].at,
                 withdrawn |-> cv.cycles[n].withdrawn]
      /\ \A i \in DOMAIN cv.cycles : i # n => r[i] = cv.cycles[i]
  <2> DEFINE p == cv.cycles[n]
  <2>1. r[n] = [p EXCEPT !.paid = p.paid + 1]
    OBVIOUS
  <2>2. p = [start |-> p.start, end |-> p.end, paid |-> p.paid, at |-> p.at,
             withdrawn |-> p.withdrawn]
    BY PeriodShape
  <2> HIDE DEF p, r
  <2>3. r[n] = [start |-> p.start, end |-> p.end, paid |-> p.paid + 1, at |-> p.at,
                withdrawn |-> p.withdrawn]
    BY <2>1, <2>2
  <2> QED
    BY <2>3 DEF p, r
<1> HIDE DEF cw, dv, r
<1>7. /\ dv = [policy |-> cv.policy, from |-> cv.from, continues |-> cv.continues,
               cycles |-> q, stop |-> cv.stop, ended |-> cv.ended]
      /\ DOMAIN q = DOMAIN r /\ q = [i \in DOMAIN r |-> q[i]]
      /\ q[n] = [start |-> cv.cycles[n].start, end |-> cv.cycles[n].end,
                 paid |-> cv.cycles[n].paid + 1, at |-> now,
                 withdrawn |-> cv.cycles[n].withdrawn]
      /\ \A i \in DOMAIN r : i # n => q[i] = r[i]
  <2>1. q[n] = [r[n] EXCEPT !.at = now]
    BY <1>5
  <2>2. q[n] = [start |-> cv.cycles[n].start, end |-> cv.cycles[n].end,
                paid |-> cv.cycles[n].paid + 1, at |-> now,
                withdrawn |-> cv.cycles[n].withdrawn]
    BY <1>6, <2>1
  <2> QED
    BY <1>4, <1>5, <2>2
<1> HIDE DEF q
<1>8. Paid(cv, n, dv)
  BY <1>5, <1>6, <1>7 DEF Paid
<1> QED
  BY <1>1, <1>3, <1>8

LEMMA PaidSound ==
  ASSUME NEW cv, SoundLine(cv), NEW n, NEW dv, Paid(cv, n, dv), now \in Nat
  PROVE  /\ SoundLine(dv) /\ AgedCover(cv, dv) /\ Same(cv, dv)
         /\ dv.stop = cv.stop /\ dv.ended = cv.ended /\ Final(dv) = Final(cv)
<1>1. cv \in CoverType /\ Periodic(cv) /\ Stops(cv)
  BY DEF SoundLine
<1>2. /\ cv.stop \in Nat /\ cv.ended \in Nat /\ Final(cv) \in Nat
      /\ \A i \in DOMAIN cv.cycles : cv.cycles[i] \in PeriodType
  BY <1>1, PeriodFacts
<1>3. /\ dv = [policy |-> cv.policy, from |-> cv.from, continues |-> cv.continues,
               cycles |-> dv.cycles, stop |-> dv.stop, ended |-> dv.ended]
      /\ dv.stop = cv.stop /\ dv.ended = cv.ended /\ Same(cv, dv)
      /\ DOMAIN dv.cycles = DOMAIN cv.cycles
      /\ dv.cycles = [i \in DOMAIN dv.cycles |-> dv.cycles[i]]
  BY DEF Paid, Same
<1>4. ASSUME NEW i \in DOMAIN cv.cycles
      PROVE  /\ dv.cycles[i] \in PeriodType
             /\ dv.cycles[i].start = cv.cycles[i].start /\ dv.cycles[i].end = cv.cycles[i].end
             /\ dv.cycles[i].withdrawn = cv.cycles[i].withdrawn
             /\ dv.cycles[i].paid = 0 => cv.cycles[i].paid = 0
  <2>1. cv.cycles[i] \in PeriodType
    BY <1>2
  <2>2. CASE i = n
    <3>1. dv.cycles[i] = [start |-> cv.cycles[i].start, end |-> cv.cycles[i].end,
                          paid |-> cv.cycles[i].paid + 1, at |-> now,
                          withdrawn |-> cv.cycles[i].withdrawn]
      BY <2>2 DEF Paid
    <3>2. cv.cycles[i].paid \in Nat /\ cv.cycles[i].paid + 1 \in Nat /\ cv.cycles[i].paid + 1 # 0
      BY <2>1, PeriodShape
    <3> QED
      BY <2>1, <3>1, <3>2 DEF PeriodType
  <2>3. CASE i # n
    BY <2>1, <2>3 DEF Paid
  <2> QED
    BY <2>2, <2>3
<1>5. dv \in CoverType /\ Periodic(dv) /\ Last(dv) = Last(cv) /\ Final(dv) = Final(cv)
  BY <1>1, <1>2, <1>3, <1>4, LineRemade
<1>6. Stops(dv)
  BY <1>1, <1>3, <1>4, <1>5 DEF Stops, Terminal, Outstanding, Same
<1>7. AgedCover(cv, dv)
  BY <1>2, <1>3, <1>4, <1>5 DEF AgedCover, Same
<1> QED
  BY <1>3, <1>5, <1>6, <1>7 DEF SoundLine

LEMMA HaltedSound ==
  ASSUME NEW cv, SoundLine(cv), NEW ns, NEW i \in Nat, NEW dv, Halted(cv, ns, i, dv),
         dv.ended \in Nat, cv.from <= i, i <= Final(cv) \/ i <= MaxTime,
         Untouched(cv, i) \subseteq ns
  PROVE  /\ SoundLine(dv) /\ AgedCover(cv, dv) /\ Same(cv, dv)
         /\ dv.stop = i /\ Final(dv) = Final(cv)
<1>1. cv \in CoverType /\ Periodic(cv) /\ Stops(cv)
  BY DEF SoundLine
<1>2. /\ Final(cv) \in Nat
      /\ \A n \in DOMAIN cv.cycles : cv.cycles[n] \in PeriodType
  BY <1>1, PeriodFacts
<1>3. /\ dv = [policy |-> cv.policy, from |-> cv.from, continues |-> cv.continues,
               cycles |-> dv.cycles, stop |-> dv.stop, ended |-> dv.ended]
      /\ dv.stop = i /\ Same(cv, dv)
      /\ DOMAIN dv.cycles = DOMAIN cv.cycles
      /\ dv.cycles = [n \in DOMAIN dv.cycles |-> dv.cycles[n]]
  BY DEF Halted, Same
<1>4. ASSUME NEW n \in DOMAIN cv.cycles
      PROVE  /\ dv.cycles[n] \in PeriodType
             /\ dv.cycles[n].start = cv.cycles[n].start /\ dv.cycles[n].end = cv.cycles[n].end
             /\ dv.cycles[n].paid = cv.cycles[n].paid
             /\ ~dv.cycles[n].withdrawn => n \notin ns
  <2>1. cv.cycles[n] \in PeriodType
    BY <1>2
  <2>2. CASE n \in ns
    <3>1. dv.cycles[n] = [start |-> cv.cycles[n].start, end |-> cv.cycles[n].end,
                          paid |-> cv.cycles[n].paid, at |-> cv.cycles[n].at,
                          withdrawn |-> TRUE]
      BY <2>2 DEF Halted
    <3> QED
      BY <2>1, <3>1 DEF PeriodType
  <2>3. CASE n \notin ns
    BY <2>1, <2>3 DEF Halted
  <2> QED
    BY <2>2, <2>3
<1>5. dv \in CoverType /\ Periodic(dv) /\ Last(dv) = Last(cv) /\ Final(dv) = Final(cv)
  BY <1>1, <1>2, <1>3, <1>4, LineRemade
<1>6. ASSUME NEW n \in Outstanding(dv) PROVE dv.cycles[n].start < dv.stop
  <2>1. n \in DOMAIN cv.cycles /\ dv.cycles[n].paid = 0 /\ ~dv.cycles[n].withdrawn
    BY <1>3 DEF Outstanding
  <2>2. n \notin Untouched(cv, i) /\ cv.cycles[n].paid = 0
    BY <1>4, <2>1
  <2>3. cv.cycles[n].start \in Nat /\ ~(cv.cycles[n].start >= i)
    BY <1>2, <2>1, <2>2, PeriodShape DEF Untouched
  <2> QED
    BY <1>3, <1>4, <2>1, <2>3
<1>7. Stops(dv)
  BY <1>3, <1>5, <1>6 DEF Stops, Same
<1>8. AgedCover(cv, dv)
  BY <1>2, <1>3, <1>4, <1>5 DEF AgedCover, Same
<1> QED
  BY <1>3, <1>5, <1>7, <1>8 DEF SoundLine

LEMMA WithdrawHalts ==
  ASSUME NEW cv, SoundLine(cv), NEW ns, NEW i
  PROVE  /\ Halted(cv, ns, i, [Withdraw(cv, ns) EXCEPT !.stop = i])
         /\ [Withdraw(cv, ns) EXCEPT !.stop = i].ended = cv.ended
<1> DEFINE s == cv.cycles
           r == [n \in DOMAIN s |-> IF n \in ns THEN [s[n] EXCEPT !.withdrawn = TRUE] ELSE s[n]]
           w == [cv EXCEPT !.cycles = r]
           dv == [w EXCEPT !.stop = i]
<1>1. w = Withdraw(cv, ns)
  BY DEF Withdraw
<1>2. /\ IsCover(cv) /\ \A n \in DOMAIN s : s[n] \in PeriodType
  BY PeriodFacts DEF SoundLine
<1>3. \A n \in DOMAIN s :
        r[n] = IF n \in ns THEN [start |-> s[n].start, end |-> s[n].end,
                                 paid |-> s[n].paid, at |-> s[n].at, withdrawn |-> TRUE]
               ELSE s[n]
  <2> SUFFICES ASSUME NEW n \in DOMAIN s, n \in ns
               PROVE  r[n] = [start |-> s[n].start, end |-> s[n].end,
                              paid |-> s[n].paid, at |-> s[n].at, withdrawn |-> TRUE]
    OBVIOUS
  <2> DEFINE p == s[n]
  <2>1. r[n] = [p EXCEPT !.withdrawn = TRUE]
    OBVIOUS
  <2>2. p = [start |-> p.start, end |-> p.end, paid |-> p.paid, at |-> p.at,
             withdrawn |-> p.withdrawn]
    BY <1>2, PeriodShape
  <2> HIDE DEF p, r
  <2>3. r[n] = [start |-> p.start, end |-> p.end, paid |-> p.paid, at |-> p.at,
                withdrawn |-> TRUE]
    BY <2>1, <2>2
  <2> QED
    BY <2>3 DEF p
<1>4. DOMAIN r = DOMAIN s /\ r = [n \in DOMAIN r |-> r[n]]
  OBVIOUS
<1> HIDE DEF r
<1>5. dv = [policy |-> cv.policy, from |-> cv.from, continues |-> cv.continues,
            cycles |-> r, stop |-> i, ended |-> cv.ended]
  <2>1. w = [policy |-> cv.policy, from |-> cv.from, continues |-> cv.continues,
             cycles |-> r, stop |-> cv.stop, ended |-> cv.ended]
    BY <1>2 DEF IsCover
  <2> HIDE DEF w
  <2> QED
    BY <2>1
<1> HIDE DEF dv
<1>6. Halted(cv, ns, i, dv) /\ dv.ended = cv.ended
  BY <1>3, <1>4, <1>5 DEF Halted
<1> QED
  BY <1>1, <1>6 DEF dv

\* What both kinds of end rely on: a lineage keeps its instant, and an end that is
\* on record is not written over.
Settled(cv, dv) ==
  /\ Same(cv, dv) /\ AgedCover(cv, dv)
  /\ Terminal(cv) => dv.stop = cv.stop
  /\ cv.ended # Never => dv.ended = cv.ended

LEMMA AgedItself ==
  ASSUME NEW cv, SoundLine(cv)
  PROVE  AgedCover(cv, cv)
BY PeriodFacts DEF SoundLine, AgedCover

LEMMA TerminateSound ==
  ASSUME NEW cv, SoundLine(cv), NEW i \in Nat,
         cv.from <= i, i <= Final(cv) \/ i <= MaxTime, i < Never
  PROVE  /\ SoundLine(Terminate(cv, i)) /\ Terminal(Terminate(cv, i))
         /\ Same(cv, Terminate(cv, i)) /\ AgedCover(cv, Terminate(cv, i))
         /\ Terminal(cv) => Terminate(cv, i) = cv
         /\ ~Terminal(cv) => Terminate(cv, i).stop = i
         /\ Terminate(cv, i).ended = cv.ended /\ Final(Terminate(cv, i)) = Final(cv)
<1>1. CASE Terminal(cv)
  <2>1. Terminate(cv, i) = cv
    BY <1>1 DEF Terminate
  <2> QED
    BY <1>1, <2>1, AgedItself DEF Same
<1>2. CASE ~Terminal(cv)
  <2> DEFINE dv == [Withdraw(cv, Untouched(cv, i)) EXCEPT !.stop = i]
  <2>1. Terminate(cv, i) = dv
    BY <1>2 DEF Terminate
  <2>2. Halted(cv, Untouched(cv, i), i, dv) /\ dv.ended = cv.ended
    BY WithdrawHalts
  <2>3. cv.ended \in Nat
    BY PeriodFacts DEF SoundLine
  <2>4. i # Never
    BY TermsFacts
  <2> HIDE DEF dv
  <2>5. /\ SoundLine(dv) /\ AgedCover(cv, dv) /\ Same(cv, dv)
        /\ dv.stop = i /\ Final(dv) = Final(cv)
    BY <2>2, <2>3, HaltedSound
  <2> QED
    BY <1>2, <2>1, <2>2, <2>4, <2>5 DEF Terminal
<1> QED
  BY <1>1, <1>2

LEMMA StopBounds ==
  ASSUME NEW cv, cv \in CoverType, Periodic(cv), NEW t
  PROVE  /\ StopInstant(cv, t) \in Nat
         /\ cv.from <= StopInstant(cv, t) /\ StopInstant(cv, t) <= Final(cv)
<1> DEFINE current == CurrentCycles(cv, t)
<1>1. /\ Last(cv) \in DOMAIN cv.cycles /\ DOMAIN cv.cycles \subseteq Nat
      /\ cv.from \in Nat
      /\ \A n \in DOMAIN cv.cycles :
           /\ cv.cycles[n].end \in Nat /\ cv.cycles[n].start \in Nat
           /\ cv.cycles[n].end <= Final(cv)
           /\ cv.from <= cv.cycles[n].start /\ cv.cycles[n].start < cv.cycles[n].end
  BY PeriodFacts
<1>2. \E n \in DOMAIN cv.cycles : StopInstant(cv, t) = cv.cycles[n].end
  <2>1. CASE current = {} \/ Last(cv) \in current \/ cv.cycles[Last(cv)].paid > 0
    BY <1>1, <2>1 DEF StopInstant
  <2>2. CASE ~(current = {} \/ Last(cv) \in current \/ cv.cycles[Last(cv)].paid > 0)
    <3>1. current \in SUBSET Nat /\ current # {} /\ current \subseteq DOMAIN cv.cycles
      BY <1>1, <2>2 DEF CurrentCycles
    <3>2. StopInstant(cv, t) = cv.cycles[Min(current)].end
      BY <2>2 DEF StopInstant
    <3> HIDE DEF current
    <3>3. Min(current) \in DOMAIN cv.cycles
      BY <3>1, MinIn
    <3> QED
      BY <3>2, <3>3
  <2> QED
    BY <2>1, <2>2
<1>3. PICK n \in DOMAIN cv.cycles : StopInstant(cv, t) = cv.cycles[n].end
  BY <1>2
<1>4. /\ cv.cycles[n].end \in Nat /\ cv.cycles[n].start \in Nat
      /\ cv.cycles[n].end <= Final(cv) /\ cv.from \in Nat
      /\ cv.from <= cv.cycles[n].start /\ cv.cycles[n].start < cv.cycles[n].end
  BY <1>1
<1>5. cv.from <= cv.cycles[n].end
  BY <1>4
<1> QED
  BY <1>3, <1>4, <1>5

LEMMA DeadlineBounds ==
  ASSUME NEW cv, cv \in CoverType, Periodic(cv), NEW t, MissedDeadline(cv, t) # Never
  PROVE  /\ MissedDeadline(cv, t) \in Nat
         /\ cv.from <= MissedDeadline(cv, t) /\ MissedDeadline(cv, t) <= t
<1> DEFINE missed == { n \in DOMAIN cv.cycles :
                    /\ cv.cycles[n].start <= t /\ ~cv.cycles[n].withdrawn
                    /\ cv.cycles[n].paid > 0 => cv.cycles[n].at > Deadline(cv, n) }
<1>1. /\ missed # {} /\ MissedDeadline(cv, t) = Deadline(cv, Min(missed))
      /\ Deadline(cv, Min(missed)) <= t
  BY DEF MissedDeadline
<1>2. /\ DOMAIN cv.cycles \subseteq Nat /\ cv.from \in Nat /\ cv.policy \in DOMAIN Terms
      /\ \A n \in DOMAIN cv.cycles : cv.cycles[n].start \in Nat /\ cv.from <= cv.cycles[n].start
  BY PeriodFacts
<1>3. missed \in SUBSET Nat /\ missed \subseteq DOMAIN cv.cycles
  BY <1>2
<1> HIDE DEF missed
<1>4. Min(missed) \in DOMAIN cv.cycles
  BY <1>1, <1>3, MinIn
<1>5. PICK n \in DOMAIN cv.cycles : MissedDeadline(cv, t) = Deadline(cv, n) /\ Deadline(cv, n) <= t
  BY <1>1, <1>4
<1>6. Terms[cv.policy].cancelAfter \in Nat
  BY <1>2, TermsFacts
<1> QED
  BY <1>2, <1>5, <1>6 DEF Deadline

\* A further period is billed only towards the end of the last one.
LEMMA ExtendSound ==
  ASSUME NEW cv, SoundLine(cv), ~Terminal(cv), NEW t \in Nat, t <= MaxTime, Due(cv, t),
         NEW dv, dv = [cv EXCEPT !.cycles = Append(cv.cycles, NextCycle(cv))]
  PROVE  /\ SoundLine(dv) /\ AgedCover(cv, dv) /\ Same(cv, dv)
         /\ dv.stop = cv.stop /\ dv.ended = cv.ended /\ Last(dv) \in DOMAIN dv.cycles
<1> DEFINE r == Append(cv.cycles, NextCycle(cv))
           k == Last(cv) + 1
           p == Length(cv)
           extra == NextCycle(cv)
<1>1. /\ cv \in CoverType /\ Periodic(cv) /\ Stops(cv) /\ cv.stop = Never
  BY DEF SoundLine, Terminal
<1>2. /\ IsCover(cv)
      /\ Last(cv) \in Nat /\ Last(cv) >= 1
      /\ DOMAIN cv.cycles = 1..Last(cv) /\ Last(cv) \in DOMAIN cv.cycles
      /\ cv.policy \in DOMAIN Terms /\ cv.continues \in Nat
      /\ cv.from \in Nat /\ cv.stop \in Nat /\ cv.ended \in Nat
      /\ p \in Nat /\ p > 0
      /\ Final(cv) \in Nat /\ Final(cv) < Never
      /\ \A n \in DOMAIN cv.cycles :
           /\ cv.cycles[n] \in PeriodType
           /\ cv.cycles[n].start \in Nat /\ cv.cycles[n].end \in Nat
           /\ cv.from <= cv.cycles[n].start /\ cv.cycles[n].end <= Final(cv)
           /\ cv.cycles[n].start < cv.cycles[n].end
  BY <1>1, PeriodFacts
<1>3. Final(cv) = cv.from + Last(cv) * p
  BY <1>1 DEF Periodic
<1>4. extra = [start |-> Final(cv), end |-> Final(cv) + p, paid |-> 0, at |-> Never,
               withdrawn |-> FALSE]
  BY <1>3 DEF NextCycle, Cycle, Length
<1>5. Final(cv) + p < Never /\ Never \in Nat
  <2>1. /\ Terms[cv.policy].preview \in Nat /\ Terms[cv.policy].preview < p
        /\ MaxTime + p + p < Never /\ MaxTime \in Nat /\ Never \in Nat
    BY <1>2, TermsFacts DEF Length
  <2>2. Final(cv) - Terms[cv.policy].preview <= t
    BY DEF Due, Final
  <2> QED
    BY <1>2, <2>1, <2>2
<1>6. extra \in PeriodType
  BY <1>2, <1>4, <1>5 DEF PeriodType
<1>7. /\ IsSequence(r) /\ Len(r) = k /\ DOMAIN r = 1..k
      /\ \A n \in 1..Last(cv) : r[n] = cv.cycles[n]
      /\ r[k] = extra
  <2>1. IsSequence(cv.cycles)
    BY <1>2 DEF IsCover
  <2> HIDE DEF extra
  <2> QED
    BY <2>1, <1>2, Appended DEF Last, extra
<1> HIDE DEF r, extra
<1>8. /\ dv.cycles = r
      /\ dv = [policy |-> cv.policy, from |-> cv.from, continues |-> cv.continues,
               cycles |-> r, stop |-> cv.stop, ended |-> cv.ended]
  <2>1. dv = [cv EXCEPT !.cycles = r]
    BY DEF r
  <2> QED
    BY <2>1, <1>2 DEF IsCover
<1>9. /\ Last(dv) = k /\ Length(dv) = p /\ Same(cv, dv)
      /\ dv.stop = cv.stop /\ dv.ended = cv.ended
  BY <1>7, <1>8 DEF Last, Length, Same
<1>10. DOMAIN r = 1..k /\ k \in 1..k /\ \A n \in 1..k : n = k \/ n \in 1..Last(cv)
  BY <1>2, <1>7
<1>11. \A n \in DOMAIN r : r[n] \in PeriodType
  BY <1>2, <1>6, <1>7, <1>10
<1>12. dv \in CoverType
  <2>1. r \in Seq(PeriodType)
    BY <1>7, <1>11, SequenceIn
  <2> QED
    BY <2>1, <1>2, <1>8 DEF CoverType
<1>13. Final(dv) = Final(cv) + p
  BY <1>4, <1>7, <1>8, <1>9 DEF Final
<1>14. Periodic(dv)
  <2>1. Final(dv) = dv.from + k * p
    <3>1. k * p = Last(cv) * p + p
      BY <1>2
    <3>2. Last(cv) * p \in Nat
      BY <1>2
    <3> HIDE DEF k, p
    <3> QED
      BY <1>2, <1>3, <1>9, <1>13, <3>1, <3>2 DEF Same
  <2>2. ASSUME NEW n \in DOMAIN r
        PROVE  /\ r[n].start >= cv.from
               /\ r[n].end = r[n].start + p
               /\ r[n].end <= Final(dv)
    <3>1. CASE n = k
      <4>1. cv.from <= Final(cv)
        <5>1. /\ cv.from <= cv.cycles[Last(cv)].start
              /\ cv.cycles[Last(cv)].start < cv.cycles[Last(cv)].end
              /\ cv.cycles[Last(cv)].start \in Nat /\ cv.cycles[Last(cv)].end = Final(cv)
          BY <1>2 DEF Final
        <5> HIDE DEF p, k
        <5> QED
          BY <1>2, <5>1
      <4> QED
        BY <3>1, <4>1, <1>2, <1>4, <1>7, <1>13
    <3>2. CASE n \in 1..Last(cv)
      <4>1. r[n] = cv.cycles[n] /\ n \in DOMAIN cv.cycles
        BY <3>2, <1>2, <1>7
      <4>2. cv.cycles[n].end = cv.cycles[n].start + p
        BY <4>1, <1>1 DEF Periodic
      <4>3. /\ cv.cycles[n].end <= Final(cv) /\ cv.from <= cv.cycles[n].start
            /\ cv.cycles[n].end \in Nat /\ cv.cycles[n].start \in Nat
        BY <4>1, <1>2
      <4> QED
        BY <4>1, <4>2, <4>3, <1>2, <1>13
    <3> QED
      BY <3>1, <3>2, <1>10
  <2>3. Last(dv) >= 1 /\ dv.from = cv.from /\ Final(dv) < Never
    BY <1>2, <1>5, <1>9, <1>13 DEF Same
  <2> HIDE DEF k, p
  <2> QED
    BY <2>1, <2>2, <2>3, <1>8, <1>9 DEF Periodic
<1>15. Stops(dv)
  <2>1. ASSUME NEW n \in DOMAIN r PROVE r[n].start < Never
    <3>1. CASE n = k
      BY <3>1, <1>2, <1>4, <1>7
    <3>2. CASE n \in 1..Last(cv)
      <4>1. r[n] = cv.cycles[n] /\ n \in DOMAIN cv.cycles
        BY <3>2, <1>2, <1>7
      <4>2. /\ cv.cycles[n].start < cv.cycles[n].end /\ cv.cycles[n].end <= Final(cv)
            /\ cv.cycles[n].start \in Nat /\ cv.cycles[n].end \in Nat
        BY <4>1, <1>2
      <4> QED
        BY <4>1, <4>2, <1>2, <1>5, SMTT(30)
    <3> QED
      BY <3>1, <3>2, <1>10
  <2>2. ~Terminal(dv) /\ dv.from <= dv.stop
    BY <1>1, <1>9 DEF Terminal, Same, Stops
  <2> QED
    BY <2>1, <2>2, <1>1, <1>8 DEF Stops, Outstanding
<1>16. AgedCover(cv, dv)
  BY <1>2, <1>7, <1>10, <1>8, <1>9, <1>13 DEF AgedCover, Same
<1>17. Last(dv) \in DOMAIN dv.cycles
  BY <1>8, <1>9, <1>10
<1> QED
  BY <1>9, <1>12, <1>14, <1>15, <1>16, <1>17 DEF SoundLine

LEMMA FirstSound ==
  ASSUME NEW v \in DOMAIN Terms, NEW from \in Nat, from + Terms[v].period < Never,
         NEW p \in Nat, NEW cv, cv = Cover(v, from, p)
  PROVE  /\ SoundLine(cv) /\ cv.stop = Never /\ cv.ended = Never /\ cv.from = from
         /\ cv.continues = p /\ Last(cv) = 1 /\ DOMAIN cv.cycles = {1}
<1> DEFINE e == Cycle(from, v)
           s == << e >>
           l == Terms[v].period
<1>1. l \in Nat /\ l > 0 /\ Never \in Nat
  BY TermsFacts
<1>2. /\ e = [start |-> from, end |-> from + l, paid |-> 0, at |-> Never, withdrawn |-> FALSE]
  BY DEF Cycle
<1>3. e \in PeriodType
  BY <1>1, <1>2 DEF PeriodType
<1>4. s \in Seq(PeriodType) /\ Len(s) = 1 /\ DOMAIN s = {1} /\ s[1] = e
  <2> HIDE DEF e
  <2> QED
    BY <1>3
<1>5. /\ cv = [policy |-> v, from |-> from, continues |-> p, cycles |-> s, stop |-> Never,
               ended |-> Never]
  BY DEF Cover
<1> HIDE DEF s, e
<1>6. cv \in CoverType
  BY <1>1, <1>4, <1>5 DEF CoverType
<1>7. Last(cv) = 1 /\ Final(cv) = from + l /\ Length(cv) = l
  <2>1. Last(cv) = 1 /\ cv.cycles[1] = e /\ cv.policy = v
    BY <1>4, <1>5 DEF Last
  <2> QED
    BY <2>1, <1>2 DEF Final, Length
<1>8. Periodic(cv)
  <2>1. 1 * l = l
    BY <1>1
  <2> HIDE DEF l
  <2> QED
    BY <1>1, <1>2, <1>4, <1>5, <1>7, <2>1 DEF Periodic, l
<1>9. Stops(cv)
  BY <1>1, <1>2, <1>4, <1>5 DEF Stops, Terminal, Outstanding
<1> QED
  BY <1>4, <1>5, <1>6, <1>7, <1>8, <1>9 DEF SoundLine

-----------------------------------------------------------------------------
(* The covers of the student: one replaced, one added. *)

LEMMA AgedOn ==
  ASSUME NEW cs, NEW ds, NEW es, Aged(cs, ds), Aged(ds, es),
         SoundCovers(cs, now), SoundCovers(ds, now), SoundCovers(es, now)
  PROVE  Aged(cs, es)
<1> SUFFICES ASSUME NEW c \in DOMAIN cs
             PROVE  c \in DOMAIN es /\ AgedCover(cs[c], es[c])
  BY DEF Aged
<1>1. c \in DOMAIN ds /\ c \in DOMAIN es /\ AgedCover(cs[c], ds[c]) /\ AgedCover(ds[c], es[c])
  BY DEF Aged
<1>2. Final(cs[c]) \in Nat /\ Final(ds[c]) \in Nat /\ Final(es[c]) \in Nat
  BY <1>1, PeriodFacts DEF SoundCovers, SoundCover, SoundLine
<1> QED
  BY <1>1, <1>2 DEF AgedCover

LEMMA AgedSelf ==
  ASSUME NEW cs, SoundCovers(cs, now)
  PROVE  Aged(cs, cs)
BY AgedItself DEF Aged, SoundCovers, SoundCover

LEMMA SoundShape ==
  ASSUME NEW cs, SoundCovers(cs, now)
  PROVE  ShapedCovers(cs) /\ Len(cs) \in Nat /\ DOMAIN cs = 1..Len(cs)
BY PeriodFacts, SequenceLength DEF SoundCovers, SoundCover, SoundLine, ShapedCovers

LEMMA OverKept ==
  ASSUME NEW cv, SoundLine(cv), NEW dv, SoundLine(dv), Settled(cv, dv),
         NEW from \in Nat, from < Never, Over(cv, from)
  PROVE  Over(dv, from)
<1>1. cv.ended \in Nat /\ dv.ended \in Nat /\ Never \in Nat
  BY PeriodFacts, TermsFacts DEF SoundLine
<1> QED
  BY <1>1 DEF Over, Settled, Terminal

LEMMA ReplaceSound ==
  ASSUME NEW cs, SoundCovers(cs, now), NEW c \in DOMAIN cs, NEW dv, SoundCover(dv, now),
         Settled(cs[c], dv),
         \A b \in DOMAIN cs : cs[b].continues = c => dv.ended \in {Never, cs[b].from},
         NEW ds, ds = [cs EXCEPT ![c] = dv]
  PROVE  SoundCovers(ds, now) /\ Aged(cs, ds) /\ DOMAIN ds = DOMAIN cs /\ Len(ds) = Len(cs)
<1>1. DOMAIN ds = DOMAIN cs /\ ds[c] = dv /\ \A b \in DOMAIN cs : b # c => ds[b] = cs[b]
  OBVIOUS
<1>2. ds = [b \in DOMAIN ds |-> ds[b]] /\ IsSequence(cs)
  BY DEF SoundCovers
<1>3. IsSequence(ds) /\ Len(ds) = Len(cs)
  BY <1>1, <1>2, Reshaped
<1>4. \A b \in DOMAIN cs : SoundCover(ds[b], now) /\ SoundCover(cs[b], now) /\ Settled(cs[b], ds[b])
  <2>1. \A b \in DOMAIN cs : SoundCover(cs[b], now)
    BY DEF SoundCovers
  <2>2. \A b \in DOMAIN cs : Settled(cs[b], cs[b])
    BY <2>1, AgedItself DEF SoundCover, Settled, Same
  <2> QED
    BY <1>1, <2>1, <2>2
<1>5. ASSUME NEW b \in DOMAIN ds, ds[b].continues # 0
      PROVE  Follows(ds, b, ds[b].continues)
  <2>1. Same(cs[b], ds[b]) /\ b \in DOMAIN cs
    BY <1>1, <1>4 DEF Settled
  <2> DEFINE p == cs[b].continues
  <2>2. ds[b].continues = p /\ p # 0 /\ Follows(cs, b, p) /\ ds[b].from = cs[b].from
    BY <2>1, <1>5 DEF Same, SoundCovers
  <2>3. /\ p \in DOMAIN cs /\ Terminal(cs[p]) /\ cs[p].stop = cs[b].from
        /\ cs[p].ended \in {Never, cs[b].from}
        /\ \A e \in DOMAIN cs : cs[e].continues = p => e = b
    BY <2>2 DEF Follows
  <2>4. ds[p].stop = cs[p].stop /\ Terminal(ds[p])
    BY <1>4, <2>3 DEF Settled, Terminal
  <2>5. ds[p].ended \in {Never, cs[b].from}
    BY <1>1, <2>1, <2>3
  <2>6. \A e \in DOMAIN ds : ds[e].continues = cs[e].continues
    BY <1>1, <1>4 DEF Settled, Same
  <2> QED
    BY <1>1, <2>2, <2>3, <2>4, <2>5, <2>6 DEF Follows
<1>6. ASSUME Grouped, NEW a \in DOMAIN ds, NEW b \in DOMAIN ds, a < b
      PROVE  Over(ds[a], ds[b].from)
  <2>1. a \in DOMAIN cs /\ b \in DOMAIN cs
    BY <1>1
  <2>2. Over(cs[a], cs[b].from)
    BY <1>6, <2>1 DEF SoundCovers
  <2>3. ds[b].from = cs[b].from
    BY <2>1, <1>4 DEF Settled, Same
  <2>4. cs[b].from \in Nat /\ cs[b].from < Never
    <3>1. cs[b] \in CoverType /\ Periodic(cs[b])
      BY <2>1, <1>4 DEF SoundCover, SoundLine
    <3>2. /\ Last(cs[b]) \in DOMAIN cs[b].cycles
          /\ cs[b].from \in Nat /\ Final(cs[b]) \in Nat /\ Final(cs[b]) < Never
          /\ \A n \in DOMAIN cs[b].cycles :
               /\ cs[b].cycles[n].start \in Nat /\ cs[b].cycles[n].end \in Nat
               /\ cs[b].from <= cs[b].cycles[n].start /\ cs[b].cycles[n].end <= Final(cs[b])
               /\ cs[b].cycles[n].start < cs[b].cycles[n].end
      BY <3>1, PeriodFacts
    <3>3. Never \in Nat
      BY TermsFacts
    <3>4. PICK n \in DOMAIN cs[b].cycles : TRUE
      BY <3>2
    <3> QED
      BY <3>2, <3>3, <3>4
  <2> QED
    BY <2>1, <2>2, <2>3, <2>4, <1>4, OverKept DEF SoundCover
<1>7. SoundCovers(ds, now)
  BY <1>1, <1>3, <1>4, <1>5, <1>6 DEF SoundCovers
<1>8. Aged(cs, ds)
  BY <1>1, <1>4 DEF Aged, Settled
<1> QED
  BY <1>1, <1>3, <1>7, <1>8

\* A new cover, or the continuation of one that has none.
Succeeds(cs, cv) ==
  LET p == cv.continues
  IN  p # 0 =>
        /\ p \in DOMAIN cs /\ Terminal(cs[p])
        /\ cs[p].stop = cv.from /\ cs[p].ended \in {Never, cv.from}
        /\ \A b \in DOMAIN cs : cs[b].continues # p

LEMMA AppendSound ==
  ASSUME NEW cs, SoundCovers(cs, now), NEW cv, SoundCover(cv, now), Succeeds(cs, cv),
         Grouped => \A c \in DOMAIN cs : Over(cs[c], cv.from),
         NEW ds, ds = Append(cs, cv)
  PROVE  /\ SoundCovers(ds, now) /\ Aged(cs, ds)
         /\ Len(ds) = Len(cs) + 1 /\ DOMAIN ds = 1..(Len(cs) + 1) /\ ds[Len(cs) + 1] = cv
         /\ \A b \in DOMAIN cs : b \in DOMAIN ds /\ ds[b] = cs[b]
<1> DEFINE z == Len(cs) + 1
<1>1. /\ IsSequence(ds) /\ Len(cs) \in Nat /\ DOMAIN cs = 1..Len(cs)
      /\ Len(ds) = z /\ DOMAIN ds = 1..z /\ ds[z] = cv
      /\ \A b \in 1..Len(cs) : ds[b] = cs[b]
  BY Appended DEF SoundCovers
<1>2. /\ \A b \in DOMAIN cs : b \in DOMAIN ds /\ ds[b] = cs[b] /\ b # z /\ b < z
      /\ \A b \in DOMAIN ds : b = z \/ b \in DOMAIN cs
      /\ z \in DOMAIN ds
  BY <1>1
<1>3. \A b \in DOMAIN ds : SoundCover(ds[b], now)
  BY <1>1, <1>2 DEF SoundCovers
<1>4. ASSUME NEW b \in DOMAIN ds, ds[b].continues # 0
      PROVE  Follows(ds, b, ds[b].continues)
  <2> DEFINE p == ds[b].continues
  <2>1. CASE b = z
    <3>1. /\ p \in DOMAIN cs /\ Terminal(cs[p])
          /\ cs[p].stop = cv.from /\ cs[p].ended \in {Never, cv.from}
          /\ \A e \in DOMAIN cs : cs[e].continues # p
      BY <2>1, <1>1, <1>4 DEF Succeeds
    <3> QED
      BY <2>1, <3>1, <1>1, <1>2 DEF Follows
  <2>2. CASE b \in DOMAIN cs
    <3>1. Follows(cs, b, p) /\ ds[b] = cs[b]
      BY <2>2, <1>2, <1>4 DEF SoundCovers
    <3>2. /\ p \in DOMAIN cs /\ Terminal(cs[p]) /\ cs[p].stop = cs[b].from
          /\ cs[p].ended \in {Never, cs[b].from}
          /\ \A e \in DOMAIN cs : cs[e].continues = p => e = b
      BY <3>1 DEF Follows
    <3>3. ds[z].continues # p
      BY <3>1, <2>2, <1>1, <1>4 DEF Succeeds
    <3> QED
      BY <3>1, <3>2, <3>3, <1>2 DEF Follows
  <2> QED
    BY <2>1, <2>2, <1>2
<1>5. ASSUME Grouped, NEW a \in DOMAIN ds, NEW b \in DOMAIN ds, a < b
      PROVE  Over(ds[a], ds[b].from)
  <2>1. a \in DOMAIN cs
    BY <1>1, <1>2, <1>5
  <2>2. CASE b = z
    BY <2>1, <2>2, <1>1, <1>2, <1>5
  <2>3. CASE b \in DOMAIN cs
    BY <2>1, <2>3, <1>2, <1>5 DEF SoundCovers
  <2> QED
    BY <2>2, <2>3, <1>2
<1>6. SoundCovers(ds, now)
  BY <1>1, <1>3, <1>4, <1>5 DEF SoundCovers
<1>7. Aged(cs, ds)
  BY <1>2, AgedItself DEF Aged, SoundCovers, SoundCover
<1> QED
  BY <1>1, <1>2, <1>6, <1>7

\* An end that is not written over suits the continuation, if there is one.
LEMMA EndSuits ==
  ASSUME NEW cs, SoundCovers(cs, now), NEW c \in DOMAIN cs
  PROVE  \A b \in DOMAIN cs :
           cs[b].continues = c =>
             /\ Terminal(cs[c]) /\ cs[c].stop = cs[b].from
             /\ cs[c].ended \in {Never, cs[b].from}
<1> SUFFICES ASSUME NEW b \in DOMAIN cs, cs[b].continues = c
             PROVE  Follows(cs, b, c)
  BY DEF Follows
<1>1. c # 0
  BY SoundShape
<1> QED
  BY <1>1 DEF SoundCovers

LEMMA SettleSound ==
  ASSUME NEW d, NEW cs, cs = d.covers, SoundCovers(cs, now), now \in Nat,
         NEW c \in DOMAIN cs, NEW n \in DOMAIN cs[c].cycles
  PROVE  /\ SoundCovers(Settle(d, c, n).covers, now) /\ Aged(cs, Settle(d, c, n).covers)
<1>1. ShapedCovers(cs) /\ SoundLine(cs[c]) /\ SoundEnd(cs[c], now)
  BY SoundShape DEF SoundCovers, SoundCover
<1>2. cs[c].cycles[n] \in PeriodType
  BY <1>1, PeriodFacts DEF SoundLine
<1>3. PICK dv : Settle(d, c, n).covers = [cs EXCEPT ![c] = dv] /\ Paid(cs[c], n, dv)
  BY <1>1, <1>2, SettleDoes
<1>4. /\ SoundLine(dv) /\ AgedCover(cs[c], dv) /\ Same(cs[c], dv)
      /\ dv.stop = cs[c].stop /\ dv.ended = cs[c].ended
  BY <1>1, <1>3, PaidSound
<1>5. SoundCover(dv, now) /\ Settled(cs[c], dv)
  BY <1>1, <1>4 DEF SoundCover, SoundEnd, Terminal, Settled
<1>6. \A b \in DOMAIN cs : cs[b].continues = c => dv.ended \in {Never, cs[b].from}
  BY <1>4, EndSuits
<1> DEFINE ds == Settle(d, c, n).covers
<1>7. ds = [cs EXCEPT ![c] = dv]
  BY <1>3
<1> HIDE DEF ds
<1>8. SoundCovers(ds, now) /\ Aged(cs, ds)
  BY <1>5, <1>6, <1>7, ReplaceSound
<1> QED
  BY <1>8 DEF ds

LEMMA AutopaySound ==
  ASSUME NEW d, NEW cs, cs = d.covers, SoundCovers(cs, now), now \in Nat,
         NEW c \in DOMAIN cs
  PROVE  SoundCovers(Autopay(d, c).covers, now) /\ Aged(cs, Autopay(d, c).covers)
<1>1. Last(cs[c]) \in DOMAIN cs[c].cycles
  BY PeriodFacts DEF SoundCovers, SoundCover, SoundLine
<1> QED
  BY <1>1, SettleSound, AgedSelf DEF Autopay

-----------------------------------------------------------------------------
(* What the steps do to the invariant. *)

PeriodStep == CoverInv /\ PeriodInv /\ CoverInv' /\ Kept(covers, covers')

LEMMA ViewSound ==
  ASSUME CoverInv, PeriodInv
  PROVE  SoundCovers(View.covers, now) /\ Aged(covers, View.covers)
<1>1. CASE run.wrote
  BY <1>1 DEF PeriodInv, RenewalSound, View
<1>2. CASE ~run.wrote
  <2>1. View.covers = covers
    BY <1>2 DEF View, Committed
  <2> QED
    BY <2>1, AgedSelf DEF PeriodInv
<1> QED
  BY <1>1, <1>2

LEMMA LaterSound ==
  ASSUME NEW cs, NEW t \in Nat, NEW u \in Nat, t <= u, SoundCovers(cs, t)
  PROVE  SoundCovers(cs, u)
<1>1. \A c \in DOMAIN cs : SoundCover(cs[c], t) => SoundCover(cs[c], u)
  <2> SUFFICES ASSUME NEW c \in DOMAIN cs, SoundCover(cs[c], t) PROVE SoundCover(cs[c], u)
    OBVIOUS
  <2>1. cs[c].ended \in Nat
    BY PeriodFacts DEF SoundCover, SoundLine
  <2> QED
    BY <2>1 DEF SoundCover, SoundEnd
<1> QED
  BY <1>1 DEF SoundCovers

\* Nothing but the clock, the money and the claims has moved.
LEMMA QuietKeeps ==
  ASSUME CoverInv, PeriodInv, UNCHANGED <<versions, covers, run, cancelling>>,
         now' \in {now, now + 1}, now' <= MaxTime
  PROVE  PeriodInv'
<1>1. now \in Nat /\ now' \in Nat /\ now <= now'
  BY DEF PeriodInv
<1>2. SoundCovers(covers', now')
  BY <1>1, LaterSound DEF PeriodInv
<1>3. /\ run.wrote => SoundCovers(run.draft.covers, now')
      /\ run.pc # "idle" => run.ref \in Nat /\ run.ref <= now'
  BY <1>1, LaterSound DEF PeriodInv, RenewalSound
<1>4. View'.covers = View.covers /\ run' = run
  BY DEF View, Committed
<1>5. Acting => Acting'
  BY <1>4 DEF Acting, Mine
<1>6. RenewalSound'
  BY <1>3, <1>4, <1>5 DEF PeriodInv, RenewalSound
<1>7. CancellationSound' /\ VersionsSound'
  BY DEF PeriodInv, CancellationSound, VersionsSound, LineageMoved, Newest
<1> QED
  BY <1>1, <1>2, <1>6, <1>7 DEF PeriodInv

\* A cancellation in flight is not misled by what others commit.
LEMMA CancellationKept ==
  ASSUME CoverInv, PeriodInv, Kept(covers, covers'), Aged(covers, covers'),
         SoundCovers(covers', now), cancelling' = cancelling
  PROVE  CancellationSound'
<1> SUFFICES ASSUME cancelling # Idle PROVE CancellationSound'
  BY DEF CancellationSound
<1> DEFINE c == cancelling.cover
           cv == covers[c]
           dv == covers'[c]
           i == cancelling.instant
<1>1. /\ c \in DOMAIN covers /\ cancelling.rows \in Int /\ cancelling.rows <= Last(cv)
  BY DEF CoverInv, CancelInv, Covers
<1>2. /\ c \in DOMAIN covers' /\ AgedCover(cv, dv) /\ Grown(cv, dv)
  BY <1>1 DEF Kept, Aged
<1>3. /\ SoundLine(cv) /\ SoundLine(dv)
  BY <1>1, <1>2 DEF PeriodInv, SoundCovers, SoundCover
<1>4. /\ cancelling.pc \in {"withdraw", "commit"} /\ i \in Nat
      /\ cv.from <= i /\ i <= Final(cv)
      /\ cancelling.pc = "commit" /\ ~LineageMoved => Untouched(cv, i) \subseteq cancelling.todo
  BY DEF PeriodInv, CancellationSound
<1>5. /\ Last(cv) \in Nat /\ Last(dv) \in Nat /\ Final(cv) \in Nat /\ Final(dv) \in Nat
      /\ DOMAIN cv.cycles = 1..Last(cv) /\ DOMAIN dv.cycles = 1..Last(dv)
  BY <1>3, PeriodFacts DEF SoundLine
<1>6. dv.from = cv.from /\ Final(cv) <= Final(dv) /\ Last(cv) <= Last(dv)
  BY <1>2 DEF AgedCover, Grown
<1>7. dv.from <= i /\ i <= Final(dv)
  BY <1>4, <1>5, <1>6
<1>8. ASSUME cancelling.pc = "commit", Rows(dv) = cancelling.rows
      PROVE  Untouched(dv, i) \subseteq cancelling.todo
  <2>1. Last(dv) = Last(cv) /\ ~Terminal(dv) /\ Rows(dv) = Last(dv)
    <3> HIDE DEF cv, dv
    <3> QED
      BY <1>1, <1>5, <1>6, <1>8 DEF Rows
  <2>2. ~Terminal(cv)
    BY <1>2, <2>1 DEF Grown, Terminal
  <2>3. Rows(cv) = cancelling.rows
    <3> HIDE DEF cv, dv
    <3> QED
      BY <2>1, <2>2, <1>5, <1>8 DEF Rows
  <2>4. ~LineageMoved
    BY <2>3 DEF LineageMoved
  <2>5. \A n \in Untouched(dv, i) : n \in Untouched(cv, i)
    BY <1>2, <1>5, <2>1 DEF Untouched, AgedCover
  <2> QED
    BY <1>4, <1>8, <2>4, <2>5
<1>9. LineageMoved' <=> Rows(dv) # cancelling.rows
  BY DEF LineageMoved
<1> HIDE DEF c, cv, dv, i
<1> QED
  BY <1>4, <1>7, <1>8, <1>9 DEF CancellationSound, c, dv, i

\* A step of another than the renewal, which waits for the seat.
LEMMA CommitKeeps ==
  ASSUME PeriodStep, SeatFree, run' = run, UNCHANGED <<now, versions, cancelling>>,
         SoundCovers(covers', now), Aged(covers, covers')
  PROVE  PeriodInv'
<1>1. run.pc # "act" /\ ~run.wrote
  BY DEF PeriodStep, SeatFree, CoverInv, RunInv
<1>2. CancellationSound'
  BY CancellationKept DEF PeriodStep
<1>3. RenewalSound'
  BY <1>1 DEF PeriodStep, PeriodInv, RenewalSound
<1> QED
  BY <1>2, <1>3 DEF PeriodStep, PeriodInv, VersionsSound, Newest

\* A turn of the renewal that writes.
LEMMA DraftKeeps ==
  ASSUME CoverInv, PeriodInv, run.pc # "idle", NEW pc \in {"read", "commit"}, NEW c, NEW d,
         Write(pc, c, d), SoundCovers(d.covers, now), Aged(View.covers, d.covers),
         UNCHANGED <<now, versions, covers, cancelling>>
  PROVE  PeriodInv'
<1>1. run' = [pc |-> pc, cover |-> c, ref |-> run.ref, saw |-> "", wrote |-> TRUE, draft |-> d]
  BY DEF Write, CoverInv, RunInv
<1>2. Aged(covers, d.covers)
  BY ViewSound, AgedOn DEF PeriodInv
<1>3. RenewalSound'
  BY <1>1, <1>2 DEF PeriodInv, RenewalSound
<1> QED
  BY <1>3 DEF PeriodInv, CancellationSound, VersionsSound, LineageMoved, Newest

-----------------------------------------------------------------------------
(* One lemma per operation. *)

LEMMA PurchaseSound ==
  ASSUME PeriodStep, NEW v \in DOMAIN versions, execute_purchase_insurance(v)
  PROVE  PeriodInv'
<1> DEFINE first == Cover(v, now, 0)
           cs == Append(covers, first)
           d == [covers |-> cs, funds |-> funds]
           z == Len(covers) + 1
<1>1. /\ SeatFree /\ run' = run /\ UNCHANGED <<now, versions, cancelling>> /\ ~Excluded(v)
      /\ covers' = Settle(d, z, 1).covers /\ cs = d.covers
  BY DEF execute_purchase_insurance
<1>2. /\ now \in Nat /\ now <= MaxTime /\ SoundCovers(covers, now) /\ VersionsSound
  BY DEF PeriodStep, PeriodInv
<1>3. v \in DOMAIN Terms
  BY <1>2, SequenceLength, TermsFacts DEF VersionsSound, Newest
<1>4. now + Terms[v].period < Never
  BY <1>2, <1>3, TermsFacts
<1>5. /\ SoundLine(first) /\ first.ended = Never /\ first.from = now /\ first.continues = 0
      /\ DOMAIN first.cycles = {1}
  <2> HIDE DEF first
  <2> QED
    BY <1>2, <1>3, <1>4, FirstSound DEF first
<1> HIDE DEF first
<1>6. SoundCover(first, now) /\ Succeeds(covers, first)
  BY <1>5 DEF SoundCover, SoundEnd, Succeeds
<1>7. ASSUME Grouped, NEW c \in DOMAIN covers PROVE Over(covers[c], first.from)
  <2>1. covers[c].ended # Never
    BY <1>1, <1>7 DEF Excluded, Active, Covers
  <2>2. SoundEnd(covers[c], now)
    BY <1>2 DEF SoundCovers, SoundCover
  <2> QED
    BY <2>1, <2>2, <1>5 DEF SoundEnd, Over
<1>8. /\ SoundCovers(cs, now) /\ Aged(covers, cs) /\ z \in DOMAIN cs /\ cs[z] = first
  <2>1. Len(covers) \in Nat
    BY <1>2, SoundShape
  <2>2. SoundCovers(cs, now) /\ Aged(covers, cs) /\ DOMAIN cs = 1..z /\ cs[z] = first
    <3> HIDE DEF cs
    <3> QED
      BY <1>2, <1>6, <1>7, AppendSound DEF cs
  <2> QED
    BY <2>1, <2>2
<1>9. 1 \in DOMAIN cs[z].cycles
  BY <1>5, <1>8
<1> HIDE DEF cs, d, z
<1>10. SoundCovers(covers', now) /\ Aged(cs, covers')
  BY <1>1, <1>2, <1>8, <1>9, SettleSound
<1>11. Aged(covers, covers')
  BY <1>2, <1>8, <1>10, AgedOn
<1> QED
  BY <1>1, <1>10, <1>11, CommitKeeps

LEMMA PaymentSound ==
  ASSUME PeriodStep, NEW c \in Covers, execute_insurance_premium_payment(c)
  PROVE  PeriodInv'
<1> DEFINE n == Min(Outstanding(covers[c]))
<1>1. /\ SeatFree /\ run' = run /\ UNCHANGED <<now, versions, cancelling>>
      /\ Outstanding(covers[c]) # {}
      /\ covers' = Settle(Committed, c, n).covers /\ Committed.covers = covers
  BY DEF execute_insurance_premium_payment, Committed
<1>2. now \in Nat /\ SoundCovers(covers, now) /\ c \in DOMAIN covers
  BY DEF PeriodStep, PeriodInv, Covers
<1>3. DOMAIN covers[c].cycles \subseteq Nat
  BY <1>2, PeriodFacts DEF SoundCovers, SoundCover, SoundLine
<1>4. Outstanding(covers[c]) \in SUBSET Nat
      /\ Outstanding(covers[c]) \subseteq DOMAIN covers[c].cycles
  BY <1>3 DEF Outstanding
<1>5. n \in DOMAIN covers[c].cycles
  BY <1>1, <1>4, MinIn
<1> HIDE DEF n
<1>6. SoundCovers(covers', now) /\ Aged(covers, covers')
  BY <1>1, <1>2, <1>5, SettleSound
<1> QED
  BY <1>1, <1>6, CommitKeeps

\* A cover marked as expired.
LEMMA EndedSound ==
  ASSUME NEW cv, SoundLine(cv), NEW e \in Nat, NEW dv, dv = [cv EXCEPT !.ended = e]
  PROVE  /\ SoundLine(dv) /\ Same(cv, dv) /\ AgedCover(cv, dv)
         /\ dv.stop = cv.stop /\ dv.ended = e /\ Final(dv) = Final(cv)
<1>1. cv \in CoverType /\ Periodic(cv) /\ Stops(cv) /\ cv.ended \in Nat
  BY PeriodFacts DEF SoundLine
<1>2. /\ dv \in CoverType /\ Same(cv, dv) /\ dv.cycles = cv.cycles
      /\ dv.stop = cv.stop /\ dv.ended = e
  BY <1>1 DEF CoverType, Same
<1>3. Last(dv) = Last(cv) /\ Final(dv) = Final(cv) /\ Length(dv) = Length(cv)
  BY <1>2 DEF Last, Final, Length, Same
<1>4. Periodic(dv) /\ Stops(dv)
  BY <1>1, <1>2, <1>3 DEF Periodic, Stops, Terminal, Outstanding, Same
<1>5. AgedCover(cv, dv)
  BY <1>2, <1>3, AgedItself DEF AgedCover, Same
<1> QED
  BY <1>2, <1>3, <1>4, <1>5 DEF SoundLine

LEMMA ExpirySound ==
  ASSUME PeriodStep, NEW c \in Covers, run_insurance_expiry_job(c)
  PROVE  PeriodInv'
<1> DEFINE dv == [covers[c] EXCEPT !.ended = Boundary(c)]
<1>1. /\ SeatFree /\ run' = run /\ UNCHANGED <<now, versions, cancelling>>
      /\ covers[c].stop <= now /\ covers[c].ended = Never
      /\ covers' = [covers EXCEPT ![c].ended = Boundary(c)]
  BY DEF run_insurance_expiry_job, Reached, Active
<1>2. /\ now \in Nat /\ now <= MaxTime /\ SoundCovers(covers, now) /\ c \in DOMAIN covers
  BY DEF PeriodStep, PeriodInv, Covers
<1>3. SoundLine(covers[c]) /\ covers[c].stop \in Nat /\ Boundary(c) = covers[c].stop
  BY <1>2, PeriodFacts DEF SoundCovers, SoundCover, SoundLine, Boundary
<1>4. covers' = [covers EXCEPT ![c] = dv]
  BY <1>1
<1>5. /\ SoundLine(dv) /\ Same(covers[c], dv) /\ AgedCover(covers[c], dv)
      /\ dv.stop = covers[c].stop /\ dv.ended = covers[c].stop
  <2> HIDE DEF dv
  <2> QED
    BY <1>3, EndedSound DEF dv
<1> HIDE DEF dv
<1>6. Terminal(dv) /\ SoundCover(dv, now) /\ Settled(covers[c], dv)
  <2>1. Terminal(dv)
    BY <1>1, <1>2, <1>3, <1>5, TermsFacts DEF Terminal
  <2> QED
    BY <2>1, <1>1, <1>5 DEF SoundCover, SoundEnd, Settled
<1>7. \A b \in DOMAIN covers : covers[b].continues = c => dv.ended \in {Never, covers[b].from}
  BY <1>2, <1>5, EndSuits
<1>8. SoundCovers(covers', now) /\ Aged(covers, covers')
  BY <1>2, <1>4, <1>6, <1>7, ReplaceSound
<1> QED
  BY <1>1, <1>8, CommitKeeps

LEMMA RenewBeginSound ==
  ASSUME PeriodStep, NEW c \in Covers, RenewBegin(c)
  PROVE  PeriodInv'
<1>1. /\ run' = [pc |-> "lock", cover |-> c, ref |-> now, saw |-> "", wrote |-> FALSE,
                 draft |-> <<>>]
      /\ UNCHANGED <<now, versions, covers, cancelling>>
  BY DEF RenewBegin, onlyRun
<1>2. RenewalSound'
  <2>1. run'.pc = "lock" /\ run'.ref = now /\ ~run'.wrote /\ now' = now /\ now \in Nat
    BY <1>1 DEF PeriodStep, PeriodInv
  <2>2. now <= now
    BY <2>1
  <2> QED
    BY <2>1, <2>2 DEF RenewalSound
<1> QED
  BY <1>1, <1>2
     DEF PeriodStep, PeriodInv, CancellationSound, VersionsSound, LineageMoved, Newest

LEMMA CancelReadSound ==
  ASSUME PeriodStep, NEW c \in Covers, CancelRead(c)
  PROVE  PeriodInv'
<1> DEFINE i == StopInstant(covers[c], now)
<1>1. /\ cancelling' = [pc |-> "withdraw", cover |-> c, rows |-> Rows(covers[c]),
                        instant |-> i, todo |-> {}]
      /\ UNCHANGED <<now, versions, covers, run, funds>>
  BY DEF CancelRead, onlyCancel
<1>2. c \in DOMAIN covers /\ covers[c] \in CoverType /\ Periodic(covers[c])
  BY DEF PeriodStep, PeriodInv, SoundCovers, SoundCover, SoundLine, Covers
<1>3. i \in Nat /\ covers[c].from <= i /\ i <= Final(covers[c])
  BY <1>2, StopBounds
<1> HIDE DEF i
<1>4. CancellationSound'
  BY <1>1, <1>3 DEF CancellationSound
<1>5. RenewalSound'
  <2>1. View' = View
    BY <1>1 DEF View, Committed
  <2> QED
    BY <1>1, <2>1 DEF PeriodStep, PeriodInv, RenewalSound, Acting, Mine
<1> QED
  BY <1>1, <1>4, <1>5 DEF PeriodStep, PeriodInv, VersionsSound, Newest

LEMMA CancelWithdrawSound ==
  ASSUME PeriodStep, CancelWithdraw
  PROVE  PeriodInv'
<1> DEFINE c == cancelling.cover
           todo == Untouched(covers[c], cancelling.instant)
<1>1. /\ UNCHANGED <<now, versions, covers, run, funds>>
      /\ cancelling.pc = "withdraw" /\ cancelling # Idle
      /\ \/ cancelling' = Idle
         \/ cancelling' = [cancelling EXCEPT !.pc = "commit", !.todo = todo]
  BY DEF CancelWithdraw, onlyCancel, Idle
<1>2. CASE cancelling' = Idle
  <2>1. RenewalSound'
    <3>1. View' = View
      BY <1>1 DEF View, Committed
    <3> QED
      BY <1>1, <3>1 DEF PeriodStep, PeriodInv, RenewalSound, Acting, Mine
  <2> QED
    BY <1>1, <1>2, <2>1 DEF PeriodStep, PeriodInv, VersionsSound, Newest, CancellationSound
<1>3. CASE cancelling' = [cancelling EXCEPT !.pc = "commit", !.todo = todo]
  <2>1. RenewalSound'
    <3>1. View' = View
      BY <1>1 DEF View, Committed
    <3> QED
      BY <1>1, <3>1 DEF PeriodStep, PeriodInv, RenewalSound, Acting, Mine
  <2>2. /\ cancelling'.cover = c /\ cancelling'.instant = cancelling.instant
        /\ cancelling'.pc = "commit" \/ cancelling'.pc = "withdraw"
        /\ cancelling'.todo = todo \/ cancelling'.pc = "withdraw"
    <3>1. DOMAIN cancelling' = DOMAIN cancelling
      BY <1>3
    <3> QED
      BY <1>1, <1>3
  <2>3. CancellationSound'
    BY <1>1, <2>2 DEF PeriodStep, PeriodInv, CancellationSound
  <2> QED
    BY <1>1, <2>1, <2>3 DEF PeriodStep, PeriodInv, VersionsSound, Newest
<1> QED
  BY <1>1, <1>2, <1>3

\* The unique number of the terminal row: what is committed stops a lineage that
\* nobody has touched, and withdraws all that nobody has paid.
LEMMA CancelCommitSound ==
  ASSUME PeriodStep, CancelCommit
  PROVE  PeriodInv'
<1> DEFINE c == cancelling.cover
           dv == [Withdraw(covers[c], cancelling.todo) EXCEPT !.stop = cancelling.instant]
<1>1. /\ UNCHANGED <<now, versions, run, funds>> /\ cancelling' = Idle
      /\ cancelling.pc = "commit" /\ cancelling # Idle /\ ~run.wrote
      /\ covers' = IF LineageMoved THEN covers ELSE [covers EXCEPT ![c] =
                     [Withdraw(@, cancelling.todo) EXCEPT !.stop = cancelling.instant]]
  BY DEF CancelCommit, Idle, MayInsert, SeatFree, PeriodStep, CoverInv, RunInv
<1>2. /\ now \in Nat /\ SoundCovers(covers, now) /\ CancellationSound /\ RenewalSound
      /\ VersionsSound /\ c \in DOMAIN covers
      /\ cancelling.rows \in Int /\ cancelling.rows <= Last(covers[c])
  BY <1>1 DEF PeriodStep, PeriodInv, CoverInv, CancelInv, Covers
<1>3. View'.covers = covers' /\ View.covers = covers /\ View' = [covers |-> covers', funds |-> funds']
  BY <1>1 DEF View, Committed
<1>4. CancellationSound'
  BY <1>1 DEF CancellationSound
<1>5. CASE LineageMoved
  <2>1. covers' = covers
    BY <1>1, <1>5
  <2>2. RenewalSound'
    BY <1>1, <1>2, <1>3, <2>1 DEF RenewalSound, Acting, Mine
  <2> QED
    BY <1>1, <1>4, <2>1, <2>2 DEF PeriodStep, PeriodInv, VersionsSound, Newest
<1>6. CASE ~LineageMoved
  <2>1. covers' = [covers EXCEPT ![c] = dv]
    BY <1>1, <1>2, <1>6
  <2>2. SoundLine(covers[c]) /\ SoundEnd(covers[c], now)
    BY <1>2 DEF SoundCovers, SoundCover
  <2>3. /\ Last(covers[c]) \in Nat /\ covers[c].ended \in Nat /\ Final(covers[c]) \in Nat
        /\ Final(covers[c]) < Never
    BY <2>2, PeriodFacts DEF SoundLine
  <2>4. ~Terminal(covers[c])
    <3>1. Rows(covers[c]) = cancelling.rows
      BY <1>6 DEF LineageMoved
    <3> QED
      BY <3>1, <1>2, <2>3 DEF Rows
  <2>5. /\ cancelling.instant \in Nat
        /\ covers[c].from <= cancelling.instant /\ cancelling.instant <= Final(covers[c])
        /\ Untouched(covers[c], cancelling.instant) \subseteq cancelling.todo
    BY <1>1, <1>2, <1>6 DEF CancellationSound
  <2>6. Halted(covers[c], cancelling.todo, cancelling.instant, dv) /\ dv.ended = covers[c].ended
    BY <2>2, WithdrawHalts
  <2>7. cancelling.instant # Never
    BY <2>3, <2>5, TermsFacts
  <2> HIDE DEF dv
  <2>8. /\ SoundLine(dv) /\ AgedCover(covers[c], dv) /\ Same(covers[c], dv)
        /\ dv.stop = cancelling.instant /\ Final(dv) = Final(covers[c])
    BY <2>2, <2>3, <2>5, <2>6, HaltedSound
  <2>9. SoundCover(dv, now) /\ Settled(covers[c], dv)
    BY <2>2, <2>4, <2>6, <2>7, <2>8 DEF SoundCover, SoundEnd, Terminal, Settled
  <2>10. \A b \in DOMAIN covers : covers[b].continues = c => dv.ended \in {Never, covers[b].from}
    BY <1>2, <2>6, EndSuits
  <2>11. /\ SoundCovers(covers', now) /\ Aged(covers, covers')
         /\ DOMAIN covers' = DOMAIN covers /\ Len(covers') = Len(covers)
    <3> HIDE DEF c
    <3> QED
      BY <1>2, <2>1, <2>9, <2>10, ReplaceSound
  <2>12. ASSUME Acting, run.pc # "idle" PROVE Acting'
    <3> DEFINE r == run.cover
    <3>1. /\ covers[r].ended = Never /\ (\A b \in DOMAIN covers : covers[b].continues # r)
          /\ Grouped => r = Len(covers)
          /\ run.saw = "due" => Due(covers[r], run.ref)
      BY <1>3, <2>12 DEF Acting, Mine
    <3>2. r \in DOMAIN covers
      BY <1>3, <2>12 DEF PeriodStep, CoverInv, RunInv
    <3>3. \A b \in DOMAIN covers :
            /\ covers'[b].ended = covers[b].ended /\ covers'[b].continues = covers[b].continues
            /\ covers'[b].policy = covers[b].policy /\ Final(covers'[b]) = Final(covers[b])
      BY <2>1, <2>6, <2>8 DEF Same
    <3>4. Due(covers[r], run.ref) => Due(covers'[r], run.ref)
      BY <3>2, <3>3 DEF Due, Final
    <3>5. /\ covers'[r].ended = Never /\ (\A b \in DOMAIN covers' : covers'[b].continues # r)
          /\ Grouped => r = Len(covers')
          /\ run.saw = "due" => Due(covers'[r], run.ref)
      BY <2>11, <3>1, <3>2, <3>3, <3>4
    <3>6. Mine' = covers'[r] /\ run' = run
      BY <1>1, <1>3 DEF Mine
    <3> HIDE DEF r
    <3> QED
      BY <1>3, <3>5, <3>6 DEF Acting, r
  <2>13. RenewalSound'
    BY <1>1, <1>2, <2>12 DEF RenewalSound
  <2> QED
    BY <1>1, <1>4, <2>11, <2>13 DEF PeriodStep, PeriodInv, VersionsSound, Newest
<1> QED
  BY <1>5, <1>6

\* What a turn of the loop relies on.
LEMMA TurnFacts ==
  ASSUME CoverInv, PeriodInv, run.pc # "idle"
  PROVE  /\ now \in Nat /\ now <= MaxTime /\ run.ref \in Nat /\ run.ref <= now
         /\ run.ref <= MaxTime
         /\ SoundCovers(View.covers, now) /\ run.cover \in DOMAIN View.covers
         /\ SoundCover(Mine, now) /\ SoundLine(Mine) /\ Mine = View.covers[run.cover]
         /\ View = [covers |-> View.covers, funds |-> View.funds]
<1>1. /\ now \in Nat /\ now <= MaxTime /\ run.ref \in Nat /\ run.ref <= now /\ MaxTime \in Nat
  BY TermsFacts DEF PeriodInv, RenewalSound
<1>2. run.ref <= MaxTime
  BY <1>1
<1>3. SoundCovers(View.covers, now) /\ run.cover \in DOMAIN View.covers
      /\ View = [covers |-> View.covers, funds |-> View.funds]
  BY ViewSound, ViewKeeps
<1>4. SoundCover(Mine, now) /\ Mine = View.covers[run.cover]
  BY <1>3 DEF SoundCovers, Mine
<1> QED
  BY <1>1, <1>2, <1>3, <1>4 DEF SoundCover

\* A lineage that has not stopped is the last of its group, is continued by none
\* and has not expired.
LEMMA OpenEnded ==
  ASSUME NEW cs, SoundCovers(cs, now), NEW c \in DOMAIN cs, ~Terminal(cs[c])
  PROVE  /\ cs[c].ended = Never
         /\ \A b \in DOMAIN cs : cs[b].continues # c
         /\ Grouped => c = Len(cs)
<1>1. cs[c].ended = Never
  BY DEF SoundCovers, SoundCover, SoundEnd
<1>2. \A b \in DOMAIN cs : cs[b].continues # c
  BY EndSuits
<1>3. ASSUME Grouped, c # Len(cs) PROVE FALSE
  <2>1. Len(cs) \in Nat /\ DOMAIN cs = 1..Len(cs)
    BY SoundShape
  <2>2. Len(cs) \in DOMAIN cs /\ c < Len(cs)
    BY <2>1, <1>3
  <2>3. Over(cs[c], cs[Len(cs)].from)
    BY <1>3, <2>2 DEF SoundCovers
  <2> QED
    BY <2>3 DEF Over
<1> QED
  BY <1>1, <1>2, <1>3

LEMMA RenewReadSound ==
  ASSUME PeriodStep, RenewRead
  PROVE  PeriodInv'
<1> DEFINE saw == Eligibility(Mine, run.ref)
<1>1. /\ UNCHANGED <<now, versions, covers, cancelling, funds>> /\ run.pc # "idle"
      /\ IF saw = "terminal" THEN Release("commit")
         ELSE run' = [run EXCEPT !.pc = "act", !.saw = saw]
  BY DEF RenewRead, onlyRun
<1>2. /\ run = [pc |-> run.pc, cover |-> run.cover, ref |-> run.ref, saw |-> run.saw,
                wrote |-> run.wrote, draft |-> run.draft]
      /\ run.wrote \in BOOLEAN
  BY <1>1 DEF PeriodStep, CoverInv, RunInv
<1>3. RenewalSound'
  <2>1. CASE saw = "terminal"
    <3>1. CASE run.wrote
      <4>1. run' = [pc |-> "commit", cover |-> run.cover, ref |-> run.ref, saw |-> run.saw,
                    wrote |-> run.wrote, draft |-> run.draft]
        BY <1>1, <1>2, <2>1, <3>1 DEF Release
      <4> QED
        BY <4>1, <1>1 DEF PeriodStep, PeriodInv, RenewalSound
    <3>2. CASE ~run.wrote
      <4>1. run' = NoRun
        BY <1>1, <2>1, <3>2 DEF Release
      <4> QED
        BY <4>1 DEF RenewalSound, NoRun
    <3> QED
      BY <3>1, <3>2
  <2>2. CASE saw # "terminal"
    <3>1. run' = [pc |-> "act", cover |-> run.cover, ref |-> run.ref, saw |-> saw,
                  wrote |-> run.wrote, draft |-> run.draft]
      BY <1>1, <1>2, <2>2
    <3>2. ~Terminal(Mine) /\ (saw = "due" => Due(Mine, run.ref))
      BY <2>2 DEF Eligibility
    <3> HIDE DEF saw
    <3>3. /\ Mine.ended = Never
          /\ \A b \in DOMAIN View.covers : View.covers[b].continues # run.cover
          /\ Grouped => run.cover = Len(View.covers)
      BY <1>1, <3>2, TurnFacts, OpenEnded DEF PeriodStep
    <3>4. View'.covers = View.covers
      BY <1>1, <3>1 DEF View, Committed
    <3>5. Acting'
      BY <3>1, <3>2, <3>3, <3>4 DEF Acting, Mine
    <3> QED
      BY <1>1, <3>1, <3>5 DEF PeriodStep, PeriodInv, RenewalSound
  <2> QED
    BY <2>1, <2>2
<1> QED
  BY <1>1, <1>3 DEF PeriodStep, PeriodInv, CancellationSound, VersionsSound, LineageMoved, Newest

LEMMA RenewTurnSound ==
  ASSUME PeriodStep, RenewLock \/ NotDue \/ RenewRefused \/ RenewAbort
  PROVE  PeriodInv'
<1>1. /\ UNCHANGED <<now, versions, covers, cancelling>>
      /\ \/ run' = NoRun
         \/ run.pc # "idle" /\ run' = [run EXCEPT !.pc = "read"]
         \/ run.pc # "idle" /\ run' = [run EXCEPT !.pc = "commit"]
  BY DEF RenewLock, NotDue, RenewRefused, RenewAbort, Release, Renewing, onlyRun
<1>2. RenewalSound'
  <2>1. CASE run' = NoRun
    BY <2>1 DEF RenewalSound, NoRun
  <2>2. CASE run.pc # "idle" /\ run' # NoRun
    <3>1. run = [pc |-> run.pc, cover |-> run.cover, ref |-> run.ref, saw |-> run.saw,
                 wrote |-> run.wrote, draft |-> run.draft]
      BY <2>2 DEF PeriodStep, CoverInv, RunInv
    <3>2. run' = [pc |-> run'.pc, cover |-> run.cover, ref |-> run.ref, saw |-> run.saw,
                  wrote |-> run.wrote, draft |-> run.draft]
          /\ run'.pc # "act"
      BY <1>1, <2>2, <3>1
    <3> QED
      BY <1>1, <2>2, <3>2 DEF PeriodStep, PeriodInv, RenewalSound
  <2> QED
    BY <1>1, <2>1, <2>2
<1> QED
  BY <1>1, <1>2 DEF PeriodStep, PeriodInv, CancellationSound, VersionsSound, LineageMoved, Newest

LEMMA RenewCommitSound ==
  ASSUME PeriodStep, RenewCommit
  PROVE  PeriodInv'
<1>1. /\ UNCHANGED <<now, versions, cancelling>> /\ run.wrote /\ run' = NoRun
      /\ covers' = run.draft.covers
  BY DEF RenewCommit, PeriodStep, CoverInv, RunInv
<1>2. SoundCovers(covers', now) /\ Aged(covers, covers')
  BY <1>1 DEF PeriodStep, PeriodInv, RenewalSound
<1>3. CancellationSound'
  BY <1>1, <1>2, CancellationKept DEF PeriodStep
<1>4. RenewalSound'
  BY <1>1 DEF RenewalSound, NoRun
<1> QED
  BY <1>1, <1>2, <1>3, <1>4 DEF PeriodStep, PeriodInv, VersionsSound, Newest

\* The renewal writes over the cover it is at.
LEMMA TurnReplaces ==
  ASSUME CoverInv, PeriodInv, run.pc = "act", NEW cv, SoundCover(cv, now), Settled(Mine, cv),
         NEW ds, ds = [View.covers EXCEPT ![run.cover] = cv]
  PROVE  /\ SoundCovers(ds, now) /\ Aged(View.covers, ds)
         /\ DOMAIN ds = DOMAIN View.covers /\ Len(ds) = Len(View.covers)
         /\ ds[run.cover] = cv
         /\ \A b \in DOMAIN ds : b # run.cover => ds[b] = View.covers[b]
<1> DEFINE cs == View.covers
           c == run.cover
<1>1. SoundCovers(cs, now) /\ c \in DOMAIN cs /\ Settled(cs[c], cv) /\ Acting
  BY TurnFacts DEF PeriodInv, RenewalSound
<1>2. \A b \in DOMAIN cs : cs[b].continues = c => cv.ended \in {Never, cs[b].from}
  BY <1>1 DEF Acting
<1>3. ds = [cs EXCEPT ![c] = cv]
  OBVIOUS
<1> HIDE DEF cs, c
<1>4. SoundCovers(ds, now) /\ Aged(cs, ds) /\ DOMAIN ds = DOMAIN cs /\ Len(ds) = Len(cs)
  BY <1>1, <1>2, <1>3, ReplaceSound
<1>5. ds[c] = cv /\ \A b \in DOMAIN ds : b # c => ds[b] = cs[b]
  BY <1>1, <1>3
<1> QED
  BY <1>4, <1>5 DEF cs, c

LEMMA WriteSound ==
  ASSUME PeriodStep, run.pc = "act", NEW cv, SoundCover(cv, now), Settled(Mine, cv),
         Write("commit", run.cover, [View EXCEPT !.covers[run.cover] = cv]),
         UNCHANGED <<now, versions, covers, cancelling>>
  PROVE  PeriodInv'
<1> DEFINE ds == [View.covers EXCEPT ![run.cover] = cv]
           d == [covers |-> ds, funds |-> View.funds]
<1>1. View = [covers |-> View.covers, funds |-> View.funds]
  BY TurnFacts DEF PeriodStep
<1>2. [View EXCEPT !.covers[run.cover] = cv] = d
  BY <1>1
<1>3. Write("commit", run.cover, d) /\ d.covers = ds
  BY <1>2
<1> HIDE DEF d
<1>4. SoundCovers(ds, now) /\ Aged(View.covers, ds)
  <2> HIDE DEF ds
  <2> QED
    BY TurnReplaces DEF PeriodStep, ds
<1> HIDE DEF ds
<1> QED
  BY <1>3, <1>4, DraftKeeps DEF PeriodStep

LEMMA LapseSound ==
  ASSUME PeriodStep, Lapse
  PROVE  PeriodInv'
<1> DEFINE deadline == MissedDeadline(Mine, run.ref)
           over == [Mine EXCEPT !.ended = IF @ = Never THEN deadline ELSE @]
           cv == Terminate(over, deadline)
<1>1. /\ run.pc = "act" /\ deadline # Never
      /\ UNCHANGED <<now, versions, covers, cancelling>>
      /\ Write("commit", run.cover, [View EXCEPT !.covers[run.cover] = cv])
  BY DEF Lapse, Lapsing, onlyRun
<1>2. /\ SoundLine(Mine) /\ Mine \in CoverType /\ Periodic(Mine) /\ run.ref <= now
      /\ now <= MaxTime /\ now \in Nat /\ run.ref \in Nat
  BY <1>1, TurnFacts DEF PeriodStep, SoundLine
<1>3. Mine.ended = Never
  BY <1>1 DEF PeriodStep, PeriodInv, RenewalSound, Acting
<1>4. /\ deadline \in Nat /\ Mine.from <= deadline /\ deadline <= run.ref
  BY <1>1, <1>2, DeadlineBounds
<1> HIDE DEF deadline
<1>5. deadline <= now /\ deadline <= MaxTime /\ deadline < Never
  BY <1>2, <1>4, TermsFacts
<1>6. over = [Mine EXCEPT !.ended = deadline]
  BY <1>2, <1>3 DEF CoverType
<1> HIDE DEF over
<1>7. /\ SoundLine(over) /\ Same(Mine, over) /\ AgedCover(Mine, over)
      /\ over.stop = Mine.stop /\ over.ended = deadline /\ Final(over) = Final(Mine)
  BY <1>2, <1>4, <1>6, EndedSound
<1>8. over.from <= deadline
  BY <1>4, <1>7 DEF Same
<1>9. /\ SoundLine(cv) /\ Terminal(cv) /\ Same(over, cv) /\ AgedCover(over, cv)
      /\ Terminal(over) => cv = over
      /\ cv.ended = deadline /\ Final(cv) = Final(over)
  BY <1>4, <1>5, <1>7, <1>8, TerminateSound
<1> HIDE DEF cv
<1>10. SoundCover(cv, now)
  BY <1>5, <1>9 DEF SoundCover, SoundEnd
<1>11. Settled(Mine, cv)
  <2>1. Same(Mine, cv)
    BY <1>7, <1>9 DEF Same
  <2>2. AgedCover(Mine, cv)
    <3>1. Final(Mine) \in Nat /\ Final(over) \in Nat /\ Final(cv) \in Nat
      BY <1>2, <1>7, <1>9, PeriodFacts DEF SoundLine
    <3> QED
      BY <1>7, <1>9, <3>1 DEF AgedCover
  <2>3. Terminal(Mine) => cv.stop = Mine.stop
    BY <1>7, <1>9 DEF Terminal
  <2> QED
    BY <2>1, <2>2, <2>3, <1>3 DEF Settled
<1> QED
  BY <1>1, <1>10, <1>11, WriteSound

\* A lineage stopped because nothing of it goes on, or continued elsewhere.
LEMMA StoppedSound ==
  ASSUME CoverInv, PeriodInv, run.pc = "act"
  PROVE  /\ SoundCover(Stopped, now) /\ Settled(Mine, Stopped)
         /\ Terminal(Stopped) /\ Stopped.ended = Never
         /\ Final(Stopped) = Final(Mine) /\ SoundLine(Stopped)
<1>1. SoundLine(Mine) /\ Mine \in CoverType /\ Periodic(Mine)
  BY TurnFacts DEF SoundLine
<1>2. Mine.ended = Never
  BY DEF PeriodInv, RenewalSound, Acting
<1> DEFINE i == StopInstant(Mine, run.ref)
<1>3. i \in Nat /\ Mine.from <= i /\ i <= Final(Mine)
  BY <1>1, StopBounds
<1>4. i < Never
  BY <1>1, <1>3, PeriodFacts, TermsFacts
<1> HIDE DEF i
<1>5. /\ SoundLine(Terminate(Mine, i)) /\ Terminal(Terminate(Mine, i))
      /\ Same(Mine, Terminate(Mine, i)) /\ AgedCover(Mine, Terminate(Mine, i))
      /\ Terminal(Mine) => Terminate(Mine, i) = Mine
      /\ Terminate(Mine, i).ended = Mine.ended /\ Final(Terminate(Mine, i)) = Final(Mine)
  BY <1>1, <1>3, <1>4, TerminateSound
<1>6. Stopped = Terminate(Mine, i)
  BY DEF Stopped, i
<1> QED
  BY <1>2, <1>5, <1>6 DEF SoundCover, SoundEnd, Settled

LEMMA StopRenewalSound ==
  ASSUME PeriodStep, StopRenewal
  PROVE  PeriodInv'
<1>1. /\ run.pc = "act" /\ UNCHANGED <<now, versions, covers, cancelling>>
      /\ Write("commit", run.cover, [View EXCEPT !.covers[run.cover] = Stopped])
  BY DEF StopRenewal, onlyRun
<1>2. SoundCover(Stopped, now) /\ Settled(Mine, Stopped)
  BY <1>1, StoppedSound DEF PeriodStep
<1> QED
  BY <1>1, <1>2, WriteSound

\* What the renewal has billed, after the attempt to pay it.
LEMMA BilledSound ==
  ASSUME PeriodStep, run.pc # "idle", NEW d, NEW c \in DOMAIN d.covers,
         SoundCovers(d.covers, now), Aged(View.covers, d.covers),
         Write("read", c, Autopay(d, c)), UNCHANGED <<now, versions, covers, cancelling>>
  PROVE  PeriodInv'
<1>1. now \in Nat
  BY DEF PeriodStep, PeriodInv
<1> DEFINE e == Autopay(d, c)
<1>2. SoundCovers(e.covers, now) /\ Aged(d.covers, e.covers)
  BY <1>1, AutopaySound
<1>3. Write("read", c, e)
  OBVIOUS
<1> HIDE DEF e
<1>4. Aged(View.covers, e.covers)
  BY <1>2, ViewSound, AgedOn DEF PeriodStep
<1> QED
  BY <1>2, <1>3, <1>4, DraftKeeps DEF PeriodStep

LEMMA RenewCycleSound ==
  ASSUME PeriodStep, RenewCycle
  PROVE  PeriodInv'
<1> DEFINE cv == [Mine EXCEPT !.cycles = Append(Mine.cycles, NextCycle(Mine))]
           ds == [View.covers EXCEPT ![run.cover] = cv]
           d == [covers |-> ds, funds |-> View.funds]
<1>1. /\ run.pc = "act" /\ UNCHANGED <<now, versions, covers, cancelling>>
      /\ ~Terminal(Mine) /\ Due(Mine, run.ref)
      /\ Write("read", run.cover,
               Autopay([View EXCEPT !.covers[run.cover].cycles = Append(@, NextCycle(Mine))],
                       run.cover))
  BY DEF RenewCycle, Renewing, StillDue, Eligibility, onlyRun
<1>2. /\ View = [covers |-> View.covers, funds |-> View.funds]
      /\ SoundCovers(View.covers, now) /\ run.cover \in DOMAIN View.covers
      /\ SoundLine(Mine) /\ Mine = View.covers[run.cover] /\ SoundEnd(Mine, now)
      /\ run.ref \in Nat /\ run.ref <= MaxTime
  BY <1>1, TurnFacts DEF PeriodStep, SoundCover
<1>3. [View EXCEPT !.covers[run.cover].cycles = Append(@, NextCycle(Mine))] = d
  <2> DEFINE extra == NextCycle(Mine)
  <2>1. IsSequence(View.covers)
    BY <1>2 DEF SoundCovers
  <2> HIDE DEF extra
  <2> QED
    BY <1>2, <2>1
<1>4. /\ SoundLine(cv) /\ AgedCover(Mine, cv) /\ Same(Mine, cv)
      /\ cv.stop = Mine.stop /\ cv.ended = Mine.ended
  <2> HIDE DEF cv
  <2> QED
    BY <1>1, <1>2, ExtendSound DEF cv
<1> HIDE DEF cv
<1>5. SoundCover(cv, now) /\ Settled(Mine, cv)
  BY <1>2, <1>4 DEF SoundCover, SoundEnd, Settled, Terminal
<1>6. SoundCovers(ds, now) /\ Aged(View.covers, ds) /\ DOMAIN ds = DOMAIN View.covers
  <2> HIDE DEF ds
  <2> QED
    BY <1>1, <1>5, TurnReplaces DEF PeriodStep, ds
<1>7. Write("read", run.cover, Autopay(d, run.cover))
  BY <1>1, <1>3
<1>8. d.covers = ds
  OBVIOUS
<1> HIDE DEF ds, d
<1>9. run.cover \in DOMAIN d.covers /\ run.pc # "idle"
  BY <1>1, <1>2, <1>6, <1>8
<1>10. SoundCovers(d.covers, now) /\ Aged(View.covers, d.covers)
  BY <1>6, <1>8
<1> QED
  BY <1>1, <1>7, <1>9, <1>10, BilledSound

LEMMA ContinueSound ==
  ASSUME PeriodStep, Continue
  PROVE  PeriodInv'
<1> DEFINE z == Len(View.covers) + 1
           first == Cover(Newest, Stopped.stop, run.cover)
           cs == [View.covers EXCEPT ![run.cover] = Stopped]
           ds == Append(cs, first)
           d == [covers |-> ds, funds |-> View.funds]
<1>1. /\ run.pc = "act" /\ UNCHANGED <<now, versions, covers, cancelling>> /\ run.saw = "due"
      /\ Write("read", z, Autopay([View EXCEPT !.covers =
                 Append([@ EXCEPT ![run.cover] = Stopped], first)], z))
  BY DEF Continue, onlyRun
<1>2. /\ View = [covers |-> View.covers, funds |-> View.funds]
      /\ SoundCovers(View.covers, now) /\ run.cover \in DOMAIN View.covers
      /\ SoundLine(Mine) /\ Mine = View.covers[run.cover]
      /\ run.ref \in Nat /\ run.ref <= MaxTime
  BY <1>1, TurnFacts DEF PeriodStep
<1>3. [View EXCEPT !.covers = Append([@ EXCEPT ![run.cover] = Stopped], first)] = d
  <2>1. View = [covers |-> View.covers, funds |-> View.funds]
    BY <1>2
  <2> HIDE DEF first, z
  <2> QED
    BY <2>1
<1>4. /\ SoundCover(Stopped, now) /\ Settled(Mine, Stopped)
      /\ Terminal(Stopped) /\ Stopped.ended = Never
      /\ Final(Stopped) = Final(Mine) /\ SoundLine(Stopped)
  BY <1>1, StoppedSound DEF PeriodStep
<1>5. Acting
  BY <1>1 DEF PeriodStep, PeriodInv, RenewalSound
<1>6. /\ SoundCovers(cs, now) /\ Aged(View.covers, cs)
      /\ DOMAIN cs = DOMAIN View.covers /\ Len(cs) = Len(View.covers)
      /\ cs[run.cover] = Stopped
      /\ \A b \in DOMAIN cs : b # run.cover => cs[b] = View.covers[b]
  <2> HIDE DEF cs
  <2> QED
    BY <1>1, <1>4, TurnReplaces DEF PeriodStep, cs
<1>7. Newest \in DOMAIN Terms
  BY TermsFacts DEF PeriodStep, PeriodInv, VersionsSound
\* The two periods that meet at the continuation fit below Never, since each term
\* leaves room for two of its own.
<1>8. Stopped.stop \in Nat /\ Stopped.stop + Terms[Newest].period < Never
  <2> DEFINE old == Length(Mine)
             new == Terms[Newest].period
             t == Stopped.stop
  <2>1. /\ Mine.policy \in DOMAIN Terms /\ t \in Nat /\ Final(Mine) \in Nat
    BY <1>2, <1>4, PeriodFacts DEF SoundLine
  <2>2. /\ old \in Nat /\ Terms[Mine.policy].preview \in Nat /\ Terms[Mine.policy].preview < old
        /\ new \in Nat /\ MaxTime \in Nat /\ Never \in Nat
        /\ MaxTime + old + old < Never /\ MaxTime + new + new < Never
    BY <2>1, <1>7, TermsFacts DEF Length
  <2>3. Final(Mine) - Terms[Mine.policy].preview <= run.ref
    BY <1>1, <1>5 DEF Acting, Due, Final
  <2>4. t <= Final(Mine) \/ t <= MaxTime
    BY <1>4 DEF SoundLine, Stops
  <2> HIDE DEF old, new, t
  <2>5. t <= MaxTime + old
    BY <2>1, <2>2, <2>3, <2>4, <1>2
  <2>6. t + new < Never
    BY <2>1, <2>2, <2>5
  <2> QED
    BY <2>1, <2>6 DEF t, new
<1>9. run.cover \in Nat
  BY <1>2, SoundShape
<1>10. /\ SoundLine(first) /\ first.ended = Never /\ first.from = Stopped.stop
       /\ first.continues = run.cover
  <2> HIDE DEF first
  <2> QED
    BY <1>7, <1>8, <1>9, FirstSound DEF first
<1> HIDE DEF first, cs
<1>11. SoundCover(first, now)
  BY <1>10 DEF SoundCover, SoundEnd
<1>12. Succeeds(cs, first)
  <2>1. \A b \in DOMAIN cs : cs[b].continues # run.cover
    BY <1>2, <1>4, <1>5, <1>6 DEF Acting, Settled, Same
  <2> QED
    BY <1>2, <1>4, <1>6, <1>10, <2>1 DEF Succeeds
<1>13. ASSUME Grouped, NEW c \in DOMAIN cs PROVE Over(cs[c], first.from)
  <2>1. run.cover = Len(cs) /\ DOMAIN cs = 1..Len(cs) /\ Len(cs) \in Nat
    BY <1>5, <1>6, <1>13, SoundShape DEF Acting
  <2>2. CASE c = run.cover
    BY <2>2, <1>4, <1>6, <1>8, <1>10 DEF Over
  <2>3. CASE c # run.cover
    <3>1. c < run.cover /\ run.cover \in DOMAIN cs
      BY <2>1, <2>3, <1>2, <1>6
    <3>2. Over(cs[c], Stopped.from)
      BY <3>1, <1>6, <1>13 DEF SoundCovers
    <3>3. Stopped.from <= Stopped.stop /\ Stopped.from \in Nat
      BY <1>4, PeriodFacts DEF SoundLine, Stops
    <3>4. cs[c].stop \in Nat /\ cs[c].ended \in Nat
      BY <1>6, PeriodFacts DEF SoundCovers, SoundCover, SoundLine
    <3> QED
      BY <3>2, <3>3, <3>4, <1>8, <1>10 DEF Over
  <2> QED
    BY <2>2, <2>3
<1>14. /\ SoundCovers(ds, now) /\ Aged(cs, ds)
       /\ DOMAIN ds = 1..(Len(cs) + 1)
  <2> HIDE DEF ds
  <2> QED
    BY <1>6, <1>11, <1>12, <1>13, AppendSound DEF ds
<1>15. Aged(View.covers, ds)
  <2> HIDE DEF ds
  <2> QED
    BY <1>2, <1>6, <1>14, AgedOn
<1>16. z \in DOMAIN ds
  BY <1>2, <1>6, <1>14, SoundShape
<1>17. Write("read", z, Autopay(d, z))
  BY <1>1, <1>3
<1>18. d.covers = ds
  OBVIOUS
<1> HIDE DEF d, z, ds
<1> QED
  BY <1>1, <1>14, <1>15, <1>16, <1>17, <1>18, BilledSound

LEMMA PeriodInit == Init => PeriodInv
<1> SUFFICES ASSUME Init PROVE PeriodInv
  OBVIOUS
<1>1. /\ now = 0 /\ versions = << "IN_USE" >> /\ covers = << >>
      /\ run.pc = "idle" /\ ~run.wrote /\ cancelling = Idle
  BY DEF Init, CoverageInit, NoRun
<1>2. IsSequence(<< >>) /\ DOMAIN << >> = {}
  BY EmptySeq DEF IsSequence
<1>3. SoundCovers(covers, now)
  BY <1>1, <1>2 DEF SoundCovers
<1>4. VersionsSound
  <2>1. versions \in Seq({"IN_USE"}) /\ Len(versions) = 1
    BY <1>1
  <2>2. 1 \in DOMAIN Terms
    <3>1. Terms \in Seq(TermsType) /\ Terms # << >>
      BY CoverageConstants
    <3>2. Len(Terms) # 0
      BY <3>1, EmptySeq
    <3> QED
      BY <3>2, TermsFacts
  <2> QED
    BY <2>1, <2>2, SequenceOf, TermsFacts DEF VersionsSound, Newest
<1>5. RenewalSound /\ CancellationSound
  BY <1>1 DEF RenewalSound, CancellationSound
<1> QED
  BY <1>1, <1>3, <1>4, <1>5, TermsFacts DEF PeriodInv

LEMMA TermsMove ==
  ASSUME PeriodStep, submit_insurance_definition \/ set_availability
  PROVE  PeriodInv'
<1>1. UNCHANGED <<now, covers, run, cancelling, funds>>
  BY DEF submit_insurance_definition, set_availability
<1>2. IsSequence(versions) /\ Len(versions) \in 1..Len(Terms) /\ Len(Terms) \in Nat
      /\ DOMAIN versions = 1..Len(versions) /\ Len(versions) \in Nat
  BY SequenceLength, TermsFacts DEF PeriodStep, PeriodInv, VersionsSound, Newest
<1>3. VersionsSound'
  <2>1. CASE set_availability
    <3>1. PICK s : versions' = [versions EXCEPT ![Newest] = s]
      BY <2>1 DEF set_availability
    <3> DEFINE r == [versions EXCEPT ![Newest] = s]
    <3>2. DOMAIN r = DOMAIN versions /\ r = [i \in DOMAIN r |-> r[i]]
      OBVIOUS
    <3> HIDE DEF r
    <3>3. IsSequence(r) /\ Len(r) = Len(versions)
      BY <1>2, <3>2, Reshaped
    <3> QED
      BY <1>2, <3>1, <3>3 DEF VersionsSound, Newest, r
  <2>2. CASE submit_insurance_definition
    <3>1. PICK s : versions' = Append([versions EXCEPT ![Newest] = "RETIRED"], s)
      BY <2>2 DEF submit_insurance_definition
    <3> DEFINE r == [versions EXCEPT ![Newest] = "RETIRED"]
    <3>2. DOMAIN r = DOMAIN versions /\ r = [i \in DOMAIN r |-> r[i]]
      OBVIOUS
    <3>3. versions' = Append(r, s)
      BY <3>1
    <3> HIDE DEF r
    <3>4. IsSequence(r) /\ Len(r) = Len(versions)
      BY <1>2, <3>2, Reshaped
    <3>5. IsSequence(Append(r, s)) /\ Len(Append(r, s)) = Len(r) + 1
      BY <3>4, Appended
    <3>6. Len(versions) < Len(Terms)
      BY <2>2 DEF submit_insurance_definition, Newest
    <3>7. IsSequence(versions') /\ Len(versions') = Len(versions) + 1
      BY <3>3, <3>4, <3>5
    <3> QED
      BY <1>2, <3>6, <3>7 DEF VersionsSound, Newest
  <2> QED
    BY <2>1, <2>2
<1>4. RenewalSound'
  <2>1. View' = View
    BY <1>1 DEF View, Committed
  <2> QED
    BY <1>1, <2>1 DEF PeriodStep, PeriodInv, RenewalSound, Acting, Mine
<1> QED
  BY <1>1, <1>3, <1>4 DEF PeriodStep, PeriodInv, CancellationSound, LineageMoved

LEMMA PeriodNext ==
  ASSUME CoverInv, PeriodInv, [Next]_vars
  PROVE  CoverInv' /\ PeriodInv'
<1>1. PeriodStep
  BY CoverNext DEF PeriodStep, Step
<1> SUFFICES PeriodInv'
  BY <1>1 DEF PeriodStep
<1>2. ASSUME UNCHANGED <<now, versions, covers, run, cancelling>> PROVE PeriodInv'
  <2>1. now' \in {now, now + 1} /\ now' <= MaxTime
    BY <1>2 DEF PeriodInv
  <2> QED
    BY <1>2, <2>1, QuietKeeps
<1>3. CASE Tick
  <2>1. now' \in {now, now + 1} /\ now' <= MaxTime
    BY <1>3, TermsFacts DEF Tick, PeriodInv
  <2> QED
    BY <1>3, <2>1, QuietKeeps DEF Tick
<1>4. CASE submit_insurance_definition \/ set_availability
  BY <1>1, <1>4, TermsMove
<1>5. ASSUME NEW v \in DOMAIN versions, execute_purchase_insurance(v) PROVE PeriodInv'
  BY <1>1, <1>5, PurchaseSound
<1>6. ASSUME NEW c \in Covers, execute_insurance_premium_payment(c) PROVE PeriodInv'
  BY <1>1, <1>6, PaymentSound
<1>7. ASSUME NEW c \in Covers, RenewBegin(c) PROVE PeriodInv'
  BY <1>1, <1>7, RenewBeginSound
<1>8. ASSUME NEW c \in Covers, CancelRead(c) PROVE PeriodInv'
  BY <1>1, <1>8, CancelReadSound
<1>9. ASSUME NEW c \in Covers, run_insurance_expiry_job(c) PROVE PeriodInv'
  BY <1>1, <1>9, ExpirySound
<1>10. CASE RenewStep
  BY <1>1, <1>10, RenewReadSound, RenewTurnSound, LapseSound, ContinueSound, StopRenewalSound,
     RenewCycleSound, RenewCommitSound DEF RenewStep
<1>11. CASE RenewAbort
  BY <1>1, <1>11, RenewTurnSound
<1>12. CASE CancelStep
  BY <1>1, <1>12, CancelWithdrawSound, CancelCommitSound DEF CancelStep
<1>13. CASE CoverageStep
  BY <1>3, <1>4, <1>5, <1>6, <1>7, <1>8, <1>9, <1>10, <1>11, <1>12, <1>13 DEF CoverageStep
<1>14. CASE ClaimStep
  BY <1>2, <1>14
     DEF ClaimStep, Lose, Reverse, FileRead, create_claim, ApproveRead, RejectRead, Decide,
         ApproveCommit, ApproveRefused, RejectCommit, onlyMoney, coverVars
<1>15. CASE UNCHANGED vars
  BY <1>2, <1>15 DEF vars, coverVars
<1> QED
  BY <1>13, <1>14, <1>15 DEF Next

LEMMA PeriodSafe == Spec => []PeriodInv
<1>1. Init => CoverInv /\ PeriodInv
  BY CoverInit, PeriodInit
<1>2. (CoverInv /\ PeriodInv) /\ [Next]_vars => (CoverInv /\ PeriodInv)'
  BY PeriodNext
<1> QED
  BY <1>1, <1>2, PTL DEF Spec

\* However an edit, a late renewal, a cancellation and the expiry job interleave, a
\* continuation begins where its predecessor stops, is the only one of it, and the
\* predecessor expires nowhere else: the renewal decides on a draft nobody has seen,
\* and what its turn read still holds (_continue_under_successor).
THEOREM ContinuationsMeet == Spec => []ContinuesWhereItEnds
<1>1. PeriodInv => ContinuesWhereItEnds
  <2> SUFFICES ASSUME PeriodInv, NEW c \in Covers, covers[c].continues # 0
               PROVE  /\ covers[covers[c].continues].stop = covers[c].from
                      /\ covers[covers[c].continues].ended \in {Never, covers[c].from}
                      /\ \A b \in Covers : covers[b].continues = covers[c].continues => b = c
    BY DEF ContinuesWhereItEnds
  <2>1. Follows(covers, c, covers[c].continues)
    BY DEF PeriodInv, SoundCovers, Covers
  <2> QED
    BY <2>1 DEF Follows, Covers
<1> QED
  BY <1>1, PeriodSafe, PTL

\* A cancellation withdraws what it found unpaid, in a later read than the one that
\* chose the instant, and a renewal may bill and a student pay in between: still no
\* premium is owed of a period that begins when the cover is over
\* (terminate_bill_cycle, uq_bill_cycles_ref_cycle).
THEOREM NothingOwedPastTheEnd == Spec => []NoDebtPastTheEnd
<1>1. PeriodInv => NoDebtPastTheEnd
  BY DEF PeriodInv, SoundCovers, SoundCover, SoundLine, Stops, NoDebtPastTheEnd, Covers
<1> QED
  BY <1>1, PeriodSafe, PTL

\* Two covers in force at one instant would be one that had stopped before the other
\* began.
LEMMA NoTwoInForce ==
  ASSUME PeriodInv, Grouped, NEW c \in Covers, NEW d \in Covers, c < d, NEW t \in Nat,
         InForce(covers[c], t), InForce(covers[d], t)
  PROVE  FALSE
<1>1. Over(covers[c], covers[d].from) /\ SoundLine(covers[c]) /\ SoundLine(covers[d])
  BY DEF PeriodInv, SoundCovers, SoundCover, Covers
<1>2. PICK n \in DOMAIN covers[d].cycles : covers[d].cycles[n].start <= t
  BY DEF InForce, CurrentCycles
<1>3. covers[d].from \in Nat /\ covers[d].from <= covers[d].cycles[n].start
      /\ covers[d].cycles[n].start \in Nat
  BY <1>1, PeriodFacts DEF SoundLine
<1>4. covers[d].from <= t
  BY <1>2, <1>3
<1>5. t < covers[c].stop /\ t < covers[c].ended
  BY DEF InForce, CurrentCycles
<1>6. covers[c].stop \in Nat /\ covers[c].ended \in Nat
  BY <1>1, PeriodFacts DEF SoundLine
<1> QED
  BY <1>1, <1>3, <1>4, <1>5, <1>6 DEF Over

\* "At most one active coverage per tier_group_id" (purchase_insurance_feat.py), for
\* the periods themselves: at no instant, past, present or to come, are two covers
\* of the group in force, however late a renewal, an expiry or a cancellation is.
THEOREM OneCoverAtATime == Spec => []OneCoverInForce
<1>1. PeriodInv => OneCoverInForce
  <2> SUFFICES ASSUME PeriodInv, Grouped, NEW t \in Instants
               PROVE  Cardinality({ c \in Covers : InForce(covers[c], t) }) <= 1
    BY DEF OneCoverInForce
  <2> DEFINE S == { c \in Covers : InForce(covers[c], t) }
  <2>1. t \in Nat
    BY TermsFacts DEF Instants
  <2>2. Covers \subseteq Nat
    BY SoundShape DEF PeriodInv, Covers
  <2>3. \A c, d \in S : c = d
    <3> SUFFICES ASSUME NEW c \in S, NEW d \in S, c # d PROVE FALSE
      OBVIOUS
    <3>1. c < d \/ d < c
      BY <2>2
    <3> QED
      BY <2>1, <3>1, NoTwoInForce
  <2> HIDE DEF S
  <2>4. CASE S = {}
    <3>1. Cardinality(S) = 0
      BY <2>4, FS_EmptySet
    <3> QED
      BY <3>1 DEF S
  <2>5. CASE S # {}
    <3>1. PICK c : S = {c}
      BY <2>3, <2>5
    <3>2. Cardinality(S) = 1
      BY <3>1, FS_Singleton
    <3> QED
      BY <3>2 DEF S
  <2> QED
    BY <2>4, <2>5
<1> QED
  BY <1>1, PeriodSafe, PTL
=============================================================================
