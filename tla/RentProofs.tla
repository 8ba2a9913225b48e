----------------------------- MODULE RentProofs -----------------------------
(***************************************************************************)
(* Theorems about RentObligations for any number of seats, policies,       *)
(* overlapping reconciliation runs, payments and failures, along four      *)
(* inductive invariants, each using the ones before it:                    *)
(*   RentInv  a bill cycle is numbered once, a liability is assessed once, *)
(*            and on the terms frozen on its cycle;                        *)
(*   PayInv   what a payment decides under the class row stands until it   *)
(*            commits, so nothing is charged twice, overpaid, or withdrawn *)
(*            once paid;                                                   *)
(*   PerkInv  perks and late fees follow the dates of the lineage;         *)
(*   CoverInv what a payment has decided stays within the seat's money.    *)
(***************************************************************************)
EXTENDS RentObligations, FiniteSetTheorems, WellFoundedInduction, TLAPS

-----------------------------------------------------------------------------
(***************************************************************************)
(* The inductive invariant.                                                *)
(***************************************************************************)

\* The variables that reconciliation reads and writes have their types.
RunsTyped ==
  /\ cycles \in Seq(CycleType)
  /\ rows \in [Corr -> Seq(Policies)]
  /\ granted \in [Corr -> Nat] /\ expired \in [Corr -> Nat]
  /\ now \in Nat /\ policy \in 0..Len(Terms) /\ claimed \in SUBSET Seats
  /\ features \in Seq(FeatureType) /\ features # <<>> /\ disable.at \in Nat
  /\ run \in [Runs -> RunType]

\* A run that has begun has a policy, and one about to insert has a successor.
RunsReady ==
  \A r \in Runs :
    /\ run[r].pc \notin {"idle", "begin"} => run[r].policy \in Policies
    /\ run[r].pc \in {"derive", "cycle"} => Len(run[r].next) = 1

\* Successors not yet committed continue the lineage, and at most one run has
\* any: the others wait in the unique index.
SuccessorsNumbered ==
  \A r \in Runs :
    /\ \A i \in 1..Len(run[r].cyc) : run[r].cyc[i].num = Len(cycles) + i
    /\ \A q \in Runs : q # r => run[r].cyc = <<>> \/ run[q].cyc = <<>>

\* A run about to insert has numbered its successor from a lineage that is, but
\* for what others have committed since, the one it sees now.
NumberCurrent(r) ==
  /\ Len(cycles) + Len(run[r].cyc) =< MaxCycles
  /\ run[r].pc = "cycle" =>
       /\ Number(r) \in 1..MaxCycles
       /\ Number(r) =< Len(cycles) + Len(run[r].cyc) + 1
       /\ run[r].cyc # <<>> => Number(r) = Len(cycles) + Len(run[r].cyc) + 1

NumbersCurrent == \A r \in Runs : NumberCurrent(r)

\* What a run will assess and has assessed lies in the lineage it sees, on the
\* terms of its cycle; no one else has assessed it.
AssessmentsFrozen ==
  \A r \in Runs :
    /\ \A c \in run[r].todo : CycleOf(c) \in 1..Len(View(r))
    /\ \A i \in run[r].ins :
         /\ CycleOf(i[1]) \in 1..Len(View(r))
         /\ i[2] = View(r)[CycleOf(i[1])].policy

AssessmentsNew ==
  \A r \in Runs :
    /\ \A i \in run[r].ins : rows[i[1]] = <<>>
    /\ \A q \in Runs : q # r => Mine(r) \cap Mine(q) = {}

RentInv ==
  /\ RunsTyped /\ RunsReady
  /\ CyclesNumberedOnce /\ SuccessorsNumbered /\ NumbersCurrent
  /\ AssessmentsFrozen /\ AssessmentsNew
  /\ AssessedOnce /\ BilledOnFrozenTerms

-----------------------------------------------------------------------------
(***************************************************************************)
(* Facts about the lineage a run sees.                                     *)
(***************************************************************************)

\* The lineage a run sees is what is committed, then what it has inserted.
LEMMA ViewFacts ==
  ASSUME RunsTyped, NEW r \in Runs
  PROVE  /\ run[r] \in RunType
         /\ View(r) \in Seq(CycleType)
         /\ Len(cycles) \in Nat /\ Len(run[r].cyc) \in Nat
         /\ Len(View(r)) = Len(cycles) + Len(run[r].cyc)
         /\ \A n \in 1..Len(cycles) : View(r)[n] = cycles[n]
         /\ \A i \in 1..Len(run[r].cyc) : View(r)[Len(cycles) + i] = run[r].cyc[i]
  <1>1. cycles \in Seq(CycleType) /\ run[r] \in RunType
    BY DEF RunsTyped
  <1>2. run[r].cyc \in Seq(CycleType)
    BY <1>1 DEF RunType
  <1> QED  BY <1>1, <1>2 DEF View

\* A saved policy is a record of terms.
LEMMA TermFacts ==
  \A p \in Policies : /\ Terms[p].period \in Nat \ {0} /\ Terms[p].grace \in Nat
                      /\ Terms[p].preview \in Nat
  <1> SUFFICES ASSUME NEW p \in Policies PROVE Terms[p] \in TermsType
    BY DEF TermsType
  <1> QED  BY ObligationConstants DEF Policies

\* The dates of a successor are days.
LEMMA ScheduleFacts ==
  ASSUME NEW ys \in Seq(CycleType), NEW t \in Nat, NEW p \in Policies, NEW n \in Nat
  PROVE  Schedule(p, NextDue(ys, t), n) \in CycleType
  <1>1. NextDue(ys, t) \in Nat
    <2>1. ASSUME ys # <<>> PROVE ys[Len(ys)] \in CycleType
      BY <2>1
    <2> QED  BY <2>1 DEF NextDue, CycleType
  <1>2. Terms[p].period \in Nat /\ Terms[p].grace \in Nat
    BY TermFacts
  <1> QED  BY <1>1, <1>2 DEF Schedule, CycleType

\* A run in which nothing has happened has its type.
LEMMA IdleFacts == IdleRun \in RunType
  BY DEF IdleRun, RunType, RunPcs

-----------------------------------------------------------------------------
(***************************************************************************)
(* Each step preserves the invariant.                                      *)
(***************************************************************************)

\* Nothing has been assessed or begun.
LEMMA InitInv == Init => RentInv
  <1> SUFFICES ASSUME Init PROVE RentInv
    OBVIOUS
  <1> USE DEF Init, TablesInit
  <1>1. RunsTyped
    BY IdleFacts, ObligationConstants, RentConstants DEF RunsTyped, Policies, FeatureType
  <1>2. \A r \in Runs : run[r] = IdleRun
    OBVIOUS
  <1>3. RunsReady /\ SuccessorsNumbered /\ NumbersCurrent
    BY <1>2, ObligationConstants
    DEF RunsReady, SuccessorsNumbered, NumbersCurrent, NumberCurrent, IdleRun
  <1>4. AssessmentsFrozen /\ AssessmentsNew
    BY <1>2 DEF AssessmentsFrozen, AssessmentsNew, IdleRun, Mine
  <1>5. CyclesNumberedOnce /\ AssessedOnce /\ BilledOnFrozenTerms
    BY DEF CyclesNumberedOnce, AssessedOnce, BilledOnFrozenTerms, Assessed
  <1> QED  BY <1>1, <1>3, <1>4, <1>5 DEF RentInv

\* A step that leaves the lineage, the assessments and the runs alone.
LEMMA QuietStep ==
  ASSUME RentInv, UNCHANGED <<cycles, rows, run>>, RunsTyped'
  PROVE  RentInv'
  BY DEF RentInv, RunsReady, CyclesNumberedOnce, SuccessorsNumbered, NumbersCurrent,
         NumberCurrent, Number, AssessmentsFrozen, AssessmentsNew, View, Mine, AssessedOnce,
         BilledOnFrozenTerms, Assessed

\* A run that begins, ends or is rolled back has nothing of its own.
LEMMA FreshRun ==
  ASSUME RentInv, UNCHANGED <<cycles, rows>>, RunsTyped', NEW r \in Runs,
         \A q \in Runs \ {r} : run'[q] = run[q],
         run'[r].cyc = <<>>, run'[r].ins = {}, run'[r].todo = {},
         run'[r].pc \notin {"derive", "cycle"},
         run'[r].pc \notin {"idle", "begin"} => run'[r].policy \in Policies
  PROVE  RentInv'
  <1> USE DEF RentInv
  <1>1. RunsReady'
    BY DEF RunsReady
  <1>2. SuccessorsNumbered'
    BY DEF SuccessorsNumbered
  <1>3. NumbersCurrent'
    <2>1. Len(cycles) \in Nat /\ Len(run[r].cyc) \in Nat /\ MaxCycles \in Nat
      BY ViewFacts, ObligationConstants
    <2>2. Len(cycles) + Len(run[r].cyc) =< MaxCycles
      BY DEF NumbersCurrent, NumberCurrent
    <2>3. Len(run'[r].cyc) = 0
      OBVIOUS
    <2>4. ASSUME NEW q \in Runs \ {r} PROVE NumberCurrent(q)'
      BY <2>4 DEF NumbersCurrent, NumberCurrent, Number
    <2>5. NumberCurrent(r)'
      BY <2>1, <2>2, <2>3 DEF NumberCurrent, Number
    <2> QED  BY <2>4, <2>5 DEF NumbersCurrent
  <1>4. AssessmentsFrozen'
    BY DEF AssessmentsFrozen, View
  <1>5. AssessmentsNew'
    BY DEF AssessmentsNew, Mine
  <1>6. (CyclesNumberedOnce /\ AssessedOnce /\ BilledOnFrozenTerms)'
    BY DEF CyclesNumberedOnce, AssessedOnce, BilledOnFrozenTerms, Assessed
  <1> QED  BY <1>1, <1>2, <1>3, <1>4, <1>5, <1>6

\* A step in which a run neither inserts nor commits.
LEMMA LocalStep ==
  ASSUME RentInv, UNCHANGED <<cycles, rows>>, RunsTyped', NEW r \in Runs,
         \A q \in Runs \ {r} : run'[q] = run[q],
         run'[r].cyc = run[r].cyc, run'[r].ins = run[r].ins,
         run'[r].pc \notin {"idle", "begin"} => run'[r].policy \in Policies,
         run'[r].pc \in {"derive", "cycle"} => Len(run'[r].next) = 1,
         run'[r].pc = "cycle" =>
           Number(r)' = Len(View(r)) + 1 /\ Len(View(r)) < MaxCycles,
         \A c \in run'[r].todo : CycleOf(c) \in 1..Len(View(r))
  PROVE  RentInv'
  <1> USE DEF RentInv
  <1>1. RunsReady'
    BY DEF RunsReady
  <1>2. SuccessorsNumbered'
    BY DEF SuccessorsNumbered
  <1>3. NumbersCurrent'
    <2>1. Len(cycles) \in Nat /\ Len(run[r].cyc) \in Nat /\ MaxCycles \in Nat
      BY ViewFacts, ObligationConstants
    <2>2. Len(View(r)) = Len(cycles) + Len(run[r].cyc)
      BY ViewFacts
    <2>3. Len(cycles) + Len(run[r].cyc) =< MaxCycles
      BY DEF NumbersCurrent, NumberCurrent
    <2>4. run'[r].pc = "cycle" => /\ Number(r)' \in 1..MaxCycles
                                  /\ Number(r)' = Len(cycles) + Len(run[r].cyc) + 1
      BY <2>1, <2>2
    <2>5. ASSUME NEW q \in Runs \ {r} PROVE NumberCurrent(q)'
      BY <2>5 DEF NumbersCurrent, NumberCurrent, Number
    <2>6. NumberCurrent(r)'
      BY <2>1, <2>3, <2>4 DEF NumberCurrent, Number
    <2> QED  BY <2>5, <2>6 DEF NumbersCurrent
  <1>4. AssessmentsFrozen'
    <2>1. \A q \in Runs : View(q)' = View(q)
      BY DEF View
    <2>2. \A q \in Runs : run'[q].ins = run[q].ins
      OBVIOUS
    <2>3. \A q \in Runs : \A c \in run'[q].todo : CycleOf(c) \in 1..Len(View(q))
      BY DEF AssessmentsFrozen
    <2> QED  BY <2>1, <2>2, <2>3 DEF AssessmentsFrozen
  <1>5. AssessmentsNew'
    BY DEF AssessmentsNew, Mine
  <1>6. (CyclesNumberedOnce /\ AssessedOnce /\ BilledOnFrozenTerms)'
    BY DEF CyclesNumberedOnce, AssessedOnce, BilledOnFrozenTerms, Assessed
  <1> QED  BY <1>1, <1>2, <1>3, <1>4, <1>5, <1>6

\* Appending to a sequence.
LEMMA AppendFacts ==
  ASSUME NEW S, NEW s \in Seq(S), NEW e \in S
  PROVE  /\ Append(s, e) \in Seq(S) /\ Append(s, e) # <<>> /\ Len(Append(s, e)) = Len(s) + 1
         /\ Append(s, e)[Len(s) + 1] = e
  OBVIOUS

\* The clock, the teacher, the roster and the payments leave the runs alone.
LEMMA OthersStep ==
  ASSUME RentInv,
         \/ Tick \/ SaveSettings \/ DisableRead \/ DisableCommit \/ Enable
         \/ \E s \in Seats : Claim(s)
         \/ \E k \in Payments : PayRead(k) \/ PayStep(k) \/ PayAbort(k)
         \/ \E w \in Waivers : (\E c \in Corr : WaiveCheck(w, c)) \/ WaiveInsert(w)
  PROVE  RentInv'
  <1> USE DEF RentInv, RunsTyped, onlyPay, tables, clockVars, teacherVars
  <1>1. ASSUME UNCHANGED <<cycles, rows, run, expired>>, RunsTyped' PROVE RentInv'
    BY <1>1, QuietStep
  <1>2. CASE Tick
    BY <1>1, <1>2 DEF Tick
  <1>3. CASE SaveSettings
    BY <1>1, <1>3, ObligationConstants DEF SaveSettings
  <1>4. CASE DisableRead
    BY <1>1, <1>4 DEF DisableRead
  <1>5. CASE DisableCommit
    <2>1. [at |-> disable.at, on |-> FALSE] \in FeatureType
      BY DEF FeatureType
    <2>2. features' \in Seq(FeatureType) /\ features' # <<>>
      <3>1. /\ features' = Append(features, [at |-> disable.at, on |-> FALSE])
            /\ features \in Seq(FeatureType)
        BY <1>5 DEF DisableCommit
      <3> HIDE DEF RentInv, RunsTyped
      <3> QED  BY <2>1, <3>1, AppendFacts
    <2> QED  BY <1>1, <1>5, <2>2 DEF DisableCommit
  <1>6. CASE Enable
    <2>1. [at |-> now, on |-> TRUE] \in FeatureType
      BY DEF FeatureType
    <2>2. features' \in Seq(FeatureType) /\ features' # <<>>
      BY <1>6, <2>1 DEF Enable
    <2> QED  BY <1>1, <1>6, <2>2 DEF Enable
  <1>7. ASSUME NEW s \in Seats, Claim(s) PROVE RentInv'
    BY <1>1, <1>7 DEF Claim
  <1>8. ASSUME NEW k \in Payments, PayRead(k) \/ PayLock(k) \/ PaySlice(k) \/ PayAbort(k)
        PROVE  RentInv'
    BY <1>1, <1>8 DEF PayRead, PayLock, PaySlice, PayAbort
  <1>9. ASSUME NEW k \in Payments, PayCommit(k) PROVE RentInv'
    <2>1. granted' \in [Corr -> Nat]
      BY <1>9 DEF PayCommit
    <2> QED  BY <1>1, <1>9, <2>1 DEF PayCommit
  <1>10. ASSUME NEW w \in Waivers, (\E c \in Corr : WaiveCheck(w, c)) \/ WaiveInsert(w)
         PROVE  RentInv'
    BY <1>1, <1>10 DEF WaiveCheck, WaiveInsert
  <1> QED
    BY <1>2, <1>3, <1>4, <1>5, <1>6, <1>7, <1>8, <1>9, <1>10 DEF PayStep

\* A run's own step keeps the types when it gives the run a typed record.
LEMMA OwnStepTypes ==
  ASSUME RentInv, UNCHANGED onlyRun, NEW r \in Runs, NEW me \in RunType,
         run' = [run EXCEPT ![r] = me]
  PROVE  /\ RunsTyped' /\ UNCHANGED <<cycles, rows>>
         /\ run'[r] = me /\ \A q \in Runs \ {r} : run'[q] = run[q]
  BY DEF RentInv, RunsTyped, onlyRun, tables, clockVars, teacherVars

\* The job checks that rent is on, and the run reads the clock and the policy.
LEMMA BeginStep ==
  ASSUME RentInv, NEW r \in Runs, JobCheck(r) \/ Begin(r)
  PROVE  RentInv'
  <1>1. CASE JobCheck(r)
    <2> DEFINE me == [run[r] EXCEPT !.pc = "begin"]
    <2>1. me \in RunType
      <3>1. run[r] \in RunType /\ "begin" \in RunPcs
        BY DEF RentInv, RunsTyped, RunPcs
      <3> QED  BY <3>1 DEF RunType
    <2>2. /\ me.cyc = run[r].cyc /\ me.ins = run[r].ins /\ me.todo = run[r].todo
          /\ me.pc = "begin"
      BY ViewFacts DEF RentInv, RunType
    <2> HIDE DEF me
    <2>3. \A c \in me.todo : CycleOf(c) \in 1..Len(View(r))
      BY <2>2 DEF RentInv, AssessmentsFrozen
    <2>4. run' = [run EXCEPT ![r] = me] /\ UNCHANGED onlyRun
      BY <1>1 DEF JobCheck, Goto, me
    <2> QED  BY <2>1, <2>2, <2>3, <2>4, OwnStepTypes, LocalStep
  <1>2. CASE Begin(r)
    <2> DEFINE me == IF policy = 0 THEN IdleRun
                     ELSE [IdleRun EXCEPT !.pc = "succeed", !.now = now, !.on = RentOn,
                                          !.policy = policy]
    <2>1. run' = [run EXCEPT ![r] = me] /\ UNCHANGED onlyRun
      BY <1>2 DEF Begin
    <2>2. RentOn \in BOOLEAN
      <3>1. Len(features) \in 1..Len(features) /\ features \in Seq(FeatureType)
        BY DEF RentInv, RunsTyped
      <3>2. features[Len(features)] \in FeatureType
        BY <3>1
      <3> QED  BY <3>2 DEF RentOn, FeatureType
    <2>3. me \in RunType
      <3>1. IdleRun \in RunType /\ "succeed" \in RunPcs /\ now \in Nat /\ policy \in Nat
        BY IdleFacts DEF RentInv, RunsTyped, RunPcs
      <3> QED  BY <2>2, <3>1 DEF RunType
    <2>4. /\ me.cyc = <<>> /\ me.ins = {} /\ me.todo = {}
          /\ me.pc \in {"idle", "succeed"}
          /\ me.pc = "succeed" => me.policy \in Policies
      BY ObligationConstants DEF RentInv, RunsTyped, IdleRun, Policies
    <2> HIDE DEF me
    <2> QED  BY <2>1, <2>3, <2>4, OwnStepTypes, FreshRun
  <1> QED  BY <1>1, <1>2

\* A run that stops without committing forgets what it did.
LEMMA EndStep ==
  ASSUME RentInv, NEW r \in Runs, run' = [run EXCEPT ![r] = IdleRun],
         UNCHANGED <<tables, clockVars, teacherVars>>
  PROVE  RentInv'
  <1>1. /\ IdleRun.cyc = <<>> /\ IdleRun.ins = {} /\ IdleRun.todo = {}
        /\ IdleRun.pc = "idle" /\ IdleRun \in RunType
    BY IdleFacts DEF IdleRun
  <1>2. /\ RunsTyped' /\ UNCHANGED <<cycles, rows>>
        /\ run'[r] = IdleRun /\ \A q \in Runs \ {r} : run'[q] = run[q]
    BY <1>1 DEF RentInv, RunsTyped, tables, clockVars, teacherVars
  <1> QED  BY <1>1, <1>2, FreshRun

\* One turn of the succession loop, up to the number of the successor.
LEMMA SucceedStep ==
  ASSUME RentInv, NEW r \in Runs, Succeed(r) \/ Derive(r)
  PROVE  RentInv'
  <1>1. /\ run[r] \in RunType /\ View(r) \in Seq(CycleType) /\ RunsTyped
        /\ \A c \in run[r].todo : CycleOf(c) \in 1..Len(View(r))
    BY ViewFacts DEF RentInv, AssessmentsFrozen
  <1>2. run[r].pc \notin {"idle", "begin"} => run[r].policy \in Policies
    BY DEF RentInv, RunsReady
  <1>3. CASE Succeed(r)
    <2>1. PICK pc \in {"derive", "roster"}, next \in Seq(CycleType) :
            /\ run' = [run EXCEPT ![r] = [run[r] EXCEPT !.pc = pc, !.next = next]]
            /\ pc = "derive" => Len(next) = 1
      <3>1. Schedule(run[r].policy, NextDue(View(r), run[r].now), 0) \in CycleType
        BY <1>1, <1>2, <1>3, ScheduleFacts DEF Succeed, RunType
      <3> DEFINE sch == Schedule(run[r].policy, NextDue(View(r), run[r].now), 0)
                 Goes(pc, next) ==
                   run' = [run EXCEPT ![r] = [run[r] EXCEPT !.pc = pc, !.next = next]]
      <3>2. \/ run' = [run EXCEPT ![r].pc = "derive", ![r].next = <<sch>>]
            \/ run' = [run EXCEPT ![r].pc = "roster", ![r].next = <<>>]
        BY <1>3 DEF Succeed
      <3>3. Goes("derive", <<sch>>) \/ Goes("roster", <<>>)
        BY <1>1, <3>2 DEF RunsTyped
      <3>4. <<sch>> \in Seq(CycleType) /\ <<>> \in Seq(CycleType) /\ Len(<<sch>>) = 1
        BY <3>1
      <3> HIDE DEF sch
      <3> QED  BY <3>3, <3>4
    <2> DEFINE me == [run[r] EXCEPT !.pc = pc, !.next = next]
    <2>2. me \in RunType
      <3>1. pc \in RunPcs
        BY DEF RunPcs
      <3> QED  BY <1>1, <3>1 DEF RunType
    <2>3. /\ me.cyc = run[r].cyc /\ me.ins = run[r].ins /\ me.todo = run[r].todo
          /\ me.policy = run[r].policy /\ me.pc = pc /\ me.next = next
      BY <1>1 DEF RunType
    <2>4. run[r].pc = "succeed" /\ UNCHANGED onlyRun /\ run' = [run EXCEPT ![r] = me]
      BY <1>3, <2>1 DEF Succeed
    <2> HIDE DEF me
    <2> QED  BY <1>1, <1>2, <2>1, <2>2, <2>3, <2>4, OwnStepTypes, LocalStep
  <1>4. CASE Derive(r) /\ MaySucceed(View(r), run[r].now) /\ Len(View(r)) < MaxCycles
    <2> DEFINE me == [run[r] EXCEPT !.pc = "cycle", !.next[1].num = Len(View(r)) + 1]
    <2>1. run[r].pc = "derive" /\ UNCHANGED onlyRun /\ run' = [run EXCEPT ![r] = me]
      BY <1>4 DEF Derive
    <2>2. Len(run[r].next) = 1 /\ run[r].next \in Seq(CycleType)
      BY <1>1, <2>1 DEF RentInv, RunsReady, RunType
    <2>3. [run[r].next[1] EXCEPT !.num = Len(View(r)) + 1] \in CycleType
      <3>1. run[r].next[1] \in CycleType /\ Len(View(r)) + 1 \in Nat
        BY <1>1, <2>2
      <3> QED  BY <3>1 DEF CycleType
    <2>4. me.next = [run[r].next EXCEPT ![1] = [run[r].next[1] EXCEPT !.num = Len(View(r)) + 1]]
      BY <1>1 DEF RunType
    <2>5. me.next \in Seq(CycleType) /\ Len(me.next) = 1 /\ me.next[1].num = Len(View(r)) + 1
      <3>1. me.next[1] = [run[r].next[1] EXCEPT !.num = Len(View(r)) + 1]
        BY <2>2, <2>4
      <3>2. run[r].next[1] \in CycleType
        BY <2>2
      <3>3. me.next[1].num = Len(View(r)) + 1
        BY <3>1, <3>2 DEF CycleType
      <3> HIDE DEF me
      <3> QED  BY <2>2, <2>3, <2>4, <3>3
    <2>6. me \in RunType
      <3>1. "cycle" \in RunPcs
        BY DEF RunPcs
      <3> QED  BY <1>1, <2>5, <3>1 DEF RunType
    <2>7. /\ me.cyc = run[r].cyc /\ me.ins = run[r].ins /\ me.todo = run[r].todo
          /\ me.policy = run[r].policy /\ me.pc = "cycle"
      BY <1>1 DEF RunType
    <2> HIDE DEF me
    <2>8. /\ RunsTyped' /\ UNCHANGED <<cycles, rows>>
          /\ run'[r] = me /\ \A q \in Runs \ {r} : run'[q] = run[q]
      BY <2>1, <2>6, OwnStepTypes
    <2>9. Number(r)' = Len(View(r)) + 1
      BY <2>5, <2>8 DEF Number
    <2> QED  BY <1>1, <1>2, <1>4, <2>1, <2>5, <2>7, <2>8, <2>9, LocalStep
  <1>5. CASE Derive(r) /\ ~(MaySucceed(View(r), run[r].now) /\ Len(View(r)) < MaxCycles)
    <2>1. run' = [run EXCEPT ![r] = IdleRun] /\ UNCHANGED <<tables, clockVars, teacherVars>>
      BY <1>5 DEF Derive, onlyRun
    <2> QED  BY <2>1, EndStep
  <1> QED  BY <1>3, <1>4, <1>5

\* What a run sees fits the bound, so what it bills are liabilities.
LEMMA ViewFits ==
  ASSUME RentInv, NEW r \in Runs
  PROVE  Len(View(r)) \in Nat /\ DOMAIN View(r) = 1..Len(View(r)) /\ Len(View(r)) =< MaxCycles
  <1>1. Len(cycles) + Len(run[r].cyc) =< MaxCycles
    BY DEF RentInv, NumbersCurrent, NumberCurrent
  <1>2. View(r) \in Seq(CycleType) /\ Len(View(r)) = Len(cycles) + Len(run[r].cyc)
    BY ViewFacts DEF RentInv
  <1> QED  BY <1>1, <1>2

\* A run's record with new work to assess, and with a new program counter.
LEMMA TodoStep ==
  ASSUME RentInv, NEW r \in Runs, UNCHANGED onlyRun,
         NEW pc \in {"assess", "fees"}, NEW todo \in SUBSET Corr,
         run[r].pc \notin {"idle", "begin"},
         \A c \in todo : CycleOf(c) \in 1..Len(View(r)),
         run' = [run EXCEPT ![r].pc = pc, ![r].todo = todo]
  PROVE  RentInv'
  <1> DEFINE me == [run[r] EXCEPT !.pc = pc, !.todo = todo]
  <1>1. run[r] \in RunType /\ pc \in RunPcs /\ run[r].policy \in Policies
    BY DEF RentInv, RunsTyped, RunPcs, RunsReady
  <1>2. me \in RunType
    BY <1>1 DEF RunType
  <1>3. /\ me.cyc = run[r].cyc /\ me.ins = run[r].ins /\ me.todo = todo
        /\ me.policy = run[r].policy /\ me.pc = pc
    BY <1>1 DEF RunType
  <1>4. run' = [run EXCEPT ![r] = me]
    BY DEF RentInv, RunsTyped
  <1> HIDE DEF me
  <1> QED  BY <1>1, <1>2, <1>3, <1>4, OwnStepTypes, LocalStep

\* The roster and the late fees are read.
LEMMA ReadStep ==
  ASSUME RentInv, NEW r \in Runs, ReadRoster(r) \/ ReadLateRent(r)
  PROVE  RentInv'
  <1>1. Len(View(r)) \in Nat /\ DOMAIN View(r) = 1..Len(View(r)) /\ Len(View(r)) =< MaxCycles
    BY ViewFits
  <1>2. claimed \subseteq Seats /\ MaxCycles \in Nat /\ MaxFees \in Nat
    BY ObligationConstants DEF RentInv, RunsTyped
  <1>3. CASE ReadRoster(r)
    <2> DEFINE billed == IF run[r].on THEN RosterCycles(r) ELSE {}
               todo == {RentOf(s, n) : s \in claimed, n \in billed} \ {c \in Corr : Assessed(c)}
    <2>1. billed \subseteq 1..Len(View(r))
      BY <1>1 DEF RosterCycles, CurrentCycles, UpcomingCycles
    <2>2. \A s \in Seats, n \in 1..Len(View(r)) :
            RentOf(s, n) \in Corr /\ CycleOf(RentOf(s, n)) = n
      BY <1>1, <1>2 DEF RentOf, Corr, CycleOf
    <2>3. todo \in SUBSET Corr /\ \A c \in todo : CycleOf(c) \in 1..Len(View(r))
      BY <1>2, <2>1, <2>2
    <2>4. /\ run[r].pc = "roster" /\ UNCHANGED onlyRun
          /\ run' = [run EXCEPT ![r].pc = "assess", ![r].todo = todo]
      BY <1>3 DEF ReadRoster
    <2> HIDE DEF todo
    <2> QED  BY <2>3, <2>4, TodoStep
  <1>4. CASE ReadLateRent(r)
    <2> DEFINE late(s, n) ==
                 IF Outstanding(RentOf(s, n)) \/ RentOf(s, n) \in Mine(r)
                 THEN {<<s, n, k>> : k \in LateFees(View(r)[n], run[r].now)} ELSE {}
               todo == UNION {late(s, n) : s \in claimed, n \in DOMAIN View(r)}
                         \ {c \in Corr : Assessed(c)}
    <2>1. \A y, t : LateFees(y, t) \subseteq 1..MaxFees
      BY DEF LateFees
    <2>2. \A s \in Seats, n \in 1..Len(View(r)), k \in 1..MaxFees :
            <<s, n, k>> \in Corr /\ CycleOf(<<s, n, k>>) = n
      BY <1>1, <1>2 DEF Corr, CycleOf
    <2>3. ASSUME NEW c \in todo PROVE c \in Corr /\ CycleOf(c) \in 1..Len(View(r))
      <3>1. PICK s \in claimed, n \in DOMAIN View(r) : c \in late(s, n)
        BY <2>3
      <3>2. PICK k \in LateFees(View(r)[n], run[r].now) : c = <<s, n, k>>
        BY <3>1
      <3> QED  BY <1>1, <1>2, <2>1, <2>2, <3>2
    <2>4. /\ run[r].pc = "late" /\ UNCHANGED onlyRun
          /\ run' = [run EXCEPT ![r].pc = "fees", ![r].todo = todo]
      BY <1>4 DEF ReadLateRent
    <2> HIDE DEF todo
    <2>5. todo \in SUBSET Corr
      BY <2>3
    <2> QED  BY <2>3, <2>4, <2>5, TodoStep
  <1> QED  BY <1>3, <1>4

\* Perks are expired and granted: no assessment, no cycle.
LEMMA PerksStep ==
  ASSUME RentInv, NEW r \in Runs, ExpirePerks(r) \/ GrantPerks(r)
  PROVE  RentInv'
  <1>1. /\ run[r] \in RunType
        /\ \A c \in run[r].todo : CycleOf(c) \in 1..Len(View(r))
    BY DEF RentInv, RunsTyped, AssessmentsFrozen
  <1>2. run[r].pc \in {"expire", "grant"} /\ UNCHANGED onlyRun /\ run[r].policy \in Policies
    BY DEF ExpirePerks, GrantPerks, RentInv, RunsReady
  <1>3. PICK me \in RunType :
          /\ run' = [run EXCEPT ![r] = me]
          /\ me.cyc = run[r].cyc /\ me.ins = run[r].ins /\ me.todo = run[r].todo
          /\ me.policy = run[r].policy /\ me.pc \in {"grant", "late"}
    <2>1. CASE ExpirePerks(r)
      <3> DEFINE ends == {<<c, granted[c]>> : c \in PerksToEnd(r)}
                 me == [run[r] EXCEPT !.pc = "grant", !.seats = PerkHolders(r),
                                      !.expiring = ends]
      <3>1. ends \in SUBSET (Corr \X Nat) /\ PerkHolders(r) \in SUBSET Seats
        BY DEF RentInv, RunsTyped, PerksToEnd, PerkHolders
      <3>2. run' = [run EXCEPT ![r] = me]
        BY <2>1 DEF ExpirePerks, RentInv, RunsTyped
      <3> HIDE DEF ends
      <3>3. me \in RunType
        <4>1. "grant" \in RunPcs
          BY DEF RunPcs
        <4> QED  BY <1>1, <3>1, <4>1 DEF RunType
      <3>4. /\ me.cyc = run[r].cyc /\ me.ins = run[r].ins /\ me.todo = run[r].todo
            /\ me.policy = run[r].policy /\ me.pc = "grant"
        BY <1>1 DEF RunType
      <3> QED  BY <3>2, <3>3, <3>4
    <2>2. CASE GrantPerks(r)
      <3> DEFINE earned == PerksEarnedInAdvance(r)
                 me == [run[r] EXCEPT !.pc = "late", !.granting = earned]
      <3>1. earned \in SUBSET Corr
        BY DEF PerksEarnedInAdvance
      <3>2. run' = [run EXCEPT ![r] = me]
        BY <2>2 DEF GrantPerks, RentInv, RunsTyped
      <3> HIDE DEF earned
      <3>3. me \in RunType
        <4>1. "late" \in RunPcs
          BY DEF RunPcs
        <4> QED  BY <1>1, <3>1, <4>1 DEF RunType
      <3>4. /\ me.cyc = run[r].cyc /\ me.ins = run[r].ins /\ me.todo = run[r].todo
            /\ me.policy = run[r].policy /\ me.pc = "late"
        BY <1>1 DEF RunType
      <3> QED  BY <3>2, <3>3, <3>4
    <2> QED  BY <2>1, <2>2
  <1> QED  BY <1>1, <1>2, <1>3, OwnStepTypes, LocalStep

\* A sequence of one element, after another sequence.
LEMMA ConcatOne ==
  ASSUME NEW S, NEW s \in Seq(S), NEW e \in S
  PROVE  /\ s \o <<e>> \in Seq(S) /\ Len(s \o <<e>>) = Len(s) + 1
         /\ \A i \in 1..Len(s) : (s \o <<e>>)[i] = s[i]
         /\ (s \o <<e>>)[Len(s) + 1] = e
  OBVIOUS

\* The successor is inserted: the number is free, and no other run has inserted.
LEMMA InsertCycleStep ==
  ASSUME RentInv, NEW r \in Runs, InsertCycle(r), ~SuccessorTaken(r)
  PROVE  RentInv'
  <1> DEFINE me == [run[r] EXCEPT !.pc = "succeed", !.cyc = run[r].cyc \o run[r].next,
                                  !.next = <<>>]
             y == run[r].next[1]
  <1>1. /\ run[r] \in RunType /\ run[r].cyc \in Seq(CycleType) /\ cycles \in Seq(CycleType)
        /\ Len(cycles) \in Nat /\ Len(run[r].cyc) \in Nat /\ MaxCycles \in Nat
    BY ViewFacts, ObligationConstants DEF RentInv, RunsTyped, RunType
  <1>2. /\ run[r].pc = "cycle" /\ ~SuccessorPending(r) /\ UNCHANGED onlyRun
        /\ run' = [run EXCEPT ![r] = me]
    <2>1. run' = [run EXCEPT ![r] = IF SuccessorTaken(r) THEN IdleRun ELSE me]
      BY DEF InsertCycle
    <2> QED  BY <2>1 DEF InsertCycle
  <1>3. /\ run[r].next = <<y>> /\ y \in CycleType
        /\ run[r].policy \in Policies /\ y.num = Number(r)
    <2>1. run[r].next \in Seq(CycleType)
      BY <1>1 DEF RunType
    <2>2. Len(run[r].next) = 1 /\ run[r].policy \in Policies
      BY <1>2 DEF RentInv, RunsReady
    <2>3. y \in CycleType
      BY <2>1, <2>2
    <2>4. run[r].next = <<y>>
      BY <2>1, <2>2
    <2> QED  BY <2>1, <2>2, <2>3, <2>4 DEF Number
  <1>4. /\ Number(r) = Len(cycles) + Len(run[r].cyc) + 1
        /\ Number(r) =< MaxCycles
    <2>1. /\ Number(r) \in 1..MaxCycles /\ Number(r) =< Len(cycles) + Len(run[r].cyc) + 1
          /\ run[r].cyc # <<>> => Number(r) = Len(cycles) + Len(run[r].cyc) + 1
      BY <1>2 DEF RentInv, NumbersCurrent, NumberCurrent
    <2>2. \A n \in 1..Len(cycles) : Number(r) # n
      BY <1>1 DEF RentInv, CyclesNumberedOnce, SuccessorTaken
    <2>3. run[r].cyc = <<>> => Len(run[r].cyc) = 0
      OBVIOUS
    <2> QED  BY <1>1, <2>1, <2>2, <2>3
  <1>5. \A q \in Runs \ {r} : run[q].cyc = <<>>
    <2> SUFFICES ASSUME NEW q \in Runs \ {r}, run[q].cyc # <<>> PROVE FALSE
      OBVIOUS
    <2>1. run[r].cyc = <<>> /\ \A i \in 1..Len(run[q].cyc) : run[q].cyc[i].num = Len(cycles) + i
      BY DEF RentInv, SuccessorsNumbered
    <2>2. run[q].cyc \in Seq(CycleType)
      BY DEF RentInv, RunsTyped, RunType
    <2>3. 1 \in DOMAIN run[q].cyc /\ run[q].cyc[1].num = Len(cycles) + 1
      BY <2>1, <2>2
    <2>4. Number(r) = Len(cycles) + 1
      BY <1>1, <1>4, <2>1
    <2> QED  BY <1>2, <2>3, <2>4 DEF SuccessorPending
  <1>6. /\ me \in RunType /\ me.pc = "succeed" /\ me.cyc = run[r].cyc \o run[r].next
        /\ me.ins = run[r].ins /\ me.todo = run[r].todo /\ me.policy = run[r].policy
    <2> DEFINE new == run[r].cyc \o run[r].next
    <2>1. "succeed" \in RunPcs /\ new \in Seq(CycleType)
      BY <1>1, <1>3, ConcatOne DEF RunPcs
    <2>2. me = [run[r] EXCEPT !.pc = "succeed", !.cyc = new, !.next = <<>>]
      BY <1>1 DEF RunType
    <2> HIDE DEF new, me
    <2>3. me \in RunType /\ me.cyc = new
      <3>1. <<>> \in Seq(CycleType)
        OBVIOUS
      <3>2. me.cyc = new
        BY <1>1, <2>2 DEF RunType
      <3>3. me \in RunType
        BY <1>1, <2>1, <2>2, <3>1 DEF RunType
      <3> QED  BY <3>2, <3>3
    <2>4. /\ me.pc = "succeed" /\ me.ins = run[r].ins /\ me.todo = run[r].todo
          /\ me.policy = run[r].policy
      BY <1>1, <2>2 DEF RunType
    <2> QED  BY <2>3, <2>4 DEF new
  <1> HIDE DEF me
  <1>7. /\ RunsTyped' /\ UNCHANGED <<cycles, rows>>
        /\ run'[r] = me /\ \A q \in Runs \ {r} : run'[q] = run[q]
    BY <1>2, <1>6, OwnStepTypes
  <1>8. /\ Len(me.cyc) = Len(run[r].cyc) + 1
        /\ \A i \in 1..Len(run[r].cyc) : me.cyc[i] = run[r].cyc[i]
        /\ me.cyc[Len(run[r].cyc) + 1] = y
    <2>1. me.cyc = run[r].cyc \o <<y>> /\ run[r].cyc \in Seq(CycleType)
      BY <1>1, <1>3, <1>6
    <2> HIDE DEF y
    <2> QED  BY <1>3, <2>1, ConcatOne
  <1>9. RunsReady'
    BY <1>3, <1>6, <1>7 DEF RentInv, RunsReady
  <1>10. SuccessorsNumbered'
    <2>1. \A i \in 1..Len(me.cyc) : me.cyc[i].num = Len(cycles) + i
      <3>1. \A i \in 1..Len(run[r].cyc) : run[r].cyc[i].num = Len(cycles) + i
        BY DEF RentInv, SuccessorsNumbered
      <3>2. y.num = Len(cycles) + (Len(run[r].cyc) + 1)
        BY <1>1, <1>3, <1>4
      <3> HIDE DEF y
      <3>3. \A i \in 1..Len(me.cyc) : i \in 1..Len(run[r].cyc) \/ i = Len(run[r].cyc) + 1
        BY <1>1, <1>8
      <3> QED  BY <1>8, <3>1, <3>2, <3>3
    <2> QED  BY <1>5, <1>7, <2>1 DEF RentInv, SuccessorsNumbered
  <1>11. NumbersCurrent'
    <2>1. ASSUME NEW q \in Runs \ {r} PROVE NumberCurrent(q)'
      BY <1>7 DEF RentInv, NumbersCurrent, NumberCurrent, Number
    <2>2. NumberCurrent(r)'
      <3>1. Len(cycles) + Len(me.cyc) =< MaxCycles
        BY <1>1, <1>4, <1>8
      <3> QED  BY <1>6, <1>7, <3>1 DEF NumberCurrent
    <2> QED  BY <2>1, <2>2 DEF NumbersCurrent
  <1>12. AssessmentsFrozen'
    <2>1. /\ Len(View(r)') = Len(View(r)) + 1 /\ Len(View(r)) \in Nat
          /\ \A n \in 1..Len(View(r)) : View(r)'[n] = View(r)[n]
      <3>1. /\ Len(View(r)') = Len(cycles) + Len(me.cyc)
            /\ \A n \in 1..Len(cycles) : View(r)'[n] = cycles[n]
            /\ \A i \in 1..Len(me.cyc) : View(r)'[Len(cycles) + i] = me.cyc[i]
        <4>1. View(r)' = cycles \o me.cyc /\ me.cyc \in Seq(CycleType)
          BY <1>6, <1>7 DEF View, RunType
        <4> QED  BY <1>1, <4>1
      <3>2. /\ Len(View(r)) = Len(cycles) + Len(run[r].cyc)
            /\ \A n \in 1..Len(cycles) : View(r)[n] = cycles[n]
            /\ \A i \in 1..Len(run[r].cyc) : View(r)[Len(cycles) + i] = run[r].cyc[i]
        BY ViewFacts DEF RentInv
      <3>3. ASSUME NEW n \in 1..Len(View(r)), n > Len(cycles)
            PROVE  View(r)'[n] = View(r)[n]
        <4> DEFINE i == n - Len(cycles)
        <4>1. i \in 1..Len(run[r].cyc) /\ i \in 1..Len(me.cyc) /\ n = Len(cycles) + i
          BY <1>1, <1>8, <3>2, <3>3
        <4> HIDE DEF i
        <4> QED  BY <1>8, <3>1, <3>2, <4>1
      <3>4. ASSUME NEW n \in 1..Len(cycles) PROVE View(r)'[n] = View(r)[n]
        BY <3>1, <3>2
      <3>5. \A n \in 1..Len(View(r)) : n \in 1..Len(cycles) \/ n > Len(cycles)
        BY <1>1, <3>2
      <3>6. Len(View(r)') = Len(View(r)) + 1 /\ Len(View(r)) \in Nat
        BY <1>1, <1>8, <3>1, <3>2
      <3> QED  BY <3>3, <3>4, <3>5, <3>6
    <2>2. \A q \in Runs \ {r} : View(q)' = View(q)
      BY <1>7 DEF View
    <2> QED  BY <1>6, <1>7, <2>1, <2>2 DEF RentInv, AssessmentsFrozen
  <1>13. AssessmentsNew'
    BY <1>6, <1>7 DEF RentInv, AssessmentsNew, Mine
  <1>14. (CyclesNumberedOnce /\ AssessedOnce /\ BilledOnFrozenTerms)'
    BY <1>7 DEF RentInv, CyclesNumberedOnce, AssessedOnce, BilledOnFrozenTerms, Assessed
  <1> QED  BY <1>7, <1>9, <1>10, <1>11, <1>12, <1>13, <1>14 DEF RentInv

\* Rent or late fees are inserted: none is assessed, committed or not, by another.
LEMMA InsertAssessmentsStep ==
  ASSUME RentInv, NEW r \in Runs, NEW from \in {"assess", "fees"},
         NEW to \in {"expire", "commit"}, InsertAssessments(r, from, to)
  PROVE  RentInv'
  <1> DEFINE new == {<<c, AssessmentPolicy(r, c)>> : c \in NewAssessments(r)}
             me == [run[r] EXCEPT !.pc = to, !.todo = {}, !.ins = run[r].ins \cup new]
  <1>1. /\ run[r] \in RunType /\ View(r) \in Seq(CycleType)
        /\ run[r].ins \in SUBSET (Corr \X Policies) /\ run[r].todo \in SUBSET Corr
    <2>1. run[r] \in RunType /\ View(r) \in Seq(CycleType)
      BY ViewFacts DEF RentInv
    <2> QED  BY <2>1 DEF RunType
  <1>2. /\ run[r].pc = from /\ UNCHANGED onlyRun
        /\ run[r].todo # {} => ~AssessmentsPending(r)
        /\ run' = [run EXCEPT ![r].pc = to, ![r].todo = {}, ![r].ins = run[r].ins \cup new]
    BY DEF InsertAssessments
  <1>3. run' = [run EXCEPT ![r] = me]
    <2> HIDE DEF new
    <2> QED  BY <1>2 DEF RentInv, RunsTyped
  <1>4. \A c \in NewAssessments(r) :
          /\ c \in run[r].todo /\ c \in Corr /\ rows[c] = <<>>
          /\ CycleOf(c) \in 1..Len(View(r)) /\ AssessmentPolicy(r, c) \in Policies
    <2> SUFFICES ASSUME NEW c \in NewAssessments(r)
                 PROVE  /\ c \in run[r].todo /\ c \in Corr /\ rows[c] = <<>>
                        /\ CycleOf(c) \in 1..Len(View(r)) /\ AssessmentPolicy(r, c) \in Policies
      OBVIOUS
    <2>1. c \in run[r].todo /\ c \in Corr /\ rows[c] = <<>>
      BY <1>1 DEF NewAssessments, Assessed
    <2>2. CycleOf(c) \in 1..Len(View(r))
      BY <2>1 DEF RentInv, AssessmentsFrozen
    <2>3. View(r)[CycleOf(c)] \in CycleType
      BY <1>1, <2>2
    <2> QED  BY <2>1, <2>2, <2>3 DEF AssessmentPolicy, CycleType
  <1>5. /\ new \in SUBSET (Corr \X Policies)
        /\ \A i \in new : /\ i[1] \in run[r].todo /\ rows[i[1]] = <<>>
                          /\ CycleOf(i[1]) \in 1..Len(View(r))
                          /\ i[2] = View(r)[CycleOf(i[1])].policy
    BY <1>4 DEF AssessmentPolicy
  <1> HIDE DEF new
  <1>6. /\ me \in RunType /\ me.pc = to /\ me.cyc = run[r].cyc /\ me.todo = {}
        /\ me.ins = run[r].ins \cup new /\ me.policy = run[r].policy
    <2>1. to \in RunPcs /\ run[r].ins \cup new \in SUBSET (Corr \X Policies)
      BY <1>1, <1>5 DEF RunPcs
    <2> QED  BY <1>1, <2>1 DEF RunType
  <1> HIDE DEF me
  <1>7. /\ RunsTyped' /\ UNCHANGED <<cycles, rows>>
        /\ run'[r] = me /\ \A q \in Runs \ {r} : run'[q] = run[q]
    BY <1>2, <1>3, <1>6, OwnStepTypes
  <1>8. RunsReady'
    BY <1>2, <1>6, <1>7 DEF RentInv, RunsReady
  <1>9. SuccessorsNumbered'
    BY <1>6, <1>7 DEF RentInv, SuccessorsNumbered
  <1>10. NumbersCurrent'
    BY <1>6, <1>7 DEF RentInv, NumbersCurrent, NumberCurrent, Number
  <1>11. AssessmentsFrozen'
    <2>1. \A q \in Runs : View(q)' = View(q)
      BY <1>6, <1>7 DEF View
    <2> QED  BY <1>5, <1>6, <1>7, <2>1 DEF RentInv, AssessmentsFrozen
  <1>12. AssessmentsNew'
    <2>1. Mine(r)' = Mine(r) \cup {i[1] : i \in new}
      BY <1>6, <1>7 DEF Mine
    <2>2. \A q \in Runs \ {r} : Mine(q)' = Mine(q) /\ run[r].todo \cap Mine(q) = {}
      BY <1>2, <1>7 DEF Mine, AssessmentsPending
    <2>3. \A q \in Runs \ {r} : (Mine(r) \cap Mine(q))' = {}
      BY <1>5, <2>1, <2>2 DEF RentInv, AssessmentsNew
    <2>4. \A q \in Runs \ {r} : \A p \in Runs \ {r, q} : (Mine(q) \cap Mine(p))' = {}
      BY <2>2, <2>3 DEF RentInv, AssessmentsNew
    <2>5. \A q \in Runs : \A i \in run'[q].ins : rows'[i[1]] = <<>>
      BY <1>5, <1>6, <1>7 DEF RentInv, AssessmentsNew
    <2> QED  BY <2>3, <2>4, <2>5 DEF AssessmentsNew
  <1>13. (CyclesNumberedOnce /\ AssessedOnce /\ BilledOnFrozenTerms)'
    BY <1>7 DEF RentInv, CyclesNumberedOnce, AssessedOnce, BilledOnFrozenTerms, Assessed
  <1> QED  BY <1>7, <1>8, <1>9, <1>10, <1>11, <1>12, <1>13 DEF RentInv

\* Nothing after a sequence.
LEMMA ConcatEmpty == ASSUME NEW S, NEW s \in Seq(S) PROVE s \o <<>> = s
  OBVIOUS

\* What a commit does to the tables: the lineage the run saw becomes the lineage,
\* and each liability it assessed gets its first row.
LEMMA CommitFacts ==
  ASSUME RentInv, NEW r \in Runs, RunCommit(r)
  PROVE  /\ cycles' = View(r) /\ UNCHANGED <<now, policy, features, claimed, disable>>
         /\ run' = [run EXCEPT ![r] = IdleRun]
         /\ rows' \in [Corr -> Seq(Policies)]
         /\ granted' \in [Corr -> Nat] /\ expired' \in [Corr -> Nat]
         /\ \A c \in Corr \ Mine(r) : rows'[c] = rows[c]
         /\ \A c \in Corr \cap Mine(r) :
              CycleOf(c) \in 1..Len(View(r)) /\ rows'[c] = <<View(r)[CycleOf(c)].policy>>
  <1>1. /\ cycles' = View(r) /\ UNCHANGED <<now, policy, features, claimed, disable>>
        /\ run' = [run EXCEPT ![r] = IdleRun]
    BY DEF RunCommit, clockVars, teacherVars
  <1> DEFINE own(c) == (CHOOSE i \in run[r].ins : i[1] = c)[2]
  <1>2. rows' = [c \in Corr |-> IF c \in Mine(r) THEN Append(rows[c], own(c)) ELSE rows[c]]
    BY DEF RunCommit
  <1>3. run[r].ins \in SUBSET (Corr \X Policies) /\ run[r].expiring \in SUBSET (Corr \X Nat)
    BY DEF RentInv, RunsTyped, RunType
  <1>4. ASSUME NEW c \in Corr \cap Mine(r)
        PROVE  /\ CycleOf(c) \in 1..Len(View(r)) /\ own(c) = View(r)[CycleOf(c)].policy
               /\ own(c) \in Policies /\ rows[c] = <<>>
    <2> DEFINE i == CHOOSE i \in run[r].ins : i[1] = c
    <2>1. i \in run[r].ins /\ i[1] = c
      BY DEF Mine
    <2>2. own(c) = i[2]
      OBVIOUS
    <2> HIDE DEF i, own
    <2> QED  BY <1>3, <2>1, <2>2 DEF RentInv, AssessmentsFrozen, AssessmentsNew
  <1> HIDE DEF own
  <1>5. \A c \in Corr \cap Mine(r) : rows'[c] = <<own(c)>>
    <2> SUFFICES ASSUME NEW c \in Corr \cap Mine(r) PROVE rows'[c] = <<own(c)>>
      OBVIOUS
    <2>1. rows'[c] = Append(<<>>, own(c))
      BY <1>2, <1>4
    <2> QED  BY <2>1
  <1>6. \A c \in Corr \ Mine(r) : rows'[c] = rows[c]
    BY <1>2
  <1>7. rows' \in [Corr -> Seq(Policies)]
    <2>1. ASSUME NEW c \in Corr PROVE rows'[c] \in Seq(Policies)
      <3>1. CASE c \in Mine(r)
        <4>1. rows'[c] = <<own(c)>> /\ own(c) \in Policies
          BY <1>4, <1>5, <3>1
        <4> QED  BY <4>1
      <3>2. CASE c \notin Mine(r)
        BY <1>6, <3>2 DEF RentInv, RunsTyped
      <3> QED  BY <3>1, <3>2
    <2> QED  BY <1>2, <2>1
  <1>8. granted' \in [Corr -> Nat]
    BY DEF RunCommit, RentInv, RunsTyped
  <1>9. expired' \in [Corr -> Nat]
    <2> DEFINE ends(c) == (CHOOSE e \in run[r].expiring : e[1] = c)[2]
    <2>1. \A c \in Corr : (\E e \in run[r].expiring : e[1] = c) => ends(c) \in Nat
      BY <1>3
    <2>2. expired' = [c \in Corr |-> IF \E e \in run[r].expiring : e[1] = c
                                     THEN ends(c) ELSE expired[c]]
      BY DEF RunCommit
    <2> HIDE DEF ends
    <2> QED  BY <2>1, <2>2 DEF RentInv, RunsTyped
  <1> QED  BY <1>1, <1>4, <1>5, <1>6, <1>7, <1>8, <1>9

\* Committing a run: the other runs' lineages only grow at their end.
LEMMA CommitStep ==
  ASSUME RentInv, NEW r \in Runs, RunCommit(r)
  PROVE  RentInv'
  <1>1. /\ cycles' = View(r) /\ cycles \in Seq(CycleType) /\ View(r) \in Seq(CycleType)
        /\ Len(cycles) \in Nat /\ Len(run[r].cyc) \in Nat /\ MaxCycles \in Nat
        /\ Len(cycles') = Len(cycles) + Len(run[r].cyc) /\ Len(cycles') =< MaxCycles
        /\ \A n \in 1..Len(cycles) : cycles'[n] = cycles[n]
        /\ \A i \in 1..Len(run[r].cyc) : cycles'[Len(cycles) + i] = run[r].cyc[i]
    <2>1. cycles' = View(r)
      BY CommitFacts
    <2> QED  BY <2>1, ViewFacts, ViewFits, ObligationConstants DEF RentInv, RunsTyped
  <1>2. /\ IdleRun.cyc = <<>> /\ IdleRun.ins = {} /\ IdleRun.todo = {}
        /\ IdleRun.pc = "idle" /\ IdleRun \in RunType
    BY IdleFacts DEF IdleRun
  <1>3. /\ run'[r] = IdleRun /\ run' \in [Runs -> RunType]
        /\ \A q \in Runs \ {r} : run'[q] = run[q]
    BY <1>2, CommitFacts DEF RentInv, RunsTyped
  <1>4. RunsTyped'
    BY <1>1, <1>3, CommitFacts DEF RentInv, RunsTyped
  <1>5. \A q \in Runs \ {r} : \/ run[r].cyc = <<>> /\ cycles' = cycles
                              \/ run[q].cyc = <<>>
    <2>1. run[r].cyc = <<>> => cycles' = cycles
      BY <1>1, ConcatEmpty DEF View
    <2> QED  BY <2>1 DEF RentInv, SuccessorsNumbered
  <1>6. ASSUME NEW q \in Runs \ {r}
        PROVE  /\ Len(View(q)) =< Len(View(q)') /\ Len(View(q)) \in Nat /\ Len(View(q)') \in Nat
               /\ \A n \in 1..Len(View(q)) : View(q)'[n] = View(q)[n]
    <2>1. CASE cycles' = cycles
      <3>1. View(q)' = View(q) /\ View(q) \in Seq(CycleType)
        BY <1>3, <2>1, ViewFacts DEF View, RentInv
      <3> QED  BY <3>1
    <2>2. CASE run[q].cyc = <<>>
      <3>1. View(q)' = cycles' /\ View(q) = cycles
        BY <1>1, <1>3, <2>2, ConcatEmpty DEF View
      <3> QED  BY <1>1, <3>1
    <2> QED  BY <1>5, <2>1, <2>2
  <1>7. RunsReady'
    BY <1>2, <1>3 DEF RentInv, RunsReady
  <1>8. CyclesNumberedOnce'
    <2> SUFFICES ASSUME NEW n \in 1..Len(cycles') PROVE cycles'[n].num = n
      BY <1>1 DEF CyclesNumberedOnce
    <2>1. CASE n \in 1..Len(cycles)
      BY <1>1, <2>1 DEF RentInv, CyclesNumberedOnce
    <2>2. CASE n \notin 1..Len(cycles)
      <3> DEFINE i == n - Len(cycles)
      <3>1. i \in 1..Len(run[r].cyc) /\ n = Len(cycles) + i
        BY <1>1, <2>2
      <3> HIDE DEF i
      <3> QED  BY <1>1, <3>1 DEF RentInv, SuccessorsNumbered
    <2> QED  BY <2>1, <2>2
  <1>9. SuccessorsNumbered'
    <2>1. ASSUME NEW q \in Runs, NEW i \in 1..Len(run'[q].cyc)
          PROVE  run'[q].cyc[i].num = Len(cycles') + i
      <3>1. q # r /\ run'[q] = run[q] /\ run[q].cyc # <<>>
        BY <1>2, <1>3
      <3>2. cycles' = cycles
        BY <1>5, <3>1
      <3> QED  BY <3>1, <3>2 DEF RentInv, SuccessorsNumbered
    <2>2. \A p, q \in Runs : p # q => run'[p].cyc = <<>> \/ run'[q].cyc = <<>>
      BY <1>2, <1>3 DEF RentInv, SuccessorsNumbered
    <2> QED  BY <2>1, <2>2 DEF SuccessorsNumbered
  <1>10. NumbersCurrent'
    <2>1. ASSUME NEW q \in Runs \ {r} PROVE NumberCurrent(q)'
      <3>1. NumberCurrent(q) /\ run'[q] = run[q]
        BY <1>3 DEF RentInv, NumbersCurrent
      <3>2. CASE cycles' = cycles
        BY <3>1, <3>2 DEF NumberCurrent, Number
      <3>3. CASE run[q].cyc = <<>>
        <4>1. Len(run[q].cyc) = 0
          BY <3>3
        <4>2. run[q].pc = "cycle" => Number(q) \in 1..MaxCycles /\ Number(q) =< Len(cycles) + 1
          BY <1>1, <3>1, <4>1 DEF NumberCurrent
        <4>3. Number(q)' = Number(q)
          BY <3>1 DEF Number
        <4> QED  BY <1>1, <3>1, <3>3, <4>1, <4>2, <4>3 DEF NumberCurrent
      <3> QED  BY <1>5, <3>2, <3>3
    <2>2. NumberCurrent(r)'
      <3>1. Len(run'[r].cyc) = 0 /\ run'[r].pc # "cycle"
        BY <1>2, <1>3
      <3> QED  BY <1>1, <3>1 DEF NumberCurrent
    <2> QED  BY <2>1, <2>2 DEF NumbersCurrent
  <1>11. AssessmentsFrozen'
    BY <1>2, <1>3, <1>6 DEF RentInv, AssessmentsFrozen
  <1>12. AssessmentsNew'
    <2>1. Mine(r)' = {} /\ \A q \in Runs \ {r} : Mine(q)' = Mine(q)
      BY <1>2, <1>3 DEF Mine
    <2>2. ASSUME NEW q \in Runs \ {r}, NEW i \in run[q].ins PROVE rows'[i[1]] = <<>>
      <3>1. i[1] \in Corr
        BY <2>2 DEF RentInv, RunsTyped, RunType
      <3>2. i[1] \notin Mine(r)
        BY <2>2 DEF RentInv, AssessmentsNew, Mine
      <3> QED  BY <2>2, <3>1, <3>2, CommitFacts DEF RentInv, AssessmentsNew
    <2> QED  BY <1>2, <1>3, <2>1, <2>2 DEF RentInv, AssessmentsNew
  <1>13. AssessedOnce'
    <2>1. ASSUME NEW c \in Corr \cap Mine(r) PROVE Len(rows'[c]) =< 1
      <3>1. rows'[c] = <<View(r)[CycleOf(c)].policy>>
        BY CommitFacts
      <3> QED  BY <3>1
    <2>2. ASSUME NEW c \in Corr \ Mine(r) PROVE Len(rows'[c]) =< 1
      BY CommitFacts DEF RentInv, AssessedOnce
    <2> QED  BY <2>1, <2>2 DEF AssessedOnce
  <1>14. BilledOnFrozenTerms'
    <2> SUFFICES ASSUME NEW c \in Corr, rows'[c] # <<>>
                 PROVE  /\ CycleOf(c) \in DOMAIN cycles'
                        /\ \A i \in DOMAIN rows'[c] : rows'[c][i] = cycles'[CycleOf(c)].policy
      BY DEF BilledOnFrozenTerms, Assessed
    <2>1. CASE c \in Mine(r)
      <3>1. CycleOf(c) \in 1..Len(View(r)) /\ rows'[c] = <<View(r)[CycleOf(c)].policy>>
        BY <2>1, CommitFacts
      <3> QED  BY <1>1, <3>1
    <2>2. CASE c \notin Mine(r)
      <3>1. rows'[c] = rows[c]
        BY <2>2, CommitFacts
      <3>2. /\ CycleOf(c) \in 1..Len(cycles)
            /\ \A i \in DOMAIN rows[c] : rows[c][i] = cycles[CycleOf(c)].policy
        BY <1>1, <3>1 DEF RentInv, BilledOnFrozenTerms, Assessed
      <3> QED  BY <1>1, <3>1, <3>2
    <2> QED  BY <2>1, <2>2
  <1> QED
    BY <1>4, <1>7, <1>8, <1>9, <1>10, <1>11, <1>12, <1>13, <1>14 DEF RentInv

\* Every step preserves the invariant.
LEMMA NextInv == RentInv /\ [Next]_vars => RentInv'
  <1> SUFFICES ASSUME RentInv, [Next]_vars PROVE RentInv'
    OBVIOUS
  <1>1. CASE UNCHANGED vars
    <2>1. UNCHANGED <<cycles, rows, run, granted, expired, now, policy, features, claimed, disable>>
      BY <1>1 DEF vars, tables, clockVars, teacherVars
    <2>2. RunsTyped'
      BY <2>1 DEF RentInv, RunsTyped
    <2> QED  BY <2>1, <2>2, QuietStep
  <1>2. ASSUME NEW r \in Runs, JobCheck(r) \/ RunStep(r) \/ RunAbort(r) PROVE RentInv'
    <2>1. CASE JobCheck(r) \/ Begin(r)
      BY <2>1, BeginStep
    <2>2. CASE Succeed(r) \/ Derive(r)
      BY <2>2, SucceedStep
    <2>3. CASE InsertCycle(r)
      <3>1. CASE SuccessorTaken(r)
        <4>1. run' = [run EXCEPT ![r] = IdleRun] /\ UNCHANGED <<tables, clockVars, teacherVars>>
          BY <2>3, <3>1 DEF InsertCycle, onlyRun
        <4> QED  BY <4>1, EndStep
      <3> QED  BY <2>3, <3>1, InsertCycleStep
    <2>4. CASE ReadRoster(r) \/ ReadLateRent(r)
      BY <2>4, ReadStep
    <2>5. CASE InsertRent(r) \/ InsertFees(r)
      BY <2>5, InsertAssessmentsStep DEF InsertRent, InsertFees
    <2>6. CASE ExpirePerks(r) \/ GrantPerks(r)
      BY <2>6, PerksStep
    <2>7. CASE RunCommit(r)
      BY <2>7, CommitStep
    <2>8. CASE RunAbort(r)
      BY <2>8, EndStep DEF RunAbort
    <2> QED  BY <1>2, <2>1, <2>2, <2>3, <2>4, <2>5, <2>6, <2>7, <2>8 DEF RunStep
  <1> QED  BY <1>1, <1>2, OthersStep DEF Next

\* The invariant holds in every reachable state.
LEMMA RentInvariant == Spec => []RentInv
  BY InitInv, NextInv, PTL DEF Spec

-----------------------------------------------------------------------------
(***************************************************************************)
(* However many reconciliations overlap, a cycle number is used once.      *)
(***************************************************************************)
THEOREM SuccessorsAreUnique == Spec => []CyclesNumberedOnce
  <1>1. RentInv => CyclesNumberedOnce
    BY DEF RentInv
  <1> QED  BY <1>1, RentInvariant, PTL

(***************************************************************************)
(* However many reconciliations overlap and repeat, a liability has one    *)
(* assessment.                                                             *)
(***************************************************************************)
THEOREM LiabilitiesAssessedOnce == Spec => []AssessedOnce
  <1>1. RentInv => AssessedOnce
    BY DEF RentInv
  <1> QED  BY <1>1, RentInvariant, PTL

(***************************************************************************)
(* Whatever the teacher saves in between, an assessment carries the policy *)
(* frozen on its bill cycle.                                               *)
(***************************************************************************)
THEOREM TermsStayFrozen == Spec => []BilledOnFrozenTerms
  <1>1. RentInv => BilledOnFrozenTerms
    BY DEF RentInv
  <1> QED  BY <1>1, RentInvariant, PTL

-----------------------------------------------------------------------------
(***************************************************************************)
(* Sums over finite sets.  The folds of the community modules choose a     *)
(* recursive function on the subsets of a set; there is exactly one.  Each *)
(* lemma is proved on a smallest set for which it would fail.              *)
(***************************************************************************)

\* The element a sum over s takes first, and the function a sum is defined by.
First(s) == CHOOSE x \in s : TRUE

IsSum(h, f, S) ==
  h = [s \in SUBSET S |-> IF s = {} THEN 0 ELSE f[First(s)] + h[s \ {First(s)}]]

\* The sum of f over the finite set S.
Total(f, S) == (CHOOSE h : IsSum(h, f, S))[S]

\* A nonempty collection of subsets of a finite set has a minimal one.
LEMMA SmallestSubset ==
  ASSUME NEW S, IsFiniteSet(S), NEW C \in SUBSET (SUBSET S), C # {}
  PROVE  \E T \in C : \A U \in C : U \subseteq T => U = T
  <1>1. IsWellFoundedOn(StrictSubsetOrdering(S), SUBSET S)
    BY FS_StrictSubsetOrderingWellFounded, FS_FiniteSubsetsOfFinite
  <1>2. PICK T \in C : \A U \in C : ~ (<<U, T>> \in StrictSubsetOrdering(S))
    BY <1>1, WFMin
  <1> QED  BY <1>2 DEF StrictSubsetOrdering

\* The first element is one of the set.
LEMMA FirstFacts == \A s : s # {} => First(s) \in s
  BY DEF First

\* A sum restricted to subsets is a sum.
LEMMA SumRestricted ==
  ASSUME NEW f, NEW S, NEW h, IsSum(h, f, S), NEW T \in SUBSET S
  PROVE  IsSum([s \in SUBSET T |-> h[s]], f, T)
  <1> DEFINE g == [s \in SUBSET T |-> h[s]]
  <1>1. \A s \in SUBSET T : g[s] = IF s = {} THEN 0 ELSE f[First(s)] + g[s \ {First(s)}]
    <2> TAKE s \in SUBSET T
    <2>1. s \in SUBSET S /\ s \ {First(s)} \in SUBSET T
      OBVIOUS
    <2>2. h[s] = IF s = {} THEN 0 ELSE f[First(s)] + h[s \ {First(s)}]
      BY <2>1 DEF IsSum
    <2> QED  BY <2>1, <2>2
  <1> QED  BY <1>1 DEF IsSum

\* Two sums of the same values are the same function.
LEMMA SumUnique ==
  ASSUME NEW f, NEW S, IsFiniteSet(S), NEW g, IsSum(g, f, S), NEW h, IsSum(h, f, S)
  PROVE  g = h
  <1>1. \A s \in SUBSET S :
          /\ g[s] = IF s = {} THEN 0 ELSE f[First(s)] + g[s \ {First(s)}]
          /\ h[s] = IF s = {} THEN 0 ELSE f[First(s)] + h[s \ {First(s)}]
    BY DEF IsSum
  <1>2. \A s \in SUBSET S : g[s] = h[s]
    <2> DEFINE C == {s \in SUBSET S : g[s] # h[s]}
    <2> SUFFICES ASSUME C # {} PROVE FALSE
      OBVIOUS
    <2>1. PICK T \in C : \A U \in C : U \subseteq T => U = T
      <3>1. C \in SUBSET (SUBSET S)
        OBVIOUS
      <3> HIDE DEF C
      <3> QED  BY <3>1, SmallestSubset
    <2>2. CASE T = {}
      BY <1>1, <2>1, <2>2
    <2>3. CASE T # {}
      <3>1. T \ {First(T)} \in SUBSET S /\ T \ {First(T)} # T
        BY <2>3, FirstFacts
      <3>2. g[T \ {First(T)}] = h[T \ {First(T)}]
        BY <2>1, <3>1
      <3> QED  BY <1>1, <2>1, <2>3, <3>2
    <2> QED  BY <2>2, <2>3
  <1>3. g = [s \in SUBSET S |-> g[s]] /\ h = [s \in SUBSET S |-> h[s]]
    BY DEF IsSum
  <1> QED  BY <1>2, <1>3

\* Where a sum exists, it is the one Total chooses, on every subset.
LEMMA TotalOfSum ==
  ASSUME NEW f, NEW S, IsFiniteSet(S), NEW h, IsSum(h, f, S), NEW T \in SUBSET S
  PROVE  Total(f, T) = h[T]
  <1>1. IsFiniteSet(T)
    BY FS_Subset
  <1> DEFINE g == [s \in SUBSET T |-> h[s]]
  <1>2. IsSum(g, f, T)
    BY SumRestricted
  <1> HIDE DEF g
  <1>3. IsSum(CHOOSE k : IsSum(k, f, T), f, T)
    BY <1>2
  <1>4. (CHOOSE k : IsSum(k, f, T)) = g
    BY <1>1, <1>2, <1>3, SumUnique
  <1>5. Total(f, T) = g[T]
    BY <1>4 DEF Total
  <1> QED  BY <1>5 DEF g

\* Every finite set has a sum.
LEMMA SumExists ==
  ASSUME NEW f, NEW S, IsFiniteSet(S)
  PROVE  \E h : IsSum(h, f, S)
  <1> DEFINE C == {T \in SUBSET S : ~ \E h : IsSum(h, f, T)}
  <1> SUFFICES ASSUME C # {} PROVE FALSE
    OBVIOUS
  <1>1. PICK T \in C : \A U \in C : U \subseteq T => U = T
    <2>1. C \in SUBSET (SUBSET S)
      OBVIOUS
    <2> HIDE DEF C
    <2> QED  BY <2>1, SmallestSubset
  <1>2. IsFiniteSet(T) /\ T \in SUBSET S
    BY <1>1, FS_Subset
  <1> DEFINE g == [s \in SUBSET T |->
                     IF s = {} THEN 0 ELSE f[First(s)] + Total(f, s \ {First(s)})]
  <1>3. ASSUME NEW s \in SUBSET T, s # T
        PROVE  g[s] = Total(f, s)
    <2>1. PICK h : IsSum(h, f, s)
      BY <1>1, <1>2, <1>3
    <2>2. IsFiniteSet(s) /\ s \ {First(s)} \in SUBSET s /\ s \in SUBSET s
      BY <1>2, FS_Subset
    <2>3. Total(f, s) = h[s] /\ Total(f, s \ {First(s)}) = h[s \ {First(s)}]
      BY <2>1, <2>2, TotalOfSum
    <2>4. h[s] = IF s = {} THEN 0 ELSE f[First(s)] + h[s \ {First(s)}]
      BY <2>1, <2>2 DEF IsSum
    <2> QED  BY <2>3, <2>4
  <1>4. \A s \in SUBSET T : g[s] = IF s = {} THEN 0 ELSE f[First(s)] + g[s \ {First(s)}]
    <2> TAKE s \in SUBSET T
    <2>1. CASE s = {}
      BY <2>1
    <2>2. CASE s # {}
      <3>1. s \ {First(s)} \in SUBSET T /\ s \ {First(s)} # T
        BY <2>2, FirstFacts
      <3>2. g[s \ {First(s)}] = Total(f, s \ {First(s)})
        BY <1>3, <3>1
      <3>3. g[s] = f[First(s)] + Total(f, s \ {First(s)})
        BY <2>2
      <3> QED  BY <2>2, <3>2, <3>3
    <2> QED  BY <2>1, <2>2
  <1>5. IsSum(g, f, T)
    BY <1>4 DEF IsSum
  <1> QED  BY <1>1, <1>5

\* A total is its first value plus the rest.
LEMMA TotalUnfold ==
  ASSUME NEW f, NEW S, IsFiniteSet(S)
  PROVE  Total(f, S) = IF S = {} THEN 0 ELSE f[First(S)] + Total(f, S \ {First(S)})
  <1>1. PICK h : IsSum(h, f, S)
    BY SumExists
  <1>2. S \in SUBSET S /\ S \ {First(S)} \in SUBSET S
    OBVIOUS
  <1>3. Total(f, S) = h[S] /\ Total(f, S \ {First(S)}) = h[S \ {First(S)}]
    BY <1>1, <1>2, TotalOfSum
  <1> QED  BY <1>1, <1>2, <1>3 DEF IsSum

\* A total of integers is an integer.
LEMMA TotalInt ==
  ASSUME NEW f, NEW S, IsFiniteSet(S), \A x \in S : f[x] \in Int
  PROVE  Total(f, S) \in Int
  <1> DEFINE C == {T \in SUBSET S : Total(f, T) \notin Int}
  <1> SUFFICES ASSUME C # {} PROVE FALSE
    OBVIOUS
  <1>1. PICK T \in C : \A U \in C : U \subseteq T => U = T
    <2>1. C \in SUBSET (SUBSET S)
      OBVIOUS
    <2> HIDE DEF C
    <2> QED  BY <2>1, SmallestSubset
  <1>2. Total(f, T) = IF T = {} THEN 0 ELSE f[First(T)] + Total(f, T \ {First(T)})
    BY <1>1, FS_Subset, TotalUnfold
  <1>3. T # {} /\ First(T) \in T /\ f[First(T)] \in Int
    BY <1>1, <1>2, FirstFacts
  <1>4. Total(f, T \ {First(T)}) \in Int
    BY <1>1, <1>3
  <1> QED  BY <1>1, <1>2, <1>3, <1>4

\* A total of naturals is a natural number.
LEMMA TotalNat ==
  ASSUME NEW f, NEW S, IsFiniteSet(S), \A x \in S : f[x] \in Nat
  PROVE  Total(f, S) \in Nat
  <1> DEFINE C == {T \in SUBSET S : Total(f, T) \notin Nat}
  <1> SUFFICES ASSUME C # {} PROVE FALSE
    OBVIOUS
  <1>1. PICK T \in C : \A U \in C : U \subseteq T => U = T
    <2>1. C \in SUBSET (SUBSET S)
      OBVIOUS
    <2> HIDE DEF C
    <2> QED  BY <2>1, SmallestSubset
  <1>2. Total(f, T) = IF T = {} THEN 0 ELSE f[First(T)] + Total(f, T \ {First(T)})
    BY <1>1, FS_Subset, TotalUnfold
  <1>3. T # {} /\ First(T) \in T /\ f[First(T)] \in Nat
    BY <1>1, <1>2, FirstFacts
  <1>4. Total(f, T \ {First(T)}) \in Nat
    BY <1>1, <1>3
  <1> QED  BY <1>1, <1>2, <1>3, <1>4

\* Any element can be taken first.
LEMMA TotalRemove ==
  ASSUME NEW f, NEW S, IsFiniteSet(S), \A x \in S : f[x] \in Int, NEW x \in S
  PROVE  Total(f, S) = f[x] + Total(f, S \ {x})
  <1> DEFINE C == {T \in SUBSET S : \E y \in T : Total(f, T) # f[y] + Total(f, T \ {y})}
  <1> SUFFICES ASSUME C # {} PROVE FALSE
    OBVIOUS
  <1>1. PICK T \in C : \A U \in C : U \subseteq T => U = T
    <2>1. C \in SUBSET (SUBSET S)
      OBVIOUS
    <2> HIDE DEF C
    <2> QED  BY <2>1, SmallestSubset
  <1>2. PICK y \in T : Total(f, T) # f[y] + Total(f, T \ {y})
    BY <1>1
  <1> DEFINE z == First(T)
  <1>3. T \in SUBSET S /\ z \in T
    BY <1>1, <1>2, FirstFacts
  <1>4. \A U \in SUBSET S : IsFiniteSet(U) /\ Total(f, U) \in Int
    BY FS_Subset, TotalInt
  <1>5. Total(f, T) = f[z] + Total(f, T \ {z})
    BY <1>3, <1>4, TotalUnfold
  <1> HIDE DEF z
  <1>6. y # z
    BY <1>2, <1>5
  <1>7. Total(f, T \ {z}) = f[y] + Total(f, (T \ {z}) \ {y})
    <2>1. T \ {z} \in SUBSET S /\ y \in T \ {z} /\ T \ {z} # T
      BY <1>3, <1>6
    <2> QED  BY <1>1, <2>1
  <1>8. Total(f, T \ {y}) = f[z] + Total(f, (T \ {y}) \ {z})
    <2>1. T \ {y} \in SUBSET S /\ z \in T \ {y} /\ T \ {y} # T
      BY <1>3, <1>6
    <2> QED  BY <1>1, <2>1
  <1>9. (T \ {z}) \ {y} = (T \ {y}) \ {z} /\ (T \ {z}) \ {y} \in SUBSET S
    BY <1>3
  <1>10. f[y] \in Int /\ f[z] \in Int /\ Total(f, (T \ {z}) \ {y}) \in Int
    BY <1>3, <1>4, <1>9
  <1>11. Total(f, T) = f[z] + (f[y] + Total(f, (T \ {z}) \ {y}))
    BY <1>5, <1>7
  <1>12. Total(f, T \ {y}) = f[z] + Total(f, (T \ {z}) \ {y})
    BY <1>8, <1>9
  <1>13. Total(f, T) = f[y] + Total(f, T \ {y})
    BY <1>10, <1>11, <1>12
  <1> QED  BY <1>2, <1>13

\* A total with one more element.
LEMMA TotalAdd ==
  ASSUME NEW f, NEW S, IsFiniteSet(S), NEW x, x \notin S, \A y \in S \cup {x} : f[y] \in Int
  PROVE  Total(f, S \cup {x}) = Total(f, S) + f[x]
  <1>1. IsFiniteSet(S \cup {x}) /\ (S \cup {x}) \ {x} = S
    BY FS_AddElement
  <1>2. Total(f, S \cup {x}) = f[x] + Total(f, (S \cup {x}) \ {x})
    <2> DEFINE T == S \cup {x}
    <2>1. IsFiniteSet(T) /\ x \in T /\ \A y \in T : f[y] \in Int
      BY <1>1
    <2> HIDE DEF T
    <2>2. Total(f, T) = f[x] + Total(f, T \ {x})
      BY <2>1, TotalRemove
    <2> QED  BY <2>2 DEF T
  <1>3. Total(f, S) \in Int /\ f[x] \in Int
    BY TotalInt
  <1>4. Total(f, S \cup {x}) = f[x] + Total(f, S)
    BY <1>1, <1>2, Zenon
  <1> QED  BY <1>3, <1>4

\* What remains of a bill is a total.
LEMMA RemainingIsTotal ==
  ASSUME NEW slices
  PROVE  SumRemaining(slices) = Total([j \in DOMAIN slices |-> slices[j][2]], DOMAIN slices)
  <1> DEFINE f == [j \in DOMAIN slices |-> slices[j][2]]
             S == DOMAIN slices
             Q(h) == h = [s \in SUBSET S |->
                            IF s = {} THEN 0 ELSE f[First(s)] + h[s \ {First(s)}]]
  <1>1. SumRemaining(slices) = (CHOOSE h : Q(h))[S]
    <2>1. SumRemaining(slices) = FoldFunction(+, 0, f) /\ DOMAIN f = S
      BY DEF SumRemaining
    <2> HIDE DEF f
    <2> QED  BY <2>1 DEF FoldFunction, FoldFunctionOnSet, MapThenFoldSet, First
  <1> HIDE DEF f
  <1> QED  BY <1>1 DEF Total, IsSum, f

\* What remains of a bill is an integer.
LEMMA RemainingFacts ==
  ASSUME NEW slices, IsFiniteSet(DOMAIN slices), \A j \in DOMAIN slices : slices[j][2] \in Int
  PROVE  SumRemaining(slices) \in Int
  <1> DEFINE f == [j \in DOMAIN slices |-> slices[j][2]]
  <1>1. \A j \in DOMAIN slices : f[j] \in Int
    OBVIOUS
  <1>2. SumRemaining(slices) = Total(f, DOMAIN slices)
    BY RemainingIsTotal
  <1> HIDE DEF f
  <1> QED  BY <1>1, <1>2, TotalInt

\* What one slice, or none, adds to what has been paid.
LEMMA PaymentFacts ==
  /\ MapThenSumSet(LAMBDA p : p.amount, {}) = 0
  /\ \A q \in PostType : MapThenSumSet(LAMBDA p : p.amount, {q}) = q.amount
  <1> DEFINE Q(h, S) == h = [s \in SUBSET S |->
                               IF s = {} THEN 0 ELSE First(s).amount + h[s \ {First(s)}]]
             f == [q \in PostType |-> q.amount]
             paidIn(S) == MapThenSumSet(LAMBDA p : p.amount, S)
  <1>1. \A S : paidIn(S) = (CHOOSE h : Q(h, S))[S]
    BY DEF MapThenSumSet, MapThenFoldSet, First
  <1>2. ASSUME NEW S \in SUBSET PostType
        PROVE  \A h : Q(h, S) <=> IsSum(h, f, S)
    <2>1. \A s \in SUBSET S : s # {} => f[First(s)] = First(s).amount
      BY FirstFacts
    <2> QED  BY <2>1 DEF IsSum
  <1> HIDE DEF paidIn, f
  <1>3. ASSUME NEW S \in SUBSET PostType, IsFiniteSet(S) PROVE paidIn(S) = Total(f, S)
    <2>1. PICK h : IsSum(h, f, S)
      BY <1>3, SumExists
    <2>2. \A k : Q(k, S) <=> IsSum(k, f, S)
      BY <1>2
    <2> HIDE DEF Q
    <2>3. IsSum(CHOOSE k : Q(k, S), f, S)
      BY <2>1, <2>2
    <2>4. Total(f, S) = (CHOOSE k : Q(k, S))[S]
      BY <1>3, <2>3, TotalOfSum
    <2> QED  BY <1>1, <2>4
  <1> HIDE DEF Q
  <1>4. Total(f, {}) = 0
    BY TotalUnfold, FS_EmptySet
  <1>5. paidIn({}) = 0
    BY <1>3, <1>4, FS_EmptySet
  <1>6. ASSUME NEW q \in PostType PROVE paidIn({q}) = q.amount
    <2>1. Total(f, {q}) = f[First({q})] + Total(f, {q} \ {First({q})})
      BY TotalUnfold, FS_Singleton
    <2>2. First({q}) = q /\ {q} \ {First({q})} = {}
      BY FirstFacts
    <2>3. f[q] = q.amount /\ q.amount \in Nat
      BY DEF f, PostType
    <2> QED  BY <1>3, <1>4, <2>1, <2>2, <2>3, FS_Singleton
  <1> QED  BY <1>5, <1>6 DEF paidIn

-----------------------------------------------------------------------------
(***************************************************************************)
(* What every step leaves intact: time and the lineage only grow, and an   *)
(* assessment keeps its row, so a liability keeps its amount and its cycle. *)
(***************************************************************************)
TablesGrow ==
  /\ now =< now'
  /\ Len(cycles) =< Len(cycles') /\ \A n \in 1..Len(cycles) : cycles'[n] = cycles[n]
  /\ \A c \in Corr : Assessed(c) => rows'[c] = rows[c]
  /\ \A i \in DOMAIN features : i \in DOMAIN features' /\ features'[i] = features[i]

LEMMA StepGrows ==
  ASSUME RentInv, Next
  PROVE  TablesGrow
  <1>1. Len(cycles) \in Nat /\ now \in Nat
    BY DEF RentInv, RunsTyped
  <1>2. ASSUME UNCHANGED <<cycles, rows, now, features>> PROVE TablesGrow
    BY <1>1, <1>2 DEF TablesGrow
  <1>3. ASSUME NEW r \in Runs, RunCommit(r) PROVE TablesGrow
    <2>1. cycles' = View(r) /\ now' = now /\ features' = features
      BY <1>3, CommitFacts
    <2>2. Len(cycles) =< Len(cycles') /\ \A n \in 1..Len(cycles) : cycles'[n] = cycles[n]
      BY <2>1, ViewFacts DEF RentInv
    <2>3. ASSUME NEW c \in Corr, Assessed(c) PROVE rows'[c] = rows[c]
      <3>1. c \notin Mine(r)
        BY <2>3 DEF RentInv, AssessmentsNew, Mine, Assessed
      <3> QED  BY <1>3, <3>1, CommitFacts
    <2> QED  BY <1>1, <2>1, <2>2, <2>3 DEF TablesGrow
  <1>4. ASSUME NEW r \in Runs, JobCheck(r) \/ RunStep(r) \/ RunAbort(r), ~RunCommit(r)
        PROVE  TablesGrow
    <2>1. UNCHANGED <<tables, clockVars>>
      BY <1>4 DEF RunStep, JobCheck, Begin, Succeed, Derive, InsertCycle, ReadRoster, InsertRent,
         InsertFees, InsertAssessments, ExpirePerks, GrantPerks, ReadLateRent, RunAbort, onlyRun
    <2> QED  BY <1>2, <2>1 DEF tables, clockVars
  <1>5. ASSUME NEW k \in Payments, PayRead(k) \/ PayStep(k) \/ PayAbort(k) PROVE TablesGrow
    BY <1>2, <1>5 DEF PayStep, PayRead, PayLock, PaySlice, PayCommit, PayAbort, onlyPay, tables,
       clockVars
  <1>6. ASSUME NEW w \in Waivers, (\E c \in Corr : WaiveCheck(w, c)) \/ WaiveInsert(w)
        PROVE  TablesGrow
    BY <1>2, <1>6 DEF WaiveCheck, WaiveInsert, tables, clockVars
  <1>7. CASE Tick
    BY <1>1, <1>7 DEF Tick, tables, TablesGrow
  <1>8. CASE SaveSettings \/ DisableRead \/ \E s \in Seats : Claim(s)
    BY <1>2, <1>8 DEF SaveSettings, DisableRead, Claim, tables, clockVars
  <1>9. CASE DisableCommit \/ Enable
    <2>1. UNCHANGED <<cycles, rows, now>> /\ \E e : features' = Append(features, e)
      BY <1>9 DEF DisableCommit, Enable, tables
    <2>2. features \in Seq(FeatureType)
      BY DEF RentInv, RunsTyped
    <2>3. \A i \in DOMAIN features : i \in DOMAIN features' /\ features'[i] = features[i]
      BY <2>1, <2>2
    <2> QED  BY <1>1, <2>1, <2>3 DEF TablesGrow
  <1> QED  BY <1>3, <1>4, <1>5, <1>6, <1>7, <1>8, <1>9 DEF Next

\* An assessed liability has a cycle, and an amount read from its frozen terms.
LEMMA LiabilityFacts ==
  ASSUME RentInv, NEW c \in Corr, Assessed(c)
  PROVE  /\ CycleOf(c) \in 1..Len(cycles) /\ cycles[CycleOf(c)] \in CycleType
         /\ rows[c][1] \in Policies /\ Amount(c) \in Nat
  <1>1. CycleOf(c) \in 1..Len(cycles) /\ cycles \in Seq(CycleType)
    BY DEF RentInv, BilledOnFrozenTerms, RunsTyped
  <1>2. rows[c] \in Seq(Policies) /\ rows[c] # <<>>
    BY DEF RentInv, RunsTyped, Assessed
  <1>3. rows[c][1] \in Policies
    BY <1>2
  <1>4. Terms[rows[c][1]] \in TermsType
    BY <1>3, ObligationConstants DEF Policies
  <1> QED  BY <1>1, <1>3, <1>4 DEF Amount, FrozenTerms, TermsType

\* It keeps them.
LEMMA LiabilityStays ==
  ASSUME RentInv, TablesGrow, NEW c \in Corr, Assessed(c)
  PROVE  /\ Assessed(c)' /\ Amount(c)' = Amount(c)
         /\ cycles'[CycleOf(c)] = cycles[CycleOf(c)]
         /\ CycleOf(c) \in 1..Len(cycles')
  <1>1. rows'[c] = rows[c]
    BY DEF TablesGrow
  <1>2. CycleOf(c) \in 1..Len(cycles) /\ Len(cycles) \in Nat
    BY LiabilityFacts DEF RentInv, RunsTyped
  <1>3. cycles'[CycleOf(c)] = cycles[CycleOf(c)] /\ Len(cycles) =< Len(cycles')
    BY <1>2 DEF TablesGrow
  <1>5. CycleOf(c) \in 1..Len(cycles')
    BY <1>2, <1>3 DEF TablesGrow
  <1> QED  BY <1>1, <1>3, <1>5 DEF Assessed, Amount, FrozenTerms

-----------------------------------------------------------------------------
(***************************************************************************)
(* The money invariant: what a payment decides under the class row stands  *)
(* until it commits, since nothing that inserts runs beside it.            *)
(***************************************************************************)

\* A payment command; what it may still spend is an integer.
CommandType ==
  [pc: {"idle", "lock", "paying"}, try: Nat, out: Outcomes, prev: Outcomes,
   slices: Seq(Corr \X Nat), budget: Int, posts: SUBSET PostType,
   granting: SUBSET Corr]

MoneyTyped ==
  /\ paid \in [Corr -> Nat] /\ withdrawn \in SUBSET Corr
  /\ posted \in SUBSET PostType /\ pay \in [Payments -> CommandType]
  /\ disable \in DisableType

\* One payment at a time, and none beside a transaction that has inserted.
PaysAlone ==
  \A k \in Payments : pay[k].pc = "paying" =>
    ~ClassShared /\ \A l \in Payments : pay[l].pc = "paying" => l = k

\* A debit about to be committed is the command's first and only one for an
\* assessed, untouched liability, no slice of which is left, and fits in it.
PostFits(k, me, p) ==
  /\ p.cmd = k /\ Posted(k, p.corr) = {}
  /\ p.corr \notin withdrawn /\ Assessed(p.corr)
  /\ paid[p.corr] + p.amount =< Amount(p.corr)
  /\ \A j \in DOMAIN me.slices : me.slices[j][1] # p.corr
  /\ \A q \in me.posts : q.corr = p.corr => q = p

\* A perk about to be granted is for rent the command pays off.
GrantSettled(me, c) ==
  /\ IsRent(c) /\ cycles[CycleOf(c)].boundary =< now
  /\ \E p \in me.posts : p.corr = c /\ paid[c] + p.amount = Amount(c)

\* The slices of a bill are different liabilities, assessed if anything remains.
CommandSound(k, me) ==
  /\ me.pc # "paying" => me.posts = {} /\ me.granting = {}
  /\ \A i, j \in DOMAIN me.slices : me.slices[i][1] = me.slices[j][1] => i = j
  /\ \A j \in DOMAIN me.slices : me.slices[j][2] > 0 => Assessed(me.slices[j][1])
  /\ \A p \in me.posts : PostFits(k, me, p)
  /\ \A c \in me.granting : GrantSettled(me, c)

CommandsSound == \A k \in Payments : CommandSound(k, pay[k])

\* What is withdrawn, or about to be, is rent no one has paid for, due no earlier
\* than the disablement; a disablement spans at most one midnight.
WithdrawalsUntouched ==
  /\ \A c \in withdrawn : IsRent(c) /\ Assessed(c)
  /\ disable.pc = "commit" =>
       /\ disable.at =< now /\ now =< disable.at + 1
       /\ \A c \in disable.withdraw :
            /\ IsRent(c) /\ Assessed(c) /\ paid[c] = 0
            /\ disable.at =< cycles[CycleOf(c)].boundary

PayInv ==
  /\ MoneyTyped /\ PaysAlone /\ CommandsSound /\ WithdrawalsUntouched
  /\ SliceChargedOnce /\ NeverOverpaid /\ PaidNeverWithdrawn

\* A command that has not been submitted.
LEMMA NewPayFacts ==
  /\ NewPay \in CommandType /\ NewPay.pc = "idle" /\ NewPay.posts = {}
  /\ NewPay.granting = {} /\ NewPay.slices = <<>>
  BY DEF NewPay, CommandType, Outcomes

LEMMA PayInit == Init => PayInv
  <1> SUFFICES ASSUME Init PROVE PayInv
    OBVIOUS
  <1> USE DEF Init, TablesInit
  <1>1. MoneyTyped
    BY NewPayFacts DEF MoneyTyped, DisableType
  <1>2. \A k \in Payments : pay[k] = NewPay
    OBVIOUS
  <1>3. PaysAlone /\ CommandsSound
    BY <1>2, NewPayFacts DEF PaysAlone, CommandsSound, CommandSound
  <1>4. WithdrawalsUntouched /\ SliceChargedOnce /\ NeverOverpaid /\ PaidNeverWithdrawn
    BY DEF WithdrawalsUntouched, SliceChargedOnce, NeverOverpaid, PaidNeverWithdrawn
  <1> QED  BY <1>1, <1>3, <1>4 DEF PayInv

\* What a command has read and decided stands while nothing is paid or withdrawn.
LEMMA SoundStays ==
  ASSUME RentInv, RentInv', MoneyTyped, TablesGrow, UNCHANGED <<paid, withdrawn, posted>>,
         NEW k \in Payments, NEW me \in CommandType, CommandSound(k, me)
  PROVE  CommandSound(k, me)'
  <1>1. me.posts \in SUBSET PostType /\ me.granting \in SUBSET Corr
        /\ me.slices \in Seq(Corr \X Nat)
    BY DEF CommandType
  <1>2. ASSUME NEW j \in DOMAIN me.slices, me.slices[j][2] > 0
        PROVE  Assessed(me.slices[j][1])'
    <2>1. me.slices[j][1] \in Corr /\ Assessed(me.slices[j][1])
      BY <1>1, <1>2 DEF CommandSound
    <2> QED  BY <2>1, LiabilityStays
  <1>3. ASSUME NEW p \in me.posts PROVE PostFits(k, me, p)'
    <2>1. p.corr \in Corr /\ PostFits(k, me, p)
      BY <1>1 DEF PostType, CommandSound
    <2>2. Assessed(p.corr)' /\ Amount(p.corr)' = Amount(p.corr)
      BY <2>1, LiabilityStays DEF PostFits
    <2> QED  BY <2>1, <2>2 DEF PostFits, Posted
  <1>4. ASSUME NEW c \in me.granting PROVE GrantSettled(me, c)'
    <2>1. GrantSettled(me, c) /\ c \in Corr
      BY <1>1 DEF CommandSound
    <2>2. Assessed(c)
      BY <2>1 DEF GrantSettled, CommandSound, PostFits
    <2>3. Amount(c)' = Amount(c) /\ cycles'[CycleOf(c)] = cycles[CycleOf(c)]
      BY <2>1, <2>2, LiabilityStays
    <2>4. /\ cycles[CycleOf(c)].boundary \in Nat /\ now \in Nat /\ now' \in Nat
          /\ now =< now'
      BY <2>1, <2>2, LiabilityFacts DEF TablesGrow, CycleType, RentInv, RunsTyped
    <2> QED  BY <2>1, <2>3, <2>4 DEF GrantSettled
  <1> QED  BY <1>2, <1>3, <1>4 DEF CommandSound

\* A step that neither pays nor withdraws nor lets a writer in beside a payment.
LEMMA PayQuiet ==
  ASSUME RentInv, RentInv', PayInv, TablesGrow, UNCHANGED <<paid, withdrawn, posted, pay, disable>>,
         \A k \in Payments : pay[k].pc = "paying" => ~ClassShared',
         disable.pc = "commit" => now' =< disable.at + 1
  PROVE  PayInv'
  <1>1. MoneyTyped' /\ PaysAlone'
    BY DEF PayInv, MoneyTyped, PaysAlone
  <1>2. CommandsSound'
    <2> SUFFICES ASSUME NEW k \in Payments, NEW me, me = pay[k] PROVE CommandSound(k, me)'
      BY DEF CommandsSound, CommandSound, PostFits, GrantSettled
    <2>1. me \in CommandType /\ CommandSound(k, me)
      BY DEF PayInv, MoneyTyped, CommandsSound
    <2> QED  BY <2>1, SoundStays DEF PayInv
  <1>3. WithdrawalsUntouched'
    <2>1. now \in Nat /\ now' \in Nat /\ now =< now'
      BY DEF RentInv, RunsTyped, TablesGrow
    <2>2. disable.at \in Nat /\ disable.withdraw \in SUBSET Corr /\ withdrawn \in SUBSET Corr
      BY DEF PayInv, MoneyTyped, DisableType
    <2>3. ASSUME NEW c \in withdrawn PROVE IsRent(c) /\ Assessed(c)'
      BY <2>2, LiabilityStays DEF PayInv, WithdrawalsUntouched
    <2>4. ASSUME disable.pc = "commit", NEW c \in disable.withdraw
          PROVE  /\ IsRent(c) /\ Assessed(c)' /\ paid'[c] = 0
                 /\ disable.at =< cycles'[CycleOf(c)].boundary
      <3>1. /\ c \in Corr /\ IsRent(c) /\ Assessed(c) /\ paid[c] = 0
            /\ disable.at =< cycles[CycleOf(c)].boundary
        BY <2>2, <2>4 DEF PayInv, WithdrawalsUntouched
      <3> QED  BY <3>1, LiabilityStays
    <2>5. disable.pc = "commit" => disable.at =< now /\ now =< disable.at + 1
      BY DEF PayInv, WithdrawalsUntouched
    <2> QED  BY <2>1, <2>2, <2>3, <2>4, <2>5 DEF WithdrawalsUntouched
  <1>4. SliceChargedOnce' /\ PaidNeverWithdrawn'
    BY DEF PayInv, SliceChargedOnce, PaidNeverWithdrawn
  <1>5. NeverOverpaid'
    BY LiabilityStays DEF PayInv, NeverOverpaid
  <1> QED  BY <1>1, <1>2, <1>3, <1>4, <1>5 DEF PayInv

\* A run's step leaves payments, withdrawals and the other runs alone.
LEMMA RunAlone ==
  ASSUME RentInv, NEW r \in Runs, JobCheck(r) \/ RunStep(r) \/ RunAbort(r)
  PROVE  /\ UNCHANGED <<paid, withdrawn, posted, pay, disable, now>>
         /\ \A q \in Runs \ {r} : run'[q] = run[q]
  <1>1. UNCHANGED <<paid, withdrawn, posted, pay, disable, now>>
    BY DEF RunStep, JobCheck, Begin, Succeed, Derive, InsertCycle, ReadRoster, InsertRent,
       InsertFees, InsertAssessments, ExpirePerks, GrantPerks, ReadLateRent, RunAbort,
       RunCommit, onlyRun, tables, clockVars, moneyVars, teacherVars
  <1> SUFFICES \A q \in Runs \ {r} : run'[q] = run[q]
    BY <1>1
  <1>2. run \in [Runs -> RunType]
    BY DEF RentInv, RunsTyped
  <1>3. ASSUME NEW me, run' = [run EXCEPT ![r] = me] PROVE \A q \in Runs \ {r} : run'[q] = run[q]
    BY <1>2, <1>3
  <1>4. CASE Begin(r)
    BY <1>3, <1>4 DEF Begin
  <1>5. CASE Derive(r)
    BY <1>3, <1>5 DEF Derive
  <1>6. CASE InsertCycle(r)
    BY <1>3, <1>6 DEF InsertCycle
  <1>7. CASE RunCommit(r) \/ RunAbort(r)
    BY <1>3, <1>7 DEF RunCommit, RunAbort
  <1>8. CASE JobCheck(r)
    BY <1>2, <1>8 DEF JobCheck, Goto
  <1>9. CASE Succeed(r)
    <2>1. PICK pc, next : run' = [run EXCEPT ![r].pc = pc, ![r].next = next]
      BY <1>9 DEF Succeed
    <2> QED  BY <1>2, <2>1
  <1>10. CASE ReadRoster(r) \/ ReadLateRent(r)
    <2>1. PICK pc, todo : run' = [run EXCEPT ![r].pc = pc, ![r].todo = todo]
      BY <1>10 DEF ReadRoster, ReadLateRent
    <2> QED  BY <1>2, <2>1
  <1>11. CASE InsertRent(r) \/ InsertFees(r)
    <2>1. PICK to, ins : run' = [run EXCEPT ![r].pc = to, ![r].todo = {}, ![r].ins = ins]
      BY <1>11 DEF InsertRent, InsertFees, InsertAssessments
    <2> QED  BY <1>2, <2>1
  <1>12. CASE ExpirePerks(r)
    <2>1. PICK seats, expiring :
            run' = [run EXCEPT ![r].pc = "grant", ![r].seats = seats, ![r].expiring = expiring]
      BY <1>12 DEF ExpirePerks
    <2> QED  BY <1>2, <2>1
  <1>13. CASE GrantPerks(r)
    <2>1. PICK granting : run' = [run EXCEPT ![r].pc = "late", ![r].granting = granting]
      BY <1>13 DEF GrantPerks
    <2> QED  BY <1>2, <2>1
  <1> QED
    BY <1>4, <1>5, <1>6, <1>7, <1>8, <1>9, <1>10, <1>11, <1>12, <1>13 DEF RunStep

\* A run writes nothing while a payment holds the class row.
LEMMA RunWaits ==
  ASSUME RentInv, NEW r \in Runs, JobCheck(r) \/ RunStep(r) \/ RunAbort(r),
         ClassHeld, ~Wrote(r)
  PROVE  ~Wrote(r)'
  <1>1. /\ run[r].cyc = <<>> /\ run[r].ins = {} /\ run[r].expiring = {} /\ run[r].granting = {}
        /\ run[r] \in RunType /\ run \in [Runs -> RunType]
    BY DEF Wrote, RentInv, RunsTyped
  <1>2. ASSUME run' = [run EXCEPT ![r] = IdleRun] PROVE ~Wrote(r)'
    BY <1>1, <1>2 DEF Wrote, IdleRun
  <1>3. ASSUME run'[r].cyc = <<>>, run'[r].ins = {}, run'[r].expiring = {},
               run'[r].granting = {}
        PROVE  ~Wrote(r)'
    BY <1>3 DEF Wrote
  <1>4. CASE JobCheck(r)
    BY <1>1, <1>3, <1>4 DEF JobCheck, Goto, RunType
  <1>5. CASE Begin(r)
    <2>1. run'[r] = IdleRun \/ run'[r] = [IdleRun EXCEPT !.pc = "succeed", !.now = now,
                                                         !.on = RentOn, !.policy = policy]
      BY <1>1, <1>5 DEF Begin
    <2> DEFINE fresh == [IdleRun EXCEPT !.pc = "succeed", !.now = now, !.on = RentOn,
                                        !.policy = policy]
    <2>2. /\ fresh.cyc = <<>> /\ fresh.ins = {} /\ fresh.expiring = {} /\ fresh.granting = {}
          /\ IdleRun.cyc = <<>> /\ IdleRun.ins = {} /\ IdleRun.expiring = {}
          /\ IdleRun.granting = {}
      BY DEF IdleRun
    <2> HIDE DEF fresh
    <2>3. run'[r] = IdleRun \/ run'[r] = fresh
      BY <2>1 DEF fresh
    <2> QED  BY <1>3, <2>2, <2>3
  <1>6. CASE Succeed(r)
    <2>1. PICK pc, next : run' = [run EXCEPT ![r].pc = pc, ![r].next = next]
      BY <1>6 DEF Succeed
    <2> QED  BY <1>1, <1>3, <2>1 DEF RunType
  <1>7. CASE Derive(r)
    <2>1. \/ run'[r] = IdleRun
          \/ run'[r] = [run[r] EXCEPT !.pc = "cycle", !.next[1].num = Len(View(r)) + 1]
      BY <1>1, <1>7 DEF Derive
    <2> DEFINE me == [run[r] EXCEPT !.pc = "cycle", !.next[1].num = Len(View(r)) + 1]
    <2>2. /\ me.cyc = <<>> /\ me.ins = {} /\ me.expiring = {} /\ me.granting = {}
      BY <1>1 DEF RunType
    <2>3. /\ IdleRun.cyc = <<>> /\ IdleRun.ins = {} /\ IdleRun.expiring = {}
          /\ IdleRun.granting = {}
      BY DEF IdleRun
    <2> HIDE DEF me
    <2>4. run'[r] = IdleRun \/ run'[r] = me
      BY <2>1 DEF me
    <2> QED  BY <1>3, <2>2, <2>3, <2>4
  <1>8. CASE ReadRoster(r) \/ ReadLateRent(r)
    <2>1. PICK pc, todo : run' = [run EXCEPT ![r].pc = pc, ![r].todo = todo]
      BY <1>8 DEF ReadRoster, ReadLateRent
    <2> QED  BY <1>1, <1>3, <2>1 DEF RunType
  <1>9. CASE InsertRent(r) \/ InsertFees(r)
    <2>1. PICK from, to : InsertAssessments(r, from, to)
      BY <1>9 DEF InsertRent, InsertFees
    <2>2. NewAssessments(r) = {}
      BY <2>1 DEF InsertAssessments, NewAssessments
    <2>3. {<<c, AssessmentPolicy(r, c)>> : c \in NewAssessments(r)} = {}
      BY <2>2
    <2>4. run' = [run EXCEPT ![r].pc = to, ![r].todo = {}, ![r].ins = run[r].ins \cup {}]
      BY <2>1, <2>3 DEF InsertAssessments
    <2> QED  BY <1>1, <1>3, <2>4 DEF RunType
  <1>10. CASE ExpirePerks(r)
    <2>1. PerksToEnd(r) = {}
      <3> SUFFICES ASSUME NEW c \in PerksToEnd(r) PROVE FALSE
        OBVIOUS
      <3>1. c \in Corr /\ IsRent(c) /\ granted[c] > expired[c]
            /\ CycleOf(c) \in EndedCycles(View(r), run[r].now)
        BY DEF PerksToEnd
      <3>2. c[1] \in Seats /\ c = RentOf(c[1], CycleOf(c))
        BY <3>1 DEF Corr, RentOf, CycleOf, IsRent
      <3>3. granted[c] \in Nat /\ expired[c] \in Nat
        BY <3>1 DEF RentInv, RunsTyped
      <3>4. granted[RentOf(c[1], CycleOf(c))] > 0
        BY <3>1, <3>2, <3>3
      <3>5. c[1] \in PerkHolders(r)
        BY <3>1, <3>2, <3>4 DEF PerkHolders
      <3> QED  BY <1>10, <3>5 DEF ExpirePerks
    <2>2. {<<c, granted[c]>> : c \in PerksToEnd(r)} = {}
      BY <2>1
    <2>3. run' = [run EXCEPT ![r].pc = "grant", ![r].seats = PerkHolders(r),
                             ![r].expiring = {}]
      BY <1>10, <2>2 DEF ExpirePerks
    <2> QED  BY <1>1, <1>3, <2>3 DEF RunType
  <1>11. CASE GrantPerks(r)
    <2>1. run' = [run EXCEPT ![r].pc = "late", ![r].granting = {}]
      BY <1>11 DEF GrantPerks
    <2> QED  BY <1>1, <1>3, <2>1 DEF RunType
  <1>12. CASE InsertCycle(r)
    BY <1>12 DEF InsertCycle
  <1>13. CASE RunCommit(r) \/ RunAbort(r)
    BY <1>2, <1>13 DEF RunCommit, RunAbort
  <1> QED  BY <1>4, <1>5, <1>6, <1>7, <1>8, <1>9, <1>10, <1>11, <1>12, <1>13 DEF RunStep

\* Reconciliations, the clock, the roster and waivers leave payments alone.
LEMMA PayOthers ==
  ASSUME RentInv, RentInv', PayInv, Next,
         \/ Tick \/ SaveSettings \/ Enable \/ \E s \in Seats : Claim(s)
         \/ \E r \in Runs : JobCheck(r) \/ RunStep(r) \/ RunAbort(r)
         \/ \E w \in Waivers : (\E c \in Corr : WaiveCheck(w, c)) \/ WaiveInsert(w)
  PROVE  PayInv'
  <1>1. TablesGrow
    BY StepGrows
  <1>2. ASSUME NEW r \in Runs, JobCheck(r) \/ RunStep(r) \/ RunAbort(r)
        PROVE  PayInv'
    <2>1. /\ UNCHANGED <<paid, withdrawn, posted, pay, disable, now>>
          /\ \A q \in Runs \ {r} : run'[q] = run[q]
      BY <1>2, RunAlone
    <2>2. \A k \in Payments : pay[k].pc = "paying" => ~ClassShared'
      <3> SUFFICES ASSUME NEW k \in Payments, pay[k].pc = "paying" PROVE ~ClassShared'
        OBVIOUS
      <3>1. ClassHeld /\ ~ClassShared
        BY DEF ClassHeld, PayInv, PaysAlone
      <3>2. ~Wrote(r)'
        BY <1>2, <3>1, RunWaits DEF ClassShared
      <3>3. \A q \in Runs \ {r} : ~Wrote(q)'
        BY <2>1, <3>1 DEF ClassShared, Wrote
      <3> QED  BY <2>1, <3>1, <3>2, <3>3 DEF ClassShared
    <2>3. disable.pc = "commit" => now' =< disable.at + 1
      BY <2>1 DEF PayInv, WithdrawalsUntouched
    <2> QED  BY <1>1, <2>1, <2>2, <2>3, PayQuiet
  <1>3. CASE \/ SaveSettings \/ Enable \/ \E s \in Seats : Claim(s)
             \/ \E w \in Waivers : (\E c \in Corr : WaiveCheck(w, c)) \/ WaiveInsert(w)
    <2>1. UNCHANGED <<paid, withdrawn, posted, pay, disable, now, run>>
      BY <1>3 DEF SaveSettings, Enable, Claim, WaiveCheck, WaiveInsert, tables, clockVars,
         moneyVars, teacherVars
    <2>2. \A k \in Payments : pay[k].pc = "paying" => ~ClassShared'
      BY <2>1 DEF PayInv, PaysAlone, ClassShared, Wrote
    <2>3. disable.pc = "commit" => now' =< disable.at + 1
      BY <2>1 DEF PayInv, WithdrawalsUntouched
    <2> QED  BY <1>1, <2>1, <2>2, <2>3, PayQuiet
  <1>4. CASE Tick
    <2>1. UNCHANGED <<paid, withdrawn, posted, pay, disable, run>> /\ now' = now + 1
          /\ (disable.pc = "idle" \/ disable.at = now)
      BY <1>4 DEF Tick, tables, moneyVars, teacherVars, NoneOverdue
    <2>2. \A k \in Payments : pay[k].pc = "paying" => ~ClassShared'
      BY <2>1 DEF PayInv, PaysAlone, ClassShared, Wrote
    <2>3. disable.pc = "commit" => now' =< disable.at + 1
      BY <2>1 DEF RentInv, RunsTyped
    <2> QED  BY <1>1, <2>1, <2>2, <2>3, PayQuiet
  <1> QED  BY <1>2, <1>3, <1>4

\* Disabling reads which assessments are untouched; no payment is under way.
LEMMA DisableReadStep ==
  ASSUME RentInv, PayInv, DisableRead
  PROVE  PayInv'
  <1>1. /\ UNCHANGED <<cycles, rows, paid, withdrawn, posted, pay, now>> /\ ~ClassHeld
        /\ disable' = [pc |-> "commit", at |-> now,
              withdraw |-> {c \in Corr : /\ IsRent(c) /\ Assessed(c)
                                         /\ cycles[CycleOf(c)].boundary >= now
                                         /\ ~HasSatisfaction(c) /\ c \notin withdrawn}]
    BY DEF DisableRead, tables, clockVars, moneyVars
  <1>2. now \in Nat
    BY DEF RentInv, RunsTyped
  <1>3. MoneyTyped'
    <2>1. disable' \in DisableType
      BY <1>1, <1>2 DEF DisableType
    <2> QED  BY <1>1, <2>1 DEF PayInv, MoneyTyped
  <1>4. PaysAlone'
    BY <1>1 DEF PaysAlone, ClassHeld
  <1>5. CommandsSound'
    BY <1>1 DEF PayInv, CommandsSound, CommandSound, PostFits, GrantSettled, Posted, Assessed,
       Amount, FrozenTerms
  <1>6. WithdrawalsUntouched'
    <2>1. \A c \in disable'.withdraw :
            /\ IsRent(c) /\ Assessed(c)' /\ paid'[c] = 0
            /\ disable'.at =< cycles'[CycleOf(c)].boundary
      <3> SUFFICES ASSUME NEW c \in disable'.withdraw
                   PROVE  /\ IsRent(c) /\ Assessed(c)' /\ paid'[c] = 0
                          /\ disable'.at =< cycles'[CycleOf(c)].boundary
        OBVIOUS
      <3>1. /\ c \in Corr /\ IsRent(c) /\ Assessed(c) /\ ~HasSatisfaction(c)
            /\ cycles[CycleOf(c)].boundary >= now
        BY <1>1
      <3>2. paid[c] \in Nat /\ cycles[CycleOf(c)].boundary \in Nat
        BY <3>1, LiabilityFacts DEF PayInv, MoneyTyped, CycleType
      <3>3. paid[c] = 0
        BY <3>1, <3>2 DEF HasSatisfaction
      <3> QED  BY <1>1, <1>2, <3>1, <3>2, <3>3 DEF Assessed
    <2>2. disable'.at = now
      BY <1>1
    <2>3. now =< now + 1 /\ now =< now
      BY <1>2
    <2> QED  BY <1>1, <2>1, <2>2, <2>3 DEF PayInv, WithdrawalsUntouched, Assessed
  <1>7. SliceChargedOnce' /\ NeverOverpaid' /\ PaidNeverWithdrawn'
    BY <1>1 DEF PayInv, SliceChargedOnce, NeverOverpaid, PaidNeverWithdrawn, Assessed, Amount,
       FrozenTerms
  <1> QED  BY <1>3, <1>4, <1>5, <1>6, <1>7 DEF PayInv

\* What disabling withdraws is still unpaid.
LEMMA DisableCommitStep ==
  ASSUME RentInv, PayInv, DisableCommit
  PROVE  PayInv'
  <1>1. /\ UNCHANGED <<cycles, rows, paid, posted, pay, now, run>> /\ disable.pc = "commit"
        /\ withdrawn' = withdrawn \cup disable.withdraw
        /\ disable' = [pc |-> "idle", at |-> 0, withdraw |-> {}]
    BY DEF DisableCommit, moneyVars
  <1>2. \A k \in Payments : pay[k].pc # "paying"
    BY <1>1 DEF PayInv, PaysAlone, ClassShared
  <1>3. MoneyTyped'
    <2>1. disable' \in DisableType
      BY <1>1 DEF DisableType
    <2>2. withdrawn' \in SUBSET Corr
      BY <1>1 DEF PayInv, MoneyTyped, DisableType
    <2> QED  BY <1>1, <2>1, <2>2 DEF PayInv, MoneyTyped
  <1>4. PaysAlone'
    BY <1>1, <1>2 DEF PaysAlone
  <1>5. CommandsSound'
    <2>1. \A k \in Payments : pay[k].posts = {} /\ pay[k].granting = {}
      BY <1>2 DEF PayInv, CommandsSound, CommandSound
    <2> QED  BY <1>1, <2>1 DEF PayInv, CommandsSound, CommandSound, Assessed
  <1>6. WithdrawalsUntouched'
    BY <1>1 DEF PayInv, WithdrawalsUntouched, Assessed
  <1>7. PaidNeverWithdrawn'
    BY <1>1 DEF PayInv, WithdrawalsUntouched, PaidNeverWithdrawn
  <1>8. SliceChargedOnce' /\ NeverOverpaid'
    BY <1>1 DEF PayInv, SliceChargedOnce, NeverOverpaid, Assessed, Amount, FrozenTerms
  <1> QED  BY <1>3, <1>4, <1>5, <1>6, <1>7, <1>8 DEF PayInv

\* A nonempty bounded set of naturals has the maximum that Max chooses.
LEMMA MaxFacts ==
  ASSUME NEW S \in SUBSET Nat, S # {}, NEW n \in Nat, \A x \in S : x =< n
  PROVE  Max(S) \in S /\ \A x \in S : x =< Max(S)
  <1> DEFINE T == {n - x : x \in S}
  <1>1. T \subseteq Nat /\ T # {}
    <2>1. \A x \in S : n - x \in Nat
      OBVIOUS
    <2> QED  BY <2>1
  <1>2. PICK d \in T : \A e \in T : ~ (<<e, d>> \in OpToRel(<, Nat))
    <2>1. IsWellFoundedOn(OpToRel(<, Nat), Nat)
      BY NatLessThanWellFounded
    <2> HIDE DEF T
    <2> QED  BY <1>1, <2>1, WFMin
  <1>3. PICK x \in S : d = n - x
    OBVIOUS
  <1>4. \A y \in S : x >= y
    <2> SUFFICES ASSUME NEW y \in S, ~ (x >= y) PROVE FALSE
      OBVIOUS
    <2>1. n - y \in T /\ n - y \in Nat /\ d \in Nat /\ n - y < d
      BY <1>3
    <2> QED  BY <1>2, <2>1 DEF OpToRel
  <1>5. Max(S) \in S /\ \A y \in S : Max(S) >= y
    BY <1>4 DEF Max
  <1> QED  BY <1>5

\* The smaller of two integers.
LEMMA MinFacts ==
  \A a, b \in Int : (Min({a, b}) = a \/ Min({a, b}) = b) /\ Min({a, b}) =< a /\ Min({a, b}) =< b
  <1> TAKE a, b \in Int
  <1>1. \E x \in {a, b} : \A y \in {a, b} : x =< y
    <2>1. CASE a =< b
      BY <2>1
    <2>2. CASE ~ (a =< b)
      BY <2>2
    <2> QED  BY <2>1, <2>2
  <1>2. Min({a, b}) \in {a, b} /\ \A y \in {a, b} : Min({a, b}) =< y
    BY <1>1 DEF Min
  <1> QED  BY <1>2

\* The bill of a command lists different liabilities.
LEMMA BillFacts ==
  ASSUME NEW k \in Payments
  PROVE  \E n \in Nat :
           /\ DOMAIN BillOf(k) = 1..n
           /\ \A j \in 1..n : BillOf(k)[j] \in Corr
           /\ \A i, j \in 1..n : BillOf(k)[i] = BillOf(k)[j] => i = j
  <1> DEFINE c == Bill[k]
             fees == {j \in 1..MaxFees : Assessed(<<c[1], c[2], j>>)}
             last == IF fees = {} THEN 0 ELSE Max(fees)
  <1>1. c \in Corr /\ c[1] \in Seats /\ c[2] \in 1..MaxCycles /\ MaxFees \in Nat
    BY RentConstants, ObligationConstants DEF Corr
  <1>2. last \in 0..MaxFees
    <2>1. CASE fees = {}
      BY <1>1, <2>1
    <2>2. CASE fees # {}
      <3>1. fees \in SUBSET Nat /\ \A x \in fees : x =< MaxFees
        OBVIOUS
      <3>2. Max(fees) \in fees
        <4> HIDE DEF fees
        <4> QED  BY <1>1, <2>2, <3>1, MaxFacts
      <3> QED  BY <1>1, <2>2, <3>2
    <2> QED  BY <2>1, <2>2
  <1>3. BillOf(k) = [j \in 1..(last + 1) |-> <<c[1], c[2], j - 1>>]
    BY DEF BillOf
  <1> HIDE DEF last, c
  <1>4. DOMAIN BillOf(k) = 1..(last + 1) /\ last + 1 \in Nat
    BY <1>2, <1>3
  <1>5. \A j \in 1..(last + 1) : BillOf(k)[j] = <<c[1], c[2], j - 1>> /\ j - 1 \in 0..MaxFees
    BY <1>1, <1>2, <1>3
  <1>6. \A j \in 1..(last + 1) : BillOf(k)[j] \in Corr
    BY <1>1, <1>5 DEF Corr
  <1>7. \A i, j \in 1..(last + 1) : BillOf(k)[i] = BillOf(k)[j] => i = j
    <2> TAKE i, j \in 1..(last + 1)
    <2> HAVE BillOf(k)[i] = BillOf(k)[j]
    <2>1. i - 1 = j - 1
      BY <1>5
    <2> QED  BY <1>2, <2>1
  <1> QED  BY <1>4, <1>6, <1>7

\* What remains of a liability; something only if it is assessed.
LEMMA LeftFacts ==
  ASSUME RentInv, MoneyTyped, NEW c \in Corr
  PROVE  Remaining(c) \in Nat /\ (Remaining(c) > 0 => Assessed(c))
  <1>1. CASE ~Outstanding(c)
    BY <1>1 DEF Remaining
  <1>2. CASE Outstanding(c)
    <2>1. Assessed(c) /\ ~ (paid[c] >= Amount(c)) /\ paid[c] \in Nat
      BY <1>2 DEF Outstanding, Satisfied, MoneyTyped
    <2>2. Amount(c) \in Nat
      BY <2>1, LiabilityFacts
    <2> QED  BY <1>2, <2>1, <2>2 DEF Remaining
  <1> QED  BY <1>1, <1>2

\* A step of a payment other than its commit.
LEMMA PayLocal ==
  ASSUME RentInv, PayInv, NEW k \in Payments, NEW me \in CommandType,
         UNCHANGED onlyPay \/ UNCHANGED <<tables, clockVars, moneyVars, run, teacherVars>>,
         pay' = [pay EXCEPT ![k] = me],
         me.pc = "paying" => ~ClassShared /\ \A l \in Payments \ {k} : pay[l].pc # "paying",
         CommandSound(k, me)
  PROVE  PayInv'
  <1>1. /\ UNCHANGED <<cycles, rows, paid, withdrawn, posted, now, run, disable>>
        /\ pay'[k] = me /\ \A l \in Payments \ {k} : pay'[l] = pay[l]
    BY DEF onlyPay, tables, clockVars, moneyVars, teacherVars, PayInv, MoneyTyped
  <1>2. MoneyTyped'
    BY <1>1 DEF PayInv, MoneyTyped
  <1>3. PaysAlone'
    BY <1>1 DEF PayInv, PaysAlone, ClassShared, Wrote
  <1>4. CommandsSound'
    <2>1. ASSUME NEW l \in Payments, NEW e, CommandSound(l, e) PROVE CommandSound(l, e)'
      BY <1>1, <2>1 DEF CommandSound, PostFits, GrantSettled, Posted, Assessed, Amount, FrozenTerms
    <2>2. CommandSound(k, me)'
      BY <2>1
    <2>3. \A l \in Payments \ {k} : CommandSound(l, pay[l])
      BY DEF PayInv, CommandsSound
    <2>4. ASSUME NEW l \in Payments, NEW e, e = pay'[l] PROVE CommandSound(l, e)'
      BY <1>1, <2>1, <2>2, <2>3, <2>4
    <2> QED  BY <2>4 DEF CommandsSound, CommandSound, PostFits, GrantSettled
  <1>5. WithdrawalsUntouched'
    BY <1>1 DEF PayInv, WithdrawalsUntouched, Assessed
  <1>6. SliceChargedOnce' /\ NeverOverpaid' /\ PaidNeverWithdrawn'
    BY <1>1 DEF PayInv, SliceChargedOnce, NeverOverpaid, PaidNeverWithdrawn, Assessed, Amount,
       FrozenTerms
  <1> QED  BY <1>2, <1>3, <1>4, <1>5, <1>6 DEF PayInv

\* A command that has finished has nothing under way.
LEMMA FinishFacts ==
  ASSUME PayInv, NEW k \in Payments, NEW outcome \in Outcomes, Finish(k, outcome)
  PROVE  \E me \in CommandType :
           /\ pay' = [pay EXCEPT ![k] = me]
           /\ me.pc = "idle" /\ CommandSound(k, me)
           /\ me.slices = <<>> /\ me.posts = {} /\ me.granting = {}
  <1> DEFINE me == [NewPay EXCEPT !.try = pay[k].try, !.out = outcome, !.prev = pay[k].prev]
  <1>1. pay[k].try \in Nat /\ pay[k].prev \in Outcomes
    BY DEF PayInv, MoneyTyped, CommandType
  <1>2. me \in CommandType
    BY <1>1, NewPayFacts DEF CommandType
  <1>3. me.pc = "idle" /\ me.slices = <<>> /\ me.posts = {} /\ me.granting = {}
    BY NewPayFacts DEF CommandType
  <1>4. pay' = [pay EXCEPT ![k] = me]
    BY DEF Finish
  <1> HIDE DEF me
  <1>5. CommandSound(k, me)
    BY <1>3 DEF CommandSound
  <1> QED  BY <1>2, <1>3, <1>4, <1>5

\* Reading a bill, and the screen under the row locks.
LEMMA PayBeginStep ==
  ASSUME RentInv, PayInv, NEW k \in Payments, PayRead(k) \/ PayLock(k) \/ PayAbort(k)
  PROVE  PayInv'
  <1>1. CASE PayRead(k)
    <2> DEFINE bill == BillOf(k)
               slices == [j \in DOMAIN bill |-> <<bill[j], Remaining(bill[j])>>]
               group == SumRemaining(slices)
               again == [NewPay EXCEPT !.try = pay[k].try + 1, !.prev = pay[k].out]
               budget == IF Asked[k] = 0 \/ Asked[k] > group THEN group ELSE Asked[k]
    <2>1. PICK n \in Nat : /\ DOMAIN bill = 1..n /\ \A j \in 1..n : bill[j] \in Corr
                           /\ \A i, j \in 1..n : bill[i] = bill[j] => i = j
      BY BillFacts
    <2>2. UNCHANGED onlyPay /\ pay' = [pay EXCEPT ![k] =
                   IF group = 0 THEN [again EXCEPT !.out = "ok"]
                   ELSE [again EXCEPT !.pc = "lock", !.slices = slices, !.budget = budget]]
      BY <1>1 DEF PayRead
    <2> HIDE DEF bill
    <2>3. \A j \in 1..n : /\ slices[j] = <<bill[j], Remaining(bill[j])>>
                          /\ slices[j] \in Corr \X Nat
                          /\ slices[j][1] = bill[j]
                          /\ slices[j][2] \in Nat /\ (slices[j][2] > 0 => Assessed(bill[j]))
      BY <2>1, LeftFacts DEF PayInv
    <2>4. slices \in Seq(Corr \X Nat) /\ DOMAIN slices = 1..n
      <3>1. DOMAIN slices = 1..n
        BY <2>1
      <3>2. slices = [j \in 1..n |-> slices[j]]
        BY <3>1
      <3> HIDE DEF slices
      <3> QED  BY <2>3, <3>1, <3>2
    <2> HIDE DEF slices
    <2>5. group \in Int
      BY <2>3, <2>4, RemainingFacts, FS_Interval
    <2>6. budget \in Int
      BY <2>5, RentConstants
    <2> HIDE DEF group, budget
    <2>7. pay[k].try + 1 \in Nat /\ pay[k].out \in Outcomes /\ "ok" \in Outcomes
      BY DEF PayInv, MoneyTyped, CommandType, Outcomes
    <2>8. again \in CommandType /\ again.pc = "idle" /\ again.slices = <<>>
          /\ again.posts = {} /\ again.granting = {}
      BY <2>7, NewPayFacts DEF CommandType
    <2> HIDE DEF again
    <2>9. CASE group = 0
      <3> DEFINE me == [again EXCEPT !.out = "ok"]
      <3>1. me \in CommandType /\ me.pc = "idle" /\ me.slices = <<>> /\ me.posts = {}
            /\ me.granting = {}
        BY <2>7, <2>8 DEF CommandType
      <3>2. pay' = [pay EXCEPT ![k] = me]
        BY <2>2, <2>9
      <3> HIDE DEF me
      <3>3. CommandSound(k, me)
        BY <3>1 DEF CommandSound
      <3> QED  BY <2>2, <3>1, <3>2, <3>3, PayLocal
    <2>10. CASE group # 0
      <3> DEFINE me == [again EXCEPT !.pc = "lock", !.slices = slices, !.budget = budget]
      <3>1. me \in CommandType /\ me.pc = "lock" /\ me.slices = slices /\ me.posts = {}
            /\ me.granting = {}
        BY <2>4, <2>6, <2>8 DEF CommandType
      <3>2. pay' = [pay EXCEPT ![k] = me]
        BY <2>2, <2>10
      <3> HIDE DEF me
      <3>3. CommandSound(k, me)
        BY <2>1, <2>3, <2>4, <3>1 DEF CommandSound
      <3> QED  BY <2>2, <3>1, <3>2, <3>3, PayLocal
    <2> QED  BY <2>9, <2>10
  <1>2. CASE PayLock(k)
    <2>1. UNCHANGED onlyPay /\ ~ClassHeld /\ ~ClassShared /\ pay[k].pc = "lock"
      BY <1>2 DEF PayLock
    <2>2. CASE Finish(k, "refused")
      <3>1. "refused" \in Outcomes
        BY DEF Outcomes
      <3>2. PICK me \in CommandType : /\ pay' = [pay EXCEPT ![k] = me]
                                      /\ me.pc = "idle" /\ CommandSound(k, me)
        BY <2>2, <3>1, FinishFacts
      <3> QED  BY <2>1, <3>2, PayLocal
    <2>3. CASE pay' = [pay EXCEPT ![k].pc = "paying"]
      <3> DEFINE me == [pay[k] EXCEPT !.pc = "paying"]
      <3>1. pay[k] \in CommandType /\ CommandSound(k, pay[k])
        BY DEF PayInv, MoneyTyped, CommandsSound
      <3>2. /\ me \in CommandType /\ me.slices = pay[k].slices /\ me.posts = pay[k].posts
            /\ me.granting = pay[k].granting
        BY <3>1 DEF CommandType
      <3>3. pay' = [pay EXCEPT ![k] = me]
        BY <2>3 DEF PayInv, MoneyTyped
      <3> HIDE DEF me
      <3>4. pay[k].posts = {} /\ pay[k].granting = {}
        BY <2>1, <3>1 DEF CommandSound
      <3>5. CommandSound(k, me)
        BY <3>1, <3>2, <3>4 DEF CommandSound
      <3>6. \A l \in Payments \ {k} : pay[l].pc # "paying"
        BY <2>1 DEF ClassHeld
      <3> QED  BY <2>1, <3>2, <3>3, <3>5, <3>6, PayLocal
    <2> QED  BY <1>2, <2>2, <2>3 DEF PayLock
  <1>3. CASE PayAbort(k)
    <2>1. "error" \in Outcomes
      BY DEF Outcomes
    <2>2. PICK me \in CommandType : /\ pay' = [pay EXCEPT ![k] = me]
                                    /\ me.pc = "idle" /\ CommandSound(k, me)
      BY <1>3, <2>1, FinishFacts DEF PayAbort
    <2> QED  BY <1>3, <2>2, PayLocal DEF PayAbort
  <1> QED  BY <1>1, <1>2, <1>3

\* The slices left after the first.
LEMMA TailFacts ==
  ASSUME NEW S, NEW s \in Seq(S), s # <<>>
  PROVE  /\ Tail(s) \in Seq(S) /\ 1 \in DOMAIN s /\ s[1] \in S
         /\ \A j \in DOMAIN Tail(s) : j + 1 \in DOMAIN s /\ Tail(s)[j] = s[j + 1] /\ j + 1 # 1
  <1>1. Len(s) \in Nat /\ Len(s) # 0 /\ DOMAIN s = 1..Len(s)
    OBVIOUS
  <1>2. /\ Tail(s) \in Seq(S) /\ Len(Tail(s)) = Len(s) - 1
        /\ \A j \in 1..(Len(s) - 1) : Tail(s)[j] = s[j + 1]
    OBVIOUS
  <1>3. DOMAIN Tail(s) = 1..(Len(s) - 1)
    BY <1>2
  <1>4. 1 \in 1..Len(s) /\ \A j \in 1..(Len(s) - 1) : j + 1 \in 1..Len(s) /\ j + 1 # 1
    BY <1>1
  <1> QED  BY <1>1, <1>2, <1>3, <1>4

\* Taking slices off a bill, spent or given up, keeps what has been decided.
LEMMA FewerSlices ==
  ASSUME NEW k \in Payments, NEW me \in CommandType, CommandSound(k, me),
         me.slices # <<>>, NEW n \in CommandType,
         n.pc = me.pc, n.posts = me.posts, n.granting = me.granting,
         n.slices \in {<<>>, Tail(me.slices)}
  PROVE  CommandSound(k, n)
  <1>1. me.slices \in Seq(Corr \X Nat)
    BY DEF CommandType
  <1>2. \A j \in DOMAIN n.slices : j + 1 \in DOMAIN me.slices /\ n.slices[j] = me.slices[j + 1]
    <2>1. CASE n.slices = <<>>
      BY <2>1
    <2>2. CASE n.slices = Tail(me.slices)
      BY <1>1, <2>2, TailFacts
    <2> QED  BY <2>1, <2>2
  <1>3. \A j \in DOMAIN n.slices : j \in Int
    BY DEF CommandType
  <1>4. \A i, j \in DOMAIN n.slices : n.slices[i][1] = n.slices[j][1] => i = j
    <2> TAKE i, j \in DOMAIN n.slices
    <2> HAVE n.slices[i][1] = n.slices[j][1]
    <2>1. i + 1 = j + 1
      BY <1>2 DEF CommandSound
    <2> QED  BY <1>3, <2>1
  <1>5. \A j \in DOMAIN n.slices : n.slices[j][2] > 0 => Assessed(n.slices[j][1])
    BY <1>2 DEF CommandSound
  <1>6. \A p \in n.posts : PostFits(k, n, p)
    BY <1>2 DEF CommandSound, PostFits
  <1>7. \A c \in n.granting : GrantSettled(n, c)
    BY DEF CommandSound, GrantSettled
  <1> QED  BY <1>4, <1>5, <1>6, <1>7 DEF CommandSound

\* The record n of a command that has charged the first slice of me.
Charges(k, me, n) ==
  \E c, asked, amount, granting, p :
    /\ c = me.slices[1][1] /\ me.slices[1][2] > 0
    /\ c \notin withdrawn /\ Posted(k, c) = {} /\ StillOwed(k, c) > 0
    /\ asked = Min({me.slices[1][2], me.budget})
    /\ amount = Min({asked, StillOwed(k, c)})
    /\ p = [cmd |-> k, try |-> me.try, corr |-> c, asked |-> asked, amount |-> amount]
    /\ granting \in {me.granting, me.granting \cup {c}}
    /\ granting # me.granting => amount = StillOwed(k, c) /\ IsRent(c) /\ PeriodHasBegun(c)
    /\ n = [me EXCEPT !.budget = me.budget - amount, !.posts = me.posts \cup {p},
                      !.granting = granting, !.slices = Tail(me.slices)]

\* A slice that is charged: the command's first debit for it, and no more than is owed.
LEMMA ChargeFacts ==
  ASSUME RentInv, PayInv, NEW k \in Payments, NEW me \in CommandType, CommandSound(k, me),
         me.pc = "paying", me.slices # <<>>, me.budget > 0, NEW n, Charges(k, me, n)
  PROVE  n \in CommandType /\ n.pc = "paying" /\ CommandSound(k, n)
  <1>0. PICK c, asked, amount, granting, p :
          /\ c = me.slices[1][1] /\ me.slices[1][2] > 0
          /\ c \notin withdrawn /\ Posted(k, c) = {} /\ StillOwed(k, c) > 0
          /\ asked = Min({me.slices[1][2], me.budget})
          /\ amount = Min({asked, StillOwed(k, c)})
          /\ p = [cmd |-> k, try |-> me.try, corr |-> c, asked |-> asked, amount |-> amount]
          /\ granting \in {me.granting, me.granting \cup {c}}
          /\ granting # me.granting => amount = StillOwed(k, c) /\ IsRent(c) /\ PeriodHasBegun(c)
          /\ n = [me EXCEPT !.budget = me.budget - amount, !.posts = me.posts \cup {p},
                            !.granting = granting, !.slices = Tail(me.slices)]
    BY DEF Charges
  <1>1. /\ me.slices \in Seq(Corr \X Nat) /\ me.budget \in Int /\ me.try \in Nat
        /\ me.posts \in SUBSET PostType /\ me.granting \in SUBSET Corr
    BY DEF CommandType
  <1>2. /\ Tail(me.slices) \in Seq(Corr \X Nat) /\ 1 \in DOMAIN me.slices
        /\ me.slices[1] \in Corr \X Nat
        /\ \A j \in DOMAIN Tail(me.slices) :
             j + 1 \in DOMAIN me.slices /\ Tail(me.slices)[j] = me.slices[j + 1] /\ j + 1 # 1
    BY <1>1, TailFacts
  <1>3. c \in Corr /\ Assessed(c)
    BY <1>2, <1>0 DEF CommandSound
  <1>4. Amount(c) \in Nat /\ paid[c] \in Nat /\ StillOwed(k, c) \in Int
    BY <1>3, LiabilityFacts DEF PayInv, MoneyTyped, StillOwed
  <1>5. asked \in Nat
    <2>1. me.slices[1][2] \in Int /\ me.budget \in Int
      BY <1>1, <1>2
    <2>2. asked = me.slices[1][2] \/ asked = me.budget
      BY <1>0, <2>1, MinFacts
    <2> QED  BY <1>0, <2>1, <2>2
  <1>6. amount \in Nat /\ amount =< StillOwed(k, c)
    <2>1. asked \in Int
      BY <1>5
    <2>2. (amount = asked \/ amount = StillOwed(k, c)) /\ amount =< StillOwed(k, c)
      BY <1>4, <1>0, <2>1, MinFacts
    <2> QED  BY <1>4, <1>5, <1>0, <2>2
  <1>7. paid[c] + amount =< Amount(c) /\ (amount = StillOwed(k, c) => paid[c] + amount = Amount(c))
    BY <1>4, <1>6 DEF StillOwed
  <1>8. p \in PostType /\ p.cmd = k /\ p.corr = c /\ p.amount = amount
    BY <1>1, <1>3, <1>5, <1>6, <1>0 DEF PostType
  <1>10. me.budget - amount \in Int /\ me.posts \cup {p} \in SUBSET PostType
         /\ granting \in SUBSET Corr
    <2>1. me.budget - amount \in Int
      BY <1>1, <1>6
    <2>2. me.posts \cup {p} \in SUBSET PostType
      BY <1>1, <1>8
    <2>3. granting \in SUBSET Corr
      BY <1>1, <1>3, <1>0
    <2> QED  BY <2>1, <2>2, <2>3
  <1>11. /\ n \in CommandType /\ n.pc = "paying" /\ n.posts = me.posts \cup {p}
         /\ n.granting = granting /\ n.slices = Tail(me.slices)
    BY <1>2, <1>0, <1>10 DEF CommandType
  <1>12. \A q \in me.posts : PostFits(k, me, q) /\ q.corr # c
    BY <1>2, <1>0 DEF CommandSound, PostFits
  <1>13. \A q \in me.posts \cup {p} : PostFits(k, n, q)
    <2>1. ASSUME NEW q \in me.posts PROVE PostFits(k, n, q)
      <3>1. PostFits(k, me, q) /\ q.corr # c
        BY <1>12
      <3>2. \A j \in DOMAIN n.slices : n.slices[j][1] # q.corr
        BY <1>2, <1>11, <3>1 DEF PostFits
      <3>3. \A o \in n.posts : o.corr = q.corr => o = q
        BY <1>8, <1>11, <3>1 DEF PostFits
      <3> QED  BY <3>1, <3>2, <3>3 DEF PostFits
    <2>2. PostFits(k, n, p)
      <3>1. \A j \in DOMAIN n.slices : n.slices[j][1] # c
        BY <1>2, <1>0, <1>11 DEF CommandSound
      <3>2. \A o \in n.posts : o.corr = c => o = p
        BY <1>11, <1>12
      <3> QED  BY <1>3, <1>7, <1>8, <1>0, <3>1, <3>2 DEF PostFits
    <2> QED  BY <2>1, <2>2
  <1>14. \A d \in granting : GrantSettled(n, d)
    <2>1. ASSUME NEW d \in me.granting PROVE GrantSettled(n, d)
      BY <1>11 DEF CommandSound, GrantSettled
    <2>2. ASSUME granting # me.granting PROVE GrantSettled(n, c)
      BY <1>7, <1>8, <1>0, <1>11, <2>2 DEF GrantSettled, PeriodHasBegun
    <2> QED  BY <1>0, <2>1, <2>2
  <1>15. \A i, j \in DOMAIN n.slices : n.slices[i][1] = n.slices[j][1] => i = j
    <2> TAKE i, j \in DOMAIN n.slices
    <2> HAVE n.slices[i][1] = n.slices[j][1]
    <2>1. i + 1 = j + 1
      BY <1>2, <1>11 DEF CommandSound
    <2>2. i \in Int /\ j \in Int
      BY <1>11 DEF CommandType
    <2> QED  BY <2>1, <2>2
  <1>16. \A j \in DOMAIN n.slices : n.slices[j][2] > 0 => Assessed(n.slices[j][1])
    BY <1>2, <1>11 DEF CommandSound
  <1> QED  BY <1>11, <1>13, <1>14, <1>15, <1>16 DEF CommandSound

\* One slice of a bill: passed over, replayed, refused or charged.
LEMMA PaySliceStep ==
  ASSUME RentInv, PayInv, NEW k \in Payments, PaySlice(k)
  PROVE  PayInv'
  <1> DEFINE me == pay[k]
             c == me.slices[1][1]
             asked == Min({me.slices[1][2], me.budget})
             owed == StillOwed(k, c)
             amount == Min({asked, owed})
             settles == amount = owed /\ IsRent(c) /\ PeriodHasBegun(c)
             debit == [cmd |-> k, try |-> me.try, corr |-> c, asked |-> asked, amount |-> amount]
             charged == [me EXCEPT !.budget = @ - amount, !.posts = @ \cup {debit},
                                   !.granting = IF settles THEN @ \cup {c} ELSE @]
  <1>1. /\ me \in CommandType /\ CommandSound(k, me) /\ pay \in [Payments -> CommandType]
        /\ me.pc = "paying" /\ me.slices # <<>> /\ me.budget > 0 /\ UNCHANGED onlyPay
    BY DEF PaySlice, PayInv, MoneyTyped, CommandsSound
  <1>2. ~ClassShared /\ \A l \in Payments \ {k} : pay[l].pc # "paying"
    BY <1>1 DEF PayInv, PaysAlone
  <1>3. /\ me.slices \in Seq(Corr \X Nat) /\ me.budget \in Int
        /\ Tail(me.slices) \in Seq(Corr \X Nat) /\ <<>> \in Seq(Corr \X Nat)
    BY <1>1, TailFacts DEF CommandType
  <1>4. \/ NextSlice(k, me)
        \/ Refuse(k)
        \/ \E p \in Posted(k, c) : NextSlice(k, [me EXCEPT !.budget = @ - p.amount])
        \/ Finish(k, "error")
        \/ /\ me.slices[1][2] > 0 /\ c \notin withdrawn /\ Posted(k, c) = {} /\ owed > 0
           /\ NextSlice(k, charged)
    BY DEF PaySlice, PriorSlice
  <1>5. CASE NextSlice(k, me)
    <2> DEFINE n == [me EXCEPT !.slices = Tail(@)]
    <2>1. pay' = [pay EXCEPT ![k] = n]
      BY <1>5 DEF NextSlice
    <2>2. n \in CommandType /\ n.pc = me.pc /\ n.posts = me.posts /\ n.granting = me.granting
          /\ n.slices = Tail(me.slices)
      BY <1>1, <1>3 DEF CommandType
    <2> HIDE DEF n, me
    <2>3. CommandSound(k, n)
      BY <1>1, <2>2, FewerSlices
    <2> QED  BY <1>1, <1>2, <2>1, <2>2, <2>3, PayLocal
  <1>6. CASE Refuse(k)
    <2> DEFINE n == [me EXCEPT !.slices = <<>>, !.out = "refused"]
    <2>1. pay' = [pay EXCEPT ![k] = n]
      BY <1>1, <1>6 DEF Refuse
    <2>2. n \in CommandType /\ n.pc = me.pc /\ n.posts = me.posts /\ n.granting = me.granting
          /\ n.slices = <<>>
      BY <1>1, <1>3 DEF CommandType, Outcomes
    <2> HIDE DEF n, me
    <2>3. CommandSound(k, n)
      BY <1>1, <2>2, FewerSlices
    <2> QED  BY <1>1, <1>2, <2>1, <2>2, <2>3, PayLocal
  <1>7. ASSUME NEW p \in Posted(k, c), NextSlice(k, [me EXCEPT !.budget = @ - p.amount])
        PROVE  PayInv'
    <2> DEFINE left == me.budget - p.amount
               n == [me EXCEPT !.budget = left, !.slices = Tail(me.slices)]
    <2>1. pay' = [pay EXCEPT ![k] = n]
      <3>1. pay' = [pay EXCEPT ![k] = [[me EXCEPT !.budget = left] EXCEPT !.slices = Tail(@)]]
        BY <1>7 DEF NextSlice
      <3>2. [[me EXCEPT !.budget = left] EXCEPT !.slices = Tail(@)] = n
        <4> HIDE DEF left
        <4> QED  BY <1>1 DEF CommandType
      <3> QED  BY <3>1, <3>2
    <2>2. left \in Int
      BY <1>3 DEF Posted, PayInv, MoneyTyped, PostType
    <2> HIDE DEF left
    <2>3. n \in CommandType /\ n.pc = me.pc /\ n.posts = me.posts /\ n.granting = me.granting
          /\ n.slices = Tail(me.slices)
      BY <1>1, <1>3, <2>2 DEF CommandType
    <2> HIDE DEF n, me
    <2>4. CommandSound(k, n)
      BY <1>1, <2>3, FewerSlices
    <2> QED  BY <1>1, <1>2, <2>1, <2>3, <2>4, PayLocal
  <1>8. CASE Finish(k, "error")
    <2>1. "error" \in Outcomes
      BY DEF Outcomes
    <2>2. PICK n \in CommandType : /\ pay' = [pay EXCEPT ![k] = n]
                                   /\ n.pc = "idle" /\ CommandSound(k, n)
      BY <1>8, <2>1, FinishFacts
    <2> QED  BY <1>1, <2>2, PayLocal
  <1>9. ASSUME me.slices[1][2] > 0, c \notin withdrawn, Posted(k, c) = {}, owed > 0,
               NextSlice(k, charged)
        PROVE  PayInv'
    <2> DEFINE granting == IF settles THEN me.granting \cup {c} ELSE me.granting
               left == me.budget - amount
               posts == me.posts \cup {debit}
               n == [me EXCEPT !.budget = left, !.posts = posts, !.granting = granting,
                               !.slices = Tail(me.slices)]
    <2>1. pay' = [pay EXCEPT ![k] = n]
      <3>1. charged = [me EXCEPT !.budget = left, !.posts = posts, !.granting = granting]
        BY <1>1 DEF CommandType
      <3>2. pay' = [pay EXCEPT ![k] = [charged EXCEPT !.slices = Tail(@)]]
        BY <1>9 DEF NextSlice
      <3> HIDE DEF left, posts, granting, charged, me
      <3>3. [charged EXCEPT !.slices = Tail(@)] = n
        BY <1>1, <3>1 DEF CommandType
      <3> QED  BY <3>2, <3>3 DEF n
    <2>2. granting \in {me.granting, me.granting \cup {c}}
      OBVIOUS
    <2>3. granting # me.granting => amount = owed /\ IsRent(c) /\ PeriodHasBegun(c)
      OBVIOUS
    <2>4. Charges(k, me, n)
      <3> HIDE DEF granting
      <3> QED  BY <1>9, <2>2, <2>3 DEF Charges
    <2>5. n \in CommandType /\ n.pc = "paying" /\ CommandSound(k, n)
      <3> HIDE DEF n, me
      <3> QED  BY <1>1, <2>4, ChargeFacts
    <2> HIDE DEF n
    <2> QED  BY <1>1, <1>2, <2>1, <2>5, PayLocal
  <1> QED  BY <1>4, <1>5, <1>6, <1>7, <1>8, <1>9

\* What a commit adds to a liability: its one debit, or nothing.
LEMMA PayCommitFacts ==
  ASSUME RentInv, PayInv, NEW k \in Payments, PayCommit(k), NEW c \in Corr
  PROVE  \/ /\ \A p \in pay[k].posts : p.corr # c
            /\ paid'[c] = paid[c]
         \/ \E p \in pay[k].posts :
              p.corr = c /\ PostFits(k, pay[k], p) /\ paid'[c] = paid[c] + p.amount
  <1> DEFINE mine == {p \in pay[k].posts : p.corr = c}
  <1>1. /\ pay[k].posts \in SUBSET PostType /\ paid[c] \in Nat
        /\ \A p \in pay[k].posts : PostFits(k, pay[k], p)
    BY DEF PayInv, MoneyTyped, CommandType, CommandsSound, CommandSound
  <1>2. paid'[c] = paid[c] + MapThenSumSet(LAMBDA p : p.amount, mine)
    BY DEF PayCommit
  <1>3. CASE mine = {}
    <2>1. paid'[c] = paid[c] + MapThenSumSet(LAMBDA p : p.amount, {})
      BY <1>2, <1>3
    <2> QED  BY <1>1, <1>3, <2>1, PaymentFacts
  <1>4. CASE mine # {}
    <2>1. PICK p \in mine : TRUE
      BY <1>4
    <2>2. mine = {p} /\ p \in PostType
      BY <1>1, <2>1 DEF PostFits
    <2>3. paid'[c] = paid[c] + MapThenSumSet(LAMBDA q : q.amount, {p})
      BY <1>2, <2>2
    <2>4. paid'[c] = paid[c] + p.amount
      BY <2>2, <2>3, PaymentFacts
    <2> QED  BY <1>1, <2>1, <2>4
  <1> QED  BY <1>3, <1>4

\* Committing a payment.
LEMMA PayCommitStep ==
  ASSUME RentInv, PayInv, NEW k \in Payments, PayCommit(k)
  PROVE  PayInv'
  <1>1. /\ UNCHANGED <<cycles, rows, withdrawn, now, run, disable>> /\ pay[k].pc = "paying"
        /\ posted' = posted \cup pay[k].posts
        /\ Finish(k, IF pay[k].out = "none" THEN "ok" ELSE pay[k].out)
    BY DEF PayCommit, clockVars, teacherVars
  <1>2. /\ disable.pc # "commit" /\ \A l \in Payments \ {k} : pay[l].pc # "paying"
    BY <1>1 DEF PayInv, PaysAlone, ClassShared
  <1>3. /\ pay \in [Payments -> CommandType] /\ pay[k].posts \in SUBSET PostType
        /\ paid \in [Corr -> Nat]
    BY DEF PayInv, MoneyTyped, CommandType
  <1>4. PICK me \in CommandType :
          /\ pay' = [pay EXCEPT ![k] = me] /\ me.pc = "idle"
          /\ me.slices = <<>> /\ me.posts = {} /\ me.granting = {}
    <2>1. (IF pay[k].out = "none" THEN "ok" ELSE pay[k].out) \in Outcomes
      BY <1>3 DEF CommandType, Outcomes
    <2> QED  BY <1>1, <2>1, FinishFacts
  <1>5. \A l \in Payments : /\ pay'[l].posts = {} /\ pay'[l].granting = {}
                            /\ pay'[l].pc # "paying"
    BY <1>2, <1>3, <1>4 DEF PayInv, CommandsSound, CommandSound
  <1>6. paid' \in [Corr -> Nat]
    <2>1. ASSUME NEW c \in Corr PROVE paid'[c] \in Nat
      <3>1. \A p \in pay[k].posts : p.amount \in Nat
        BY <1>3 DEF PostType
      <3> QED  BY <1>3, <3>1, PayCommitFacts
    <2>2. paid' = [c \in Corr |-> paid[c] +
                     MapThenSumSet(LAMBDA p : p.amount, {p \in pay[k].posts : p.corr = c})]
      BY DEF PayCommit
    <2>3. DOMAIN paid' = Corr /\ paid' = [c \in Corr |-> paid'[c]]
      BY <2>2
    <2> QED  BY <2>1, <2>3
  <1>7. MoneyTyped'
    BY <1>1, <1>3, <1>4, <1>6 DEF PayInv, MoneyTyped
  <1>8. PaysAlone'
    BY <1>5 DEF PaysAlone
  <1>9. CommandsSound'
    <2>1. ASSUME NEW l \in Payments, NEW e, e = pay'[l] PROVE CommandSound(l, e)'
      <3>1. CASE l = k
        BY <1>3, <1>4, <1>5, <2>1, <3>1 DEF CommandSound
      <3>2. CASE l # k
        <4>1. e = pay[l] /\ CommandSound(l, pay[l])
          BY <1>4, <2>1, <3>2 DEF PayInv, CommandsSound
        <4> QED  BY <1>1, <1>5, <2>1, <4>1 DEF CommandSound, Assessed
      <3> QED  BY <3>1, <3>2
    <2> QED  BY <2>1 DEF CommandsSound, CommandSound, PostFits, GrantSettled
  <1>10. WithdrawalsUntouched'
    BY <1>1, <1>2 DEF PayInv, WithdrawalsUntouched, Assessed
  <1>11. SliceChargedOnce'
    <2>1. \A p \in pay[k].posts : PostFits(k, pay[k], p)
      BY DEF PayInv, CommandsSound, CommandSound
    <2>2. \A p \in pay[k].posts : \A q \in posted : q.cmd = p.cmd => q.corr # p.corr
      BY <2>1 DEF PostFits, Posted
    <2>3. \A p, q \in pay[k].posts : p.corr = q.corr => p = q
      BY <2>1 DEF PostFits
    <2> QED  BY <1>1, <2>2, <2>3 DEF PayInv, SliceChargedOnce
  <1>12. NeverOverpaid'
    <2> SUFFICES ASSUME NEW c \in Corr, paid'[c] > 0
                 PROVE  Assessed(c) /\ paid'[c] =< Amount(c)
      BY <1>1 DEF NeverOverpaid, Assessed, Amount, FrozenTerms
    <2>1. CASE paid'[c] = paid[c]
      BY <2>1 DEF PayInv, NeverOverpaid
    <2>2. CASE paid'[c] # paid[c]
      <3>1. PICK p \in pay[k].posts :
              p.corr = c /\ PostFits(k, pay[k], p) /\ paid'[c] = paid[c] + p.amount
        BY <2>2, PayCommitFacts
      <3> QED  BY <3>1 DEF PostFits
    <2> QED  BY <2>1, <2>2
  <1>13. PaidNeverWithdrawn'
    <2> SUFFICES ASSUME NEW c \in withdrawn PROVE paid'[c] = 0
      BY <1>1 DEF PaidNeverWithdrawn
    <2>1. c \in Corr /\ paid[c] = 0
      BY DEF PayInv, MoneyTyped, PaidNeverWithdrawn
    <2> QED  BY <2>1, PayCommitFacts DEF PostFits
  <1> QED  BY <1>7, <1>8, <1>9, <1>10, <1>11, <1>12, <1>13 DEF PayInv

\* Every step preserves the money invariant.
LEMMA PayNext == RentInv /\ RentInv' /\ PayInv /\ [Next]_vars => PayInv'
  <1> SUFFICES ASSUME RentInv, RentInv', PayInv, [Next]_vars PROVE PayInv'
    OBVIOUS
  <1>1. CASE UNCHANGED vars
    <2>1. UNCHANGED <<cycles, rows, now, features, paid, withdrawn, posted, pay, disable, run>>
      BY <1>1 DEF vars, tables, clockVars, moneyVars, teacherVars
    <2>2. TablesGrow
      BY <2>1 DEF RentInv, RunsTyped, TablesGrow
    <2>3. \A k \in Payments : pay[k].pc = "paying" => ~ClassShared'
      BY <2>1 DEF PayInv, PaysAlone, ClassShared, Wrote
    <2>4. disable.pc = "commit" => now' =< disable.at + 1
      BY <2>1 DEF PayInv, WithdrawalsUntouched
    <2> QED  BY <2>1, <2>2, <2>3, <2>4, PayQuiet
  <1>2. CASE DisableRead
    BY <1>2, DisableReadStep
  <1>3. CASE DisableCommit
    BY <1>3, DisableCommitStep
  <1>4. ASSUME NEW k \in Payments, PayRead(k) \/ PayStep(k) \/ PayAbort(k) PROVE PayInv'
    BY <1>4, PayBeginStep, PaySliceStep, PayCommitStep DEF PayStep
  <1>5. CASE Next /\ ~DisableRead /\ ~DisableCommit
              /\ ~ \E k \in Payments : PayRead(k) \/ PayStep(k) \/ PayAbort(k)
    <2>1. \/ Tick \/ SaveSettings \/ Enable \/ \E s \in Seats : Claim(s)
          \/ \E r \in Runs : JobCheck(r) \/ RunStep(r) \/ RunAbort(r)
          \/ \E w \in Waivers : (\E c \in Corr : WaiveCheck(w, c)) \/ WaiveInsert(w)
      BY <1>5 DEF Next
    <2> QED  BY <1>5, <2>1, PayOthers
  <1> QED  BY <1>1, <1>2, <1>3, <1>4, <1>5

\* The money invariant holds in every reachable state.
LEMMA PayInvariant == Spec => []PayInv
  <1>1. Spec => []RentInv
    BY RentInvariant
  <1>2. Spec => Init /\ [][Next]_vars
    BY DEF Spec
  <1> QED  BY <1>1, <1>2, PayInit, PayNext, PTL

(***************************************************************************)
(* However often a payment command is submitted, and whatever runs beside  *)
(* it, it debits one liability at most once (replay_reserved_charge under  *)
(* the seat and class rows).                                               *)
(***************************************************************************)
THEOREM CommandsChargeOnce == Spec => []SliceChargedOnce
  <1>1. PayInv => SliceChargedOnce
    BY DEF PayInv
  <1> QED  BY <1>1, PayInvariant, PTL

(***************************************************************************)
(* However the payments of one bill race, repeat or are split, a liability *)
(* takes no more than its assessed amount (pay_rent reads what is still    *)
(* owed under the class row).                                              *)
(***************************************************************************)
THEOREM LiabilitiesNeverOverpaid == Spec => []NeverOverpaid
  <1>1. PayInv => NeverOverpaid
    BY DEF PayInv
  <1> QED  BY <1>1, PayInvariant, PTL

(***************************************************************************)
(* Switching rent off withdraws no bill that has been paid in whole or in  *)
(* part, though it decides which are untouched before it commits           *)
(* (_withdraw_untouched_advance_rent: its INSERT keeps payments out).      *)
(***************************************************************************)
THEOREM WithdrawalsAreUnpaid == Spec => []PaidNeverWithdrawn
  <1>1. PayInv => PaidNeverWithdrawn
    BY DEF PayInv
  <1> QED  BY <1>1, PayInvariant, PTL

-----------------------------------------------------------------------------
(***************************************************************************)
(* The perk invariant: perks and late fees, those a run has not committed  *)
(* included, follow the dates of the lineage that run sees.                *)
(***************************************************************************)

\* Grace does not end before it begins.
Graced(y) == y.boundary =< y.grace

\* Rent paid in full, of a period that has begun.
Earned(c) ==
  /\ IsRent(c) /\ Assessed(c) /\ paid[c] >= Amount(c)
  /\ cycles[CycleOf(c)].boundary =< now

\* The liabilities a run will assess or has assessed.
Pending(me) == me.todo \cup {i[1] : i \in me.ins}

\* A run with record me that sees the lineage ys: a late fee it assesses is past
\* its grace boundary, and if the rent was withdrawn it was due, without grace, on
\* the day rent went off; perks it grants have been
\* earned, and perks it expires are of a period that has ended.
RunSound(me, ys) ==
  /\ me.now =< now
  /\ \A n \in 1..Len(ys) : Graced(ys[n])
  /\ \A n \in 1..Len(me.next) : Graced(me.next[n])
  /\ \A c \in Pending(me) : ~IsRent(c) =>
       /\ ys[CycleOf(c)].grace < me.now
       /\ RentOf(c[1], c[2]) \in withdrawn => OffTheDayItWasDue(ys[CycleOf(c)])
  /\ \A c \in me.granting : Earned(c)
  /\ \A e \in me.expiring : /\ CycleOf(e[1]) \in 1..Len(ys)
                            /\ ys[CycleOf(e[1])].next =< me.now

RunsSound == \A r \in Runs : RunSound(run[r], View(r))

FeesLate == \A c \in Corr : Assessed(c) /\ ~IsRent(c) => cycles[CycleOf(c)].grace < now

GrantsEarned == \A c \in Corr : granted[c] > 0 => Earned(c)

ExpiriesEnded ==
  \A c \in Corr : expired[c] > 0 => /\ CycleOf(c) \in 1..Len(cycles)
                                    /\ cycles[CycleOf(c)].next =< now

PerkInv ==
  /\ RunsSound
  /\ \A n \in 1..Len(cycles) : Graced(cycles[n])
  /\ FeesLate /\ GrantsEarned /\ ExpiriesEnded
  /\ NoFeeOnWithdrawn

\* A run that has done nothing.
LEMMA IdleSound ==
  ASSUME now \in Nat, \A n \in 1..Len(cycles) : Graced(cycles[n]), cycles \in Seq(CycleType),
         NEW me \in RunType, me.now =< now, me.cyc = <<>>, me.next = <<>>, me.todo = {},
         me.ins = {}, me.granting = {}, me.expiring = {}
  PROVE  RunSound(me, cycles \o me.cyc)
  <1>1. cycles \o me.cyc = cycles
    BY ConcatEmpty
  <1>2. Pending(me) = {}
    BY DEF Pending
  <1>3. \A n \in 1..Len(me.next) : Graced(me.next[n])
    <2>1. Len(me.next) = 0
      OBVIOUS
    <2> QED  BY <2>1
  <1> QED  BY <1>1, <1>2, <1>3 DEF RunSound

LEMMA IdleRecord ==
  /\ IdleRun \in RunType /\ IdleRun.now = 0 /\ IdleRun.cyc = <<>> /\ IdleRun.next = <<>>
  /\ IdleRun.todo = {} /\ IdleRun.ins = {} /\ IdleRun.granting = {} /\ IdleRun.expiring = {}
  BY IdleFacts DEF IdleRun

LEMMA PerkInit == Init => PerkInv
  <1> SUFFICES ASSUME Init PROVE PerkInv
    OBVIOUS
  <1> USE DEF Init, TablesInit
  <1>1. \A n \in 1..Len(cycles) : Graced(cycles[n])
    OBVIOUS
  <1>2. RunsSound
    <2> SUFFICES ASSUME NEW r \in Runs PROVE RunSound(run[r], View(r))
      BY DEF RunsSound
    <2>1. run[r] = IdleRun /\ View(r) = cycles \o IdleRun.cyc
      BY DEF View
    <2>2. now \in Nat /\ cycles \in Seq(CycleType) /\ 0 =< now
      OBVIOUS
    <2>3. RunSound(IdleRun, cycles \o IdleRun.cyc)
      BY <1>1, <2>2, IdleRecord, IdleSound
    <2> QED  BY <2>1, <2>3
  <1>3. FeesLate /\ GrantsEarned /\ ExpiriesEnded /\ NoFeeOnWithdrawn
    BY DEF FeesLate, GrantsEarned, ExpiriesEnded, NoFeeOnWithdrawn, Assessed
  <1> QED  BY <1>1, <1>2, <1>3 DEF PerkInv

\* What has been earned stays earned, since payments are never taken back.
LEMMA EarnedStays ==
  ASSUME RentInv, RentInv', PayInv, PayInv', TablesGrow, \A c \in Corr : paid[c] =< paid'[c],
         NEW c \in Corr, Earned(c)
  PROVE  Earned(c)'
  <1>1. /\ Assessed(c)' /\ Amount(c)' = Amount(c)
        /\ cycles'[CycleOf(c)] = cycles[CycleOf(c)]
    BY LiabilityStays DEF Earned
  <1>2. Amount(c) \in Nat /\ cycles[CycleOf(c)].boundary \in Nat
    BY LiabilityFacts DEF Earned, CycleType
  <1>3. now \in Nat /\ now' \in Nat /\ now =< now'
    BY DEF RentInv, RunsTyped, TablesGrow
  <1>4. paid[c] \in Nat /\ paid'[c] \in Nat /\ paid[c] =< paid'[c]
    BY DEF PayInv, MoneyTyped
  <1> QED  BY <1>1, <1>2, <1>3, <1>4 DEF Earned

\* The days on which rent was switched off are never forgotten.
LEMMA OffStays ==
  ASSUME TablesGrow, NEW y, OffTheDayItWasDue(y)
  PROVE  OffTheDayItWasDue(y)'
  BY DEF TablesGrow, OffTheDayItWasDue

\* A run stays sound while time passes, money comes in, the lineage it sees grows
\* at its end, and no other rent is withdrawn of which it assesses a late fee.
LEMMA SoundRunStays ==
  ASSUME RentInv, RentInv', PayInv, PayInv', TablesGrow, \A c \in Corr : paid[c] =< paid'[c],
         NEW me \in RunType, NEW ys \in Seq(CycleType), NEW zs \in Seq(CycleType),
         RunSound(me, ys),
         Len(ys) =< Len(zs), \A n \in 1..Len(ys) : zs[n] = ys[n],
         \A n \in 1..Len(zs) : Graced(zs[n]),
         \A c \in Pending(me) :
           /\ CycleOf(c) \in 1..Len(ys)
           /\ ~IsRent(c) /\ RentOf(c[1], c[2]) \in withdrawn' \ withdrawn
                => OffTheDayItWasDue(ys[CycleOf(c)])'
  PROVE  RunSound(me, zs)'
  <1>1. now \in Nat /\ now' \in Nat /\ now =< now' /\ me.now \in Nat /\ me.now =< now
        /\ Len(ys) \in Nat /\ Len(zs) \in Nat
    BY DEF RentInv, RunsTyped, TablesGrow, RunType, RunSound
  <1>2. \A c \in me.granting : Earned(c)'
    <2> SUFFICES ASSUME NEW c \in me.granting PROVE Earned(c)'
      OBVIOUS
    <2>1. c \in Corr /\ Earned(c)
      BY DEF RunType, RunSound
    <2> QED  BY <2>1, EarnedStays
  <1>3. \A c \in Pending(me) : ~IsRent(c) =>
          /\ zs[CycleOf(c)].grace < me.now
          /\ RentOf(c[1], c[2]) \in withdrawn' => OffTheDayItWasDue(zs[CycleOf(c)])'
    <2> SUFFICES ASSUME NEW c \in Pending(me), ~IsRent(c)
                 PROVE  /\ zs[CycleOf(c)].grace < me.now
                        /\ RentOf(c[1], c[2]) \in withdrawn' =>
                             OffTheDayItWasDue(zs[CycleOf(c)])'
      OBVIOUS
    <2> DEFINE y == ys[CycleOf(c)]
    <2>1. zs[CycleOf(c)] = y /\ y.grace < me.now
      BY DEF RunSound
    <2>2. RentOf(c[1], c[2]) \in withdrawn => OffTheDayItWasDue(y)
      BY DEF RunSound
    <2>3. RentOf(c[1], c[2]) \in withdrawn' \ withdrawn => OffTheDayItWasDue(y)'
      OBVIOUS
    <2> HIDE DEF y
    <2>4. RentOf(c[1], c[2]) \in withdrawn => OffTheDayItWasDue(y)'
      BY <2>2, OffStays
    <2> QED  BY <2>1, <2>3, <2>4
  <1>4. \A e \in me.expiring : /\ CycleOf(e[1]) \in 1..Len(zs)
                               /\ zs[CycleOf(e[1])].next =< me.now
    <2> SUFFICES ASSUME NEW e \in me.expiring
                 PROVE  /\ CycleOf(e[1]) \in 1..Len(zs) /\ zs[CycleOf(e[1])].next =< me.now
      OBVIOUS
    <2>1. CycleOf(e[1]) \in 1..Len(ys) /\ ys[CycleOf(e[1])].next =< me.now
      BY DEF RunSound
    <2> QED  BY <1>1, <2>1
  <1>5. me.now =< now' /\ \A n \in 1..Len(me.next) : Graced(me.next[n])
    BY <1>1 DEF RunSound
  <1> QED  BY <1>2, <1>3, <1>4, <1>5 DEF RunSound

\* What a run will assess lies in the lineage it sees.
LEMMA PendingFacts ==
  ASSUME RentInv, NEW r \in Runs
  PROVE  /\ run[r] \in RunType /\ View(r) \in Seq(CycleType) /\ Pending(run[r]) \in SUBSET Corr
         /\ \A c \in Pending(run[r]) : CycleOf(c) \in 1..Len(View(r))
  <1>1. run[r] \in RunType /\ View(r) \in Seq(CycleType)
    BY ViewFacts DEF RentInv
  <1>2. run[r].todo \in SUBSET Corr /\ run[r].ins \in SUBSET (Corr \X Policies)
    BY <1>1 DEF RunType
  <1>3. Pending(run[r]) \in SUBSET Corr
    BY <1>2 DEF Pending
  <1>4. \A c \in Pending(run[r]) : CycleOf(c) \in 1..Len(View(r))
    BY DEF RentInv, AssessmentsFrozen, Pending
  <1> QED  BY <1>1, <1>3, <1>4

\* The committed part of the invariant while the lineage and the assessments stand.
LEMMA FeesStay ==
  ASSUME RentInv, RentInv', PayInv, PayInv', PerkInv, TablesGrow, UNCHANGED <<cycles, rows>>
  PROVE  FeesLate' /\ \A n \in 1..Len(cycles') : Graced(cycles'[n])
  <1>1. ASSUME NEW c \in Corr, Assessed(c), ~IsRent(c) PROVE cycles[CycleOf(c)].grace < now'
    <2>1. cycles[CycleOf(c)].grace \in Nat
      BY <1>1, LiabilityFacts DEF CycleType
    <2>2. now \in Nat /\ now' \in Nat /\ now =< now'
      BY DEF RentInv, RunsTyped, TablesGrow
    <2> QED  BY <1>1, <2>1, <2>2 DEF PerkInv, FeesLate
  <1> QED  BY <1>1 DEF PerkInv, FeesLate, Assessed

LEMMA ExpiriesStay ==
  ASSUME RentInv, RentInv', ExpiriesEnded, TablesGrow, NEW c \in Corr, expired[c] > 0
  PROVE  CycleOf(c) \in 1..Len(cycles') /\ cycles'[CycleOf(c)].next =< now'
  <1>1. CycleOf(c) \in 1..Len(cycles) /\ cycles[CycleOf(c)].next =< now
    BY DEF ExpiriesEnded
  <1>2. /\ Len(cycles) \in Nat /\ Len(cycles') \in Nat /\ Len(cycles) =< Len(cycles')
        /\ now \in Nat /\ now' \in Nat /\ now =< now' /\ cycles[CycleOf(c)] \in CycleType
    BY <1>1 DEF RentInv, RunsTyped, TablesGrow
  <1>3. cycles'[CycleOf(c)] = cycles[CycleOf(c)]
    BY <1>1 DEF TablesGrow
  <1> QED  BY <1>1, <1>2, <1>3 DEF CycleType

LEMMA FeeStays ==
  ASSUME RentInv, TablesGrow, NoFeeOnWithdrawn, UNCHANGED <<cycles, rows, withdrawn>>
  PROVE  NoFeeOnWithdrawn'
  <1> SUFFICES ASSUME NEW c \in withdrawn, NEW k \in 1..MaxFees, Assessed(<<c[1], c[2], k>>)
               PROVE  OffTheDayItWasDue(cycles[c[2]])'
    BY DEF NoFeeOnWithdrawn, Assessed
  <1> DEFINE y == cycles[c[2]]
  <1>1. OffTheDayItWasDue(y) /\ cycles' = cycles
    BY DEF NoFeeOnWithdrawn
  <1>2. \A x : OffTheDayItWasDue(x) => OffTheDayItWasDue(x)'
    BY OffStays
  <1> QED  BY <1>1, <1>2 DEF OffTheDayItWasDue

\* Time passes, rosters and settings change, and money comes in.
LEMMA PerkQuiet ==
  ASSUME RentInv, RentInv', PayInv, PayInv', PerkInv, TablesGrow,
         \A c \in Corr : paid[c] =< paid'[c],
         UNCHANGED <<cycles, rows, granted, expired, withdrawn, run>>
  PROVE  PerkInv'
  <1>1. RunsSound'
    <2> SUFFICES ASSUME NEW r \in Runs, NEW me, me = run[r], NEW ys, ys = View(r)
                 PROVE  RunSound(me, ys)'
      BY DEF RunsSound, RunSound, Earned, View
    <2>1. /\ me \in RunType /\ ys \in Seq(CycleType) /\ RunSound(me, ys)
          /\ \A c \in Pending(me) : CycleOf(c) \in 1..Len(ys)
      BY PendingFacts DEF PerkInv, RunsSound
    <2>2. /\ \A n \in 1..Len(ys) : Graced(ys[n])
          /\ withdrawn' \ withdrawn = {} /\ Len(ys) =< Len(ys)
      BY <2>1 DEF RunSound
    <2> QED  BY <2>1, <2>2, SoundRunStays
  <1>2. FeesLate' /\ \A n \in 1..Len(cycles') : Graced(cycles'[n])
    BY FeesStay
  <1>3. GrantsEarned'
    BY EarnedStays DEF PerkInv, GrantsEarned
  <1>4. ExpiriesEnded'
    BY ExpiriesStay DEF PerkInv, ExpiriesEnded
  <1>5. NoFeeOnWithdrawn'
    BY FeeStays DEF PerkInv, NoFeeOnWithdrawn
  <1> QED  BY <1>1, <1>2, <1>3, <1>4, <1>5 DEF PerkInv

\* A run's own step, but for its commit.
LEMMA OwnPerkStep ==
  ASSUME RentInv, RentInv', PayInv, PayInv', PerkInv, NEW r \in Runs,
         UNCHANGED <<tables, now, features>>, NEW me \in RunType, run' = [run EXCEPT ![r] = me],
         RunSound(me, cycles \o me.cyc)
  PROVE  PerkInv'
  <1>1. /\ UNCHANGED <<cycles, rows, paid, withdrawn, granted, expired, now, features>>
        /\ run'[r] = me /\ \A q \in Runs \ {r} : run'[q] = run[q]
    BY DEF tables, RentInv, RunsTyped
  <1>2. TablesGrow
    BY <1>1 DEF TablesGrow, RentInv, RunsTyped
  <1>3. ASSUME NEW q \in Runs, NEW e, e = run'[q] PROVE RunSound(e, cycles \o e.cyc)
    <2>1. CASE q = r
      BY <1>1, <1>3, <2>1
    <2>2. CASE q # r
      <3>1. e = run[q] /\ RunSound(run[q], View(q))
        BY <1>1, <1>3, <2>2 DEF PerkInv, RunsSound
      <3> QED  BY <3>1 DEF View
    <2> QED  BY <2>1, <2>2
  <1>4. RunsSound'
    <2> SUFFICES ASSUME NEW q \in Runs, NEW e, e = run'[q], NEW ys, ys = cycles \o e.cyc
                 PROVE  RunSound(e, ys)'
      BY <1>1 DEF RunsSound, RunSound, Earned, View
    <2>1. RunSound(e, ys)
      BY <1>3
    <2>2. ASSUME NEW y, OffTheDayItWasDue(y) PROVE OffTheDayItWasDue(y)'
      BY <1>2, <2>2, OffStays
    <2>3. \A c \in e.granting : Earned(c)'
      BY <1>1, <2>1 DEF RunSound, Earned, Assessed, Amount, FrozenTerms
    <2> QED  BY <1>1, <2>1, <2>2, <2>3 DEF RunSound
  <1>5. FeesLate' /\ \A n \in 1..Len(cycles') : Graced(cycles'[n])
    BY <1>1, <1>2, FeesStay
  <1>6. GrantsEarned' /\ ExpiriesEnded'
    BY <1>1 DEF PerkInv, GrantsEarned, Earned, Assessed, Amount, FrozenTerms, ExpiriesEnded
  <1>7. NoFeeOnWithdrawn'
    BY <1>1 DEF PerkInv, NoFeeOnWithdrawn, Assessed, OffTheDayItWasDue
  <1> QED  BY <1>4, <1>5, <1>6, <1>7 DEF PerkInv

\* A record that differs from the run's in what does not matter to it.
LEMMA SameRun ==
  ASSUME RentInv, PerkInv, NEW r \in Runs, NEW me \in RunType,
         me.now = run[r].now, me.cyc = run[r].cyc,
         \A n \in 1..Len(me.next) : Graced(me.next[n]),
         \A c \in Pending(me) : ~IsRent(c) =>
            \/ c \in Pending(run[r])
            \/ /\ View(r)[CycleOf(c)].grace < run[r].now
               /\ RentOf(c[1], c[2]) \notin withdrawn,
         \A c \in me.granting : c \in run[r].granting \/ Earned(c),
         \A e \in me.expiring : \/ e \in run[r].expiring
                                \/ /\ CycleOf(e[1]) \in 1..Len(View(r))
                                   /\ View(r)[CycleOf(e[1])].next =< run[r].now
  PROVE  RunSound(me, cycles \o me.cyc)
  <1>1. cycles \o me.cyc = View(r)
    BY DEF View
  <1>2. RunSound(run[r], View(r))
    BY DEF PerkInv, RunsSound
  <1> QED  BY <1>1, <1>2 DEF RunSound

\* Up to the roster: the run begins, and finds the dates of a successor.
LEMMA PerkBeginStep ==
  ASSUME RentInv, RentInv', PayInv, PayInv', PerkInv, NEW r \in Runs,
         JobCheck(r) \/ Begin(r) \/ Succeed(r) \/ Derive(r)
  PROVE  PerkInv'
  <1>1. /\ run[r] \in RunType /\ run \in [Runs -> RunType] /\ now \in Nat
        /\ cycles \in Seq(CycleType) /\ \A n \in 1..Len(cycles) : Graced(cycles[n])
        /\ RunSound(run[r], View(r)) /\ View(r) \in Seq(CycleType)
    BY PendingFacts DEF RentInv, RunsTyped, PerkInv, RunsSound
  <1>2. UNCHANGED <<tables, now, features>>
    BY DEF JobCheck, Begin, Succeed, Derive, onlyRun, clockVars
  <1>3. ASSUME run' = [run EXCEPT ![r] = IdleRun] PROVE PerkInv'
    <2>1. RunSound(IdleRun, cycles \o IdleRun.cyc)
      <3>1. 0 =< now
        BY <1>1
      <3> QED  BY <1>1, <3>1, IdleRecord, IdleSound
    <2> QED  BY <1>2, <1>3, <2>1, IdleRecord, OwnPerkStep
  <1>4. CASE JobCheck(r)
    <2> DEFINE me == [run[r] EXCEPT !.pc = "begin"]
    <2>1. run' = [run EXCEPT ![r] = me]
      BY <1>1, <1>4 DEF JobCheck, Goto
    <2>2. /\ me \in RunType /\ me.now = run[r].now /\ me.cyc = run[r].cyc
          /\ me.next = run[r].next /\ me.todo = run[r].todo /\ me.ins = run[r].ins
          /\ me.granting = run[r].granting /\ me.expiring = run[r].expiring
      BY <1>1 DEF RunType, RunPcs
    <2> HIDE DEF me
    <2>3. Pending(me) = Pending(run[r])
      BY <2>2 DEF Pending
    <2>4. \A n \in 1..Len(me.next) : Graced(me.next[n])
      BY <1>1, <2>2 DEF RunSound
    <2>5. RunSound(me, cycles \o me.cyc)
      BY <2>2, <2>3, <2>4, SameRun
    <2> QED  BY <1>2, <2>1, <2>2, <2>5, OwnPerkStep
  <1>5. CASE Begin(r)
    <2> DEFINE me == [IdleRun EXCEPT !.pc = "succeed", !.now = now, !.on = RentOn,
                                     !.policy = policy]
    <2>1. CASE run' = [run EXCEPT ![r] = IdleRun]
      BY <1>3, <2>1
    <2>2. CASE run' = [run EXCEPT ![r] = me]
      <3>1. /\ me.now = now /\ me.cyc = <<>> /\ me.next = <<>> /\ me.todo = {}
            /\ me.ins = {} /\ me.granting = {} /\ me.expiring = {}
        BY DEF IdleRun
      <3> HIDE DEF me
      <3>2. me = run'[r]
        BY <1>1, <2>2
      <3>3. me \in RunType
        BY <3>2 DEF RentInv, RunsTyped
      <3>4. RunSound(me, cycles \o me.cyc)
        <4>1. me.now =< now
          BY <1>1, <3>1
        <4> QED  BY <1>1, <3>1, <3>3, <4>1, IdleSound
      <3> QED  BY <1>2, <2>2, <3>3, <3>4, OwnPerkStep
    <2>3. run' = [run EXCEPT ![r] = IF policy = 0 THEN IdleRun ELSE me]
      BY <1>5 DEF Begin
    <2> HIDE DEF me
    <2> QED  BY <2>1, <2>2, <2>3
  <1>6. CASE Succeed(r)
    <2> DEFINE due == NextDue(View(r), run[r].now)
               sch == Schedule(run[r].policy, due, 0)
    <2>1. sch \in CycleType /\ Graced(sch)
      <3>1. run[r].policy \in Policies /\ run[r].now \in Nat
        BY <1>1, <1>6 DEF Succeed, RentInv, RunsReady, RunType
      <3>2. due \in Nat
        <4>1. View(r) # <<>> => View(r)[Len(View(r))] \in CycleType
          BY <1>1
        <4> QED  BY <3>1, <4>1 DEF NextDue, CycleType
      <3> HIDE DEF due
      <3>3. Terms[run[r].policy].grace \in Nat /\ Terms[run[r].policy].period \in Nat
        BY <3>1, TermFacts
      <3>4. sch.boundary = due /\ sch.grace = due + Terms[run[r].policy].grace /\ sch \in CycleType
        BY <3>1, <3>2, <3>3 DEF Schedule, CycleType
      <3> QED  BY <3>1, <3>2, <3>3, <3>4 DEF Graced
    <2>2. PICK pc, next : /\ run' = [run EXCEPT ![r].pc = pc, ![r].next = next]
                          /\ pc \in {"derive", "roster"} /\ next \in {<<sch>>, <<>>}
      BY <1>6 DEF Succeed
    <2> HIDE DEF sch
    <2>3. next \in Seq(CycleType) /\ \A n \in 1..Len(next) : Graced(next[n])
      <3>1. CASE next = <<sch>>
        <4>1. <<sch>> \in Seq(CycleType) /\ Len(<<sch>>) = 1 /\ <<sch>>[1] = sch
          BY <2>1
        <4> QED  BY <2>1, <3>1, <4>1
      <3>2. CASE next = <<>>
        <4>1. Len(next) = 0 /\ <<>> \in Seq(CycleType)
          BY <3>2
        <4> QED  BY <3>2, <4>1
      <3> QED  BY <2>2, <3>1, <3>2
    <2> DEFINE me == [run[r] EXCEPT !.pc = pc, !.next = next]
    <2>4. run' = [run EXCEPT ![r] = me]
      BY <1>1, <2>2
    <2>5. pc \in RunPcs
      BY <2>2 DEF RunPcs
    <2>6. /\ me \in RunType /\ me.now = run[r].now /\ me.cyc = run[r].cyc
          /\ me.next = next /\ me.todo = run[r].todo /\ me.ins = run[r].ins
          /\ me.granting = run[r].granting /\ me.expiring = run[r].expiring
      BY <1>1, <2>3, <2>5 DEF RunType
    <2> HIDE DEF me
    <2>7. Pending(me) = Pending(run[r])
      BY <2>6 DEF Pending
    <2>8. RunSound(me, cycles \o me.cyc)
      BY <2>3, <2>6, <2>7, SameRun
    <2> QED  BY <1>2, <2>4, <2>6, <2>8, OwnPerkStep
  <1>7. CASE Derive(r)
    <2> DEFINE me == [run[r] EXCEPT !.pc = "cycle", !.next[1].num = Len(View(r)) + 1]
    <2>1. CASE run' = [run EXCEPT ![r] = me]
      <3>1. run[r].next \in Seq(CycleType) /\ Len(run[r].next) = 1
        BY <1>1, <1>7 DEF Derive, RentInv, RunsReady, RunType
      <3>2. /\ me.now = run[r].now /\ me.cyc = run[r].cyc
            /\ me.todo = run[r].todo /\ me.ins = run[r].ins
            /\ me.granting = run[r].granting /\ me.expiring = run[r].expiring
            /\ me.next = [run[r].next EXCEPT ![1] =
                            [run[r].next[1] EXCEPT !.num = Len(View(r)) + 1]]
        BY <1>1 DEF RunType
      <3> HIDE DEF me
      <3>3. me = run'[r]
        BY <1>1, <2>1
      <3>4. me \in RunType
        BY <3>3 DEF RentInv, RunsTyped
      <3>5. \A n \in 1..Len(me.next) : Graced(me.next[n])
        <4>1. Graced(run[r].next[1]) /\ run[r].next[1] \in CycleType
          BY <1>1, <3>1 DEF RunSound
        <4>2. /\ me.next[1].boundary = run[r].next[1].boundary
              /\ me.next[1].grace = run[r].next[1].grace
          BY <3>1, <3>2, <4>1 DEF CycleType
        <4>3. Len(me.next) = 1
          BY <3>1, <3>2
        <4>4. Graced(me.next[1])
          BY <4>1, <4>2 DEF Graced
        <4> QED  BY <4>3, <4>4
      <3>6. Pending(me) = Pending(run[r])
        BY <3>2 DEF Pending
      <3>7. RunSound(me, cycles \o me.cyc)
        BY <3>2, <3>4, <3>5, <3>6, SameRun
      <3> QED  BY <1>2, <2>1, <3>4, <3>7, OwnPerkStep
    <2>2. run' = [run EXCEPT ![r] = IdleRun] \/ run' = [run EXCEPT ![r] = me]
      BY <1>7 DEF Derive
    <2> HIDE DEF me
    <2> QED  BY <1>3, <2>1, <2>2
  <1> QED  BY <1>4, <1>5, <1>6, <1>7

\* Lineages are extended one cycle after another.
LEMMA ConcatTwice ==
  \A a, b, c \in Seq(CycleType) : a \o (b \o c) = (a \o b) \o c
  <1> TAKE a, b, c \in Seq(CycleType)
  <1> DEFINE x == a \o (b \o c)
             y == (a \o b) \o c
  <1>1. x \in Seq(CycleType) /\ y \in Seq(CycleType) /\ Len(x) = Len(y)
    OBVIOUS
  <1>2. \A i \in 1..Len(x) : x[i] = y[i]
    OBVIOUS
  <1> HIDE DEF x, y
  <1>3. x = y
    BY <1>1, <1>2
  <1> QED  BY <1>3 DEF x, y

\* The successor is inserted, on the dates it was given.
LEMMA PerkCycleStep ==
  ASSUME RentInv, RentInv', PayInv, PayInv', PerkInv, NEW r \in Runs,
         InsertCycle(r) \/ RunAbort(r)
  PROVE  PerkInv'
  <1> DEFINE me == [run[r] EXCEPT !.pc = "succeed", !.cyc = run[r].cyc \o run[r].next,
                                  !.next = <<>>]
  <1>1. /\ run[r] \in RunType /\ run \in [Runs -> RunType] /\ now \in Nat
        /\ cycles \in Seq(CycleType) /\ \A n \in 1..Len(cycles) : Graced(cycles[n])
        /\ RunSound(run[r], View(r)) /\ View(r) \in Seq(CycleType)
    BY PendingFacts DEF RentInv, RunsTyped, PerkInv, RunsSound
  <1>2. UNCHANGED <<tables, now, features>>
    BY DEF InsertCycle, RunAbort, onlyRun, clockVars
  <1>3. CASE run' = [run EXCEPT ![r] = IdleRun]
    <2>1. 0 =< now
      BY <1>1
    <2>2. RunSound(IdleRun, cycles \o IdleRun.cyc)
      BY <1>1, <2>1, IdleRecord, IdleSound
    <2> QED  BY <1>2, <1>3, <2>2, IdleRecord, OwnPerkStep
  <1>4. CASE InsertCycle(r) /\ run' = [run EXCEPT ![r] = me]
    <2>1. /\ me.now = run[r].now /\ me.cyc = run[r].cyc \o run[r].next /\ me.next = <<>>
          /\ me.todo = run[r].todo /\ me.ins = run[r].ins
          /\ me.granting = run[r].granting /\ me.expiring = run[r].expiring
      BY <1>1 DEF RunType
    <2> HIDE DEF me
    <2>2. me = run'[r]
      BY <1>1, <1>4
    <2>3. me \in RunType
      BY <2>2 DEF RentInv, RunsTyped
    <2>4. run[r].next \in Seq(CycleType) /\ run[r].cyc \in Seq(CycleType)
      BY <1>1 DEF RunType
    <2>5. cycles \o me.cyc = View(r) \o run[r].next
      <3>1. cycles \o (run[r].cyc \o run[r].next) = (cycles \o run[r].cyc) \o run[r].next
        BY <1>1, <2>4, ConcatTwice
      <3> QED  BY <2>1, <3>1 DEF View
    <2>6. /\ \A n \in 1..Len(View(r)) : (View(r) \o run[r].next)[n] = View(r)[n]
          /\ Len(View(r) \o run[r].next) = Len(View(r)) + Len(run[r].next)
          /\ \A i \in 1..Len(run[r].next) :
               (View(r) \o run[r].next)[Len(View(r)) + i] = run[r].next[i]
          /\ View(r) \o run[r].next \in Seq(CycleType)
          /\ Len(View(r)) \in Nat /\ Len(run[r].next) \in Nat
      BY <1>1, <2>4
    <2>7. Pending(me) = Pending(run[r])
      BY <2>1 DEF Pending
    <2> DEFINE ys == View(r)
               zs == View(r) \o run[r].next
    <2>8. \A n \in 1..Len(zs) : Graced(zs[n])
      <3> SUFFICES ASSUME NEW n \in 1..Len(zs) PROVE Graced(zs[n])
        OBVIOUS
      <3>1. CASE n \in 1..Len(ys)
        BY <1>1, <2>6, <3>1 DEF RunSound
      <3>2. CASE n \notin 1..Len(ys)
        <4> DEFINE i == n - Len(ys)
        <4>1. i \in 1..Len(run[r].next) /\ n = Len(ys) + i
          BY <2>6, <3>2
        <4> HIDE DEF i
        <4>2. zs[n] = run[r].next[i]
          BY <2>6, <4>1
        <4> QED  BY <1>1, <4>1, <4>2 DEF RunSound
      <3> QED  BY <3>1, <3>2
    <2>9. \A c \in Pending(me) : ~IsRent(c) =>
            /\ zs[CycleOf(c)].grace < me.now
            /\ RentOf(c[1], c[2]) \in withdrawn => OffTheDayItWasDue(zs[CycleOf(c)])
      BY <1>1, <2>1, <2>6, <2>7, PendingFacts DEF RunSound
    <2>10. \A e \in me.expiring : /\ CycleOf(e[1]) \in 1..Len(zs)
                                  /\ zs[CycleOf(e[1])].next =< me.now
      <3> SUFFICES ASSUME NEW e \in run[r].expiring
                   PROVE  /\ CycleOf(e[1]) \in 1..Len(zs)
                          /\ zs[CycleOf(e[1])].next =< run[r].now
        BY <2>1
      <3>1. CycleOf(e[1]) \in 1..Len(ys) /\ ys[CycleOf(e[1])].next =< run[r].now
        BY <1>1 DEF RunSound
      <3> QED  BY <2>6, <3>1
    <2>11. /\ me.now =< now /\ \A c \in me.granting : Earned(c)
           /\ \A n \in 1..Len(me.next) : Graced(me.next[n])
      <3>1. Len(me.next) = 0
        BY <2>1
      <3> QED  BY <1>1, <2>1, <3>1 DEF RunSound
    <2> HIDE DEF zs
    <2>12. RunSound(me, zs)
      BY <2>8, <2>9, <2>10, <2>11 DEF RunSound
    <2>13. RunSound(me, cycles \o me.cyc)
      BY <2>5, <2>12 DEF zs
    <2> QED  BY <1>2, <1>4, <2>3, <2>13, OwnPerkStep
  <1>5. CASE RunAbort(r)
    BY <1>3, <1>5 DEF RunAbort
  <1>6. CASE InsertCycle(r)
    <2>1. run' = [run EXCEPT ![r] = IF SuccessorTaken(r) THEN IdleRun ELSE me]
      BY <1>6 DEF InsertCycle
    <2> HIDE DEF me
    <2> QED  BY <1>3, <1>4, <1>6, <2>1
  <1> QED  BY <1>5, <1>6

\* Reading the roster and the late rents, and inserting what was read.
LEMMA PerkAssessStep ==
  ASSUME RentInv, RentInv', PayInv, PayInv', PerkInv, NEW r \in Runs,
         ReadRoster(r) \/ ReadLateRent(r) \/ InsertRent(r) \/ InsertFees(r)
  PROVE  PerkInv'
  <1>1. /\ run[r] \in RunType /\ run \in [Runs -> RunType]
        /\ RunSound(run[r], View(r)) /\ View(r) \in Seq(CycleType)
    BY PendingFacts DEF RentInv, RunsTyped, PerkInv, RunsSound
  <1>2. UNCHANGED <<tables, now, features>>
    BY DEF ReadRoster, ReadLateRent, InsertRent, InsertFees, InsertAssessments, onlyRun, clockVars
  <1>3. /\ \A n \in 1..Len(run[r].next) : Graced(run[r].next[n])
        /\ {i[1] : i \in run[r].ins} \subseteq Pending(run[r])
        /\ run[r].todo \subseteq Pending(run[r])
    BY <1>1 DEF RunSound, Pending
  <1>4. ASSUME NEW pc, NEW todo, run' = [run EXCEPT ![r].pc = pc, ![r].todo = todo],
               \A c \in todo : ~IsRent(c) => /\ View(r)[CycleOf(c)].grace < run[r].now
                                             /\ RentOf(c[1], c[2]) \notin withdrawn
        PROVE  PerkInv'
    <2> DEFINE me == [run[r] EXCEPT !.pc = pc, !.todo = todo]
    <2>1. run' = [run EXCEPT ![r] = me]
      BY <1>1, <1>4
    <2>2. /\ me.now = run[r].now /\ me.cyc = run[r].cyc /\ me.next = run[r].next
          /\ me.todo = todo /\ me.ins = run[r].ins
          /\ me.granting = run[r].granting /\ me.expiring = run[r].expiring
      BY <1>1 DEF RunType
    <2> HIDE DEF me
    <2>3. me = run'[r]
      BY <1>1, <2>1
    <2>4. me \in RunType
      BY <2>3 DEF RentInv, RunsTyped
    <2>5. \A c \in Pending(me) : ~IsRent(c) =>
            \/ c \in Pending(run[r])
            \/ /\ View(r)[CycleOf(c)].grace < run[r].now
               /\ RentOf(c[1], c[2]) \notin withdrawn
      BY <1>4, <2>2 DEF Pending
    <2>6. RunSound(me, cycles \o me.cyc)
      BY <1>3, <2>2, <2>4, <2>5, SameRun
    <2> QED  BY <1>2, <2>1, <2>4, <2>6, OwnPerkStep
  <1>5. CASE ReadRoster(r)
    <2> DEFINE billed == IF run[r].on THEN RosterCycles(r) ELSE {}
               todo == {RentOf(s, n) : s \in claimed, n \in billed} \ {c \in Corr : Assessed(c)}
    <2>1. \A c \in todo : IsRent(c)
      BY DEF RentOf, IsRent
    <2>2. run' = [run EXCEPT ![r].pc = "assess", ![r].todo = todo]
      BY <1>5 DEF ReadRoster
    <2> HIDE DEF todo
    <2> QED  BY <1>4, <2>1, <2>2
  <1>6. CASE ReadLateRent(r)
    <2> DEFINE late(s, n) ==
                 IF Outstanding(RentOf(s, n)) \/ RentOf(s, n) \in Mine(r)
                 THEN {<<s, n, k>> : k \in LateFees(View(r)[n], run[r].now)} ELSE {}
               todo == UNION {late(s, n) : s \in claimed, n \in DOMAIN View(r)}
                         \ {c \in Corr : Assessed(c)}
    <2>1. run' = [run EXCEPT ![r].pc = "fees", ![r].todo = todo]
      BY <1>6 DEF ReadLateRent
    <2>2. \A y, t : LateFees(y, t) # {} => t > y.grace
      BY DEF LateFees, FeesAccrue
    <2>3. \A c \in withdrawn : c \notin Mine(r) /\ ~Outstanding(c)
      <3>1. \A c \in withdrawn : Assessed(c)
        BY DEF PayInv, WithdrawalsUntouched
      <3>2. \A i \in run[r].ins : ~Assessed(i[1])
        BY DEF RentInv, AssessmentsNew, Assessed
      <3> QED  BY <3>1, <3>2 DEF Mine, Outstanding
    <2>4. ASSUME NEW c \in todo
          PROVE  View(r)[CycleOf(c)].grace < run[r].now /\ RentOf(c[1], c[2]) \notin withdrawn
      <3>1. PICK s \in claimed, n \in DOMAIN View(r) : c \in late(s, n)
        BY <2>4
      <3>2. PICK k \in LateFees(View(r)[n], run[r].now) : c = <<s, n, k>>
        BY <3>1
      <3>3. RentOf(s, n) \notin withdrawn
        BY <2>3, <3>1
      <3>4. CycleOf(c) = n /\ c[1] = s /\ c[2] = n
        BY <3>2 DEF CycleOf
      <3>5. run[r].now > View(r)[n].grace
        BY <2>2, <3>2
      <3>6. View(r)[n].grace \in Nat /\ run[r].now \in Nat
        <4>1. View(r)[n] \in CycleType
          BY <1>1
        <4> QED  BY <1>1, <4>1 DEF CycleType, RunType
      <3> QED  BY <3>3, <3>4, <3>5, <3>6
    <2> HIDE DEF todo
    <2> QED  BY <1>4, <2>1, <2>4
  <1>7. ASSUME NEW from, NEW to, InsertAssessments(r, from, to) PROVE PerkInv'
    <2> DEFINE new == {<<c, AssessmentPolicy(r, c)>> : c \in NewAssessments(r)}
               ins == run[r].ins \cup new
               me == [run[r] EXCEPT !.pc = to, !.todo = {}, !.ins = ins]
    <2>1. run' = [run EXCEPT ![r].pc = to, ![r].todo = {}, ![r].ins = ins]
      BY <1>7 DEF InsertAssessments
    <2>2. \A i \in ins : i \in run[r].ins \/ i[1] \in run[r].todo
      BY DEF NewAssessments
    <2> HIDE DEF ins
    <2>3. run' = [run EXCEPT ![r] = me]
      BY <1>1, <2>1
    <2>4. /\ me.now = run[r].now /\ me.cyc = run[r].cyc /\ me.next = run[r].next
          /\ me.todo = {} /\ me.ins = ins
          /\ me.granting = run[r].granting /\ me.expiring = run[r].expiring
      BY <1>1 DEF RunType
    <2> HIDE DEF me
    <2>5. me = run'[r]
      BY <1>1, <2>3
    <2>6. me \in RunType
      BY <2>5 DEF RentInv, RunsTyped
    <2>7. Pending(me) \subseteq Pending(run[r])
      BY <2>2, <2>4 DEF Pending
    <2>8. RunSound(me, cycles \o me.cyc)
      BY <1>3, <2>4, <2>6, <2>7, SameRun
    <2> QED  BY <1>2, <2>3, <2>6, <2>8, OwnPerkStep
  <1> QED  BY <1>5, <1>6, <1>7 DEF InsertRent, InsertFees

\* Expiring the perks of ended periods, and granting those of periods begun.
LEMMA PerkPerksStep ==
  ASSUME RentInv, RentInv', PayInv, PayInv', PerkInv, NEW r \in Runs,
         ExpirePerks(r) \/ GrantPerks(r)
  PROVE  PerkInv'
  <1>1. /\ run[r] \in RunType /\ run \in [Runs -> RunType] /\ run[r].now \in Nat
        /\ RunSound(run[r], View(r)) /\ View(r) \in Seq(CycleType)
        /\ \A n \in 1..Len(run[r].next) : Graced(run[r].next[n])
    BY PendingFacts DEF RentInv, RunsTyped, PerkInv, RunsSound, RunSound, RunType
  <1>2. UNCHANGED <<tables, now, features>>
    BY DEF ExpirePerks, GrantPerks, onlyRun, clockVars
  <1>3. CASE ExpirePerks(r)
    <2> DEFINE ends == {<<c, granted[c]>> : c \in PerksToEnd(r)}
               me == [run[r] EXCEPT !.pc = "grant", !.seats = PerkHolders(r), !.expiring = ends]
    <2>1. \A e \in ends : /\ CycleOf(e[1]) \in 1..Len(View(r))
                          /\ View(r)[CycleOf(e[1])].next =< run[r].now
      BY <1>1 DEF PerksToEnd, EndedCycles
    <2>2. run' = [run EXCEPT ![r].pc = "grant", ![r].seats = PerkHolders(r),
                             ![r].expiring = ends]
      BY <1>3 DEF ExpirePerks
    <2> HIDE DEF ends
    <2>3. run' = [run EXCEPT ![r] = me]
      BY <1>1, <2>2
    <2>4. /\ me.now = run[r].now /\ me.cyc = run[r].cyc /\ me.next = run[r].next
          /\ me.todo = run[r].todo /\ me.ins = run[r].ins
          /\ me.granting = run[r].granting /\ me.expiring = ends
      BY <1>1 DEF RunType
    <2> HIDE DEF me
    <2>5. me = run'[r]
      BY <1>1, <2>3
    <2>6. me \in RunType
      BY <2>5 DEF RentInv, RunsTyped
    <2>7. Pending(me) = Pending(run[r])
      BY <2>4 DEF Pending
    <2>8. RunSound(me, cycles \o me.cyc)
      BY <1>1, <2>1, <2>4, <2>6, <2>7, SameRun
    <2> QED  BY <1>2, <2>3, <2>6, <2>8, OwnPerkStep
  <1>4. CASE GrantPerks(r)
    <2> DEFINE earned == PerksEarnedInAdvance(r)
               me == [run[r] EXCEPT !.pc = "late", !.granting = earned]
    <2>1. ASSUME NEW c \in earned PROVE Earned(c)
      <3>1. /\ c \in Corr /\ IsRent(c) /\ Satisfied(c) /\ waived[c] = 0
            /\ CycleOf(c) \in CurrentCycles(View(r), run[r].now)
        BY <2>1 DEF PerksEarnedInAdvance
      <3>2. Assessed(c) /\ paid[c] >= Amount(c)
        BY <3>1 DEF Satisfied
      <3>3. CycleOf(c) \in 1..Len(cycles) /\ cycles[CycleOf(c)] \in CycleType
        BY <3>1, <3>2, LiabilityFacts
      <3>4. View(r)[CycleOf(c)] = cycles[CycleOf(c)]
        BY <3>3, ViewFacts DEF RentInv
      <3>5. View(r)[CycleOf(c)].boundary =< run[r].now
        BY <3>1 DEF CurrentCycles
      <3>6. run[r].now =< now /\ now \in Nat
        BY <1>1 DEF RunSound, RentInv, RunsTyped
      <3> QED  BY <1>1, <3>1, <3>2, <3>3, <3>4, <3>5, <3>6 DEF Earned, CycleType
    <2>2. run' = [run EXCEPT ![r].pc = "late", ![r].granting = earned]
      BY <1>4 DEF GrantPerks
    <2> HIDE DEF earned
    <2>3. run' = [run EXCEPT ![r] = me]
      BY <1>1, <2>2
    <2>4. /\ me.now = run[r].now /\ me.cyc = run[r].cyc /\ me.next = run[r].next
          /\ me.todo = run[r].todo /\ me.ins = run[r].ins
          /\ me.granting = earned /\ me.expiring = run[r].expiring
      BY <1>1 DEF RunType
    <2> HIDE DEF me
    <2>5. me = run'[r]
      BY <1>1, <2>3
    <2>6. me \in RunType
      BY <2>5 DEF RentInv, RunsTyped
    <2>7. Pending(me) = Pending(run[r])
      BY <2>4 DEF Pending
    <2>8. RunSound(me, cycles \o me.cyc)
      BY <1>1, <2>1, <2>4, <2>6, <2>7, SameRun
    <2> QED  BY <1>2, <2>3, <2>6, <2>8, OwnPerkStep
  <1> QED  BY <1>3, <1>4

\* What another run sees when one commits: the lineage it saw, or all of the new one.
LEMMA ViewAfter ==
  ASSUME RentInv, NEW r \in Runs, RunCommit(r), NEW q \in Runs \ {r}
  PROVE  run'[q] = run[q] /\ (View(q)' = View(q) \/ (View(q)' = View(r) /\ View(q) = cycles))
  <1>1. cycles' = View(r) /\ run'[q] = run[q]
    BY CommitFacts DEF RentInv, RunsTyped
  <1>2. cycles \in Seq(CycleType) /\ View(r) \in Seq(CycleType)
    BY ViewFacts DEF RentInv, RunsTyped
  <1>3. run[r].cyc = <<>> \/ run[q].cyc = <<>>
    BY DEF RentInv, SuccessorsNumbered
  <1>4. CASE run[r].cyc = <<>>
    <2>1. cycles' = cycles
      BY <1>1, <1>2, <1>4, ConcatEmpty DEF View
    <2> QED  BY <1>1, <2>1 DEF View
  <1>5. CASE run[q].cyc = <<>>
    BY <1>1, <1>2, <1>5, ConcatEmpty DEF View
  <1> QED  BY <1>3, <1>4, <1>5

\* Committing a run: its fees, grants and expiries become the tables'.
LEMMA PerkCommitStep ==
  ASSUME RentInv, RentInv', PayInv, PayInv', PerkInv, TablesGrow, NEW r \in Runs, RunCommit(r)
  PROVE  PerkInv'
  <1>1. /\ cycles' = View(r) /\ UNCHANGED <<now, paid, withdrawn>>
        /\ run' = [run EXCEPT ![r] = IdleRun]
        /\ \A c \in Corr \ Mine(r) : rows'[c] = rows[c]
    BY CommitFacts DEF RunCommit, clockVars
  <1>2. /\ run[r] \in RunType /\ run \in [Runs -> RunType] /\ now \in Nat
        /\ RunSound(run[r], View(r)) /\ View(r) \in Seq(CycleType) /\ paid \in [Corr -> Nat]
        /\ run[r].now =< now /\ run[r].now \in Nat
    BY PendingFacts DEF RentInv, RunsTyped, PerkInv, RunsSound, PayInv, MoneyTyped, RunSound, RunType
  <1>3. \A c \in Corr : paid[c] =< paid'[c]
    BY <1>1, <1>2
  <1>4. \A n \in 1..Len(cycles') : Graced(cycles'[n])
    BY <1>1, <1>2 DEF RunSound
  <1>5. RunsSound'
    <2> SUFFICES ASSUME NEW q \in Runs, NEW me, me = run'[q], NEW zs, zs = View(q)'
                 PROVE  RunSound(me, zs)'
      BY DEF RunsSound, RunSound, Earned
    <2>1. CASE q = r
      <3>1. me = IdleRun /\ zs = View(r) \o IdleRun.cyc
        BY <1>1, <1>2, <2>1 DEF View
      <3>2. zs = View(r)
        BY <1>2, <3>1, IdleRecord, ConcatEmpty
      <3>3. Pending(me) = {} /\ Len(me.next) = 0 /\ 0 =< now'
        BY <1>1, <1>2, <3>1, IdleRecord DEF Pending
      <3> QED  BY <1>1, <1>4, <3>1, <3>2, <3>3, IdleRecord DEF RunSound
    <2>2. CASE q # r
      <3>1. me = run[q] /\ me \in RunType
        BY <1>1, <1>2, <2>2
      <3> DEFINE ys == View(q)
      <3>2. /\ ys \in Seq(CycleType) /\ RunSound(me, ys) /\ Pending(me) \in SUBSET Corr
            /\ \A c \in Pending(me) : CycleOf(c) \in 1..Len(ys)
        BY <3>1, PendingFacts DEF PerkInv, RunsSound
      <3>3. /\ zs \in Seq(CycleType) /\ Len(ys) =< Len(zs)
            /\ \A n \in 1..Len(ys) : zs[n] = ys[n] /\ \A m \in 1..Len(zs) : Graced(zs[m])
        <4>1. CASE zs = ys
          BY <3>2, <4>1 DEF RunSound
        <4>2. CASE zs = View(r) /\ ys = cycles
          BY <1>1, <1>2, <1>4, <4>2 DEF TablesGrow
        <4> QED  BY <2>2, <4>1, <4>2, ViewAfter
      <3>4. \A m \in 1..Len(zs) : Graced(zs[m])
        <4>1. CASE zs = ys
          BY <3>2, <4>1 DEF RunSound
        <4>2. CASE zs = View(r)
          BY <1>1, <1>4, <4>2
        <4> QED  BY <2>2, <4>1, <4>2, ViewAfter
      <3> HIDE DEF ys
      <3>5. withdrawn' \ withdrawn = {}
        BY <1>1
      <3> QED  BY <1>3, <3>1, <3>2, <3>3, <3>4, <3>5, SoundRunStays
    <2> QED  BY <2>1, <2>2
  <1>6. ASSUME NEW c \in Corr, c \in Mine(r), ~IsRent(c)
        PROVE  /\ View(r)[CycleOf(c)].grace < run[r].now /\ CycleOf(c) \in 1..Len(View(r))
               /\ RentOf(c[1], c[2]) \in withdrawn => OffTheDayItWasDue(View(r)[CycleOf(c)])
    <2>1. c \in Pending(run[r])
      BY <1>6 DEF Mine, Pending
    <2> QED  BY <1>2, <1>6, <2>1, PendingFacts DEF RunSound
  <1>7. FeesLate'
    <2> SUFFICES ASSUME NEW c \in Corr, Assessed(c)', ~IsRent(c)
                 PROVE  cycles'[CycleOf(c)].grace < now'
      BY DEF FeesLate
    <2>1. CASE c \in Mine(r)
      <3>1. View(r)[CycleOf(c)] \in CycleType
        BY <1>2, <1>6, <2>1
      <3> QED  BY <1>1, <1>2, <1>6, <2>1, <3>1 DEF CycleType
    <2>2. CASE c \notin Mine(r)
      <3>1. Assessed(c)
        BY <1>1, <2>2 DEF Assessed
      <3> QED  BY <1>1, <3>1, LiabilityStays DEF PerkInv, FeesLate
    <2> QED  BY <2>1, <2>2
  <1>8. GrantsEarned'
    <2> SUFFICES ASSUME NEW c \in Corr, granted'[c] > 0 PROVE Earned(c)'
      BY DEF GrantsEarned
    <2>1. granted'[c] = IF c \in run[r].granting THEN granted[c] + 1 ELSE granted[c]
      BY DEF RunCommit
    <2>2. Earned(c)
      BY <1>2, <2>1 DEF RunSound, PerkInv, GrantsEarned
    <2> QED  BY <1>3, <2>2, EarnedStays
  <1>9. ExpiriesEnded'
    <2> SUFFICES ASSUME NEW c \in Corr, expired'[c] > 0
                 PROVE  CycleOf(c) \in 1..Len(cycles') /\ cycles'[CycleOf(c)].next =< now'
      BY DEF ExpiriesEnded
    <2>1. CASE \E e \in run[r].expiring : e[1] = c
      <3>1. /\ CycleOf(c) \in 1..Len(View(r)) /\ View(r)[CycleOf(c)].next =< run[r].now
        BY <1>2, <2>1 DEF RunSound
      <3>2. View(r)[CycleOf(c)] \in CycleType
        BY <1>2, <3>1
      <3> QED  BY <1>1, <1>2, <3>1, <3>2 DEF CycleType
    <2>2. CASE ~ \E e \in run[r].expiring : e[1] = c
      <3>1. expired'[c] = expired[c]
        BY <2>2 DEF RunCommit
      <3> QED  BY <3>1, ExpiriesStay DEF PerkInv
    <2> QED  BY <2>1, <2>2
  <1>10. NoFeeOnWithdrawn'
    <2> SUFFICES ASSUME NEW c \in withdrawn, NEW k \in 1..MaxFees, Assessed(<<c[1], c[2], k>>)'
                 PROVE  OffTheDayItWasDue(cycles[c[2]])'
      BY <1>1 DEF NoFeeOnWithdrawn
    <2> DEFINE f == <<c[1], c[2], k>>
    <2>1. c \in Corr /\ IsRent(c) /\ MaxFees \in Nat
      BY ObligationConstants DEF PayInv, MoneyTyped, WithdrawalsUntouched
    <2>2. /\ f \in Corr /\ ~IsRent(f) /\ f[1] = c[1] /\ f[2] = c[2] /\ RentOf(f[1], f[2]) = c
          /\ CycleOf(f) = c[2]
      BY <2>1 DEF Corr, IsRent, RentOf, CycleOf
    <2>3. OffTheDayItWasDue(cycles'[c[2]])
      <3>1. CASE f \in Mine(r)
        <4> HIDE DEF f
        <4> QED  BY <1>1, <1>6, <2>2, <3>1
      <3>2. CASE f \notin Mine(r)
        <4>1. Assessed(f)
          BY <1>1, <2>2, <3>2 DEF Assessed
        <4>2. OffTheDayItWasDue(cycles[c[2]])
          BY <4>1 DEF PerkInv, NoFeeOnWithdrawn
        <4> QED  BY <2>2, <4>1, <4>2, LiabilityStays
      <3> QED  BY <3>1, <3>2
    <2>4. features' = features
      BY CommitFacts
    <2> QED  BY <2>3, <2>4 DEF OffTheDayItWasDue
  <1> QED  BY <1>4, <1>5, <1>7, <1>8, <1>9, <1>10 DEF PerkInv

\* A payment commits: the perks it grants are for rent it pays off.
LEMMA PerkPayCommitStep ==
  ASSUME RentInv, RentInv', PayInv, PayInv', PerkInv, TablesGrow, NEW k \in Payments, PayCommit(k)
  PROVE  PerkInv'
  <1>1. /\ UNCHANGED <<cycles, rows, withdrawn, now, run, expired>>
        /\ granted' = [c \in Corr |-> IF c \in pay[k].granting THEN granted[c] + 1 ELSE granted[c]]
    BY DEF PayCommit, clockVars
  <1>2. /\ paid \in [Corr -> Nat] /\ CommandSound(k, pay[k]) /\ pay[k].posts \in SUBSET PostType
        /\ pay[k].granting \in SUBSET Corr
    BY DEF PayInv, MoneyTyped, CommandsSound, CommandType
  <1>3. ASSUME NEW c \in Corr PROVE paid[c] =< paid'[c]
    <2>1. \A p \in pay[k].posts : p.amount \in Nat
      BY <1>2 DEF PostType
    <2> QED  BY <1>2, <2>1, PayCommitFacts
  <1>4. ASSUME NEW c \in pay[k].granting PROVE Earned(c)'
    <2>1. c \in Corr /\ IsRent(c) /\ cycles[CycleOf(c)].boundary =< now
      BY <1>2 DEF CommandSound, GrantSettled
    <2>2. PICK p \in pay[k].posts : p.corr = c /\ paid[c] + p.amount = Amount(c)
      BY <1>2 DEF CommandSound, GrantSettled
    <2>3. PostFits(k, pay[k], p)
      BY <1>2 DEF CommandSound
    <2>4. PICK q \in pay[k].posts : q.corr = c /\ paid'[c] = paid[c] + q.amount
      BY <2>1, <2>2, PayCommitFacts
    <2>5. q = p
      BY <2>2, <2>3, <2>4 DEF PostFits
    <2>6. Assessed(c) /\ Amount(c) \in Nat
      BY <2>1, <2>2, <2>3, LiabilityFacts DEF PostFits
    <2>7. paid'[c] >= Amount(c)
      BY <2>2, <2>4, <2>5, <2>6
    <2> QED  BY <1>1, <2>1, <2>6, <2>7 DEF Earned, Assessed, Amount, FrozenTerms
  <1>5. RunsSound'
    <2> SUFFICES ASSUME NEW r \in Runs, NEW me, me = run[r], NEW ys, ys = View(r)
                 PROVE  RunSound(me, ys)'
      BY <1>1 DEF RunsSound, RunSound, Earned, View
    <2>1. /\ me \in RunType /\ ys \in Seq(CycleType) /\ RunSound(me, ys)
          /\ \A c \in Pending(me) : CycleOf(c) \in 1..Len(ys)
      BY PendingFacts DEF PerkInv, RunsSound
    <2>2. /\ \A n \in 1..Len(ys) : Graced(ys[n])
          /\ withdrawn' \ withdrawn = {} /\ Len(ys) =< Len(ys)
      BY <1>1, <2>1 DEF RunSound
    <2> QED  BY <1>3, <2>1, <2>2, SoundRunStays
  <1>6. FeesLate' /\ \A n \in 1..Len(cycles') : Graced(cycles'[n])
    BY <1>1, FeesStay
  <1>7. GrantsEarned'
    <2> SUFFICES ASSUME NEW c \in Corr, granted'[c] > 0 PROVE Earned(c)'
      BY DEF GrantsEarned
    <2>1. CASE c \in pay[k].granting
      BY <1>4, <2>1
    <2>2. CASE c \notin pay[k].granting
      <3>1. Earned(c)
        BY <1>1, <2>2 DEF PerkInv, GrantsEarned
      <3> QED  BY <1>3, <3>1, EarnedStays
    <2> QED  BY <2>1, <2>2
  <1>8. ExpiriesEnded' /\ NoFeeOnWithdrawn'
    BY <1>1, FeeStays DEF PerkInv, ExpiriesEnded
  <1> QED  BY <1>5, <1>6, <1>7, <1>8 DEF PerkInv

\* Disabling withdraws rent due no earlier than the disablement. No late fee of it is
\* assessed, or about to be, unless it was due on that very day and had no grace.
LEMMA PerkDisableStep ==
  ASSUME RentInv, RentInv', PayInv, PayInv', PerkInv, TablesGrow, DisableCommit
  PROVE  PerkInv'
  <1>1. /\ UNCHANGED <<cycles, rows, paid, granted, expired, now, run>> /\ disable.pc = "commit"
        /\ withdrawn' = withdrawn \cup disable.withdraw
    BY DEF DisableCommit, moneyVars
  <1>2. /\ paid \in [Corr -> Nat] /\ withdrawn \in SUBSET Corr /\ now \in Nat
        /\ disable.at \in Nat /\ disable.withdraw \in SUBSET Corr /\ now =< disable.at + 1
        /\ \A c \in disable.withdraw :
             /\ IsRent(c) /\ Assessed(c) /\ disable.at =< cycles[CycleOf(c)].boundary
    BY <1>1 DEF PayInv, MoneyTyped, WithdrawalsUntouched, DisableType, RentInv, RunsTyped
  <1>3. \A c \in Corr : paid[c] =< paid'[c]
    BY <1>1, <1>2
  <1>4. ASSUME NEW c \in disable.withdraw, NEW y, y = cycles[CycleOf(c)]
        PROVE  /\ CycleOf(c) \in 1..Len(cycles) /\ y.grace \in Nat
               /\ now =< y.grace \/ OffTheDayItWasDue(y)'
    <2>1. CycleOf(c) \in 1..Len(cycles) /\ y \in CycleType
      BY <1>2, <1>4, LiabilityFacts
    <2>2. y.boundary =< y.grace /\ disable.at =< y.boundary
      BY <1>2, <1>4, <2>1 DEF PerkInv, Graced
    <2>3. y.grace \in Nat /\ y.boundary \in Nat
      BY <2>1 DEF CycleType
    <2>4. CASE y.boundary < y.grace \/ disable.at < y.boundary
      BY <1>2, <2>1, <2>2, <2>3, <2>4
    <2>5. CASE y.grace = y.boundary /\ disable.at = y.boundary
      <3>1. features \in Seq(FeatureType) /\ disable.at \in Nat
        BY DEF RentInv, RunsTyped
      <3>2. features' = Append(features, [at |-> disable.at, on |-> FALSE])
        BY DEF DisableCommit
      <3>3. /\ Len(features) + 1 \in DOMAIN features'
            /\ features'[Len(features) + 1] = [at |-> disable.at, on |-> FALSE]
        BY <3>1, <3>2
      <3>4. OffTheDayItWasDue(y)'
        BY <2>5, <3>3 DEF OffTheDayItWasDue
      <3> QED  BY <2>1, <2>3, <3>4
    <2> QED  BY <1>2, <2>2, <2>3, <2>4, <2>5
  <1>5. RunsSound'
    <2> SUFFICES ASSUME NEW r \in Runs, NEW me, me = run[r], NEW ys, ys = View(r)
                 PROVE  RunSound(me, ys)'
      BY <1>1 DEF RunsSound, RunSound, Earned, View
    <2>1. /\ me \in RunType /\ ys \in Seq(CycleType) /\ RunSound(me, ys)
          /\ Pending(me) \in SUBSET Corr
          /\ \A c \in Pending(me) : CycleOf(c) \in 1..Len(ys)
      BY PendingFacts DEF PerkInv, RunsSound
    <2>2. ASSUME NEW c \in Pending(me), ~IsRent(c), RentOf(c[1], c[2]) \in withdrawn' \ withdrawn
          PROVE  OffTheDayItWasDue(ys[CycleOf(c)])'
      <3>1. /\ RentOf(c[1], c[2]) \in disable.withdraw
            /\ ys[CycleOf(c)].grace < me.now /\ me.now =< now /\ me.now \in Nat
        BY <1>1, <2>1, <2>2 DEF RunSound, RunType
      <3> DEFINE n == CycleOf(c)
      <3>2. CycleOf(RentOf(c[1], c[2])) = n
        BY DEF CycleOf, RentOf
      <3>3. /\ n \in 1..Len(cycles) /\ cycles[n].grace \in Nat
            /\ ys[n] = cycles[n]
        BY <1>4, <3>1, <3>2, ViewFacts DEF RentInv
      <3>4. now =< ys[n].grace \/ OffTheDayItWasDue(ys[n])'
        BY <1>4, <3>1, <3>2, <3>3
      <3> QED  BY <1>2, <3>1, <3>3, <3>4
    <2>3. \A n \in 1..Len(ys) : Graced(ys[n])
      BY <2>1 DEF RunSound
    <2>4. Len(ys) =< Len(ys)
      BY <2>1
    <2> QED  BY <1>3, <2>1, <2>2, <2>3, <2>4, SoundRunStays
  <1>6. FeesLate' /\ \A n \in 1..Len(cycles') : Graced(cycles'[n])
    BY <1>1, FeesStay
  <1>7. GrantsEarned' /\ ExpiriesEnded'
    BY <1>1 DEF PerkInv, GrantsEarned, ExpiriesEnded, Earned, Assessed, Amount, FrozenTerms
  <1>8. NoFeeOnWithdrawn'
    <2> SUFFICES ASSUME NEW c \in withdrawn', NEW k \in 1..MaxFees,
                        Assessed(<<c[1], c[2], k>>)
                 PROVE  OffTheDayItWasDue(cycles[c[2]])'
      BY <1>1 DEF NoFeeOnWithdrawn, Assessed
    <2> DEFINE f == <<c[1], c[2], k>>
    <2>1. CASE c \in withdrawn
      <3>1. OffTheDayItWasDue(cycles[c[2]])
        BY <2>1 DEF PerkInv, NoFeeOnWithdrawn
      <3>2. ASSUME NEW y, y = cycles[c[2]] PROVE OffTheDayItWasDue(y)'
        BY <3>1, <3>2, OffStays
      <3> QED  BY <1>1, <3>2
    <2>2. CASE c \in disable.withdraw
      <3>1. c \in Corr /\ IsRent(c) /\ MaxFees \in Nat
        BY <1>2, <2>2, ObligationConstants
      <3>2. f \in Corr /\ ~IsRent(f) /\ CycleOf(f) = CycleOf(c) /\ CycleOf(c) = c[2]
        BY <3>1 DEF Corr, IsRent, CycleOf
      <3>3. cycles[CycleOf(f)].grace < now
        BY <3>2 DEF PerkInv, FeesLate
      <3>4. ASSUME NEW y, y = cycles[c[2]] PROVE OffTheDayItWasDue(y)'
        BY <1>2, <1>4, <2>2, <3>2, <3>3, <3>4
      <3> QED  BY <1>1, <3>4
    <2> QED  BY <1>1, <2>1, <2>2
  <1> QED  BY <1>5, <1>6, <1>7, <1>8 DEF PerkInv

\* Every step preserves the perk invariant.
LEMMA PerkNext == RentInv /\ RentInv' /\ PayInv /\ PayInv' /\ PerkInv /\ [Next]_vars => PerkInv'
  <1> SUFFICES ASSUME RentInv, RentInv', PayInv, PayInv', PerkInv, [Next]_vars PROVE PerkInv'
    OBVIOUS
  <1>1. ASSUME UNCHANGED <<cycles, rows, paid, granted, expired, withdrawn, run>>, TablesGrow
        PROVE  PerkInv'
    <2>1. \A c \in Corr : paid[c] =< paid'[c]
      BY <1>1 DEF PayInv, MoneyTyped
    <2> QED  BY <1>1, <2>1, PerkQuiet
  <1>2. CASE UNCHANGED vars
    <2>1. UNCHANGED <<cycles, rows, now, features, paid, granted, expired, withdrawn, run>>
      BY <1>2 DEF vars, tables, clockVars
    <2>2. TablesGrow
      BY <2>1 DEF RentInv, RunsTyped, TablesGrow
    <2> QED  BY <1>1, <2>1, <2>2
  <1>3. CASE DisableCommit
    BY <1>3, StepGrows, PerkDisableStep DEF Next
  <1>4. ASSUME NEW k \in Payments, PayCommit(k) PROVE PerkInv'
    <2>1. Next
      BY <1>4 DEF Next, PayStep
    <2> QED  BY <1>4, <2>1, StepGrows, PerkPayCommitStep
  <1>5. ASSUME NEW k \in Payments, PayRead(k) \/ PayLock(k) \/ PaySlice(k) \/ PayAbort(k)
        PROVE  PerkInv'
    <2>1. Next
      BY <1>5 DEF Next, PayStep
    <2>2. UNCHANGED <<cycles, rows, paid, granted, expired, withdrawn, run>>
      BY <1>5 DEF PayRead, PayLock, PaySlice, PayAbort, onlyPay, tables
    <2> QED  BY <1>1, <2>1, <2>2, StepGrows
  <1>6. ASSUME NEW r \in Runs, JobCheck(r) \/ RunStep(r) \/ RunAbort(r) PROVE PerkInv'
    <2>1. Next
      BY <1>6 DEF Next
    <2>2. CASE RunCommit(r)
      BY <2>1, <2>2, StepGrows, PerkCommitStep
    <2>3. CASE ~RunCommit(r)
      BY <1>6, <2>3, PerkBeginStep, PerkCycleStep, PerkAssessStep, PerkPerksStep DEF RunStep
    <2> QED  BY <2>2, <2>3
  <1>7. CASE \/ Tick \/ SaveSettings \/ DisableRead \/ Enable \/ \E s \in Seats : Claim(s)
             \/ \E w \in Waivers : (\E c \in Corr : WaiveCheck(w, c)) \/ WaiveInsert(w)
    <2>1. Next
      BY <1>7 DEF Next
    <2>2. UNCHANGED <<cycles, rows, paid, granted, expired, withdrawn, run>>
      BY <1>7 DEF Tick, SaveSettings, DisableRead, Enable, Claim, WaiveCheck, WaiveInsert, tables
    <2> QED  BY <1>1, <2>1, <2>2, StepGrows
  <1> QED  BY <1>2, <1>3, <1>4, <1>5, <1>6, <1>7 DEF Next, PayStep

\* The perk invariant holds in every reachable state.
LEMMA PerkInvariant == Spec => []PerkInv
  <1>1. Spec => []RentInv
    BY RentInvariant
  <1>2. Spec => []PayInv
    BY PayInvariant
  <1>3. Spec => Init /\ [][Next]_vars
    BY DEF Spec
  <1> QED  BY <1>1, <1>2, <1>3, PerkInit, PerkNext, PTL

(***************************************************************************)
(* Perks are granted only for rent that has been paid in full with money   *)
(* and whose period has begun, whether a payment or a reconciliation       *)
(* grants them (_period_has_begun, _grant_period_start_perks).             *)
(***************************************************************************)
THEOREM PerksAreEarned == Spec => []PerksEarned
  <1>1. PerkInv => PerksEarned
    BY DEF PerkInv, GrantsEarned, Earned, PerksEarned
  <1> QED  BY <1>1, PerkInvariant, PTL

(***************************************************************************)
(* Perks are taken back only when their own period has ended, never when a *)
(* successor is created ahead of it (_expire_ended_period_perks).          *)
(***************************************************************************)
THEOREM PerksOutlastTheirPeriod == Spec => []PerksLastTheirPeriod
  <1>1. PerkInv => PerksLastTheirPeriod
    BY DEF PerkInv, ExpiriesEnded, PerksLastTheirPeriod
  <1> QED  BY <1>1, PerkInvariant, PTL

(***************************************************************************)
(* Whatever the grace of the policies, no late fee is assessed of rent     *)
(* that was withdrawn, though a run may read the rent as outstanding       *)
(* before the withdrawal commits (_assess_late_fees): the only fee that    *)
(* can come first is of a period without grace, switched off on the day it *)
(* began by a transaction that commits after that day's midnight.          *)
(***************************************************************************)
THEOREM WithdrawnRentAccruesNoFee == Spec => []NoFeeOnWithdrawn
  <1>1. PerkInv => NoFeeOnWithdrawn
    BY DEF PerkInv
  <1> QED  BY <1>1, PerkInvariant, PTL

-----------------------------------------------------------------------------
(***************************************************************************)
(* The seat's money: the debits a payment decides, slice after slice, stay *)
(* within what the seat can spend until they are committed.                *)
(***************************************************************************)

AmountOf == [p \in PostType |-> p.amount]

\* The amounts of a set of debits add up.
LEMMA AmountSum ==
  ASSUME NEW S \in SUBSET PostType, IsFiniteSet(S)
  PROVE  MapThenSumSet(LAMBDA p : p.amount, S) = Total(AmountOf, S)
  <1> DEFINE Q(h) == h = [s \in SUBSET S |->
                            IF s = {} THEN 0 ELSE First(s).amount + h[s \ {First(s)}]]
             paidIn == MapThenSumSet(LAMBDA p : p.amount, S)
  <1>1. paidIn = (CHOOSE h : Q(h))[S]
    BY DEF MapThenSumSet, MapThenFoldSet, First
  <1>2. \A h : Q(h) <=> IsSum(h, AmountOf, S)
    <2>1. \A s \in SUBSET S : s # {} => AmountOf[First(s)] = First(s).amount
      BY FirstFacts DEF AmountOf
    <2> QED  BY <2>1 DEF IsSum
  <1> HIDE DEF paidIn, Q
  <1>3. PICK h : IsSum(h, AmountOf, S)
    BY SumExists
  <1>4. IsSum(CHOOSE k : Q(k), AmountOf, S)
    BY <1>2, <1>3
  <1>5. Total(AmountOf, S) = (CHOOSE k : Q(k))[S]
    BY <1>4, TotalOfSum
  <1> QED  BY <1>1, <1>5 DEF paidIn

\* What a command may still spend is no debt, no debit exceeds what was asked of
\* its slice, and while it holds the class row its debits fit in the cash.
Covered(me, cash) ==
  /\ me.budget \in Nat /\ IsFiniteSet(me.posts)
  /\ \A p \in me.posts : p.amount =< p.asked
  /\ me.pc = "paying" => Total(AmountOf, me.posts) =< cash

CoverInv ==
  /\ funds \in [Seats -> Nat]
  /\ \A p \in posted : p.amount =< p.asked
  /\ \A k \in Payments : Covered(pay[k], funds[Payer(k)])

\* The seat a payment is charged to.
LEMMA PayerFacts == \A k \in Payments : Payer(k) \in Seats
  BY RentConstants DEF Payer, Corr

\* Nothing has been decided.
LEMMA NothingDecided ==
  ASSUME NEW me, me.budget = 0, me.posts = {}, NEW cash \in Nat
  PROVE  Covered(me, cash)
  <1>1. IsFiniteSet({}) /\ Total(AmountOf, {}) = 0
    BY TotalUnfold, FS_EmptySet
  <1> QED  BY <1>1 DEF Covered

\* A step of one command, its money not yet moved.
LEMMA CoverLocal ==
  ASSUME PayInv, CoverInv, NEW k \in Payments, NEW me, pay' = [pay EXCEPT ![k] = me],
         UNCHANGED <<funds, posted>>, Covered(me, funds[Payer(k)])
  PROVE  CoverInv'
  <1>1. pay'[k] = me /\ \A l \in Payments \ {k} : pay'[l] = pay[l]
    BY DEF PayInv, MoneyTyped
  <1>2. ASSUME NEW l \in Payments PROVE Covered(pay'[l], funds[Payer(l)])
    BY <1>1 DEF CoverInv
  <1>3. \A l \in Payments : Payer(l)' = Payer(l)
    BY DEF Payer
  <1> QED  BY <1>2, <1>3 DEF CoverInv, Covered

\* A command that is over has decided nothing.
LEMMA CoverFinish ==
  ASSUME PayInv, CoverInv, NEW k \in Payments, NEW outcome, Finish(k, outcome),
         UNCHANGED <<funds, posted>>
  PROVE  CoverInv'
  <1> DEFINE me == [NewPay EXCEPT !.try = pay[k].try, !.out = outcome, !.prev = pay[k].prev]
  <1>1. me.budget = 0 /\ me.posts = {}
    BY DEF NewPay
  <1>2. pay' = [pay EXCEPT ![k] = me]
    BY DEF Finish
  <1> HIDE DEF me
  <1>3. funds[Payer(k)] \in Nat
    BY PayerFacts DEF CoverInv
  <1> QED  BY <1>1, <1>2, <1>3, NothingDecided, CoverLocal

\* What remains of a bill, and so what is asked, is no debt.
LEMMA AskedFacts ==
  ASSUME RentInv, PayInv, NEW k \in Payments
  PROVE  LET bill == BillOf(k)
             slices == [j \in DOMAIN bill |-> <<bill[j], Remaining(bill[j])>>]
         IN  SumRemaining(slices) \in Nat
  <1> DEFINE bill == BillOf(k)
             slices == [j \in DOMAIN bill |-> <<bill[j], Remaining(bill[j])>>]
             f == [j \in DOMAIN slices |-> slices[j][2]]
  <1>1. PICK n \in Nat : DOMAIN bill = 1..n /\ \A j \in 1..n : bill[j] \in Corr
    BY BillFacts
  <1> HIDE DEF bill
  <1>2. DOMAIN slices = 1..n /\ \A j \in 1..n : slices[j][2] \in Nat
    BY <1>1, LeftFacts DEF PayInv
  <1> HIDE DEF slices
  <1>3. IsFiniteSet(DOMAIN slices) /\ \A j \in DOMAIN slices : f[j] \in Nat
    <2>1. IsFiniteSet(1..n)
      BY FS_Interval
    <2> QED  BY <1>2, <2>1
  <1>4. SumRemaining(slices) = Total(f, DOMAIN slices)
    BY <1>3, RemainingIsTotal
  <1> HIDE DEF f
  <1>5. Total(f, DOMAIN slices) \in Nat
    BY <1>3, TotalNat
  <1> QED  BY <1>4, <1>5 DEF slices, bill

\* Reading a bill decides nothing; neither does the screen under the row locks.
LEMMA CoverBegin ==
  ASSUME RentInv, PayInv, CoverInv, NEW k \in Payments, PayRead(k) \/ PayLock(k) \/ PayAbort(k)
  PROVE  CoverInv'
  <1>1. UNCHANGED <<funds, posted>>
    BY DEF PayRead, PayLock, PayAbort, onlyPay, moneyVars
  <1>2. funds[Payer(k)] \in Nat
    BY PayerFacts DEF CoverInv
  <1>3. CASE PayRead(k)
    <2> DEFINE bill == BillOf(k)
               slices == [j \in DOMAIN bill |-> <<bill[j], Remaining(bill[j])>>]
               group == SumRemaining(slices)
               again == [NewPay EXCEPT !.try = pay[k].try + 1, !.prev = pay[k].out]
               budget == IF Asked[k] = 0 \/ Asked[k] > group THEN group ELSE Asked[k]
    <2>1. pay' = [pay EXCEPT ![k] =
                   IF group = 0 THEN [again EXCEPT !.out = "ok"]
                   ELSE [again EXCEPT !.pc = "lock", !.slices = slices, !.budget = budget]]
      BY <1>3 DEF PayRead
    <2>2. group \in Nat
      BY AskedFacts
    <2> HIDE DEF group, slices
    <2>3. budget \in Nat
      BY <2>2, RentConstants
    <2> HIDE DEF budget
    <2> DEFINE done == [again EXCEPT !.out = "ok"]
               asking == [again EXCEPT !.pc = "lock", !.slices = slices, !.budget = budget]
    <2>4. Covered(done, funds[Payer(k)])
      <3>1. done.budget = 0 /\ done.posts = {}
        BY DEF NewPay
      <3> HIDE DEF done
      <3> QED  BY <1>2, <3>1, NothingDecided
    <2>5. Covered(asking, funds[Payer(k)])
      <3>1. asking.budget = budget /\ asking.posts = {} /\ asking.pc = "lock"
        BY DEF NewPay
      <3> HIDE DEF asking
      <3> QED  BY <2>3, <3>1, FS_EmptySet DEF Covered
    <2>6. pay' = [pay EXCEPT ![k] = done] \/ pay' = [pay EXCEPT ![k] = asking]
      BY <2>1
    <2> HIDE DEF done, asking
    <2> QED  BY <1>1, <2>4, <2>5, <2>6, CoverLocal
  <1>4. CASE PayLock(k)
    <2>1. CASE Finish(k, "refused")
      BY <1>1, <2>1, CoverFinish
    <2>2. CASE pay' = [pay EXCEPT ![k].pc = "paying"]
      <3> DEFINE me == [pay[k] EXCEPT !.pc = "paying"]
      <3>1. pay[k] \in CommandType /\ CommandSound(k, pay[k]) /\ pay[k].pc # "paying"
        BY <1>4 DEF PayInv, MoneyTyped, CommandsSound, PayLock
      <3>2. me.budget = pay[k].budget /\ me.posts = {}
        BY <3>1 DEF CommandType, CommandSound
      <3>3. pay' = [pay EXCEPT ![k] = me]
        BY <2>2 DEF PayInv, MoneyTyped
      <3> HIDE DEF me
      <3>4. Total(AmountOf, {}) = 0 /\ IsFiniteSet({})
        BY TotalUnfold, FS_EmptySet
      <3>5. Covered(me, funds[Payer(k)])
        BY <1>2, <3>2, <3>4 DEF Covered, CoverInv
      <3> QED  BY <1>1, <3>3, <3>5, CoverLocal
    <2> QED  BY <1>4, <2>1, <2>2 DEF PayLock
  <1>5. CASE PayAbort(k)
    BY <1>1, <1>5, CoverFinish DEF PayAbort
  <1> QED  BY <1>3, <1>4, <1>5

\* One slice: what is asked of it is within the budget, what is charged for it
\* within that and within what the debits before it have left of the cash.
LEMMA CoverSlice ==
  ASSUME RentInv, PayInv, CoverInv, NEW k \in Payments, PaySlice(k)
  PROVE  CoverInv'
  <1> DEFINE me == pay[k]
             cash == funds[Payer(k)]
             c == me.slices[1][1]
             asked == Min({me.slices[1][2], me.budget})
             owed == StillOwed(k, c)
             amount == Min({asked, owed})
             settles == amount = owed /\ IsRent(c) /\ PeriodHasBegun(c)
             debit == [cmd |-> k, try |-> me.try, corr |-> c, asked |-> asked, amount |-> amount]
             charged == [me EXCEPT !.budget = @ - amount, !.posts = @ \cup {debit},
                                   !.granting = IF settles THEN @ \cup {c} ELSE @]
  <1>1. /\ me \in CommandType /\ CommandSound(k, me) /\ Covered(me, cash) /\ cash \in Nat
        /\ me.pc = "paying" /\ me.slices # <<>> /\ UNCHANGED <<funds, posted>>
    BY PayerFacts DEF PaySlice, PayInv, MoneyTyped, CommandsSound, CoverInv, onlyPay, moneyVars
  <1>2. \/ NextSlice(k, me)
        \/ Refuse(k)
        \/ \E p \in Posted(k, c) : p.asked = asked /\ NextSlice(k, [me EXCEPT !.budget = @ - p.amount])
        \/ Finish(k, "error")
        \/ /\ me.slices[1][2] > 0 /\ owed > 0 /\ Affords(k, amount)
           /\ NextSlice(k, charged)
    BY DEF PaySlice, PriorSlice
  <1>3. /\ me.slices \in Seq(Corr \X Nat) /\ me.budget \in Nat /\ me.posts \in SUBSET PostType
        /\ IsFiniteSet(me.posts) /\ Total(AmountOf, me.posts) =< cash
    BY <1>1 DEF CommandType, Covered
  <1>4. c \in Corr /\ me.slices[1][2] \in Nat /\ 1 \in DOMAIN me.slices
    BY <1>1, <1>3, TailFacts
  <1>5. asked \in Nat /\ asked =< me.budget
    <2>1. me.slices[1][2] \in Int /\ me.budget \in Int
      BY <1>3, <1>4
    <2>2. (asked = me.slices[1][2] \/ asked = me.budget) /\ asked =< me.budget
      BY <2>1, MinFacts
    <2> QED  BY <1>3, <1>4, <2>2
  <1>6. CASE NextSlice(k, me) \/ Refuse(k)
    <2> DEFINE n == [me EXCEPT !.slices = Tail(@)]
               refused == [me EXCEPT !.slices = <<>>, !.out = "refused"]
    <2>1. pay' = [pay EXCEPT ![k] = n] \/ pay' = [pay EXCEPT ![k] = refused]
      BY <1>6 DEF NextSlice, Refuse, PayInv, MoneyTyped
    <2>2. /\ n.budget = me.budget /\ n.posts = me.posts /\ n.pc = me.pc
          /\ refused.budget = me.budget /\ refused.posts = me.posts /\ refused.pc = me.pc
      BY <1>1 DEF CommandType
    <2> HIDE DEF n, refused, me
    <2>3. Covered(n, cash) /\ Covered(refused, cash)
      BY <1>1, <2>2 DEF Covered
    <2> QED  BY <1>1, <2>1, <2>3, CoverLocal
  <1>7. ASSUME NEW p \in Posted(k, c), p.asked = asked,
               NextSlice(k, [me EXCEPT !.budget = @ - p.amount])
        PROVE  CoverInv'
    <2> DEFINE n == [[me EXCEPT !.budget = @ - p.amount] EXCEPT !.slices = Tail(@)]
    <2>1. pay' = [pay EXCEPT ![k] = n]
      BY <1>7 DEF NextSlice
    <2>2. n.budget = me.budget - p.amount /\ n.posts = me.posts /\ n.pc = me.pc
      BY <1>1 DEF CommandType
    <2>3. p.amount \in Nat /\ p.amount =< asked
      BY <1>7 DEF Posted, PayInv, MoneyTyped, PostType, CoverInv
    <2>4. n.budget \in Nat
      <3> HIDE DEF n, asked
      <3> QED  BY <1>3, <1>5, <2>2, <2>3
    <2> HIDE DEF n, me, asked
    <2>5. Covered(n, cash)
      BY <1>1, <2>2, <2>4 DEF Covered
    <2> QED  BY <1>1, <2>1, <2>5, CoverLocal
  <1>8. CASE Finish(k, "error")
    BY <1>1, <1>8, CoverFinish
  <1>9. ASSUME me.slices[1][2] > 0, owed > 0, Affords(k, amount), NextSlice(k, charged)
        PROVE  CoverInv'
    <2> DEFINE n == [charged EXCEPT !.slices = Tail(@)]
    <2>1. pay' = [pay EXCEPT ![k] = n]
      BY <1>9 DEF NextSlice
    <2>2. n.budget = me.budget - amount /\ n.posts = me.posts \cup {debit} /\ n.pc = "paying"
      <3> HIDE DEF amount, debit
      <3> QED  BY <1>1 DEF CommandType
    <2> HIDE DEF n
    <2>3. amount \in Nat /\ amount =< asked
      <3>1. Assessed(c)
        BY <1>1, <1>4, <1>9 DEF CommandSound
      <3>2. owed \in Int
        BY <1>4, <3>1, LiabilityFacts DEF PayInv, MoneyTyped, StillOwed
      <3> HIDE DEF asked, owed
      <3>3. asked \in Int
        BY <1>5
      <3>4. (amount = asked \/ amount = owed) /\ amount =< asked
        BY <3>2, <3>3, MinFacts
      <3> QED  BY <1>5, <1>9, <3>2, <3>4
    <2>4. debit \in PostType /\ debit.amount = amount /\ debit.asked = asked /\ debit.corr = c
      <3>1. me.try \in Nat
        BY <1>1 DEF CommandType
      <3> HIDE DEF amount, asked, me, c
      <3> QED  BY <1>4, <1>5, <2>3, <3>1 DEF PostType
    <2>5. debit \notin me.posts
      BY <1>1, <1>4, <2>4 DEF CommandSound, PostFits
    <2>6. Total(AmountOf, me.posts) = Spent(k)
      BY <1>3, AmountSum DEF Spent
    <2>7. cash - Spent(k) >= amount
      BY <1>9 DEF Affords
    <2> HIDE DEF me, cash, c, asked, owed, amount, debit
    <2>8. \A q \in me.posts \cup {debit} : AmountOf[q] = q.amount /\ q.amount \in Nat
      BY <1>3, <2>4 DEF AmountOf, PostType
    <2>9. Total(AmountOf, me.posts \cup {debit}) = Total(AmountOf, me.posts) + amount
      <3>1. \A q \in me.posts \cup {debit} : AmountOf[q] \in Int
        BY <2>8
      <3> QED  BY <1>3, <2>4, <2>5, <2>8, <3>1, TotalAdd
    <2>10. Total(AmountOf, me.posts) \in Nat
      <3>1. \A q \in me.posts : AmountOf[q] \in Nat
        BY <2>8
      <3> QED  BY <1>3, <3>1, TotalNat
    <2>11. n.budget \in Nat
      BY <1>3, <1>5, <2>2, <2>3
    <2>12. Total(AmountOf, n.posts) =< cash
      BY <1>1, <2>2, <2>3, <2>6, <2>7, <2>9, <2>10
    <2>13. IsFiniteSet(n.posts)
      <3>1. IsFiniteSet(me.posts \cup {debit})
        BY <1>3, FS_AddElement
      <3> QED  BY <2>2, <3>1
    <2>14. \A q \in n.posts : q.amount =< q.asked
      BY <1>1, <2>2, <2>3, <2>4 DEF Covered
    <2>15. Covered(n, cash)
      BY <2>11, <2>12, <2>13, <2>14 DEF Covered
    <2> QED  BY <1>1, <2>1, <2>15, CoverLocal DEF cash
  <1> QED  BY <1>2, <1>6, <1>7, <1>8, <1>9

\* A commit takes from the seat what it was seen to have.
LEMMA CoverCommit ==
  ASSUME RentInv, PayInv, CoverInv, NEW k \in Payments, PayCommit(k)
  PROVE  CoverInv'
  <1> DEFINE outcome == IF pay[k].out = "none" THEN "ok" ELSE pay[k].out
             me == [NewPay EXCEPT !.try = pay[k].try, !.out = outcome, !.prev = pay[k].prev]
  <1>1. /\ pay[k].pc = "paying" /\ posted' = posted \cup pay[k].posts
        /\ funds' = [funds EXCEPT ![Payer(k)] = @ - Spent(k)]
        /\ pay' = [pay EXCEPT ![k] = me]
    BY DEF PayCommit, Finish
  <1>2. me.budget = 0 /\ me.posts = {}
    BY DEF NewPay
  <1> HIDE DEF me
  <1>3. /\ pay[k].posts \in SUBSET PostType /\ Covered(pay[k], funds[Payer(k)])
        /\ funds \in [Seats -> Nat] /\ Payer(k) \in Seats
    BY PayerFacts DEF PayInv, MoneyTyped, CommandType, CoverInv
  <1>4. Spent(k) = Total(AmountOf, pay[k].posts) /\ Spent(k) \in Nat
    <2>1. \A q \in pay[k].posts : AmountOf[q] \in Nat
      BY <1>3 DEF AmountOf, PostType
    <2>2. IsFiniteSet(pay[k].posts)
      BY <1>3 DEF Covered
    <2>3. Spent(k) = Total(AmountOf, pay[k].posts)
      BY <1>3, <2>2, AmountSum DEF Spent
    <2>4. Total(AmountOf, pay[k].posts) \in Nat
      BY <2>1, <2>2, TotalNat
    <2> QED  BY <2>3, <2>4
  <1>5. funds[Payer(k)] - Spent(k) \in Nat
    BY <1>1, <1>3, <1>4 DEF Covered
  <1>6. funds' \in [Seats -> Nat]
    BY <1>1, <1>3, <1>5
  <1>7. \A p \in posted' : p.amount =< p.asked
    BY <1>1, <1>3 DEF Covered, CoverInv
  <1>8. ASSUME NEW l \in Payments PROVE Covered(pay'[l], funds'[Payer(l)])
    <2>1. CASE l = k
      <3>1. pay'[l] = me /\ funds'[Payer(l)] \in Nat
        BY <1>1, <1>6, <2>1, PayerFacts DEF PayInv, MoneyTyped
      <3> QED  BY <1>2, <3>1, NothingDecided
    <2>2. CASE l # k
      <3>1. pay'[l] = pay[l] /\ pay[l].pc # "paying"
        BY <1>1, <2>2 DEF PayInv, MoneyTyped, PaysAlone
      <3>2. Covered(pay[l], funds[Payer(l)])
        BY DEF CoverInv
      <3> QED  BY <3>1, <3>2 DEF Covered
    <2> QED  BY <2>1, <2>2
  <1>9. \A l \in Payments : Payer(l)' = Payer(l)
    BY DEF Payer
  <1> QED  BY <1>6, <1>7, <1>8, <1>9 DEF CoverInv, Covered

LEMMA CoverNext == RentInv /\ PayInv /\ CoverInv /\ [Next]_vars => CoverInv'
  <1> SUFFICES ASSUME RentInv, PayInv, CoverInv, [Next]_vars PROVE CoverInv'
    OBVIOUS
  <1>1. CASE UNCHANGED <<pay, funds, posted>>
    BY <1>1 DEF CoverInv, Covered, Payer
  <1>2. ASSUME NEW k \in Payments, PayRead(k) \/ PayStep(k) \/ PayAbort(k) PROVE CoverInv'
    BY <1>2, CoverBegin, CoverSlice, CoverCommit DEF PayStep
  <1>3. CASE ~ \E k \in Payments : PayRead(k) \/ PayStep(k) \/ PayAbort(k)
    <2>1. CASE UNCHANGED vars
      BY <1>1, <2>1 DEF vars, moneyVars
    <2>2. CASE \/ Tick \/ SaveSettings \/ DisableRead \/ DisableCommit \/ Enable
               \/ \E s \in Seats : Claim(s)
               \/ \E w \in Waivers : (\E c \in Corr : WaiveCheck(w, c)) \/ WaiveInsert(w)
      BY <1>1, <2>2 DEF Tick, SaveSettings, DisableRead, DisableCommit, Enable, Claim,
         WaiveCheck, WaiveInsert, tables, clockVars, moneyVars, teacherVars
    <2>3. ASSUME NEW r \in Runs, JobCheck(r) \/ RunStep(r) \/ RunAbort(r) PROVE CoverInv'
      <3>1. UNCHANGED <<pay, funds, posted>>
        BY <2>3 DEF RunStep, JobCheck, Begin, Succeed, Derive, InsertCycle, ReadRoster,
           InsertRent, InsertFees, InsertAssessments, ExpirePerks, GrantPerks, ReadLateRent,
           RunAbort, RunCommit, onlyRun, moneyVars
      <3> QED  BY <1>1, <3>1
    <2> QED  BY <1>3, <2>1, <2>2, <2>3 DEF Next
  <1> QED  BY <1>2, <1>3

LEMMA CoverInit == Init => CoverInv
  <1> SUFFICES ASSUME Init PROVE CoverInv
    OBVIOUS
  <1>1. funds \in [Seats -> Nat] /\ posted = {} /\ \A k \in Payments : pay[k] = NewPay
    BY RentConstants DEF Init
  <1>2. NewPay.budget = 0 /\ NewPay.posts = {}
    BY DEF NewPay
  <1>3. \A k \in Payments : Covered(pay[k], funds[Payer(k)])
    BY <1>1, <1>2, NothingDecided, PayerFacts
  <1> QED  BY <1>1, <1>3 DEF CoverInv

LEMMA CoverInvariant == Spec => []CoverInv
  <1>1. Spec => Init /\ [][Next]_vars
    BY DEF Spec
  <1> QED  BY <1>1, RentInvariant, PayInvariant, CoverInit, CoverNext, PTL

\* A seat's spendable money, its overdraft protection included, is never overspent
\* (nothing but rent spends in this model).
FundsNeverOverspent == \A s \in Seats : funds[s] >= 0

(***************************************************************************)
(* However many payment commands of a seat run, repeat, race a             *)
(* reconciliation or replay earlier debits, what they commit is what the   *)
(* seat had to spend: each slice is checked against the debits the command *)
(* has already decided (pay_rent), not against the screen at its start.    *)
(***************************************************************************)
THEOREM RentNeverOverspends == Spec => []FundsNeverOverspent
  <1>1. CoverInv => FundsNeverOverspent
    BY DEF CoverInv, FundsNeverOverspent
  <1> QED  BY <1>1, CoverInvariant, PTL

-----------------------------------------------------------------------------
(***************************************************************************)
(* Type correctness.                                                       *)
(***************************************************************************)

\* What no invariant above speaks of: the waivers, the clock and the failures.
WaiverInv ==
  /\ now \in 0..MaxTime /\ failures \in 0..MaxFailures
  /\ waived \in [Corr -> Nat]
  /\ waive \in [Waivers -> WaiveType]

LEMMA WaiverInit ==
  ASSUME Seats # {}
  PROVE  Init => WaiverInv
  <1> SUFFICES ASSUME Init PROVE WaiverInv
    OBVIOUS
  <1>1. PICK s \in Seats : TRUE
    OBVIOUS
  <1>2. <<s, 1, 0>> \in Corr
    BY ObligationConstants DEF Corr
  <1>3. AnyCorr \in Corr
    BY <1>2 DEF AnyCorr
  <1>4. waived \in [Corr -> Nat]
    BY DEF Init, TablesInit
  <1>5. waive \in [Waivers -> WaiveType]
    BY <1>3 DEF Init, WaiveType
  <1> QED  BY <1>4, <1>5, RentConstants DEF Init, WaiverInv

LEMMA WaiverNext == WaiverInv /\ [Next]_vars => WaiverInv'
  <1> SUFFICES ASSUME WaiverInv, [Next]_vars PROVE WaiverInv'
    OBVIOUS
  <1>1. CASE UNCHANGED <<now, waived, waive, failures>>
    BY <1>1 DEF WaiverInv
  <1>2. CASE Tick
    <2>1. UNCHANGED <<waived, waive, failures>> /\ now < MaxTime /\ now' = now + 1
      BY <1>2 DEF Tick, tables, teacherVars
    <2> QED  BY <2>1, RentConstants DEF WaiverInv
  <1>3. CASE \/ SaveSettings \/ DisableRead \/ DisableCommit \/ Enable
             \/ \E s \in Seats : Claim(s)
    BY <1>1, <1>3 DEF SaveSettings, DisableRead, DisableCommit, Enable, Claim, tables,
       clockVars, moneyVars, teacherVars
  <1>4. ASSUME NEW r \in Runs, JobCheck(r) \/ RunStep(r) PROVE WaiverInv'
    <2>1. UNCHANGED <<now, waived, waive, failures>>
      BY <1>4 DEF RunStep, JobCheck, Begin, Succeed, Derive, InsertCycle, ReadRoster,
         InsertRent, InsertFees, InsertAssessments, ExpirePerks, GrantPerks, ReadLateRent,
         RunCommit, onlyRun, tables, clockVars, teacherVars
    <2> QED  BY <1>1, <2>1
  <1>5. ASSUME NEW k \in Payments, PayRead(k) \/ PayStep(k) PROVE WaiverInv'
    <2>1. UNCHANGED <<now, waived, waive, failures>>
      BY <1>5 DEF PayRead, PayStep, PayLock, PaySlice, PayCommit, onlyPay, tables, clockVars,
         teacherVars
    <2> QED  BY <1>1, <2>1
  <1>6. ASSUME NEW w \in Waivers, NEW c \in Corr, WaiveCheck(w, c) PROVE WaiverInv'
    <2>1. /\ UNCHANGED <<now, waived, failures>>
          /\ waive' = [waive EXCEPT ![w] = [pc |-> "insert", corr |-> c]]
      BY <1>6 DEF WaiveCheck, tables, clockVars
    <2> QED  BY <2>1 DEF WaiverInv, WaiveType
  <1>7. ASSUME NEW w \in Waivers, WaiveInsert(w) PROVE WaiverInv'
    <2>1. /\ UNCHANGED <<now, failures>>
          /\ waive' = [waive EXCEPT ![w].pc = "done"]
          /\ waived' = [waived EXCEPT ![waive[w].corr] = @ + 1]
      BY <1>7 DEF WaiveInsert, clockVars
    <2>2. waive' \in [Waivers -> WaiveType]
      BY <2>1 DEF WaiverInv, WaiveType
    <2>3. waived' \in [Corr -> Nat]
      <3> DEFINE d == waive[w].corr
      <3>1. waived' = [waived EXCEPT ![d] = @ + 1] /\ waived \in [Corr -> Nat]
        BY <2>1 DEF WaiverInv
      <3>2. d \in Corr => waived[d] + 1 \in Nat
        BY <3>1
      <3> HIDE DEF d
      <3> QED  BY <3>1, <3>2
    <2> QED  BY <2>1, <2>2, <2>3 DEF WaiverInv
  <1>8. CASE UNCHANGED vars
    BY <1>1, <1>8 DEF vars, tables, clockVars, teacherVars
  <1>9. ASSUME NEW r \in Runs, RunAbort(r) PROVE WaiverInv'
    <2>1. UNCHANGED <<now, waived, waive>> /\ failures < MaxFailures /\ failures' = failures + 1
      BY <1>9 DEF RunAbort, tables, clockVars, teacherVars
    <2> QED  BY <2>1, RentConstants DEF WaiverInv
  <1>10. ASSUME NEW k \in Payments, PayAbort(k) PROVE WaiverInv'
    <2>1. UNCHANGED <<now, waived, waive>> /\ failures < MaxFailures /\ failures' = failures + 1
      BY <1>10 DEF PayAbort, tables, clockVars, teacherVars
    <2> QED  BY <2>1, RentConstants DEF WaiverInv
  <1> QED  BY <1>2, <1>3, <1>4, <1>5, <1>6, <1>7, <1>8, <1>9, <1>10 DEF Next

(***************************************************************************)
(* Every table and every transaction in flight keeps its shape, and a      *)
(* payment's budget is never a debt.  The class has a student: the idle    *)
(* waiver requests name an arbitrary liability.                            *)
(***************************************************************************)
THEOREM RentTypes ==
  ASSUME Seats # {}
  PROVE  Spec => []TypeOK
  <1>1. RentInv /\ PayInv /\ CoverInv /\ WaiverInv => TypeOK
    <2> SUFFICES ASSUME RentInv, PayInv, CoverInv, WaiverInv PROVE TypeOK
      OBVIOUS
    <2>1. TablesOK
      BY DEF TablesOK, RentInv, RunsTyped, PayInv, MoneyTyped, WaiverInv
    <2>2. pay \in [Payments -> PayType]
      <3>1. \A k \in Payments : pay[k] \in CommandType /\ pay[k].budget \in Nat
        BY DEF PayInv, MoneyTyped, CoverInv, Covered
      <3>2. \A k \in Payments : pay[k] \in PayType
        BY <3>1 DEF CommandType, PayType
      <3> QED  BY <3>2 DEF PayInv, MoneyTyped
    <2>3. funds \in [Seats -> Int]
      BY DEF CoverInv
    <2>4. /\ policy \in 0..Len(Terms) /\ features \in Seq(FeatureType)
          /\ claimed \in SUBSET Seats /\ run \in [Runs -> RunType]
      BY DEF RentInv, RunsTyped
    <2>5. posted \in SUBSET PostType /\ disable \in DisableType
      BY DEF PayInv, MoneyTyped
    <2> QED  BY <2>1, <2>2, <2>3, <2>4, <2>5 DEF TypeOK, WaiverInv
  <1>2. Init => WaiverInv
    BY WaiverInit
  <1>3. Spec => Init /\ [][Next]_vars
    BY DEF Spec
  <1> QED  BY <1>1, <1>2, <1>3, RentInvariant, PayInvariant, CoverInvariant, WaiverNext, PTL
=============================================================================
