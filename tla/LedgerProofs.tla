---------------------------- MODULE LedgerProofs ----------------------------
(***************************************************************************)
(* Theorems about Ledger for any number of workers, seats, keys and        *)
(* commands.                                                               *)
(*                                                                         *)
(*   LedgerInv      locks, sequences, settlements; types, append-only and  *)
(*                  snapshots follow from it                               *)
(*   OnceInv        reservations, plans and buffers: one key, its effects  *)
(*                  once                                                   *)
(*   CapInv         corrections of one credit, committed and pending       *)
(*   DecisionInv    what a command decided under its seat locks stands     *)
(*                  until it commits                                       *)
(*   RefinementInv  all of them: LedgerIsAtomic, transfers, overdrafts     *)
(*                                                                         *)
(* Sums are recursive functions over finite sets; the lemmas on Total say  *)
(* how they split and grow.                                                *)
(***************************************************************************)
EXTENDS Ledger, FiniteSetTheorems, SequenceTheorems, WellFoundedInduction, TLAPS

-----------------------------------------------------------------------------
(***************************************************************************)
(* The inductive invariant.                                                *)
(***************************************************************************)

\* Rows and snapshots are only written, and then committed, under the class lock.
Writing(p) == pc[p] \in {"write", "commit"}

ClassHeld ==
  \A p \in Procs :
    /\ Writing(p) => classLock = p
    /\ pc[p] \in {"decide", "reserve"} /\ ClassFirst(job[p]) => classLock = p

\* A process that runs has a job; the row a correction names stays there.
JobsRun ==
  \A p \in Procs :
    /\ pc[p] # "idle" => job[p] # Null
    /\ pc[p] \in {"reserve", "write"} => job[p] \in Commands
    /\ job[p] \in Commands /\ job[p].kind \in {"reverse", "recover"} =>
         Originals(job[p]) # {}

ReservationsOwned ==
  \A p \in Procs, k \in Keys :
    resLock[k] = p =>
      /\ job[p] \in Commands
      /\ Writing(p) \/ (pc[p] = "class" /\ ~ClassFirst(job[p]))

BuffersOwned ==
  \A p \in Procs :
    /\ buf[p] # {} => Writing(p)
    /\ \A a \in Account : sbuf[p][a] # Null => pc[p] = "commit"

\* Posting sequences have no gap: the committed ones are 1..n, and those a
\* process has written but not committed follow them.
SequencesGapless ==
  \E n \in Nat :
    /\ {r.seq : r \in rows} = 1..n
    /\ \A p \in Procs : \E m \in Nat : n =< m /\ {r.seq : r \in buf[p]} = (n + 1)..m

CursorsBehind ==
  \A s \in Seats, a \in Account :
    snap[s][a].cur = 0 \/ \E r \in rows : r.seq = snap[s][a].cur

\* What a settlement is about to commit is right, and ahead of what is there.
SettlementsRight ==
  \A p \in Procs, a \in Account :
    sbuf[p][a] # Null => \A s \in job[p].seats :
      /\ \E r \in rows : r.seq = sbuf[p][a].cur
      /\ snap[s][a].cur =< sbuf[p][a].cur
      /\ sbuf[p][a].bal = PostedHistoryCents(rows, s, a, sbuf[p][a].cur)

LedgerInv ==
  /\ TypeOK /\ ClassHeld /\ JobsRun /\ ReservationsOwned /\ BuffersOwned
  /\ SequencesGapless /\ CursorsBehind /\ SettlementsRight /\ SnapshotIsHistory

-----------------------------------------------------------------------------
(***************************************************************************)
(* Facts about the operators the model is built from.                      *)
(***************************************************************************)

\* A sum of cents is an integer, and the sum over no rows is zero.
LEMMA SumFacts ==
  /\ \A S : SumAmounts(S) \in Int
  /\ SumAmounts({}) = 0
  BY DEF SumAmounts

\* Recovered cents are a natural number.
LEMMA RecoveredFacts == \A q : RecoveredCents(q) \in Nat
  BY DEF RecoveredCents

\* A settlement is not a client's command, and Null is neither.
LEMMA SettleJobFacts ==
  ASSUME NEW s \in Seats
  PROVE  /\ SettleJob(s).kind = "settle" /\ SettleJob(s).seats = {s}
         /\ SettleJob(s) \notin Commands /\ Null # SettleJob(s)
  <1>1. SettleJob(s).kind = "settle" /\ SettleJob(s).seats = {s}
    BY DEF SettleJob
  <1>2. \A c \in Commands : c.kind # "settle"
    BY LedgerAssumption DEF Command, Kinds
  <1> QED  BY <1>1, <1>2, LedgerAssumption DEF SettleJob

\* A nonempty bounded set of naturals has the maximum that Max chooses.
LEMMA MaxFacts ==
  ASSUME NEW S \in SUBSET Nat, S # {}, NEW n \in Nat, \A x \in S : x =< n
  PROVE  Max(S) \in S /\ \A x \in S : x =< Max(S)
  <1> DEFINE T == {n - x : x \in S}
  <1>1. T \subseteq Nat /\ T # {}
    <2>1. \A x \in S : n - x \in Nat
      OBVIOUS
    <2> QED  BY <2>1
  <1>2. PICK d \in T : \A e \in T : ~ (<<e, d>> \in OpToRel(<, Nat))
    <2>1. IsWellFoundedOn(OpToRel(<, Nat), Nat)
      BY NatLessThanWellFounded
    <2> HIDE DEF T
    <2> QED  BY <1>1, <2>1, WFMin
  <1>3. PICK x \in S : d = n - x
    OBVIOUS
  <1>4. \A y \in S : x >= y
    <2> SUFFICES ASSUME NEW y \in S, ~ (x >= y) PROVE FALSE
      OBVIOUS
    <2>1. n - y \in T /\ n - y \in Nat /\ d \in Nat /\ n - y < d
      BY <1>3
    <2> QED  BY <1>2, <2>1 DEF OpToRel
  <1>5. Max(S) \in S /\ \A y \in S : Max(S) >= y
    BY <1>4 DEF Max
  <1> QED  BY <1>5

\* Available balances are integers.
LEMMA AvailableFacts ==
  ASSUME TypeOK, NEW s \in Seats, NEW a \in Account
  PROVE  Available(s, a) \in Int
  <1>1. snap[s][a].bal \in Int /\ PostedHistoryCents(rows, s, a, snap[s][a].cur) \in Int
    BY SumFacts DEF TypeOK, Snapshot, PostedHistoryCents
  <1> QED  BY <1>1, SumFacts DEF Available

\* A transfer is two well-formed effects.
LEMMA TransferFacts ==
  ASSUME NEW s \in Seats, NEW amt \in Int, NEW a \in Account
  PROVE  TransferPair(s, amt, a) \in Seq(EffectType)
  BY DEF TransferPair, Effect, Other, Account, EffectType, Types

\* A charge is a sequence of well-formed effects.
LEMMA ChargeFacts ==
  ASSUME TypeOK, NEW s \in Seats, NEW amt \in Nat, NEW a \in Account,
         NEW type \in Types, NEW of \in Nat, NEW comp \in Nat
  PROVE  ChargeEffects(s, amt, a, type, of, comp) \in Seq(EffectType)
  <1>1. FundingTransfer(s, amt, a) \in Int
    BY AvailableFacts DEF FundingTransfer, Account
  <1>2. <<Effect(s, a, -amt, type, of, comp)>> \in Seq(EffectType)
    BY DEF Effect, EffectType
  <1>3. TransferPair(s, FundingTransfer(s, amt, a), "savings") \in Seq(EffectType)
    BY <1>1, TransferFacts DEF Account
  <1> QED  BY <1>2, <1>3 DEF ChargeEffects

\* The row a correction names is one of the ledger's.
LEMMA OriginalFacts ==
  ASSUME TypeOK, NEW c \in Commands, Originals(c) # {}
  PROVE  /\ Original(c) \in rows /\ Original(c) \in Row
         /\ Original(c).seq \in Nat /\ Original(c).amt \in Int
         /\ Original(c).seat \in Seats /\ Original(c).acct \in Account
  <1>1. Original(c) \in rows
    BY DEF Original, Originals
  <1> QED  BY <1>1 DEF TypeOK, Row

\* What an accepted command writes on a seat is well formed.
LEMMA EffectsFacts ==
  ASSUME TypeOK, JobsRun, NEW p \in Procs, NEW c \in Commands, job[p] = c,
         ~Refused(p), NEW s \in Seats
  PROVE  EffectsFor(c, s) \in Seq(EffectType)
  <1>0. /\ c.kind \in Kinds /\ c.acct \in Account /\ c.amt \in Nat /\ c.type \in Types
    BY LedgerAssumption DEF Command
  <1>1. CASE c.kind = "credit"
    <2>1. EffectsFor(c, s) = <<Effect(s, c.acct, c.amt, c.type, 0, 0)>>
      BY <1>1 DEF EffectsFor
    <2> QED  BY <1>0, <2>1 DEF Effect, EffectType
  <1>2. CASE c.kind = "transfer"
    <2>1. EffectsFor(c, s) = TransferPair(s, c.amt, c.acct)
      BY <1>2 DEF EffectsFor
    <2> QED  BY <1>0, <2>1, TransferFacts
  <1>3. CASE c.kind = "charge"
    <2>1. EffectsFor(c, s) = ChargeEffects(s, c.amt, "checking", c.type, 0, 0)
      BY <1>3 DEF EffectsFor
    <2> QED  BY <1>0, <2>1, ChargeFacts DEF Account
  <1>4. CASE c.kind = "reverse"
    <2>1. EffectsFor(c, s) = ReversalEffects(Original(c))
      BY <1>4 DEF EffectsFor
    <2> DEFINE o == Original(c)
    <2>2. o.seq \in Nat /\ o.amt \in Int /\ o.seat \in Seats /\ o.acct \in Account
      BY <1>4, OriginalFacts DEF JobsRun
    <2>3. "REVERSAL" \in Types
      BY DEF Types
    <2>4. ReversalEffects(o) =
            IF o.amt > 0 THEN ChargeEffects(o.seat, o.amt, o.acct, "REVERSAL", o.seq, o.amt)
            ELSE <<Effect(o.seat, o.acct, -o.amt, "REVERSAL", o.seq, 0)>>
      BY DEF ReversalEffects
    <2> HIDE DEF o
    <2>5. CASE o.amt > 0
      <3>1. o.amt \in Nat
        BY <2>2, <2>5
      <3>2. ChargeEffects(o.seat, o.amt, o.acct, "REVERSAL", o.seq, o.amt) \in Seq(EffectType)
        BY <2>2, <2>3, <3>1, ChargeFacts
      <3> QED  BY <2>1, <2>4, <2>5, <3>2 DEF o
    <2>6. CASE ~(o.amt > 0)
      <3>1. Effect(o.seat, o.acct, -o.amt, "REVERSAL", o.seq, 0) \in EffectType
        BY <2>2, <2>3 DEF Effect, EffectType
      <3> QED  BY <2>1, <2>4, <2>6, <3>1 DEF o
    <2> QED  BY <2>5, <2>6
  <1>5. CASE c.kind = "recover"
    <2>1. EffectsFor(c, s) = ChargeEffects(s, RecoveryCents(c), Original(c).acct,
                               "payroll_correction", Original(c).seq, RecoveryCents(c))
      BY <1>5 DEF EffectsFor
    <2>2. Original(c).seq \in Nat /\ Original(c).amt \in Int /\ Original(c).acct \in Account
      BY <1>5, OriginalFacts DEF JobsRun
    <2>3. Original(c).amt - RecoveredCents(Original(c).seq) > 0
      BY <1>5, <2>2, RecoveredFacts DEF Refused, OverRecovers
    <2>4. RecoveryCents(c) \in Nat
      BY <1>0, <2>2, <2>3, RecoveredFacts DEF RecoveryCents
    <2>5. "payroll_correction" \in Types
      BY DEF Types
    <2> QED  BY <2>1, <2>2, <2>4, <2>5, ChargeFacts
  <1> QED  BY <1>0, <1>1, <1>2, <1>3, <1>4, <1>5 DEF Kinds

-----------------------------------------------------------------------------
(***************************************************************************)
(* Sums over finite sets.  The folds of the community modules choose a     *)
(* recursive function on the subsets of a set; the lemmas below show that  *)
(* there is exactly one, and what it does with an element and with a union.*)
(* Each is proved on a smallest set for which it would fail.               *)
(***************************************************************************)

\* The element a sum over s takes first, and the function a sum is defined by.
First(s) == CHOOSE x \in s : TRUE

IsSum(h, f, S) ==
  h = [s \in SUBSET S |-> IF s = {} THEN 0 ELSE f[First(s)] + h[s \ {First(s)}]]

\* The sum of f over the finite set S.
Total(f, S) == (CHOOSE h : IsSum(h, f, S))[S]

\* A nonempty collection of subsets of a finite set has a minimal one.
LEMMA SmallestSubset ==
  ASSUME NEW S, IsFiniteSet(S), NEW C \in SUBSET (SUBSET S), C # {}
  PROVE  \E T \in C : \A U \in C : U \subseteq T => U = T
  <1>1. IsWellFoundedOn(StrictSubsetOrdering(S), SUBSET S)
    BY FS_StrictSubsetOrderingWellFounded, FS_FiniteSubsetsOfFinite
  <1>2. PICK T \in C : \A U \in C : ~ (<<U, T>> \in StrictSubsetOrdering(S))
    BY <1>1, WFMin
  <1> QED  BY <1>2 DEF StrictSubsetOrdering

\* The first element is one of the set.
LEMMA FirstFacts == \A s : s # {} => First(s) \in s
  BY DEF First

\* A sum restricted to subsets is a sum.
LEMMA SumRestricted ==
  ASSUME NEW f, NEW S, NEW h, IsSum(h, f, S), NEW T \in SUBSET S
  PROVE  IsSum([s \in SUBSET T |-> h[s]], f, T)
  <1> DEFINE g == [s \in SUBSET T |-> h[s]]
  <1>1. \A s \in SUBSET T : g[s] = IF s = {} THEN 0 ELSE f[First(s)] + g[s \ {First(s)}]
    <2> TAKE s \in SUBSET T
    <2>1. s \in SUBSET S /\ s \ {First(s)} \in SUBSET T
      OBVIOUS
    <2>2. h[s] = IF s = {} THEN 0 ELSE f[First(s)] + h[s \ {First(s)}]
      BY <2>1 DEF IsSum
    <2> QED  BY <2>1, <2>2
  <1> QED  BY <1>1 DEF IsSum

\* Two sums of the same values are the same function.
LEMMA SumUnique ==
  ASSUME NEW f, NEW S, IsFiniteSet(S), NEW g, IsSum(g, f, S), NEW h, IsSum(h, f, S)
  PROVE  g = h
  <1>1. \A s \in SUBSET S :
          /\ g[s] = IF s = {} THEN 0 ELSE f[First(s)] + g[s \ {First(s)}]
          /\ h[s] = IF s = {} THEN 0 ELSE f[First(s)] + h[s \ {First(s)}]
    BY DEF IsSum
  <1>2. \A s \in SUBSET S : g[s] = h[s]
    <2> DEFINE C == {s \in SUBSET S : g[s] # h[s]}
    <2> SUFFICES ASSUME C # {} PROVE FALSE
      OBVIOUS
    <2>1. PICK T \in C : \A U \in C : U \subseteq T => U = T
      <3>1. C \in SUBSET (SUBSET S)
        OBVIOUS
      <3> HIDE DEF C
      <3> QED  BY <3>1, SmallestSubset
    <2>2. CASE T = {}
      BY <1>1, <2>1, <2>2
    <2>3. CASE T # {}
      <3>1. T \ {First(T)} \in SUBSET S /\ T \ {First(T)} # T
        BY <2>3, FirstFacts
      <3>2. g[T \ {First(T)}] = h[T \ {First(T)}]
        BY <2>1, <3>1
      <3> QED  BY <1>1, <2>1, <2>3, <3>2
    <2> QED  BY <2>2, <2>3
  <1>3. g = [s \in SUBSET S |-> g[s]] /\ h = [s \in SUBSET S |-> h[s]]
    BY DEF IsSum
  <1> QED  BY <1>2, <1>3

\* Where a sum exists, it is the one Total chooses, on every subset.
LEMMA TotalOfSum ==
  ASSUME NEW f, NEW S, IsFiniteSet(S), NEW h, IsSum(h, f, S), NEW T \in SUBSET S
  PROVE  Total(f, T) = h[T]
  <1>1. IsFiniteSet(T)
    BY FS_Subset
  <1> DEFINE g == [s \in SUBSET T |-> h[s]]
  <1>2. IsSum(g, f, T)
    BY SumRestricted
  <1> HIDE DEF g
  <1>3. IsSum(CHOOSE k : IsSum(k, f, T), f, T)
    BY <1>2
  <1>4. (CHOOSE k : IsSum(k, f, T)) = g
    BY <1>1, <1>2, <1>3, SumUnique
  <1>5. Total(f, T) = g[T]
    BY <1>4 DEF Total
  <1> QED  BY <1>5 DEF g

\* Every finite set has a sum.
LEMMA SumExists ==
  ASSUME NEW f, NEW S, IsFiniteSet(S)
  PROVE  \E h : IsSum(h, f, S)
  <1> DEFINE C == {T \in SUBSET S : ~ \E h : IsSum(h, f, T)}
  <1> SUFFICES ASSUME C # {} PROVE FALSE
    OBVIOUS
  <1>1. PICK T \in C : \A U \in C : U \subseteq T => U = T
    <2>1. C \in SUBSET (SUBSET S)
      OBVIOUS
    <2> HIDE DEF C
    <2> QED  BY <2>1, SmallestSubset
  <1>2. IsFiniteSet(T) /\ T \in SUBSET S
    BY <1>1, FS_Subset
  <1> DEFINE g == [s \in SUBSET T |->
                     IF s = {} THEN 0 ELSE f[First(s)] + Total(f, s \ {First(s)})]
  <1>3. ASSUME NEW s \in SUBSET T, s # T
        PROVE  g[s] = Total(f, s)
    <2>1. PICK h : IsSum(h, f, s)
      BY <1>1, <1>2, <1>3
    <2>2. IsFiniteSet(s) /\ s \ {First(s)} \in SUBSET s /\ s \in SUBSET s
      BY <1>2, FS_Subset
    <2>3. Total(f, s) = h[s] /\ Total(f, s \ {First(s)}) = h[s \ {First(s)}]
      BY <2>1, <2>2, TotalOfSum
    <2>4. h[s] = IF s = {} THEN 0 ELSE f[First(s)] + h[s \ {First(s)}]
      BY <2>1, <2>2 DEF IsSum
    <2> QED  BY <2>3, <2>4
  <1>4. \A s \in SUBSET T : g[s] = IF s = {} THEN 0 ELSE f[First(s)] + g[s \ {First(s)}]
    <2> TAKE s \in SUBSET T
    <2>1. CASE s = {}
      BY <2>1
    <2>2. CASE s # {}
      <3>1. s \ {First(s)} \in SUBSET T /\ s \ {First(s)} # T
        BY <2>2, FirstFacts
      <3>2. g[s \ {First(s)}] = Total(f, s \ {First(s)})
        BY <1>3, <3>1
      <3>3. g[s] = f[First(s)] + Total(f, s \ {First(s)})
        BY <2>2
      <3> QED  BY <2>2, <3>2, <3>3
    <2> QED  BY <2>1, <2>2
  <1>5. IsSum(g, f, T)
    BY <1>4 DEF IsSum
  <1> QED  BY <1>1, <1>5

\* A total is its first value plus the rest.
LEMMA TotalUnfold ==
  ASSUME NEW f, NEW S, IsFiniteSet(S)
  PROVE  Total(f, S) = IF S = {} THEN 0 ELSE f[First(S)] + Total(f, S \ {First(S)})
  <1>1. PICK h : IsSum(h, f, S)
    BY SumExists
  <1>2. S \in SUBSET S /\ S \ {First(S)} \in SUBSET S
    OBVIOUS
  <1>3. Total(f, S) = h[S] /\ Total(f, S \ {First(S)}) = h[S \ {First(S)}]
    BY <1>1, <1>2, TotalOfSum
  <1> QED  BY <1>1, <1>2, <1>3 DEF IsSum

\* A total of integers is an integer.
LEMMA TotalInt ==
  ASSUME NEW f, NEW S, IsFiniteSet(S), \A x \in S : f[x] \in Int
  PROVE  Total(f, S) \in Int
  <1> DEFINE C == {T \in SUBSET S : Total(f, T) \notin Int}
  <1> SUFFICES ASSUME C # {} PROVE FALSE
    OBVIOUS
  <1>1. PICK T \in C : \A U \in C : U \subseteq T => U = T
    <2>1. C \in SUBSET (SUBSET S)
      OBVIOUS
    <2> HIDE DEF C
    <2> QED  BY <2>1, SmallestSubset
  <1>2. Total(f, T) = IF T = {} THEN 0 ELSE f[First(T)] + Total(f, T \ {First(T)})
    BY <1>1, FS_Subset, TotalUnfold
  <1>3. T # {} /\ First(T) \in T /\ f[First(T)] \in Int
    BY <1>1, <1>2, FirstFacts
  <1>4. Total(f, T \ {First(T)}) \in Int
    BY <1>1, <1>3
  <1> QED  BY <1>1, <1>2, <1>3, <1>4

\* A total of naturals is a natural number.
LEMMA TotalNat ==
  ASSUME NEW f, NEW S, IsFiniteSet(S), \A x \in S : f[x] \in Nat
  PROVE  Total(f, S) \in Nat
  <1> DEFINE C == {T \in SUBSET S : Total(f, T) \notin Nat}
  <1> SUFFICES ASSUME C # {} PROVE FALSE
    OBVIOUS
  <1>1. PICK T \in C : \A U \in C : U \subseteq T => U = T
    <2>1. C \in SUBSET (SUBSET S)
      OBVIOUS
    <2> HIDE DEF C
    <2> QED  BY <2>1, SmallestSubset
  <1>2. Total(f, T) = IF T = {} THEN 0 ELSE f[First(T)] + Total(f, T \ {First(T)})
    BY <1>1, FS_Subset, TotalUnfold
  <1>3. T # {} /\ First(T) \in T /\ f[First(T)] \in Nat
    BY <1>1, <1>2, FirstFacts
  <1>4. Total(f, T \ {First(T)}) \in Nat
    BY <1>1, <1>3
  <1> QED  BY <1>1, <1>2, <1>3, <1>4

\* Any element can be taken first.
LEMMA TotalRemove ==
  ASSUME NEW f, NEW S, IsFiniteSet(S), \A x \in S : f[x] \in Int, NEW x \in S
  PROVE  Total(f, S) = f[x] + Total(f, S \ {x})
  <1> DEFINE C == {T \in SUBSET S : \E y \in T : Total(f, T) # f[y] + Total(f, T \ {y})}
  <1> SUFFICES ASSUME C # {} PROVE FALSE
    OBVIOUS
  <1>1. PICK T \in C : \A U \in C : U \subseteq T => U = T
    <2>1. C \in SUBSET (SUBSET S)
      OBVIOUS
    <2> HIDE DEF C
    <2> QED  BY <2>1, SmallestSubset
  <1>2. PICK y \in T : Total(f, T) # f[y] + Total(f, T \ {y})
    BY <1>1
  <1> DEFINE z == First(T)
  <1>3. T \in SUBSET S /\ z \in T
    BY <1>1, <1>2, FirstFacts
  <1>4. \A U \in SUBSET S : IsFiniteSet(U) /\ Total(f, U) \in Int
    BY FS_Subset, TotalInt
  <1>5. Total(f, T) = f[z] + Total(f, T \ {z})
    BY <1>3, <1>4, TotalUnfold
  <1> HIDE DEF z
  <1>6. y # z
    BY <1>2, <1>5
  <1>7. Total(f, T \ {z}) = f[y] + Total(f, (T \ {z}) \ {y})
    <2>1. T \ {z} \in SUBSET S /\ y \in T \ {z} /\ T \ {z} # T
      BY <1>3, <1>6
    <2> QED  BY <1>1, <2>1
  <1>8. Total(f, T \ {y}) = f[z] + Total(f, (T \ {y}) \ {z})
    <2>1. T \ {y} \in SUBSET S /\ z \in T \ {y} /\ T \ {y} # T
      BY <1>3, <1>6
    <2> QED  BY <1>1, <2>1
  <1>9. (T \ {z}) \ {y} = (T \ {y}) \ {z} /\ (T \ {z}) \ {y} \in SUBSET S
    BY <1>3
  <1>10. f[y] \in Int /\ f[z] \in Int /\ Total(f, (T \ {z}) \ {y}) \in Int
    BY <1>3, <1>4, <1>9
  <1>11. Total(f, T) = f[z] + (f[y] + Total(f, (T \ {z}) \ {y}))
    BY <1>5, <1>7
  <1>12. Total(f, T \ {y}) = f[z] + Total(f, (T \ {z}) \ {y})
    BY <1>8, <1>9
  <1>13. Total(f, T) = f[y] + Total(f, T \ {y})
    BY <1>10, <1>11, <1>12
  <1> QED  BY <1>2, <1>13

\* A total with one more element.
LEMMA TotalAdd ==
  ASSUME NEW f, NEW S, IsFiniteSet(S), NEW x, x \notin S, \A y \in S \cup {x} : f[y] \in Int
  PROVE  Total(f, S \cup {x}) = Total(f, S) + f[x]
  <1>1. IsFiniteSet(S \cup {x}) /\ (S \cup {x}) \ {x} = S
    BY FS_AddElement
  <1>2. Total(f, S \cup {x}) = f[x] + Total(f, (S \cup {x}) \ {x})
    <2> DEFINE T == S \cup {x}
    <2>1. IsFiniteSet(T) /\ x \in T /\ \A y \in T : f[y] \in Int
      BY <1>1
    <2> HIDE DEF T
    <2>2. Total(f, T) = f[x] + Total(f, T \ {x})
      BY <2>1, TotalRemove
    <2> QED  BY <2>2 DEF T
  <1>3. Total(f, S) \in Int /\ f[x] \in Int
    BY TotalInt
  <1>4. Total(f, S \cup {x}) = f[x] + Total(f, S)
    BY <1>1, <1>2, Zenon
  <1> QED  BY <1>3, <1>4

\* The total over no elements is zero.
LEMMA TotalEmpty == \A f : Total(f, {}) = 0
  BY TotalUnfold, FS_EmptySet

\* The total over two disjoint sets is the sum of theirs.
LEMMA TotalUnion ==
  ASSUME NEW f, NEW S, IsFiniteSet(S), NEW R, IsFiniteSet(R), R \cap S = {},
         \A y \in R \cup S : f[y] \in Int
  PROVE  Total(f, R \cup S) = Total(f, R) + Total(f, S)
  <1> DEFINE C == {T \in SUBSET S : Total(f, R \cup T) # Total(f, R) + Total(f, T)}
  <1> SUFFICES ASSUME C # {} PROVE FALSE
    OBVIOUS
  <1>1. PICK T \in C : \A U \in C : U \subseteq T => U = T
    <2>1. C \in SUBSET (SUBSET S)
      OBVIOUS
    <2> HIDE DEF C
    <2> QED  BY <2>1, SmallestSubset
  <1>2. T \in SUBSET S /\ Total(f, R) \in Int
    BY <1>1, TotalInt
  <1>3. CASE T = {}
    BY <1>1, <1>2, <1>3, TotalEmpty
  <1>4. CASE T # {}
    <2>1. PICK x \in T : TRUE
      BY <1>4
    <2> DEFINE V == T \ {x}
    <2>2. V \in SUBSET S /\ V # T /\ x \notin V /\ x \notin R \cup V /\ x \in S
      BY <1>2, <2>1
    <2>3. Total(f, R \cup V) = Total(f, R) + Total(f, V)
      BY <1>1, <2>2
    <2>4. IsFiniteSet(V) /\ IsFiniteSet(R \cup V)
      BY <2>2, FS_Subset, FS_Union
    <2>5. T = V \cup {x} /\ R \cup T = (R \cup V) \cup {x}
      BY <2>1
    <2> HIDE DEF V
    <2>6. Total(f, V \cup {x}) = Total(f, V) + f[x]
      BY <2>2, <2>4, TotalAdd
    <2>7. Total(f, (R \cup V) \cup {x}) = Total(f, R \cup V) + f[x]
      <3>1. \A y \in (R \cup V) \cup {x} : f[y] \in Int
        BY <2>2
      <3> QED  BY <2>2, <2>4, <3>1, TotalAdd
    <2>8. Total(f, V) \in Int /\ f[x] \in Int
      BY <2>2, <2>4, TotalInt
    <2> QED  BY <1>1, <1>2, <2>3, <2>5, <2>6, <2>7, <2>8
  <1> QED  BY <1>3, <1>4

\* A total depends on the values summed only.
LEMMA TotalSame ==
  ASSUME NEW f, NEW g, NEW S, IsFiniteSet(S), \A x \in S : f[x] = g[x]
  PROVE  Total(f, S) = Total(g, S)
  <1> DEFINE C == {T \in SUBSET S : Total(f, T) # Total(g, T)}
  <1> SUFFICES ASSUME C # {} PROVE FALSE
    OBVIOUS
  <1>1. PICK T \in C : \A U \in C : U \subseteq T => U = T
    <2>1. C \in SUBSET (SUBSET S)
      OBVIOUS
    <2> HIDE DEF C
    <2> QED  BY <2>1, SmallestSubset
  <1>2. IsFiniteSet(T) /\ T # {}
    BY <1>1, FS_Subset, TotalEmpty
  <1>3. First(T) \in T /\ First(T) \in S /\ T \ {First(T)} \in SUBSET S /\ T \ {First(T)} # T
    BY <1>1, <1>2, FirstFacts
  <1>4. Total(f, T \ {First(T)}) = Total(g, T \ {First(T)})
    BY <1>1, <1>3
  <1>5. /\ Total(f, T) = f[First(T)] + Total(f, T \ {First(T)})
        /\ Total(g, T) = g[First(T)] + Total(g, T \ {First(T)})
    BY <1>2, TotalUnfold
  <1> QED  BY <1>1, <1>3, <1>4, <1>5

\* The total over one element is its value.
LEMMA TotalOne ==
  ASSUME NEW f, NEW x, f[x] \in Int
  PROVE  Total(f, {x}) = f[x]
  <1>1. IsFiniteSet({}) /\ x \notin {} /\ {} \cup {x} = {x}
    BY FS_EmptySet
  <1>2. Total(f, {} \cup {x}) = Total(f, {}) + f[x]
    BY <1>1, TotalAdd
  <1> QED  BY <1>1, <1>2, TotalEmpty

\* What the ledger sums, as functions of the row.
AmountOf == [r \in Row |-> r.amt]

CompensationOf == [r \in Row |-> r.comp]

\* TotalAmount is the total of the rows' amounts.
LEMMA TotalAmountFacts ==
  ASSUME NEW S \in SUBSET Row, IsFiniteSet(S)
  PROVE  TotalAmount(S) = Total(AmountOf, S)
  <1> DEFINE Q(h) == h = [s \in SUBSET S |->
                            IF s = {} THEN 0 ELSE First(s).amt + h[s \ {First(s)}]]
  <1>1. TotalAmount(S) = (CHOOSE h : Q(h))[S]
    BY DEF TotalAmount, MapThenSumSet, MapThenFoldSet, First
  <1>2. PICK h : IsSum(h, AmountOf, S)
    BY SumExists
  <1>3. \A s \in SUBSET S : s # {} => AmountOf[First(s)] = First(s).amt
    BY FirstFacts DEF AmountOf
  <1>4. \A k : Q(k) <=> IsSum(k, AmountOf, S)
    BY <1>3 DEF IsSum
  <1> HIDE DEF Q
  <1>5. IsSum(CHOOSE k : Q(k), AmountOf, S)
    BY <1>2, <1>4
  <1> QED  BY <1>1, <1>5, TotalOfSum

\* TotalCompensation is the total of the rows' compensations.
LEMMA TotalCompensationFacts ==
  ASSUME NEW S \in SUBSET Row, IsFiniteSet(S)
  PROVE  TotalCompensation(S) = Total(CompensationOf, S)
  <1> DEFINE Q(h) == h = [s \in SUBSET S |->
                            IF s = {} THEN 0 ELSE First(s).comp + h[s \ {First(s)}]]
  <1>1. TotalCompensation(S) = (CHOOSE h : Q(h))[S]
    BY DEF TotalCompensation, MapThenSumSet, MapThenFoldSet, First
  <1>2. PICK h : IsSum(h, CompensationOf, S)
    BY SumExists
  <1>3. \A s \in SUBSET S : s # {} => CompensationOf[First(s)] = First(s).comp
    BY FirstFacts DEF CompensationOf
  <1>4. \A k : Q(k) <=> IsSum(k, CompensationOf, S)
    BY <1>3 DEF IsSum
  <1> HIDE DEF Q
  <1>5. IsSum(CHOOSE k : Q(k), CompensationOf, S)
    BY <1>2, <1>4
  <1> QED  BY <1>1, <1>5, TotalOfSum

-----------------------------------------------------------------------------
(***************************************************************************)
(* What the end of a transaction, and any step of one, leaves intact.      *)
(***************************************************************************)

\* The values a process starts a transaction with.
LEMMA BlankFacts ==
  /\ NoPlan \in [Seats -> Seq(EffectType)]
  /\ NoPreview \in Preview
  /\ [a \in Account |-> Null] \in [Account -> Snapshot \cup {Null}]
  BY DEF NoPlan, NoPreview, Preview

\* A preview shows integers.
LEMMA PreviewFacts ==
  ASSUME TypeOK, NEW c \in Commands
  PROVE  PreviewOf(c) \in Preview
  <1>1. \A s \in Seats, a \in Account : Available(s, a) \in Int
    BY AvailableFacts
  <1>2. [s \in Seats |-> [a \in Account |-> IF s \in c.seats THEN Available(s, a) ELSE 0]]
          \in [Seats -> [Account -> Int]]
    BY <1>1
  <1>3. (IF c.kind = "recover" THEN RecoveredCents(Original(c).seq) ELSE 0) \in Nat
    BY RecoveredFacts
  <1> QED  BY <1>2, <1>3 DEF PreviewOf, Preview

\* Ending a transaction keeps every variable in its type.
LEMMA ReleaseTypes ==
  ASSUME TypeOK, NEW p \in Procs, Release(p),
         rows' \subseteq Row, resv' \in [Keys -> Commands \cup {Null}],
         snap' \in [Seats -> [Account -> Snapshot]], todo' \subseteq Seats,
         failures' \in 0..MaxFailures
  PROVE  TypeOK'
  <1>1. seatLock' \in [Seats -> Procs \cup {Null}] /\ classLock' \in Procs \cup {Null}
    BY DEF TypeOK, Release
  <1>2. resLock' \in [Keys -> Procs \cup {Null}]
    BY DEF TypeOK, Release
  <1>3. /\ job' \in [Procs -> Commands \cup {SettleJob(s) : s \in Seats} \cup {Null}]
        /\ pc' \in [Procs -> {"idle", "seat", "class", "decide", "reserve", "write", "commit"}]
    BY DEF TypeOK, Release
  <1>4. plan' \in [Procs -> [Seats -> Seq(EffectType)]] /\ prev' \in [Procs -> Preview]
    BY BlankFacts DEF TypeOK, Release
  <1>5. buf' \in [Procs -> SUBSET Row]
    BY DEF TypeOK, Release
  <1>6. sbuf' \in [Procs -> [Account -> Snapshot \cup {Null}]]
    BY BlankFacts DEF TypeOK, Release
  <1> QED  BY <1>1, <1>2, <1>3, <1>4, <1>5, <1>6 DEF TypeOK

\* Rows are never removed, so the row a correction names stays.
LEMMA OriginalsStay ==
  ASSUME rows \subseteq rows', NEW c, Originals(c) # {}
  PROVE  Originals(c)' # {}
  BY DEF Originals

\* Ending a transaction takes nothing from the other processes.
LEMMA ReleaseOwnership ==
  ASSUME LedgerInv, NEW p \in Procs, Release(p), rows \subseteq rows'
  PROVE  ClassHeld' /\ JobsRun' /\ ReservationsOwned' /\ BuffersOwned'
  <1> USE DEF LedgerInv
  <1>1. \A q \in Procs : q # p => pc'[q] = pc[q] /\ job'[q] = job[q]
    BY DEF Release, TypeOK
  <1>2. pc'[p] = "idle" /\ job'[p] = Null
    BY DEF Release, TypeOK
  <1>3. ClassHeld'
    BY <1>1, <1>2 DEF ClassHeld, Writing, ClassFirst, Release
  <1>4. JobsRun'
    <2>1. Null \notin Commands
      BY LedgerAssumption
    <2> QED  BY <1>1, <1>2, <2>1, OriginalsStay DEF JobsRun
  <1>5. ReservationsOwned'
    <2> SUFFICES ASSUME NEW q \in Procs, NEW k \in Keys, resLock'[k] = q
                 PROVE  /\ job'[q] \in Commands
                        /\ \/ pc'[q] \in {"write", "commit"}
                           \/ pc'[q] = "class" /\ ~ClassFirst(job'[q])
      BY DEF ReservationsOwned, Writing, ClassFirst
    <2>1. Null \notin Procs
      BY LedgerAssumption DEF Procs
    <2>2. q # p /\ resLock[k] = q
      BY <2>1 DEF Release
    <2> QED  BY <1>1, <2>2 DEF ReservationsOwned, Writing
  <1>6. BuffersOwned'
    BY <1>1, <1>2 DEF BuffersOwned, Writing, Release, TypeOK
  <1> QED  BY <1>3, <1>4, <1>5, <1>6

\* A step that leaves rows, snapshots and unwritten rows alone.
LEMMA QuietStep ==
  ASSUME LedgerInv, UNCHANGED <<rows, snap, buf>>
  PROVE  SequencesGapless' /\ CursorsBehind' /\ SnapshotIsHistory'
  BY DEF LedgerInv, SequencesGapless, CursorsBehind, SnapshotIsHistory

\* A process with an unwritten snapshot is about to commit it.
LEMMA QuietSettlements ==
  ASSUME LedgerInv, UNCHANGED <<rows, snap, sbuf>>, NEW p \in Procs, pc[p] # "commit",
         \A q \in Procs : q # p => job'[q] = job[q]
  PROVE  SettlementsRight'
  <1>1. \A q \in Procs, a \in Account : sbuf[q][a] # Null => job'[q] = job[q]
    BY DEF LedgerInv, BuffersOwned
  <1> QED  BY <1>1 DEF LedgerInv, SettlementsRight

\* A rollback, or a commit that wrote nothing.
LEMMA EndWithoutStep ==
  ASSUME LedgerInv, NEW p \in Procs, EndWithout(p), failures' \in 0..MaxFailures
  PROVE  LedgerInv'
  <1>1. Release(p) /\ UNCHANGED <<rows, resv, snap, todo>>
    BY DEF EndWithout
  <1>2. TypeOK'
    BY <1>1, ReleaseTypes DEF LedgerInv, TypeOK
  <1>3. ClassHeld' /\ JobsRun' /\ ReservationsOwned' /\ BuffersOwned'
    BY <1>1, ReleaseOwnership
  <1>4. \A q \in Procs : q # p => buf'[q] = buf[q] /\ sbuf'[q] = sbuf[q] /\ job'[q] = job[q]
    BY <1>1 DEF Release, LedgerInv, TypeOK
  <1>5. buf'[p] = {} /\ \A a \in Account : sbuf'[p][a] = Null
    BY <1>1 DEF Release, LedgerInv, TypeOK
  <1>6. SequencesGapless'
    <2>1. PICK n \in Nat : /\ {r.seq : r \in rows} = 1..n
                          /\ \A q \in Procs : \E m \in Nat :
                               n =< m /\ {r.seq : r \in buf[q]} = (n + 1)..m
      BY DEF LedgerInv, SequencesGapless
    <2>2. {r.seq : r \in buf'[p]} = (n + 1)..n
      BY <1>5
    <2>3. \A q \in Procs : \E m \in Nat : n =< m /\ {r.seq : r \in buf'[q]} = (n + 1)..m
      BY <1>4, <2>1, <2>2
    <2> QED  BY <1>1, <2>1, <2>3 DEF SequencesGapless
  <1>7. CursorsBehind' /\ SnapshotIsHistory'
    BY <1>1 DEF LedgerInv, CursorsBehind, SnapshotIsHistory
  <1>8. SettlementsRight'
    BY <1>1, <1>4, <1>5 DEF LedgerInv, SettlementsRight
  <1> QED  BY <1>2, <1>3, <1>6, <1>7, <1>8 DEF LedgerInv

-----------------------------------------------------------------------------
(***************************************************************************)
(* The invariant is inductive: the initial state and one lemma per action. *)
(***************************************************************************)

\* An empty ledger satisfies the invariant.
LEMMA InitInv == Init => LedgerInv
  <1> SUFFICES ASSUME Init PROVE LedgerInv
    OBVIOUS
  <1> USE DEF Init
  <1>1. TypeOK
    BY BlankFacts, LedgerAssumption DEF TypeOK, Snapshot
  <1>2. Null \notin Procs /\ Null \notin Commands
    BY LedgerAssumption DEF Procs
  <1>3. ClassHeld /\ JobsRun /\ ReservationsOwned /\ BuffersOwned
    BY <1>2 DEF ClassHeld, JobsRun, ReservationsOwned, BuffersOwned, Writing
  <1>4. SequencesGapless
    <2>1. {r.seq : r \in rows} = 1..0
      OBVIOUS
    <2>2. \A p \in Procs : 0 =< 0 /\ {r.seq : r \in buf[p]} = (0 + 1)..0
      OBVIOUS
    <2> QED  BY <2>1, <2>2 DEF SequencesGapless
  <1>5. CursorsBehind /\ SettlementsRight
    BY DEF CursorsBehind, SettlementsRight
  <1>6. SnapshotIsHistory
    BY SumFacts DEF SnapshotIsHistory, PostedHistoryCents, AdmittedRows
  <1> QED  BY <1>1, <1>3, <1>4, <1>5, <1>6 DEF LedgerInv

\* A submitted command owns nothing yet.
LEMMA SubmitStep ==
  ASSUME LedgerInv, NEW w \in Workers, NEW c \in Commands, Submit(w, c)
  PROVE  LedgerInv'
  <1> w \in Procs
    BY DEF Procs
  <1>0. /\ pc[w] = "idle" /\ job' = [job EXCEPT ![w] = c] /\ pc' = [pc EXCEPT ![w] = "seat"]
        /\ prev' = [prev EXCEPT ![w] = IF NeedsPreview(c) THEN PreviewOf(c) ELSE NoPreview]
        /\ UNCHANGED <<rows, resv, snap, seatLock, classLock, resLock, plan, buf, sbuf, todo,
                       failures>>
        /\ c.kind \in {"reverse", "recover"} => Originals(c) # {}
    BY DEF Submit, Goto, Submittable
  <1>1. TypeOK'
    BY <1>0, BlankFacts, PreviewFacts DEF LedgerInv, TypeOK
  <1>2. /\ \A q \in Procs : q # w => pc'[q] = pc[q] /\ job'[q] = job[q]
        /\ pc'[w] = "seat" /\ job'[w] = c /\ Null # c
    BY <1>0, LedgerAssumption DEF LedgerInv, TypeOK
  <1>3. ClassHeld' /\ BuffersOwned'
    BY <1>0, <1>2 DEF LedgerInv, ClassHeld, BuffersOwned, Writing, ClassFirst
  <1>4. JobsRun'
    BY <1>0, <1>2 DEF LedgerInv, JobsRun, Originals
  <1>5. ReservationsOwned'
    BY <1>0, <1>2 DEF LedgerInv, ReservationsOwned, Writing, ClassFirst
  <1>6. SettlementsRight'
    BY <1>0, <1>2, QuietSettlements
  <1> QED  BY <1>0, <1>1, <1>3, <1>4, <1>5, <1>6, QuietStep DEF LedgerInv

\* The sweep's list of contexts touches no one.
LEMMA SweepStartStep ==
  ASSUME LedgerInv, SweepStart
  PROVE  LedgerInv'
  <1>0. /\ todo' \subseteq Seats
        /\ UNCHANGED <<rows, resv, snap, seatLock, classLock, resLock, job, pc, plan, prev,
                       buf, sbuf, failures>>
    BY DEF SweepStart
  <1>1. TypeOK'
    BY <1>0 DEF LedgerInv, TypeOK
  <1>2. ClassHeld' /\ BuffersOwned' /\ JobsRun' /\ ReservationsOwned'
    BY <1>0 DEF LedgerInv, ClassHeld, BuffersOwned, Writing, ClassFirst, JobsRun, Originals,
                ReservationsOwned
  <1>3. SettlementsRight'
    BY <1>0 DEF LedgerInv, SettlementsRight
  <1> QED  BY <1>0, <1>1, <1>2, <1>3, QuietStep DEF LedgerInv

\* A settlement that starts owns nothing yet.
LEMMA SweepNextStep ==
  ASSUME LedgerInv, SweepNext
  PROVE  LedgerInv'
  <1> Sweeper \in Procs
    BY DEF Procs
  <1>0. PICK s \in todo : todo' = todo \ {s} /\ job' = [job EXCEPT ![Sweeper] = SettleJob(s)]
    BY DEF SweepNext
  <1>1. /\ pc[Sweeper] = "idle" /\ pc' = [pc EXCEPT ![Sweeper] = "seat"]
        /\ UNCHANGED <<rows, resv, snap, seatLock, classLock, resLock, plan, prev, buf, sbuf,
                       failures>>
    BY DEF SweepNext, Goto
  <1>2. s \in Seats
    BY <1>0 DEF LedgerInv, TypeOK
  <1>3. TypeOK'
    BY <1>0, <1>1, <1>2 DEF LedgerInv, TypeOK
  <1>4. SettleJob(s).kind = "settle" /\ Null # SettleJob(s) /\ SettleJob(s) \notin Commands
    BY <1>2, SettleJobFacts
  <1>5. /\ \A q \in Procs : q # Sweeper => pc'[q] = pc[q] /\ job'[q] = job[q]
        /\ pc'[Sweeper] = "seat" /\ job'[Sweeper] = SettleJob(s)
    BY <1>0, <1>1 DEF LedgerInv, TypeOK
  <1>6. ClassHeld' /\ BuffersOwned'
    BY <1>1, <1>5 DEF LedgerInv, ClassHeld, BuffersOwned, Writing, ClassFirst
  <1>7. JobsRun'
    BY <1>1, <1>4, <1>5 DEF LedgerInv, JobsRun, Originals
  <1>8. ReservationsOwned'
    BY <1>1, <1>5 DEF LedgerInv, ReservationsOwned, Writing, ClassFirst
  <1>9. SettlementsRight'
    BY <1>1, <1>5, QuietSettlements
  <1> QED  BY <1>1, <1>3, <1>6, <1>7, <1>8, <1>9, QuietStep DEF LedgerInv

\* Waiting for and taking a seat's row touches no money.
LEMMA LockSeatStep ==
  ASSUME LedgerInv, NEW p \in Procs, LockSeat(p)
  PROVE  LedgerInv'
  <1>0. PICK s \in UnlockedSeats(p) :
          /\ seatLock' = [seatLock EXCEPT ![s] = p]
          /\ pc' = [pc EXCEPT ![p] = IF UnlockedSeats(p) # {s} THEN "seat"
                                     ELSE IF ClassFirst(job[p]) THEN "class" ELSE "decide"]
    BY DEF LockSeat, Goto
  <1>1. /\ pc[p] = "seat"
        /\ UNCHANGED <<rows, resv, snap, classLock, resLock, job, plan, prev, buf, sbuf, todo,
                       failures>>
    BY DEF LockSeat
  <1>2. TypeOK'
    BY <1>0, <1>1 DEF LedgerInv, TypeOK
  <1>3. /\ \A q \in Procs : q # p => pc'[q] = pc[q]
        /\ pc'[p] \in {"seat", "class", "decide"} /\ (pc'[p] = "decide" => ~ClassFirst(job[p]))
    BY <1>0 DEF LedgerInv, TypeOK
  <1>4. ClassHeld' /\ BuffersOwned'
    BY <1>1, <1>3 DEF LedgerInv, ClassHeld, BuffersOwned, Writing, ClassFirst
  <1>5. JobsRun'
    BY <1>1, <1>3 DEF LedgerInv, JobsRun, Originals
  <1>6. ReservationsOwned'
    BY <1>1, <1>3 DEF LedgerInv, ReservationsOwned, Writing, ClassFirst
  <1>7. SettlementsRight'
    BY <1>1, QuietSettlements
  <1> QED  BY <1>1, <1>2, <1>4, <1>5, <1>6, <1>7, QuietStep DEF LedgerInv

\* The class row goes to one process at a time.
LEMMA LockClassStep ==
  ASSUME LedgerInv, NEW p \in Procs, LockClass(p)
  PROVE  LedgerInv'
  <1>0. /\ pc[p] = "class" /\ classLock = Null /\ classLock' = p
        /\ pc' = [pc EXCEPT ![p] = IF ClassFirst(job[p]) THEN "decide" ELSE "write"]
        /\ UNCHANGED <<rows, resv, snap, seatLock, resLock, job, plan, prev, buf, sbuf, todo,
                       failures>>
    BY DEF LockClass, Goto
  <1>1. TypeOK'
    BY <1>0 DEF LedgerInv, TypeOK
  <1>2. /\ \A q \in Procs : q # p => pc'[q] = pc[q]
        /\ pc'[p] = IF ClassFirst(job[p]) THEN "decide" ELSE "write"
    BY <1>0 DEF LedgerInv, TypeOK
  <1>3. \A q \in Procs : q # Null
    BY LedgerAssumption DEF Procs
  <1>4. ClassHeld' /\ BuffersOwned'
    BY <1>0, <1>2, <1>3 DEF LedgerInv, ClassHeld, BuffersOwned, Writing, ClassFirst
  <1>5. ~ClassFirst(job[p]) => job[p] \in Commands
    <2>1. job[p] # Null
      BY <1>0 DEF LedgerInv, JobsRun
    <2>2. \A s \in Seats : ClassFirst(SettleJob(s))
      BY SettleJobFacts DEF ClassFirst
    <2> QED  BY <2>1, <2>2 DEF LedgerInv, TypeOK
  <1>6. JobsRun'
    BY <1>0, <1>2, <1>5 DEF LedgerInv, JobsRun, Originals
  <1>7. ReservationsOwned'
    BY <1>0, <1>2 DEF LedgerInv, ReservationsOwned, Writing, ClassFirst
  <1>8. SettlementsRight'
    BY <1>0, QuietSettlements
  <1> QED  BY <1>0, <1>1, <1>4, <1>6, <1>7, <1>8, QuietStep DEF LedgerInv

\* A decision writes nothing: it refuses or fixes well-formed effects.
LEMMA DecideStep ==
  ASSUME LedgerInv, NEW p \in Procs, Decide(p)
  PROVE  LedgerInv'
  <1>0. pc[p] = "decide" /\ job[p].kind # "settle" /\ failures' = failures
    BY DEF Decide
  <1>1. job[p] \in Commands
    <2>1. job[p] # Null
      BY <1>0 DEF LedgerInv, JobsRun
    <2> QED  BY <1>0, <2>1, SettleJobFacts DEF LedgerInv, TypeOK
  <1>2. CASE EndWithout(p)
    BY <1>0, <1>2, EndWithoutStep DEF LedgerInv, TypeOK
  <1>3. CASE /\ ~Refused(p)
             /\ plan' = [plan EXCEPT ![p] = [s \in Seats |->
                           IF s \in job[p].seats THEN EffectsFor(job[p], s) ELSE <<>>]]
             /\ Goto(p, "reserve")
             /\ UNCHANGED <<rows, resv, snap, seatLock, classLock, resLock, job, prev, buf,
                            sbuf, todo>>
    <2>1. [s \in Seats |-> IF s \in job[p].seats THEN EffectsFor(job[p], s) ELSE <<>>]
            \in [Seats -> Seq(EffectType)]
      BY <1>1, <1>3, EffectsFacts DEF LedgerInv
    <2>2. TypeOK'
      BY <1>0, <1>3, <2>1 DEF LedgerInv, TypeOK, Goto
    <2>3. (\A q \in Procs : q # p => pc'[q] = pc[q]) /\ pc'[p] = "reserve"
      BY <1>3 DEF LedgerInv, TypeOK, Goto
    <2>4. ClassHeld' /\ BuffersOwned'
      BY <1>0, <1>3, <2>3 DEF LedgerInv, ClassHeld, BuffersOwned, Writing, ClassFirst
    <2>5. JobsRun'
      BY <1>0, <1>1, <1>3, <2>3 DEF LedgerInv, JobsRun, Originals
    <2>6. ReservationsOwned'
      BY <1>0, <1>3, <2>3 DEF LedgerInv, ReservationsOwned, Writing, ClassFirst
    <2>7. SettlementsRight'
      BY <1>0, <1>3, QuietSettlements
    <2> QED  BY <1>3, <2>2, <2>4, <2>5, <2>6, <2>7, QuietStep DEF LedgerInv
  <1> QED  BY <1>2, <1>3 DEF Decide

\* A reservation is replayed, or inserted by the process that will write.
LEMMA ReserveStep ==
  ASSUME LedgerInv, NEW p \in Procs, Reserve(p)
  PROVE  LedgerInv'
  <1>0. pc[p] = "reserve" /\ failures' = failures
    BY DEF Reserve
  <1>1. job[p] \in Commands
    BY <1>0 DEF LedgerInv, JobsRun
  <1>2. CASE EndWithout(p)
    BY <1>0, <1>2, EndWithoutStep DEF LedgerInv, TypeOK
  <1>3. CASE /\ resLock' = [resLock EXCEPT ![job[p].key] = p]
             /\ Goto(p, IF ClassFirst(job[p]) THEN "write" ELSE "class")
             /\ UNCHANGED <<rows, resv, snap, seatLock, classLock, job, plan, prev, buf, sbuf,
                            todo>>
    <2>1. TypeOK'
      BY <1>0, <1>3 DEF LedgerInv, TypeOK, Goto
    <2>2. /\ \A q \in Procs : q # p => pc'[q] = pc[q]
          /\ pc'[p] = IF ClassFirst(job[p]) THEN "write" ELSE "class"
      BY <1>3 DEF LedgerInv, TypeOK, Goto
    <2>3. ClassHeld' /\ BuffersOwned'
      BY <1>0, <1>3, <2>2 DEF LedgerInv, ClassHeld, BuffersOwned, Writing, ClassFirst
    <2>4. JobsRun'
      BY <1>0, <1>1, <1>3, <2>2 DEF LedgerInv, JobsRun, Originals
    <2>5. ReservationsOwned'
      <3> SUFFICES ASSUME NEW q \in Procs, NEW k \in Keys, resLock'[k] = q
                   PROVE  /\ job[q] \in Commands
                          /\ \/ pc'[q] \in {"write", "commit"}
                             \/ pc'[q] = "class" /\ ~ClassFirst(job[q])
        BY <1>3 DEF ReservationsOwned, Writing, ClassFirst
      <3>1. CASE q = p
        BY <1>1, <2>2, <3>1
      <3>2. CASE q # p
        <4>1. resLock[k] = q
          BY <1>3, <3>2 DEF LedgerInv, TypeOK
        <4> QED  BY <2>2, <3>2, <4>1 DEF LedgerInv, ReservationsOwned, Writing
      <3> QED  BY <3>1, <3>2
    <2>6. SettlementsRight'
      BY <1>0, <1>3, QuietSettlements
    <2> QED  BY <1>3, <2>1, <2>3, <2>4, <2>5, <2>6, QuietStep DEF LedgerInv
  <1> QED  BY <1>2, <1>3 DEF Reserve

\* Where a process's next row goes: just after the committed and its own rows.
LEMMA NextSequenceFacts ==
  ASSUME NEW p \in Procs, NEW n \in Nat, NEW m \in Nat, n =< m,
         {r.seq : r \in rows} = 1..n, {r.seq : r \in buf[p]} = (n + 1)..m
  PROVE  NextSequence(p) = m + 1
  <1> DEFINE S == Allocated(p) \cup {0}
  <1>1. S = 0..m
    <2>1. Allocated(p) = {r.seq : r \in rows} \cup {r.seq : r \in buf[p]}
      BY DEF Allocated
    <2>2. Allocated(p) = (1..n) \cup ((n + 1)..m)
      BY <2>1
    <2> QED  BY <2>2
  <1>2. Max(0..m) = m
    <2>1. Max(0..m) \in 0..m /\ \A x \in 0..m : x =< Max(0..m)
      <3>1. 0..m \in SUBSET Nat /\ 0..m # {} /\ \A x \in 0..m : x =< m
        OBVIOUS
      <3> HIDE DEF S
      <3> QED  BY <3>1, MaxFacts
    <2> QED  BY <2>1
  <1> QED  BY <1>1, <1>2 DEF NextSequence

\* Writing one seat's effects appends rows with the next sequences, unseen by
\* others until the process that holds the class row commits.
LEMMA WriteStep ==
  ASSUME LedgerInv, NEW p \in Procs, Write(p)
  PROVE  LedgerInv'
  <1>0. PICK s \in SeatsToWrite(p) :
          /\ buf' = [buf EXCEPT ![p] = buf[p] \cup NewRows(p, s)]
          /\ plan' = [plan EXCEPT ![p][s] = <<>>]
          /\ pc' = [pc EXCEPT ![p] = IF SeatsToWrite(p) = {s} THEN "commit" ELSE "write"]
    BY DEF Write, Goto
  <1>1. /\ pc[p] = "write"
        /\ UNCHANGED <<rows, resv, snap, seatLock, classLock, resLock, job, prev, sbuf, todo,
                       failures>>
    BY DEF Write
  <1>2. job[p] \in Commands /\ job[p].key \in Keys
    BY <1>1, LedgerAssumption DEF LedgerInv, JobsRun, Command
  <1>3. PICK n \in Nat : /\ {r.seq : r \in rows} = 1..n
                        /\ \A q \in Procs : \E m \in Nat :
                             n =< m /\ {r.seq : r \in buf[q]} = (n + 1)..m
    BY DEF LedgerInv, SequencesGapless
  <1>4. PICK m \in Nat : n =< m /\ {r.seq : r \in buf[p]} = (n + 1)..m
    BY <1>3
  <1>5. NextSequence(p) = m + 1
    BY <1>3, <1>4, NextSequenceFacts
  <1>6. s \in Seats /\ plan[p][s] \in Seq(EffectType)
    BY DEF SeatsToWrite, LedgerInv, TypeOK
  <1> DEFINE d == Len(plan[p][s])
  <1>7. /\ d \in Nat /\ DOMAIN plan[p][s] = 1..d
        /\ \A i \in 1..d : plan[p][s][i] \in EffectType
    BY <1>6
  <1>8. NewRows(p, s) = {RowOf(plan[p][s][i], m + i, job[p].key, i) : i \in 1..d}
    <2>1. \A i \in 1..d : NextSequence(p) + i - 1 = m + i
      BY <1>5, <1>7
    <2> QED  BY <1>7, <2>1 DEF NewRows
  <1>9. \A i \in 1..d : /\ RowOf(plan[p][s][i], m + i, job[p].key, i) \in Row
                        /\ RowOf(plan[p][s][i], m + i, job[p].key, i).seq = m + i
    BY <1>2, <1>7 DEF RowOf, Row, EffectType
  <1> HIDE DEF d
  <1>10. NewRows(p, s) \subseteq Row /\ {r.seq : r \in NewRows(p, s)} = (m + 1)..(m + d)
    <2>1. NewRows(p, s) \subseteq Row
      BY <1>8, <1>9
    <2>2. \A r \in NewRows(p, s) : r.seq \in (m + 1)..(m + d)
      BY <1>7, <1>8, <1>9
    <2>3. \A k \in (m + 1)..(m + d) : \E r \in NewRows(p, s) : r.seq = k
      <3> SUFFICES ASSUME NEW k \in (m + 1)..(m + d) PROVE \E r \in NewRows(p, s) : r.seq = k
        OBVIOUS
      <3>1. k - m \in 1..d /\ m + (k - m) = k
        BY <1>7
      <3> QED  BY <1>8, <1>9, <3>1
    <2> QED  BY <2>1, <2>2, <2>3
  <1>11. TypeOK'
    <2>1. buf' \in [Procs -> SUBSET Row]
      BY <1>0, <1>10 DEF LedgerInv, TypeOK
    <2>2. plan' \in [Procs -> [Seats -> Seq(EffectType)]]
      BY <1>0, <1>6 DEF LedgerInv, TypeOK
    <2> QED  BY <1>0, <1>1, <2>1, <2>2 DEF LedgerInv, TypeOK
  <1>12. /\ \A q \in Procs : q # p => pc'[q] = pc[q] /\ buf'[q] = buf[q]
         /\ pc'[p] \in {"write", "commit"} /\ buf'[p] = buf[p] \cup NewRows(p, s)
    BY <1>0 DEF LedgerInv, TypeOK
  <1>13. ClassHeld' /\ BuffersOwned'
    <2>1. \A a \in Account : sbuf[p][a] = Null
      BY <1>1 DEF LedgerInv, BuffersOwned
    <2> QED  BY <1>1, <1>12, <2>1 DEF LedgerInv, ClassHeld, BuffersOwned, Writing, ClassFirst
  <1>14. JobsRun'
    BY <1>1, <1>2, <1>12 DEF LedgerInv, JobsRun, Originals
  <1>15. ReservationsOwned'
    BY <1>1, <1>12 DEF LedgerInv, ReservationsOwned, Writing, ClassFirst
  <1>16. SequencesGapless'
    <2>1. {r.seq : r \in buf'[p]} = (n + 1)..(m + d)
      <3>1. {r.seq : r \in buf'[p]} = {r.seq : r \in buf[p]} \cup {r.seq : r \in NewRows(p, s)}
        BY <1>12
      <3> QED  BY <1>4, <1>7, <1>10, <3>1
    <2>2. m + d \in Nat /\ n =< m + d
      BY <1>4, <1>7
    <2>3. \A q \in Procs : \E k \in Nat : n =< k /\ {r.seq : r \in buf'[q]} = (n + 1)..k
      BY <1>3, <1>12, <2>1, <2>2
    <2> QED  BY <1>1, <1>3, <2>3 DEF SequencesGapless
  <1>17. CursorsBehind' /\ SnapshotIsHistory'
    BY <1>1 DEF LedgerInv, CursorsBehind, SnapshotIsHistory
  <1>18. SettlementsRight'
    BY <1>1, QuietSettlements
  <1> QED  BY <1>11, <1>13, <1>14, <1>15, <1>16, <1>17, <1>18 DEF LedgerInv

\* A settlement computes each account's cursor and balance from the rows it
\* admits, and the cursor moves forward.
LEMMA SettleStep ==
  ASSUME LedgerInv, NEW p \in Procs, Settle(p)
  PROVE  LedgerInv'
  <1>0. pc[p] = "decide" /\ job[p].kind = "settle" /\ failures' = failures
    BY DEF Settle
  <1>1. PICK s \in Seats : job[p] = SettleJob(s)
    <2>1. job[p] # Null /\ job[p] \notin Commands
      BY <1>0, LedgerAssumption DEF LedgerInv, JobsRun, Command, Kinds
    <2> QED  BY <2>1 DEF LedgerInv, TypeOK
  <1>2. job[p].seats = {s} /\ ClassFirst(job[p])
    BY <1>1, SettleJobFacts DEF ClassFirst
  <1>3. CASE EndWithout(p)
    BY <1>0, <1>3, EndWithoutStep DEF LedgerInv, TypeOK
  <1>4. CASE /\ sbuf' = [sbuf EXCEPT ![p] = [a \in Account |->
                   IF \E r \in PendingRows(s) : r.acct = a
                   THEN [cur |-> NewCursor(s, a),
                         bal |-> PostedHistoryCents(rows, s, a, NewCursor(s, a))]
                   ELSE Null]]
             /\ Goto(p, "commit")
             /\ UNCHANGED <<rows, resv, snap, seatLock, classLock, resLock, job, plan, prev,
                            buf, todo>>
    <2>1. PICK n \in Nat : {r.seq : r \in rows} = 1..n
      BY DEF LedgerInv, SequencesGapless
    <2>2. ASSUME NEW a \in Account, \E r \in PendingRows(s) : r.acct = a
          PROVE  /\ NewCursor(s, a) \in Nat
                 /\ \E r \in rows : r.seq = NewCursor(s, a)
                 /\ snap[s][a].cur =< NewCursor(s, a)
      <3> DEFINE S == {r.seq : r \in {q \in PendingRows(s) : q.acct = a}}
      <3>1. S \in SUBSET Nat /\ S # {} /\ \A x \in S : x =< n
        <4>1. \A r \in rows : r.seq \in 1..n
          BY <2>1
        <4> QED  BY <2>1, <2>2, <4>1 DEF PendingRows
      <3>2. Max(S) \in S
        <4> HIDE DEF S
        <4> QED  BY <3>1, MaxFacts
      <3>3. NewCursor(s, a) = Max(S)
        BY DEF NewCursor
      <3>4. PICK r \in PendingRows(s) : r.acct = a /\ r.seq = NewCursor(s, a)
        BY <3>2, <3>3
      <3>5. r \in rows /\ r.seat = s /\ ~ (r.seq =< snap[s][a].cur)
        BY <3>4 DEF PendingRows, Posted
      <3>6. r.seq \in Nat /\ snap[s][a].cur \in Nat
        BY <3>5 DEF LedgerInv, TypeOK, Row, Snapshot
      <3> QED  BY <3>4, <3>5, <3>6
    <2> DEFINE new(a) == IF \E r \in PendingRows(s) : r.acct = a
                         THEN [cur |-> NewCursor(s, a),
                               bal |-> PostedHistoryCents(rows, s, a, NewCursor(s, a))]
                         ELSE Null
    <2>3. sbuf' = [sbuf EXCEPT ![p] = [a \in Account |-> new(a)]]
      BY <1>4
    <2>4. \A a \in Account : new(a) \in Snapshot \cup {Null}
      BY <2>2, SumFacts DEF Snapshot, PostedHistoryCents
    <2>5. \A a \in Account : new(a) # Null =>
            /\ \E r \in rows : r.seq = new(a).cur
            /\ snap[s][a].cur =< new(a).cur
            /\ new(a).bal = PostedHistoryCents(rows, s, a, new(a).cur)
      BY <2>2
    <2> HIDE DEF new
    <2>6. TypeOK'
      <3>1. sbuf' \in [Procs -> [Account -> Snapshot \cup {Null}]]
        BY <2>3, <2>4 DEF LedgerInv, TypeOK
      <3> QED  BY <1>0, <1>4, <3>1 DEF LedgerInv, TypeOK, Goto
    <2>7. /\ \A q \in Procs : q # p => pc'[q] = pc[q] /\ sbuf'[q] = sbuf[q]
          /\ pc'[p] = "commit" /\ \A a \in Account : sbuf'[p][a] = new(a)
      BY <1>4, <2>3 DEF LedgerInv, TypeOK, Goto
    <2>8. ClassHeld' /\ BuffersOwned'
      BY <1>0, <1>2, <1>4, <2>7 DEF LedgerInv, ClassHeld, BuffersOwned, Writing, ClassFirst
    <2>9. JobsRun'
      BY <1>0, <1>4, <2>7 DEF LedgerInv, JobsRun, Originals
    <2>10. ReservationsOwned'
      BY <1>0, <1>4, <2>7 DEF LedgerInv, ReservationsOwned, Writing, ClassFirst
    <2>11. SettlementsRight'
      BY <1>2, <1>4, <2>5, <2>7 DEF LedgerInv, SettlementsRight
    <2> QED  BY <1>4, <2>6, <2>8, <2>9, <2>10, <2>11, QuietStep DEF LedgerInv
  <1> QED  BY <1>2, <1>3, <1>4 DEF Settle, Reconciled

\* New rows lie beyond every cursor, so they are admitted by none.
LEMMA NewRowsNotAdmitted ==
  ASSUME TypeOK, NEW p \in Procs, NEW n \in Nat, NEW m \in Nat,
         {r.seq : r \in rows} = 1..n, {r.seq : r \in buf[p]} = (n + 1)..m,
         NEW s, NEW a, NEW cursor \in Nat, cursor =< n
  PROVE  PostedHistoryCents(rows \cup buf[p], s, a, cursor)
           = PostedHistoryCents(rows, s, a, cursor)
  <1>1. \A r \in buf[p] : ~ (r.seq =< cursor)
    OBVIOUS
  <1>2. AdmittedRows(rows \cup buf[p], s, a, cursor) = AdmittedRows(rows, s, a, cursor)
    BY <1>1 DEF AdmittedRows
  <1> QED  BY <1>2 DEF PostedHistoryCents

\* While a process commits, no other holds unwritten rows or snapshots.
LEMMA CommitAlone ==
  ASSUME LedgerInv, NEW p \in Procs, pc[p] = "commit", NEW q \in Procs, q # p
  PROVE  buf[q] = {} /\ \A a \in Account : sbuf[q][a] = Null
  BY DEF LedgerInv, ClassHeld, BuffersOwned, Writing

\* A commit adds rows after all cursors and replaces snapshots by right ones.
LEMMA CommitStep ==
  ASSUME LedgerInv, NEW p \in Procs, Commit(p)
  PROVE  LedgerInv'
  <1>0. /\ pc[p] = "commit" /\ rows' = rows \cup buf[p] /\ Release(p)
        /\ resv' = [k \in Keys |-> IF resLock[k] = p THEN job[p] ELSE resv[k]]
        /\ snap' = [s \in Seats |-> [a \in Account |->
                      IF s \in job[p].seats /\ sbuf[p][a] # Null THEN sbuf[p][a]
                      ELSE snap[s][a]]]
        /\ UNCHANGED <<todo, failures>>
    BY DEF Commit
  <1>1. TypeOK'
    <2>1. rows' \subseteq Row
      BY <1>0 DEF LedgerInv, TypeOK
    <2>2. resv' \in [Keys -> Commands \cup {Null}]
      BY <1>0 DEF LedgerInv, TypeOK, ReservationsOwned
    <2>3. snap' \in [Seats -> [Account -> Snapshot]]
      BY <1>0 DEF LedgerInv, TypeOK
    <2> QED  BY <1>0, <2>1, <2>2, <2>3, ReleaseTypes DEF LedgerInv, TypeOK
  <1>2. ClassHeld' /\ JobsRun' /\ ReservationsOwned' /\ BuffersOwned'
    BY <1>0, ReleaseOwnership
  <1>3. \A q \in Procs : buf'[q] = {} /\ \A a \in Account : sbuf'[q][a] = Null
    BY <1>0, CommitAlone DEF Release, LedgerInv, TypeOK
  <1>4. PICK n \in Nat : /\ {r.seq : r \in rows} = 1..n
                        /\ \A q \in Procs : \E m \in Nat :
                             n =< m /\ {r.seq : r \in buf[q]} = (n + 1)..m
    BY DEF LedgerInv, SequencesGapless
  <1>5. PICK m \in Nat : n =< m /\ {r.seq : r \in buf[p]} = (n + 1)..m
    BY <1>4
  <1>6. SequencesGapless'
    <2>1. {r.seq : r \in rows'} = {r.seq : r \in rows} \cup {r.seq : r \in buf[p]}
      BY <1>0
    <2>2. {r.seq : r \in rows'} = 1..m
      BY <1>4, <1>5, <2>1
    <2>3. \A q \in Procs : m =< m /\ {r.seq : r \in buf'[q]} = (m + 1)..m
      BY <1>3
    <2> QED  BY <2>2, <2>3 DEF SequencesGapless
  <1>7. \A s \in Seats, a \in Account :
          /\ snap'[s][a] = IF s \in job[p].seats /\ sbuf[p][a] # Null THEN sbuf[p][a]
                           ELSE snap[s][a]
          /\ snap'[s][a].cur = 0 \/ \E r \in rows : r.seq = snap'[s][a].cur
          /\ snap'[s][a].bal = PostedHistoryCents(rows, s, a, snap'[s][a].cur)
    BY <1>0 DEF LedgerInv, CursorsBehind, SettlementsRight, SnapshotIsHistory
  <1>8. CursorsBehind'
    BY <1>0, <1>7 DEF CursorsBehind
  <1>9. SnapshotIsHistory'
    <2> SUFFICES ASSUME NEW s \in Seats, NEW a \in Account
                 PROVE  snap'[s][a].bal = PostedHistoryCents(rows', s, a, snap'[s][a].cur)
      BY DEF SnapshotIsHistory
    <2>1. snap'[s][a].cur \in Nat /\ snap'[s][a].cur =< n
      <3>1. \A r \in rows : r.seq \in 1..n
        BY <1>4
      <3> QED  BY <1>7, <3>1
    <2>2. PostedHistoryCents(rows \cup buf[p], s, a, snap'[s][a].cur)
            = PostedHistoryCents(rows, s, a, snap'[s][a].cur)
      BY <1>4, <1>5, <2>1, NewRowsNotAdmitted DEF LedgerInv
    <2> QED  BY <1>0, <1>7, <2>2
  <1>10. SettlementsRight'
    BY <1>3 DEF SettlementsRight
  <1> QED  BY <1>1, <1>2, <1>6, <1>8, <1>9, <1>10 DEF LedgerInv

\* Every step keeps the invariant.
LEMMA NextInv == LedgerInv /\ [Next]_vars => LedgerInv'
  <1> SUFFICES ASSUME LedgerInv, [Next]_vars PROVE LedgerInv'
    OBVIOUS
  <1>1. ASSUME NEW w \in Workers, NEW c \in Commands, Submit(w, c) PROVE LedgerInv'
    BY <1>1, SubmitStep
  <1>2. CASE SweepStart
    BY <1>2, SweepStartStep
  <1>3. CASE SweepNext
    BY <1>3, SweepNextStep
  <1>4. ASSUME NEW p \in Procs, Step(p) PROVE LedgerInv'
    BY <1>4, LockSeatStep, LockClassStep, DecideStep, ReserveStep, WriteStep, SettleStep,
       CommitStep DEF Step
  <1>5. ASSUME NEW p \in Procs, Fail(p) PROVE LedgerInv'
    <2>1. EndWithout(p) /\ failures' \in 0..MaxFailures
      BY <1>5, LedgerAssumption DEF Fail, LedgerInv, TypeOK
    <2> QED  BY <2>1, EndWithoutStep
  <1>6. CASE UNCHANGED vars
    <2>1. TypeOK' /\ ClassHeld' /\ JobsRun' /\ ReservationsOwned' /\ BuffersOwned'
      BY <1>6 DEF vars, LedgerInv, TypeOK, ClassHeld, JobsRun, ReservationsOwned, BuffersOwned,
                  Writing, ClassFirst, Originals
    <2>2. SettlementsRight'
      BY <1>6 DEF vars, LedgerInv, SettlementsRight
    <2> QED  BY <1>6, <2>1, <2>2, QuietStep DEF vars, LedgerInv
  <1> QED  BY <1>1, <1>2, <1>3, <1>4, <1>5, <1>6 DEF Next

\* LedgerInv holds in every reachable state.
LEMMA LedgerInvariant == Spec => []LedgerInv
  BY InitInv, NextInv, PTL DEF Spec

-----------------------------------------------------------------------------
(***************************************************************************)
(* Type correctness: no interleaving of commands, settlements and failures *)
(* puts a value in a table, lock or local variable that its type excludes. *)
(***************************************************************************)
THEOREM TypeCorrect == Spec => []TypeOK
  <1>1. LedgerInv => TypeOK
    BY DEF LedgerInv
  <1> QED  BY <1>1, LedgerInvariant, PTL

(***************************************************************************)
(* INV-LED-006: every committed snapshot balance is the sum of the rows    *)
(* its cursor admits, however commands interleave with settle_balances.    *)
(***************************************************************************)
THEOREM SnapshotsRebuild == Spec => []SnapshotIsHistory
  <1>1. LedgerInv => SnapshotIsHistory
    BY DEF LedgerInv
  <1> QED  BY <1>1, LedgerInvariant, PTL

\* One step of the ledger, from a state that satisfies the invariant.
LEMMA AppendOnlyStep ==
  ASSUME LedgerInv, [Next]_vars
  PROVE  /\ rows \subseteq rows'
         /\ \A r \in rows : Posted(r) => Posted(r)'
         /\ \A r \in rows' \ rows : ~Posted(r)'
  <1>1. ASSUME NEW p \in Procs, Commit(p)
        PROVE  /\ rows \subseteq rows'
               /\ \A r \in rows : Posted(r) => Posted(r)'
               /\ \A r \in rows' \ rows : ~Posted(r)'
    <2>1. /\ rows' = rows \cup buf[p]
          /\ snap' = [s \in Seats |-> [a \in Account |->
                        IF s \in job[p].seats /\ sbuf[p][a] # Null THEN sbuf[p][a]
                        ELSE snap[s][a]]]
      BY <1>1 DEF Commit
    <2>2. PICK n \in Nat, m \in Nat :
            {r.seq : r \in rows} = 1..n /\ {r.seq : r \in buf[p]} = (n + 1)..m
      BY DEF LedgerInv, SequencesGapless
    <2>3. \A s \in Seats, a \in Account :
            /\ snap'[s][a].cur \in Nat /\ snap[s][a].cur \in Nat
            /\ snap[s][a].cur =< snap'[s][a].cur
            /\ snap'[s][a].cur =< n
      <3> SUFFICES ASSUME NEW s \in Seats, NEW a \in Account
                   PROVE  /\ snap'[s][a].cur \in Nat /\ snap[s][a].cur \in Nat
                          /\ snap[s][a].cur =< snap'[s][a].cur
                          /\ snap'[s][a].cur =< n
        OBVIOUS
      <3>1. \A r \in rows : r.seq \in 1..n
        BY <2>2
      <3>2. snap[s][a].cur \in Nat /\ snap[s][a].cur =< n
        <4>1. snap[s][a].cur \in Nat
          BY DEF LedgerInv, TypeOK, Snapshot
        <4>2. snap[s][a].cur = 0 \/ \E r \in rows : r.seq = snap[s][a].cur
          BY DEF LedgerInv, CursorsBehind
        <4> QED  BY <3>1, <4>1, <4>2
      <3>3. CASE s \in job[p].seats /\ sbuf[p][a] # Null
        <4>1. snap'[s][a] = sbuf[p][a]
          BY <2>1, <3>3
        <4> QED  BY <3>1, <3>2, <3>3, <4>1 DEF LedgerInv, SettlementsRight
      <3>4. CASE ~ (s \in job[p].seats /\ sbuf[p][a] # Null)
        <4>1. snap'[s][a] = snap[s][a]
          BY <2>1, <3>4
        <4>2. n \in Nat /\ snap[s][a].cur =< snap[s][a].cur
          BY <3>2
        <4> QED  BY <3>2, <4>1, <4>2
      <3> QED  BY <3>3, <3>4
    <2>4. \A r \in rows \cup buf[p] : r.seq \in Nat /\ r.seat \in Seats /\ r.acct \in Account
      BY DEF LedgerInv, TypeOK, Row
    <2>5. \A r \in buf[p] : r.seq > n
      <3> TAKE r \in buf[p]
      <3>1. r.seq \in {q.seq : q \in buf[p]}
        OBVIOUS
      <3>2. r.seq \in (n + 1)..m
        BY <2>2, <3>1
      <3> QED  BY <3>2
    <2>6. \A r \in rows : Posted(r) => Posted(r)'
      BY <2>3, <2>4 DEF Posted
    <2>7. \A r \in buf[p] : ~Posted(r)'
      <3> SUFFICES \A r \in buf[p] : ~ (r.seq =< snap'[r.seat][r.acct].cur)
        BY Zenon DEF Posted
      <3> TAKE r \in buf[p]
      <3>1. snap'[r.seat][r.acct].cur \in Nat /\ snap'[r.seat][r.acct].cur =< n
        BY <2>3, <2>4
      <3>2. r.seq \in Nat /\ r.seq > n
        BY <2>4, <2>5
      <3> QED  BY <3>1, <3>2
    <2> QED  BY <2>1, <2>6, <2>7
  <1>2. CASE UNCHANGED <<rows, snap>>
    BY <1>2 DEF Posted
  <1>3. (\E p \in Procs : Commit(p)) \/ UNCHANGED <<rows, snap>>
    BY DEF Next, vars, Step, Submit, SweepStart, SweepNext, LockSeat, LockClass, Decide,
           Reserve, Write, Settle, Fail, EndWithout
  <1> QED  BY <1>1, <1>2, <1>3

(***************************************************************************)
(* INV-LED-002/007: the ledger is append-only and posting is one way: no   *)
(* step removes a row, takes a posted row back to pending, or creates a    *)
(* row that a cursor has already passed.                                   *)
(***************************************************************************)
THEOREM LedgerIsAppendOnly == Spec => AppendOnly
  <1>1. LedgerInv /\ [Next]_vars =>
          [ /\ rows \subseteq rows'
            /\ \A r \in rows : Posted(r) => Posted(r)'
            /\ \A r \in rows' \ rows : ~Posted(r)' ]_vars
    BY AppendOnlyStep
  <1> QED  BY <1>1, LedgerInvariant, PTL DEF Spec, AppendOnly

-----------------------------------------------------------------------------
(***************************************************************************)
(* Exactly once.  A key is reserved by one process at a time, and only     *)
(* while no reservation of it is accepted; the rows of a key are those of  *)
(* the process that holds it, committed together with the reservation.     *)
(***************************************************************************)

\* The process has inserted its reservation, or is settling.
Reserved(p) == Writing(p) \/ (pc[p] = "class" /\ ~ClassFirst(job[p]))

KeysReserved ==
  \A p \in Procs :
    /\ \A k \in Keys : resLock[k] = p => resv[k] = Null /\ k = job[p].key
    /\ job[p] \in Commands /\ Reserved(p) => resLock[job[p].key] = p

\* A seat's effects are planned for it, written all at once, and not forgotten.
PlansCarriedOut ==
  \A p \in Procs :
    /\ \A s \in Seats : \A i \in DOMAIN plan[p][s] : plan[p][s][i].seat = s
    /\ job[p] \in Commands /\ (pc[p] = "reserve" \/ Reserved(p)) =>
         \A s \in job[p].seats : plan[p][s] # <<>> \/ \E r \in buf[p] : r.seat = s
    /\ job[p] \in Commands /\ pc[p] = "commit" => \A s \in Seats : plan[p][s] = <<>>

BuffersUnique ==
  \A p \in Procs : \A r \in buf[p] :
    /\ job[p] \in Commands /\ r.key = job[p].key /\ plan[p][r.seat] = <<>>
    /\ \A q \in buf[p] : q.seat = r.seat /\ q.leg = r.leg => q = r

OnceInv == KeysReserved /\ PlansCarriedOut /\ BuffersUnique /\ ExactlyOnce

\* Commands carry keys and seats of the class.
LEMMA CommandFacts ==
  ASSUME NEW c \in Commands
  PROVE  /\ c.key \in Keys /\ c.seats \subseteq Seats /\ c.seats # {} /\ c # Null
         /\ c.kind \in Kinds /\ c.acct \in Account /\ c.amt \in Nat /\ c.type \in Types
         /\ c.kind # "charge" => \A s, t \in c.seats : s = t
  BY LedgerAssumption DEF Command

\* No process starts with a row, a plan or a reservation.
LEMMA OnceInit == Init => OnceInv
  <1> SUFFICES ASSUME Init PROVE OnceInv
    OBVIOUS
  <1>1. Null \notin Procs /\ Null \notin Commands
    BY LedgerAssumption DEF Procs
  <1> QED  BY <1>1 DEF Init, OnceInv, KeysReserved, PlansCarriedOut, BuffersUnique, ExactlyOnce,
              NoPlan

\* A step of one process that neither reserves, plans nor writes.
LEMMA OnceQuiet ==
  ASSUME LedgerInv, OnceInv, NEW p \in Procs,
         UNCHANGED <<rows, resv, resLock, plan, buf>>,
         \A q \in Procs : q # p => pc'[q] = pc[q] /\ job'[q] = job[q],
         \/ /\ pc[p] \in {"idle", "seat"} /\ pc'[p] \in {"seat", "class", "decide"}
            /\ pc'[p] = "class" => ClassFirst(job'[p])
         \/ /\ pc[p] = "class" /\ job'[p] = job[p]
            /\ pc'[p] = IF ClassFirst(job[p]) THEN "decide" ELSE "write"
  PROVE  OnceInv'
  <1> USE DEF OnceInv
  <1>1. CASE /\ pc[p] \in {"idle", "seat"} /\ pc'[p] \in {"seat", "class", "decide"}
             /\ pc'[p] = "class" => ClassFirst(job'[p])
    <2>1. buf[p] = {} /\ \A k \in Keys : resLock[k] # p
      BY <1>1 DEF LedgerInv, BuffersOwned, ReservationsOwned, Writing
    <2>2. ~Reserved(p)' /\ pc'[p] # "reserve" /\ pc'[p] # "commit"
      BY <1>1 DEF Reserved, Writing, ClassFirst
    <2>3. \A q \in Procs : q # p => (Reserved(q)' <=> Reserved(q))
      BY DEF Reserved, Writing, ClassFirst
    <2>4. KeysReserved'
      BY <2>1, <2>2, <2>3 DEF KeysReserved
    <2>5. PlansCarriedOut'
      BY <2>2, <2>3 DEF PlansCarriedOut
    <2>6. BuffersUnique'
      BY <2>1 DEF BuffersUnique
    <2> QED  BY <2>4, <2>5, <2>6 DEF ExactlyOnce
  <1>2. CASE /\ pc[p] = "class" /\ job'[p] = job[p]
             /\ pc'[p] = IF ClassFirst(job[p]) THEN "decide" ELSE "write"
    <2>1. \A q \in Procs : job'[q] = job[q] /\ (Reserved(q)' <=> Reserved(q))
      BY <1>2 DEF Reserved, Writing, ClassFirst
    <2>2. pc[p] # "reserve" /\ pc'[p] # "reserve" /\ pc[p] # "commit" /\ pc'[p] # "commit"
      BY <1>2
    <2>3. KeysReserved' /\ BuffersUnique'
      BY <2>1 DEF KeysReserved, BuffersUnique
    <2>4. PlansCarriedOut'
      BY <2>1, <2>2 DEF PlansCarriedOut
    <2> QED  BY <2>3, <2>4 DEF ExactlyOnce
  <1> QED  BY <1>1, <1>2

\* Ending a transaction without a commit forgets its plan and its rows.
LEMMA OnceEnd ==
  ASSUME LedgerInv, OnceInv, NEW p \in Procs, EndWithout(p)
  PROVE  OnceInv'
  <1> USE DEF OnceInv
  <1>1. Release(p) /\ UNCHANGED <<rows, resv>>
    BY DEF EndWithout
  <1>2. /\ \A q \in Procs : q # p =>
             /\ pc'[q] = pc[q] /\ job'[q] = job[q] /\ plan'[q] = plan[q] /\ buf'[q] = buf[q]
        /\ pc'[p] = "idle" /\ job'[p] = Null /\ plan'[p] = NoPlan /\ buf'[p] = {}
    BY <1>1 DEF Release, LedgerInv, TypeOK
  <1>3. \A k \in Keys, q \in Procs : resLock'[k] = q <=> q # p /\ resLock[k] = q
    BY <1>1, LedgerAssumption DEF Release, LedgerInv, TypeOK, Procs
  <1>4. /\ \A q \in Procs : q # p => (Reserved(q)' <=> Reserved(q))
        /\ ~Reserved(p)'
    BY <1>2 DEF Reserved, Writing, ClassFirst
  <1>5. KeysReserved'
    <2>1. \A c \in Commands : c.key \in Keys
      BY CommandFacts
    <2> QED  BY <1>1, <1>2, <1>3, <1>4, <2>1 DEF KeysReserved
  <1>6. PlansCarriedOut'
    BY <1>2, <1>4 DEF PlansCarriedOut, NoPlan
  <1>7. BuffersUnique'
    BY <1>2 DEF BuffersUnique
  <1> QED  BY <1>1, <1>5, <1>6, <1>7 DEF ExactlyOnce

\* Two effects before a third are three effects.
LEMMA ConcatTriple ==
  ASSUME NEW x, NEW y, NEW z
  PROVE  <<x, y>> \o <<z>> = <<x, y, z>>
  <1> DEFINE S == {x, y, z}
             f == <<x, y>> \o <<z>>
             g == <<x, y, z>>
  <1>1. <<x, y>> \in Seq(S) /\ <<z>> \in Seq(S)
    OBVIOUS
  <1>2. f \in Seq(S) /\ Len(f) = 3
    BY <1>1
  <1>3. f[1] = x /\ f[2] = y /\ f[3] = z
    BY <1>1
  <1>4. g \in Seq(S) /\ Len(g) = 3
    OBVIOUS
  <1>5. \A i \in 1..3 : f[i] = g[i]
    BY <1>3
  <1> HIDE DEF f, g
  <1>6. f = [i \in 1..3 |-> f[i]] /\ g = [i \in 1..3 |-> g[i]]
    BY <1>2, <1>4
  <1>7. f = g
    BY <1>5, <1>6
  <1> QED  BY <1>7 DEF f, g

\* An accepted command has at least one effect on each of its seats, for it.
LEMMA EffectsPlanned ==
  ASSUME LedgerInv, NEW p \in Procs, NEW c \in Commands, job[p] = c, NEW s \in c.seats
  PROVE  /\ EffectsFor(c, s) # <<>>
         /\ \A i \in DOMAIN EffectsFor(c, s) : EffectsFor(c, s)[i].seat = s
  <1>0. s \in Seats /\ c.kind \in Kinds
    BY CommandFacts
  <1>1. \A amt, a, type, of, comp :
          /\ ChargeEffects(s, amt, a, type, of, comp) # <<>>
          /\ \A i \in DOMAIN ChargeEffects(s, amt, a, type, of, comp) :
               ChargeEffects(s, amt, a, type, of, comp)[i].seat = s
    <2> TAKE amt, a, type, of, comp
    <2> DEFINE t == FundingTransfer(s, amt, a)
               e == Effect(s, a, -amt, type, of, comp)
               x == Effect(s, "savings", -t, "Withdrawal", 0, 0)
               y == Effect(s, Other("savings"), t, "Deposit", 0, 0)
    <2>1. e.seat = s /\ x.seat = s /\ y.seat = s
      BY DEF Effect
    <2>2. ChargeEffects(s, amt, a, type, of, comp) = IF t > 0 THEN <<x, y>> \o <<e>> ELSE <<e>>
      BY DEF ChargeEffects, TransferPair
    <2> HIDE DEF t, e, x, y
    <2>3. <<x, y>> \o <<e>> = <<x, y, e>>
      BY ConcatTriple
    <2>4. CASE t > 0
      BY <2>1, <2>2, <2>3, <2>4
    <2>5. CASE ~(t > 0)
      BY <2>1, <2>2, <2>5
    <2> QED  BY <2>4, <2>5
  <1>2. CASE c.kind = "credit"
    <2>1. EffectsFor(c, s) = <<Effect(s, c.acct, c.amt, c.type, 0, 0)>>
      BY <1>2 DEF EffectsFor
    <2> QED  BY <2>1 DEF Effect
  <1>3. CASE c.kind = "transfer"
    <2>1. EffectsFor(c, s) = << Effect(s, c.acct, -c.amt, "Withdrawal", 0, 0),
                                Effect(s, Other(c.acct), c.amt, "Deposit", 0, 0) >>
      BY <1>3 DEF EffectsFor, TransferPair
    <2> QED  BY <2>1 DEF Effect
  <1>4. CASE c.kind = "charge"
    <2>1. EffectsFor(c, s) = ChargeEffects(s, c.amt, "checking", c.type, 0, 0)
      BY <1>4 DEF EffectsFor
    <2> QED  BY <1>1, <2>1
  <1>5. CASE c.kind = "reverse"
    <2>1. EffectsFor(c, s) = ReversalEffects(Original(c))
      BY <1>5 DEF EffectsFor
    <2>2. Original(c) \in Originals(c)
      BY <1>5 DEF LedgerInv, JobsRun, Original
    <2>3. Original(c).seat = s
      BY <1>5, <2>2, CommandFacts DEF Originals
    <2> DEFINE o == Original(c)
    <2>4. ReversalEffects(o) =
            IF o.amt > 0 THEN ChargeEffects(s, o.amt, o.acct, "REVERSAL", o.seq, o.amt)
            ELSE <<Effect(s, o.acct, -o.amt, "REVERSAL", o.seq, 0)>>
      BY <2>3 DEF ReversalEffects
    <2> HIDE DEF o
    <2>5. CASE o.amt > 0
      BY <1>1, <2>1, <2>4, <2>5 DEF o
    <2>6. CASE ~(o.amt > 0)
      BY <2>1, <2>4, <2>6 DEF o, Effect
    <2> QED  BY <2>5, <2>6
  <1>6. CASE c.kind = "recover"
    <2>1. EffectsFor(c, s) = ChargeEffects(s, RecoveryCents(c), Original(c).acct,
                               "payroll_correction", Original(c).seq, RecoveryCents(c))
      BY <1>6 DEF EffectsFor
    <2> QED  BY <1>1, <2>1
  <1> QED  BY <1>0, <1>2, <1>3, <1>4, <1>5, <1>6 DEF Kinds

\* A decision plans an effect for each seat, before anything is reserved.
LEMMA OnceDecide ==
  ASSUME LedgerInv, OnceInv, NEW p \in Procs, Decide(p)
  PROVE  OnceInv'
  <1> USE DEF OnceInv
  <1>0. pc[p] = "decide" /\ job[p].kind # "settle"
    BY DEF Decide
  <1>1. job[p] \in Commands
    <2>1. job[p] # Null
      BY <1>0 DEF LedgerInv, JobsRun
    <2> QED  BY <1>0, <2>1, SettleJobFacts DEF LedgerInv, TypeOK
  <1>2. CASE EndWithout(p)
    BY <1>2, OnceEnd
  <1>3. CASE /\ plan' = [plan EXCEPT ![p] = [s \in Seats |->
                           IF s \in job[p].seats THEN EffectsFor(job[p], s) ELSE <<>>]]
             /\ Goto(p, "reserve")
             /\ UNCHANGED <<rows, resv, resLock, job, buf>>
    <2>1. /\ \A q \in Procs : q # p => pc'[q] = pc[q] /\ plan'[q] = plan[q]
          /\ pc'[p] = "reserve"
          /\ \A s \in Seats :
               plan'[p][s] = IF s \in job[p].seats THEN EffectsFor(job[p], s) ELSE <<>>
      BY <1>3 DEF Goto, LedgerInv, TypeOK
    <2>2. buf[p] = {} /\ \A k \in Keys : resLock[k] # p
      BY <1>0 DEF LedgerInv, BuffersOwned, ReservationsOwned, Writing
    <2>3. ~Reserved(p)' /\ \A q \in Procs : q # p => (Reserved(q)' <=> Reserved(q))
      BY <1>3, <2>1 DEF Reserved, Writing, ClassFirst
    <2>4. KeysReserved'
      BY <1>3, <2>2, <2>3 DEF KeysReserved
    <2>5. \A s \in job[p].seats :
            /\ EffectsFor(job[p], s) # <<>>
            /\ \A i \in DOMAIN EffectsFor(job[p], s) : EffectsFor(job[p], s)[i].seat = s
      BY <1>1, EffectsPlanned
    <2>6. job[p].seats \subseteq Seats
      BY <1>1, CommandFacts
    <2>7. \A s \in Seats : \A i \in DOMAIN plan'[p][s] : plan'[p][s][i].seat = s
      BY <2>1, <2>5
    <2>8. PlansCarriedOut'
      BY <1>3, <2>1, <2>3, <2>5, <2>6, <2>7 DEF PlansCarriedOut
    <2>9. BuffersUnique'
      BY <1>3, <2>1, <2>2 DEF BuffersUnique
    <2> QED  BY <1>3, <2>4, <2>8, <2>9 DEF ExactlyOnce
  <1> QED  BY <1>2, <1>3 DEF Decide

\* A key is reserved while no process holds it and none has committed it.
LEMMA OnceReserve ==
  ASSUME LedgerInv, OnceInv, NEW p \in Procs, Reserve(p)
  PROVE  OnceInv'
  <1> USE DEF OnceInv
  <1>0. pc[p] = "reserve"
    BY DEF Reserve
  <1>1. job[p] \in Commands /\ job[p].key \in Keys
    BY <1>0, CommandFacts DEF LedgerInv, JobsRun
  <1>2. CASE EndWithout(p)
    BY <1>2, OnceEnd
  <1>3. CASE /\ resv[job[p].key] = Null /\ resLock[job[p].key] = Null
             /\ resLock' = [resLock EXCEPT ![job[p].key] = p]
             /\ Goto(p, IF ClassFirst(job[p]) THEN "write" ELSE "class")
             /\ UNCHANGED <<rows, resv, job, plan, buf>>
    <2>1. /\ \A q \in Procs : q # p => pc'[q] = pc[q]
          /\ pc'[p] = IF ClassFirst(job[p]) THEN "write" ELSE "class"
          /\ \A k \in Keys : resLock'[k] = IF k = job[p].key THEN p ELSE resLock[k]
      BY <1>3 DEF Goto, LedgerInv, TypeOK
    <2>2. \A k \in Keys : resLock[k] # p
      BY <1>0 DEF LedgerInv, ReservationsOwned, Writing
    <2>3. Reserved(p)' /\ \A q \in Procs : q # p => (Reserved(q)' <=> Reserved(q))
      BY <1>3, <2>1 DEF Reserved, Writing, ClassFirst
    <2>4. \A q \in Procs : q # Null
      BY LedgerAssumption DEF Procs
    <2>5. KeysReserved'
      <3>1. \A q \in Procs, k \in Keys : resLock'[k] = q => resv'[k] = Null /\ k = job'[q].key
        BY <1>1, <1>3, <2>1 DEF KeysReserved
      <3>2. ASSUME NEW q \in Procs, job'[q] \in Commands, Reserved(q)'
            PROVE  resLock'[job'[q].key] = q
        <4>1. CASE q = p
          BY <1>1, <1>3, <2>1, <4>1
        <4>2. CASE q # p
          <5>1. resLock[job[q].key] = q /\ job[q].key \in Keys
            BY <1>3, <2>3, <3>2, <4>2, CommandFacts DEF KeysReserved
          <5> QED  BY <1>3, <2>1, <2>4, <5>1
        <4> QED  BY <4>1, <4>2
      <3> QED  BY <3>1, <3>2 DEF KeysReserved
    <2>6. PlansCarriedOut'
      BY <1>0, <1>3, <2>1, <2>3 DEF PlansCarriedOut
    <2>7. BuffersUnique'
      BY <1>3 DEF BuffersUnique
    <2> QED  BY <1>3, <2>5, <2>6, <2>7 DEF ExactlyOnce
  <1> QED  BY <1>2, <1>3 DEF Reserve

\* A seat's rows are written once, each with a leg of its own.
LEMMA OnceWrite ==
  ASSUME LedgerInv, OnceInv, NEW p \in Procs, Write(p)
  PROVE  OnceInv'
  <1> USE DEF OnceInv
  <1>0. PICK s \in SeatsToWrite(p) :
          /\ buf' = [buf EXCEPT ![p] = buf[p] \cup NewRows(p, s)]
          /\ plan' = [plan EXCEPT ![p][s] = <<>>]
          /\ pc' = [pc EXCEPT ![p] = IF SeatsToWrite(p) = {s} THEN "commit" ELSE "write"]
    BY DEF Write, Goto
  <1>1. pc[p] = "write" /\ UNCHANGED <<rows, resv, resLock, job>>
    BY DEF Write
  <1>2. job[p] \in Commands
    BY <1>1 DEF LedgerInv, JobsRun
  <1>3. s \in Seats /\ plan[p][s] # <<>> /\ plan[p][s] \in Seq(EffectType)
    BY DEF SeatsToWrite, LedgerInv, TypeOK
  <1>4. /\ \A q \in Procs : q # p => pc'[q] = pc[q] /\ buf'[q] = buf[q] /\ plan'[q] = plan[q]
        /\ pc'[p] = IF SeatsToWrite(p) = {s} THEN "commit" ELSE "write"
        /\ buf'[p] = buf[p] \cup NewRows(p, s)
        /\ \A t \in Seats : plan'[p][t] = IF t = s THEN <<>> ELSE plan[p][t]
    BY <1>0, <1>3 DEF LedgerInv, TypeOK
  <1>5. \A q \in Procs : Reserved(q)' <=> Reserved(q)
    BY <1>1, <1>4 DEF Reserved, Writing, ClassFirst
  <1>6. /\ \A r \in NewRows(p, s) : r.seat = s /\ r.key = job[p].key
        /\ \A q, r \in NewRows(p, s) : q.leg = r.leg => q = r
        /\ NewRows(p, s) # {}
    <2>1. \A i \in DOMAIN plan[p][s] : plan[p][s][i].seat = s
      BY <1>3 DEF PlansCarriedOut
    <2>2. Len(plan[p][s]) \in Nat /\ Len(plan[p][s]) # 0
      BY <1>3, EmptySeq
    <2>3. 1 \in DOMAIN plan[p][s]
      BY <1>3, <2>2
    <2> DEFINE row(i) == RowOf(plan[p][s][i], NextSequence(p) + i - 1, job[p].key, i)
    <2>4. \A i \in DOMAIN plan[p][s] :
            row(i).seat = s /\ row(i).key = job[p].key /\ row(i).leg = i
      BY <2>1 DEF RowOf
    <2>5. NewRows(p, s) = {row(i) : i \in DOMAIN plan[p][s]}
      BY DEF NewRows
    <2> HIDE DEF row
    <2>6. \A q, r \in NewRows(p, s) : q.leg = r.leg => q = r
      BY <2>4, <2>5
    <2> QED  BY <2>3, <2>4, <2>5, <2>6
  <1>7. KeysReserved'
    BY <1>1, <1>5 DEF KeysReserved
  <1>8. PlansCarriedOut'
    <2>1. \A t \in Seats : \A i \in DOMAIN plan'[p][t] : plan'[p][t][i].seat = t
      BY <1>4 DEF PlansCarriedOut
    <2>2. ASSUME NEW t \in job[p].seats
          PROVE  plan'[p][t] # <<>> \/ \E r \in buf'[p] : r.seat = t
      <3>1. t \in Seats
        BY <1>2, CommandFacts
      <3>2. CASE t = s
        BY <1>4, <1>6, <3>2
      <3>3. CASE t # s
        <4>1. plan[p][t] # <<>> \/ \E r \in buf[p] : r.seat = t
          BY <1>1, <1>2 DEF PlansCarriedOut, Reserved, Writing
        <4> QED  BY <1>4, <3>1, <3>3, <4>1
      <3> QED  BY <3>2, <3>3
    <2>3. pc'[p] = "commit" => \A t \in Seats : plan'[p][t] = <<>>
      BY <1>4 DEF SeatsToWrite
    <2> QED  BY <1>1, <1>4, <1>5, <2>1, <2>2, <2>3 DEF PlansCarriedOut
  <1>9. BuffersUnique'
    <2>1. \A r \in buf[p] : r.seat # s /\ r.seat \in Seats
      BY <1>3 DEF BuffersUnique, LedgerInv, TypeOK, Row
    <2>2. ASSUME NEW r \in buf'[p]
          PROVE  /\ job'[p] \in Commands /\ r.key = job'[p].key /\ plan'[p][r.seat] = <<>>
                 /\ \A q \in buf'[p] : q.seat = r.seat /\ q.leg = r.leg => q = r
      <3>1. CASE r \in buf[p]
        BY <1>1, <1>4, <1>6, <2>1, <3>1 DEF BuffersUnique
      <3>2. CASE r \in NewRows(p, s)
        BY <1>1, <1>2, <1>3, <1>4, <1>6, <2>1, <3>2
      <3> QED  BY <1>4, <2>2, <3>1, <3>2
    <2> QED  BY <1>1, <1>4, <2>2 DEF BuffersUnique
  <1> QED  BY <1>1, <1>7, <1>8, <1>9 DEF ExactlyOnce

\* A commit accepts the reservation it holds and no other, with rows on every
\* seat of the command and none of a key that has rows already.
LEMMA OnceCommit ==
  ASSUME LedgerInv, OnceInv, NEW p \in Procs, Commit(p)
  PROVE  OnceInv'
  <1> USE DEF OnceInv
  <1>0. /\ pc[p] = "commit" /\ rows' = rows \cup buf[p] /\ Release(p)
        /\ resv' = [k \in Keys |-> IF resLock[k] = p THEN job[p] ELSE resv[k]]
    BY DEF Commit
  <1>2. /\ \A q \in Procs : q # p =>
             /\ pc'[q] = pc[q] /\ job'[q] = job[q] /\ plan'[q] = plan[q] /\ buf'[q] = buf[q]
        /\ pc'[p] = "idle" /\ job'[p] = Null /\ plan'[p] = NoPlan /\ buf'[p] = {}
    BY <1>0 DEF Release, LedgerInv, TypeOK
  <1>3. \A k \in Keys, q \in Procs : resLock'[k] = q <=> q # p /\ resLock[k] = q
    BY <1>0, LedgerAssumption DEF Release, LedgerInv, TypeOK, Procs
  <1>4. /\ \A q \in Procs : q # p => (Reserved(q)' <=> Reserved(q))
        /\ ~Reserved(p)'
    BY <1>2 DEF Reserved, Writing, ClassFirst
  <1>5. KeysReserved'
    BY <1>0, <1>2, <1>3, <1>4, CommandFacts DEF KeysReserved
  <1>6. PlansCarriedOut'
    BY <1>2, <1>4 DEF PlansCarriedOut, NoPlan
  <1>7. BuffersUnique'
    BY <1>2 DEF BuffersUnique
  <1>8. \A r \in rows \cup buf[p] : r.key \in Keys
    BY DEF LedgerInv, TypeOK, Row
  <1>9. ASSUME NEW r \in buf[p]
        PROVE  /\ job[p] \in Commands /\ r.key = job[p].key /\ job[p] # Null
               /\ resLock[r.key] = p /\ resv[r.key] = Null
    <2>1. job[p] \in Commands /\ r.key = job[p].key
      BY DEF BuffersUnique
    <2>2. resLock[r.key] = p
      BY <1>0, <2>1 DEF KeysReserved, Reserved, Writing
    <2> QED  BY <1>8, <2>1, <2>2, CommandFacts DEF KeysReserved
  <1>10. \A q, r \in rows' : q.key = r.key /\ q.seat = r.seat /\ q.leg = r.leg => q = r
    <2>1. \A q \in rows, r \in buf[p] : q.key # r.key
      BY <1>9 DEF ExactlyOnce
    <2>2. \A q, r \in buf[p] : q.seat = r.seat /\ q.leg = r.leg => q = r
      BY DEF BuffersUnique
    <2> QED  BY <1>0, <2>1, <2>2 DEF ExactlyOnce
  <1>11. \A r \in rows' : resv'[r.key] # Null
    BY <1>0, <1>8, <1>9 DEF ExactlyOnce, LedgerInv, JobsRun
  <1>12. ASSUME NEW k \in Keys, resv'[k] # Null, NEW s \in resv'[k].seats
         PROVE  \E r \in rows' : r.key = k /\ r.seat = s
    <2>1. CASE resLock[k] = p
      <3>1. resv'[k] = job[p] /\ job[p] \in Commands /\ k = job[p].key
        BY <1>0, <2>1 DEF LedgerInv, ReservationsOwned, KeysReserved
      <3>2. s \in Seats
        BY <1>12, <3>1, CommandFacts
      <3>3. \E r \in buf[p] : r.seat = s
        BY <1>0, <1>12, <3>1, <3>2 DEF PlansCarriedOut, Reserved, Writing
      <3> QED  BY <1>0, <1>9, <3>1, <3>3
    <2>2. CASE resLock[k] # p
      BY <1>0, <1>12, <2>2 DEF ExactlyOnce
    <2> QED  BY <2>1, <2>2
  <1>13. ExactlyOnce'
    BY <1>10, <1>11, <1>12 DEF ExactlyOnce
  <1> QED  BY <1>5, <1>6, <1>7, <1>13

\* The parts of OnceInv are kept by every step.
LEMMA OnceNext ==
  ASSUME LedgerInv, OnceInv, [Next]_vars
  PROVE  OnceInv'
  <1>1. ASSUME NEW w \in Workers, NEW c \in Commands, Submit(w, c) PROVE OnceInv'
    <2>1. w \in Procs /\ pc[w] = "idle" /\ pc'[w] = "seat"
      BY <1>1 DEF Submit, Goto, Procs, LedgerInv, TypeOK
    <2>2. /\ UNCHANGED <<rows, resv, resLock, plan, buf>>
          /\ \A q \in Procs : q # w => pc'[q] = pc[q] /\ job'[q] = job[q]
      BY <1>1, <2>1 DEF Submit, Goto, LedgerInv, TypeOK
    <2> QED  BY <2>1, <2>2, OnceQuiet
  <1>2. CASE SweepStart
    <2>1. UNCHANGED <<rows, resv, resLock, plan, buf, pc, job>>
      BY <1>2 DEF SweepStart
    <2> QED  BY <2>1 DEF OnceInv, KeysReserved, PlansCarriedOut, BuffersUnique, ExactlyOnce,
                         Reserved, Writing, ClassFirst
  <1>3. CASE SweepNext
    <2>1. Sweeper \in Procs /\ pc[Sweeper] = "idle" /\ pc'[Sweeper] = "seat"
      BY <1>3 DEF SweepNext, Goto, Procs, LedgerInv, TypeOK
    <2>2. /\ UNCHANGED <<rows, resv, resLock, plan, buf>>
          /\ \A q \in Procs : q # Sweeper => pc'[q] = pc[q] /\ job'[q] = job[q]
      BY <1>3, <2>1 DEF SweepNext, Goto, LedgerInv, TypeOK
    <2> QED  BY <2>1, <2>2, OnceQuiet
  <1>4. ASSUME NEW p \in Procs, LockSeat(p) PROVE OnceInv'
    <2>1. /\ UNCHANGED <<rows, resv, resLock, plan, buf, job>>
          /\ \A q \in Procs : q # p => pc'[q] = pc[q]
          /\ pc[p] = "seat" /\ pc'[p] \in {"seat", "class", "decide"}
          /\ pc'[p] = "class" => ClassFirst(job'[p])
      BY <1>4 DEF LockSeat, Goto, LedgerInv, TypeOK, ClassFirst
    <2> QED  BY <2>1, OnceQuiet
  <1>5. ASSUME NEW p \in Procs, LockClass(p) PROVE OnceInv'
    <2>1. /\ UNCHANGED <<rows, resv, resLock, plan, buf, job>>
          /\ \A q \in Procs : q # p => pc'[q] = pc[q]
          /\ pc[p] = "class" /\ pc'[p] = IF ClassFirst(job[p]) THEN "decide" ELSE "write"
      BY <1>5 DEF LockClass, Goto, LedgerInv, TypeOK
    <2> QED  BY <2>1, OnceQuiet
  <1>6. ASSUME NEW p \in Procs, Settle(p) PROVE OnceInv'
    <2>1. CASE EndWithout(p)
      BY <2>1, OnceEnd
    <2>2. CASE /\ pc[p] = "decide" /\ job[p].kind = "settle" /\ Goto(p, "commit")
               /\ UNCHANGED <<rows, resv, resLock, plan, buf, job>>
      <3>1. (\A q \in Procs : q # p => pc'[q] = pc[q]) /\ pc'[p] = "commit"
        BY <2>2 DEF Goto, LedgerInv, TypeOK
      <3>2. job[p] \notin Commands
        BY <2>2, LedgerAssumption DEF Command, Kinds
      <3>3. \A q \in Procs : q # p => (Reserved(q)' <=> Reserved(q))
        BY <2>2, <3>1 DEF Reserved, Writing, ClassFirst
      <3> QED  BY <2>2, <3>1, <3>2, <3>3 DEF OnceInv, KeysReserved, PlansCarriedOut,
                                             BuffersUnique, ExactlyOnce
    <2> QED  BY <1>6, <2>1, <2>2 DEF Settle
  <1>7. ASSUME NEW p \in Procs, Step(p) \/ Fail(p) PROVE OnceInv'
    BY <1>4, <1>5, <1>6, <1>7, OnceDecide, OnceReserve, OnceWrite, OnceCommit, OnceEnd
       DEF Step, Fail
  <1>8. CASE UNCHANGED vars
    BY <1>8 DEF vars, OnceInv, KeysReserved, PlansCarriedOut, BuffersUnique, ExactlyOnce,
                Reserved, Writing, ClassFirst
  <1> QED  BY <1>1, <1>2, <1>3, <1>7, <1>8 DEF Next

\* OnceInv holds in every reachable state.
LEMMA OnceInvariant == Spec => []OnceInv
  <1>1. LedgerInv /\ OnceInv /\ [Next]_vars => OnceInv'
    BY OnceNext
  <1> QED  BY <1>1, OnceInit, LedgerInvariant, PTL DEF Spec

(***************************************************************************)
(* INV-LED-005: create_reserved_effects writes a key's effects once.  Two  *)
(* attempts under one key, retried or concurrent, never both write; every  *)
(* row belongs to an accepted reservation, and every accepted reservation  *)
(* has committed effects on each seat it names.                            *)
(***************************************************************************)
THEOREM EffectsExactlyOnce == Spec => []ExactlyOnce
  <1>1. OnceInv => ExactlyOnce
    BY DEF OnceInv
  <1> QED  BY <1>1, OnceInvariant, PTL

-----------------------------------------------------------------------------
(***************************************************************************)
(* Compensation.  What a correction decides under its seat's lock is still *)
(* true when its row is committed: no other process holds the seat of the  *)
(* corrected row, so none can commit a correction of it in between.        *)
(***************************************************************************)

\* From the seats on, a process holds FOR UPDATE the seats of its command.
SeatsHeld ==
  \A p \in Procs :
    pc[p] \in {"class", "decide", "reserve", "write", "commit"} =>
      \A s \in job[p].seats : seatLock[s] = p

\* Effects are planned for the seats of a command, until they are written.
PlansOwned ==
  \A p \in Procs, s \in Seats :
    plan[p][s] # <<>> =>
      /\ pc[p] \in {"reserve", "write"} \/ (pc[p] = "class" /\ ~ClassFirst(job[p]))
      /\ job[p] \in Commands /\ s \in job[p].seats

\* An effect e of process p that corrects a row leaves it within its amount.
Correcting(p, e) ==
  LET o == Original(job[p]) IN
  /\ job[p] \in Commands /\ job[p].kind \in {"reverse", "recover"}
  /\ e.of = o.seq
  /\ o.amt > 0 => RecoveredCents(o.seq) + e.comp =< o.amt
  /\ e.type = "REVERSAL" => ExactReversals(o) = {}

\* A process has at most one correcting effect, planned or written.
CorrectionsFit ==
  \A p \in Procs :
    /\ \A s \in Seats : \A i, j \in DOMAIN plan[p][s] :
         plan[p][s][i].of # 0 =>
           /\ Correcting(p, plan[p][s][i])
           /\ plan[p][s][j].of # 0 => i = j
    /\ \A r \in buf[p] :
         /\ r.seat \in job[p].seats
         /\ r.of # 0 => Correcting(p, r) /\ \A q \in buf[p] : q.of # 0 => q = r

\* Rows are identified by their sequence, and correct rows that exist.
RowsIdentified ==
  /\ \A q, r \in rows : q.seq = r.seq => q = r
  /\ \A r \in rows : r.of # 0 => \E o \in rows : o.seq = r.of
  /\ IsFiniteSet(rows)
  /\ \A p \in Procs :
       /\ \A q, r \in buf[p] : q.seq = r.seq => q = r
       /\ IsFiniteSet(buf[p])

CapInv == SeatsHeld /\ PlansOwned /\ CorrectionsFit /\ RowsIdentified /\ CompensationCapped

\* What is recovered is the total of the compensations that name the row.
LEMMA RecoveredIsTotal ==
  ASSUME rows \subseteq Row, IsFiniteSet(rows), NEW q
  PROVE  RecoveredCents(q) = Total(CompensationOf, {r \in rows : r.of = q})
  <1> DEFINE S == {r \in rows : r.of = q}
  <1>1. S \in SUBSET rows /\ S \in SUBSET Row
    OBVIOUS
  <1>2. IsFiniteSet(S)
    BY <1>1, FS_Subset
  <1>3. \A x \in S : CompensationOf[x] \in Nat
    BY <1>1 DEF CompensationOf, Row
  <1>4. RecoveredCents(q) = IF TotalCompensation(S) \in Nat THEN TotalCompensation(S) ELSE 0
    BY DEF RecoveredCents
  <1> HIDE DEF S
  <1>5. TotalCompensation(S) = Total(CompensationOf, S) /\ Total(CompensationOf, S) \in Nat
    BY <1>1, <1>2, <1>3, TotalCompensationFacts, TotalNat
  <1>6. RecoveredCents(q) = Total(CompensationOf, S)
    BY <1>4, <1>5
  <1> QED  BY <1>6 DEF S

\* The row a job corrects does not change while other rows are committed: a key
\* that has rows is never reserved again.
LEMMA OriginalStays ==
  ASSUME LedgerInv, OnceInv, NEW p \in Procs, Commit(p), NEW c, Originals(c) # {}
  PROVE  Originals(c)' = Originals(c) /\ Original(c)' = Original(c)
  <1>0. pc[p] = "commit" /\ rows' = rows \cup buf[p]
    BY DEF Commit
  <1>1. PICK o \in rows : o.key = c.of /\ resv[c.of] # Null
    BY DEF Originals, OnceInv, ExactlyOnce
  <1>2. \A r \in buf[p] : r.key # c.of
    <2> SUFFICES ASSUME NEW r \in buf[p] PROVE r.key # c.of
      OBVIOUS
    <2>1. job[p] \in Commands /\ r.key = job[p].key
      BY DEF OnceInv, BuffersUnique
    <2>2. resLock[r.key] = p /\ r.key \in Keys
      BY <1>0, <2>1, CommandFacts DEF OnceInv, KeysReserved, Reserved, Writing
    <2> QED  BY <1>1, <2>2 DEF OnceInv, KeysReserved
  <1>3. Originals(c)' = Originals(c)
    BY <1>0, <1>2 DEF Originals
  <1> QED  BY <1>3 DEF Original

\* What Correcting says of a process depends on its job and on the rows.
LEMMA CorrectingStays ==
  ASSUME NEW p \in Procs, UNCHANGED rows, job'[p] = job[p], NEW e, Correcting(p, e)
  PROVE  Correcting(p, e)'
  BY DEF Correcting, Original, Originals, ExactReversals, RecoveredCents

\* CorrectionsFit in the next state, effect by effect.
LEMMA CorrectionsFitNext ==
  ASSUME \A q \in Procs, s \in Seats : \A i, j \in DOMAIN plan'[q][s] :
           \A e : e = plan'[q][s][i] /\ e.of # 0 =>
             /\ Correcting(q, e)'
             /\ plan'[q][s][j].of # 0 => i = j,
         \A q \in Procs : \A r \in buf'[q] :
           /\ r.seat \in job'[q].seats
           /\ r.of # 0 => Correcting(q, r)' /\ \A x \in buf'[q] : x.of # 0 => x = r
  PROVE  CorrectionsFit'
  <1>1. ASSUME NEW q \in Procs, NEW s \in Seats, NEW i \in DOMAIN plan'[q][s],
               NEW j \in DOMAIN plan'[q][s], plan'[q][s][i].of # 0
        PROVE  /\ Correcting(q, plan[q][s][i])'
               /\ plan'[q][s][j].of # 0 => i = j
    <2>1. PICK e : e = plan'[q][s][i]
      OBVIOUS
    <2>2. Correcting(q, e)' /\ (plan'[q][s][j].of # 0 => i = j)
      BY <1>1, <2>1
    <2> QED  BY <2>1, <2>2 DEF Correcting
  <1> QED  BY <1>1 DEF CorrectionsFit

\* The empty ledger holds no correction.
LEMMA CapInit == Init => CapInv
  <1> SUFFICES ASSUME Init PROVE CapInv
    OBVIOUS
  <1>1. SeatsHeld /\ PlansOwned
    BY DEF Init, SeatsHeld, PlansOwned, NoPlan
  <1>2. CorrectionsFit
    BY DEF Init, CorrectionsFit, NoPlan
  <1>3. RowsIdentified /\ CompensationCapped
    BY FS_EmptySet DEF Init, RowsIdentified, CompensationCapped
  <1> QED  BY <1>1, <1>2, <1>3 DEF CapInv

\* A step that leaves jobs, plans and rows alone.
LEMMA CapStill ==
  ASSUME CapInv, UNCHANGED <<rows, plan, buf, job>>, SeatsHeld', PlansOwned'
  PROVE  CapInv'
  <1>1. CorrectionsFit'
    <2>1. \A q \in Procs : \A e : Correcting(q, e) => Correcting(q, e)'
      BY CorrectingStays
    <2> QED  BY <2>1, CorrectionsFitNext DEF CapInv, CorrectionsFit
  <1> QED  BY <1>1 DEF CapInv, RowsIdentified, CompensationCapped, RecoveredCents, ExactReversals

\* A step of one process that neither plans nor writes, and keeps its seats.
LEMMA CapQuiet ==
  ASSUME LedgerInv, CapInv, NEW p \in Procs,
         UNCHANGED <<rows, plan, buf>>,
         \A q \in Procs : q # p => pc'[q] = pc[q] /\ job'[q] = job[q],
         \/ pc[p] \in {"idle", "seat"} /\ pc'[p] \in {"seat", "class", "decide"}
         \/ /\ pc[p] \in {"class", "reserve"} /\ job'[p] = job[p]
            /\ pc'[p] \in {"class", "decide", "write"}
            /\ pc'[p] = "decide" => ClassFirst(job[p]) /\ pc[p] = "class",
         SeatsHeld', PlansOwned'
  PROVE  CapInv'
  <1> USE DEF CapInv
  <1>1. \A q \in Procs : job'[q] = job[q] \/ (buf[q] = {} /\ \A s \in Seats : plan[q][s] = <<>>)
    BY DEF LedgerInv, BuffersOwned, Writing, PlansOwned
  <1>2. CorrectionsFit'
    <2>1. ASSUME NEW q \in Procs, job'[q] = job[q], NEW e, Correcting(q, e)
          PROVE  Correcting(q, e)'
      BY <2>1, CorrectingStays
    <2>2. ASSUME NEW q \in Procs, NEW s \in Seats, NEW i \in DOMAIN plan'[q][s],
                 NEW j \in DOMAIN plan'[q][s], plan'[q][s][i].of # 0
          PROVE  /\ Correcting(q, plan[q][s][i])'
                 /\ plan'[q][s][j].of # 0 => i = j
      <3>1. job'[q] = job[q]
        BY <1>1, <2>2
      <3>2. Correcting(q, plan[q][s][i]) /\ (plan[q][s][j].of # 0 => i = j)
        BY <2>2 DEF CorrectionsFit
      <3> QED  BY <2>1, <3>1, <3>2 DEF Correcting
    <2>3. ASSUME NEW q \in Procs, NEW r \in buf'[q]
          PROVE  /\ r.seat \in job'[q].seats
                 /\ r.of # 0 => Correcting(q, r)' /\ \A x \in buf'[q] : x.of # 0 => x = r
      <3>1. job'[q] = job[q] /\ r \in buf[q]
        BY <1>1, <2>3
      <3> QED  BY <2>1, <3>1 DEF CorrectionsFit
    <2> QED  BY <2>2, <2>3 DEF CorrectionsFit
  <1>3. RowsIdentified'
    BY DEF RowsIdentified
  <1>4. CompensationCapped'
    BY DEF CompensationCapped, RecoveredCents, ExactReversals
  <1> QED  BY <1>2, <1>3, <1>4

\* The end of a transaction leaves other processes their seats and plans.
LEMMA CapRelease ==
  ASSUME LedgerInv, CapInv, NEW p \in Procs, Release(p)
  PROVE  SeatsHeld' /\ PlansOwned'
  <1> USE DEF CapInv
  <1>1. /\ \A q \in Procs : q # p =>
             /\ pc'[q] = pc[q] /\ job'[q] = job[q] /\ plan'[q] = plan[q]
        /\ pc'[p] = "idle" /\ \A s \in Seats : plan'[p][s] = <<>>
        /\ \A s \in Seats : seatLock[s] # p => seatLock'[s] = seatLock[s]
    BY DEF Release, LedgerInv, TypeOK, NoPlan
  <1>2. \A q \in Procs : pc[q] # "idle" => job[q].seats \subseteq Seats
    <2> SUFFICES ASSUME NEW q \in Procs, pc[q] # "idle" PROVE job[q].seats \subseteq Seats
      OBVIOUS
    <2>1. job[q] \in Commands \/ \E s \in Seats : job[q] = SettleJob(s)
      BY DEF LedgerInv, TypeOK, JobsRun
    <2>2. \A c \in Commands : c.seats \subseteq Seats
      BY CommandFacts
    <2>3. \A s \in Seats : SettleJob(s).seats = {s}
      BY SettleJobFacts
    <2> QED  BY <2>1, <2>2, <2>3
  <1>3. SeatsHeld'
    BY <1>1, <1>2 DEF SeatsHeld
  <1>4. PlansOwned'
    BY <1>1 DEF PlansOwned
  <1> QED  BY <1>3, <1>4

\* A rollback, a refusal or a replay corrects nothing.
LEMMA CapEnd ==
  ASSUME LedgerInv, CapInv, NEW p \in Procs, EndWithout(p)
  PROVE  CapInv'
  <1> USE DEF CapInv
  <1>1. Release(p) /\ rows' = rows
    BY DEF EndWithout
  <1>2. /\ \A q \in Procs : q # p => job'[q] = job[q] /\ plan'[q] = plan[q] /\ buf'[q] = buf[q]
        /\ \A s \in Seats : plan'[p][s] = <<>>
        /\ buf'[p] = {}
    BY <1>1 DEF Release, LedgerInv, TypeOK, NoPlan
  <1>3. CorrectionsFit'
    <2>1. ASSUME NEW q \in Procs, q # p, NEW e, Correcting(q, e)
          PROVE  Correcting(q, e)'
      BY <1>1, <1>2, <2>1, CorrectingStays
    <2>2. ASSUME NEW q \in Procs, NEW s \in Seats, NEW i \in DOMAIN plan'[q][s],
                 NEW j \in DOMAIN plan'[q][s], NEW e, e = plan'[q][s][i], e.of # 0
          PROVE  /\ Correcting(q, e)'
                 /\ plan'[q][s][j].of # 0 => i = j
      <3>1. q # p /\ plan'[q] = plan[q]
        BY <1>2, <2>2
      <3>2. Correcting(q, e) /\ (plan[q][s][j].of # 0 => i = j)
        BY <2>2, <3>1 DEF CorrectionsFit
      <3> QED  BY <2>1, <3>1, <3>2
    <2>3. ASSUME NEW q \in Procs, NEW r \in buf'[q]
          PROVE  /\ r.seat \in job'[q].seats
                 /\ r.of # 0 => Correcting(q, r)' /\ \A x \in buf'[q] : x.of # 0 => x = r
      <3>1. q # p /\ job'[q] = job[q] /\ buf'[q] = buf[q] /\ r \in buf[q]
        BY <1>2, <2>3
      <3> QED  BY <2>1, <3>1 DEF CorrectionsFit
    <2> QED  BY <2>2, <2>3, CorrectionsFitNext
  <1>4. RowsIdentified'
    BY <1>1, <1>2, FS_EmptySet DEF RowsIdentified
  <1>5. CompensationCapped'
    BY <1>1 DEF CompensationCapped, RecoveredCents, ExactReversals
  <1> QED  BY <1>1, <1>3, <1>4, <1>5, CapRelease

\* A charge has one principal, and only it can correct a row.
LEMMA ChargeCorrects ==
  ASSUME NEW s, NEW amt, NEW a, NEW type, NEW of, NEW comp,
         NEW i \in DOMAIN ChargeEffects(s, amt, a, type, of, comp),
         NEW j \in DOMAIN ChargeEffects(s, amt, a, type, of, comp),
         ChargeEffects(s, amt, a, type, of, comp)[i].of # 0
  PROVE  /\ ChargeEffects(s, amt, a, type, of, comp)[i] = Effect(s, a, -amt, type, of, comp)
         /\ ChargeEffects(s, amt, a, type, of, comp)[j].of # 0 => i = j
  <1> DEFINE t == FundingTransfer(s, amt, a)
             e == Effect(s, a, -amt, type, of, comp)
             x == Effect(s, "savings", -t, "Withdrawal", 0, 0)
             y == Effect(s, Other("savings"), t, "Deposit", 0, 0)
             c == ChargeEffects(s, amt, a, type, of, comp)
  <1>1. x.of = 0 /\ y.of = 0
    BY DEF Effect
  <1>2. c = IF t > 0 THEN <<x, y>> \o <<e>> ELSE <<e>>
    BY DEF ChargeEffects, TransferPair
  <1>3. <<x, y>> \o <<e>> = <<x, y, e>>
    BY ConcatTriple
  <1>4. i \in DOMAIN c /\ j \in DOMAIN c /\ c[i].of # 0
    OBVIOUS
  <1> HIDE DEF t, e, x, y, c
  <1>5. CASE t > 0
    <2>1. c = <<x, y, e>>
      BY <1>2, <1>3, <1>5
    <2>2. DOMAIN c = {1, 2, 3}
      BY <2>1
    <2>3. i = 3
      BY <1>1, <1>4, <2>1, <2>2
    <2>4. c[j].of # 0 => j = 3
      BY <1>1, <1>4, <2>1, <2>2
    <2>5. c[i] = e /\ (c[j].of # 0 => i = j)
      BY <2>1, <2>3, <2>4
    <2> QED  BY <2>5 DEF c, e
  <1>6. CASE ~(t > 0)
    <2>1. c = <<e>>
      BY <1>2, <1>6
    <2>2. DOMAIN c = {1}
      BY <2>1
    <2>3. c[i] = e /\ (c[j].of # 0 => i = j)
      BY <1>4, <2>1, <2>2
    <2> QED  BY <2>3 DEF c, e
  <1> QED  BY <1>5, <1>6

\* What a correction decides fits in what is left of the row it corrects.
LEMMA CorrectionDecided ==
  ASSUME LedgerInv, NEW p \in Procs, NEW c \in Commands, job[p] = c, ~Refused(p),
         NEW s \in c.seats, NEW i \in DOMAIN EffectsFor(c, s),
         NEW j \in DOMAIN EffectsFor(c, s), EffectsFor(c, s)[i].of # 0
  PROVE  /\ Correcting(p, EffectsFor(c, s)[i])
         /\ EffectsFor(c, s)[j].of # 0 => i = j
  <1>0. c.kind \in Kinds
    BY CommandFacts
  <1>1. CASE c.kind = "credit"
    <2>1. EffectsFor(c, s) = <<Effect(s, c.acct, c.amt, c.type, 0, 0)>>
      BY <1>1 DEF EffectsFor
    <2> QED  BY <2>1 DEF Effect
  <1>2. CASE c.kind = "transfer"
    <2>1. EffectsFor(c, s) = << Effect(s, c.acct, -c.amt, "Withdrawal", 0, 0),
                                Effect(s, Other(c.acct), c.amt, "Deposit", 0, 0) >>
      BY <1>2 DEF EffectsFor, TransferPair
    <2> QED  BY <2>1 DEF Effect
  <1>3. CASE c.kind = "charge"
    <2>1. EffectsFor(c, s) = ChargeEffects(s, c.amt, "checking", c.type, 0, 0)
      BY <1>3 DEF EffectsFor
    <2>2. EffectsFor(c, s)[i] = Effect(s, "checking", -c.amt, c.type, 0, 0)
      BY <2>1, ChargeCorrects
    <2> QED  BY <2>2 DEF Effect
  <1> DEFINE o == Original(c)
  <1>4. CASE c.kind = "reverse"
    <2>1. EffectsFor(c, s) = ReversalEffects(o)
      BY <1>4 DEF EffectsFor
    <2>2. o.seq \in Nat /\ o.amt \in Int
      BY <1>4, OriginalFacts DEF LedgerInv, JobsRun
    <2>3. ExactReversals(o) = {} /\ (o.amt > 0 => RecoveredCents(o.seq) = 0)
      BY <1>4, RecoveredFacts DEF Refused, Unreversible
    <2>4. ReversalEffects(o) =
            IF o.amt > 0 THEN ChargeEffects(o.seat, o.amt, o.acct, "REVERSAL", o.seq, o.amt)
            ELSE <<Effect(o.seat, o.acct, -o.amt, "REVERSAL", o.seq, 0)>>
      BY DEF ReversalEffects
    <2> HIDE DEF o
    <2>5. CASE o.amt > 0
      <3>1. EffectsFor(c, s) = ChargeEffects(o.seat, o.amt, o.acct, "REVERSAL", o.seq, o.amt)
        BY <2>1, <2>4, <2>5
      <3>2. /\ EffectsFor(c, s)[i] = Effect(o.seat, o.acct, -o.amt, "REVERSAL", o.seq, o.amt)
            /\ EffectsFor(c, s)[j].of # 0 => i = j
        BY <3>1, ChargeCorrects
      <3>3. EffectsFor(c, s)[i].of = o.seq /\ EffectsFor(c, s)[i].comp = o.amt
        BY <3>2 DEF Effect
      <3> QED  BY <1>4, <2>2, <2>3, <2>5, <3>2, <3>3 DEF Correcting, o
    <2>6. CASE ~(o.amt > 0)
      <3>1. EffectsFor(c, s) = <<Effect(o.seat, o.acct, -o.amt, "REVERSAL", o.seq, 0)>>
        BY <2>1, <2>4, <2>6
      <3>2. i = 1 /\ j = 1 /\ EffectsFor(c, s)[1].of = o.seq
        BY <3>1 DEF Effect
      <3> QED  BY <1>4, <2>3, <2>6, <3>2 DEF Correcting, o
    <2> QED  BY <2>5, <2>6
  <1>5. CASE c.kind = "recover"
    <2>1. EffectsFor(c, s) = ChargeEffects(s, RecoveryCents(c), o.acct, "payroll_correction",
                               o.seq, RecoveryCents(c))
      BY <1>5 DEF EffectsFor
    <2>2. /\ EffectsFor(c, s)[i] = Effect(s, o.acct, -RecoveryCents(c), "payroll_correction",
                                     o.seq, RecoveryCents(c))
          /\ EffectsFor(c, s)[j].of # 0 => i = j
      BY <2>1, ChargeCorrects
    <2>3. /\ EffectsFor(c, s)[i].of = o.seq /\ EffectsFor(c, s)[i].comp = RecoveryCents(c)
          /\ EffectsFor(c, s)[i].type = "payroll_correction"
      BY <2>2 DEF Effect
    <2>4. o.amt \in Int /\ c.amt \in Nat /\ RecoveredCents(o.seq) \in Nat
      BY <1>5, OriginalFacts, CommandFacts, RecoveredFacts DEF LedgerInv, JobsRun
    <2>5. ~ (RecoveryCents(c) > o.amt - RecoveredCents(o.seq)) /\ RecoveryCents(c) \in Int
      BY <1>5, <2>4 DEF Refused, OverRecovers, RecoveryCents
    <2> HIDE DEF o
    <2> QED  BY <1>5, <2>2, <2>3, <2>4, <2>5 DEF Correcting, o
  <1> QED  BY <1>0, <1>1, <1>2, <1>3, <1>4, <1>5 DEF Kinds

\* A decision that is not refused plans at most one fitting correction.
LEMMA CapDecide ==
  ASSUME LedgerInv, CapInv, NEW p \in Procs, Decide(p)
  PROVE  CapInv'
  <1> USE DEF CapInv
  <1>0. pc[p] = "decide" /\ job[p].kind # "settle"
    BY DEF Decide
  <1>1. job[p] \in Commands
    <2>1. job[p] # Null
      BY <1>0 DEF LedgerInv, JobsRun
    <2> QED  BY <1>0, <2>1, SettleJobFacts DEF LedgerInv, TypeOK
  <1>2. CASE EndWithout(p)
    BY <1>2, CapEnd
  <1>3. CASE /\ ~Refused(p)
             /\ plan' = [plan EXCEPT ![p] = [s \in Seats |->
                           IF s \in job[p].seats THEN EffectsFor(job[p], s) ELSE <<>>]]
             /\ Goto(p, "reserve")
             /\ UNCHANGED <<rows, seatLock, job, buf>>
    <2>1. /\ \A q \in Procs : q # p => pc'[q] = pc[q] /\ plan'[q] = plan[q]
          /\ pc'[p] = "reserve"
          /\ \A s \in Seats :
               plan'[p][s] = IF s \in job[p].seats THEN EffectsFor(job[p], s) ELSE <<>>
      BY <1>3 DEF Goto, LedgerInv, TypeOK
    <2>2. SeatsHeld'
      BY <1>0, <1>3, <2>1 DEF SeatsHeld
    <2>3. PlansOwned'
      BY <1>1, <1>3, <2>1 DEF PlansOwned
    <2>4. CorrectionsFit'
      <3>1. ASSUME NEW q \in Procs, NEW e, Correcting(q, e)
            PROVE  Correcting(q, e)'
        BY <1>3, <3>1, CorrectingStays
      <3>2. ASSUME NEW q \in Procs, NEW s \in Seats, NEW i \in DOMAIN plan'[q][s],
                   NEW j \in DOMAIN plan'[q][s], NEW e, e = plan'[q][s][i], e.of # 0
            PROVE  /\ Correcting(q, e)'
                   /\ plan'[q][s][j].of # 0 => i = j
        <4>1. CASE q = p
          <5>1. s \in job[p].seats /\ plan'[p][s] = EffectsFor(job[p], s)
            BY <2>1, <3>2, <4>1
          <5>2. /\ i \in DOMAIN EffectsFor(job[p], s) /\ j \in DOMAIN EffectsFor(job[p], s)
                /\ EffectsFor(job[p], s)[i].of # 0
            BY <3>2, <4>1, <5>1
          <5>3. /\ Correcting(p, EffectsFor(job[p], s)[i])
                /\ EffectsFor(job[p], s)[j].of # 0 => i = j
            BY <1>1, <1>3, <5>1, <5>2, CorrectionDecided
          <5> QED  BY <3>1, <3>2, <4>1, <5>1, <5>3
        <4>2. CASE q # p
          <5>1. plan'[q] = plan[q]
            BY <2>1, <4>2
          <5> QED  BY <3>1, <3>2, <5>1 DEF CorrectionsFit
        <4> QED  BY <4>1, <4>2
      <3>3. ASSUME NEW q \in Procs, NEW r \in buf'[q]
            PROVE  /\ r.seat \in job'[q].seats
                   /\ r.of # 0 => Correcting(q, r)' /\ \A x \in buf'[q] : x.of # 0 => x = r
        BY <1>3, <3>1, <3>3 DEF CorrectionsFit
      <3> QED  BY <3>2, <3>3, CorrectionsFitNext
    <2>5. RowsIdentified'
      BY <1>3 DEF RowsIdentified
    <2>6. CompensationCapped'
      BY <1>3 DEF CompensationCapped, RecoveredCents, ExactReversals
    <2> QED  BY <2>2, <2>3, <2>4, <2>5, <2>6
  <1> QED  BY <1>2, <1>3 DEF Decide

\* The rows written for a seat are numbered from the next sequence on, and carry
\* the seat's effects one to one.
LEMMA NewRowsFacts ==
  ASSUME LedgerInv, NEW p \in Procs, pc[p] = "write", NEW s \in Seats
  PROVE  /\ IsFiniteSet(NewRows(p, s))
         /\ \A q, r \in NewRows(p, s) : q.seq = r.seq => q = r
         /\ \A r \in NewRows(p, s), q \in buf[p] : q.seq # r.seq
         /\ \A r \in NewRows(p, s) : \E i \in DOMAIN plan[p][s] :
              r = RowOf(plan[p][s][i], NextSequence(p) + i - 1, job[p].key, i)
  <1>1. PICK n \in Nat : /\ {r.seq : r \in rows} = 1..n
                        /\ \A q \in Procs : \E m \in Nat :
                             n =< m /\ {r.seq : r \in buf[q]} = (n + 1)..m
    BY DEF LedgerInv, SequencesGapless
  <1>2. PICK m \in Nat : n =< m /\ {r.seq : r \in buf[p]} = (n + 1)..m
    BY <1>1
  <1>3. NextSequence(p) = m + 1
    BY <1>1, <1>2, NextSequenceFacts
  <1> DEFINE d == Len(plan[p][s])
             row(i) == RowOf(plan[p][s][i], NextSequence(p) + i - 1, job[p].key, i)
             f == [i \in 1..d |-> row(i)]
  <1>4. plan[p][s] \in Seq(EffectType)
    BY DEF LedgerInv, TypeOK
  <1>5. d \in Nat /\ DOMAIN plan[p][s] = 1..d
    BY <1>4
  <1>6. NewRows(p, s) = {row(i) : i \in 1..d}
    BY <1>5 DEF NewRows
  <1>7. \A i \in 1..d : row(i).seq = m + i
    BY <1>3, <1>5 DEF RowOf
  <1> HIDE DEF d, row
  <1>8. IsFiniteSet(NewRows(p, s))
    <2>1. f \in Surjection(1..d, NewRows(p, s))
      BY <1>6 DEF Surjection
    <2>2. IsFiniteSet(1..d)
      BY <1>5, FS_Interval
    <2> HIDE DEF f
    <2> QED  BY <2>1, <2>2, FS_Surjection
  <1>9. \A q, r \in NewRows(p, s) : q.seq = r.seq => q = r
    <2> SUFFICES ASSUME NEW i \in 1..d, NEW j \in 1..d, row(i).seq = row(j).seq
                 PROVE  row(i) = row(j)
      BY <1>6
    <2>1. i = j
      BY <1>5, <1>7
    <2> QED  BY <2>1
  <1>10. \A r \in NewRows(p, s), q \in buf[p] : q.seq # r.seq
    <2> SUFFICES ASSUME NEW i \in 1..d, NEW q \in buf[p] PROVE q.seq # m + i
      BY <1>6, <1>7
    <2>1. q.seq \in (n + 1)..m
      BY <1>2
    <2> QED  BY <1>5, <2>1
  <1>11. \A r \in NewRows(p, s) : \E i \in DOMAIN plan[p][s] : r = row(i)
    BY <1>5, <1>6
  <1> QED  BY <1>8, <1>9, <1>10, <1>11 DEF row

\* Writing a seat turns its planned correction, if any, into a row.
LEMMA CapWrite ==
  ASSUME LedgerInv, OnceInv, CapInv, NEW p \in Procs, Write(p)
  PROVE  CapInv'
  <1> USE DEF CapInv
  <1>0. PICK s \in SeatsToWrite(p) :
          /\ buf' = [buf EXCEPT ![p] = buf[p] \cup NewRows(p, s)]
          /\ plan' = [plan EXCEPT ![p][s] = <<>>]
          /\ pc' = [pc EXCEPT ![p] = IF SeatsToWrite(p) = {s} THEN "commit" ELSE "write"]
    BY DEF Write, Goto
  <1>1. pc[p] = "write" /\ UNCHANGED <<rows, seatLock, job>>
    BY DEF Write
  <1>2. job[p] \in Commands
    BY <1>1 DEF LedgerInv, JobsRun
  <1>3. s \in Seats /\ plan[p][s] # <<>> /\ s \in job[p].seats
    BY DEF SeatsToWrite, PlansOwned
  <1>4. /\ \A q \in Procs : q # p => pc'[q] = pc[q] /\ buf'[q] = buf[q] /\ plan'[q] = plan[q]
        /\ pc'[p] = IF SeatsToWrite(p) = {s} THEN "commit" ELSE "write"
        /\ buf'[p] = buf[p] \cup NewRows(p, s)
        /\ \A t \in Seats : plan'[p][t] = IF t = s THEN <<>> ELSE plan[p][t]
    BY <1>0, <1>3 DEF LedgerInv, TypeOK
  <1>5. SeatsHeld'
    BY <1>1, <1>4 DEF SeatsHeld
  <1>6. PlansOwned'
    BY <1>1, <1>4 DEF PlansOwned, SeatsToWrite
  <1>7. ASSUME NEW q \in Procs, NEW e, Correcting(q, e)
        PROVE  Correcting(q, e)'
    BY <1>1, <1>7, CorrectingStays
  <1>8. ASSUME NEW r \in NewRows(p, s)
        PROVE  /\ r.seat = s
               /\ r.of # 0 =>
                    /\ Correcting(p, r)
                    /\ \A x \in NewRows(p, s) : x.of # 0 => x = r
                    /\ \A x \in buf[p] : x.of = 0
    <2>1. PICK i \in DOMAIN plan[p][s] :
            r = RowOf(plan[p][s][i], NextSequence(p) + i - 1, job[p].key, i)
      BY <1>1, <1>3, NewRowsFacts
    <2>2. r.seat = s
      BY <1>3, <2>1 DEF RowOf, OnceInv, PlansCarriedOut
    <2>3. ASSUME r.of # 0 PROVE Correcting(p, r)
      <3>1. plan[p][s][i].of # 0 /\ Correcting(p, plan[p][s][i])
        BY <1>3, <2>1, <2>3 DEF CorrectionsFit, RowOf
      <3> QED  BY <2>1, <3>1 DEF Correcting, RowOf
    <2>4. ASSUME r.of # 0, NEW x \in NewRows(p, s), x.of # 0 PROVE x = r
      <3>1. PICK j \in DOMAIN plan[p][s] :
              x = RowOf(plan[p][s][j], NextSequence(p) + j - 1, job[p].key, j)
        BY <1>1, <1>3, NewRowsFacts
      <3>2. plan[p][s][i].of # 0 /\ plan[p][s][j].of # 0
        BY <2>1, <2>4, <3>1 DEF RowOf
      <3>3. i = j
        BY <1>3, <3>2 DEF CorrectionsFit
      <3> QED  BY <2>1, <3>1, <3>3
    <2>5. ASSUME r.of # 0, NEW x \in buf[p] PROVE x.of = 0
      <3> SUFFICES ASSUME x.of # 0 PROVE FALSE
        OBVIOUS
      <3>1. Correcting(p, r) /\ x.seat \in job[p].seats /\ plan[p][x.seat] = <<>>
        BY <2>3, <2>5 DEF CorrectionsFit, OnceInv, BuffersUnique
      <3>2. \A t, u \in job[p].seats : t = u
        BY <1>2, <3>1, CommandFacts DEF Correcting
      <3> QED  BY <1>3, <3>1, <3>2
    <2> QED  BY <2>2, <2>3, <2>4, <2>5
  <1>9. CorrectionsFit'
    <2>1. ASSUME NEW q \in Procs, NEW t \in Seats, NEW i \in DOMAIN plan'[q][t],
                 NEW j \in DOMAIN plan'[q][t], NEW e, e = plan'[q][t][i], e.of # 0
          PROVE  /\ Correcting(q, e)'
                 /\ plan'[q][t][j].of # 0 => i = j
      <3>1. plan'[q][t] = plan[q][t]
        BY <1>4, <2>1
      <3> QED  BY <1>7, <2>1, <3>1 DEF CorrectionsFit
    <2>2. ASSUME NEW q \in Procs, NEW r \in buf'[q]
          PROVE  /\ r.seat \in job'[q].seats
                 /\ r.of # 0 => Correcting(q, r)' /\ \A x \in buf'[q] : x.of # 0 => x = r
      <3>1. CASE q = p /\ r \in NewRows(p, s)
        BY <1>1, <1>3, <1>4, <1>7, <1>8, <3>1
      <3>2. CASE q = p /\ r \in buf[p]
        <4>1. \A x \in NewRows(p, s) : r.of # 0 => x.of = 0
          BY <1>8, <3>2
        <4> QED  BY <1>1, <1>4, <1>7, <3>2, <4>1 DEF CorrectionsFit
      <3>3. CASE q # p
        BY <1>1, <1>4, <1>7, <2>2, <3>3 DEF CorrectionsFit
      <3> QED  BY <1>4, <2>2, <3>1, <3>2, <3>3
    <2> QED  BY <2>1, <2>2, CorrectionsFitNext
  <1>10. RowsIdentified'
    <2>1. \A q, r \in buf'[p] : q.seq = r.seq => q = r
      BY <1>1, <1>3, <1>4, NewRowsFacts DEF RowsIdentified
    <2>2. IsFiniteSet(buf'[p])
      <3>1. IsFiniteSet(buf[p]) /\ IsFiniteSet(NewRows(p, s))
        BY <1>1, <1>3, NewRowsFacts DEF RowsIdentified
      <3>2. IsFiniteSet(buf[p] \cup NewRows(p, s))
        BY <3>1, FS_Union
      <3> QED  BY <1>4, <3>2
    <2> QED  BY <1>1, <1>4, <2>1, <2>2 DEF RowsIdentified
  <1>11. CompensationCapped'
    BY <1>1 DEF CompensationCapped, RecoveredCents, ExactReversals
  <1> QED  BY <1>5, <1>6, <1>9, <1>10, <1>11

\* The row that a running correction names, and the seat it holds for it.
LEMMA CorrectedHeld ==
  ASSUME LedgerInv, CapInv, NEW p \in Procs, NEW e, Correcting(p, e),
         pc[p] \in {"class", "decide", "reserve", "write", "commit"}
  PROVE  /\ Original(job[p]) \in Originals(job[p]) /\ Original(job[p]) \in rows
         /\ Original(job[p]) \in Row
         /\ seatLock[Original(job[p]).seat] = p
  <1>1. job[p] \in Commands /\ Originals(job[p]) # {}
    BY DEF Correcting, LedgerInv, JobsRun
  <1>2. Original(job[p]) \in Originals(job[p])
    BY <1>1 DEF Original
  <1>3. Original(job[p]) \in rows /\ Original(job[p]).seat \in job[p].seats
    BY <1>2 DEF Originals
  <1> QED  BY <1>2, <1>3 DEF CapInv, SeatsHeld, LedgerInv, TypeOK

\* What a commit adds comes after all rows, and no other process holds any.
LEMMA CommitFacts ==
  ASSUME LedgerInv, CapInv, NEW p \in Procs, Commit(p)
  PROVE  /\ rows' = rows \cup buf[p]
         /\ \A q \in rows, r \in buf[p] : q.seq # r.seq
         /\ \A q \in Procs : q # p =>
              job'[q] = job[q] /\ plan'[q] = plan[q] /\ buf[q] = {} /\ pc'[q] = pc[q]
         /\ \A s \in Seats : plan'[p][s] = <<>>
         /\ \A q \in Procs : buf'[q] = {}
         /\ rows' \subseteq Row /\ IsFiniteSet(rows')
         /\ \A r \in rows' : r.seq \in Nat /\ r.seq # 0
  <1>0. pc[p] = "commit" /\ rows' = rows \cup buf[p] /\ Release(p)
    BY DEF Commit
  <1>1. PICK n \in Nat, m \in Nat :
          {r.seq : r \in rows} = 1..n /\ {r.seq : r \in buf[p]} = (n + 1)..m
    BY DEF LedgerInv, SequencesGapless
  <1>2. /\ \A r \in rows : r.seq \in 1..n
        /\ \A r \in buf[p] : r.seq \in (n + 1)..m
        /\ \A q \in rows, r \in buf[p] : q.seq # r.seq
    <2>1. \A r \in rows : r.seq \in 1..n
      BY <1>1
    <2>2. \A r \in buf[p] : r.seq \in (n + 1)..m
      BY <1>1
    <2>3. \A x \in 1..n, y \in (n + 1)..m : x # y
      OBVIOUS
    <2> QED  BY <2>1, <2>2, <2>3
  <1>3. /\ \A q \in Procs : q # p =>
             job'[q] = job[q] /\ plan'[q] = plan[q] /\ buf[q] = {} /\ pc'[q] = pc[q]
        /\ \A s \in Seats : plan'[p][s] = <<>>
        /\ \A q \in Procs : buf'[q] = {}
    BY <1>0, CommitAlone DEF Release, LedgerInv, TypeOK, NoPlan
  <1>4. rows' \subseteq Row
    BY <1>0 DEF LedgerInv, TypeOK
  <1>5. \A r \in rows' : r.seq \in Nat /\ r.seq # 0
    BY <1>4 DEF Row
  <1>6. IsFiniteSet(rows')
    <2>1. IsFiniteSet(rows) /\ IsFiniteSet(buf[p])
      BY DEF CapInv, RowsIdentified
    <2> QED  BY <1>0, <2>1, FS_Union
  <1> QED  BY <1>0, <1>2, <1>3, <1>4, <1>5, <1>6

\* A row about to be committed that corrects another is the only one of its
\* process, and its process holds the seat of the row it corrects.
LEMMA CommittedCorrection ==
  ASSUME LedgerInv, CapInv, NEW p \in Procs, pc[p] = "commit", NEW r \in buf[p], r.of # 0
  PROVE  /\ Correcting(p, r) /\ \A x \in buf[p] : x.of # 0 => x = r
         /\ Original(job[p]) \in rows /\ r.of = Original(job[p]).seq
         /\ seatLock[Original(job[p]).seat] = p
  <1>1. Correcting(p, r) /\ \A x \in buf[p] : x.of # 0 => x = r
    BY DEF CapInv, CorrectionsFit
  <1>2. Original(job[p]) \in rows /\ seatLock[Original(job[p]).seat] = p
    BY <1>1, CorrectedHeld
  <1> QED  BY <1>1, <1>2 DEF Correcting

\* A row that no committed row corrects keeps its corrections.
LEMMA Uncorrected ==
  ASSUME NEW p \in Procs, Commit(p), NEW o, \A r \in buf[p] : r.of # o.seq
  PROVE  /\ RecoveredCents(o.seq)' = RecoveredCents(o.seq)
         /\ ExactReversals(o)' = ExactReversals(o)
  <1>0. rows' = rows \cup buf[p]
    BY DEF Commit
  <1>1. {r \in rows' : r.of = o.seq} = {r \in rows : r.of = o.seq}
    BY <1>0
  <1>2. ExactReversals(o)' = ExactReversals(o)
    BY <1>0 DEF ExactReversals
  <1> QED  BY <1>1, <1>2 DEF RecoveredCents

\* A row that is committed has no corrections yet.
LEMMA NewUncorrected ==
  ASSUME LedgerInv, CapInv, NEW p \in Procs, Commit(p), NEW o \in buf[p]
  PROVE  /\ \A r \in buf[p] : r.of # o.seq
         /\ RecoveredCents(o.seq) = 0 /\ ExactReversals(o) = {}
  <1>0. pc[p] = "commit"
    BY DEF Commit
  <1>1. o.seq # 0 /\ o \in Row
    BY DEF LedgerInv, TypeOK, Row
  <1>2. \A r \in rows : r.of # o.seq
    BY <1>1, CommitFacts DEF CapInv, RowsIdentified
  <1>3. {r \in rows : r.of = o.seq} = {}
    BY <1>2
  <1>4. RecoveredCents(o.seq) = 0
    <2>1. rows \subseteq Row /\ IsFiniteSet(rows)
      BY DEF LedgerInv, TypeOK, CapInv, RowsIdentified
    <2> QED  BY <1>3, <2>1, RecoveredIsTotal, TotalEmpty
  <1>5. ExactReversals(o) = {}
    BY <1>2 DEF ExactReversals
  <1>6. \A r \in buf[p] : r.of # o.seq
    BY <1>0, <1>1, CommitFacts, CommittedCorrection
  <1> QED  BY <1>4, <1>5, <1>6

\* A committed correction e adds to what is recovered of the row it names.
LEMMA CorrectionCommitted ==
  ASSUME LedgerInv, CapInv, NEW p \in Procs, Commit(p),
         NEW o \in rows', NEW e \in buf[p], e.of = o.seq
  PROVE  /\ o = Original(job[p]) /\ o \in rows /\ Correcting(p, e)
         /\ RecoveredCents(o.seq)' = RecoveredCents(o.seq) + e.comp
         /\ ExactReversals(o)'
              = ExactReversals(o) \cup (IF e.type = "REVERSAL" THEN {e} ELSE {})
  <1>0. pc[p] = "commit" /\ rows' = rows \cup buf[p]
    BY DEF Commit
  <1>1. o.seq # 0 /\ o \in Row
    BY CommitFacts
  <1>2. /\ Correcting(p, e) /\ \A x \in buf[p] : x.of # 0 => x = e
        /\ Original(job[p]) \in rows /\ e.of = Original(job[p]).seq
    BY <1>0, <1>1, CommittedCorrection
  <1>3. o = Original(job[p]) /\ o \in rows
    <2>1. o \notin buf[p]
      BY <1>2, CommitFacts
    <2>2. o \in rows
      BY <1>0, <2>1
    <2> QED  BY <1>2, <2>2 DEF CapInv, RowsIdentified
  <1>4. e \in Row /\ e \notin rows
    BY CommitFacts DEF LedgerInv, TypeOK
  <1> DEFINE S == {r \in rows : r.of = o.seq}
  <1>5. {r \in rows' : r.of = o.seq} = S \cup {e}
    BY <1>0, <1>1, <1>2
  <1>6. RecoveredCents(o.seq)' = RecoveredCents(o.seq) + e.comp
    <2>1. rows \subseteq Row /\ IsFiniteSet(rows) /\ rows' \subseteq Row /\ IsFiniteSet(rows')
      BY CommitFacts DEF LedgerInv, TypeOK, CapInv, RowsIdentified
    <2>2. RecoveredCents(o.seq) = Total(CompensationOf, S)
      BY <2>1, RecoveredIsTotal
    <2>3. RecoveredCents(o.seq)' = Total(CompensationOf, {r \in rows' : r.of = o.seq})
      <3> DEFINE T == {r \in rows' : r.of = o.seq}
      <3>1. RecoveredCents(o.seq)'
              = IF TotalCompensation(T) \in Nat THEN TotalCompensation(T) ELSE 0
        BY DEF RecoveredCents
      <3>2. T \in SUBSET rows' /\ T \in SUBSET Row
        BY <2>1
      <3>3. IsFiniteSet(T)
        BY <2>1, <3>2, FS_Subset
      <3>4. \A x \in T : CompensationOf[x] \in Nat
        BY <3>2 DEF CompensationOf, Row
      <3> HIDE DEF T
      <3>5. TotalCompensation(T) = Total(CompensationOf, T) /\ Total(CompensationOf, T) \in Nat
        BY <3>2, <3>3, <3>4, TotalCompensationFacts, TotalNat
      <3>6. RecoveredCents(o.seq)' = Total(CompensationOf, T)
        BY <3>1, <3>5
      <3> QED  BY <3>6 DEF T
    <2>4. IsFiniteSet(S) /\ e \notin S /\ \A x \in S \cup {e} : CompensationOf[x] \in Int
      <3>1. S \in SUBSET rows /\ S \cup {e} \subseteq Row
        BY <1>4, <2>1
      <3>2. IsFiniteSet(S)
        BY <2>1, <3>1, FS_Subset
      <3> QED  BY <1>4, <3>1, <3>2 DEF CompensationOf, Row
    <2>5. CompensationOf[e] = e.comp
      BY <1>4 DEF CompensationOf
    <2> HIDE DEF S
    <2>6. Total(CompensationOf, S \cup {e}) = Total(CompensationOf, S) + CompensationOf[e]
      BY <2>4, TotalAdd
    <2> QED  BY <1>5, <2>2, <2>3, <2>5, <2>6
  <1>7. ExactReversals(o)'
          = ExactReversals(o) \cup (IF e.type = "REVERSAL" THEN {e} ELSE {})
    <2>1. \A r \in rows' : r.of = o.seq <=> (r \in rows /\ r.of = o.seq) \/ r = e
      BY <1>0, <1>1, <1>2
    <2>2. CASE e.type = "REVERSAL"
      BY <1>0, <2>1, <2>2 DEF ExactReversals
    <2>3. CASE e.type # "REVERSAL"
      BY <1>0, <2>1, <2>3 DEF ExactReversals
    <2> QED  BY <2>2, <2>3
  <1> QED  BY <1>2, <1>3, <1>6, <1>7

\* A commit adds the correction that was decided, to a row nobody else corrects.
LEMMA CapCommit ==
  ASSUME LedgerInv, OnceInv, CapInv, NEW p \in Procs, Commit(p)
  PROVE  CapInv'
  <1> USE DEF CapInv
  <1>0. pc[p] = "commit" /\ rows' = rows \cup buf[p] /\ Release(p)
    BY DEF Commit
  <1>1. /\ \A q \in rows, r \in buf[p] : q.seq # r.seq
        /\ \A q \in Procs : q # p =>
             job'[q] = job[q] /\ plan'[q] = plan[q] /\ buf[q] = {} /\ pc'[q] = pc[q]
        /\ \A s \in Seats : plan'[p][s] = <<>>
        /\ \A q \in Procs : buf'[q] = {}
        /\ rows' \subseteq Row /\ IsFiniteSet(rows')
    BY CommitFacts
  <1>5. \A r \in rows : r.seq # 0 /\ r.seq \in Nat
    BY DEF LedgerInv, TypeOK, Row
  <1>6. RowsIdentified'
    <2>1. \A q, r \in rows' : q.seq = r.seq => q = r
      BY <1>0, <1>1 DEF RowsIdentified
    <2>2. \A r \in rows' : r.of # 0 => \E o \in rows' : o.seq = r.of
      BY <1>0, CommittedCorrection DEF RowsIdentified
    <2> QED  BY <1>1, <2>1, <2>2, FS_EmptySet DEF RowsIdentified
  <1>8. ASSUME NEW q \in Procs, q # p, NEW e, Correcting(q, e),
               pc[q] \in {"class", "decide", "reserve", "write", "commit"}
        PROVE  Correcting(q, e)'
    <2> DEFINE o == Original(job[q])
    <2>1. o \in Originals(job[q]) /\ o \in rows /\ seatLock[o.seat] = q
      BY <1>8, CorrectedHeld
    <2>2. Original(job[q])' = o
      <3>1. PICK c : c = job[q]
        OBVIOUS
      <3>2. Originals(c) # {}
        BY <2>1, <3>1
      <3>3. Original(c)' = Original(c)
        BY <3>2, OriginalStays
      <3>4. job'[q] = c
        BY <1>1, <1>8, <3>1
      <3>5. Originals(job[q])' = Originals(c)'
        BY <3>4 DEF Originals
      <3>6. Original(job[q])' = Original(c)'
        BY <3>5 DEF Original
      <3> QED  BY <3>1, <3>3, <3>6
    <2>3. \A r \in buf[p] : r.of # o.seq
      <3> SUFFICES ASSUME NEW r \in buf[p], r.of = o.seq PROVE FALSE
        OBVIOUS
      <3>1. Original(job[p]) = o
        BY <1>0, <1>5, <2>1, CommittedCorrection DEF RowsIdentified
      <3> QED  BY <1>0, <1>5, <1>8, <2>1, <3>1, CommittedCorrection
    <2>4. PICK x : x = o
      OBVIOUS
    <2>5. RecoveredCents(x.seq)' = RecoveredCents(x.seq) /\ ExactReversals(x)' = ExactReversals(x)
      BY <2>3, <2>4, Uncorrected
    <2>6. Original(job[q])' = x /\ Original(job[q]) = x
      BY <2>2, <2>4
    <2>7. /\ RecoveredCents(Original(job[q]).seq)' = RecoveredCents(x.seq)
          /\ ExactReversals(Original(job[q]))' = ExactReversals(x)
      BY <2>5, <2>6 DEF RecoveredCents, ExactReversals
    <2> HIDE DEF o
    <2> QED  BY <1>1, <1>8, <2>6, <2>7 DEF Correcting
  <1>9. CorrectionsFit'
    <2>1. ASSUME NEW q \in Procs, NEW s \in Seats, NEW i \in DOMAIN plan'[q][s],
                 NEW j \in DOMAIN plan'[q][s], NEW e, e = plan'[q][s][i], e.of # 0
          PROVE  /\ Correcting(q, e)'
                 /\ plan'[q][s][j].of # 0 => i = j
      <3>1. q # p /\ plan'[q][s] = plan[q][s]
        BY <1>1, <2>1
      <3>2. Correcting(q, e) /\ (plan[q][s][j].of # 0 => i = j)
        BY <2>1, <3>1 DEF CorrectionsFit
      <3>3. plan[q][s] # <<>>
        BY <2>1, <3>1
      <3>4. pc[q] \in {"reserve", "class", "write"}
        BY <3>3 DEF PlansOwned
      <3> QED  BY <1>8, <3>1, <3>2, <3>4
    <2> QED  BY <1>1, <2>1, CorrectionsFitNext
  <1>10. CompensationCapped'
    <2> SUFFICES ASSUME NEW o \in rows'
                 PROVE  /\ o.amt > 0 => RecoveredCents(o.seq)' =< o.amt
                        /\ Cardinality(ExactReversals(o)') =< 1
      BY DEF CompensationCapped
    <2>1. CASE \A r \in buf[p] : r.of # o.seq
      <3>1. RecoveredCents(o.seq)' = RecoveredCents(o.seq) /\ ExactReversals(o)' = ExactReversals(o)
        BY <2>1, Uncorrected
      <3>2. CASE o \in rows
        BY <3>1, <3>2 DEF CompensationCapped
      <3>3. CASE o \in buf[p]
        <4>1. RecoveredCents(o.seq) = 0 /\ ExactReversals(o) = {}
          BY <3>3, NewUncorrected
        <4>2. o.amt \in Int
          BY <3>3 DEF LedgerInv, TypeOK, Row
        <4> QED  BY <3>1, <4>1, <4>2, FS_EmptySet
      <3> QED  BY <1>0, <3>2, <3>3
    <2>2. CASE \E r \in buf[p] : r.of = o.seq
      <3>1. PICK e \in buf[p] : e.of = o.seq
        BY <2>2
      <3>2. /\ o = Original(job[p]) /\ o \in rows /\ Correcting(p, e)
            /\ RecoveredCents(o.seq)' = RecoveredCents(o.seq) + e.comp
            /\ ExactReversals(o)'
                 = ExactReversals(o) \cup (IF e.type = "REVERSAL" THEN {e} ELSE {})
        BY <3>1, CorrectionCommitted
      <3>3. /\ o.amt > 0 => RecoveredCents(o.seq) + e.comp =< o.amt
            /\ e.type = "REVERSAL" => ExactReversals(o) = {}
        BY <3>2 DEF Correcting
      <3>4. Cardinality(ExactReversals(o)') =< 1
        <4>1. CASE e.type = "REVERSAL"
          <5>1. ExactReversals(o)' = {e}
            BY <3>2, <3>3, <4>1
          <5>2. Cardinality({e}) = 1
            BY FS_Singleton
          <5> QED  BY <5>1, <5>2
        <4>2. CASE e.type # "REVERSAL"
          <5>1. ExactReversals(o)' = ExactReversals(o)
            BY <3>2, <4>2
          <5> QED  BY <3>2, <5>1 DEF CompensationCapped
        <4> QED  BY <4>1, <4>2
      <3> QED  BY <3>2, <3>3, <3>4
    <2> QED  BY <2>1, <2>2
  <1> QED  BY <1>0, <1>6, <1>9, <1>10, CapRelease

\* Every step keeps CapInv.
LEMMA CapNext ==
  ASSUME LedgerInv, OnceInv, CapInv, [Next]_vars
  PROVE  CapInv'
  <1> USE DEF CapInv
  <1>1. ASSUME NEW w \in Workers, NEW c \in Commands, Submit(w, c) PROVE CapInv'
    <2>1. w \in Procs /\ pc[w] = "idle" /\ pc'[w] = "seat"
      BY <1>1 DEF Submit, Goto, Procs, LedgerInv, TypeOK
    <2>2. /\ UNCHANGED <<rows, plan, buf, seatLock>>
          /\ \A q \in Procs : q # w => pc'[q] = pc[q] /\ job'[q] = job[q]
      BY <1>1, <2>1 DEF Submit, Goto, LedgerInv, TypeOK
    <2>3. SeatsHeld' /\ PlansOwned'
      BY <2>1, <2>2 DEF SeatsHeld, PlansOwned, ClassFirst
    <2> QED  BY <2>1, <2>2, <2>3, CapQuiet
  <1>2. CASE SweepStart
    <2>1. UNCHANGED <<rows, plan, buf, pc, job, seatLock>>
      BY <1>2 DEF SweepStart
    <2>2. SeatsHeld' /\ PlansOwned'
      BY <2>1 DEF SeatsHeld, PlansOwned, ClassFirst
    <2> QED  BY <2>1, <2>2, CapStill
  <1>3. CASE SweepNext
    <2>1. Sweeper \in Procs /\ pc[Sweeper] = "idle" /\ pc'[Sweeper] = "seat"
      BY <1>3 DEF SweepNext, Goto, Procs, LedgerInv, TypeOK
    <2>2. /\ UNCHANGED <<rows, plan, buf, seatLock>>
          /\ \A q \in Procs : q # Sweeper => pc'[q] = pc[q] /\ job'[q] = job[q]
      BY <1>3, <2>1 DEF SweepNext, Goto, LedgerInv, TypeOK
    <2>3. SeatsHeld' /\ PlansOwned'
      BY <2>1, <2>2 DEF SeatsHeld, PlansOwned, ClassFirst
    <2> QED  BY <2>1, <2>2, <2>3, CapQuiet
  <1>4. ASSUME NEW p \in Procs, LockSeat(p) PROVE CapInv'
    <2>1. /\ UNCHANGED <<rows, plan, buf, job>>
          /\ \A q \in Procs : q # p => pc'[q] = pc[q]
          /\ pc[p] = "seat" /\ pc'[p] \in {"seat", "class", "decide"}
      BY <1>4 DEF LockSeat, Goto, LedgerInv, TypeOK, ClassFirst
    <2>2. PICK s \in UnlockedSeats(p) :
            /\ seatLock[s] = Null
            /\ seatLock' = [seatLock EXCEPT ![s] = p]
            /\ pc'[p] # "seat" => UnlockedSeats(p) = {s}
      BY <1>4, <2>1 DEF LockSeat, Goto, LedgerInv, TypeOK
    <2>3. s \in Seats /\ \A t \in Seats : seatLock'[t] = IF t = s THEN p ELSE seatLock[t]
      <3>1. job[p].seats \subseteq Seats
        <4>1. job[p] \in Commands \/ \E t \in Seats : job[p] = SettleJob(t)
          BY <2>1 DEF LedgerInv, TypeOK, JobsRun
        <4> QED  BY <4>1, CommandFacts, SettleJobFacts
      <3> QED  BY <2>2, <3>1 DEF UnlockedSeats, LedgerInv, TypeOK
    <2>4. SeatsHeld'
      <3> SUFFICES ASSUME NEW q \in Procs, NEW t \in job[q].seats,
                          pc'[q] \in {"class", "decide", "reserve", "write", "commit"}
                   PROVE  seatLock'[t] = q
        BY <2>1 DEF SeatsHeld
      <3>1. t \in Seats
        <4>1. pc[q] # "idle"
          BY <2>1
        <4>2. job[q] \in Commands \/ \E u \in Seats : job[q] = SettleJob(u)
          BY <4>1 DEF LedgerInv, TypeOK, JobsRun
        <4> QED  BY <4>2, CommandFacts, SettleJobFacts
      <3>2. CASE q = p
        <4>1. t \in UnlockedSeats(p) => t = s
          BY <2>2, <3>2
        <4>2. t \notin UnlockedSeats(p) => seatLock[t] = p
          BY <3>2 DEF UnlockedSeats
        <4> QED  BY <2>3, <3>1, <3>2, <4>1, <4>2
      <3>3. CASE q # p
        <4>1. seatLock[t] = q
          BY <2>1, <3>3 DEF SeatsHeld
        <4>2. q # Null
          BY LedgerAssumption DEF Procs
        <4> QED  BY <2>2, <2>3, <3>1, <4>1, <4>2
      <3> QED  BY <3>2, <3>3
    <2>5. PlansOwned'
      BY <2>1 DEF PlansOwned
    <2> QED  BY <2>1, <2>4, <2>5, CapQuiet
  <1>5. ASSUME NEW p \in Procs, LockClass(p) PROVE CapInv'
    <2>1. /\ UNCHANGED <<rows, plan, buf, job, seatLock>>
          /\ \A q \in Procs : q # p => pc'[q] = pc[q]
          /\ pc[p] = "class" /\ pc'[p] = IF ClassFirst(job[p]) THEN "decide" ELSE "write"
      BY <1>5 DEF LockClass, Goto, LedgerInv, TypeOK
    <2>2. SeatsHeld'
      BY <2>1 DEF SeatsHeld
    <2>3. PlansOwned'
      <3>1. ASSUME ClassFirst(job[p]), NEW s \in Seats PROVE plan[p][s] = <<>>
        BY <2>1, <3>1 DEF PlansOwned
      <3> QED  BY <2>1, <3>1 DEF PlansOwned
    <2> QED  BY <2>1, <2>2, <2>3, CapQuiet
  <1>6. ASSUME NEW p \in Procs, Reserve(p) PROVE CapInv'
    <2>1. CASE EndWithout(p)
      BY <2>1, CapEnd
    <2>2. CASE /\ pc[p] = "reserve" /\ UNCHANGED <<rows, plan, buf, job, seatLock>>
               /\ Goto(p, IF ClassFirst(job[p]) THEN "write" ELSE "class")
      <3>1. /\ \A q \in Procs : q # p => pc'[q] = pc[q]
            /\ pc'[p] = IF ClassFirst(job[p]) THEN "write" ELSE "class"
        BY <2>2 DEF Goto, LedgerInv, TypeOK
      <3>2. SeatsHeld' /\ PlansOwned'
        BY <2>2, <3>1 DEF SeatsHeld, PlansOwned, ClassFirst
      <3> QED  BY <2>2, <3>1, <3>2, CapQuiet
    <2> QED  BY <1>6, <2>1, <2>2 DEF Reserve
  <1>7. ASSUME NEW p \in Procs, Settle(p) PROVE CapInv'
    <2>1. CASE EndWithout(p)
      BY <2>1, CapEnd
    <2>2. CASE /\ pc[p] = "decide" /\ Goto(p, "commit")
               /\ UNCHANGED <<rows, plan, buf, job, seatLock>>
      <3>1. /\ \A q \in Procs : q # p => pc'[q] = pc[q]
            /\ pc'[p] = "commit"
        BY <2>2 DEF Goto, LedgerInv, TypeOK
      <3>2. SeatsHeld' /\ PlansOwned'
        BY <2>2, <3>1 DEF SeatsHeld, PlansOwned
      <3> QED  BY <2>2, <3>2, CapStill
    <2> QED  BY <1>7, <2>1, <2>2 DEF Settle
  <1>8. ASSUME NEW p \in Procs, Step(p) \/ Fail(p) PROVE CapInv'
    BY <1>4, <1>5, <1>6, <1>7, <1>8, CapDecide, CapWrite, CapCommit, CapEnd DEF Step, Fail
  <1>9. CASE UNCHANGED vars
    <2>1. SeatsHeld' /\ PlansOwned'
      BY <1>9 DEF vars, SeatsHeld, PlansOwned, ClassFirst
    <2> QED  BY <1>9, <2>1, CapStill DEF vars
  <1> QED  BY <1>1, <1>2, <1>3, <1>8, <1>9 DEF Next

\* CapInv holds in every reachable state.
LEMMA CapInvariant == Spec => []CapInv
  <1>1. LedgerInv /\ OnceInv /\ CapInv /\ [Next]_vars => CapInv'
    BY CapNext
  <1> QED  BY <1>1, CapInit, LedgerInvariant, OnceInvariant, PTL DEF Spec

(***************************************************************************)
(* DOM-LED-001 VII.1A and INV-LED-013: reverse_transaction and             *)
(* resolve_credit_recovery never take back more of a credit than it paid,  *)
(* and no row is reversed twice, whichever corrections of one row race.    *)
(***************************************************************************)
THEOREM CompensationStaysCapped == Spec => []CompensationCapped
  <1>1. CapInv => CompensationCapped
    BY DEF CapInv
  <1> QED  BY <1>1, CapInvariant, PTL

-----------------------------------------------------------------------------
(***************************************************************************)
(* Balances.  Posted history and pending rows partition the rows of an     *)
(* account, so what a command reads as available is a sum over all of them.*)
(***************************************************************************)

\* A sum of cents over finitely many rows is their total.
LEMMA SumIsTotal ==
  ASSUME NEW S \in SUBSET Row, IsFiniteSet(S)
  PROVE  SumAmounts(S) = Total(AmountOf, S) /\ Total(AmountOf, S) \in Int
  <1>1. \A x \in S : AmountOf[x] \in Int
    BY DEF AmountOf, Row
  <1>2. TotalAmount(S) = Total(AmountOf, S) /\ Total(AmountOf, S) \in Int
    BY <1>1, TotalAmountFacts, TotalInt
  <1>3. S = {} => Total(AmountOf, S) = 0
    BY TotalEmpty
  <1> QED  BY <1>2, <1>3 DEF SumAmounts

\* The sums of two disjoint sets of rows add up.
LEMMA SumOfUnion ==
  ASSUME NEW S \in SUBSET Row, IsFiniteSet(S), NEW T \in SUBSET Row, IsFiniteSet(T),
         S \cap T = {}
  PROVE  SumAmounts(S \cup T) = SumAmounts(S) + SumAmounts(T)
  <1>1. \A x \in S \cup T : AmountOf[x] \in Int
    BY DEF AmountOf, Row
  <1>2. Total(AmountOf, S \cup T) = Total(AmountOf, S) + Total(AmountOf, T)
    BY <1>1, TotalUnion
  <1>3. S \cup T \in SUBSET Row /\ IsFiniteSet(S \cup T)
    BY FS_Union
  <1>4. SumAmounts(S \cup T) = Total(AmountOf, S \cup T)
    <2> DEFINE U == S \cup T
    <2>1. U \in SUBSET Row /\ IsFiniteSet(U)
      BY <1>3
    <2> HIDE DEF U
    <2>2. SumAmounts(U) = Total(AmountOf, U)
      BY <2>1, SumIsTotal
    <2> QED  BY <2>2 DEF U
  <1>5. SumAmounts(S) = Total(AmountOf, S) /\ SumAmounts(T) = Total(AmountOf, T)
    BY SumIsTotal
  <1> QED  BY <1>2, <1>4, <1>5

\* The rows of one account.
AccountRows(R, s, a) == {r \in R : r.seat = s /\ r.acct = a}

\* Snapshot plus pending is the whole history of an account.
LEMMA AvailableIsSum ==
  ASSUME LedgerInv, IsFiniteSet(rows), NEW s \in Seats, NEW a \in Account
  PROVE  Available(s, a) = SumAmounts(AccountRows(rows, s, a))
  <1> DEFINE cursor == snap[s][a].cur
             P == AdmittedRows(rows, s, a, cursor)
             Q == {r \in PendingRows(s) : r.acct = a}
  <1>1. rows \subseteq Row /\ cursor \in Nat
    BY DEF LedgerInv, TypeOK, Snapshot
  <1>2. \A r \in rows : r.seq \in Nat
    BY <1>1 DEF Row
  <1>3. /\ P \in SUBSET rows /\ Q \in SUBSET rows /\ P \cap Q = {}
        /\ P \cup Q = AccountRows(rows, s, a)
    BY <1>1, <1>2 DEF AdmittedRows, PendingRows, Posted, AccountRows
  <1>4. Available(s, a) = SumAmounts(P) + SumAmounts(Q)
    BY DEF Available, PostedHistoryCents, LedgerInv, SnapshotIsHistory
  <1> HIDE DEF P, Q
  <1>5. /\ IsFiniteSet(P) /\ IsFiniteSet(Q)
        /\ P \in SUBSET Row /\ Q \in SUBSET Row
    BY <1>1, <1>3, FS_Subset
  <1>6. SumAmounts(P \cup Q) = SumAmounts(P) + SumAmounts(Q)
    BY <1>3, <1>5, SumOfUnion
  <1> QED  BY <1>3, <1>4, <1>6

(***************************************************************************)
(* _available_balance_expression: the balance a command decides on, read   *)
(* from the snapshot and the pending rows, is the sum of the account's     *)
(* whole history; settle_balances neither loses an effect nor counts one   *)
(* twice.                                                                  *)
(***************************************************************************)
THEOREM AvailableBalances == Spec => []AvailableIsHistory
  <1>1. LedgerInv /\ CapInv => AvailableIsHistory
    BY AvailableIsSum DEF CapInv, RowsIdentified, AvailableIsHistory, AccountRows
  <1> QED  BY <1>1, LedgerInvariant, CapInvariant, PTL


-----------------------------------------------------------------------------
(***************************************************************************)
(* The refinement.                                                         *)
(***************************************************************************)

\* A process whose command is decided: its effects are planned or written.
Decided(p) == job[p] \in Commands /\ (pc[p] = "reserve" \/ Reserved(p))

\* The command's guards, apart from its key's and its preview's.
Allowed(c) ==
  /\ c.kind = "transfer" => \A s \in c.seats : Available(s, c.acct) >= c.amt
  /\ c.kind = "charge" /\ c.funded => \A s \in c.seats : CheckingAfter(s, c.amt) >= 0
  /\ c.kind = "reverse" => ~Unreversible(Original(c))
  /\ c.kind = "recover" => ~OverRecovers(c)

\* Row r is what command c writes on seat r.seat as effect r.leg.
Written(c, r) ==
  /\ r.leg \in DOMAIN EffectsFor(c, r.seat)
  /\ r = RowOf(EffectsFor(c, r.seat)[r.leg], r.seq, c.key, r.leg)

\* Plan P and rows B are what c would be decided to do in the committed state.
Agrees(c, P, B) ==
  /\ Allowed(c)
  /\ \A s \in c.seats :
       /\ P[s] # <<>> => P[s] = EffectsFor(c, s)
       /\ P[s] = <<>> =>
            \A i \in DOMAIN EffectsFor(c, s) : \E r \in B : r.seat = s /\ r.leg = i
  /\ \A r \in B : Written(c, r)

\* Until a decided command commits, nothing others commit changes its decision.
DecisionsStand == \A p \in Procs : Decided(p) => Agrees(job[p], plan[p], buf[p])

\* An accepted command is one of the clients', accepted under its own key.
AcceptedKeys == \A k \in Keys : resv[k] # Null => resv[k] \in Commands /\ resv[k].key = k

\* Only a settlement holds unwritten snapshots.
SnapshotsSettled ==
  \A p \in Procs, a \in Account : sbuf[p][a] # Null => job[p] \notin Commands

DecisionInv == DecisionsStand /\ AcceptedKeys /\ SnapshotsSettled

\* A command's guards and effects depend on the balances of its seats and on the
\* state of the row it corrects.
LEMMA DecisionSame ==
  ASSUME NEW c \in Commands,
         \A s \in c.seats, a \in Account : Available(s, a)' = Available(s, a),
         c.kind \in {"reverse", "recover"} =>
           /\ Original(c)' = Original(c) /\ Original(c).seat \in c.seats
           /\ RecoveredCents(Original(c).seq)' = RecoveredCents(Original(c).seq)
           /\ ExactReversals(Original(c))' = ExactReversals(Original(c))
  PROVE  /\ Allowed(c)' = Allowed(c)
         /\ \A s \in c.seats : EffectsFor(c, s)' = EffectsFor(c, s)
<1>1. "checking" \in Account /\ "savings" \in Account
  BY DEF Account
<1>2. \A s \in c.seats : \A amt, a : FundingTransfer(s, amt, a)' = FundingTransfer(s, amt, a)
  BY <1>1 DEF FundingTransfer
<1>3. \A s \in c.seats : \A amt : CheckingAfter(s, amt)' = CheckingAfter(s, amt)
  BY <1>1, <1>2 DEF CheckingAfter
<1>4. \A s \in c.seats : \A amt, a, type, of, comp :
        ChargeEffects(s, amt, a, type, of, comp)' = ChargeEffects(s, amt, a, type, of, comp)
  BY <1>2 DEF ChargeEffects
<1>5. c.acct \in Account
  BY CommandFacts
<1>6. CASE c.kind \in {"reverse", "recover"}
  <2> DEFINE o == Original(c)
  <2>1. /\ Original(c)' = o /\ o.seat \in c.seats
        /\ RecoveredCents(o.seq)' = RecoveredCents(o.seq)
        /\ RecoveredCents(Original(c).seq)' = RecoveredCents(o.seq)
        /\ ExactReversals(o)' = ExactReversals(o)
    BY <1>6
  <2>2. RecoveryCents(c)' = RecoveryCents(c)
    BY <2>1 DEF RecoveryCents
  <2>3. OverRecovers(c)' = OverRecovers(c)
    BY <2>1, <2>2 DEF OverRecovers
  <2>4. Unreversible(Original(c))' = Unreversible(o)
    BY <2>1 DEF Unreversible
  <2>5. Allowed(c)' = Allowed(c)
    BY <1>6, <2>3, <2>4 DEF Allowed
  <2>6. ReversalEffects(Original(c))' = ReversalEffects(o)
    BY <1>4, <2>1 DEF ReversalEffects
  <2>7. \A s \in c.seats : EffectsFor(c, s)' = EffectsFor(c, s)
    BY <1>6, <1>4, <2>1, <2>2, <2>6 DEF EffectsFor
  <2> QED BY <2>5, <2>7
<1>7. CASE c.kind \notin {"reverse", "recover"}
  <2>1. Allowed(c)' = Allowed(c)
    BY <1>7, <1>3, <1>5 DEF Allowed
  <2>2. c.kind \in {"credit", "transfer", "charge"}
    BY <1>7, CommandFacts DEF Kinds
  <2>3. \A s \in c.seats : EffectsFor(c, s)' = EffectsFor(c, s)
    BY <1>7, <1>4, <2>2 DEF EffectsFor
  <2> QED BY <2>1, <2>3
<1> QED BY <1>6, <1>7

\* A decision stands while the rows and snapshots it was made on do.
LEMMA AgreesKept ==
  ASSUME NEW c \in Commands, NEW P, NEW B, Agrees(c, P, B),
         \A r \in B : r.seat \in c.seats,
         Allowed(c)' = Allowed(c), \A s \in c.seats : EffectsFor(c, s)' = EffectsFor(c, s)
  PROVE  Agrees(c, P, B)'
<1>1. \A r \in B : Written(c, r)'
  BY DEF Agrees, Written
<1> QED BY <1>1 DEF Agrees

\* A step that commits nothing changes no decision.
LEMMA AgreesQuiet ==
  ASSUME NEW c \in Commands, NEW P, NEW B, Agrees(c, P, B),
         \A r \in B : r.seat \in c.seats,
         c.kind \in {"reverse", "recover"} => Originals(c) # {},
         UNCHANGED <<rows, snap>>
  PROVE  Agrees(c, P, B)'
  <1>1. \A s \in c.seats, a \in Account : Available(s, a)' = Available(s, a)
    BY DEF Available, PendingRows, Posted
  <1>2. c.kind \in {"reverse", "recover"} =>
             /\ Original(c)' = Original(c) /\ Original(c).seat \in c.seats
             /\ RecoveredCents(Original(c).seq)' = RecoveredCents(Original(c).seq)
             /\ ExactReversals(Original(c))' = ExactReversals(Original(c))
    BY DEF Original, Originals, RecoveredCents, ExactReversals
  <1>3. Allowed(c)' = Allowed(c) /\ \A s \in c.seats : EffectsFor(c, s)' = EffectsFor(c, s)
    BY <1>1, <1>2, DecisionSame
  <1> QED  BY <1>3, AgreesKept

\* What the invariants say of a decided process.
LEMMA DecidedFacts ==
  ASSUME LedgerInv, CapInv, DecisionInv, NEW q \in Procs, Decided(q)
  PROVE  /\ job[q] \in Commands /\ Agrees(job[q], plan[q], buf[q])
         /\ \A r \in buf[q] : r.seat \in job[q].seats
         /\ job[q].kind \in {"reverse", "recover"} => Originals(job[q]) # {}
         /\ \A s \in job[q].seats : seatLock[s] = q
  <1>1. job[q] \in Commands /\ pc[q] \in {"class", "reserve", "write", "commit"}
    BY DEF Decided, Reserved, Writing
  <1>2. Agrees(job[q], plan[q], buf[q])
    BY DEF DecisionInv, DecisionsStand
  <1>3. \A r \in buf[q] : r.seat \in job[q].seats
    BY DEF CapInv, CorrectionsFit
  <1>4. job[q].kind \in {"reverse", "recover"} => Originals(job[q]) # {}
    BY <1>1 DEF LedgerInv, JobsRun
  <1>5. \A s \in job[q].seats : seatLock[s] = q
    BY <1>1 DEF CapInv, SeatsHeld
  <1> QED  BY <1>1, <1>2, <1>3, <1>4, <1>5

\* DecisionsStand in the next state, process by process.
LEMMA DecisionsNext ==
  ASSUME \A q \in Procs : Decided(q)' =>
           \E c, P, B : c = job'[q] /\ P = plan'[q] /\ B = buf'[q] /\ Agrees(c, P, B)'
  PROVE  DecisionsStand'
  <1> SUFFICES ASSUME NEW q \in Procs, Decided(q)'
               PROVE  Agrees(job[q], plan[q], buf[q])'
    BY DEF DecisionsStand
  <1>1. PICK c, P, B : c = job'[q] /\ P = plan'[q] /\ B = buf'[q] /\ Agrees(c, P, B)'
    OBVIOUS
  <1> QED  BY <1>1

\* A process that a step leaves alone keeps its decision.
LEMMA DecisionOther ==
  ASSUME LedgerInv, CapInv, DecisionInv, NEW q \in Procs, Decided(q),
         job'[q] = job[q], plan'[q] = plan[q], buf'[q] = buf[q], UNCHANGED <<rows, snap>>
  PROVE  \E c, P, B : c = job'[q] /\ P = plan'[q] /\ B = buf'[q] /\ Agrees(c, P, B)'
  <1>1. PICK c, P, B : c = job[q] /\ P = plan[q] /\ B = buf[q]
    OBVIOUS
  <1>2. /\ c \in Commands /\ Agrees(c, P, B) /\ \A r \in B : r.seat \in c.seats
        /\ c.kind \in {"reverse", "recover"} => Originals(c) # {}
    BY <1>1, DecidedFacts
  <1>3. Agrees(c, P, B)'
    BY <1>2, AgreesQuiet
  <1> QED  BY <1>1, <1>3

\* A step that decides, plans and writes nothing.
LEMMA DecisionStill ==
  ASSUME LedgerInv, CapInv, DecisionInv, UNCHANGED <<rows, resv, snap>>,
         \A q \in Procs : Decided(q)' =>
           Decided(q) /\ job'[q] = job[q] /\ plan'[q] = plan[q] /\ buf'[q] = buf[q],
         \A q \in Procs, a \in Account : sbuf'[q][a] # Null =>
           job'[q] \notin Commands \/ (job'[q] = job[q] /\ sbuf'[q] = sbuf[q])
  PROVE  DecisionInv'
  <1>1. DecisionsStand'
    BY DecisionOther, DecisionsNext
  <1>2. AcceptedKeys' /\ SnapshotsSettled'
    BY DEF DecisionInv, AcceptedKeys, SnapshotsSettled
  <1> QED  BY <1>1, <1>2 DEF DecisionInv

\* No command is decided in the empty ledger.
LEMMA DecisionInit == Init => DecisionInv
  <1> SUFFICES ASSUME Init PROVE DecisionInv
    OBVIOUS
  <1>1. \A p \in Procs : job[p] = Null /\ \A a \in Account : sbuf[p][a] = Null
    BY DEF Init
  <1>2. Null \notin Commands
    BY LedgerAssumption
  <1> QED  BY <1>1, <1>2 DEF Init, DecisionInv, DecisionsStand, Decided, AcceptedKeys,
                             SnapshotsSettled

\* The end of a transaction leaves the decisions of others.
LEMMA DecisionEnd ==
  ASSUME LedgerInv, CapInv, DecisionInv, NEW p \in Procs, EndWithout(p)
  PROVE  DecisionInv'
  <1>1. /\ \A q \in Procs : q # p => /\ job'[q] = job[q] /\ plan'[q] = plan[q]
                                     /\ buf'[q] = buf[q] /\ pc'[q] = pc[q] /\ sbuf'[q] = sbuf[q]
        /\ job'[p] = Null /\ UNCHANGED <<rows, resv, snap>>
    BY DEF EndWithout, Release, LedgerInv, TypeOK
  <1>2. job'[p] \notin Commands
    BY <1>1, LedgerAssumption
  <1>3. ~Decided(p)'
    BY <1>2 DEF Decided
  <1>4. \A q \in Procs : q # p => (Decided(q)' <=> Decided(q))
    BY <1>1 DEF Decided, Reserved, Writing, ClassFirst
  <1> QED  BY <1>1, <1>2, <1>3, <1>4, DecisionStill

\* A decision that is not refused is the one its effects are planned by.
LEMMA DecisionDecide ==
  ASSUME LedgerInv, CapInv, DecisionInv, NEW p \in Procs, Decide(p)
  PROVE  DecisionInv'
  <1>0. pc[p] = "decide" /\ job[p].kind # "settle"
    BY DEF Decide
  <1>1. CASE EndWithout(p)
    BY <1>1, DecisionEnd
  <1>2. CASE /\ ~Refused(p)
             /\ plan' = [plan EXCEPT ![p] = [s \in Seats |->
                           IF s \in job[p].seats THEN EffectsFor(job[p], s) ELSE <<>>]]
             /\ Goto(p, "reserve")
             /\ UNCHANGED <<rows, resv, snap, job, buf, sbuf>>
    <2>1. PICK c, P, B : c = job[p] /\ P = plan'[p] /\ B = buf[p]
      OBVIOUS
    <2>2. c \in Commands
      <3>1. job[p] # Null
        BY <1>0 DEF LedgerInv, JobsRun
      <3> QED  BY <1>0, <2>1, <3>1, SettleJobFacts DEF LedgerInv, TypeOK
    <2>3. c.seats \subseteq Seats
      BY <2>2, CommandFacts
    <2>4. \A s \in c.seats : P[s] = EffectsFor(c, s)
      BY <1>2, <2>1, <2>3 DEF LedgerInv, TypeOK
    <2>5. B = {}
      BY <1>0, <2>1 DEF LedgerInv, BuffersOwned, Writing
    <2>6. Allowed(c)
      <3>1. /\ ~(c.kind = "transfer" /\ \E s \in c.seats : Available(s, c.acct) < c.amt)
            /\ ~(c.kind = "charge" /\ c.funded /\ \E s \in c.seats : CheckingAfter(s, c.amt) < 0)
            /\ ~(c.kind = "reverse" /\ Unreversible(Original(c)))
            /\ ~(c.kind = "recover" /\ OverRecovers(c))
        BY <1>2, <2>1 DEF Refused
      <3>2. c.acct \in Account /\ c.amt \in Nat /\ "checking" \in Account
        BY <2>2, CommandFacts DEF Account
      <3>3. \A s \in c.seats : Available(s, c.acct) \in Int /\ Available(s, "checking") \in Int
        BY <2>3, <3>2, AvailableFacts DEF LedgerInv
      <3>4. \A s \in c.seats : CheckingAfter(s, c.amt) \in Int
        BY <3>2, <3>3 DEF CheckingAfter, FundingTransfer
      <3> QED  BY <3>1, <3>2, <3>3, <3>4 DEF Allowed
    <2>7. \A s \in c.seats : EffectsFor(c, s) # <<>>
      <3>1. ASSUME NEW s \in c.seats PROVE EffectsFor(c, s) # <<>>
        BY <2>1, <2>2, EffectsPlanned
      <3> QED  BY <3>1
    <2>8. Agrees(c, P, B)
      BY <2>4, <2>5, <2>6, <2>7 DEF Agrees
    <2>9. c.kind \in {"reverse", "recover"} => Originals(c) # {}
      BY <2>1, <2>2 DEF LedgerInv, JobsRun
    <2>10. Agrees(c, P, B)'
      BY <1>2, <2>2, <2>5, <2>8, <2>9, AgreesQuiet
    <2>11. \A q \in Procs : q # p => /\ pc'[q] = pc[q] /\ plan'[q] = plan[q]
      BY <1>2 DEF Goto, LedgerInv, TypeOK
    <2>12. \A q \in Procs : q # p => (Decided(q)' <=> Decided(q))
      BY <1>2, <2>11 DEF Decided, Reserved, Writing, ClassFirst
    <2>13. DecisionsStand'
      <3>1. ASSUME NEW q \in Procs, Decided(q)'
            PROVE  \E d, Q, C : d = job'[q] /\ Q = plan'[q] /\ C = buf'[q] /\ Agrees(d, Q, C)'
        <4>1. CASE q = p
          BY <1>2, <2>1, <2>10, <4>1
        <4>2. CASE q # p
          BY <1>2, <2>11, <2>12, <3>1, <4>2, DecisionOther
        <4> QED  BY <4>1, <4>2
      <3> QED  BY <3>1, DecisionsNext
    <2> QED  BY <1>2, <2>13 DEF DecisionInv, AcceptedKeys, SnapshotsSettled
  <1> QED  BY <1>1, <1>2 DEF Decide

\* A reservation changes no decision.
LEMMA DecisionReserve ==
  ASSUME LedgerInv, CapInv, DecisionInv, NEW p \in Procs, Reserve(p)
  PROVE  DecisionInv'
  <1>1. CASE EndWithout(p)
    BY <1>1, DecisionEnd
  <1>2. CASE /\ Goto(p, IF ClassFirst(job[p]) THEN "write" ELSE "class")
             /\ UNCHANGED <<rows, resv, snap, job, plan, buf, sbuf>>
    <2>1. \A q \in Procs : q # p => pc'[q] = pc[q]
      BY <1>2 DEF Goto, LedgerInv, TypeOK
    <2>2. \A q \in Procs : Decided(q)' => Decided(q)
      <3>1. pc[p] = "reserve"
        BY DEF Reserve
      <3> QED  BY <1>2, <2>1, <3>1 DEF Decided, Reserved, Writing, ClassFirst
    <2> QED  BY <1>2, <2>2, DecisionStill
  <1> QED  BY <1>1, <1>2 DEF Reserve

\* The rows written for a seat are its planned effects.
LEMMA DecisionWrite ==
  ASSUME LedgerInv, OnceInv, CapInv, DecisionInv, NEW p \in Procs, Write(p)
  PROVE  DecisionInv'
  <1>0. PICK s \in SeatsToWrite(p) :
          /\ buf' = [buf EXCEPT ![p] = buf[p] \cup NewRows(p, s)]
          /\ plan' = [plan EXCEPT ![p][s] = <<>>]
          /\ pc' = [pc EXCEPT ![p] = IF SeatsToWrite(p) = {s} THEN "commit" ELSE "write"]
    BY DEF Write, Goto
  <1>1. pc[p] = "write" /\ UNCHANGED <<rows, resv, snap, job, sbuf>>
    BY DEF Write
  <1>2. s \in Seats /\ plan[p][s] # <<>>
    BY DEF SeatsToWrite
  <1>3. /\ \A q \in Procs : q # p => pc'[q] = pc[q] /\ buf'[q] = buf[q] /\ plan'[q] = plan[q]
        /\ pc'[p] \in {"write", "commit"}
        /\ buf'[p] = buf[p] \cup NewRows(p, s)
        /\ \A t \in Seats : plan'[p][t] = IF t = s THEN <<>> ELSE plan[p][t]
    BY <1>0, <1>2 DEF LedgerInv, TypeOK
  <1>4. \A q \in Procs : Decided(q)' <=> Decided(q)
    BY <1>1, <1>3 DEF Decided, Reserved, Writing, ClassFirst
  <1>5. Decided(p)
    BY <1>1 DEF Decided, Reserved, Writing, LedgerInv, JobsRun
  <1>6. PICK c, P, B : c = job[p] /\ P = plan'[p] /\ B = buf'[p]
    OBVIOUS
  <1>7. /\ c \in Commands /\ Agrees(c, plan[p], buf[p])
        /\ \A r \in buf[p] : r.seat \in c.seats
        /\ c.kind \in {"reverse", "recover"} => Originals(c) # {}
    BY <1>5, <1>6, DecidedFacts
  <1>8. s \in c.seats /\ c.seats \subseteq Seats
    BY <1>2, <1>6, <1>7, CommandFacts DEF CapInv, PlansOwned
  <1>9. plan[p][s] = EffectsFor(c, s)
    BY <1>2, <1>7, <1>8 DEF Agrees
  <1>10. \A i \in DOMAIN plan[p][s] : plan[p][s][i].seat = s
    BY <1>2 DEF OnceInv, PlansCarriedOut
  <1>11. \A r \in NewRows(p, s) : r.seat = s /\ Written(c, r)
    <2>1. ASSUME NEW r \in NewRows(p, s) PROVE r.seat = s /\ Written(c, r)
      <3>1. PICK i \in DOMAIN plan[p][s] :
              r = RowOf(plan[p][s][i], NextSequence(p) + i - 1, job[p].key, i)
        BY <2>1 DEF NewRows
      <3>2. r.seat = s /\ r.leg = i /\ r.seq = NextSequence(p) + i - 1
        BY <1>10, <3>1 DEF RowOf
      <3>3. r = RowOf(plan[p][s][i], r.seq, c.key, i)
        BY <1>6, <3>1, <3>2
      <3> QED  BY <1>9, <3>2, <3>3 DEF Written
    <2> QED  BY <2>1
  <1>12. \A i \in DOMAIN EffectsFor(c, s) : \E r \in NewRows(p, s) : r.seat = s /\ r.leg = i
    <2>1. ASSUME NEW i \in DOMAIN plan[p][s]
          PROVE  \E r \in NewRows(p, s) : r.leg = i
      <3>1. RowOf(plan[p][s][i], NextSequence(p) + i - 1, job[p].key, i) \in NewRows(p, s)
        BY DEF NewRows
      <3> QED  BY <3>1 DEF RowOf
    <2> QED  BY <1>9, <1>11, <2>1
  <1>13. Agrees(c, P, B)
    <2>1. \A t \in c.seats : P[t] # <<>> => P[t] = EffectsFor(c, t)
      BY <1>3, <1>6, <1>7, <1>8 DEF Agrees
    <2>2. ASSUME NEW t \in c.seats, P[t] = <<>>, NEW i \in DOMAIN EffectsFor(c, t)
          PROVE  \E r \in B : r.seat = t /\ r.leg = i
      <3>1. CASE t = s
        BY <1>3, <1>6, <1>12, <2>2, <3>1
      <3>2. CASE t # s
        <4>1. plan[p][t] = <<>>
          BY <1>3, <1>6, <1>8, <2>2, <3>2
        <4> QED  BY <1>3, <1>6, <1>7, <2>2, <4>1 DEF Agrees
      <3> QED  BY <3>1, <3>2
    <2>3. \A r \in B : Written(c, r)
      BY <1>3, <1>6, <1>7, <1>11 DEF Agrees
    <2> QED  BY <1>7, <2>1, <2>2, <2>3 DEF Agrees
  <1>14. Agrees(c, P, B)'
    <2>1. \A r \in B : r.seat \in c.seats
      BY <1>3, <1>6, <1>7, <1>8, <1>11
    <2> QED  BY <1>1, <1>7, <1>13, <2>1, AgreesQuiet
  <1>15. DecisionsStand'
    <2>1. ASSUME NEW q \in Procs, Decided(q)'
          PROVE  \E d, Q, C : d = job'[q] /\ Q = plan'[q] /\ C = buf'[q] /\ Agrees(d, Q, C)'
      <3>1. CASE q = p
        BY <1>1, <1>6, <1>14, <3>1
      <3>2. CASE q # p
        BY <1>1, <1>3, <1>4, <2>1, <3>2, DecisionOther
      <3> QED  BY <3>1, <3>2
    <2> QED  BY <2>1, DecisionsNext
  <1> QED  BY <1>1, <1>15 DEF DecisionInv, AcceptedKeys, SnapshotsSettled

\* A commit changes the balances of the seats its process holds, and no others.
LEMMA AvailableElsewhere ==
  ASSUME LedgerInv, CapInv, NEW p \in Procs, Commit(p), NEW s \in Seats, s \notin job[p].seats,
         NEW a \in Account
  PROVE  Available(s, a)' = Available(s, a)
  <1>0. rows' = rows \cup buf[p]
    BY DEF Commit
  <1>1. \A r \in buf[p] : r.seat # s
    BY DEF CapInv, CorrectionsFit
  <1>2. \A x \in Account : snap'[s][x] = snap[s][x]
    BY DEF Commit
  <1>3. \A cursor : AdmittedRows(rows, s, a, cursor)' = AdmittedRows(rows, s, a, cursor)
    BY <1>0, <1>1 DEF AdmittedRows
  <1>4. \A cursor : PostedHistoryCents(rows, s, a, cursor)' = PostedHistoryCents(rows, s, a, cursor)
    BY <1>3 DEF PostedHistoryCents
  <1>5. {r \in PendingRows(s) : r.acct = a}' = {r \in PendingRows(s) : r.acct = a}
    <2>1. \A r \in rows : r.acct \in Account
      BY DEF LedgerInv, TypeOK, Row
    <2> QED  BY <1>0, <1>1, <1>2, <2>1 DEF PendingRows, Posted
  <1> QED  BY <1>2, <1>4, <1>5 DEF Available

\* A commit leaves what others have decided under their locks.
LEMMA DecisionCommitOther ==
  ASSUME LedgerInv, OnceInv, CapInv, DecisionInv, NEW p \in Procs, Commit(p),
         NEW q \in Procs, q # p, Decided(q)
  PROVE  \E c, P, B : c = job'[q] /\ P = plan'[q] /\ B = buf'[q] /\ Agrees(c, P, B)'
  <1>0. pc[p] = "commit"
    BY DEF Commit
  <1>1. PICK c, P, B : c = job[q] /\ P = plan[q] /\ B = buf[q]
    OBVIOUS
  <1>2. /\ c \in Commands /\ Agrees(c, P, B) /\ \A r \in B : r.seat \in c.seats
        /\ c.kind \in {"reverse", "recover"} => Originals(c) # {}
        /\ \A s \in c.seats : seatLock[s] = q
    BY <1>1, DecidedFacts
  <1>3. job'[q] = c /\ plan'[q] = P /\ buf'[q] = B
    BY <1>1, CommitFacts
  <1>4. \A s \in job[p].seats : seatLock[s] = p
    BY <1>0 DEF CapInv, SeatsHeld
  <1>5. \A s \in c.seats : s \in Seats /\ s \notin job[p].seats
    BY <1>2, <1>4, CommandFacts
  <1>6. \A s \in c.seats, a \in Account : Available(s, a)' = Available(s, a)
    BY <1>5, AvailableElsewhere
  <1>7. c.kind \in {"reverse", "recover"} =>
             /\ Original(c)' = Original(c) /\ Original(c).seat \in c.seats
             /\ RecoveredCents(Original(c).seq)' = RecoveredCents(Original(c).seq)
             /\ ExactReversals(Original(c))' = ExactReversals(Original(c))
    <2> SUFFICES ASSUME Originals(c) # {}
                 PROVE  /\ Original(c)' = Original(c) /\ Original(c).seat \in c.seats
                        /\ RecoveredCents(Original(c).seq)' = RecoveredCents(Original(c).seq)
                        /\ ExactReversals(Original(c))' = ExactReversals(Original(c))
      BY <1>2
    <2>1. PICK o : o = Original(c)
      OBVIOUS
    <2>2. Original(c)' = o
      BY <2>1, OriginalStays
    <2>3. o \in rows /\ o.seat \in c.seats
      BY <2>1 DEF Original, Originals
    <2>4. \A r \in buf[p] : r.of # o.seq
      <3> SUFFICES ASSUME NEW r \in buf[p], r.of = o.seq PROVE FALSE
        OBVIOUS
      <3>1. o.seq # 0
        BY <2>3 DEF LedgerInv, TypeOK, Row
      <3>2. /\ Original(job[p]) \in rows /\ Original(job[p]).seq = o.seq
            /\ seatLock[Original(job[p]).seat] = p
        BY <1>0, <3>1, CommittedCorrection
      <3>3. Original(job[p]) = o
        BY <2>3, <3>2 DEF CapInv, RowsIdentified
      <3> QED  BY <1>2, <2>3, <3>2, <3>3
    <2>5. RecoveredCents(o.seq)' = RecoveredCents(o.seq) /\ ExactReversals(o)' = ExactReversals(o)
      BY <2>4, Uncorrected
    <2>6. /\ RecoveredCents(Original(c).seq)' = RecoveredCents(o.seq)'
          /\ ExactReversals(Original(c))' = ExactReversals(o)'
      BY <2>2 DEF RecoveredCents, ExactReversals
    <2> QED  BY <2>1, <2>2, <2>3, <2>5, <2>6
  <1>8. Allowed(c)' = Allowed(c) /\ \A s \in c.seats : EffectsFor(c, s)' = EffectsFor(c, s)
    BY <1>2, <1>6, <1>7, DecisionSame
  <1>9. Agrees(c, P, B)'
    BY <1>2, <1>8, AgreesKept
  <1> QED  BY <1>3, <1>9

\* A commit ends its own decision, and accepts its command under its key.
LEMMA DecisionCommit ==
  ASSUME LedgerInv, OnceInv, CapInv, DecisionInv, NEW p \in Procs, Commit(p)
  PROVE  DecisionInv'
  <1>0. pc[p] = "commit" /\ job'[p] = Null /\ pc'[p] = "idle"
    BY DEF Commit, Release, LedgerInv, TypeOK
  <1>1. \A q \in Procs : q # p => /\ job'[q] = job[q] /\ pc'[q] = pc[q] /\ sbuf'[q] = sbuf[q]
    BY DEF Commit, Release, LedgerInv, TypeOK
  <1>2. job'[p] \notin Commands
    BY <1>0, LedgerAssumption
  <1>3. \A q \in Procs : Decided(q)' => q # p /\ Decided(q)
    BY <1>1, <1>2 DEF Decided, Reserved, Writing, ClassFirst
  <1>4. DecisionsStand'
    BY <1>3, DecisionCommitOther, DecisionsNext
  <1>5. AcceptedKeys'
    <2>1. ASSUME NEW k \in Keys, resLock[k] = p PROVE job[p] \in Commands /\ job[p].key = k
      BY <2>1 DEF OnceInv, KeysReserved, LedgerInv, ReservationsOwned
    <2>2. \A k \in Keys : resv'[k] = IF resLock[k] = p THEN job[p] ELSE resv[k]
      BY DEF Commit
    <2> QED  BY <2>1, <2>2 DEF DecisionInv, AcceptedKeys
  <1>6. SnapshotsSettled'
    BY <1>1, <1>2 DEF DecisionInv, SnapshotsSettled
  <1> QED  BY <1>4, <1>5, <1>6 DEF DecisionInv

\* Every step keeps the decisions standing.
LEMMA DecisionNext ==
  ASSUME LedgerInv, OnceInv, CapInv, DecisionInv, [Next]_vars
  PROVE  DecisionInv'
  <1>1. ASSUME NEW w \in Workers, NEW c \in Commands, Submit(w, c) PROVE DecisionInv'
    <2>1. w \in Procs /\ pc[w] = "idle" /\ pc'[w] = "seat"
      BY <1>1 DEF Submit, Goto, Procs, LedgerInv, TypeOK
    <2>2. /\ UNCHANGED <<rows, resv, snap, plan, buf, sbuf>>
          /\ \A q \in Procs : q # w => pc'[q] = pc[q] /\ job'[q] = job[q]
      BY <1>1, <2>1 DEF Submit, Goto, LedgerInv, TypeOK
    <2>3. \A q \in Procs : Decided(q)' => q # w /\ Decided(q)
      BY <2>1, <2>2 DEF Decided, Reserved, Writing, ClassFirst
    <2>4. \A a \in Account : sbuf[w][a] = Null
      BY <2>1 DEF LedgerInv, BuffersOwned
    <2> QED  BY <2>2, <2>3, <2>4, DecisionStill
  <1>2. CASE SweepStart
    <2>1. UNCHANGED <<rows, resv, snap, plan, buf, sbuf, pc, job>>
      BY <1>2 DEF SweepStart
    <2>2. \A q \in Procs : Decided(q)' => Decided(q)
      BY <2>1 DEF Decided, Reserved, Writing, ClassFirst
    <2> QED  BY <2>1, <2>2, DecisionStill
  <1>3. CASE SweepNext
    <2>1. Sweeper \in Procs /\ pc[Sweeper] = "idle" /\ pc'[Sweeper] = "seat"
      BY <1>3 DEF SweepNext, Goto, Procs, LedgerInv, TypeOK
    <2>2. /\ UNCHANGED <<rows, resv, snap, plan, buf, sbuf>>
          /\ \A q \in Procs : q # Sweeper => pc'[q] = pc[q] /\ job'[q] = job[q]
      BY <1>3, <2>1 DEF SweepNext, Goto, LedgerInv, TypeOK
    <2>3. \A q \in Procs : Decided(q)' => q # Sweeper /\ Decided(q)
      BY <2>1, <2>2 DEF Decided, Reserved, Writing, ClassFirst
    <2>4. \A a \in Account : sbuf[Sweeper][a] = Null
      BY <2>1 DEF LedgerInv, BuffersOwned
    <2> QED  BY <2>2, <2>3, <2>4, DecisionStill
  <1>4. ASSUME NEW p \in Procs, LockSeat(p) PROVE DecisionInv'
    <2>1. /\ UNCHANGED <<rows, resv, snap, plan, buf, sbuf, job>>
          /\ \A q \in Procs : q # p => pc'[q] = pc[q]
          /\ pc'[p] \in {"seat", "class", "decide"} /\ (pc'[p] = "class" => ClassFirst(job[p]))
      BY <1>4 DEF LockSeat, Goto, LedgerInv, TypeOK
    <2>2. \A q \in Procs : Decided(q)' => Decided(q)
      BY <2>1 DEF Decided, Reserved, Writing, ClassFirst
    <2> QED  BY <2>1, <2>2, DecisionStill
  <1>5. ASSUME NEW p \in Procs, LockClass(p) PROVE DecisionInv'
    <2>1. /\ UNCHANGED <<rows, resv, snap, plan, buf, sbuf, job>>
          /\ \A q \in Procs : q # p => pc'[q] = pc[q]
          /\ pc[p] = "class" /\ pc'[p] = IF ClassFirst(job[p]) THEN "decide" ELSE "write"
      BY <1>5 DEF LockClass, Goto, LedgerInv, TypeOK
    <2>2. \A q \in Procs : Decided(q)' => Decided(q)
      BY <2>1 DEF Decided, Reserved, Writing, ClassFirst
    <2> QED  BY <2>1, <2>2, DecisionStill
  <1>6. ASSUME NEW p \in Procs, Settle(p) PROVE DecisionInv'
    <2>1. CASE EndWithout(p)
      BY <2>1, DecisionEnd
    <2>2. CASE /\ job[p].kind = "settle" /\ Goto(p, "commit")
               /\ UNCHANGED <<rows, resv, snap, plan, buf, job>>
               /\ \A q \in Procs : q # p => sbuf'[q] = sbuf[q]
      <3>1. job[p] \notin Commands
        BY <2>2, LedgerAssumption DEF Command, Kinds
      <3>2. \A q \in Procs : q # p => pc'[q] = pc[q]
        BY <2>2 DEF Goto, LedgerInv, TypeOK
      <3>3. \A q \in Procs : Decided(q)' => Decided(q)
        BY <2>2, <3>1, <3>2 DEF Decided, Reserved, Writing, ClassFirst
      <3> QED  BY <2>2, <3>1, <3>3, DecisionStill
    <2> QED  BY <1>6, <2>1, <2>2 DEF Settle, LedgerInv, TypeOK
  <1>7. ASSUME NEW p \in Procs, Step(p) \/ Fail(p) PROVE DecisionInv'
    BY <1>4, <1>5, <1>6, <1>7, DecisionDecide, DecisionReserve, DecisionWrite, DecisionCommit,
       DecisionEnd DEF Step, Fail
  <1>8. CASE UNCHANGED vars
    <2>1. UNCHANGED <<rows, resv, snap, plan, buf, sbuf, pc, job>>
      BY <1>8 DEF vars
    <2>2. \A q \in Procs : Decided(q)' => Decided(q)
      BY <2>1 DEF Decided, Reserved, Writing, ClassFirst
    <2> QED  BY <2>1, <2>2, DecisionStill
  <1> QED  BY <1>1, <1>2, <1>3, <1>7, <1>8 DEF Next

\* DecisionInv holds in every reachable state.
LEMMA DecisionInvariant == Spec => []DecisionInv
  <1>1. LedgerInv /\ OnceInv /\ CapInv /\ DecisionInv /\ [Next]_vars => DecisionInv'
    BY DecisionNext
  <1> QED  BY <1>1, DecisionInit, LedgerInvariant, OnceInvariant, CapInvariant, PTL DEF Spec

-----------------------------------------------------------------------------
(***************************************************************************)
(* Entries and balances.                                                   *)
(***************************************************************************)

\* What effect i of E adds to account a, and what up to three effects add to it.
Share(E, i, a) == IF i \in DOMAIN E /\ E[i].acct = a THEN E[i].amt ELSE 0

Change(E, a) == Share(E, 1, a) + Share(E, 2, a) + Share(E, 3, a)

\* The rows that carry a seat's effects one by one sum to the effects' change.
LEMMA RowsChange ==
  ASSUME NEW B \in SUBSET Row, IsFiniteSet(B), NEW s, NEW a, NEW E, DOMAIN E \subseteq 1..3,
         \A r \in B : r.seat = s =>
           r.leg \in DOMAIN E /\ r.acct = E[r.leg].acct /\ r.amt = E[r.leg].amt,
         \A i \in DOMAIN E : \E r \in B : r.seat = s /\ r.leg = i,
         \A q, r \in B : q.seat = r.seat /\ q.leg = r.leg => q = r
  PROVE  SumAmounts(AccountRows(B, s, a)) = Change(E, a)
  <1> DEFINE Leg(i) == {r \in B : r.seat = s /\ r.acct = a /\ r.leg = i}
  <1>1. ASSUME NEW i \in 1..3
        PROVE  /\ Leg(i) \in SUBSET Row /\ IsFiniteSet(Leg(i))
               /\ SumAmounts(Leg(i)) = Share(E, i, a)
    <2>1. Leg(i) \in SUBSET B /\ Leg(i) \in SUBSET Row
      OBVIOUS
    <2>2. IsFiniteSet(Leg(i))
      BY <2>1, FS_Subset
    <2>3. CASE i \in DOMAIN E /\ E[i].acct = a
      <3>1. PICK r \in B : r.seat = s /\ r.leg = i
        BY <2>3
      <3>2. r.acct = a /\ r.amt = E[i].amt /\ r \in Row
        BY <2>3, <3>1
      <3>3. Leg(i) = {r}
        BY <3>1, <3>2
      <3>4. AmountOf[r] = r.amt /\ r.amt \in Int
        BY <3>2 DEF AmountOf, Row
      <3> HIDE DEF Leg
      <3>5. SumAmounts(Leg(i)) = Total(AmountOf, Leg(i))
        BY <2>1, <2>2, SumIsTotal
      <3>6. Total(AmountOf, {r}) = r.amt
        BY <3>4, TotalOne
      <3> QED  BY <2>1, <2>2, <2>3, <3>2, <3>3, <3>5, <3>6 DEF Share
    <2>4. CASE ~(i \in DOMAIN E /\ E[i].acct = a)
      <3>1. Leg(i) = {}
        BY <2>4
      <3> QED  BY <2>1, <2>2, <2>4, <3>1, SumFacts DEF Share
    <2> QED  BY <2>3, <2>4
  <1>2. AccountRows(B, s, a) = Leg(1) \cup (Leg(2) \cup Leg(3))
    BY DEF AccountRows
  <1>3. Leg(2) \cap Leg(3) = {} /\ Leg(1) \cap (Leg(2) \cup Leg(3)) = {}
    OBVIOUS
  <1> HIDE DEF Leg
  <1>4. /\ Leg(1) \in SUBSET Row /\ IsFiniteSet(Leg(1)) /\ SumAmounts(Leg(1)) = Share(E, 1, a)
        /\ Leg(2) \in SUBSET Row /\ IsFiniteSet(Leg(2)) /\ SumAmounts(Leg(2)) = Share(E, 2, a)
        /\ Leg(3) \in SUBSET Row /\ IsFiniteSet(Leg(3)) /\ SumAmounts(Leg(3)) = Share(E, 3, a)
    BY <1>1
  <1>5. SumAmounts(Leg(2) \cup Leg(3)) = SumAmounts(Leg(2)) + SumAmounts(Leg(3))
    BY <1>3, <1>4, SumOfUnion
  <1>6. Leg(2) \cup Leg(3) \in SUBSET Row /\ IsFiniteSet(Leg(2) \cup Leg(3))
    BY <1>4, FS_Union
  <1>7. SumAmounts(Leg(1) \cup (Leg(2) \cup Leg(3)))
          = SumAmounts(Leg(1)) + SumAmounts(Leg(2) \cup Leg(3))
    BY <1>3, <1>4, <1>6, SumOfUnion
  <1>8. SumAmounts(Leg(1)) \in Int /\ SumAmounts(Leg(2)) \in Int /\ SumAmounts(Leg(3)) \in Int
    BY SumFacts
  <1> QED  BY <1>2, <1>4, <1>5, <1>7, <1>8 DEF Change

\* A charge is its principal, alone or after the two legs that fund it.
LEMMA ChargeShape ==
  ASSUME NEW s, NEW amt, NEW a, NEW type, NEW of, NEW comp
  PROVE  LET t == FundingTransfer(s, amt, a)
             principal == Effect(s, a, -amt, type, of, comp)
         IN  ChargeEffects(s, amt, a, type, of, comp) =
               IF t > 0 THEN << Effect(s, "savings", -t, "Withdrawal", 0, 0),
                                Effect(s, "checking", t, "Deposit", 0, 0), principal >>
               ELSE << principal >>
  <1> DEFINE t == FundingTransfer(s, amt, a)
             principal == Effect(s, a, -amt, type, of, comp)
             x == Effect(s, "savings", -t, "Withdrawal", 0, 0)
             y == Effect(s, "checking", t, "Deposit", 0, 0)
  <1>1. TransferPair(s, t, "savings") = << x, y >>
    BY DEF TransferPair, Other
  <1>2. << x, y >> \o << principal >> = << x, y, principal >>
    <2> HIDE DEF x, y, principal
    <2> QED  BY ConcatTriple
  <1> QED  BY <1>1, <1>2 DEF ChargeEffects

\* A charge is the promised debit: same legs, same balances.
LEMMA ChargeIsDebit ==
  ASSUME TypeOK, NEW s \in Seats, NEW amt \in Nat, amt > 0, NEW a \in Account,
         NEW type, NEW of, NEW comp,
         NEW E, E = ChargeEffects(s, amt, a, type, of, comp),
         NEW D, D = Atomic!Debit(Balances[s], amt, a, type)
  PROVE  /\ DOMAIN E \subseteq 1..3 /\ DOMAIN D = DOMAIN E
         /\ \A i \in DOMAIN E : D[i] = Atomic!Part(E[i].acct, E[i].amt, E[i].type)
         /\ Atomic!Debited(Balances[s], amt, a) = [x \in Account |-> Available(s, x) + Change(E, x)]
         /\ \E i \in DOMAIN E : E[i] = Effect(s, a, -amt, type, of, comp)
  <1> DEFINE t == FundingTransfer(s, amt, a)
  <1>1. "checking" \in Account /\ "savings" \in Account /\ Account = {"checking", "savings"}
        /\ Atomic!Accounts = Account
    BY DEF Account, Atomic!Accounts
  <1>2. Available(s, "checking") \in Int /\ Available(s, "savings") \in Int
    BY <1>1, AvailableFacts
  <1>3. /\ Balances[s]["checking"] = Available(s, "checking")
        /\ Balances[s]["savings"] = Available(s, "savings")
        /\ \A x \in Account : Balances[s][x] = Available(s, x)
    BY <1>1 DEF Balances
  <1>4. Atomic!Cover(Balances[s], amt, a) = t
    BY <1>2, <1>3 DEF Atomic!Cover, FundingTransfer
  <1>5. t \in Nat /\ (t > 0 => a = "checking")
    BY <1>2 DEF FundingTransfer
  <1> HIDE DEF t
  <1>6. CASE t > 0
    <2>1. E = << Effect(s, "savings", -t, "Withdrawal", 0, 0),
                 Effect(s, "checking", t, "Deposit", 0, 0),
                 Effect(s, a, -amt, type, of, comp) >>
      BY <1>6, ChargeShape DEF t
    <2>2. D = << Atomic!Part("savings", -t, "Withdrawal"), Atomic!Part("checking", t, "Deposit"),
                 Atomic!Part(a, -amt, type) >>
      BY <1>4, <1>6 DEF Atomic!Debit
    <2>3. /\ DOMAIN E = 1..3 /\ DOMAIN D = 1..3
          /\ E[1] = Effect(s, "savings", -t, "Withdrawal", 0, 0)
          /\ E[2] = Effect(s, "checking", t, "Deposit", 0, 0)
          /\ E[3] = Effect(s, a, -amt, type, of, comp)
          /\ D[1] = Atomic!Part("savings", -t, "Withdrawal")
          /\ D[2] = Atomic!Part("checking", t, "Deposit") /\ D[3] = Atomic!Part(a, -amt, type)
      BY <2>1, <2>2
    <2>4. \A i \in 1..3 : i = 1 \/ i = 2 \/ i = 3
      OBVIOUS
    <2>5. \A i \in DOMAIN E : D[i] = Atomic!Part(E[i].acct, E[i].amt, E[i].type)
      BY <2>3, <2>4 DEF Effect
    <2>6. /\ Change(E, "savings") = -t
          /\ Change(E, "checking") = t - amt
      BY <1>5, <1>6, <2>3 DEF Change, Share, Effect
    <2>7. ASSUME NEW x \in Account
          PROVE  Atomic!Debited(Balances[s], amt, a)[x] = Available(s, x) + Change(E, x)
      <3>1. CASE x = "checking"
        BY <1>1, <1>2, <1>3, <1>4, <1>5, <1>6, <2>6, <3>1 DEF Atomic!Debited
      <3>2. CASE x = "savings"
        BY <1>1, <1>2, <1>3, <1>4, <1>5, <1>6, <2>6, <3>2 DEF Atomic!Debited
      <3> QED  BY <1>1, <3>1, <3>2
    <2>8. Atomic!Debited(Balances[s], amt, a) = [x \in Account |-> Available(s, x) + Change(E, x)]
      BY <1>1, <2>7 DEF Atomic!Debited
    <2> QED  BY <2>3, <2>5, <2>8
  <1>7. CASE ~(t > 0)
    <2>1. E = << Effect(s, a, -amt, type, of, comp) >>
      BY <1>7, ChargeShape DEF t
    <2>2. D = << Atomic!Part(a, -amt, type) >>
      BY <1>4, <1>7 DEF Atomic!Debit
    <2>3. /\ DOMAIN E = {1} /\ DOMAIN D = {1} /\ E[1] = Effect(s, a, -amt, type, of, comp)
          /\ D[1] = Atomic!Part(a, -amt, type)
      BY <2>1, <2>2
    <2>4. t = 0
      BY <1>5, <1>7
    <2>5. \A x \in Account : Change(E, x) = IF x = a THEN -amt ELSE 0
      BY <2>3 DEF Change, Share, Effect
    <2>6. ASSUME NEW x \in Account
          PROVE  Atomic!Debited(Balances[s], amt, a)[x] = Available(s, x) + Change(E, x)
      <3>1. Available(s, x) \in Int /\ Balances[s][x] = Available(s, x)
        BY <1>3, AvailableFacts
      <3>2. Atomic!Debited(Balances[s], amt, a)[x] = Available(s, x) - (IF x = a THEN amt ELSE 0)
        BY <1>1, <1>4, <2>4, <3>1 DEF Atomic!Debited
      <3> QED  BY <2>5, <3>1, <3>2
    <2>7. Atomic!Debited(Balances[s], amt, a) = [x \in Account |-> Available(s, x) + Change(E, x)]
      BY <1>1, <2>6 DEF Atomic!Debited
    <2>8. \A i \in DOMAIN E : D[i] = Atomic!Part(E[i].acct, E[i].amt, E[i].type)
      BY <2>3 DEF Effect
    <2> QED  BY <2>3, <2>7, <2>8
  <1> QED  BY <1>6, <1>7

\* What is recovered of a row is recovered of its entry, and so is its reversal.
CorrectionsVisible ==
  \A y \in rows :
    /\ EntryOf(y) \in Entries
    /\ Recovered[EntryOf(y)] = RecoveredCents(y.seq)
    /\ EntryOf(y) \in Reversed <=> ExactReversals(y) # {}

\* Entries tell rows apart, since a command writes each of its legs once.
LEMMA EntriesIdentify == ExactlyOnce => CorrectionsVisible
  <1> SUFFICES ASSUME ExactlyOnce, NEW y \in rows
               PROVE  /\ EntryOf(y) \in Entries
                      /\ Recovered[EntryOf(y)] = RecoveredCents(y.seq)
                      /\ EntryOf(y) \in Reversed <=> ExactReversals(y) # {}
    BY DEF CorrectionsVisible
  <1>1. EntryOf(y) \in Entries
    BY DEF Entries
  <1>2. \A q, r \in rows : q.key = r.key /\ q.seat = r.seat /\ q.leg = r.leg => q = r
    BY DEF ExactlyOnce
  <1>3. \A q, r \in rows : EntryOf(q) = EntryOf(r) => q = r
    BY <1>2 DEF EntryOf
  <1>4. (CHOOSE r \in rows : EntryOf(r) = EntryOf(y)) = y
    BY <1>3
  <1>5. Recovered[EntryOf(y)] = RecoveredCents(y.seq)
    BY <1>1, <1>4 DEF Recovered
  <1>6. EntryOf(y) \in Reversed <=> ExactReversals(y) # {}
    BY <1>3 DEF Reversed
  <1> QED  BY <1>1, <1>5, <1>6

\* What holds before and after a step of the ledger.
Seen == AvailableIsHistory /\ CorrectionsVisible

RefinementInv == LedgerInv /\ OnceInv /\ CapInv /\ DecisionInv /\ Seen

\* The rows a command commits are its effects, one row each.
LEMMA CommittedRows ==
  ASSUME RefinementInv, NEW p \in Procs, Commit(p), NEW c \in Commands, c = job[p]
  PROVE  /\ buf[p] \subseteq Row /\ IsFiniteSet(buf[p]) /\ Allowed(c)
         /\ \A r \in buf[p] :
              r.key = c.key /\ r.seat \in c.seats /\ Written(c, r)
         /\ \A s \in c.seats : \A i \in DOMAIN EffectsFor(c, s) :
              \E r \in buf[p] : r.seat = s /\ r.leg = i
         /\ \A q, r \in buf[p] : q.seat = r.seat /\ q.leg = r.leg => q = r
         /\ resv[c.key] = Null /\ resLock[c.key] = p
  <1> USE DEF RefinementInv
  <1>0. pc[p] = "commit" /\ Decided(p)
    BY DEF Commit, Decided, Reserved, Writing
  <1>1. Agrees(c, plan[p], buf[p]) /\ \A r \in buf[p] : r.seat \in c.seats
    BY <1>0, DecidedFacts
  <1>2. \A s \in c.seats : plan[p][s] = <<>>
    BY <1>0, CommandFacts DEF OnceInv, PlansCarriedOut
  <1>3. \A s \in c.seats : \A i \in DOMAIN EffectsFor(c, s) :
              \E r \in buf[p] : r.seat = s /\ r.leg = i
    BY <1>1, <1>2 DEF Agrees
  <1>4. buf[p] \subseteq Row /\ IsFiniteSet(buf[p])
    BY DEF LedgerInv, TypeOK, CapInv, RowsIdentified
  <1>5. /\ \A r \in buf[p] : r.key = c.key
        /\ \A q, r \in buf[p] : q.seat = r.seat /\ q.leg = r.leg => q = r
    BY DEF OnceInv, BuffersUnique
  <1>6. resv[c.key] = Null /\ resLock[c.key] = p
    BY <1>0, CommandFacts DEF OnceInv, KeysReserved, Reserved, Writing
  <1> QED  BY <1>1, <1>3, <1>4, <1>5, <1>6 DEF Agrees

\* A command has one to three effects on a seat.
LEMMA EffectsDomain ==
  ASSUME NEW c \in Commands, NEW s
  PROVE  DOMAIN EffectsFor(c, s) \subseteq 1..3
  <1>1. \A q, amt, a, type, of, comp : DOMAIN ChargeEffects(q, amt, a, type, of, comp) \subseteq 1..3
    <2> TAKE q, amt, a, type, of, comp
    <2> DEFINE E == ChargeEffects(q, amt, a, type, of, comp)
               t == FundingTransfer(q, amt, a)
               x == Effect(q, "savings", -t, "Withdrawal", 0, 0)
               y == Effect(q, "checking", t, "Deposit", 0, 0)
               z == Effect(q, a, -amt, type, of, comp)
    <2>1. E = IF t > 0 THEN << x, y, z >> ELSE << z >>
      BY ChargeShape
    <2> HIDE DEF E, t, x, y, z
    <2>2. DOMAIN E = 1..3 \/ DOMAIN E = 1..1
      BY <2>1
    <2>3. DOMAIN E \subseteq 1..3
      BY <2>2
    <2> QED  BY <2>3 DEF E
  <1>2. c.kind \in Kinds
    BY CommandFacts
  <1>3. CASE c.kind = "credit"
    BY <1>3 DEF EffectsFor
  <1>4. CASE c.kind = "transfer"
    BY <1>4 DEF EffectsFor, TransferPair
  <1>5. CASE c.kind = "charge"
    BY <1>1, <1>5 DEF EffectsFor
  <1>6. CASE c.kind = "reverse"
    <2>1. CASE Original(c).amt > 0
      BY <1>1, <1>6, <2>1 DEF EffectsFor, ReversalEffects
    <2>2. CASE ~(Original(c).amt > 0)
      BY <1>6, <2>2 DEF EffectsFor, ReversalEffects
    <2> QED  BY <2>1, <2>2
  <1>7. CASE c.kind = "recover"
    BY <1>1, <1>7 DEF EffectsFor
  <1> QED  BY <1>2, <1>3, <1>4, <1>5, <1>6, <1>7 DEF Kinds

\* A commit changes the balances of its command's seats by the command's effects.
LEMMA BalancesAfter ==
  ASSUME RefinementInv, Seen', NEW p \in Procs, Commit(p), NEW c \in Commands, c = job[p],
         NEW s \in Seats, NEW a \in Account
  PROVE  Available(s, a)' =
           Available(s, a) + (IF s \in c.seats THEN Change(EffectsFor(c, s), a) ELSE 0)
  <1> USE DEF RefinementInv
  <1>1. /\ rows' = rows \cup buf[p] /\ \A q \in rows, r \in buf[p] : q.seq # r.seq
        /\ rows \subseteq Row /\ IsFiniteSet(rows)
    BY CommitFacts DEF LedgerInv, TypeOK, CapInv, RowsIdentified
  <1>2. /\ buf[p] \subseteq Row /\ IsFiniteSet(buf[p])
        /\ \A r \in buf[p] : r.seat \in c.seats /\ Written(c, r)
        /\ \A q \in c.seats : \A i \in DOMAIN EffectsFor(c, q) :
              \E r \in buf[p] : r.seat = q /\ r.leg = i
        /\ \A q, r \in buf[p] : q.seat = r.seat /\ q.leg = r.leg => q = r
    BY CommittedRows
  <1>3. Available(s, a) = SumAmounts(AccountRows(rows, s, a))
    BY DEF Seen, AvailableIsHistory, AccountRows
  <1>4. Available(s, a)' = SumAmounts(AccountRows(rows', s, a))
    BY DEF Seen, AvailableIsHistory, AccountRows
  <1>5. AccountRows(rows', s, a) = AccountRows(rows, s, a) \cup AccountRows(buf[p], s, a)
    BY <1>1 DEF AccountRows
  <1>6. AccountRows(rows, s, a) \cap AccountRows(buf[p], s, a) = {}
    BY <1>1 DEF AccountRows
  <1>7. /\ AccountRows(rows, s, a) \in SUBSET Row /\ IsFiniteSet(AccountRows(rows, s, a))
        /\ AccountRows(buf[p], s, a) \in SUBSET Row /\ IsFiniteSet(AccountRows(buf[p], s, a))
    <2>1. AccountRows(rows, s, a) \in SUBSET rows /\ AccountRows(buf[p], s, a) \in SUBSET buf[p]
      BY DEF AccountRows
    <2> QED  BY <1>1, <1>2, <2>1, FS_Subset
  <1>8. SumAmounts(AccountRows(rows', s, a))
          = SumAmounts(AccountRows(rows, s, a)) + SumAmounts(AccountRows(buf[p], s, a))
    BY <1>5, <1>6, <1>7, SumOfUnion
  <1>9. CASE s \in c.seats
    <2>1. PICK E : E = EffectsFor(c, s)
      OBVIOUS
    <2>2. DOMAIN E \subseteq 1..3
      BY <2>1, EffectsDomain
    <2>3. \A r \in buf[p] : r.seat = s =>
            r.leg \in DOMAIN E /\ r.acct = E[r.leg].acct /\ r.amt = E[r.leg].amt
      BY <1>2, <2>1 DEF Written, RowOf
    <2>4. \A i \in DOMAIN E : \E r \in buf[p] : r.seat = s /\ r.leg = i
      BY <1>2, <1>9, <2>1
    <2>5. SumAmounts(AccountRows(buf[p], s, a)) = Change(E, a)
      BY <1>2, <2>2, <2>3, <2>4, RowsChange
    <2> QED  BY <1>3, <1>4, <1>8, <1>9, <2>1, <2>5
  <1>10. CASE s \notin c.seats
    <2>1. AccountRows(buf[p], s, a) = {}
      BY <1>2, <1>10 DEF AccountRows
    <2>2. SumAmounts(AccountRows(buf[p], s, a)) = 0
      BY <2>1, SumFacts
    <2> QED  BY <1>3, <1>4, <1>8, <1>10, <2>2
  <1> QED  BY <1>9, <1>10

\* A commit enters the command's effects in the book.
LEMMA Entered ==
  ASSUME RefinementInv, NEW p \in Procs, Commit(p), NEW c \in Commands, c = job[p],
         NEW parts,
         \A s \in c.seats :
           /\ DOMAIN parts[s] = DOMAIN EffectsFor(c, s)
           /\ \A i \in DOMAIN EffectsFor(c, s) :
                \E e : e = EffectsFor(c, s)[i] /\ e.seat = s
                         /\ parts[s][i] = Atomic!Part(e.acct, e.amt, e.type)
  PROVE  Atomic!Enter(c, parts)
  <1> DEFINE new == UNION {{Atomic!Entry(c, s, i, parts[s][i]) : i \in DOMAIN parts[s]} : s \in c.seats}
  <1>1. rows' = rows \cup buf[p]
    BY DEF Commit
  <1>2. /\ \A r \in buf[p] : r.key = c.key /\ r.seat \in c.seats /\ Written(c, r)
        /\ \A s \in c.seats : \A i \in DOMAIN EffectsFor(c, s) :
              \E r \in buf[p] : r.seat = s /\ r.leg = i
    BY ONLY RefinementInv, Commit(p), c = job[p], c \in Commands, p \in Procs, CommittedRows
  <1>3. ASSUME NEW r \in buf[p]
        PROVE  /\ r.seat \in c.seats /\ r.leg \in DOMAIN parts[r.seat]
               /\ EntryOf(r) = Atomic!Entry(c, r.seat, r.leg, parts[r.seat][r.leg])
    <2>1. r.key = c.key /\ r.seat \in c.seats /\ Written(c, r)
      BY <1>2
    <2>2. r.leg \in DOMAIN EffectsFor(c, r.seat)
      BY <2>1 DEF Written
    <2>3. PICK e : /\ e = EffectsFor(c, r.seat)[r.leg]
                   /\ parts[r.seat][r.leg] = Atomic!Part(e.acct, e.amt, e.type)
      BY <2>1, <2>2
    <2>4. r = RowOf(e, r.seq, c.key, r.leg)
      BY <2>1, <2>3 DEF Written
    <2>5. r.acct = e.acct /\ r.amt = e.amt /\ r.type = e.type
      BY <2>4 DEF RowOf
    <2> QED  BY <2>1, <2>2, <2>3, <2>5 DEF EntryOf, Atomic!Entry, Atomic!Part
  <1>4. {EntryOf(r) : r \in buf[p]} \subseteq new
    BY <1>3
  <1>5. new \subseteq {EntryOf(r) : r \in buf[p]}
    <2> SUFFICES ASSUME NEW s \in c.seats, NEW i \in DOMAIN parts[s]
                 PROVE  Atomic!Entry(c, s, i, parts[s][i]) \in {EntryOf(r) : r \in buf[p]}
      OBVIOUS
    <2>1. PICK r \in buf[p] : r.seat = s /\ r.leg = i
      BY <1>2
    <2>2. EntryOf(r) = Atomic!Entry(c, s, i, parts[s][i])
      BY <1>3, <2>1
    <2> QED  BY <2>2
  <1>6. Entries' = Entries \cup {EntryOf(r) : r \in buf[p]}
    BY <1>1 DEF Entries, EntryOf
  <1>7. Entries' = Entries \cup new
    BY <1>4, <1>5, <1>6
  <1> QED  BY <1>7 DEF Atomic!Enter

\* The entries of a commit are new in the book.
LEMMA FreshEntries ==
  ASSUME RefinementInv, NEW p \in Procs, Commit(p), NEW c \in Commands, c = job[p]
  PROVE  /\ \A r \in buf[p] : EntryOf(r) \notin Entries
         /\ Entries' = Entries \cup {EntryOf(r) : r \in buf[p]}
  <1>1. rows' = rows \cup buf[p]
    BY DEF Commit
  <1>2. (\A r \in buf[p] : r.key = c.key) /\ resv[c.key] = Null
    BY CommittedRows
  <1>3. \A q \in rows : resv[q.key] # Null
    BY DEF RefinementInv, OnceInv, ExactlyOnce
  <1>4. \A r \in buf[p] : EntryOf(r) \notin Entries
    BY <1>2, <1>3 DEF Entries, EntryOf
  <1>5. Entries' = Entries \cup {EntryOf(r) : r \in buf[p]}
    BY <1>1 DEF Entries, EntryOf
  <1> QED  BY <1>4, <1>5

\* A commit without corrections recovers and reverses nothing.
LEMMA NothingCorrected ==
  ASSUME RefinementInv, Seen', NEW p \in Procs, Commit(p), NEW c \in Commands, c = job[p],
         \A r \in buf[p] : r.of = 0
  PROVE  Atomic!RecoversNothing /\ Reversed' = Reversed
  <1> USE DEF RefinementInv
  <1>1. rows' = rows \cup buf[p] /\ \A r \in rows' : r.seq # 0
    BY CommitFacts
  <1>2. ASSUME NEW y \in rows'
        PROVE  /\ RecoveredCents(y.seq)' = RecoveredCents(y.seq)
               /\ ExactReversals(y)' = ExactReversals(y)
    <2>1. \A r \in buf[p] : r.of # y.seq
      BY <1>1
    <2> QED  BY <2>1, Uncorrected
  <1>3. ASSUME NEW y \in buf[p]
        PROVE  /\ EntryOf(y) \notin Entries /\ RecoveredCents(y.seq) = 0
               /\ ExactReversals(y) = {}
    BY FreshEntries, NewUncorrected
  <1>4. \A y \in rows : /\ EntryOf(y) \in Entries
                        /\ Recovered[EntryOf(y)] = RecoveredCents(y.seq)
                        /\ EntryOf(y) \in Reversed <=> ExactReversals(y) # {}
    BY DEF Seen, CorrectionsVisible
  <1>5. \A y \in rows' : /\ EntryOf(y) \in Entries'
                         /\ Recovered'[EntryOf(y)] = RecoveredCents(y.seq)'
                         /\ EntryOf(y) \in Reversed' <=> ExactReversals(y)' # {}
    BY DEF Seen, CorrectionsVisible, EntryOf
  <1>6. /\ \A x \in Entries' : \E y \in rows' : x = EntryOf(y)
        /\ Reversed \subseteq Entries /\ Reversed' \subseteq Entries'
        /\ Reversed \subseteq Entries'
        /\ Recovered' = [x \in Entries' |-> Recovered'[x]]
    <2>1. \A x \in Entries' : \E y \in rows' : x = EntryOf(y)
      BY DEF Entries, EntryOf
    <2>2. Reversed \subseteq Entries /\ Reversed' \subseteq Entries'
      BY DEF Entries, Reversed, EntryOf
    <2>3. Entries \subseteq Entries'
      BY <1>1 DEF Entries, EntryOf
    <2>4. Recovered' = [x \in Entries' |-> Recovered'[x]]
      BY DEF Recovered
    <2> QED  BY <2>1, <2>2, <2>3, <2>4
  <1>7. ASSUME NEW x \in Entries'
        PROVE  /\ Recovered'[x] = IF x \in Entries THEN Recovered[x] ELSE 0
               /\ x \in Reversed' <=> x \in Reversed
    <2>1. PICK y \in rows' : x = EntryOf(y)
      BY <1>6
    <2>2. CASE y \in rows
      BY <1>2, <1>4, <1>5, <2>1, <2>2
    <2>3. CASE y \in buf[p]
      BY <1>2, <1>3, <1>5, <1>6, <2>1, <2>3
    <2> QED  BY <1>1, <2>1, <2>2, <2>3
  <1>8. Recovered' = [x \in Entries' |-> IF x \in Entries THEN Recovered[x] ELSE 0]
    BY <1>6, <1>7
  <1>9. Reversed' = Reversed
    BY <1>6, <1>7
  <1> QED  BY <1>8, <1>9 DEF Atomic!RecoversNothing

\* A commit with a correction recovers or reverses the row its command names.
LEMMA OneCorrected ==
  ASSUME RefinementInv, Seen', NEW p \in Procs, Commit(p), NEW c \in Commands, c = job[p],
         NEW e \in buf[p], e.of # 0, NEW o, o = EntryOf(Original(c))
  PROVE  /\ Atomic!Recovers(o, Recovered[o] + e.comp)
         /\ Reversed' = Reversed \cup (IF e.type = "REVERSAL" THEN {o} ELSE {})
  <1> USE DEF RefinementInv
  <1>0. pc[p] = "commit"
    BY DEF Commit
  <1>1. rows' = rows \cup buf[p] /\ \A r \in rows' : r.seq # 0
    BY CommitFacts
  <1>2. PICK z : z = Original(c)
    OBVIOUS
  <1>3. /\ z \in rows /\ e.of = z.seq /\ \A x \in buf[p] : x.of # 0 => x = e
    BY <1>0, <1>2, CommittedCorrection
  <1>4. /\ RecoveredCents(z.seq)' = RecoveredCents(z.seq) + e.comp
        /\ ExactReversals(z)' = ExactReversals(z) \cup (IF e.type = "REVERSAL" THEN {e} ELSE {})
    BY <1>1, <1>3, CorrectionCommitted
  <1>5. ASSUME NEW y \in rows', y # z
        PROVE  /\ RecoveredCents(y.seq)' = RecoveredCents(y.seq)
               /\ ExactReversals(y)' = ExactReversals(y)
    <2>1. \A q, r \in rows' : q.seq = r.seq => q = r
      <3>1. /\ \A q, r \in rows : q.seq = r.seq => q = r
            /\ \A q, r \in buf[p] : q.seq = r.seq => q = r
            /\ \A q \in rows, r \in buf[p] : q.seq # r.seq
        BY CommitFacts DEF CapInv, RowsIdentified
      <3> QED  BY <1>1, <3>1
    <2>2. \A r \in buf[p] : r.of # y.seq
      BY <1>1, <1>3, <1>5, <2>1
    <2> QED  BY <2>2, Uncorrected
  <1>6. ASSUME NEW y \in buf[p]
        PROVE  /\ EntryOf(y) \notin Entries /\ RecoveredCents(y.seq) = 0
               /\ ExactReversals(y) = {}
    BY FreshEntries, NewUncorrected
  <1>7. \A y \in rows : /\ EntryOf(y) \in Entries
                        /\ Recovered[EntryOf(y)] = RecoveredCents(y.seq)
                        /\ EntryOf(y) \in Reversed <=> ExactReversals(y) # {}
    BY DEF Seen, CorrectionsVisible
  <1>8. \A y \in rows' : /\ EntryOf(y) \in Entries'
                         /\ Recovered'[EntryOf(y)] = RecoveredCents(y.seq)'
                         /\ EntryOf(y) \in Reversed' <=> ExactReversals(y)' # {}
    BY DEF Seen, CorrectionsVisible, EntryOf
  <1>9. /\ \A x \in Entries' : \E y \in rows' : x = EntryOf(y)
        /\ Reversed \subseteq Entries /\ Reversed' \subseteq Entries'
        /\ Entries \subseteq Entries'
        /\ Recovered' = [x \in Entries' |-> Recovered'[x]]
    <2>1. \A x \in Entries' : \E y \in rows' : x = EntryOf(y)
      BY DEF Entries, EntryOf
    <2>2. Reversed \subseteq Entries /\ Reversed' \subseteq Entries'
      BY DEF Entries, Reversed, EntryOf
    <2>3. Entries \subseteq Entries'
      BY <1>1 DEF Entries, EntryOf
    <2>4. Recovered' = [x \in Entries' |-> Recovered'[x]]
      BY DEF Recovered
    <2> QED  BY <2>1, <2>2, <2>3, <2>4
  <1>10. o = EntryOf(z) /\ o \in Entries
    BY <1>2, <1>3, <1>7
  <1>11. ASSUME NEW x \in Entries'
         PROVE  /\ Recovered'[x] = IF x = o THEN Recovered[o] + e.comp
                                   ELSE IF x \in Entries THEN Recovered[x] ELSE 0
                /\ x \in Reversed' <=>
                     x \in Reversed \cup (IF e.type = "REVERSAL" THEN {o} ELSE {})
    <2>1. PICK y \in rows' : x = EntryOf(y)
      BY <1>9
    <2>2. CASE y = z
      BY <1>3, <1>4, <1>7, <1>8, <1>10, <2>1, <2>2
    <2>3. CASE y \in rows /\ y # z
      <3>1. x # o
        <4>1. \A q, r \in rows : q.key = r.key /\ q.seat = r.seat /\ q.leg = r.leg => q = r
          BY DEF OnceInv, ExactlyOnce
        <4> QED  BY <1>3, <1>10, <2>1, <2>3, <4>1 DEF EntryOf
      <3> QED  BY <1>5, <1>7, <1>8, <2>1, <2>3, <3>1
    <2>4. CASE y \in buf[p]
      <3>1. x \notin Entries /\ x # o /\ y # z
        BY <1>3, <1>6, <1>7, <1>10, <2>1, <2>4
      <3> QED  BY <1>5, <1>6, <1>8, <1>9, <2>1, <2>4, <3>1
    <2> QED  BY <1>1, <2>1, <2>2, <2>3, <2>4
  <1>12. Recovered' = [x \in Entries' |-> IF x = o THEN Recovered[o] + e.comp
                                          ELSE IF x \in Entries THEN Recovered[x] ELSE 0]
    BY <1>9, <1>11
  <1>13. Reversed' = Reversed \cup (IF e.type = "REVERSAL" THEN {o} ELSE {})
    BY <1>9, <1>10, <1>11
  <1> QED  BY <1>12, <1>13 DEF Atomic!Recovers

\* A command is accepted at its commit, and not before.
LEMMA AcceptedOnce ==
  ASSUME RefinementInv, NEW p \in Procs, Commit(p), NEW c \in Commands, c = job[p]
  PROVE  Accepted' = Accepted \cup {c} /\ \A d \in Accepted : d.key # c.key
  <1> USE DEF RefinementInv
  <1>1. resv[c.key] = Null /\ resLock[c.key] = p /\ c.key \in Keys /\ c # Null
    BY CommittedRows, CommandFacts
  <1>2. \A k \in Keys : resLock[k] = p => k = c.key
    BY DEF OnceInv, KeysReserved
  <1>3. \A k \in Keys : resv'[k] = IF k = c.key THEN c ELSE resv[k]
    BY <1>1, <1>2 DEF Commit
  <1>4. \A k \in Keys : resv[k] # Null => resv[k].key = k
    BY DEF DecisionInv, AcceptedKeys
  <1> QED  BY <1>1, <1>3, <1>4 DEF Accepted

\* The commit of a settlement shows its callers nothing.
LEMMA SettlementUnseen ==
  ASSUME RefinementInv, Seen', NEW p \in Procs, Commit(p), job[p] \notin Commands
  PROVE  UNCHANGED <<Balances, Accepted, Entries, Recovered, Reversed>>
  <1> USE DEF RefinementInv
  <1>1. buf[p] = {} /\ \A k \in Keys : resLock[k] # p
    BY DEF OnceInv, BuffersUnique, LedgerInv, ReservationsOwned
  <1>2. rows' = rows /\ \A k \in Keys : resv'[k] = resv[k]
    BY <1>1 DEF Commit
  <1>3. \A s \in Seats, a \in Account : Available(s, a)' = Available(s, a)
    BY <1>2 DEF Seen, AvailableIsHistory
  <1>4. Balances' = Balances
    BY <1>3 DEF Balances
  <1>5. Accepted' = Accepted
    BY <1>2 DEF Accepted
  <1> QED  BY <1>2, <1>4, <1>5 DEF Entries, Recovered, Reversed, RecoveredCents, ExactReversals

\* Any other step leaves rows, reservations and snapshots alone.
LEMMA OthersUnseen ==
  ASSUME UNCHANGED <<rows, resv, snap>>
  PROVE  UNCHANGED <<Balances, Accepted, Entries, Recovered, Reversed>>
  <1>1. \A s \in Seats, a \in Account : Available(s, a)' = Available(s, a)
    BY DEF Available, PendingRows, Posted
  <1>2. Balances' = Balances
    BY <1>1 DEF Balances
  <1> QED  BY <1>2 DEF Accepted, Entries, Recovered, Reversed, RecoveredCents, ExactReversals

\* What every commit of a client's command shows.
LEMMA CommitSeen ==
  ASSUME RefinementInv, Seen', NEW p \in Procs, Commit(p), NEW c \in Commands, c = job[p],
         NEW F, \A s \in c.seats :
           F[s] = [a \in Account |-> Available(s, a) + Change(EffectsFor(c, s), a)]
  PROVE  Balances' = [s \in Seats |-> IF s \in c.seats THEN F[s] ELSE Balances[s]]
  <1>1. c.seats \subseteq Seats
    BY CommandFacts
  <1>2. \A s \in Seats, a \in Account : Available(s, a) \in Int
    BY AvailableFacts DEF RefinementInv, LedgerInv
  <1>3. \A s \in Seats, a \in Account : Available(s, a)' =
           Available(s, a) + (IF s \in c.seats THEN Change(EffectsFor(c, s), a) ELSE 0)
    BY ONLY RefinementInv, Seen', Commit(p), c = job[p], c \in Commands, p \in Procs, BalancesAfter
  <1>4. ASSUME NEW s \in Seats
        PROVE  Balances'[s] = IF s \in c.seats THEN F[s] ELSE Balances[s]
    <2>1. Balances'[s] = [a \in Account |-> Available(s, a)']
      BY DEF Balances
    <2>2. CASE s \in c.seats
      BY <1>3, <2>1, <2>2
    <2>3. CASE s \notin c.seats
      <3>1. \A a \in Account : Available(s, a)' = Available(s, a)
        BY <1>2, <1>3, <2>3
      <3> QED  BY <2>1, <2>3, <3>1 DEF Balances
    <2> QED  BY <2>2, <2>3
  <1>5. Balances' = [s \in Seats |-> Balances'[s]]
    BY DEF Balances
  <1> QED  BY <1>1, <1>4, <1>5 DEF Balances

\* A single effect and a pair of transfer legs, account by account.
LEMMA SimpleChanges ==
  /\ \A s, a, amt, type, of, comp, x :
       amt \in Int => Change(<<Effect(s, a, amt, type, of, comp)>>, x) = IF x = a THEN amt ELSE 0
  /\ \A s, a, amt, x :
       amt \in Int /\ a \in Account /\ x \in Account =>
         Change(TransferPair(s, amt, a), x) = IF x = a THEN -amt ELSE amt
  <1>1. ASSUME NEW s, NEW a, NEW amt \in Int, NEW type, NEW of, NEW comp, NEW x
        PROVE  Change(<<Effect(s, a, amt, type, of, comp)>>, x) = IF x = a THEN amt ELSE 0
    <2>1. PICK E : E = <<Effect(s, a, amt, type, of, comp)>>
      OBVIOUS
    <2>2. DOMAIN E = {1} /\ E[1].acct = a /\ E[1].amt = amt
      BY <2>1 DEF Effect
    <2>3. Change(E, x) = IF x = a THEN amt ELSE 0
      BY <2>2 DEF Change, Share
    <2> QED  BY <2>1, <2>3
  <1>2. ASSUME NEW s, NEW a \in Account, NEW amt \in Int, NEW x \in Account
        PROVE  Change(TransferPair(s, amt, a), x) = IF x = a THEN -amt ELSE amt
    <2>1. PICK E : E = TransferPair(s, amt, a)
      OBVIOUS
    <2>2. DOMAIN E = {1, 2} /\ E[1].acct = a /\ E[1].amt = -amt /\ E[2].acct = Other(a)
          /\ E[2].amt = amt
      BY <2>1 DEF TransferPair, Effect
    <2>3. x = a \/ x = Other(a)
      BY DEF Account, Other
    <2>4. a # Other(a)
      BY DEF Account, Other
    <2>5. Change(E, x) = IF x = a THEN -amt ELSE amt
      BY <2>2, <2>3, <2>4 DEF Change, Share
    <2> QED  BY <2>1, <2>5
  <1> QED  BY <1>1, <1>2

\* The commit of a credit.
LEMMA CreditCommitted ==
  ASSUME RefinementInv, Seen', NEW p \in Procs, Commit(p), NEW c \in Commands, c = job[p],
         c.kind = "credit"
  PROVE  Atomic!Credit(c)
  <1>1. \A s : EffectsFor(c, s) = <<Effect(s, c.acct, c.amt, c.type, 0, 0)>>
    BY DEF EffectsFor
  <1>2. c.acct \in Account /\ c.amt \in Int
    BY CommandFacts
  <1> DEFINE parts == [s \in c.seats |-> << Atomic!Part(c.acct, c.amt, c.type) >>]
  <1>3. Atomic!Enter(c, parts)
    <2>1. \A s \in c.seats :
           /\ DOMAIN parts[s] = DOMAIN EffectsFor(c, s)
           /\ \A i \in DOMAIN EffectsFor(c, s) :
                \E e : e = EffectsFor(c, s)[i] /\ e.seat = s
                         /\ parts[s][i] = Atomic!Part(e.acct, e.amt, e.type)
      <3> TAKE s \in c.seats
      <3>1. PICK E : E = EffectsFor(c, s)
        OBVIOUS
      <3>2. DOMAIN E = {1} /\ E[1] = Effect(s, c.acct, c.amt, c.type, 0, 0)
        BY <1>1, <3>1
      <3>3. E[1].seat = s /\ Atomic!Part(E[1].acct, E[1].amt, E[1].type) = parts[s][1]
        BY <3>2 DEF Effect
      <3>4. DOMAIN parts[s] = {1}
        OBVIOUS
      <3> HIDE DEF parts
      <3> QED  BY <3>1, <3>2, <3>3, <3>4
    <2> HIDE DEF parts
    <2> QED  BY <2>1, Entered
  <1>4. \A r \in buf[p] : r.of = 0
    <2>1. \A r \in buf[p] : Written(c, r)
      BY CommittedRows
    <2>2. ASSUME NEW s PROVE DOMAIN EffectsFor(c, s) = {1} /\ EffectsFor(c, s)[1].of = 0
      <3>1. PICK E : E = EffectsFor(c, s)
        OBVIOUS
      <3>2. DOMAIN E = {1} /\ E[1] = Effect(s, c.acct, c.amt, c.type, 0, 0)
        BY <1>1, <3>1
      <3>3. E[1].of = 0
        BY <3>2 DEF Effect
      <3> QED  BY <3>1, <3>2, <3>3
    <2> QED  BY <2>1, <2>2 DEF Written, RowOf
  <1>5. Atomic!RecoversNothing /\ Reversed' = Reversed
    BY <1>4, NothingCorrected
  <1>6. Balances' = [s \in Seats |-> IF s \in c.seats
                       THEN Atomic!Credited(Balances[s], c.amt, c.acct) ELSE Balances[s]]
    <2> DEFINE F == [s \in c.seats |-> Atomic!Credited(Balances[s], c.amt, c.acct)]
    <2>1. ASSUME NEW s \in c.seats
          PROVE  F[s] = [a \in Account |-> Available(s, a) + Change(EffectsFor(c, s), a)]
      <3>1. \A a \in Account : Balances[s][a] = Available(s, a)
        BY CommandFacts DEF Balances
      <3>2. \A a \in Account : Change(EffectsFor(c, s), a) = IF a = c.acct THEN c.amt ELSE 0
        BY <1>1, <1>2, SimpleChanges
      <3> QED  BY <3>1, <3>2 DEF Atomic!Credited, Atomic!Accounts, Account
    <2>2. Balances' = [s \in Seats |-> IF s \in c.seats THEN F[s] ELSE Balances[s]]
      <3> HIDE DEF F
      <3> QED  BY <2>1, CommitSeen
    <2> QED  BY <2>2
  <1> QED  BY <1>3, <1>5, <1>6 DEF Atomic!Credit

\* The commit of a transfer: the source is still covered.
LEMMA MoveCommitted ==
  ASSUME RefinementInv, Seen', NEW p \in Procs, Commit(p), NEW c \in Commands, c = job[p],
         c.kind = "transfer"
  PROVE  Atomic!Move(c)
  <1>1. \A s : EffectsFor(c, s) = TransferPair(s, c.amt, c.acct)
    BY DEF EffectsFor
  <1>2. c.acct \in Account /\ c.amt \in Int /\ c.seats \subseteq Seats
    BY CommandFacts
  <1>3. Atomic!OtherAccount(c.acct) = Other(c.acct)
    BY DEF Atomic!OtherAccount, Other
  <1> DEFINE parts == [s \in c.seats |-> << Atomic!Part(c.acct, -c.amt, "Withdrawal"),
                                           Atomic!Part(Other(c.acct), c.amt, "Deposit") >>]
  <1>4. ASSUME NEW s, NEW E, E = TransferPair(s, c.amt, c.acct)
        PROVE  /\ DOMAIN E = {1, 2}
               /\ E[1] = Effect(s, c.acct, -c.amt, "Withdrawal", 0, 0)
               /\ E[2] = Effect(s, Other(c.acct), c.amt, "Deposit", 0, 0)
    BY <1>4 DEF TransferPair
  <1>5. Atomic!Enter(c, parts)
    <2>1. \A s \in c.seats :
           /\ DOMAIN parts[s] = DOMAIN EffectsFor(c, s)
           /\ \A i \in DOMAIN EffectsFor(c, s) :
                \E e : e = EffectsFor(c, s)[i] /\ e.seat = s
                         /\ parts[s][i] = Atomic!Part(e.acct, e.amt, e.type)
      <3> TAKE s \in c.seats
      <3>1. PICK E : E = TransferPair(s, c.amt, c.acct)
        OBVIOUS
      <3>2. /\ DOMAIN E = {1, 2}
            /\ E[1] = Effect(s, c.acct, -c.amt, "Withdrawal", 0, 0)
            /\ E[2] = Effect(s, Other(c.acct), c.amt, "Deposit", 0, 0)
        BY <1>4, <3>1
      <3>3. /\ E[1].seat = s /\ Atomic!Part(E[1].acct, E[1].amt, E[1].type) = parts[s][1]
            /\ E[2].seat = s /\ Atomic!Part(E[2].acct, E[2].amt, E[2].type) = parts[s][2]
        BY <3>2 DEF Effect
      <3>4. DOMAIN parts[s] = {1, 2}
        OBVIOUS
      <3>5. EffectsFor(c, s) = E
        BY <1>1, <3>1
      <3> HIDE DEF parts
      <3> QED  BY <3>2, <3>3, <3>4, <3>5
    <2> HIDE DEF parts
    <2> QED  BY <2>1, Entered
  <1>6. \A r \in buf[p] : r.of = 0
    <2>1. \A r \in buf[p] : Written(c, r)
      BY CommittedRows
    <2>2. ASSUME NEW s, NEW i \in DOMAIN EffectsFor(c, s) PROVE EffectsFor(c, s)[i].of = 0
      <3>1. PICK E : E = TransferPair(s, c.amt, c.acct)
        OBVIOUS
      <3>2. /\ DOMAIN E = {1, 2}
            /\ E[1] = Effect(s, c.acct, -c.amt, "Withdrawal", 0, 0)
            /\ E[2] = Effect(s, Other(c.acct), c.amt, "Deposit", 0, 0)
        BY <1>4, <3>1
      <3>3. E[1].of = 0 /\ E[2].of = 0
        BY <3>2 DEF Effect
      <3>4. EffectsFor(c, s) = E
        BY <1>1, <3>1
      <3> QED  BY <2>2, <3>2, <3>3, <3>4
    <2> QED  BY <2>1, <2>2 DEF Written, RowOf
  <1>7. Atomic!RecoversNothing /\ Reversed' = Reversed
    BY <1>6, NothingCorrected
  <1>8. \A s \in c.seats : Balances[s][c.acct] >= c.amt
    <2>1. Allowed(c)
      BY CommittedRows
    <2> QED  BY <1>2, <2>1 DEF Allowed, Balances
  <1>9. Balances' = [s \in Seats |-> IF s \in c.seats
          THEN Atomic!Credited(Atomic!Credited(Balances[s], -c.amt, c.acct), c.amt,
                               Atomic!OtherAccount(c.acct))
          ELSE Balances[s]]
    <2> DEFINE F == [s \in c.seats |->
          Atomic!Credited(Atomic!Credited(Balances[s], -c.amt, c.acct), c.amt,
                          Atomic!OtherAccount(c.acct))]
    <2>1. ASSUME NEW s \in c.seats
          PROVE  F[s] = [a \in Account |-> Available(s, a) + Change(EffectsFor(c, s), a)]
      <3>1. \A a \in Account : Balances[s][a] = Available(s, a)
        BY <1>2 DEF Balances
      <3>2. \A a \in Account :
              Change(EffectsFor(c, s), a) = IF a = c.acct THEN -c.amt ELSE c.amt
        BY <1>1, <1>2, SimpleChanges
      <3>3. \A a \in Account : Available(s, a) \in Int
        BY <1>2, AvailableFacts DEF RefinementInv, LedgerInv
      <3>4. \A a \in Account : a = c.acct \/ a = Other(c.acct)
        BY <1>2 DEF Account, Other
      <3>5. Other(c.acct) # c.acct
        BY <1>2 DEF Account, Other
      <3>6. ASSUME NEW a \in Account
            PROVE  F[s][a] = Available(s, a) + Change(EffectsFor(c, s), a)
        <4>1. F[s][a] = (Balances[s][a] + (IF a = c.acct THEN -c.amt ELSE 0))
                          + (IF a = Other(c.acct) THEN c.amt ELSE 0)
          BY <1>3 DEF Atomic!Credited, Atomic!Accounts, Account
        <4>2. CASE a = c.acct
          BY <1>2, <3>1, <3>2, <3>3, <3>5, <4>1, <4>2
        <4>3. CASE a # c.acct
          BY <1>2, <3>1, <3>2, <3>3, <3>4, <4>1, <4>3
        <4> QED  BY <4>2, <4>3
      <3>7. F[s] = [a \in Account |-> F[s][a]]
        BY DEF Atomic!Credited, Atomic!Accounts, Account
      <3> HIDE DEF F
      <3> QED  BY <3>6, <3>7
    <2>2. Balances' = [s \in Seats |-> IF s \in c.seats THEN F[s] ELSE Balances[s]]
      <3> HIDE DEF F
      <3> QED  BY <2>1, CommitSeen
    <2> QED  BY <2>2
  <1> QED  BY <1>3, <1>5, <1>7, <1>8, <1>9 DEF Atomic!Move

\* The effects of c on its seats are a debit of amt from account a.
Debits(c, amt, a, type, of, comp) ==
  \A s \in c.seats : EffectsFor(c, s) = ChargeEffects(s, amt, a, type, of, comp)

\* What a commit by process p of such a debit shows.
DebitSeen(p, c, amt, a, type, of, comp) ==
  /\ Atomic!Enter(c, [s \in c.seats |-> Atomic!Debit(Balances[s], amt, a, type)])
  /\ Balances' = [s \in Seats |-> IF s \in c.seats
                     THEN Atomic!Debited(Balances[s], amt, a) ELSE Balances[s]]
  /\ \A s \in c.seats : \E r \in buf[p] :
        r.seat = s /\ r.of = of /\ r.comp = comp /\ r.type = type
  /\ of = 0 => \A r \in buf[p] : r.of = 0

\* The effects that a debit of amt from account a commits on a command's seats.
LEMMA DebitCommitted ==
  ASSUME RefinementInv, Seen', NEW p \in Procs, Commit(p), NEW c \in Commands, c = job[p],
         NEW amt \in Nat, amt > 0, NEW a \in Account, NEW type, NEW of, NEW comp,
         Debits(c, amt, a, type, of, comp)
  PROVE  DebitSeen(p, c, amt, a, type, of, comp)
  <1>1. TypeOK /\ c.seats \subseteq Seats
    BY CommandFacts DEF RefinementInv, LedgerInv
  <1> DEFINE parts == [s \in c.seats |-> Atomic!Debit(Balances[s], amt, a, type)]
             F == [s \in c.seats |-> Atomic!Debited(Balances[s], amt, a)]
             On(s, E) ==
               /\ E = EffectsFor(c, s) /\ DOMAIN parts[s] = DOMAIN E
               /\ \A i \in DOMAIN E : parts[s][i] = Atomic!Part(E[i].acct, E[i].amt, E[i].type)
               /\ F[s] = [x \in Account |-> Available(s, x) + Change(E, x)]
               /\ \E i \in DOMAIN E : E[i] = Effect(s, a, -amt, type, of, comp)
               /\ \A i \in DOMAIN E : E[i].seat = s /\ (of = 0 => E[i].of = 0)
  <1>2. ASSUME NEW s \in c.seats
        PROVE  \E E : On(s, E)
    <2>1. PICK E : E = ChargeEffects(s, amt, a, type, of, comp)
      OBVIOUS
    <2>0. E = EffectsFor(c, s)
      BY <2>1 DEF Debits
    <2>2. PICK D : D = Atomic!Debit(Balances[s], amt, a, type)
      OBVIOUS
    <2>3. /\ DOMAIN E \subseteq 1..3 /\ DOMAIN D = DOMAIN E
          /\ \A i \in DOMAIN E : D[i] = Atomic!Part(E[i].acct, E[i].amt, E[i].type)
          /\ Atomic!Debited(Balances[s], amt, a) = [x \in Account |-> Available(s, x) + Change(E, x)]
          /\ \E i \in DOMAIN E : E[i] = Effect(s, a, -amt, type, of, comp)
      BY <1>1, <2>1, <2>2, ChargeIsDebit
    <2>4. \A i \in DOMAIN E : of = 0 => E[i].of = 0
      <3>1. ASSUME NEW i \in DOMAIN E, E[i].of # 0 PROVE E[i] = Effect(s, a, -amt, type, of, comp)
        BY <2>1, <3>1, ChargeCorrects
      <3>2. ASSUME NEW i \in DOMAIN E, of = 0 PROVE E[i].of = 0
        BY <3>1, <3>2 DEF Effect
      <3> QED  BY <3>2
    <2>5. \A i \in DOMAIN E : E[i].seat = s
      <3> DEFINE t == FundingTransfer(s, amt, a)
                 x == Effect(s, "savings", -t, "Withdrawal", 0, 0)
                 y == Effect(s, "checking", t, "Deposit", 0, 0)
                 z == Effect(s, a, -amt, type, of, comp)
      <3>1. E = IF t > 0 THEN << x, y, z >> ELSE << z >>
        BY <2>1, ChargeShape
      <3>2. x.seat = s /\ y.seat = s /\ z.seat = s
        BY DEF Effect
      <3> HIDE DEF t, x, y, z
      <3>3. (DOMAIN E = {1, 2, 3} /\ E[1] = x /\ E[2] = y /\ E[3] = z) \/ (DOMAIN E = {1} /\ E[1] = z)
        BY <3>1
      <3> QED  BY <3>2, <3>3
    <2>6. E = EffectsFor(c, s) /\ parts[s] = D /\ F[s] = Atomic!Debited(Balances[s], amt, a)
      BY <2>0, <2>2
    <2> HIDE DEF parts, F
    <2>7. On(s, E)
      BY <2>3, <2>4, <2>5, <2>6
    <2> QED  BY <2>7
  <1> HIDE DEF parts, F, On
  <1>3. Atomic!Enter(c, parts)
    <2>1. ASSUME NEW s \in c.seats
          PROVE  /\ DOMAIN parts[s] = DOMAIN EffectsFor(c, s)
                 /\ \A i \in DOMAIN EffectsFor(c, s) :
                      \E e : e = EffectsFor(c, s)[i] /\ e.seat = s
                               /\ parts[s][i] = Atomic!Part(e.acct, e.amt, e.type)
      <3>1. PICK E : On(s, E)
        BY <1>2
      <3> QED  BY ONLY <3>1 DEF On
    <2> QED  BY <2>1, Entered
  <1>4. Balances' = [s \in Seats |-> IF s \in c.seats THEN F[s] ELSE Balances[s]]
    <2>1. ASSUME NEW s \in c.seats
          PROVE  F[s] = [x \in Account |-> Available(s, x) + Change(EffectsFor(c, s), x)]
      <3>1. PICK E : On(s, E)
        BY <1>2
      <3> QED  BY ONLY <3>1 DEF On
    <2> QED  BY <2>1, CommitSeen
  <1>5. /\ \A r \in buf[p] : r.key = c.key /\ r.seat \in c.seats /\ Written(c, r)
        /\ \A s \in c.seats : \A i \in DOMAIN EffectsFor(c, s) :
              \E r \in buf[p] : r.seat = s /\ r.leg = i
    BY ONLY RefinementInv, Commit(p), c = job[p], c \in Commands, p \in Procs, CommittedRows
  <1>6. \A s \in c.seats : \E r \in buf[p] :
              r.seat = s /\ r.of = of /\ r.comp = comp /\ r.type = type
    <2> TAKE s \in c.seats
    <2>0. PICK E : On(s, E)
      BY <1>2
    <2>1. E = EffectsFor(c, s)
      BY <2>0 DEF On
    <2>2. PICK i \in DOMAIN E : E[i] = Effect(s, a, -amt, type, of, comp)
      BY <2>0 DEF On
    <2>3. PICK r \in buf[p] : r.seat = s /\ r.leg = i
      BY <1>5, <2>1
    <2>4. r = RowOf(E[i], r.seq, c.key, i)
      BY <1>5, <2>1, <2>3 DEF Written
    <2>5. r.of = of /\ r.comp = comp /\ r.type = type
      BY <2>2, <2>4 DEF RowOf, Effect
    <2> QED  BY <2>3, <2>5
  <1>7. of = 0 => \A r \in buf[p] : r.of = 0
    <2> SUFFICES ASSUME of = 0, NEW r \in buf[p] PROVE r.of = 0
      OBVIOUS
    <2>1. r.seat \in c.seats /\ Written(c, r)
      BY <1>5
    <2>2. PICK E : On(r.seat, E)
      BY <1>2, <2>1
    <2>3. E = EffectsFor(c, r.seat) /\ \A i \in DOMAIN E : E[i].of = 0
      BY <2>2 DEF On
    <2>4. r.leg \in DOMAIN E /\ r = RowOf(E[r.leg], r.seq, c.key, r.leg)
      BY <2>1, <2>3 DEF Written
    <2> QED  BY <2>3, <2>4 DEF RowOf
  <1>8. /\ Atomic!Enter(c, [s \in c.seats |-> Atomic!Debit(Balances[s], amt, a, type)])
        /\ Balances' = [s \in Seats |-> IF s \in c.seats
                           THEN Atomic!Debited(Balances[s], amt, a) ELSE Balances[s]]
    BY <1>3, <1>4 DEF parts, F
  <1> QED  BY <1>6, <1>7, <1>8 DEF DebitSeen

\* The commit of a charge: if it had to be funded, it still is.
LEMMA ChargeCommitted ==
  ASSUME RefinementInv, Seen', NEW p \in Procs, Commit(p), NEW c \in Commands, c = job[p],
         c.kind = "charge"
  PROVE  Atomic!Charge(c)
  <1>1. Debits(c, c.amt, "checking", c.type, 0, 0)
    BY DEF EffectsFor, Debits
  <1>2. c.amt \in Nat /\ c.amt > 0 /\ "checking" \in Account /\ c.seats \subseteq Seats
    BY CommandFacts, LedgerAssumption DEF Account
  <1>3. /\ Atomic!Enter(c, [s \in c.seats |-> Atomic!Debit(Balances[s], c.amt, "checking", c.type)])
        /\ Balances' = [s \in Seats |-> IF s \in c.seats
                          THEN Atomic!Debited(Balances[s], c.amt, "checking") ELSE Balances[s]]
        /\ \A r \in buf[p] : r.of = 0
    <2>1. DebitSeen(p, c, c.amt, "checking", c.type, 0, 0)
      BY <1>1, <1>2, DebitCommitted
    <2> QED  BY <2>1 DEF DebitSeen
  <1>4. Atomic!RecoversNothing /\ Reversed' = Reversed
    BY <1>3, NothingCorrected
  <1>5. ASSUME c.funded, NEW s \in c.seats
        PROVE  Atomic!Debited(Balances[s], c.amt, "checking")["checking"] >= 0
    <2>1. Allowed(c)
      BY CommittedRows
    <2>2. CheckingAfter(s, c.amt) >= 0
      BY <1>5, <2>1 DEF Allowed
    <2>3. Available(s, "checking") \in Int /\ Available(s, "savings") \in Int
      BY <1>2, AvailableFacts DEF RefinementInv, LedgerInv, Account
    <2>4. Balances[s]["checking"] = Available(s, "checking") /\ Balances[s]["savings"] = Available(s, "savings")
      BY <1>2 DEF Balances, Account
    <2>5. Atomic!Cover(Balances[s], c.amt, "checking") = FundingTransfer(s, c.amt, "checking")
      BY <1>2, <2>3, <2>4 DEF Atomic!Cover, FundingTransfer
    <2>6. FundingTransfer(s, c.amt, "checking") \in Int
      BY <1>2, <2>3 DEF FundingTransfer
    <2>7. Atomic!Debited(Balances[s], c.amt, "checking")["checking"] = CheckingAfter(s, c.amt)
      BY <1>2, <2>3, <2>4, <2>5, <2>6 DEF Atomic!Debited, Atomic!Accounts, CheckingAfter
    <2> QED  BY <2>2, <2>7
  <1> QED  BY <1>3, <1>4, <1>5 DEF Atomic!Charge

\* The row a correction names, as its callers know it.
LEMMA NamedEntry ==
  ASSUME RefinementInv, NEW p \in Procs, Commit(p), NEW c \in Commands, c = job[p],
         c.kind \in {"reverse", "recover"}, NEW z, z = Original(c), NEW o, o = EntryOf(z)
  PROVE  /\ z \in rows /\ z.seq \in Nat /\ z.seq # 0 /\ z.amt \in Int /\ z.acct \in Account
         /\ o \in Atomic!Named(c)
         /\ o.amt = z.amt /\ o.acct = z.acct /\ o.seat = z.seat /\ o.type = z.type
         /\ Recovered[o] = RecoveredCents(z.seq) /\ (o \in Reversed <=> ExactReversals(z) # {})
         /\ c.seats = {z.seat} /\ z.seat \in Seats /\ Allowed(c)
  <1> USE DEF RefinementInv
  <1>1. Originals(c) # {}
    BY DEF LedgerInv, JobsRun
  <1>2. z \in rows /\ z.key = c.of /\ z.type = c.ofType /\ z.seat \in c.seats
    BY <1>1 DEF Original, Originals
  <1>3. z.seq \in Nat /\ z.seq # 0 /\ z.amt \in Int /\ z.acct \in Account /\ z.seat \in Seats
    BY <1>2 DEF LedgerInv, TypeOK, Row
  <1>4. /\ o.amt = z.amt /\ o.acct = z.acct /\ o.seat = z.seat /\ o.type = z.type
        /\ o.key = z.key /\ o \in Entries
    BY <1>2 DEF EntryOf, Entries
  <1>5. Recovered[o] = RecoveredCents(z.seq) /\ (o \in Reversed <=> ExactReversals(z) # {})
    BY <1>2 DEF Seen, CorrectionsVisible
  <1>6. c.seats = {z.seat}
    BY <1>2, CommandFacts
  <1>7. Allowed(c)
    BY CommittedRows
  <1>8. o \in Atomic!Named(c)
    BY <1>2, <1>4 DEF Atomic!Named
  <1> QED  BY <1>2, <1>3, <1>4, <1>5, <1>6, <1>7, <1>8

\* Balances that change on one seat only.
LEMMA OneSeat ==
  ASSUME NEW f, NEW g, NEW h, NEW z \in Seats, f = [s \in Seats |-> f[s]],
         g = [s \in Seats |-> IF s \in {z} THEN h[s] ELSE f[s]]
  PROVE  g = [f EXCEPT ![z] = h[z]]
  OBVIOUS

\* The commit of an exact reversal: the row is still there to be undone.
LEMMA ReverseCommitted ==
  ASSUME RefinementInv, Seen', NEW p \in Procs, Commit(p), NEW c \in Commands, c = job[p],
         c.kind = "reverse"
  PROVE  Atomic!Reverse(c)
  <1>1. PICK z, o : z = Original(c) /\ o = EntryOf(z)
    OBVIOUS
  <1>2. /\ z \in rows /\ z.seq \in Nat /\ z.seq # 0 /\ z.amt \in Int /\ z.acct \in Account
        /\ o \in Atomic!Named(c)
        /\ o.amt = z.amt /\ o.acct = z.acct /\ o.seat = z.seat /\ o.type = z.type
        /\ Recovered[o] = RecoveredCents(z.seq) /\ (o \in Reversed <=> ExactReversals(z) # {})
        /\ c.seats = {z.seat} /\ z.seat \in Seats /\ Allowed(c)
    BY <1>1, NamedEntry
  <1>3. /\ z.type # "REVERSAL" /\ ExactReversals(z) = {}
        /\ (z.amt > 0 => ~(RecoveredCents(z.seq) > 0))
    BY <1>1, <1>2 DEF Allowed, Unreversible
  <1>4. RecoveredCents(z.seq) \in Nat
    BY RecoveredFacts
  <1>5. o \notin Reversed /\ o.type # "REVERSAL" /\ (o.amt > 0 => Recovered[o] = 0)
    BY <1>2, <1>3, <1>4
  <1>6. \A s : EffectsFor(c, s) = ReversalEffects(z)
    BY <1>1 DEF EffectsFor
  <1>7. Balances = [s \in Seats |-> Balances[s]]
    BY DEF Balances
  <1>8. CASE z.amt > 0
    <2>1. Debits(c, z.amt, z.acct, "REVERSAL", z.seq, z.amt)
      BY <1>2, <1>6, <1>8 DEF ReversalEffects, Debits
    <2>2. z.amt \in Nat
      BY <1>2, <1>8
    <2>3. /\ Atomic!Enter(c, [s \in c.seats |-> Atomic!Debit(Balances[s], z.amt, z.acct, "REVERSAL")])
          /\ Balances' = [s \in Seats |-> IF s \in c.seats
                            THEN Atomic!Debited(Balances[s], z.amt, z.acct) ELSE Balances[s]]
          /\ \A s \in c.seats : \E r \in buf[p] :
               r.seat = s /\ r.of = z.seq /\ r.comp = z.amt /\ r.type = "REVERSAL"
      <3>1. DebitSeen(p, c, z.amt, z.acct, "REVERSAL", z.seq, z.amt)
        BY <1>2, <1>8, <2>1, <2>2, DebitCommitted
      <3> QED  BY <3>1 DEF DebitSeen
    <2>4. PICK e \in buf[p] : e.of = z.seq /\ e.comp = z.amt /\ e.type = "REVERSAL"
      BY <1>2, <2>3
    <2>5. /\ Atomic!Recovers(o, Recovered[o] + e.comp)
          /\ Reversed' = Reversed \cup (IF e.type = "REVERSAL" THEN {o} ELSE {})
      BY <1>1, <1>2, <2>4, OneCorrected
    <2>6. Atomic!Recovers(o, o.amt) /\ Reversed' = Reversed \cup {o}
      <3>1. Recovered[o] + e.comp = o.amt
        BY <1>2, <1>5, <1>8, <2>4
      <3> QED  BY <2>4, <2>5, <3>1
    <2>7. Balances' = [Balances EXCEPT ![o.seat] = Atomic!Debited(Balances[o.seat], o.amt, o.acct)]
      <3> DEFINE h == [s \in Seats |-> Atomic!Debited(Balances[s], z.amt, z.acct)]
      <3>1. Balances' = [s \in Seats |-> IF s \in {z.seat} THEN h[s] ELSE Balances[s]]
        BY <1>2, <2>3
      <3>2. Balances' = [Balances EXCEPT ![z.seat] = h[z.seat]]
        <4> HIDE DEF h
        <4> QED  BY <1>2, <1>7, <3>1, OneSeat
      <3> QED  BY <1>2, <3>2
    <2>8. Atomic!Enter(c, [s \in c.seats |-> Atomic!Debit(Balances[s], o.amt, o.acct, "REVERSAL")])
      BY <1>2, <2>3
    <2> QED  BY <1>2, <1>5, <1>8, <2>6, <2>7, <2>8 DEF Atomic!Reverse
  <1>9. CASE ~(z.amt > 0)
    <2>1. \A s : EffectsFor(c, s) = <<Effect(z.seat, z.acct, -z.amt, "REVERSAL", z.seq, 0)>>
      BY <1>6, <1>9 DEF ReversalEffects
    <2> DEFINE parts == [s \in c.seats |-> << Atomic!Part(z.acct, -z.amt, "REVERSAL") >>]
    <2>2. Atomic!Enter(c, parts)
      <3>1. \A s \in c.seats :
             /\ DOMAIN parts[s] = DOMAIN EffectsFor(c, s)
             /\ \A i \in DOMAIN EffectsFor(c, s) :
                  \E e : e = EffectsFor(c, s)[i] /\ e.seat = s
                           /\ parts[s][i] = Atomic!Part(e.acct, e.amt, e.type)
        <4> TAKE s \in c.seats
        <4>1. PICK E : E = EffectsFor(c, s)
          OBVIOUS
        <4>2. DOMAIN E = {1} /\ E[1] = Effect(z.seat, z.acct, -z.amt, "REVERSAL", z.seq, 0)
          BY <2>1, <4>1
        <4>3. E[1].seat = s /\ Atomic!Part(E[1].acct, E[1].amt, E[1].type) = parts[s][1]
          BY <1>2, <4>2 DEF Effect
        <4>4. DOMAIN parts[s] = {1}
          OBVIOUS
        <4> HIDE DEF parts
        <4> QED  BY <4>1, <4>2, <4>3, <4>4
      <3> HIDE DEF parts
      <3> QED  BY <3>1, Entered
    <2>3. PICK e \in buf[p] : e.of = z.seq /\ e.comp = 0 /\ e.type = "REVERSAL"
      <3>1. PICK E : E = EffectsFor(c, z.seat)
        OBVIOUS
      <3>2. DOMAIN E = {1} /\ E[1] = Effect(z.seat, z.acct, -z.amt, "REVERSAL", z.seq, 0)
        BY <2>1, <3>1
      <3>3. PICK e \in buf[p] : e.seat = z.seat /\ e.leg = 1 /\ Written(c, e)
        BY <1>2, <3>1, <3>2, CommittedRows
      <3>4. e = RowOf(E[1], e.seq, c.key, 1)
        BY <3>1, <3>3 DEF Written
      <3>5. e.of = z.seq /\ e.comp = 0 /\ e.type = "REVERSAL"
        BY <3>2, <3>4 DEF RowOf, Effect
      <3> QED  BY <3>5
    <2>4. /\ Atomic!Recovers(o, Recovered[o] + e.comp)
          /\ Reversed' = Reversed \cup (IF e.type = "REVERSAL" THEN {o} ELSE {})
      BY <1>1, <1>2, <2>3, OneCorrected
    <2>5. Atomic!RecoversNothing /\ Reversed' = Reversed \cup {o}
      <3>1. Recovered[o] + e.comp = Recovered[o] /\ o \in Entries
        BY <1>2, <1>4, <2>3 DEF Atomic!Named
      <3>2. Recovered' = [x \in Entries' |-> IF x = o THEN Recovered[o]
                                ELSE IF x \in Entries THEN Recovered[x] ELSE 0]
        BY <2>4, <3>1 DEF Atomic!Recovers
      <3>3. Recovered' = [x \in Entries' |-> IF x \in Entries THEN Recovered[x] ELSE 0]
        BY <3>1, <3>2
      <3> QED  BY <2>3, <2>4, <3>3 DEF Atomic!RecoversNothing
    <2>6. Balances' = [Balances EXCEPT ![o.seat] = Atomic!Credited(Balances[o.seat], -o.amt, o.acct)]
      <3> DEFINE F == [s \in Seats |-> Atomic!Credited(Balances[s], -z.amt, z.acct)]
      <3>1. ASSUME NEW s \in c.seats
            PROVE  F[s] = [a \in Account |-> Available(s, a) + Change(EffectsFor(c, s), a)]
        <4>1. s \in Seats /\ \A a \in Account : Balances[s][a] = Available(s, a)
          BY <1>2 DEF Balances
        <4>2. \A a \in Account : Change(EffectsFor(c, s), a) = IF a = z.acct THEN -z.amt ELSE 0
          BY <1>2, <2>1, SimpleChanges
        <4> QED  BY <4>1, <4>2 DEF Atomic!Credited, Atomic!Accounts, Account
      <3> HIDE DEF F
      <3>2. Balances' = [s \in Seats |-> IF s \in c.seats THEN F[s] ELSE Balances[s]]
        BY <3>1, CommitSeen
      <3>3. Balances' = [Balances EXCEPT ![z.seat] = F[z.seat]]
        BY <1>2, <1>7, <3>2, OneSeat
      <3> QED  BY <1>2, <3>3 DEF F
    <2>7. Atomic!Enter(c, [s \in c.seats |-> << Atomic!Part(o.acct, -o.amt, "REVERSAL") >>])
      BY <1>2, <2>2
    <2> QED  BY <1>2, <1>5, <1>9, <2>5, <2>6, <2>7 DEF Atomic!Reverse
  <1> QED  BY <1>8, <1>9

\* The commit of a recovery: what it takes is still there to be taken.
LEMMA RecoverCommitted ==
  ASSUME RefinementInv, Seen', NEW p \in Procs, Commit(p), NEW c \in Commands, c = job[p],
         c.kind = "recover"
  PROVE  Atomic!Recover(c)
  <1>1. PICK z, o, take : z = Original(c) /\ o = EntryOf(z) /\ take = RecoveryCents(c)
    OBVIOUS
  <1>2. /\ z \in rows /\ z.seq \in Nat /\ z.seq # 0 /\ z.amt \in Int /\ z.acct \in Account
        /\ o \in Atomic!Named(c)
        /\ o.amt = z.amt /\ o.acct = z.acct /\ o.seat = z.seat /\ o.type = z.type
        /\ Recovered[o] = RecoveredCents(z.seq) /\ (o \in Reversed <=> ExactReversals(z) # {})
        /\ c.seats = {z.seat} /\ z.seat \in Seats /\ Allowed(c)
    BY <1>1, NamedEntry
  <1>3. RecoveredCents(z.seq) \in Nat /\ c.amt \in Nat
    BY RecoveredFacts, CommandFacts
  <1>4. take = IF c.amt > 0 THEN c.amt ELSE o.amt - Recovered[o]
    BY <1>1, <1>2 DEF RecoveryCents
  <1>5. take \in Nat /\ take > 0 /\ Recovered[o] + take =< o.amt
    <2>1. ~OverRecovers(c)
      BY <1>2 DEF Allowed
    <2>2. ~(z.amt - RecoveredCents(z.seq) =< 0) /\ ~(take > z.amt - RecoveredCents(z.seq))
      BY <1>1, <2>1 DEF OverRecovers
    <2> QED  BY <1>2, <1>3, <1>4, <2>2
  <1>6. Debits(c, take, z.acct, "payroll_correction", z.seq, take)
    BY <1>1 DEF EffectsFor, Debits
  <1>7. /\ Atomic!Enter(c, [s \in c.seats |-> Atomic!Debit(Balances[s], take, z.acct, "payroll_correction")])
        /\ Balances' = [s \in Seats |-> IF s \in c.seats
                          THEN Atomic!Debited(Balances[s], take, z.acct) ELSE Balances[s]]
        /\ \A s \in c.seats : \E r \in buf[p] :
             r.seat = s /\ r.of = z.seq /\ r.comp = take /\ r.type = "payroll_correction"
    <2>1. DebitSeen(p, c, take, z.acct, "payroll_correction", z.seq, take)
      BY <1>2, <1>5, <1>6, DebitCommitted
    <2> QED  BY <2>1 DEF DebitSeen
  <1>8. PICK e \in buf[p] : e.of = z.seq /\ e.comp = take /\ e.type = "payroll_correction"
    BY <1>2, <1>7
  <1>9. /\ Atomic!Recovers(o, Recovered[o] + e.comp)
        /\ Reversed' = Reversed \cup (IF e.type = "REVERSAL" THEN {o} ELSE {})
    BY <1>1, <1>2, <1>8, OneCorrected
  <1>10. Atomic!Recovers(o, Recovered[o] + take) /\ Reversed' = Reversed
    BY <1>8, <1>9
  <1>11. Balances' = [Balances EXCEPT ![o.seat] = Atomic!Debited(Balances[o.seat], take, o.acct)]
    <2> DEFINE h == [s \in Seats |-> Atomic!Debited(Balances[s], take, z.acct)]
    <2>1. Balances' = [s \in Seats |-> IF s \in {z.seat} THEN h[s] ELSE Balances[s]]
      BY <1>2, <1>7
    <2>2. Balances = [s \in Seats |-> Balances[s]]
      BY DEF Balances
    <2>3. Balances' = [Balances EXCEPT ![z.seat] = h[z.seat]]
      <3> HIDE DEF h
      <3> QED  BY <1>2, <2>1, <2>2, OneSeat
    <2> QED  BY <1>2, <2>3
  <1>12. Atomic!Enter(c, [s \in c.seats |-> Atomic!Debit(Balances[s], take, o.acct, "payroll_correction")])
    BY <1>2, <1>7
  <1> QED  BY <1>2, <1>4, <1>5, <1>10, <1>11, <1>12 DEF Atomic!Recover

\* Every step of the ledger is a command performed at once, or shows nothing.
LEMMA RefinementStep ==
  ASSUME RefinementInv, Seen', [Next]_vars
  PROVE  [\E c \in Commands : Atomic!Perform(c)]_(Atomic!atomicVars)
  <1>1. ASSUME NEW p \in Procs, Commit(p), job[p] \in Commands
        PROVE  \E c \in Commands : Atomic!Perform(c)
    <2>1. PICK c \in Commands : c = job[p]
      BY <1>1
    <2>2. Accepted' = Accepted \cup {c} /\ \A d \in Accepted : d.key # c.key
      BY <1>1, <2>1, AcceptedOnce
    <2>3. c.kind \in {"credit", "transfer", "charge", "reverse", "recover"}
      BY CommandFacts DEF Kinds
    <2>4. \/ Atomic!Credit(c) \/ Atomic!Move(c) \/ Atomic!Charge(c)
          \/ Atomic!Reverse(c) \/ Atomic!Recover(c)
      BY <1>1, <2>1, <2>3, CreditCommitted, MoveCommitted, ChargeCommitted,
         ReverseCommitted, RecoverCommitted
    <2> QED  BY <2>2, <2>4 DEF Atomic!Perform
  <1>2. ASSUME NEW p \in Procs, Commit(p), job[p] \notin Commands
        PROVE  UNCHANGED <<Balances, Accepted, Entries, Recovered, Reversed>>
    BY <1>2, SettlementUnseen
  <1>3. ASSUME \A p \in Procs : ~Commit(p)
        PROVE  UNCHANGED <<rows, resv, snap>>
    BY <1>3 DEF Next, Step, Submit, SweepStart, SweepNext, LockSeat, LockClass, Decide,
                Reserve, Write, Settle, Fail, EndWithout, vars
  <1> QED  BY <1>1, <1>2, <1>3, OthersUnseen DEF Atomic!atomicVars

\* The empty ledger is the empty book.
LEMMA RefinementInit == Init => Atomic!AtomicInit
  <1> SUFFICES ASSUME Init PROVE Atomic!AtomicInit
    OBVIOUS
  <1>1. rows = {} /\ (\A k \in Keys : resv[k] = Null)
        /\ \A s \in Seats, a \in Account : snap[s][a].cur = 0
    BY DEF Init
  <1>2. \A s \in Seats, a \in Account : Available(s, a) = 0
    <2> TAKE s \in Seats, a \in Account
    <2>1. AdmittedRows(rows, s, a, snap[s][a].cur) = {} /\ {r \in PendingRows(s) : r.acct = a} = {}
      BY <1>1 DEF AdmittedRows, PendingRows
    <2>2. SumAmounts({}) = 0
      BY SumFacts
    <2>3. PostedHistoryCents(rows, s, a, snap[s][a].cur) = 0
      BY <2>1, <2>2 DEF PostedHistoryCents
    <2>4. SumAmounts({r \in PendingRows(s) : r.acct = a}) = 0
      BY <2>1, <2>2
    <2>5. snap[s][a].cur = 0
      BY <1>1
    <2> QED  BY <2>3, <2>4, <2>5 DEF Available
  <1>3. Balances = [s \in Seats |-> [a \in Atomic!Accounts |-> 0]]
    BY <1>2 DEF Balances, Account, Atomic!Accounts
  <1>4. Entries = {} /\ Reversed = {} /\ Accepted = {}
    BY <1>1 DEF Entries, Reversed, Accepted
  <1>5. Recovered = [e \in {} |-> 0]
    BY <1>4 DEF Recovered
  <1> QED  BY <1>3, <1>4, <1>5 DEF Atomic!AtomicInit

(***************************************************************************)
(* The ledger is linearizable: the funds check, the credit left to recover *)
(* and the absence of a reversal, which a command establishes under its    *)
(* seat locks, still hold when it commits, and its key is accepted once.   *)
(* Locks, sequences, snapshots, retries and settlement stay unseen.        *)
(***************************************************************************)
THEOREM LedgerIsAtomic == Spec => ImplementsAtomicLedger
  <1>1. RefinementInv /\ Seen' /\ [Next]_vars =>
          [\E c \in Commands : Atomic!Perform(c)]_(Atomic!atomicVars)
    BY RefinementStep
  <1>2. OnceInv => CorrectionsVisible
    BY EntriesIdentify DEF OnceInv
  <1> QED  BY <1>1, <1>2, RefinementInit, LedgerInvariant, OnceInvariant, CapInvariant,
              DecisionInvariant, AvailableBalances, PTL
           DEF Spec, ImplementsAtomicLedger, Atomic!AtomicSpec, RefinementInv, Seen

-----------------------------------------------------------------------------
(***************************************************************************)
(* Transfers and overdrafts.                                               *)
(***************************************************************************)

LegTypes == {"Withdrawal", "Deposit"}

\* Effects E of one seat have no transfer legs, or two that cancel.
LegsCancel(E) ==
  \/ \A i \in DOMAIN E : E[i].type \notin LegTypes
  \/ /\ {1, 2} \subseteq DOMAIN E /\ E[1].type \in LegTypes /\ E[2].type \in LegTypes
     /\ \A i \in DOMAIN E : E[i].type \in LegTypes => i \in {1, 2}
     /\ E[1].amt + E[2].amt = 0

\* A debit's transfer legs are those that fund it.
LEMMA DebitLegsCancel ==
  ASSUME TypeOK, NEW s \in Seats, NEW amt \in Nat, NEW a, NEW type, type \notin LegTypes,
         NEW of, NEW comp
  PROVE  LegsCancel(ChargeEffects(s, amt, a, type, of, comp))
  <1> DEFINE t == FundingTransfer(s, amt, a)
             x == Effect(s, "savings", -t, "Withdrawal", 0, 0)
             y == Effect(s, "checking", t, "Deposit", 0, 0)
             z == Effect(s, a, -amt, type, of, comp)
  <1>1. PICK E : E = ChargeEffects(s, amt, a, type, of, comp)
    OBVIOUS
  <1>2. E = IF t > 0 THEN << x, y, z >> ELSE << z >>
    BY <1>1, ChargeShape
  <1>3. /\ x.type \in LegTypes /\ y.type \in LegTypes /\ z.type \notin LegTypes
        /\ x.amt = -t /\ y.amt = t
    BY DEF Effect, LegTypes
  <1>4. t \in Int
    <2>1. Available(s, "checking") \in Int
      BY AvailableFacts DEF Account
    <2> QED  BY <2>1 DEF FundingTransfer
  <1> HIDE DEF t, x, y, z
  <1>5. \/ DOMAIN E = {1, 2, 3} /\ E[1] = x /\ E[2] = y /\ E[3] = z
        \/ DOMAIN E = {1} /\ E[1] = z
    BY <1>2
  <1>6. LegsCancel(E)
    BY <1>3, <1>4, <1>5 DEF LegsCancel
  <1> QED  BY <1>1, <1>6

\* The transfer legs among a command's effects on a seat cancel.
LEMMA EffectsLegsCancel ==
  ASSUME LedgerInv, NEW p \in Procs, NEW c \in Commands, c = job[p], NEW s \in c.seats,
         Allowed(c)
  PROVE  LegsCancel(EffectsFor(c, s))
  <1>1. TypeOK /\ s \in Seats /\ c.kind \in Kinds /\ c.amt \in Nat
    BY CommandFacts DEF LedgerInv
  <1>2. c.kind \in {"credit", "charge"} => c.type \notin LegTypes
    BY LedgerAssumption DEF LegTypes
  <1>3. CASE c.kind = "credit"
    <2>1. PICK E : E = <<Effect(s, c.acct, c.amt, c.type, 0, 0)>>
      OBVIOUS
    <2>2. DOMAIN E = {1} /\ E[1].type = c.type
      BY <2>1 DEF Effect
    <2>3. EffectsFor(c, s) = E
      BY <1>3, <2>1 DEF EffectsFor
    <2> QED  BY <1>2, <1>3, <2>2, <2>3 DEF LegsCancel
  <1>4. CASE c.kind = "transfer"
    <2>1. PICK E : E = TransferPair(s, c.amt, c.acct)
      OBVIOUS
    <2>2. /\ DOMAIN E = {1, 2} /\ E[1].type = "Withdrawal" /\ E[2].type = "Deposit"
          /\ E[1].amt = -c.amt /\ E[2].amt = c.amt
      BY <2>1 DEF TransferPair, Effect
    <2>3. EffectsFor(c, s) = E
      BY <1>4, <2>1 DEF EffectsFor
    <2> QED  BY <1>1, <2>2, <2>3 DEF LegsCancel, LegTypes
  <1>5. CASE c.kind = "charge"
    <2>1. EffectsFor(c, s) = ChargeEffects(s, c.amt, "checking", c.type, 0, 0)
      BY <1>5 DEF EffectsFor
    <2> QED  BY <1>1, <1>2, <1>5, <2>1, DebitLegsCancel
  <1>6. ASSUME c.kind \in {"reverse", "recover"}
        PROVE  Original(c) \in rows /\ Original(c).seat \in Seats /\ Original(c).amt \in Int
    <2>1. Originals(c) # {}
      BY <1>6 DEF LedgerInv, JobsRun
    <2> QED  BY <1>1, <2>1, OriginalFacts
  <1>7. CASE c.kind = "reverse"
    <2>1. PICK z : z = Original(c)
      OBVIOUS
    <2>2. z.seat \in Seats /\ z.amt \in Int
      BY <1>6, <1>7, <2>1
    <2>3. EffectsFor(c, s) = ReversalEffects(z)
      BY <1>7, <2>1 DEF EffectsFor
    <2>4. "REVERSAL" \notin LegTypes
      BY DEF LegTypes
    <2>5. CASE z.amt > 0
      <3>1. EffectsFor(c, s) = ChargeEffects(z.seat, z.amt, z.acct, "REVERSAL", z.seq, z.amt)
        BY <2>3, <2>5 DEF ReversalEffects
      <3>2. z.amt \in Nat
        BY <2>2, <2>5
      <3> QED  BY <1>1, <2>2, <2>4, <3>1, <3>2, DebitLegsCancel
    <2>6. CASE ~(z.amt > 0)
      <3>1. PICK E : E = <<Effect(z.seat, z.acct, -z.amt, "REVERSAL", z.seq, 0)>>
        OBVIOUS
      <3>2. DOMAIN E = {1} /\ E[1].type = "REVERSAL"
        BY <3>1 DEF Effect
      <3>3. EffectsFor(c, s) = E
        BY <2>3, <2>6, <3>1 DEF ReversalEffects
      <3> QED  BY <2>4, <3>2, <3>3 DEF LegsCancel
    <2> QED  BY <2>5, <2>6
  <1>8. CASE c.kind = "recover"
    <2>1. PICK take, z : take = RecoveryCents(c) /\ z = Original(c)
      OBVIOUS
    <2>2. EffectsFor(c, s) = ChargeEffects(s, take, z.acct, "payroll_correction", z.seq, take)
      BY <1>8, <2>1 DEF EffectsFor
    <2>3. take \in Nat
      <3>1. ~OverRecovers(c)
        BY <1>8 DEF Allowed
      <3>2. z.amt \in Int /\ RecoveredCents(z.seq) \in Nat
        BY <1>6, <1>8, <2>1, RecoveredFacts
      <3>3. z.amt - RecoveredCents(z.seq) > 0
        BY <2>1, <3>1, <3>2 DEF OverRecovers
      <3> QED  BY <1>1, <2>1, <3>2, <3>3 DEF RecoveryCents
    <2>4. "payroll_correction" \notin LegTypes
      BY DEF LegTypes
    <2> QED  BY <1>1, <2>2, <2>3, <2>4, DebitLegsCancel
  <1> QED  BY <1>1, <1>3, <1>4, <1>5, <1>7, <1>8 DEF Kinds

\* The transfer legs that command k wrote for seat s.
LegsOf(R, k, s) == {r \in R : r.key = k /\ r.seat = s /\ r.type \in {"Withdrawal", "Deposit"}}

\* Two rows or none, which sum to zero.
Balanced(S) == Cardinality(S) \in {0, 2} /\ SumAmounts(S) = 0

LEMMA PairBalanced ==
  ASSUME NEW x \in Row, NEW y \in Row, x # y, x.amt + y.amt = 0
  PROVE  Balanced({x, y})
  <1>1. IsFiniteSet({x}) /\ Cardinality({x}) = 1
    BY FS_Singleton
  <1>2. Cardinality({x} \cup {y}) = 2 /\ IsFiniteSet({x} \cup {y})
    BY <1>1, FS_AddElement
  <1>3. {x, y} = {x} \cup {y} /\ {x} \cap {y} = {}
    OBVIOUS
  <1>4. IsFiniteSet({y})
    BY FS_Singleton
  <1>5. SumAmounts({x} \cup {y}) = SumAmounts({x}) + SumAmounts({y})
    BY <1>1, <1>3, <1>4, SumOfUnion
  <1>6. AmountOf[x] = x.amt /\ AmountOf[y] = y.amt /\ x.amt \in Int /\ y.amt \in Int
    BY DEF AmountOf, Row
  <1>7. SumAmounts({x}) = Total(AmountOf, {x}) /\ SumAmounts({y}) = Total(AmountOf, {y})
    BY <1>1, <1>4, SumIsTotal
  <1>8. Total(AmountOf, {x}) = x.amt /\ Total(AmountOf, {y}) = y.amt
    BY <1>6, TotalOne
  <1> QED  BY <1>2, <1>3, <1>5, <1>7, <1>8 DEF Balanced

\* The legs that a commit adds for a seat of its command are balanced.
LEMMA CommittedLegs ==
  ASSUME RefinementInv, NEW p \in Procs, Commit(p), NEW c \in Commands, c = job[p],
         NEW s \in c.seats
  PROVE  Balanced(LegsOf(buf[p], c.key, s))
  <1>1. /\ buf[p] \subseteq Row /\ Allowed(c)
        /\ \A r \in buf[p] : r.key = c.key /\ r.seat \in c.seats /\ Written(c, r)
        /\ \A t \in c.seats : \A i \in DOMAIN EffectsFor(c, t) :
              \E r \in buf[p] : r.seat = t /\ r.leg = i
        /\ \A q, r \in buf[p] : q.seat = r.seat /\ q.leg = r.leg => q = r
    BY ONLY RefinementInv, Commit(p), c = job[p], c \in Commands, p \in Procs, CommittedRows
  <1>2. PICK E : E = EffectsFor(c, s)
    OBVIOUS
  <1>3. LegsCancel(E)
    BY <1>1, <1>2, EffectsLegsCancel DEF RefinementInv
  <1>4. \A r \in buf[p] : r.seat = s =>
          r.leg \in DOMAIN E /\ r.type = E[r.leg].type /\ r.amt = E[r.leg].amt
    BY <1>1, <1>2 DEF Written, RowOf
  <1>5. CASE \A i \in DOMAIN E : E[i].type \notin LegTypes
    <2>1. LegsOf(buf[p], c.key, s) = {}
      BY <1>4, <1>5 DEF LegsOf, LegTypes
    <2> QED  BY <2>1, SumFacts, FS_EmptySet DEF Balanced
  <1>6. CASE /\ {1, 2} \subseteq DOMAIN E /\ E[1].type \in LegTypes /\ E[2].type \in LegTypes
             /\ \A i \in DOMAIN E : E[i].type \in LegTypes => i \in {1, 2}
             /\ E[1].amt + E[2].amt = 0
    <2>1. PICK x \in buf[p], y \in buf[p] : x.seat = s /\ x.leg = 1 /\ y.seat = s /\ y.leg = 2
      BY <1>1, <1>2, <1>6
    <2>2. x # y /\ x.amt + y.amt = 0 /\ x \in Row /\ y \in Row
      BY <1>1, <1>4, <1>6, <2>1
    <2>3. LegsOf(buf[p], c.key, s) = {x, y}
      <3>1. x \in LegsOf(buf[p], c.key, s) /\ y \in LegsOf(buf[p], c.key, s)
        BY <1>1, <1>4, <1>6, <2>1 DEF LegsOf, LegTypes
      <3>2. ASSUME NEW r \in LegsOf(buf[p], c.key, s) PROVE r = x \/ r = y
        <4>1. r \in buf[p] /\ r.seat = s /\ r.type \in LegTypes
          BY DEF LegsOf, LegTypes
        <4>2. r.leg = 1 \/ r.leg = 2
          BY <1>4, <1>6, <4>1
        <4> QED  BY <1>1, <2>1, <4>1, <4>2
      <3> QED  BY <3>1, <3>2
    <2> QED  BY <2>2, <2>3, PairBalanced
  <1> QED  BY <1>3, <1>5, <1>6 DEF LegsCancel

\* Commits keep transfers balanced.
LEMMA TransfersCommitted ==
  ASSUME RefinementInv, TransfersBalance, NEW p \in Procs, Commit(p)
  PROVE  TransfersBalance'
  <1> SUFFICES ASSUME NEW k \in Keys, NEW s \in Seats
               PROVE  Balanced(LegsOf(rows', k, s))
    BY DEF TransfersBalance, Balanced, LegsOf
  <1>1. rows' = rows \cup buf[p]
    BY DEF Commit
  <1>2. Balanced(LegsOf(rows, k, s))
    BY DEF TransfersBalance, Balanced, LegsOf
  <1>3. CASE \A r \in buf[p] : ~(r.key = k /\ r.seat = s)
    <2>1. LegsOf(rows', k, s) = LegsOf(rows, k, s)
      BY <1>1, <1>3 DEF LegsOf
    <2> QED  BY <1>2, <2>1
  <1>4. CASE \E r \in buf[p] : r.key = k /\ r.seat = s
    <2>1. PICK c : c = job[p]
      OBVIOUS
    <2>2. c \in Commands
      BY <1>4, <2>1 DEF RefinementInv, OnceInv, BuffersUnique
    <2>3. s \in c.seats /\ k = c.key /\ resv[k] = Null
      BY <1>4, <2>1, <2>2, CommittedRows
    <2>4. LegsOf(rows, k, s) = {}
      BY <2>3 DEF LegsOf, RefinementInv, OnceInv, ExactlyOnce
    <2>5. LegsOf(rows', k, s) = LegsOf(buf[p], k, s)
      BY <1>1, <2>4 DEF LegsOf
    <2> QED  BY <2>1, <2>2, <2>3, <2>5, CommittedLegs
  <1> QED  BY <1>3, <1>4

(***************************************************************************)
(* INV-LED-014: every transfer a command writes, the student's own         *)
(* (build_transfer_effect_pair) or the one that funds a charge             *)
(* (apply_resolved_ledger_plan), is one withdrawal and one deposit of the  *)
(* same amount, whatever else is committed between decision and commit.    *)
(***************************************************************************)
THEOREM TransfersStayBalanced == Spec => []TransfersBalance
  <1>1. Init => TransfersBalance
    <2> SUFFICES ASSUME Init, NEW k \in Keys, NEW s \in Seats
                 PROVE  Balanced(LegsOf(rows, k, s))
      BY DEF TransfersBalance, Balanced, LegsOf
    <2>1. LegsOf(rows, k, s) = {}
      BY DEF Init, LegsOf
    <2> QED  BY <2>1, SumFacts, FS_EmptySet DEF Balanced
  <1>2. RefinementInv /\ TransfersBalance /\ [Next]_vars => TransfersBalance'
    <2> SUFFICES ASSUME RefinementInv, TransfersBalance, [Next]_vars PROVE TransfersBalance'
      OBVIOUS
    <2>1. ASSUME \A p \in Procs : ~Commit(p) PROVE UNCHANGED rows
      BY <2>1 DEF Next, Step, Submit, SweepStart, SweepNext, LockSeat, LockClass, Decide,
                  Reserve, Write, Settle, Fail, EndWithout, vars
    <2>2. CASE UNCHANGED rows
      BY <2>2 DEF TransfersBalance
    <2> QED  BY <2>1, <2>2, TransfersCommitted
  <1>3. OnceInv => CorrectionsVisible
    BY EntriesIdentify DEF OnceInv
  <1> QED  BY <1>1, <1>2, <1>3, LedgerInvariant, OnceInvariant, CapInvariant,
              DecisionInvariant, AvailableBalances, PTL DEF Spec, RefinementInv, Seen

\* The debits that nothing refuses.
ForcedTypes == {"penalty", "REVERSAL", "payroll_correction"}

\* Effects E on seat s take an account below zero only by a forced debit of it.
NoOverdraft(s, E) ==
  \A a \in Account :
    Change(E, a) < 0 /\ Available(s, a) + Change(E, a) < 0 =>
      \E i \in DOMAIN E : E[i].acct = a /\ E[i].type \in ForcedTypes

\* The savings that fund a debit cover what they fund; the debit itself is forced
\* or leaves checking covered.
LEMMA DebitCovered ==
  ASSUME TypeOK, NEW s \in Seats, NEW amt \in Nat, amt > 0, NEW a \in Account, NEW type,
         NEW of, NEW comp,
         type \in ForcedTypes \/ (a = "checking" /\ CheckingAfter(s, amt) >= 0)
  PROVE  NoOverdraft(s, ChargeEffects(s, amt, a, type, of, comp))
  <1> DEFINE t == FundingTransfer(s, amt, a)
             x == Effect(s, "savings", -t, "Withdrawal", 0, 0)
             y == Effect(s, "checking", t, "Deposit", 0, 0)
             z == Effect(s, a, -amt, type, of, comp)
  <1>1. PICK E : E = ChargeEffects(s, amt, a, type, of, comp)
    OBVIOUS
  <1>2. E = IF t > 0 THEN << x, y, z >> ELSE << z >>
    BY <1>1, ChargeShape
  <1>3. Account = {"checking", "savings"}
        /\ Available(s, "checking") \in Int /\ Available(s, "savings") \in Int
    BY AvailableFacts DEF Account
  <1>4. t \in Nat /\ (t > 0 => a = "checking" /\ Available(s, "savings") >= t)
    BY <1>3 DEF FundingTransfer
  <1>5. a = "checking" => CheckingAfter(s, amt) = Available(s, a) + t - amt
    BY DEF CheckingAfter
  <1>6. /\ x.acct = "savings" /\ x.amt = -t /\ y.acct = "checking" /\ y.amt = t
        /\ z.acct = a /\ z.amt = -amt /\ z.type = type
    BY DEF Effect
  <1> HIDE DEF t, x, y, z
  <1>7. CASE t > 0
    <2>1. DOMAIN E = {1, 2, 3} /\ E[1] = x /\ E[2] = y /\ E[3] = z
      BY <1>2, <1>7
    <2>2. Change(E, "savings") = -t /\ Change(E, "checking") = t - amt
      BY <1>4, <1>6, <1>7, <2>1 DEF Change, Share
    <2>3. NoOverdraft(s, E)
      BY <1>3, <1>4, <1>5, <1>6, <1>7, <2>1, <2>2 DEF NoOverdraft
    <2> QED  BY <1>1, <2>3
  <1>8. CASE ~(t > 0)
    <2>1. DOMAIN E = {1} /\ E[1] = z /\ t = 0
      BY <1>2, <1>4, <1>8
    <2>2. \A b \in Account : Change(E, b) = IF b = a THEN -amt ELSE 0
      BY <1>6, <2>1 DEF Change, Share
    <2>3. NoOverdraft(s, E)
      BY <1>3, <1>5, <1>6, <2>1, <2>2 DEF NoOverdraft
    <2> QED  BY <1>1, <2>3
  <1> QED  BY <1>7, <1>8

\* A command's effects on a seat overdraw it only by a forced debit.
LEMMA EffectsCovered ==
  ASSUME LedgerInv, NEW p \in Procs, NEW c \in Commands, c = job[p], NEW s \in c.seats,
         Allowed(c)
  PROVE  NoOverdraft(s, EffectsFor(c, s))
  <1>1. TypeOK /\ s \in Seats /\ c.kind \in Kinds /\ c.amt \in Nat /\ c.acct \in Account
    BY CommandFacts DEF LedgerInv
  <1>2. c.kind \in {"credit", "transfer", "charge"} => c.amt > 0
    BY LedgerAssumption
  <1>3. \A a \in Account : Available(s, a) \in Int
    BY <1>1, AvailableFacts
  <1>4. CASE c.kind = "credit"
    <2>1. PICK E : E = <<Effect(s, c.acct, c.amt, c.type, 0, 0)>>
      OBVIOUS
    <2>2. \A a \in Account : Change(E, a) = IF a = c.acct THEN c.amt ELSE 0
      BY <1>1, <2>1, SimpleChanges
    <2>3. EffectsFor(c, s) = E
      BY <1>4, <2>1 DEF EffectsFor
    <2> QED  BY <1>1, <1>2, <1>4, <2>2, <2>3 DEF NoOverdraft
  <1>5. CASE c.kind = "transfer"
    <2>1. PICK E : E = TransferPair(s, c.amt, c.acct)
      OBVIOUS
    <2>2. \A a \in Account : Change(E, a) = IF a = c.acct THEN -c.amt ELSE c.amt
      BY <1>1, <2>1, SimpleChanges
    <2>3. EffectsFor(c, s) = E
      BY <1>5, <2>1 DEF EffectsFor
    <2>4. Available(s, c.acct) >= c.amt
      BY <1>5 DEF Allowed
    <2> QED  BY <1>1, <1>2, <1>3, <1>5, <2>2, <2>3, <2>4 DEF NoOverdraft
  <1>6. CASE c.kind = "charge"
    <2>1. EffectsFor(c, s) = ChargeEffects(s, c.amt, "checking", c.type, 0, 0)
      BY <1>6 DEF EffectsFor
    <2>2. c.type \in ForcedTypes \/ CheckingAfter(s, c.amt) >= 0
      BY <1>6, LedgerAssumption DEF Allowed, ForcedTypes
    <2>3. "checking" \in Account
      BY DEF Account
    <2> QED  BY <1>1, <1>2, <1>6, <2>1, <2>2, <2>3, DebitCovered
  <1>7. ASSUME c.kind \in {"reverse", "recover"}
        PROVE  Original(c).seat = s /\ Original(c).amt \in Int /\ Original(c).acct \in Account
    <2>1. Originals(c) # {}
      BY <1>7 DEF LedgerInv, JobsRun
    <2>2. Original(c) \in rows /\ Original(c).seat \in c.seats
      BY <2>1 DEF Original, Originals
    <2> QED  BY <1>1, <1>7, <2>2, CommandFacts DEF TypeOK, Row
  <1>8. "REVERSAL" \in ForcedTypes /\ "payroll_correction" \in ForcedTypes
    BY DEF ForcedTypes
  <1>9. CASE c.kind = "reverse"
    <2>1. PICK z : z = Original(c)
      OBVIOUS
    <2>2. z.seat = s /\ z.amt \in Int /\ z.acct \in Account
      BY <1>7, <1>9, <2>1
    <2>3. EffectsFor(c, s) = ReversalEffects(z)
      BY <1>9, <2>1 DEF EffectsFor
    <2>4. CASE z.amt > 0
      <3>1. EffectsFor(c, s) = ChargeEffects(s, z.amt, z.acct, "REVERSAL", z.seq, z.amt)
        BY <2>2, <2>3, <2>4 DEF ReversalEffects
      <3>2. z.amt \in Nat
        BY <2>2, <2>4
      <3> QED  BY <1>1, <1>8, <2>2, <2>4, <3>1, <3>2, DebitCovered
    <2>5. CASE ~(z.amt > 0)
      <3>1. PICK E : E = <<Effect(s, z.acct, -z.amt, "REVERSAL", z.seq, 0)>>
        OBVIOUS
      <3>2. \A a \in Account : Change(E, a) = IF a = z.acct THEN -z.amt ELSE 0
        BY <2>2, <3>1, SimpleChanges
      <3>3. EffectsFor(c, s) = E
        BY <2>2, <2>3, <2>5, <3>1 DEF ReversalEffects
      <3> QED  BY <2>2, <2>5, <3>2, <3>3 DEF NoOverdraft
    <2> QED  BY <2>4, <2>5
  <1>10. CASE c.kind = "recover"
    <2>1. PICK take, z : take = RecoveryCents(c) /\ z = Original(c)
      OBVIOUS
    <2>2. EffectsFor(c, s) = ChargeEffects(s, take, z.acct, "payroll_correction", z.seq, take)
      BY <1>10, <2>1 DEF EffectsFor
    <2>3. z.acct \in Account /\ z.amt \in Int
      BY <1>7, <1>10, <2>1
    <2>4. take \in Nat /\ take > 0
      <3>1. ~OverRecovers(c)
        BY <1>10 DEF Allowed
      <3>2. RecoveredCents(z.seq) \in Nat
        BY RecoveredFacts
      <3>3. z.amt - RecoveredCents(z.seq) > 0
        BY <2>1, <2>3, <3>1, <3>2 DEF OverRecovers
      <3> QED  BY <1>1, <2>1, <2>3, <3>2, <3>3 DEF RecoveryCents
    <2> QED  BY <1>1, <1>8, <2>2, <2>3, <2>4, DebitCovered
  <1> QED  BY <1>1, <1>4, <1>5, <1>6, <1>9, <1>10 DEF Kinds

\* A step of the ledger that takes an account below zero writes a forced debit of it.
Overdrafts ==
  \A s \in Seats, a \in Account :
    Available(s, a)' < 0 /\ Available(s, a)' < Available(s, a) =>
      \E r \in rows' \ rows : r.seat = s /\ r.acct = a /\ r.type \in ForcedTypes

LEMMA CommitOverdrafts ==
  ASSUME RefinementInv, Seen', NEW p \in Procs, Commit(p), NEW c \in Commands, c = job[p]
  PROVE  Overdrafts
  <1> SUFFICES ASSUME NEW s \in Seats, NEW a \in Account,
                      Available(s, a)' < 0, Available(s, a)' < Available(s, a)
               PROVE  \E r \in rows' \ rows :
                        r.seat = s /\ r.acct = a /\ r.type \in ForcedTypes
    BY DEF Overdrafts
  <1>1. PICK E : E = EffectsFor(c, s)
    OBVIOUS
  <1>2. Available(s, a)' = Available(s, a) + (IF s \in c.seats THEN Change(E, a) ELSE 0)
    BY <1>1, BalancesAfter
  <1>3. Available(s, a) \in Int
    BY AvailableFacts DEF RefinementInv, LedgerInv
  <1>4. s \in c.seats
    BY <1>2, <1>3
  <1>5. /\ Allowed(c) /\ \A r \in buf[p] : Written(c, r)
        /\ \A t \in c.seats : \A i \in DOMAIN EffectsFor(c, t) :
              \E r \in buf[p] : r.seat = t /\ r.leg = i
    BY ONLY RefinementInv, Commit(p), c = job[p], c \in Commands, p \in Procs, CommittedRows
  <1>6. NoOverdraft(s, E)
    BY <1>1, <1>4, <1>5, EffectsCovered DEF RefinementInv
  <1>7. Change(E, a) \in Int
    <2>1. \A i \in DOMAIN E : E[i].amt \in Int
      <3> TAKE i \in DOMAIN E
      <3>1. PICK r \in buf[p] : r.seat = s /\ r.leg = i
        BY <1>1, <1>4, <1>5
      <3>2. r.amt = E[i].amt
        BY <1>1, <1>5, <3>1 DEF Written, RowOf
      <3>3. r \in Row
        BY <3>1 DEF RefinementInv, LedgerInv, TypeOK
      <3> QED  BY <3>2, <3>3 DEF Row
    <2> QED  BY <2>1 DEF Change, Share
  <1>8. Change(E, a) < 0 /\ Available(s, a) + Change(E, a) < 0
    BY <1>2, <1>3, <1>4, <1>7
  <1>9. PICK i \in DOMAIN E : E[i].acct = a /\ E[i].type \in ForcedTypes
    BY <1>6, <1>8 DEF NoOverdraft
  <1>10. PICK r \in buf[p] : r.seat = s /\ r.leg = i
    BY <1>1, <1>4, <1>5
  <1>11. r.acct = a /\ r.type \in ForcedTypes
    BY <1>1, <1>5, <1>9, <1>10 DEF Written, RowOf
  <1>12. r \in rows' /\ r \notin rows
    BY <1>10, CommitFacts DEF RefinementInv
  <1> QED  BY <1>10, <1>11, <1>12

(***************************************************************************)
(* INV-LED-015: however commands interleave, a transfer or funded charge   *)
(* never takes an account below zero, and neither does the protection      *)
(* transfer that funds a debit: the balance each was decided on            *)
(* (resolve_intended_ledger_plan) is still there when its rows commit.     *)
(***************************************************************************)
THEOREM OverdraftsAreForced == Spec => OnlyForcedDebitsOverdraw
  <1>1. RefinementInv /\ Seen' /\ [Next]_vars => [Overdrafts]_vars
    <2> SUFFICES ASSUME RefinementInv, Seen', [Next]_vars PROVE Overdrafts
      OBVIOUS
    <2>1. ASSUME NEW p \in Procs, Commit(p), job[p] \in Commands PROVE Overdrafts
      BY <2>1, CommitOverdrafts
    <2>2. ASSUME UNCHANGED Balances PROVE Overdrafts
      <3>1. ASSUME NEW s \in Seats, NEW a \in Account
            PROVE  Available(s, a)' = Available(s, a)
        <4>1. Balances'[s][a] = Available(s, a)' /\ Balances[s][a] = Available(s, a)
          BY DEF Balances
        <4> QED  BY <2>2, <4>1
      <3>2. \A s \in Seats, a \in Account : Available(s, a) \in Int
        BY AvailableFacts DEF RefinementInv, LedgerInv
      <3> QED  BY <3>1, <3>2 DEF Overdrafts
    <2>3. ASSUME NEW p \in Procs, Commit(p), job[p] \notin Commands PROVE UNCHANGED Balances
      BY <2>3, SettlementUnseen
    <2>4. ASSUME \A p \in Procs : ~Commit(p) PROVE UNCHANGED <<rows, resv, snap>>
      BY <2>4 DEF Next, Step, Submit, SweepStart, SweepNext, LockSeat, LockClass, Decide,
                  Reserve, Write, Settle, Fail, EndWithout, vars
    <2> QED  BY <2>1, <2>2, <2>3, <2>4, OthersUnseen
  <1>2. OnceInv => CorrectionsVisible
    BY EntriesIdentify DEF OnceInv
  <1>3. [Overdrafts]_vars =>
          [ \A s \in Seats, a \in Account :
              Available(s, a)' < 0 /\ Available(s, a)' < Available(s, a) =>
                \E r \in rows' \ rows :
                  /\ r.seat = s /\ r.acct = a
                  /\ r.type \in {"penalty", "REVERSAL", "payroll_correction"} ]_vars
    BY DEF Overdrafts, ForcedTypes
  <1> QED  BY <1>1, <1>2, <1>3, LedgerInvariant, OnceInvariant, CapInvariant,
              DecisionInvariant, AvailableBalances, PTL
           DEF Spec, OnlyForcedDebitsOverdraw, RefinementInv, Seen

=============================================================================
