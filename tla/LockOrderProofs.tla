--------------------------- MODULE LockOrderProofs --------------------------
(***************************************************************************)
(* Writers that take row locks in the prescribed order never wait in a     *)
(* circle, whatever their number, the number of seats and the programs;    *)
(* and the programs of the ledger and hall-pass FEATs are in that order.   *)
(***************************************************************************)
EXTENDS LockOrder, WellFoundedInduction, TLAPS

-----------------------------------------------------------------------------
(* What a session holds is what it acquired so far. *)

HeldIsAcquired ==
  \A p \in Procs, l \in Lock : owner[l] = p => \E i \in 1..at[p] : prog[p][i] = l

LockInv == TypeOK /\ HeldIsAcquired

\* Every lock program is a nonempty sequence of rows.
LEMMA ProgramFacts ==
  ASSUME TypeOK, NEW p \in Procs
  PROVE  /\ prog[p] \in Seq(Lock)
         /\ Len(prog[p]) \in Nat
         /\ at[p] \in Nat /\ at[p] =< Len(prog[p])
         /\ Acquiring(p) => /\ at[p] + 1 \in 1..Len(prog[p])
                            /\ Wanted(p) \in Lock
  <1>1. prog[p] \in Seq(Lock)
    <2>1. CASE prog[p] = <<>>
      BY <2>1
    <2>2. CASE prog[p] \in Writers
      BY <2>2, LockOrderAssumption
    <2> QED  BY <2>1, <2>2 DEF TypeOK
  <1> QED  BY <1>1 DEF TypeOK, Acquiring, Wanted

\* Sessions, rows held and rows acquired stay consistent.
LEMMA LockInvInit == Init => LockInv
  <1> SUFFICES ASSUME Init PROVE LockInv
    OBVIOUS
  <1>1. TypeOK
    BY DEF Init, TypeOK
  <1>2. HeldIsAcquired
    BY LockOrderAssumption DEF Init, HeldIsAcquired
  <1> QED  BY <1>1, <1>2 DEF LockInv

\* The end of a transaction forgets all its rows at once.
LEMMA ReleaseKeepsLockInv ==
  ASSUME LockInv, NEW p \in Procs, Release(p)
  PROVE  LockInv'
  <1>1. TypeOK'
    BY DEF LockInv, TypeOK, Release
  <1>2. HeldIsAcquired'
    <2> SUFFICES ASSUME NEW q \in Procs, NEW l \in Lock, owner'[l] = q
                 PROVE  \E i \in 1..at'[q] : prog'[q][i] = l
      BY DEF HeldIsAcquired
    <2>1. q # p /\ owner[l] = q
      BY LockOrderAssumption DEF Release
    <2>2. at'[q] = at[q] /\ prog'[q] = prog[q]
      BY <2>1 DEF Release, LockInv, TypeOK
    <2> QED  BY <2>1, <2>2 DEF LockInv, HeldIsAcquired
  <1> QED  BY <1>1, <1>2 DEF LockInv

\* Every step of a session keeps the rows it holds among those it acquired.
LEMMA LockInvStep == LockInv /\ [Next]_vars => LockInv'
  <1> SUFFICES ASSUME LockInv, [Next]_vars PROVE LockInv'
    OBVIOUS
  <1>1. ASSUME NEW p \in Procs, Begin(p) PROVE LockInv'
    <2>1. at[p] = 0
      BY <1>1 DEF Begin, LockInv, TypeOK
    <2>2. PICK w \in Writers : prog' = [prog EXCEPT ![p] = w]
      BY <1>1 DEF Begin
    <2>3. at' = at /\ owner' = owner
      BY <1>1 DEF Begin
    <2>4. Len(w) \in Nat
      BY LockOrderAssumption
    <2>5. TypeOK'
      BY <2>1, <2>2, <2>3, <2>4 DEF LockInv, TypeOK
    <2>6. HeldIsAcquired'
      BY <2>1, <2>2, <2>3 DEF LockInv, TypeOK, HeldIsAcquired
    <2> QED  BY <2>5, <2>6 DEF LockInv
  <1>2. ASSUME NEW p \in Procs, Acquire(p) PROVE LockInv'
    <2>1. /\ Wanted(p) \in Lock /\ at[p] + 1 =< Len(prog[p]) /\ at[p] \in Nat
          /\ Wanted(p) = prog[p][at[p] + 1]
      BY <1>2, ProgramFacts DEF LockInv, Acquire, Wanted
    <2>2. /\ owner' = [owner EXCEPT ![Wanted(p)] = p]
          /\ at' = [at EXCEPT ![p] = at[p] + 1]
          /\ prog' = prog
      BY <1>2 DEF Acquire
    <2>3. TypeOK'
      BY <2>1, <2>2 DEF LockInv, TypeOK
    <2>4. HeldIsAcquired'
      <3> SUFFICES ASSUME NEW q \in Procs, NEW l \in Lock, owner'[l] = q
                   PROVE  \E i \in 1..at'[q] : prog'[q][i] = l
        BY DEF HeldIsAcquired
      <3>1. CASE l = Wanted(p)
        <4>1. q = p
          BY <2>1, <2>2, <3>1 DEF LockInv, TypeOK
        <4> QED  BY <2>1, <2>2, <3>1, <4>1 DEF LockInv, TypeOK
      <3>2. CASE l # Wanted(p)
        <4>1. PICK i \in 1..at[q] : prog[q][i] = l
          BY <2>2, <3>2 DEF LockInv, TypeOK, HeldIsAcquired
        <4>2. at[q] \in Nat /\ at'[q] \in Nat /\ at[q] =< at'[q]
          BY <2>1, <2>2 DEF LockInv, TypeOK
        <4> QED  BY <2>2, <4>1, <4>2
      <3> QED  BY <3>1, <3>2
    <2> QED  BY <2>3, <2>4 DEF LockInv
  <1>3. ASSUME NEW p \in Procs, Commit(p) PROVE LockInv'
    BY <1>3, ReleaseKeepsLockInv DEF Commit
  <1>4. ASSUME NEW p \in Procs, Rollback(p) PROVE LockInv'
    BY <1>4, ReleaseKeepsLockInv DEF Rollback
  <1>5. CASE UNCHANGED vars
    BY <1>5 DEF vars, LockInv, TypeOK, HeldIsAcquired
  <1> QED  BY <1>1, <1>2, <1>3, <1>4, <1>5 DEF Next

-----------------------------------------------------------------------------
(* Distance of a row from the end of the lock order. *)

Distance(l) ==
  IF l = ClassRow THEN 0
  ELSE 2 * (LastSeat - l[2]) + (IF l[1] = "seat" THEN 2 ELSE 1)

\* A row taken before another is farther from the end.
LEMMA BeforeIsFarther ==
  ASSUME NEW k \in Lock, NEW l \in Lock
  PROVE  /\ Distance(k) \in Nat
         /\ Before(k, l) => Distance(l) < Distance(k)
  <1>1. \A m \in Lock : \/ m = ClassRow
                        \/ \E s \in Seats : m = <<"seat", s>>
                        \/ \E s \in Seats : m = <<"request", s>>
    BY DEF Lock, SeatRow, RequestRow
  <1>2. ClassRow = <<"class", 0>>
    BY DEF ClassRow
  <1>3. \A m \in Lock : m # ClassRow => m[2] \in 0..LastSeat
    BY <1>1, LockOrderAssumption
  <1>4. \A s \in Seats : SeatRow(s)[1] = "seat" /\ RequestRow(s)[1] = "request"
                       /\ SeatRow(s)[2] = s /\ RequestRow(s)[2] = s
                       /\ RequestRow(s) # ClassRow
    BY <1>2 DEF SeatRow, RequestRow
  <1>5. Distance(k) \in Nat /\ Distance(l) \in Nat
    BY <1>3, LockOrderAssumption DEF Distance
  <1>6. ASSUME Before(k, l), l = ClassRow PROVE Distance(l) < Distance(k)
    BY <1>3, <1>6, LockOrderAssumption DEF Distance, Before
  <1>7. ASSUME Before(k, l), l # ClassRow, k[2] < l[2]
        PROVE  Distance(l) < Distance(k)
    BY <1>3, <1>7, LockOrderAssumption DEF Distance, Before
  <1>8. ASSUME Before(k, l), NEW s \in Seats, k = SeatRow(s), l = RequestRow(s)
        PROVE  Distance(l) < Distance(k)
    BY <1>3, <1>4, <1>8, LockOrderAssumption DEF Distance, Before
  <1> QED  BY <1>5, <1>6, <1>7, <1>8 DEF Before

\* In a state of ordered writers, the session one waits for wants a later row.
LEMMA WaitingGoesForward ==
  ASSUME LockInv, \A w \in Writers : Ordered(w),
         NEW p \in Procs, NEW q \in Procs, WaitsFor(p, q), Acquiring(q),
         owner[Wanted(q)] # q
  PROVE  Before(Wanted(p), Wanted(q))
  <1>1. Wanted(p) \in Lock /\ owner[Wanted(p)] = q
    BY ProgramFacts DEF LockInv, WaitsFor
  <1>2. PICK i \in 1..at[q] : prog[q][i] = Wanted(p)
    BY <1>1 DEF LockInv, HeldIsAcquired
  <1>3. /\ at[q] \in Nat /\ at[q] + 1 \in 1..Len(prog[q])
        /\ prog[q] \in Seq(Lock)
    BY ProgramFacts DEF LockInv
  <1>4. prog[q] \in Writers
    BY <1>3 DEF LockInv, TypeOK
  <1>5. i \in DOMAIN prog[q] /\ at[q] + 1 \in DOMAIN prog[q] /\ i < at[q] + 1
    BY <1>2, <1>3
  <1>6. Wanted(q) = prog[q][at[q] + 1]
    BY DEF Wanted
  <1>7. Wanted(p) # Wanted(q)
    BY <1>1
  <1> QED  BY <1>2, <1>4, <1>5, <1>6, <1>7 DEF Ordered

\* The state part of the result: ordered writers, no circle.
LEMMA NoCircle ==
  ASSUME LockInv, \A w \in Writers : Ordered(w)
  PROVE  NoCircularWait
  <1> SUFFICES ASSUME NEW D \in SUBSET Procs, D # {},
                      \A p \in D : \E q \in D : WaitsFor(p, q)
               PROVE  FALSE
    BY DEF NoCircularWait
  <1>2. \A p \in D : Acquiring(p) /\ Wanted(p) \in Lock
    BY ProgramFacts DEF WaitsFor, LockInv
  <1> DEFINE T == {Distance(Wanted(p)) : p \in D}
  <1>3. T \in SUBSET Nat /\ T # {}
    BY <1>2, BeforeIsFarther
  <1>4. PICK d \in T : \A e \in T : ~ (<<e, d>> \in OpToRel(<, Nat))
    <2>1. IsWellFoundedOn(OpToRel(<, Nat), Nat)
      BY NatLessThanWellFounded
    <2> HIDE DEF T
    <2> QED  BY <1>3, <2>1, WFMin
  <1>5. PICK p \in D : d = Distance(Wanted(p))
    OBVIOUS
  <1>6. PICK q \in D : WaitsFor(p, q)
    OBVIOUS
  <1>7. PICK r \in D : WaitsFor(q, r)
    OBVIOUS
  <1>8. Before(Wanted(p), Wanted(q))
    BY <1>6, <1>7, WaitingGoesForward DEF WaitsFor
  <1>9. Distance(Wanted(q)) < d /\ Distance(Wanted(q)) \in Nat /\ d \in Nat
    BY <1>2, <1>5, <1>8, BeforeIsFarther
  <1>10. Distance(Wanted(q)) \in T
    OBVIOUS
  <1> QED  BY <1>4, <1>9, <1>10 DEF OpToRel

(***************************************************************************)
(* No deadlock: transactions that lock seats by id, a seat's request after *)
(* the seat and the class row last (lock_ledger_seats, lock_recovery_scope *)
(* and the FEATs that follow them) never wait for one another in a circle. *)
(***************************************************************************)
THEOREM OrderedWritersNeverDeadlock ==
  ASSUME \A w \in Writers : Ordered(w)
  PROVE  Spec => []NoCircularWait
  <1>1. Init => LockInv
    BY LockInvInit
  <1>2. LockInv /\ [Next]_vars => LockInv'
    BY LockInvStep
  <1>3. LockInv => NoCircularWait
    BY NoCircle
  <1> QED  BY <1>1, <1>2, <1>3, PTL DEF Spec

(***************************************************************************)
(* The lock programs of the ledger and hall-pass FEATs follow the order,   *)
(* for any seats: what the theorem above assumes of the writers.           *)
(***************************************************************************)
THEOREM FeatLockProgramsAreOrdered ==
  ASSUME NEW s \in Seats, NEW t \in Seats, s < t,
         NEW q \in Seq(Seats), Ascending(q)
  PROVE  /\ Ordered(SeatMoney(s))
         /\ Ordered(TeacherPenalty(q)) /\ Ordered(VoidBatch(q))
         /\ Ordered(SavingsInterest(q)) /\ Ordered(PayrollCycle(q))
         /\ Ordered(SubmitHallPass(s)) /\ Ordered(ApproveHallPass(s))
         /\ Ordered(DropHallPass(s)) /\ Ordered(ClosePriorDay(s, t))
  <1>1. \A u \in Seats : /\ SeatRow(u) # ClassRow /\ RequestRow(u) # ClassRow
                        /\ SeatRow(u)[2] = u /\ RequestRow(u)[2] = u
    BY DEF SeatRow, RequestRow, ClassRow
  <1>2. /\ Before(SeatRow(s), ClassRow) /\ Before(RequestRow(s), ClassRow)
        /\ Before(SeatRow(s), RequestRow(s)) /\ Before(SeatRow(t), RequestRow(t))
        /\ Before(SeatRow(s), SeatRow(t)) /\ Before(SeatRow(s), RequestRow(t))
        /\ Before(RequestRow(s), SeatRow(t)) /\ Before(RequestRow(s), RequestRow(t))
    BY <1>1, LockOrderAssumption DEF Before
  <1>3. /\ Ordered(SeatMoney(s)) /\ Ordered(SubmitHallPass(s))
        /\ Ordered(ApproveHallPass(s)) /\ Ordered(DropHallPass(s))
    BY <1>2 DEF Ordered, SeatMoney, SubmitHallPass, ApproveHallPass, DropHallPass
  <1>4. Ordered(ClosePriorDay(s, t))
    BY <1>2 DEF Ordered, ClosePriorDay
  <1>5. Ordered(SeatRows(q) \o <<ClassRow>>)
    <2> DEFINE w == SeatRows(q) \o <<ClassRow>>
    <2>1. /\ Len(q) \in Nat /\ DOMAIN q = 1..Len(q)
          /\ \A i \in 1..Len(q) : q[i] \in Seats
      OBVIOUS
    <2>2. SeatRows(q) \in Seq({SeatRow(u) : u \in Seats}) /\ Len(SeatRows(q)) = Len(q)
      BY <2>1 DEF SeatRows
    <2>3. /\ DOMAIN w = 1..Len(q) + 1
          /\ \A i \in 1..Len(q) : w[i] = SeatRow(q[i])
          /\ w[Len(q) + 1] = ClassRow
      BY <2>1, <2>2 DEF SeatRows
    <2> SUFFICES ASSUME NEW i \in DOMAIN w, NEW j \in DOMAIN w, i < j
                 PROVE  Before(w[i], w[j])
      BY DEF Ordered
    <2>4. i \in 1..Len(q) /\ w[i] = SeatRow(q[i]) /\ w[i] # ClassRow /\ w[i][2] = q[i]
      BY <1>1, <2>1, <2>3
    <2>5. CASE j = Len(q) + 1
      BY <2>3, <2>4, <2>5 DEF Before
    <2>6. CASE j \in 1..Len(q)
      <3>1. w[j] = SeatRow(q[j]) /\ w[j][2] = q[j] /\ q[i] < q[j]
        BY <1>1, <2>1, <2>3, <2>4, <2>6 DEF Ascending
      <3> QED  BY <2>4, <3>1 DEF Before
    <2> QED  BY <2>1, <2>3, <2>5, <2>6
  <1> QED  BY <1>3, <1>4, <1>5 DEF TeacherPenalty, VoidBatch, SavingsInterest, PayrollCycle

(***************************************************************************)
(* A session waits inside its program and a row is held by one session.    *)
(***************************************************************************)
THEOREM LocksTyped == Spec => []TypeOK
  <1>1. LockInv => TypeOK
    BY DEF LockInv
  <1> QED  BY <1>1, LockInvInit, LockInvStep, PTL DEF Spec

=============================================================================
