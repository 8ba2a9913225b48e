---------------------------- MODULE PayrollProofs ----------------------------
(***************************************************************************)
(* Theorems about Payroll for any finite class, any workers, handlers,     *)
(* tokens and calendar: nothing is paid twice while runs settle in         *)
(* boundary order, scheduled paydays are settled one after the other, a    *)
(* ruling on unpaid time is never overtaken by a payment, and no instant   *)
(* of a student is paid twice.  The first two hold of any pairing of rows. *)
(* The others need what the scan returns of any rows, in whatever order    *)
(* they landed: closed pairs that their ids determine and that lie apart.  *)
(***************************************************************************)
EXTENDS Payroll, FiniteSetTheorems, WellFoundedInduction, TLAPS

-----------------------------------------------------------------------------
(***************************************************************************)
(* The largest of a bounded set of numbers, by a least difference to the   *)
(* bound.                                                                  *)
(***************************************************************************)

LEMMA LeastBy ==
  ASSUME NEW R, IsWellFoundedOn(R, Nat),
         \A x, y \in Nat : y < x => <<y, x>> \in R,
         NEW S \in SUBSET Nat, S # {}
  PROVE  \E x \in S : \A y \in S : x <= y
<1>1. PICK x \in S : \A y \in S : ~(<<y, x>> \in R)
  BY WFMin
<1>2. \A y \in S : y \in Nat
  OBVIOUS
<1>3. \A y \in S : ~(y < x)
  BY <1>1, <1>2, Zenon
<1> QED
  BY <1>2, <1>3

LEMMA LeastNat ==
  ASSUME NEW S \in SUBSET Nat, S # {}
  PROVE  \E x \in S : \A y \in S : x <= y
<1>1. \A x, y \in Nat : y < x => <<y, x>> \in OpToRel(<, Nat)
  BY DEF OpToRel
<1>2. IsWellFoundedOn(OpToRel(<, Nat), Nat)
  BY NatLessThanWellFounded, Zenon
<1>3. PICK R : IsWellFoundedOn(R, Nat) /\ \A x, y \in Nat : y < x => <<y, x>> \in R
  BY <1>1, <1>2, Zenon
<1> QED
  BY <1>3, LeastBy

LEMMA MaxOf ==
  ASSUME NEW S \in SUBSET Nat, S # {}, NEW n \in Nat, \A x \in S : x <= n
  PROVE  Max(S) \in S
<1> DEFINE T == { k \in Nat : \E x \in S : k = n - x }
<1>1. PICK d \in T : \A e \in T : d <= e
  <2>1. T \in SUBSET Nat
    OBVIOUS
  <2>2. T # {}
    <3>1. PICK x \in S : TRUE
      OBVIOUS
    <3>2. n - x \in Nat /\ x \in Nat
      OBVIOUS
    <3> QED
      BY <3>1, <3>2
  <2> HIDE DEF T
  <2> QED
    BY <2>1, <2>2, LeastNat
<1>2. PICK m \in S : d = n - m
  OBVIOUS
<1>3. \A y \in S : d <= n - y
  BY <1>1
<1>4. \A y \in S : m >= y
  BY <1>2, <1>3
<1> QED
  BY <1>4 DEF Max

\* The payday after the k-th is the one after it.
LEMMA NextMultiple ==
  ASSUME NEW p \in Nat \ {0}, NEW k \in Nat
  PROVE  (((k * p) \div p) + 1) * p = k * p + p
<1>1. (k * p) \div p = k
  OBVIOUS
<1> QED
  BY <1>1

-----------------------------------------------------------------------------
(***************************************************************************)
(* The inductive invariant.                                                *)
(***************************************************************************)

Payday(occurrence) == \E k \in Nat : occurrence = k * PayPeriod

\* What holds of each event: it is not ahead of the clock, and its run is done.
EventFacts(e) ==
  /\ e.at \in Nat /\ e.at <= now
  /\ e.mech = "SYSTEM" => Payday(e.occurrence)
  /\ e.key \in done

\* The occurrence a scheduled run settles is the first, or follows a settled one.
FollowsSettled(occurrence) ==
  \/ occurrence = PayPeriod
  \/ \E i \in 1..Len(events) : /\ events[i].mech = "SYSTEM"
                               /\ events[i].occurrence + PayPeriod = occurrence

RunFacts(r) ==
  /\ r.boundary \in Nat /\ r.boundary <= now
  /\ r.mech = "SYSTEM" => Payday(r.occurrence) /\ FollowsSettled(r.occurrence)

EventsSound == \A i \in 1..Len(events) : EventFacts(events[i])

RunsSound == \A w \in Workers : runs[w] # NoRun => RunFacts(runs[w])

PayInv ==
  /\ now \in Nat
  /\ \E E : events \in Seq(E)
  /\ runs = [w \in Workers |-> runs[w]]
  /\ EventsSound /\ RunsSound
  /\ PaidOnceInOrder /\ PaydaysInTurn

LEMMA InitPayInv == Init => PayInv
<1> SUFFICES ASSUME Init PROVE PayInv
  OBVIOUS
<1>1. events = <<>> /\ now = 1 /\ runs = [w \in Workers |-> NoRun]
  BY DEF Init
<1>2. events \in Seq({}) /\ Len(events) = 0
  BY <1>1
<1>3. PaidOnceInOrder /\ PaydaysInTurn
  BY <1>2 DEF PaidOnceInOrder, PaidTwice, PaydaysInTurn
<1>4. \E E : events \in Seq(E)
  BY <1>2
<1> QED
  BY <1>1, <1>2, <1>3, <1>4 DEF PayInv, EventsSound, RunsSound

-----------------------------------------------------------------------------
(***************************************************************************)
(* A run begins.                                                           *)
(***************************************************************************)

\* No step but a settlement writes events, and the clock only advances.
LEMMA NothingSettled ==
  ASSUME PayInv, now' \in Nat, now <= now', UNCHANGED <<events, done, runs>>
  PROVE  PayInv'
<1>1. \A e : EventFacts(e) => EventFacts(e)'
  BY DEF PayInv, EventFacts, Payday
<1>2. \A r : RunFacts(r) => RunFacts(r)'
  BY DEF PayInv, RunFacts, Payday, FollowsSettled
<1>3. EventsSound' /\ RunsSound'
  BY <1>1, <1>2 DEF PayInv, EventsSound, RunsSound
<1>4. PaidOnceInOrder' /\ PaydaysInTurn'
  BY DEF PayInv, PaidOnceInOrder, PaidTwice, InBoundaryOrder, PaydaysInTurn
<1> QED
  BY <1>3, <1>4 DEF PayInv

\* The payday the schedule names follows one that was settled.
LEMMA NextPayday ==
  ASSUME PayInv, PayrollConstants
  PROVE  Payday(next_payroll_date(now)) /\ FollowsSettled(next_payroll_date(now))
<1> DEFINE Sys == SystemEvents(now)
           Times == { events[i].at : i \in Sys }
           at == Max(Times)
           Final == { i \in Sys : events[i].at = at }
<1>1. CASE Sys = {}
  <2>1. next_payroll_date(now) = PayPeriod /\ PayPeriod = 1 * PayPeriod
    BY <1>1 DEF next_payroll_date, PayrollConstants
  <2> QED
    BY <2>1 DEF Payday, FollowsSettled
<1>2. CASE Sys # {}
  <2>1. \A i \in Sys : /\ i \in 1..Len(events) /\ events[i].mech = "SYSTEM"
                       /\ events[i].at \in Nat /\ events[i].at <= now
    BY DEF SystemEvents, PayInv, EventsSound, EventFacts
  <2>2. at \in Times
    <3>1. Times \in SUBSET Nat /\ Times # {} /\ \A x \in Times : x <= now
      BY <1>2, <2>1
    <3> HIDE DEF Times
    <3> QED
      BY <3>1, MaxOf DEF PayInv
  <2>3. Max(Final) \in Final
    <3>1. Len(events) \in Nat
      BY DEF PayInv
    <3>2. \E i \in Sys : events[i].at = at
      BY <2>2
    <3> HIDE DEF at, Sys
    <3>3. Final \in SUBSET Nat /\ Final # {} /\ \A i \in Final : i <= Len(events)
      BY <2>1, <3>1, <3>2
    <3> HIDE DEF Final
    <3> QED
      BY <3>1, <3>3, MaxOf
  <2> DEFINE i == Max(Final)
  <2>4. i \in 1..Len(events) /\ events[i].mech = "SYSTEM"
    BY <2>1, <2>3
  <2>5. PICK k \in Nat : events[i].occurrence = k * PayPeriod
    BY <2>4 DEF PayInv, EventsSound, EventFacts, Payday
  <2>6. next_payroll_date(now) = ((events[i].occurrence \div PayPeriod) + 1) * PayPeriod
    BY <1>2 DEF next_payroll_date, last_system_payroll_occurrence
  <2> HIDE DEF i
  <2>7. next_payroll_date(now) = k * PayPeriod + PayPeriod
    BY <2>5, <2>6, NextMultiple DEF PayrollConstants
  <2>8. next_payroll_date(now) = (k + 1) * PayPeriod /\ k + 1 \in Nat
    BY <2>5, <2>7 DEF PayrollConstants
  <2>9. Payday(next_payroll_date(now))
    BY <2>8, Zenon DEF Payday
  <2>10. events[i].occurrence + PayPeriod = next_payroll_date(now)
    BY <2>5, <2>7, Zenon
  <2> QED
    BY <2>4, <2>9, <2>10, Zenon DEF FollowsSettled
<1> QED
  BY <1>1, <1>2

LEMMA BeginStep ==
  ASSUME PayInv, NEW w \in Workers, NEW key, NEW mech, NEW occurrence,
         mech = "SYSTEM" => Payday(occurrence) /\ FollowsSettled(occurrence),
         Begin(w, key, mech, occurrence)
  PROVE  PayInv'
<1> DEFINE r == [key |-> key, mech |-> mech, boundary |-> now, occurrence |-> occurrence]
<1>1. /\ runs' = [runs EXCEPT ![w] = r]
      /\ UNCHANGED <<now, log, inflight, events, done, previews, invalid>>
  BY DEF Begin
<1>2. RunFacts(r)
  BY DEF RunFacts, PayInv
<1> HIDE DEF r
<1>3. runs' = [v \in Workers |-> IF v = w THEN r ELSE runs[v]]
  BY <1>1 DEF PayInv
<1>4. RunsSound'
  <2>1. \A x : RunFacts(x) => RunFacts(x)'
    BY <1>1 DEF RunFacts, Payday, FollowsSettled
  <2> QED
    BY <1>2, <1>3, <2>1 DEF PayInv, RunsSound
<1>5. EventsSound'
  <2>1. \A e : EventFacts(e) => EventFacts(e)'
    BY <1>1 DEF EventFacts, Payday
  <2> QED
    BY <1>1, <2>1 DEF PayInv, EventsSound
<1>6. PaidOnceInOrder' /\ PaydaysInTurn'
  BY <1>1 DEF PayInv, PaidOnceInOrder, PaidTwice, InBoundaryOrder, PaydaysInTurn
<1>7. runs' = [v \in Workers |-> runs'[v]]
  BY <1>3
<1> QED
  BY <1>1, <1>4, <1>5, <1>6, <1>7 DEF PayInv

-----------------------------------------------------------------------------
(***************************************************************************)
(* A run settles.                                                          *)
(***************************************************************************)

\* The events of a run: one a seat, all of its boundary, key and occurrence, each
\* of pairs that no event up to the boundary paid.
LEMMA RunEvents ==
  ASSUME PayrollConstants, NEW r, NEW rows
  PROVE  /\ IsFiniteSet(PayrollEvents(r, rows))
         /\ \A e \in PayrollEvents(r, rows) :
              /\ e.at = r.boundary /\ e.mech = r.mech /\ e.key = r.key
              /\ e.occurrence = r.occurrence
              /\ e.pairs \cap PaidPairs(e.seat, r.boundary) = {}
         /\ \A e, f \in PayrollEvents(r, rows) : e.seat = f.seat => e = f
<1> DEFINE pairs(s) == calculate_seat_payroll_intervals(rows[s], s, r.boundary)
           event(s) == [seat |-> s, at |-> r.boundary, mech |-> r.mech, key |-> r.key,
                        occurrence |-> r.occurrence, pairs |-> pairs(s)]
           Every == { event(s) : s \in Seats }
<1>1. PayrollEvents(r, rows) \subseteq Every
  BY DEF PayrollEvents
<1>2. IsFiniteSet(Every)
  <2> DEFINE f == [s \in Seats |-> event(s)]
  <2>1. \A e \in Every : \E s \in Seats : f[s] = e
    OBVIOUS
  <2>2. f \in [Seats -> Every]
    OBVIOUS
  <2> HIDE DEF f, event, Every
  <2>3. f \in Surjection(Seats, Every)
    BY <2>1, <2>2 DEF Surjection
  <2> QED
    BY <2>3, FS_Surjection DEF PayrollConstants
<1>3. \A s : pairs(s) \cap PaidPairs(s, r.boundary) = {}
  BY DEF calculate_seat_payroll_intervals
<1> HIDE DEF pairs
<1>4. \A e \in Every : /\ e.at = r.boundary /\ e.mech = r.mech /\ e.key = r.key
                       /\ e.occurrence = r.occurrence
                       /\ e.pairs = pairs(e.seat)
  OBVIOUS
<1>5. \A e, f \in Every : e.seat = f.seat => e = f
  OBVIOUS
<1> HIDE DEF Every
<1>6. IsFiniteSet(PayrollEvents(r, rows))
  BY <1>1, <1>2, FS_Subset
<1> QED
  BY <1>1, <1>3, <1>4, <1>5, <1>6

LEMMA ListedOnce ==
  ASSUME NEW n \in Nat, NEW S, NEW f \in [1..n -> S]
  PROVE  f \in Seq(S) /\ Len(f) = n
  OBVIOUS

\* Events added after the ones there, each once.
LEMMA AddedEvents ==
  ASSUME \E E : events \in Seq(E), NEW paid, IsFiniteSet(paid),
         NEW order \in SetToSeqs(paid), events' = events \o order
  PROVE  /\ \E E : events' \in Seq(E)
         /\ Len(events) \in Nat /\ Len(events') \in Nat /\ Len(events) <= Len(events')
         /\ paid # {} => Len(events) < Len(events')
         /\ \A i \in 1..Len(events) : i \in 1..Len(events') /\ events'[i] = events[i]
         /\ \A i \in 1..Len(events') : i > Len(events) => events'[i] \in paid
         /\ \A i, j \in 1..Len(events') :
              i > Len(events) /\ j > Len(events) /\ i # j => events'[i] # events'[j]
<1>1. PICK E : events \in Seq(E)
  OBVIOUS
<1>2. Cardinality(paid) \in Nat
  BY FS_CardinalityType
<1>3. /\ order \in [1..Cardinality(paid) -> paid]
      /\ \A i, j \in 1..Cardinality(paid) : i # j => order[i] # order[j]
  BY DEF SetToSeqs
<1>4. order \in Seq(paid) /\ Len(order) = Cardinality(paid)
  BY <1>2, <1>3, ListedOnce
<1>5. events \in Seq(E \cup paid) /\ order \in Seq(E \cup paid)
  BY <1>1, <1>4
<1>6. /\ events' \in Seq(E \cup paid) /\ Len(events') = Len(events) + Len(order)
      /\ \A i \in 1..Len(events') :
           events'[i] = IF i <= Len(events) THEN events[i] ELSE order[i - Len(events)]
  BY <1>5
<1>7. Len(events) \in Nat /\ Len(order) \in Nat
  BY <1>1, <1>2, <1>4
<1>8. \A i \in 1..Len(events) : i \in 1..Len(events') /\ events'[i] = events[i]
  BY <1>6, <1>7
<1>9. \A i \in 1..Len(events') : i > Len(events) =>
        /\ i - Len(events) \in 1..Cardinality(paid)
        /\ events'[i] = order[i - Len(events)]
  BY <1>4, <1>6, <1>7
<1>10. \A i \in 1..Len(events') : i > Len(events) => events'[i] \in paid
  BY <1>3, <1>9
<1>11. \A i, j \in 1..Len(events') :
         i > Len(events) /\ j > Len(events) /\ i # j => events'[i] # events'[j]
  <2> SUFFICES ASSUME NEW i \in 1..Len(events'), NEW j \in 1..Len(events'),
                      i > Len(events), j > Len(events), i # j
               PROVE  events'[i] # events'[j]
    OBVIOUS
  <2>1. i - Len(events) # j - Len(events)
    BY <1>7
  <2> QED
    BY <1>3, <1>9, <2>1
<1>12. paid # {} => Len(events) < Len(events')
  <2>1. paid # {} => Cardinality(paid) # 0
    BY FS_EmptySet
  <2> QED
    BY <1>2, <1>4, <1>6, <1>7, <2>1
<1>13. Len(events') \in Nat /\ Len(events) <= Len(events')
  BY <1>6, <1>7
<1>14. \E F : events' \in Seq(F)
  BY <1>6, Zenon
<1> QED
  BY <1>7, <1>8, <1>10, <1>11, <1>12, <1>13, <1>14, Zenon

LEMMA SettleStep ==
  ASSUME PayInv, PayrollConstants, NEW w \in Workers, complete_payroll_cycle(w)
  PROVE  PayInv'
<1> DEFINE r == runs[w]
<1>1. /\ r # NoRun /\ runs' = [runs EXCEPT ![w] = NoRun]
      /\ UNCHANGED <<now, previews, invalid>>
      /\ \/ UNCHANGED <<log, events, done>>
         \/ /\ ~CompletionConflict(r) /\ done' = done \cup {r.key}
            /\ \E order \in SetToSeqs(PayrollEvents(r, ClosedBy(r))) :
                 events' = events \o order
  BY DEF complete_payroll_cycle
<1>2. runs' = [v \in Workers |-> IF v = w THEN NoRun ELSE runs[v]]
  BY <1>1 DEF PayInv
<1>3. RunFacts(r)
  BY <1>1 DEF PayInv, RunsSound
<1>4. CASE UNCHANGED <<log, events, done>>
  <2>1. EventsSound'
    <3>1. \A e : EventFacts(e) => EventFacts(e)'
      BY <1>1, <1>4 DEF EventFacts, Payday
    <3> QED
      BY <1>4, <3>1 DEF PayInv, EventsSound
  <2>2. RunsSound'
    <3>1. \A x : RunFacts(x) => RunFacts(x)'
      BY <1>1, <1>4 DEF RunFacts, Payday, FollowsSettled
    <3> QED
      BY <1>2, <3>1 DEF PayInv, RunsSound
  <2>3. PaidOnceInOrder' /\ PaydaysInTurn'
    BY <1>4 DEF PayInv, PaidOnceInOrder, PaidTwice, InBoundaryOrder, PaydaysInTurn
  <2>4. runs' = [v \in Workers |-> runs'[v]]
    BY <1>2
  <2> QED
    BY <1>1, <1>4, <2>1, <2>2, <2>3, <2>4 DEF PayInv
<1>5. ASSUME NEW order \in SetToSeqs(PayrollEvents(r, ClosedBy(r))),
             events' = events \o order,
             ~CompletionConflict(r), done' = done \cup {r.key}
      PROVE  PayInv'
  <2> DEFINE paid == PayrollEvents(r, ClosedBy(r))
  <2>1. /\ \A e \in paid : /\ e.at = r.boundary /\ e.mech = r.mech /\ e.key = r.key
                           /\ e.occurrence = r.occurrence
                           /\ e.pairs \cap PaidPairs(e.seat, r.boundary) = {}
        /\ \A e, f \in paid : e.seat = f.seat => e = f
        /\ IsFiniteSet(paid)
    BY RunEvents
  <2> HIDE DEF paid
  <2>2. /\ \E E : events' \in Seq(E)
        /\ Len(events) \in Nat /\ Len(events') \in Nat /\ Len(events) <= Len(events')
        /\ \A i \in 1..Len(events) : i \in 1..Len(events') /\ events'[i] = events[i]
        /\ \A i \in 1..Len(events') : i > Len(events) => events'[i] \in paid
        /\ \A i, j \in 1..Len(events') :
             i > Len(events) /\ j > Len(events) /\ i # j => events'[i] # events'[j]
    BY <1>5, <2>1, AddedEvents DEF PayInv, paid
  <2> HIDE DEF r
  <2>3. EventsSound'
    <3>1. \A e : EventFacts(e) => EventFacts(e)'
      BY <1>1, <1>5 DEF EventFacts, Payday
    <3>2. \A e \in paid : EventFacts(e)'
      BY <1>1, <1>3, <1>5, <2>1 DEF EventFacts, RunFacts, Payday
    <3>3. \A i \in 1..Len(events') : i \in 1..Len(events) \/ i > Len(events)
      BY <2>2
    <3> QED
      BY <2>2, <3>1, <3>2, <3>3 DEF PayInv, EventsSound
  <2>4. RunsSound'
    <3>1. \A o : FollowsSettled(o) => FollowsSettled(o)'
      BY <2>2 DEF FollowsSettled
    <3>2. \A x : RunFacts(x) => RunFacts(x)'
      BY <1>1, <3>1 DEF RunFacts, Payday
    <3> QED
      BY <1>2, <3>2 DEF PayInv, RunsSound
  <2>5. PaidOnceInOrder'
    <3> SUFFICES ASSUME InBoundaryOrder'
                 PROVE  \A i, j \in 1..Len(events') :
                          i # j /\ events'[i].seat = events'[j].seat =>
                            events'[i].pairs \cap events'[j].pairs = {}
      BY DEF PaidOnceInOrder, PaidTwice
    <3> SUFFICES ASSUME NEW i \in 1..Len(events'), NEW j \in 1..Len(events'), i < j,
                        events'[i].seat = events'[j].seat
                 PROVE  events'[i].pairs \cap events'[j].pairs = {}
      <4>1. \A i, j \in 1..Len(events') : i # j => i < j \/ j < i
        BY <2>2
      <4> QED
        BY <4>1
    <3>2. CASE j \in 1..Len(events)
      <4>1. InBoundaryOrder
        BY <2>2 DEF InBoundaryOrder
      <4>2. ~PaidTwice
        BY <4>1 DEF PayInv, PaidOnceInOrder
      <4>3. i \in 1..Len(events) /\ events'[i] = events[i] /\ events'[j] = events[j]
        BY <2>2, <3>2
      <4> QED
        BY <3>2, <4>2, <4>3 DEF PaidTwice
    <3>3. CASE j > Len(events) /\ i \in 1..Len(events)
      <4>1. events[i].at <= r.boundary /\ events[i].seat = events'[j].seat
        BY <2>1, <2>2, <3>3 DEF InBoundaryOrder
      <4>2. events[i].pairs \subseteq PaidPairs(events'[j].seat, r.boundary)
        BY <3>3, <4>1 DEF PaidPairs, EventsOf
      <4> QED
        BY <2>1, <2>2, <3>3, <4>2
    <3>4. CASE j > Len(events) /\ i > Len(events)
      BY <2>1, <2>2, <3>4
    <3> QED
      BY <2>2, <3>2, <3>3, <3>4
  <2>6. PaydaysInTurn'
    <3>1. SUFFICES ASSUME NEW j \in 1..Len(events'), events'[j].mech = "SYSTEM"
                   PROVE  /\ \/ events'[j].occurrence = PayPeriod
                             \/ \E i \in 1..(j - 1) :
                                  /\ events'[i].mech = "SYSTEM"
                                  /\ events'[i].occurrence + PayPeriod = events'[j].occurrence
                          /\ \A i \in 1..(j - 1) :
                               events'[i].key = events'[j].key =>
                                 events'[i].at = events'[j].at
      BY DEF PaydaysInTurn
    <3>2. CASE j \in 1..Len(events)
      <4>1. \A i \in 1..(j - 1) : i \in 1..Len(events) /\ events'[i] = events[i]
        BY <2>2, <3>2
      <4>2. events'[j] = events[j]
        BY <2>2, <3>2
      <4>3. /\ \/ events[j].occurrence = PayPeriod
               \/ \E i \in 1..(j - 1) : /\ events[i].mech = "SYSTEM"
                                        /\ events[i].occurrence + PayPeriod
                                             = events[j].occurrence
            /\ \A i \in 1..(j - 1) :
                 events[i].key = events[j].key => events[i].at = events[j].at
        BY <3>1, <3>2, <4>2 DEF PayInv, PaydaysInTurn
      <4> HIDE <3>1
      <4> QED
        BY <4>1, <4>2, <4>3
    <3>3. CASE j > Len(events)
      <4>1. events'[j].mech = r.mech /\ events'[j].key = r.key /\ events'[j].at = r.boundary
            /\ events'[j].occurrence = r.occurrence
        BY <2>1, <2>2, <3>3
      <4>2. FollowsSettled(r.occurrence)
        BY <1>3, <3>1, <4>1 DEF RunFacts
      <4>3. \A i \in 1..Len(events) : i \in 1..(j - 1)
        BY <2>2, <3>3
      <4>4. \/ events'[j].occurrence = PayPeriod
            \/ \E i \in 1..(j - 1) :
                 /\ events'[i].mech = "SYSTEM"
                 /\ events'[i].occurrence + PayPeriod = events'[j].occurrence
        BY <2>2, <4>1, <4>2, <4>3 DEF FollowsSettled
      <4>5. ASSUME NEW i \in 1..(j - 1), events'[i].key = events'[j].key
            PROVE  events'[i].at = events'[j].at
        <5>1. i \in 1..Len(events')
          BY <2>2
        <5>2. CASE i \in 1..Len(events)
          BY <1>5, <2>2, <4>1, <4>5, <5>2
             DEF PayInv, EventsSound, EventFacts, CompletionConflict
        <5>3. CASE i > Len(events)
          BY <2>1, <2>2, <4>1, <5>1, <5>3
        <5> QED
          BY <2>2, <5>1, <5>2, <5>3
      <4> QED
        BY <4>4, <4>5
    <3> QED
      BY <2>2, <3>2, <3>3
  <2>7. runs' = [v \in Workers |-> runs'[v]]
    BY <1>2
  <2>8. now' \in Nat
    BY <1>1 DEF PayInv
  <2> QED
    BY <2>2, <2>3, <2>4, <2>5, <2>6, <2>7, <2>8 DEF PayInv
<1> QED
  BY <1>1, <1>4, <1>5

-----------------------------------------------------------------------------
(***************************************************************************)
(* The theorems.                                                           *)
(***************************************************************************)

LEMMA StepPayInv ==
  ASSUME PayInv, PayrollConstants, [Next]_vars
  PROVE  PayInv'
<1>1. CASE UNCHANGED vars
  BY <1>1, NothingSettled DEF vars, PayInv
<1>2. CASE Tick
  <2>1. now' \in Nat /\ now <= now' /\ UNCHANGED <<events, done, runs>>
    BY <1>2 DEF Tick, PayInv
  <2> QED
    BY <2>1, NothingSettled
<1>3. ASSUME NEW s \in Seats,
             \/ \E status \in {"active", "inactive"} : handle_tap(s, status)
             \/ \E p \in Passes : checkout_hall_pass(s, p) \/ checkin_hall_pass(s, p)
             \/ enforce_daily_limits_job(s)
             \/ preview_attendance_interval_invalidation(s)
      PROVE  PayInv'
  <2>1. UNCHANGED <<now, events, done, runs>>
    BY <1>3 DEF handle_tap, checkout_hall_pass, checkin_hall_pass, Tap, Start,
                enforce_daily_limits_job, preview_attendance_interval_invalidation
  <2> QED
    BY <2>1, NothingSettled DEF PayInv
<1>4. ASSUME NEW p \in previews, invalidate_attendance_interval(p)
      PROVE  PayInv'
  <2>1. UNCHANGED <<now, events, done, runs>>
    BY <1>4 DEF invalidate_attendance_interval
  <2> QED
    BY <2>1, NothingSettled DEF PayInv
<1>5. ASSUME NEW w \in Workers, run_automatic_payroll_job(w)
      PROVE  PayInv'
  BY <1>5, BeginStep, NextPayday DEF run_automatic_payroll_job
<1>6. ASSUME NEW w \in Workers, NEW token \in Tokens, run_payroll(w, token)
      PROVE  PayInv'
  BY <1>6, BeginStep DEF run_payroll
<1>7. ASSUME NEW w \in Workers, complete_payroll_cycle(w)
      PROVE  PayInv'
  BY <1>7, SettleStep
<1>8. ASSUME NEW op \in inflight, record_attendance_session(op) \/ SweepSeat(op)
      PROVE  PayInv'
  <2>1. UNCHANGED <<now, events, done, runs>>
    BY <1>8 DEF record_attendance_session, SweepSeat, Finish
  <2> QED
    BY <2>1, NothingSettled DEF PayInv
<1> QED
  BY <1>1, <1>2, <1>3, <1>4, <1>5, <1>6, <1>7, <1>8 DEF Next

LEMMA PayAlways == Spec => []PayInv
<1>1. PayInv /\ [Next]_vars => PayInv'
  BY PayrollConstants, StepPayInv
<1> QED
  BY <1>1, InitPayInv, PTL DEF Spec

\* While runs settle in the order of their boundaries nothing is paid twice,
\* however rows are paired and whatever is recorded between and during the runs.
THEOREM NothingPaidTwiceInOrder == Spec => []PaidOnceInOrder
<1>1. PayInv => PaidOnceInOrder
  BY DEF PayInv
<1> QED
  BY <1>1, PayAlways, PTL

\* Scheduled paydays are settled one after the other, each by one run, however
\* many workers start the job.
THEOREM PaydaysSettledInTurn == Spec => []PaydaysInTurn
<1>1. PayInv => PaydaysInTurn
  BY DEF PayInv
<1> QED
  BY <1>1, PayAlways, PTL

-----------------------------------------------------------------------------
(***************************************************************************)
(* Attendance handlers in flight: what they carry to the seat's lock, and  *)
(* what they write there, at an instant read since they started.           *)
(***************************************************************************)

HandlerFacts(op) ==
  /\ op.seat \in Seats /\ op.since \in Nat /\ op.since <= now
  /\ op.op = "record" => /\ op.status \in {"active", "inactive"} /\ op.reason \in Reasons
                         /\ op.pass \in Passes \cup {NoPass}

HandlersSound == \A op \in inflight : HandlerFacts(op)

\* A handler starts with what its route or job read.
LEMMA HandlerStarts ==
  ASSUME now \in Nat, NEW s \in Seats,
         \/ \E status \in {"active", "inactive"} : handle_tap(s, status)
         \/ \E p \in Passes : checkout_hall_pass(s, p) \/ checkin_hall_pass(s, p)
         \/ enforce_daily_limits_job(s)
  PROVE  /\ UNCHANGED <<now, log, events, done, runs, previews, invalid>>
         /\ \E op : HandlerFacts(op) /\ inflight' = inflight \cup {op}
<1>1. ASSUME NEW status \in {"active", "inactive"}, NEW reason \in Reasons,
             NEW pass \in Passes \cup {NoPass}, Tap(s, status, reason, pass)
      PROVE  \E op : HandlerFacts(op) /\ Start(op)
  BY <1>1 DEF Tap, HandlerFacts
<1>2. CASE enforce_daily_limits_job(s)
  <2> DEFINE op == [op |-> "sweep", seat |-> s, since |-> now]
  <2>1. HandlerFacts(op)
    BY DEF HandlerFacts
  <2>2. Start(op)
    BY <1>2 DEF enforce_daily_limits_job
  <2> HIDE DEF op
  <2> QED
    BY <2>1, <2>2 DEF Start
<1>3. \/ enforce_daily_limits_job(s)
      \/ \E status \in {"active", "inactive"}, reason \in Reasons,
            pass \in Passes \cup {NoPass} : Tap(s, status, reason, pass)
  <2>1. "start_work" \in Reasons /\ "done_for_day" \in Reasons /\ "hall_pass" \in Reasons
    BY DEF Reasons
  <2> QED
    BY <2>1 DEF handle_tap, checkout_hall_pass, checkin_hall_pass
<1> QED
  BY <1>1, <1>2, <1>3 DEF Start

\* Under the lock a handler leaves the rows as they are, records or sweeps.
LEMMA HandlerLands ==
  ASSUME HandlersSound, now \in Nat, NEW op \in inflight,
         record_attendance_session(op) \/ SweepSeat(op)
  PROVE  /\ op.seat \in Seats /\ inflight' \subseteq inflight
         /\ UNCHANGED <<now, events, done, runs, previews, invalid>>
         /\ \E rows : /\ log' = [log EXCEPT ![op.seat] = rows]
                      /\ \/ rows = log[op.seat]
                         \/ \E t \in Nat, status \in {"active", "inactive"},
                               reason \in Reasons, pass \in Passes \cup {NoPass} :
                              rows = Recorded(log[op.seat], t, status, reason, pass, "self")
                         \/ \E t \in Nat : rows = Swept(log[op.seat], t)
<1>1. HandlerFacts(op) /\ \A t \in ReadAt(op) : t \in Nat
  BY DEF HandlersSound, HandlerFacts, ReadAt
<1>2. CASE record_attendance_session(op)
  <2> DEFINE landed(t) ==
               Recorded(log[op.seat], t, op.status, op.reason, op.pass, "self")
  <2>1. PICK t \in ReadAt(op) : Finish(op, log[op.seat]) \/ Finish(op, landed(t))
    BY <1>2 DEF record_attendance_session
  <2>2. /\ op.status \in {"active", "inactive"} /\ op.reason \in Reasons
        /\ op.pass \in Passes \cup {NoPass} /\ t \in Nat
    BY <1>1, <1>2 DEF record_attendance_session, HandlerFacts
  <2>3. \E rows : /\ Finish(op, rows)
                 /\ \/ rows = log[op.seat]
                    \/ \E u \in Nat, status \in {"active", "inactive"},
                          reason \in Reasons, pass \in Passes \cup {NoPass} :
                         rows = Recorded(log[op.seat], u, status, reason, pass, "self")
    BY <2>1, <2>2, Zenon
  <2> QED
    BY <1>1, <2>3 DEF Finish, HandlerFacts
<1>3. CASE SweepSeat(op)
  BY <1>1, <1>3 DEF SweepSeat, Finish, HandlerFacts
<1> QED
  BY <1>2, <1>3

\* Only the clock, a handler that lands and a run that settles change what the
\* invariants below are about.
LEMMA StepCases ==
  ASSUME [Next]_vars
  PROVE  \/ Tick
         \/ UNCHANGED <<now, log, events>>
         \/ \E op \in inflight : record_attendance_session(op) \/ SweepSeat(op)
         \/ \E w \in Workers : complete_payroll_cycle(w)
  BY DEF Next, vars, run_automatic_payroll_job, run_payroll, Begin, handle_tap,
         checkout_hall_pass, checkin_hall_pass, enforce_daily_limits_job, Tap, Start,
         preview_attendance_interval_invalidation, invalidate_attendance_interval

LEMMA HandlersStep ==
  ASSUME HandlersSound, PayInv, [Next]_vars
  PROVE  HandlersSound'
<1>1. now \in Nat
  BY DEF PayInv
<1>2. CASE Tick
  BY <1>1, <1>2 DEF Tick, HandlersSound, HandlerFacts
<1>3. CASE UNCHANGED <<now, inflight>>
  BY <1>3 DEF HandlersSound, HandlerFacts
<1>4. ASSUME NEW s \in Seats,
             \/ \E status \in {"active", "inactive"} : handle_tap(s, status)
             \/ \E p \in Passes : checkout_hall_pass(s, p) \/ checkin_hall_pass(s, p)
             \/ enforce_daily_limits_job(s)
      PROVE  HandlersSound'
  <2>1. UNCHANGED now /\ \E op : HandlerFacts(op) /\ inflight' = inflight \cup {op}
    BY <1>1, <1>4, HandlerStarts
  <2> QED
    BY <2>1 DEF HandlersSound, HandlerFacts
<1>5. ASSUME NEW op \in inflight, record_attendance_session(op) \/ SweepSeat(op)
      PROVE  HandlersSound'
  <2>1. UNCHANGED now /\ inflight' \subseteq inflight
    BY <1>1, <1>5, HandlerLands
  <2> QED
    BY <2>1 DEF HandlersSound, HandlerFacts
<1>6. \/ Tick \/ UNCHANGED <<now, inflight>>
      \/ \E s \in Seats :
           \/ \E status \in {"active", "inactive"} : handle_tap(s, status)
           \/ \E p \in Passes : checkout_hall_pass(s, p) \/ checkin_hall_pass(s, p)
           \/ enforce_daily_limits_job(s)
      \/ \E op \in inflight : record_attendance_session(op) \/ SweepSeat(op)
  BY DEF Next, vars, run_automatic_payroll_job, run_payroll, Begin,
         complete_payroll_cycle, preview_attendance_interval_invalidation,
         invalidate_attendance_interval
<1> QED
  BY <1>2, <1>3, <1>4, <1>5, <1>6

-----------------------------------------------------------------------------
(***************************************************************************)
(* The rows of a seat: each has its own id, whichever writer added it and  *)
(* however far into the past it is dated.                                  *)
(***************************************************************************)

RowSound(r) == r.at \in Nat /\ r.id \in Nat \ {0} /\ r.status \in {"active", "inactive"}

OwnIds(rows) == \A q, r \in rows : q.id = r.id => q = r

RowsSound(rows) ==
  /\ IsFiniteSet(rows)
  /\ OwnIds(rows)
  /\ \A r \in rows : RowSound(r) /\ r.id <= Cardinality(rows)

LEMMA RowFacts ==
  \A id, status, reason, pass, at, mech :
    LET r == Row(id, status, reason, pass, at, mech)
    IN r.id = id /\ r.status = status /\ r.at = at
  BY DEF Row

\* Rows with ids of their own, one after the other from the next one on.
LEMMA AddRows ==
  ASSUME NEW rows, RowsSound(rows), NEW new, IsFiniteSet(new), OwnIds(new),
         \A r \in new : /\ RowSound(r)
                        /\ Cardinality(rows) < r.id
                        /\ r.id <= Cardinality(rows) + Cardinality(new)
  PROVE  RowsSound(rows \cup new)
<1>1. IsFiniteSet(rows) /\ Cardinality(rows) \in Nat /\ Cardinality(new) \in Nat
  BY FS_CardinalityType DEF RowsSound
<1>2. \A q \in rows, r \in new : q.id # r.id
  BY <1>1 DEF RowsSound, RowSound
<1>3. rows \cap new = {}
  BY <1>2
<1>4. IsFiniteSet(rows \cup new)
  BY <1>1, FS_Union, Zenon
<1>5. Cardinality(rows \cup new) = Cardinality(rows) + Cardinality(new)
  <2>1. Cardinality(rows \cup new)
          = Cardinality(rows) + Cardinality(new) - Cardinality(rows \cap new)
    BY <1>1, FS_Union, Zenon
  <2>2. Cardinality(rows \cap new) = 0
    BY <1>3, FS_EmptySet
  <2> QED
    BY <1>1, <2>1, <2>2
<1>6. OwnIds(rows \cup new)
  BY <1>2 DEF OwnIds, RowsSound
<1>7. \A r \in rows \cup new : RowSound(r) /\ r.id <= Cardinality(rows \cup new)
  BY <1>1, <1>5 DEF RowsSound, RowSound
<1> QED
  BY <1>4, <1>6, <1>7 DEF RowsSound

LEMMA Append1Sound ==
  ASSUME NEW rows, RowsSound(rows), NEW status \in {"active", "inactive"},
         NEW reason, NEW pass, NEW at \in Nat, NEW mech
  PROVE  RowsSound(Append1(rows, status, reason, pass, at, mech))
<1> DEFINE r == Row(Cardinality(rows) + 1, status, reason, pass, at, mech)
<1>1. Cardinality(rows) \in Nat
  BY FS_CardinalityType DEF RowsSound
<1>2. RowSound(r) /\ r.id = Cardinality(rows) + 1
  BY <1>1, RowFacts DEF RowSound
<1>3. Append1(rows, status, reason, pass, at, mech) = rows \cup {r}
  BY DEF Append1
<1> HIDE DEF r
<1>4. IsFiniteSet({r}) /\ Cardinality({r}) = 1 /\ OwnIds({r})
  BY FS_Singleton DEF OwnIds
<1> QED
  BY <1>1, <1>2, <1>3, <1>4, AddRows

\* A nonempty collection of subsets of a finite set has a minimal one.
LEMMA SmallestSubset ==
  ASSUME NEW S, IsFiniteSet(S), NEW C \in SUBSET (SUBSET S), C # {}
  PROVE  \E T \in C : \A U \in C : U \subseteq T => U = T
<1>1. IsWellFoundedOn(StrictSubsetOrdering(S), SUBSET S)
  BY FS_StrictSubsetOrderingWellFounded, FS_FiniteSubsetsOfFinite
<1>2. PICK T \in C : \A U \in C : ~ (<<U, T>> \in StrictSubsetOrdering(S))
  BY <1>1, WFMin
<1> QED
  BY <1>2 DEF StrictSubsetOrdering

\* A finite nonempty set of rows has a last one.
LEMMA LastFacts ==
  ASSUME NEW rows, IsFiniteSet(rows), \A r \in rows : RowSound(r), rows # {}
  PROVE  LastOf(rows) \in rows
<1> DEFINE Final(T) == { r \in T : \A q \in T : ~Precedes(r, q) }
           C == { T \in SUBSET rows : T # {} /\ Final(T) = {} }
<1>1. C = {}
  <2> SUFFICES ASSUME C # {} PROVE FALSE
    OBVIOUS
  <2>1. PICK T \in C : \A U \in C : U \subseteq T => U = T
    <3>1. C \in SUBSET (SUBSET rows)
      OBVIOUS
    <3> HIDE DEF C
    <3> QED
      BY <3>1, SmallestSubset
  <2>2. PICK x \in T : TRUE
    OBVIOUS
  <2>3. \A r \in T : r.at \in Nat /\ r.id \in Nat
    BY DEF RowSound
  <2>4. ~Precedes(x, x)
    BY <2>3 DEF Precedes
  <2>5. T \ {x} # {}
    BY <2>2, <2>4
  <2>6. T \ {x} \notin C /\ T \ {x} \in SUBSET rows
    BY <2>1, <2>2
  <2>7. PICK m \in T \ {x} : \A q \in T \ {x} : ~Precedes(m, q)
    BY <2>5, <2>6
  <2>8. m \in Final(T) \/ x \in Final(T)
    <3>1. CASE Precedes(m, x)
      <4>1. \A q \in T \ {x} : ~Precedes(x, q)
        <5> SUFFICES ASSUME NEW q \in T \ {x}, Precedes(x, q) PROVE Precedes(m, q)
          BY <2>7
        <5> QED
          BY <2>3, <3>1 DEF Precedes
      <4> QED
        BY <2>4, <4>1
    <3>2. CASE ~Precedes(m, x)
      BY <2>7, <3>2
    <3> QED
      BY <3>1, <3>2
  <2> QED
    BY <2>8
<1>2. \E r \in rows : ~\E q \in rows : Precedes(r, q)
  BY <1>1
<1> QED
  BY <1>2 DEF LastOf

LEMMA DayEndNat ==
  ASSUME AttendanceConstants, NEW t \in Nat
  PROVE  DayEnd(t) \in Nat
<1>1. t \div DayLength \in Nat /\ DayLength \in Nat
  BY DEF AttendanceConstants
<1>2. (t \div DayLength) * DayLength \in Nat
  BY <1>1
<1> QED
  BY <1>1, <1>2 DEF DayStart, DayEnd

LEMMA RecordedSound ==
  ASSUME AttendanceConstants, NEW rows, RowsSound(rows),
         NEW t \in Nat, NEW status \in {"active", "inactive"}, NEW reason, NEW pass, NEW mech
  PROVE  RowsSound(Recorded(rows, t, status, reason, pass, mech))
<1> DEFINE last == Latest(rows)
           end == Min({t, DayEnd(last.at)})
           over == Append1(rows, "inactive", "done_for_day", NoPass, end, mech)
<1>1. end \in Nat
  <2>1. last.at \in Nat
    BY LastFacts DEF Latest, NoRow, RowsSound, RowSound
  <2>2. DayEnd(last.at) \in Nat
    BY <2>1, DayEndNat
  <2> HIDE DEF last
  <2>3. \E x \in {t, DayEnd(last.at)} : \A y \in {t, DayEnd(last.at)} : x <= y
    BY <2>2
  <2>4. end \in {t, DayEnd(last.at)}
    BY <2>3 DEF Min
  <2> QED
    BY <2>2, <2>4
<1>2. RowsSound(over)
  BY <1>1, Append1Sound
<1>3. \/ Recorded(rows, t, status, reason, pass, mech)
           = Append1(rows, status, reason, pass, t, mech)
      \/ Recorded(rows, t, status, reason, pass, mech)
           = Append1(over, status, reason, pass, t, mech)
  BY DEF Recorded
<1> HIDE DEF over
<1> QED
  BY <1>2, <1>3, Append1Sound

\* In a strict order each element has its own number of predecessors.
LEMMA Ranks ==
  ASSUME NEW D, IsFiniteSet(D), NEW below,
         \A x \in D : below[x] \subseteq D /\ x \notin below[x],
         \A x, y \in D : x # y => x \in below[y] \/ y \in below[x],
         \A x, y \in D : x \in below[y] => below[x] \subseteq below[y]
  PROVE  /\ \A x \in D : /\ Cardinality(below[x]) \in Nat
                         /\ Cardinality(below[x]) < Cardinality(D)
         /\ \A x, y \in D : x # y => Cardinality(below[x]) # Cardinality(below[y])
<1>1. ASSUME NEW S \in SUBSET D, NEW T \in SUBSET S, T # S
      PROVE  Cardinality(T) \in Nat /\ Cardinality(T) < Cardinality(S)
  <2>1. IsFiniteSet(S)
    BY FS_Subset
  <2>2. IsFiniteSet(T) /\ Cardinality(T) <= Cardinality(S)
    BY <2>1, FS_Subset
  <2>3. Cardinality(T) # Cardinality(S)
    BY <1>1, <2>1, FS_Subset
  <2>4. Cardinality(S) \in Nat /\ Cardinality(T) \in Nat
    BY <2>1, <2>2, FS_CardinalityType
  <2> QED
    BY <2>2, <2>3, <2>4
<1>2. \A x \in D : Cardinality(below[x]) \in Nat /\ Cardinality(below[x]) < Cardinality(D)
  <2> TAKE x \in D
  <2>1. below[x] \in SUBSET D /\ below[x] # D /\ D \in SUBSET D
    OBVIOUS
  <2> QED
    BY <1>1, <2>1
<1>3. ASSUME NEW x \in D, NEW y \in D, x \in below[y]
      PROVE  Cardinality(below[x]) < Cardinality(below[y])
  <2>1. below[x] \in SUBSET below[y] /\ below[x] # below[y] /\ below[y] \in SUBSET D
    BY <1>3
  <2> QED
    BY <1>1, <2>1
<1>4. ASSUME NEW x \in D, NEW y \in D, x # y
      PROVE  Cardinality(below[x]) # Cardinality(below[y])
  BY <1>2, <1>3, <1>4
<1> QED
  BY <1>2, <1>4

\* The image of a finite set, and of one whose values all differ.
LEMMA ImageFacts ==
  ASSUME NEW S, IsFiniteSet(S), NEW f
  PROVE  /\ IsFiniteSet({ f[x] : x \in S })
         /\ (\A x, y \in S : f[x] = f[y] => x = y) =>
              Cardinality({ f[x] : x \in S }) = Cardinality(S)
<1> DEFINE T == { f[x] : x \in S }
           g == [x \in S |-> f[x]]
<1>1. g \in [S -> T] /\ (\A y \in T : \E x \in S : g[x] = y) /\ \A x \in S : g[x] = f[x]
  OBVIOUS
<1> HIDE DEF g, T
<1>2. g \in Surjection(S, T)
  BY <1>1 DEF Surjection
<1>3. ASSUME \A x, y \in S : f[x] = f[y] => x = y
      PROVE  g \in Injection(S, T)
  <2>1. \A x, y \in S : g[x] = g[y] => x = y
    BY <1>1, <1>3
  <2> QED
    BY <1>1, <2>1 DEF Injection, IsInjective
<1>4. IsFiniteSet(T) /\ (Cardinality(T) = Cardinality(S) <=> g \in Injection(S, T))
  BY <1>2, FS_Surjection
<1> QED
  BY <1>3, <1>4 DEF T

\* Rows numbered from an order of what they are about.
LEMMA NumberedRows ==
  ASSUME NEW D, IsFiniteSet(D), NEW f,
         \A x \in D : RowSound(f[x]),
         \A x, y \in D : x # y => f[x].id # f[y].id
  PROVE  /\ IsFiniteSet({ f[x] : x \in D }) /\ OwnIds({ f[x] : x \in D })
         /\ Cardinality({ f[x] : x \in D }) = Cardinality(D)
         /\ \A r \in { f[x] : x \in D } : RowSound(r)
<1>1. \A x, y \in D : f[x] = f[y] => x = y
  OBVIOUS
<1>2. /\ IsFiniteSet({ f[x] : x \in D })
      /\ Cardinality({ f[x] : x \in D }) = Cardinality(D)
  <2>1. IsFiniteSet({ f[x] : x \in D })
    BY ImageFacts
  <2>2. Cardinality({ f[x] : x \in D }) = Cardinality(D)
    BY <1>1, ImageFacts
  <2> QED
    BY <2>1, <2>2
<1> QED
  BY <1>2 DEF OwnIds

LEMMA DueSound ==
  ASSUME NEW rows, RowsSound(rows), NEW t \in Nat
  PROVE  RowsSound(close_due_attendance_intervals(rows, t))
<1> DEFINE intervals == list_attendance_intervals(rows, t)
           due == { d \in 0..t :
                      \E i \in intervals : i.closing = 0 /\ DueAt(intervals, i) = d }
           id(d) == Cardinality(rows) + 1 + Cardinality({ e \in due : e < d })
           row(d) == Row(id(d), "inactive", "done_for_day", NoPass, d, "system")
           f == [d \in due |-> row(d)]
           below == [d \in due |-> { e \in due : e < d }]
<1>1. close_due_attendance_intervals(rows, t) = rows \cup { row(d) : d \in due }
  BY DEF close_due_attendance_intervals
<1>2. IsFiniteSet(due) /\ due \subseteq Nat
  <2>1. IsFiniteSet(0..t) /\ due \subseteq 0..t
    BY FS_Interval
  <2> QED
    BY <2>1, FS_Subset
<1>3. Cardinality(rows) \in Nat /\ Cardinality(due) \in Nat
  BY <1>2, FS_CardinalityType DEF RowsSound
<1> HIDE DEF due
<1>4. /\ \A d \in due : /\ Cardinality(below[d]) \in Nat
                        /\ Cardinality(below[d]) < Cardinality(due)
      /\ \A d, e \in due : d # e => Cardinality(below[d]) # Cardinality(below[e])
  <2>1. \A d, e \in due : e \in below[d] <=> e < d
    OBVIOUS
  <2>2. \A d \in due : below[d] \subseteq due
    OBVIOUS
  <2> HIDE DEF below
  <2>3. /\ \A x \in due : below[x] \subseteq due /\ x \notin below[x]
        /\ \A x, y \in due : x # y => x \in below[y] \/ y \in below[x]
        /\ \A x, y \in due : x \in below[y] => below[x] \subseteq below[y]
    <3>1. \A x, y, z \in due : x < y /\ z < x => z < y
      BY <1>2
    <3>2. \A x, y \in due : ~(x < x) /\ (x # y => x < y \/ y < x)
      BY <1>2
    <3> QED
      BY <2>1, <2>2, <3>1, <3>2, Zenon
  <2> QED
    BY <1>2, <2>3, Ranks
<1>5. \A d \in due : id(d) = Cardinality(rows) + 1 + Cardinality(below[d])
  OBVIOUS
<1> HIDE DEF id, below
<1>6. \A d \in due : f[d].id = id(d) /\ f[d].at = d /\ f[d].status = "inactive"
  BY RowFacts
<1>7. { row(d) : d \in due } = { f[d] : d \in due }
  OBVIOUS
<1> HIDE DEF row, f
<1>8. \A d \in due : RowSound(f[d])
  BY <1>2, <1>3, <1>4, <1>5, <1>6 DEF RowSound
<1>9. \A d, e \in due : d # e => f[d].id # f[e].id
  BY <1>3, <1>4, <1>5, <1>6
<1>10. \A r \in { f[d] : d \in due } :
         Cardinality(rows) < r.id /\ r.id <= Cardinality(rows) + Cardinality(due)
  BY <1>3, <1>4, <1>5, <1>6
<1> DEFINE new == { f[d] : d \in due }
<1>11. /\ IsFiniteSet(new) /\ OwnIds(new) /\ Cardinality(new) = Cardinality(due)
       /\ \A r \in new : RowSound(r)
  BY <1>2, <1>8, <1>9, NumberedRows
<1>12. \A r \in new : /\ Cardinality(rows) < r.id
                      /\ r.id <= Cardinality(rows) + Cardinality(new)
  BY <1>10, <1>11
<1> HIDE DEF new
<1>13. RowsSound(rows \cup new)
  BY <1>11, <1>12, AddRows
<1> QED
  BY <1>1, <1>7, <1>13 DEF new

LEMMA HangingSound ==
  ASSUME AttendanceConstants, NEW rows, RowsSound(rows), NEW t \in Nat
  PROVE  RowsSound(close_due_hanging_hall_pass(rows, t))
<1> DEFINE exits == HangingExits(rows, t)
           n == Cardinality(rows)
           id(r) == n + 2 * Cardinality({ q \in exits : Precedes(q, r) })
           back(r) == Row(id(r) + 1, "active", "start_work", r.pass, DayEnd(r.at), "system")
           end(r) == Row(id(r) + 2, "inactive", "done_for_day", NoPass, DayEnd(r.at), "system")
           f == [r \in exits |-> back(r)]
           g == [r \in exits |-> end(r)]
           A == { f[r] : r \in exits }
           B == { g[r] : r \in exits }
           below == [r \in exits |-> { q \in exits : Precedes(q, r) }]
<1>1. close_due_hanging_hall_pass(rows, t) = rows \cup (A \cup B)
  BY DEF close_due_hanging_hall_pass
<1>2. IsFiniteSet(exits) /\ exits \subseteq rows
  BY FS_Subset DEF HangingExits, RowsSound
<1>3. n \in Nat /\ Cardinality(exits) \in Nat
  BY <1>2, FS_CardinalityType DEF RowsSound
<1> HIDE DEF exits
<1>4. /\ \A r \in exits : /\ Cardinality(below[r]) \in Nat
                          /\ Cardinality(below[r]) < Cardinality(exits)
      /\ \A q, r \in exits : q # r => Cardinality(below[q]) # Cardinality(below[r])
  <2>1. \A q, r \in exits : q \in below[r] <=> Precedes(q, r)
    OBVIOUS
  <2>2. \A r \in exits : below[r] \subseteq exits
    OBVIOUS
  <2> HIDE DEF below
  <2>3. \A r \in exits : r.at \in Nat /\ r.id \in Nat
    BY <1>2 DEF RowsSound, RowSound
  <2>4. \A q, r \in exits : q.id = r.id => q = r
    BY <1>2 DEF RowsSound, OwnIds
  <2>5. \A x, y, z \in exits : Precedes(x, y) /\ Precedes(z, x) => Precedes(z, y)
    BY <2>3 DEF Precedes
  <2>6. \A x, y \in exits : ~Precedes(x, x) /\ (x # y => Precedes(x, y) \/ Precedes(y, x))
    BY <2>3, <2>4 DEF Precedes
  <2>7. /\ \A x \in exits : below[x] \subseteq exits /\ x \notin below[x]
        /\ \A x, y \in exits : x # y => x \in below[y] \/ y \in below[x]
        /\ \A x, y \in exits : x \in below[y] => below[x] \subseteq below[y]
    BY <2>1, <2>2, <2>5, <2>6, Zenon
  <2> QED
    BY <1>2, <2>7, Ranks
<1>5. \A r \in exits : id(r) = n + 2 * Cardinality(below[r])
  OBVIOUS
<1> HIDE DEF id, below, n
<1>6. \A r \in exits :
        /\ f[r].id = id(r) + 1 /\ f[r].at = DayEnd(r.at) /\ f[r].status = "active"
        /\ g[r].id = id(r) + 2 /\ g[r].at = DayEnd(r.at) /\ g[r].status = "inactive"
  BY RowFacts
<1> HIDE DEF f, g
<1>7. \A r \in exits : DayEnd(r.at) \in Nat /\ id(r) \in Nat
  <2> TAKE r \in exits
  <2>1. r.at \in Nat
    BY <1>2 DEF RowsSound, RowSound
  <2> QED
    BY <1>3, <1>4, <1>5, <2>1, DayEndNat
<1>8. /\ \A r \in exits : RowSound(f[r]) /\ RowSound(g[r])
      /\ \A q, r \in exits : q # r => f[q].id # f[r].id /\ g[q].id # g[r].id
      /\ \A q, r \in exits : f[q].id # g[r].id
  <2>1. \A q, r \in exits : q # r => id(q) # id(r)
    BY <1>3, <1>4, <1>5
  <2>2. \A q, r \in exits : id(q) + 1 # id(r) + 2
    BY <1>3, <1>4, <1>5
  <2> QED
    BY <1>6, <1>7, <2>1, <2>2 DEF RowSound
<1>9. /\ IsFiniteSet(A) /\ OwnIds(A) /\ Cardinality(A) = Cardinality(exits)
      /\ \A r \in A : RowSound(r)
  BY <1>2, <1>8, NumberedRows
<1>10. /\ IsFiniteSet(B) /\ OwnIds(B) /\ Cardinality(B) = Cardinality(exits)
       /\ \A r \in B : RowSound(r)
  BY <1>2, <1>8, NumberedRows
<1>11. \A q \in A, r \in B : q.id # r.id
  BY <1>8
<1>12. \A r \in A \cup B : n < r.id /\ r.id <= n + 2 * Cardinality(exits)
  BY <1>3, <1>4, <1>5, <1>6
<1> HIDE DEF A, B
<1>13. Cardinality(A \cup B) = 2 * Cardinality(exits)
  <2>1. A \cap B = {}
    BY <1>11
  <2>2. Cardinality(A \cup B) = Cardinality(A) + Cardinality(B) - Cardinality(A \cap B)
    BY <1>9, <1>10, FS_Union, Zenon
  <2>3. Cardinality(A \cap B) = 0
    BY <2>1, FS_EmptySet
  <2> QED
    BY <1>3, <1>9, <1>10, <2>2, <2>3
<1>14. IsFiniteSet(A \cup B)
  BY <1>9, <1>10, FS_Union, Zenon
<1>15. OwnIds(A \cup B)
  BY <1>9, <1>10, <1>11 DEF OwnIds
<1>16. RowsSound(rows \cup (A \cup B))
  BY <1>9, <1>10, <1>12, <1>13, <1>14, <1>15, AddRows DEF n
<1> QED
  BY <1>1, <1>16

LEMMA SweptSound ==
  ASSUME AttendanceConstants, NEW rows, RowsSound(rows), NEW t \in Nat
  PROVE  RowsSound(Swept(rows, t))
<1>1. Swept(rows, t) = close_due_hanging_hall_pass(close_due_attendance_intervals(rows, t), t)
  BY DEF Swept
<1> QED
  BY <1>1, DueSound, HangingSound

-----------------------------------------------------------------------------
(***************************************************************************)
(* The scan of a seat's rows exists and is unique: it takes the last row   *)
(* last, and every nonempty set of rows has a last one.  As with sums, the *)
(* fold is a recursive function on the subsets of the rows, and each lemma *)
(* is proved on a smallest set for which it would fail.                    *)
(***************************************************************************)

ScanStart == [open |-> NoRow, used |-> {}, pairs |-> {}]

IsScan(h, rows, S) ==
  h = [s \in SUBSET S |-> IF s = {} THEN ScanStart
                          ELSE Scan(rows, h[s \ {LastOf(s)}], LastOf(s))]

Scanned(rows, S) == (CHOOSE h : IsScan(h, rows, S))[S]

AllSound(S) == IsFiniteSet(S) /\ \A r \in S : RowSound(r)

LEMMA LastOfSubset ==
  ASSUME NEW S, AllSound(S), NEW s \in SUBSET S, s # {}
  PROVE  LastOf(s) \in s
<1>1. IsFiniteSet(s) /\ \A r \in s : RowSound(r)
  BY FS_Subset DEF AllSound
<1> QED
  BY <1>1, LastFacts

LEMMA ScanRestricted ==
  ASSUME NEW rows, NEW S, NEW h, IsScan(h, rows, S), NEW T \in SUBSET S
  PROVE  IsScan([s \in SUBSET T |-> h[s]], rows, T)
<1> DEFINE g == [s \in SUBSET T |-> h[s]]
<1>1. \A s \in SUBSET T : g[s] = IF s = {} THEN ScanStart
                                 ELSE Scan(rows, g[s \ {LastOf(s)}], LastOf(s))
  <2> TAKE s \in SUBSET T
  <2>1. s \in SUBSET S /\ s \ {LastOf(s)} \in SUBSET T
    OBVIOUS
  <2>2. h[s] = IF s = {} THEN ScanStart ELSE Scan(rows, h[s \ {LastOf(s)}], LastOf(s))
    BY <2>1 DEF IsScan
  <2> QED
    BY <2>1, <2>2
<1> QED
  BY <1>1 DEF IsScan

LEMMA ScanUnique ==
  ASSUME NEW rows, NEW S, AllSound(S), NEW g, IsScan(g, rows, S), NEW h, IsScan(h, rows, S)
  PROVE  g = h
<1>1. \A s \in SUBSET S :
        /\ g[s] = IF s = {} THEN ScanStart ELSE Scan(rows, g[s \ {LastOf(s)}], LastOf(s))
        /\ h[s] = IF s = {} THEN ScanStart ELSE Scan(rows, h[s \ {LastOf(s)}], LastOf(s))
  BY DEF IsScan
<1>2. \A s \in SUBSET S : g[s] = h[s]
  <2> DEFINE C == { s \in SUBSET S : g[s] # h[s] }
  <2> SUFFICES ASSUME C # {} PROVE FALSE
    OBVIOUS
  <2>1. PICK T \in C : \A U \in C : U \subseteq T => U = T
    <3>1. C \in SUBSET (SUBSET S) /\ IsFiniteSet(S)
      BY DEF AllSound
    <3> HIDE DEF C
    <3> QED
      BY <3>1, SmallestSubset
  <2>2. CASE T = {}
    BY <1>1, <2>1, <2>2
  <2>3. CASE T # {}
    <3>1. T \ {LastOf(T)} \in SUBSET S /\ T \ {LastOf(T)} # T
      BY <2>1, <2>3, LastOfSubset
    <3>2. g[T \ {LastOf(T)}] = h[T \ {LastOf(T)}]
      BY <2>1, <3>1
    <3> QED
      BY <1>1, <2>1, <2>3, <3>2
  <2> QED
    BY <2>2, <2>3
<1>3. g = [s \in SUBSET S |-> g[s]] /\ h = [s \in SUBSET S |-> h[s]]
  BY DEF IsScan
<1> QED
  BY <1>2, <1>3

LEMMA ScannedIs ==
  ASSUME NEW rows, NEW S, AllSound(S), NEW h, IsScan(h, rows, S), NEW T \in SUBSET S
  PROVE  Scanned(rows, T) = h[T]
<1>1. AllSound(T)
  BY FS_Subset DEF AllSound
<1> DEFINE g == [s \in SUBSET T |-> h[s]]
<1>2. IsScan(g, rows, T)
  BY ScanRestricted
<1> HIDE DEF g
<1>3. IsScan(CHOOSE k : IsScan(k, rows, T), rows, T)
  BY <1>2
<1>4. (CHOOSE k : IsScan(k, rows, T)) = g
  BY <1>1, <1>2, <1>3, ScanUnique
<1>5. Scanned(rows, T) = g[T]
  BY <1>4 DEF Scanned
<1> QED
  BY <1>5 DEF g

LEMMA ScanExists ==
  ASSUME NEW rows, NEW S, AllSound(S)
  PROVE  \E h : IsScan(h, rows, S)
<1> DEFINE C == { T \in SUBSET S : ~\E h : IsScan(h, rows, T) }
<1> SUFFICES ASSUME C # {} PROVE FALSE
  OBVIOUS
<1>1. PICK T \in C : \A U \in C : U \subseteq T => U = T
  <2>1. C \in SUBSET (SUBSET S) /\ IsFiniteSet(S)
    BY DEF AllSound
  <2> HIDE DEF C
  <2> QED
    BY <2>1, SmallestSubset
<1>2. AllSound(T) /\ T \in SUBSET S
  BY <1>1, FS_Subset DEF AllSound
<1> DEFINE g == [s \in SUBSET T |->
                   IF s = {} THEN ScanStart
                   ELSE Scan(rows, Scanned(rows, s \ {LastOf(s)}), LastOf(s))]
<1>3. ASSUME NEW s \in SUBSET T, s # T
      PROVE  g[s] = Scanned(rows, s)
  <2>1. PICK h : IsScan(h, rows, s)
    BY <1>1, <1>2, <1>3
  <2>2. AllSound(s) /\ s \ {LastOf(s)} \in SUBSET s /\ s \in SUBSET s
    BY <1>2, FS_Subset DEF AllSound
  <2>3. Scanned(rows, s) = h[s] /\ Scanned(rows, s \ {LastOf(s)}) = h[s \ {LastOf(s)}]
    BY <2>1, <2>2, ScannedIs
  <2>4. h[s] = IF s = {} THEN ScanStart ELSE Scan(rows, h[s \ {LastOf(s)}], LastOf(s))
    BY <2>1, <2>2 DEF IsScan
  <2> QED
    BY <2>3, <2>4
<1>4. \A s \in SUBSET T : g[s] = IF s = {} THEN ScanStart
                                 ELSE Scan(rows, g[s \ {LastOf(s)}], LastOf(s))
  <2> TAKE s \in SUBSET T
  <2>1. CASE s = {}
    BY <2>1
  <2>2. CASE s # {}
    <3>1. s \ {LastOf(s)} \in SUBSET T /\ s \ {LastOf(s)} # T
      BY <1>2, <2>2, LastOfSubset
    <3>2. g[s \ {LastOf(s)}] = Scanned(rows, s \ {LastOf(s)})
      BY <1>3, <3>1
    <3>3. g[s] = Scan(rows, Scanned(rows, s \ {LastOf(s)}), LastOf(s))
      BY <2>2
    <3> QED
      BY <2>2, <3>2, <3>3
  <2> QED
    BY <2>1, <2>2
<1>5. IsScan(g, rows, T)
  BY <1>4 DEF IsScan
<1> QED
  BY <1>1, <1>5

-----------------------------------------------------------------------------
(***************************************************************************)
(* What the scan returns: every closed pair is named by the ids of two of  *)
(* the seat's rows and carries their instants, so its ids determine it.    *)
(***************************************************************************)

Opens(rows, p) ==
  \E r \in rows : p.opening = r.id /\ p.from = r.at /\ p.mech = r.mech

Closes(rows, p) ==
  p.closing # 0 => \E r \in rows : p.closing = r.id /\ p.to = r.at

PairFields(p) ==
  p = [opening |-> p.opening, closing |-> p.closing, from |-> p.from,
       to |-> p.to, mech |-> p.mech]

Witnessed(rows, pairs) ==
  \A p \in pairs : PairFields(p) /\ Opens(rows, p) /\ Closes(rows, p)

ScanSound(rows, acc) ==
  /\ acc = [open |-> acc.open, used |-> acc.used, pairs |-> acc.pairs]
  /\ acc.open = NoRow \/ acc.open \in rows
  /\ Witnessed(rows, acc.pairs)

LEMMA IntervalWitnessed ==
  ASSUME NEW rows, NEW open \in rows, NEW closing, NEW to,
         closing # 0 => \E r \in rows : closing = r.id /\ to = r.at
  PROVE  Witnessed(rows, {Interval(open, closing, to)})
  BY DEF Interval, Witnessed, PairFields, Opens, Closes

LEMMA BoundaryFacts ==
  ASSUME NEW rows, AllSound(rows), NEW end, NEW used, BoundaryClose(rows, end, used) # 0
  PROVE  \E r \in rows : BoundaryClose(rows, end, used) = r.id /\ end = r.at
<1> DEFINE found == { r \in rows : /\ r.id \notin used /\ r.status = "inactive"
                                   /\ r.at = end /\ r.mech = "system"
                                   /\ r.reason = "done_for_day" }
           ids == { r.id : r \in found }
<1>1. BoundaryClose(rows, end, used) = IF found = {} THEN 0 ELSE Min(ids)
  BY DEF BoundaryClose
<1>2. ids \in SUBSET Nat
  BY DEF AllSound, RowSound
<1>3. found # {} => Min(ids) \in ids
  <2> SUFFICES ASSUME found # {} PROVE Min(ids) \in ids
    OBVIOUS
  <2>1. ids # {}
    OBVIOUS
  <2> HIDE DEF ids
  <2>2. \E x \in ids : \A y \in ids : x <= y
    BY <1>2, <2>1, LeastNat
  <2> QED
    BY <2>2 DEF Min
<1> QED
  BY <1>1, <1>3

\* What the scan of one row may do: nothing, open a session, pass on to a new one
\* over the end of the open one's day, or end the open one.
Passed(rows, acc, row) ==
  LET boundary == BoundaryClose(rows, DayEnd(acc.open.at), acc.used)
  IN [open |-> row, used |-> acc.used \cup ({boundary} \ {0}),
      pairs |-> acc.pairs \cup {Interval(acc.open, boundary, DayEnd(acc.open.at))}]

Ended(acc, row) ==
  [open |-> NoRow, used |-> acc.used,
   pairs |-> acc.pairs \cup { IF row.at > DayEnd(acc.open.at)
                              THEN Interval(acc.open, 0, DayEnd(acc.open.at))
                              ELSE Interval(acc.open, row.id, row.at) }]

LEMMA ScanCases ==
  ASSUME AttendanceConstants, NEW rows, NEW acc, acc.open.at \in Nat,
         NEW row, RowSound(row)
  PROVE  \/ Scan(rows, acc, row) = acc
         \/ Scan(rows, acc, row) = [acc EXCEPT !.open = row]
         \/ /\ acc.open.id # 0 /\ row.at >= DayEnd(acc.open.at)
            /\ Scan(rows, acc, row) = Passed(rows, acc, row)
         \/ acc.open.id # 0 /\ Scan(rows, acc, row) = Ended(acc, row)
<1> DEFINE end == DayEnd(acc.open.at)
<1>1. row.status = "active" => row.at < end \/ row.at >= end
  BY DayEndNat DEF RowSound
<1>2. row.status = "active" \/ row.status = "inactive"
  BY DEF RowSound
<1> HIDE DEF end
<1> QED
  BY <1>1, <1>2 DEF Scan, Passed, Ended, end

LEMMA ScanKeeps ==
  ASSUME AttendanceConstants, NEW rows, AllSound(rows), NEW acc, ScanSound(rows, acc),
         NEW row \in rows
  PROVE  ScanSound(rows, Scan(rows, acc, row))
<1> DEFINE open == acc.open
           end == DayEnd(open.at)
           boundary == BoundaryClose(rows, end, acc.used)
           interval == IF row.at > end THEN Interval(open, 0, end)
                                       ELSE Interval(open, row.id, row.at)
<1>1. RowSound(row) /\ open.at \in Nat /\ (open = NoRow \/ open \in rows)
  BY DEF AllSound, RowSound, ScanSound, NoRow
<1>2. open.id # 0 => open \in rows
  BY <1>1 DEF NoRow
<1>3. ScanSound(rows, acc) /\ ScanSound(rows, [acc EXCEPT !.open = row])
  BY DEF ScanSound
<1>4. ASSUME open.id # 0 PROVE ScanSound(rows, Passed(rows, acc, row))
  <2>1. Witnessed(rows, {Interval(open, boundary, end)})
    BY <1>2, <1>4, BoundaryFacts, IntervalWitnessed
  <2> DEFINE used == acc.used \cup ({boundary} \ {0})
             pairs == acc.pairs \cup {Interval(open, boundary, end)}
  <2>2. Witnessed(rows, pairs)
    BY <2>1 DEF ScanSound, Witnessed
  <2>3. Passed(rows, acc, row) = [open |-> row, used |-> used, pairs |-> pairs]
    BY DEF Passed
  <2> HIDE DEF used, pairs
  <2> QED
    BY <2>2, <2>3 DEF ScanSound
<1>5. ASSUME open.id # 0 PROVE ScanSound(rows, Ended(acc, row))
  <2>1. Witnessed(rows, {interval})
    BY <1>2, <1>5, IntervalWitnessed
  <2> DEFINE pairs == acc.pairs \cup {interval}
  <2>2. Witnessed(rows, pairs)
    <3> HIDE DEF interval
    <3> QED
      BY <2>1 DEF ScanSound, Witnessed
  <2>3. Ended(acc, row) = [open |-> NoRow, used |-> acc.used, pairs |-> pairs]
    BY DEF Ended
  <2> HIDE DEF pairs
  <2> QED
    BY <2>2, <2>3 DEF ScanSound
<1> QED
  BY <1>1, <1>3, <1>4, <1>5, ScanCases

LEMMA ScannedSound ==
  ASSUME AttendanceConstants, NEW rows, AllSound(rows), NEW S \in SUBSET rows
  PROVE  ScanSound(rows, Scanned(rows, S))
<1>1. PICK h : IsScan(h, rows, rows)
  BY ScanExists
<1>2. \A s \in SUBSET rows :
        h[s] = IF s = {} THEN ScanStart ELSE Scan(rows, h[s \ {LastOf(s)}], LastOf(s))
  BY <1>1 DEF IsScan
<1> DEFINE C == { s \in SUBSET rows : ~ScanSound(rows, h[s]) }
<1>3. C = {}
  <2> SUFFICES ASSUME C # {} PROVE FALSE
    OBVIOUS
  <2>1. PICK T \in C : \A U \in C : U \subseteq T => U = T
    <3>1. C \in SUBSET (SUBSET rows) /\ IsFiniteSet(rows)
      BY DEF AllSound
    <3> HIDE DEF C
    <3> QED
      BY <3>1, SmallestSubset
  <2>2. ScanSound(rows, ScanStart)
    BY DEF ScanSound, ScanStart, Witnessed
  <2>3. T # {}
    BY <1>2, <2>1, <2>2
  <2>4. LastOf(T) \in T /\ LastOf(T) \in rows
    BY <2>1, <2>3, LastOfSubset
  <2>5. ScanSound(rows, h[T \ {LastOf(T)}])
    BY <2>1, <2>4
  <2>6. ScanSound(rows, Scan(rows, h[T \ {LastOf(T)}], LastOf(T)))
    BY <2>4, <2>5, ScanKeeps
  <2>7. T \in SUBSET rows /\ ~ScanSound(rows, h[T])
    BY <2>1
  <2>8. h[T] = Scan(rows, h[T \ {LastOf(T)}], LastOf(T))
    BY <1>2, <2>3, <2>7, Zenon
  <2> QED
    BY <2>6, <2>7, <2>8, Zenon
<1>4. rows \in SUBSET rows /\ Scanned(rows, S) = h[S]
  BY <1>1, ScannedIs
<1> QED
  BY <1>3, <1>4

\* What is still open when the rows up to an instant are read.
StillOpen(open, asOf) ==
  IF open.id = 0 THEN {} ELSE { Interval(open, 0, Min({asOf, DayEnd(open.at)})) }

LEMMA IntervalsAre ==
  ASSUME NEW rows, AllSound(rows), NEW asOf
  PROVE  LET last == Scanned(rows, { r \in rows : r.at <= asOf })
         IN list_attendance_intervals(rows, asOf)
              = last.pairs \cup StillOpen(last.open, asOf)
<1> DEFINE S == { r \in rows : r.at <= asOf }
           step(a, r) == CHOOSE x \in { Scan(rows, b, r) : b \in {a} } : TRUE
           folded(h) == [s \in SUBSET S |->
                           IF s = {} THEN [open |-> NoRow, used |-> {}, pairs |-> {}]
                           ELSE step(h[s \ {LastOf(s)}], LastOf(s))]
           last == (CHOOSE h : h = folded(h))[S]
           all(l) == l.pairs \cup StillOpen(l.open, asOf)
<1>1. list_attendance_intervals(rows, asOf) = UNION { all(l) : l \in {last} }
  BY Zenon DEF list_attendance_intervals, MapThenFoldSet, StillOpen
<1>2. \A h : h = folded(h) <=> IsScan(h, rows, S)
  <2>1. \A a, r : step(a, r) = Scan(rows, a, r)
    OBVIOUS
  <2> HIDE DEF step
  <2> QED
    BY <2>1 DEF IsScan, ScanStart
<1>3. AllSound(S)
  BY FS_Subset DEF AllSound
<1>4. PICK h : IsScan(h, rows, S)
  BY <1>3, ScanExists
<1> HIDE DEF folded
<1>5. IsScan(CHOOSE k : k = folded(k), rows, S)
  BY <1>2, <1>4
<1>6. last = Scanned(rows, S)
  <2>1. S \in SUBSET S
    OBVIOUS
  <2> HIDE DEF S
  <2> QED
    BY <1>3, <1>5, <2>1, ScannedIs
<1> HIDE DEF last
<1>7. list_attendance_intervals(rows, asOf) = all(last)
  BY <1>1
<1> QED
  BY <1>6, <1>7

LEMMA IntervalsFromScan ==
  ASSUME NEW rows, AllSound(rows), NEW asOf
  PROVE  Closed(list_attendance_intervals(rows, asOf))
           = Closed(Scanned(rows, { r \in rows : r.at <= asOf }).pairs)
<1> DEFINE last == Scanned(rows, { r \in rows : r.at <= asOf })
<1>1. \A i \in StillOpen(last.open, asOf) : i.closing = 0
  BY DEF Interval, StillOpen
<1>2. list_attendance_intervals(rows, asOf) = last.pairs \cup StillOpen(last.open, asOf)
  BY IntervalsAre
<1> HIDE DEF last
<1>3. Closed(list_attendance_intervals(rows, asOf)) = Closed(last.pairs)
  BY <1>1, <1>2 DEF Closed
<1> QED
  BY <1>3 DEF last

\* The ids of a closed pair determine it, in every reading of a seat's rows.
LEMMA ClosedByIds ==
  ASSUME AttendanceConstants, NEW rows, RowsSound(rows), NEW asOf,
         NEW p \in Closed(list_attendance_intervals(rows, asOf)),
         NEW q \in Closed(list_attendance_intervals(rows, asOf)),
         p.opening = q.opening, p.closing = q.closing
  PROVE  p = q
<1> DEFINE S == { r \in rows : r.at <= asOf }
<1>1. AllSound(rows) /\ S \in SUBSET rows
  BY DEF AllSound, RowsSound
<1>2. Closed(list_attendance_intervals(rows, asOf)) = Closed(Scanned(rows, S).pairs)
  BY <1>1, IntervalsFromScan
<1> HIDE DEF S
<1>3. Witnessed(rows, Scanned(rows, S).pairs)
  BY <1>1, ScannedSound DEF ScanSound
<1>4. p \in Closed(Scanned(rows, S).pairs) /\ q \in Closed(Scanned(rows, S).pairs)
  BY <1>2
<1>5. /\ PairFields(p) /\ Opens(rows, p) /\ Closes(rows, p) /\ p.closing # 0
      /\ PairFields(q) /\ Opens(rows, q) /\ Closes(rows, q) /\ q.closing # 0
  BY <1>3, <1>4 DEF Closed, Witnessed
<1>6. p.from = q.from /\ p.mech = q.mech /\ p.to = q.to
  BY <1>5 DEF Opens, Closes, RowsSound, OwnIds
<1> QED
  BY <1>5, <1>6 DEF PairFields

-----------------------------------------------------------------------------
(***************************************************************************)
(* The scan's pairs lie apart.  It reads the rows in the order of their    *)
(* instants, so a session opens no earlier than the ones before it ended,  *)
(* whatever rows are missing, doubled or late.                             *)
(***************************************************************************)

\* What the scan has found when it has read the rows of S.
ScanApart(S, acc) ==
  /\ acc.open = NoRow \/ acc.open \in S
  /\ \A p \in acc.pairs : p.from \in Nat /\ p.to \in Nat
  /\ \A p, q \in acc.pairs : p # q => p.to <= q.from \/ q.to <= p.from
  /\ \A p \in acc.pairs : /\ \E r \in S : p.to <= r.at
                          /\ acc.open.id # 0 => p.to <= acc.open.at

LEMMA LastIsLatest ==
  ASSUME NEW S, AllSound(S), S # {}, NEW q \in S
  PROVE  q.at <= LastOf(S).at
<1> DEFINE Final == { r \in S : ~\E x \in S : Precedes(r, x) }
<1>1. \A r \in S : r.at \in Nat /\ r.id \in Nat
  BY DEF AllSound, RowSound
<1>2. Final # {}
  <2> SUFFICES ASSUME Final = {} PROVE FALSE
    OBVIOUS
  <2> DEFINE C == { T \in SUBSET S : T # {} /\ \A r \in S, x \in T : Precedes(x, r) => r \in T }
  <2>1. C \in SUBSET (SUBSET S) /\ S \in C /\ IsFiniteSet(S)
    BY DEF AllSound
  <2>2. PICK T \in C : \A U \in C : U \subseteq T => U = T
    <3> HIDE DEF C
    <3> QED
      BY <2>1, SmallestSubset
  <2>3. PICK x \in T : TRUE
    OBVIOUS
  <2> DEFINE U == { r \in S : Precedes(x, r) }
  <2>4. x \in S /\ U \subseteq T /\ U # {}
    BY <2>2, <2>3
  <2>5. x \notin U
    BY <1>1, <2>4 DEF Precedes
  <2>6. \A r \in S, y \in U : Precedes(y, r) => r \in U
    BY <1>1, <2>4 DEF Precedes
  <2> QED
    BY <2>2, <2>3, <2>4, <2>5, <2>6
<1>3. LastOf(S) \in S /\ ~Precedes(LastOf(S), q)
  BY <1>2 DEF LastOf
<1> QED
  BY <1>1, <1>3 DEF Precedes

LEMMA ScanKeepsApart ==
  ASSUME AttendanceConstants, NEW rows, NEW S, NEW acc, ScanApart(S, acc),
         AllSound(S), NEW row, RowSound(row), \A r \in S : r.at <= row.at
  PROVE  ScanApart(S \cup {row}, Scan(rows, acc, row))
<1> DEFINE open == acc.open
           end == DayEnd(open.at)
           T == S \cup {row}
<1>1. /\ row.at \in Nat /\ open.at \in Nat /\ end \in Nat
      /\ open.id # 0 => open \in S
      /\ \A r \in S : r.at \in Nat
  <2>1. open.at \in Nat
    BY DEF ScanApart, AllSound, RowSound, NoRow
  <2> QED
    BY <2>1, DayEndNat DEF ScanApart, AllSound, RowSound, NoRow
<1>2. \A p \in acc.pairs : p.from \in Nat /\ p.to \in Nat /\ p.to <= row.at
  BY <1>1 DEF ScanApart
<1>3. ScanApart(T, acc)
  BY DEF ScanApart
<1>4. ScanApart(T, [acc EXCEPT !.open = row])
  <2> DEFINE new == [acc EXCEPT !.open = row]
  <2>1. new.open = row /\ new.pairs = acc.pairs
    OBVIOUS
  <2> HIDE DEF new
  <2> QED
    BY <1>2, <2>1 DEF ScanApart
<1>5. ASSUME NEW new, NEW closing, NEW to \in Nat, open.id # 0, to <= row.at,
             new.pairs = acc.pairs \cup {Interval(open, closing, to)},
             new.open = row \/ new.open = NoRow
      PROVE  ScanApart(T, new)
  <2> DEFINE i == Interval(open, closing, to)
  <2>1. i.from = open.at /\ i.to = to
    BY DEF Interval
  <2> HIDE DEF i
  <2>2. \A p \in new.pairs : p \in acc.pairs \/ p = i
    BY <1>5 DEF i
  <2>3. \A p \in new.pairs : p.from \in Nat /\ p.to \in Nat /\ p.to <= row.at
    BY <1>1, <1>2, <1>5, <2>1, <2>2
  <2>4. \A p \in acc.pairs : p.to <= i.from
    BY <1>5, <2>1 DEF ScanApart
  <2>5. \A p, q \in new.pairs : p # q => p.to <= q.from \/ q.to <= p.from
    BY <2>2, <2>4 DEF ScanApart
  <2>6. new.open = NoRow \/ new.open \in T
    BY <1>5
  <2>7. new.open.id # 0 => new.open = row
    BY <1>5 DEF NoRow
  <2> QED
    BY <2>3, <2>5, <2>6, <2>7 DEF ScanApart
<1>6. CASE /\ open.id # 0 /\ row.at >= end
           /\ Scan(rows, acc, row) = Passed(rows, acc, row)
  <2>1. end <= row.at
    BY <1>1, <1>6
  <2>2. /\ Passed(rows, acc, row).open = row
        /\ \E closing : Passed(rows, acc, row).pairs
                          = acc.pairs \cup {Interval(open, closing, end)}
    BY DEF Passed
  <2> QED
    BY <1>1, <1>5, <1>6, <2>1, <2>2
<1>7. CASE open.id # 0 /\ Scan(rows, acc, row) = Ended(acc, row)
  <2>1. /\ Ended(acc, row).open = NoRow
        /\ \E closing, to : /\ Ended(acc, row).pairs
                                 = acc.pairs \cup {Interval(open, closing, to)}
                            /\ to \in Nat /\ to <= row.at
    <3>1. CASE row.at > end
      BY <1>1, <3>1 DEF Ended
    <3>2. CASE ~(row.at > end)
      BY <1>1, <3>2 DEF Ended
    <3> QED
      BY <3>1, <3>2
  <2> QED
    BY <1>5, <1>7, <2>1
<1> QED
  BY <1>1, <1>3, <1>4, <1>6, <1>7, ScanCases

LEMMA ScannedApart ==
  ASSUME AttendanceConstants, NEW rows, AllSound(rows), NEW S \in SUBSET rows
  PROVE  ScanApart(S, Scanned(rows, S))
<1>1. PICK h : IsScan(h, rows, rows)
  BY ScanExists
<1>2. \A s \in SUBSET rows :
        h[s] = IF s = {} THEN ScanStart ELSE Scan(rows, h[s \ {LastOf(s)}], LastOf(s))
  BY <1>1 DEF IsScan
<1> DEFINE C == { s \in SUBSET rows : ~ScanApart(s, h[s]) }
<1>3. C = {}
  <2> SUFFICES ASSUME C # {} PROVE FALSE
    OBVIOUS
  <2>1. PICK T \in C : \A U \in C : U \subseteq T => U = T
    <3>1. C \in SUBSET (SUBSET rows) /\ IsFiniteSet(rows)
      BY DEF AllSound
    <3> HIDE DEF C
    <3> QED
      BY <3>1, SmallestSubset
  <2>2. ScanApart({}, ScanStart)
    BY DEF ScanApart, ScanStart
  <2>3. T # {}
    BY <1>2, <2>1, <2>2
  <2> DEFINE row == LastOf(T)
             U == T \ {row}
  <2>4. row \in T /\ row \in rows /\ T \in SUBSET rows
    BY <2>1, <2>3, LastOfSubset
  <2>5. AllSound(T) /\ AllSound(U) /\ RowSound(row)
    BY <2>4, FS_Subset DEF AllSound
  <2>6. \A r \in U : r.at <= row.at
    BY <2>3, <2>5, LastIsLatest
  <2>7. ScanApart(U, h[U])
    BY <2>1, <2>4
  <2>8. h[T] = Scan(rows, h[U], row) /\ T = U \cup {row}
    BY <1>2, <2>3, <2>4
  <2> HIDE DEF row, U
  <2>9. ScanApart(T, h[T])
    BY <2>5, <2>6, <2>7, <2>8, ScanKeepsApart
  <2> QED
    BY <2>1, <2>9
<1>4. rows \in SUBSET rows /\ Scanned(rows, S) = h[S]
  BY <1>1, ScannedIs
<1> QED
  BY <1>3, <1>4

\* Two closed pairs of one reading do not overlap.
LEMMA ClosedApart ==
  ASSUME AttendanceConstants, NEW rows, RowsSound(rows), NEW asOf,
         NEW p \in Closed(list_attendance_intervals(rows, asOf)),
         NEW q \in Closed(list_attendance_intervals(rows, asOf)), p # q
  PROVE  ~Overlap(p, q)
<1> DEFINE S == { r \in rows : r.at <= asOf }
<1>1. AllSound(rows) /\ S \in SUBSET rows
  BY DEF AllSound, RowsSound
<1>2. Closed(list_attendance_intervals(rows, asOf)) = Closed(Scanned(rows, S).pairs)
  BY <1>1, IntervalsFromScan
<1> HIDE DEF S
<1>3. ScanApart(S, Scanned(rows, S))
  BY <1>1, ScannedApart
<1>4. /\ p.from \in Nat /\ p.to \in Nat /\ q.from \in Nat /\ q.to \in Nat
      /\ p.to <= q.from \/ q.to <= p.from
  BY <1>2, <1>3 DEF Closed, ScanApart
<1> QED
  BY <1>4 DEF Overlap

-----------------------------------------------------------------------------
(***************************************************************************)
(* Rulings.                                                                *)
(***************************************************************************)

RulingInv ==
  /\ log = [s \in Seats |-> log[s]]
  /\ \A s \in Seats : RowsSound(log[s])
  /\ \A p \in previews : p.seat \in Seats
  /\ RulingHonoured

LEMMA InitRulingInv == Init => RulingInv
<1> SUFFICES ASSUME Init PROVE RulingInv
  OBVIOUS
<1>1. RowsSound({})
  BY FS_EmptySet DEF RowsSound, OwnIds
<1>2. (\A s \in Seats : log[s] = {}) /\ previews = {} /\ invalid = {}
      /\ log = [s \in Seats |-> log[s]]
  BY DEF Init
<1> QED
  BY <1>1, <1>2 DEF RulingInv, RulingHonoured

\* Rows are added under the seat's lock; rulings and events stay as they are.
LEMMA AttendanceStep ==
  ASSUME RulingInv, PayInv, HandlersSound, AttendanceConstants, NEW op \in inflight,
         record_attendance_session(op) \/ SweepSeat(op)
  PROVE  RulingInv'
<1> DEFINE s == op.seat
<1>1. s \in Seats /\ RowsSound(log[s]) /\ UNCHANGED <<events, previews, invalid>>
  BY HandlerLands DEF RulingInv, PayInv
<1>2. \A t \in Nat, status \in {"active", "inactive"} : \A reason, pass, mech :
        RowsSound(Recorded(log[s], t, status, reason, pass, mech))
  BY <1>1, RecordedSound
<1>3. \A t \in Nat : RowsSound(Swept(log[s], t))
  BY <1>1, SweptSound
<1>4. \E rows : RowsSound(rows) /\ log' = [log EXCEPT ![s] = rows]
  BY <1>1, <1>2, <1>3, HandlerLands DEF PayInv
<1> HIDE DEF s
<1>5. PICK rows : RowsSound(rows) /\ log' = [x \in Seats |-> IF x = s THEN rows ELSE log[x]]
  BY <1>4 DEF RulingInv
<1>6. log' = [x \in Seats |-> log'[x]] /\ \A x \in Seats : RowsSound(log'[x])
  BY <1>5 DEF RulingInv
<1>7. RulingHonoured'
  BY <1>1 DEF RulingInv, RulingHonoured
<1> QED
  BY <1>1, <1>6, <1>7 DEF RulingInv

\* A ruling on unpaid time is recorded when no event up to now paid the pair: an
\* event whose pair had the same ids would have paid this very pair.
LEMMA RuleStep ==
  ASSUME RulingInv, PayInv, AttendanceConstants, NEW p \in previews,
         invalidate_attendance_interval(p)
  PROVE  RulingInv'
<1>1. /\ previews' = {} /\ UNCHANGED <<now, log, events, done, runs>>
      /\ \/ UNCHANGED invalid
         \/ /\ SamePreview(p)
            /\ invalid' = invalid \cup { [seat |-> p.seat, disposition |-> p.disposition,
                                          pair |-> <<p.pair.opening, p.pair.closing>>] }
  BY DEF invalidate_attendance_interval
<1>2. log' = [s \in Seats |-> log'[s]] /\ \A s \in Seats : RowsSound(log'[s])
  BY <1>1 DEF RulingInv
<1>3. CASE UNCHANGED invalid
  BY <1>1, <1>2, <1>3 DEF RulingInv, RulingHonoured
<1>4. ASSUME SamePreview(p), p.disposition = "UNPAID",
             NEW i \in 1..Len(events), events[i].seat = p.seat, NEW q \in events[i].pairs
      PROVE  <<p.pair.opening, p.pair.closing>> # <<q.opening, q.closing>>
  <2>1. /\ p.seat \in Seats /\ RowsSound(log[p.seat])
        /\ p.pair \in Closed(list_attendance_intervals(log[p.seat], now))
        /\ p.pair \notin PaidPairs(p.seat, now)
        /\ PaidPairs(p.seat, now)
             \subseteq Closed(list_attendance_intervals(log[p.seat], now))
    BY <1>4 DEF SamePreview, Disposition, InvalidEvidence, RulingInv
  <2>2. i \in EventsOf(p.seat, now)
    BY <1>4 DEF EventsOf, PayInv, EventsSound, EventFacts
  <2>3. q \in PaidPairs(p.seat, now)
    BY <2>2 DEF PaidPairs
  <2>4. SUFFICES ASSUME p.pair.opening = q.opening, p.pair.closing = q.closing
                 PROVE  FALSE
    OBVIOUS
  <2>5. p.pair = q
    BY <2>1, <2>3, <2>4, ClosedByIds
  <2> QED
    BY <2>1, <2>3, <2>5
<1>5. CASE /\ SamePreview(p)
           /\ invalid' = invalid \cup { [seat |-> p.seat, disposition |-> p.disposition,
                                         pair |-> <<p.pair.opening, p.pair.closing>>] }
  <2>1. RulingHonoured'
    BY <1>1, <1>4, <1>5 DEF RulingInv, RulingHonoured
  <2> QED
    BY <1>1, <1>2, <2>1 DEF RulingInv
<1> QED
  BY <1>1, <1>3, <1>5

\* A run pays no pair that was ruled out, and closes what is due at its boundary.
LEMMA SettleRuled ==
  ASSUME RulingInv, PayInv, PayrollConstants, NEW w \in Workers,
         complete_payroll_cycle(w)
  PROVE  RulingInv'
<1> DEFINE r == runs[w]
           paid == PayrollEvents(r, ClosedBy(r))
<1>1. /\ r # NoRun /\ UNCHANGED <<now, previews, invalid>>
      /\ \/ UNCHANGED <<log, events>>
         \/ /\ log' = ClosedBy(r)
            /\ \E order \in SetToSeqs(paid) : events' = events \o order
  BY DEF complete_payroll_cycle
<1>2. r.boundary \in Nat
  BY <1>1 DEF PayInv, RunsSound, RunFacts
<1>3. CASE UNCHANGED <<log, events>>
  BY <1>1, <1>3 DEF RulingInv, RulingHonoured
<1>4. ASSUME log' = ClosedBy(r), NEW order \in SetToSeqs(paid), events' = events \o order
      PROVE  RulingInv'
  <2>1. log' = [s \in Seats |-> log'[s]] /\ \A s \in Seats : RowsSound(log'[s])
    <3>1. \A s \in Seats : \/ log'[s] = log[s]
                           \/ log'[s] = close_due_attendance_intervals(log[s], r.boundary)
      BY <1>4 DEF ClosedBy
    <3>2. log' = [s \in Seats |-> log'[s]]
      BY <1>4 DEF ClosedBy
    <3> QED
      BY <1>2, <3>1, <3>2, DueSound DEF RulingInv
  <2>2. IsFiniteSet(paid)
    BY RunEvents
  <2>3. \A e \in paid : \A q \in e.pairs : <<q.opening, q.closing>> \notin RuledOut(e.seat)
    <3> DEFINE pairs(s) == calculate_seat_payroll_intervals(ClosedBy(r)[s], s, r.boundary)
    <3>1. \A s : \A q \in pairs(s) : <<q.opening, q.closing>> \notin RuledOut(s)
      BY DEF calculate_seat_payroll_intervals
    <3> HIDE DEF pairs
    <3>2. \A e \in paid : e.pairs = pairs(e.seat)
      BY DEF PayrollEvents, pairs
    <3> QED
      BY <3>1, <3>2
  <2> HIDE DEF paid
  <2>4. /\ Len(events) \in Nat /\ Len(events') \in Nat
        /\ \A i \in 1..Len(events) : events'[i] = events[i]
        /\ \A i \in 1..Len(events') : i > Len(events) => events'[i] \in paid
    BY <1>4, <2>2, AddedEvents DEF PayInv
  <2>5. RulingHonoured'
    <3> SUFFICES ASSUME NEW x \in invalid, x.disposition = "UNPAID",
                        NEW i \in 1..Len(events'), events'[i].seat = x.seat
                 PROVE  x.pair \notin { <<q.opening, q.closing>> : q \in events'[i].pairs }
      BY <1>1 DEF RulingHonoured
    <3>1. CASE i \in 1..Len(events)
      BY <2>4, <3>1 DEF RulingInv, RulingHonoured
    <3>2. CASE i > Len(events)
      <4>1. events'[i] \in paid /\ x.pair \in RuledOut(events'[i].seat)
        BY <2>4, <3>2 DEF RuledOut
      <4> QED
        BY <2>3, <4>1
    <3> QED
      BY <2>4, <3>1, <3>2
  <2> QED
    BY <1>1, <2>1, <2>5 DEF RulingInv
<1> QED
  BY <1>1, <1>3, <1>4

LEMMA RulingInvStep ==
  ASSUME RulingInv, PayInv, HandlersSound, PayrollConstants, AttendanceConstants,
         [Next]_vars
  PROVE  RulingInv'
<1>1. CASE UNCHANGED <<log, events, previews, invalid>>
  BY <1>1 DEF RulingInv, RulingHonoured
<1>2. ASSUME NEW s \in Seats, preview_attendance_interval_invalidation(s)
      PROVE  RulingInv'
  <2>1. UNCHANGED <<log, events, invalid>> /\ \A p \in previews' : p.seat = s
    BY <1>2 DEF preview_attendance_interval_invalidation
  <2> QED
    BY <2>1 DEF RulingInv, RulingHonoured
<1>3. ASSUME NEW op \in inflight, record_attendance_session(op) \/ SweepSeat(op)
      PROVE  RulingInv'
  BY <1>3, AttendanceStep
<1>4. ASSUME NEW p \in previews, invalidate_attendance_interval(p)
      PROVE  RulingInv'
  BY <1>4, RuleStep
<1>5. ASSUME NEW w \in Workers, complete_payroll_cycle(w)
      PROVE  RulingInv'
  BY <1>5, SettleRuled
<1>6. \/ UNCHANGED <<log, events, previews, invalid>>
      \/ \E s \in Seats : preview_attendance_interval_invalidation(s)
      \/ \E op \in inflight : record_attendance_session(op) \/ SweepSeat(op)
      \/ \E p \in previews : invalidate_attendance_interval(p)
      \/ \E w \in Workers : complete_payroll_cycle(w)
  BY DEF Next, vars, Tick, run_automatic_payroll_job, run_payroll, Begin, handle_tap,
         checkout_hall_pass, checkin_hall_pass, enforce_daily_limits_job, Tap, Start
<1> QED
  BY <1>1, <1>2, <1>3, <1>4, <1>5, <1>6

LEMMA RulingAlways == Spec => [](HandlersSound /\ RulingInv)
<1>1. Init => HandlersSound
  BY DEF Init, HandlersSound
<1>2. /\ PayInv /\ HandlersSound /\ [Next]_vars => HandlersSound'
      /\ PayInv /\ HandlersSound /\ RulingInv /\ [Next]_vars => RulingInv'
  BY PayrollConstants, AttendanceConstants, HandlersStep, RulingInvStep
<1> QED
  BY <1>1, <1>2, InitRulingInv, PayAlways, PTL DEF Spec

\* A ruling on time that was unpaid when it was made stays unpaid: no event paid the
\* pair between the preview and the ruling, and none pays it afterwards.
THEOREM RulingsHonoured == Spec => []RulingHonoured
<1>1. RulingInv => RulingHonoured
  BY DEF RulingInv
<1> QED
  BY <1>1, RulingAlways, PTL

-----------------------------------------------------------------------------
(***************************************************************************)
(* No instant is paid twice.  A run that pays a seat finds everything paid *)
(* up to its boundary among the closed pairs of its own reading, next to   *)
(* the ones it adds, and the pairs of one reading lie apart.               *)
(***************************************************************************)

\* What a run that commits has read of each seat.
LEMMA RunReads ==
  ASSUME RulingInv, PayInv, PayrollConstants, AttendanceConstants,
         NEW w \in Workers, complete_payroll_cycle(w), ~UNCHANGED <<log, events>>
  PROVE  LET r == runs[w]
             paid == PayrollEvents(r, ClosedBy(r))
         IN /\ paid # {}
            /\ \E order \in SetToSeqs(paid) : events' = events \o order
            /\ \A e \in paid : e.seat \in Seats
            /\ \A s \in Seats : \E pairs :
                 /\ \A p, q \in pairs : p # q => ~Overlap(p, q)
                 /\ PaidPairs(s, r.boundary) \subseteq pairs
                 /\ \A e \in paid : e.seat = s => e.pairs \subseteq pairs
<1> DEFINE r == runs[w]
           rows == ClosedBy(r)
           paid == PayrollEvents(r, rows)
<1>1. /\ r # NoRun /\ paid # {}
      /\ \A s \in Seats : ~InvalidEvidence(rows[s], s, r.boundary)
      /\ \E order \in SetToSeqs(paid) : events' = events \o order
  BY DEF complete_payroll_cycle
<1>2. r.boundary \in Nat
  BY <1>1 DEF PayInv, RunsSound, RunFacts
<1>3. ASSUME NEW s \in Seats
      PROVE  \E pairs : /\ \A p, q \in pairs : p # q => ~Overlap(p, q)
                       /\ PaidPairs(s, r.boundary) \subseteq pairs
                       /\ \A e \in paid : e.seat = s => e.pairs \subseteq pairs
  <2> DEFINE pairs == Closed(list_attendance_intervals(rows[s], r.boundary))
  <2>1. RowsSound(rows[s])
    <3>1. rows[s] = log[s] \/ rows[s] = close_due_attendance_intervals(log[s], r.boundary)
      BY DEF ClosedBy
    <3> QED
      BY <1>2, <3>1, DueSound DEF RulingInv
  <2>2. \A p, q \in pairs : p # q => ~Overlap(p, q)
    BY <2>1, ClosedApart
  <2>3. PaidPairs(s, r.boundary) \subseteq pairs
    BY <1>1 DEF InvalidEvidence
  <2>4. \A e \in paid : e.seat = s => e.pairs \subseteq pairs
    <3>1. calculate_seat_payroll_intervals(rows[s], s, r.boundary) \subseteq pairs
      BY DEF calculate_seat_payroll_intervals
    <3>2. \A e \in paid :
            e.pairs = calculate_seat_payroll_intervals(rows[e.seat], e.seat, r.boundary)
      BY DEF PayrollEvents
    <3> HIDE DEF pairs, paid, rows, r
    <3> QED
      BY <3>1, <3>2
  <2> HIDE DEF pairs
  <2> QED
    BY <2>2, <2>3, <2>4
<1>4. \A e \in paid : e.seat \in Seats
  BY DEF PayrollEvents
<1> QED
  BY <1>1, <1>3, <1>4

LEMMA SettleInstants ==
  ASSUME InstantsPaidOnce, RulingInv, PayInv, PayrollConstants, AttendanceConstants,
         NEW w \in Workers, complete_payroll_cycle(w), ~UNCHANGED <<log, events>>
  PROVE  InstantsPaidOnce'
<1> DEFINE r == runs[w]
           b == r.boundary
           paid == PayrollEvents(r, ClosedBy(r))
<1>1. /\ paid # {} /\ \A e \in paid : e.seat \in Seats
      /\ \E order \in SetToSeqs(paid) : events' = events \o order
      /\ \A s \in Seats : \E pairs :
           /\ \A p, q \in pairs : p # q => ~Overlap(p, q)
           /\ PaidPairs(s, b) \subseteq pairs
           /\ \A e \in paid : e.seat = s => e.pairs \subseteq pairs
  BY RunReads
<1>2. /\ IsFiniteSet(paid)
      /\ \A e \in paid : e.at = b /\ e.pairs \cap PaidPairs(e.seat, b) = {}
      /\ \A e, f \in paid : e.seat = f.seat => e = f
  BY RunEvents
<1> HIDE DEF paid, b
<1>3. /\ Len(events) \in Nat /\ Len(events') \in Nat /\ Len(events) < Len(events')
      /\ \A i \in 1..Len(events) : i \in 1..Len(events') /\ events'[i] = events[i]
      /\ \A i \in 1..Len(events') : i > Len(events) => events'[i] \in paid
      /\ \A i, j \in 1..Len(events') :
           i > Len(events) /\ j > Len(events) /\ i # j => events'[i] # events'[j]
  BY <1>1, <1>2, AddedEvents DEF PayInv
<1> SUFFICES ASSUME InBoundaryOrder',
                    NEW i \in 1..Len(events'), NEW j \in 1..Len(events'),
                    events'[i].seat = events'[j].seat,
                    NEW p \in events'[i].pairs, NEW q \in events'[j].pairs, Overlap(p, q)
             PROVE  i = j /\ p = q
  BY DEF InstantsPaidOnce
<1>4. /\ i \in 1..Len(events) \/ i > Len(events)
      /\ j \in 1..Len(events) \/ j > Len(events)
  BY <1>3
<1>5. Overlap(q, p)
  BY DEF Overlap
\* What is paid already is paid as of an instant up to this run's.
<1>6. \A k \in 1..Len(events) : events[k].at <= b
  <2>1. Len(events') \in 1..Len(events') /\ Len(events') > Len(events)
    BY <1>3
  <2>2. events'[Len(events')].at = b
    BY <1>2, <1>3, <2>1
  <2>3. \A k \in 1..Len(events) : k < Len(events')
    BY <1>3
  <2> QED
    BY <1>3, <2>1, <2>2, <2>3 DEF InBoundaryOrder
<1>7. ASSUME NEW k \in 1..Len(events), NEW x \in events[k].pairs
      PROVE  x \in PaidPairs(events[k].seat, b)
  BY <1>6, <1>7 DEF PaidPairs, EventsOf
<1>8. CASE i \in 1..Len(events) /\ j \in 1..Len(events)
  <2>1. InBoundaryOrder
    BY <1>3 DEF InBoundaryOrder
  <2>2. /\ events[i].seat = events[j].seat
        /\ p \in events[i].pairs /\ q \in events[j].pairs
    BY <1>3, <1>8
  <2> QED
    BY <1>8, <2>1, <2>2, Zenon DEF InstantsPaidOnce
<1>9. ASSUME NEW k \in 1..Len(events'), k > Len(events), NEW l \in 1..Len(events),
             events'[k].seat = events[l].seat,
             NEW x \in events'[k].pairs, NEW y \in events[l].pairs
      PROVE  ~Overlap(x, y)
  <2> DEFINE e == events'[k]
  <2>1. e \in paid /\ e.seat \in Seats
    BY <1>1, <1>3, <1>9
  <2>2. PICK pairs : /\ \A u, v \in pairs : u # v => ~Overlap(u, v)
                     /\ PaidPairs(e.seat, b) \subseteq pairs
                     /\ e.pairs \subseteq pairs
    BY <1>1, <2>1
  <2>3. y \in PaidPairs(e.seat, b) /\ x \notin PaidPairs(e.seat, b)
    BY <1>2, <1>7, <1>9, <2>1
  <2> QED
    BY <1>9, <2>2, <2>3
<1>10. CASE i > Len(events) /\ j \in 1..Len(events)
  BY <1>3, <1>9, <1>10
<1>11. CASE i \in 1..Len(events) /\ j > Len(events)
  BY <1>3, <1>5, <1>9, <1>11
<1>12. CASE i > Len(events) /\ j > Len(events)
  <2>1. events'[i] \in paid /\ events'[j] \in paid
    BY <1>3, <1>12
  <2>2. i = j
    BY <1>2, <1>3, <1>12, <2>1
  <2>3. PICK pairs : /\ \A u, v \in pairs : u # v => ~Overlap(u, v)
                     /\ events'[i].pairs \subseteq pairs
    BY <1>1, <2>1
  <2> QED
    BY <2>2, <2>3
<1> QED
  BY <1>4, <1>8, <1>10, <1>11, <1>12

LEMMA InstantsStep ==
  ASSUME InstantsPaidOnce, RulingInv, PayInv, PayrollConstants, AttendanceConstants,
         [Next]_vars
  PROVE  InstantsPaidOnce'
<1>1. CASE UNCHANGED events
  <2>1. InBoundaryOrder' => InBoundaryOrder
    BY <1>1 DEF InBoundaryOrder
  <2>2. Len(events') = Len(events) /\ \A i \in 1..Len(events) : events'[i] = events[i]
    BY <1>1
  <2> QED
    BY <2>1, <2>2, Zenon DEF InstantsPaidOnce
<1>2. ASSUME NEW w \in Workers, complete_payroll_cycle(w) PROVE InstantsPaidOnce'
  BY <1>1, <1>2, SettleInstants
<1> QED
  BY <1>1, <1>2, StepCases DEF Tick, record_attendance_session, SweepSeat, Finish

\* While runs settle in the order of their boundaries no instant of a student's
\* attendance is paid twice, whatever taps and sweeps waited for the seat's lock and
\* wherever the rows they add land: two pairs that were paid do not overlap.
THEOREM NoInstantPaidTwice == Spec => []InstantsPaidOnce
<1>1. Init => InstantsPaidOnce
  <2>1. Init => 1..Len(events) = {}
    BY DEF Init
  <2> QED
    BY <2>1 DEF InstantsPaidOnce
<1>2. PayInv /\ RulingInv /\ InstantsPaidOnce /\ [Next]_vars => InstantsPaidOnce'
  BY PayrollConstants, AttendanceConstants, InstantsStep
<1> QED
  BY <1>1, <1>2, PayAlways, RulingAlways, PTL DEF Spec

-----------------------------------------------------------------------------
(***************************************************************************)
(* Type correctness.                                                       *)
(***************************************************************************)

LEMMA DayMultiples ==
  ASSUME NEW j \in Nat, NEW k \in Nat, NEW d \in Nat \ {0}, j < k
  PROVE  j * d + d <= k * d
<1>1. PICK m \in Nat : k = j + 1 + m
  <2>1. k - j - 1 \in Nat /\ k = j + 1 + (k - j - 1)
    OBVIOUS
  <2> QED
    BY <2>1
<1>2. k * d = j * d + d + m * d
  BY <1>1
<1>3. m * d \in Nat /\ j * d \in Nat
  OBVIOUS
<1> QED
  BY <1>2, <1>3

LEMMA AfterMidnight ==
  ASSUME NEW L \in Nat, L > 1, NEW k \in Nat
  PROVE  (k * L + 1) % L # 0
<1> DEFINE n == k * L + 1
           q == n \div L
<1>1. k * L \in Nat /\ n \in Nat
  OBVIOUS
<1> HIDE DEF n
<1>2. q \in Nat /\ n = q * L + (n % L) /\ n % L \in Nat /\ n % L < L
  BY <1>1
<1> HIDE DEF q
<1>3. q * L \in Nat
  BY <1>2
<1>4. (q < k => q * L + L <= k * L) /\ (k < q => k * L + L <= q * L)
  BY <1>2, DayMultiples
<1>5. n % L = 0 => k * L + 1 = q * L
  BY <1>2, <1>3 DEF n
<1>6. ~(q < k) /\ ~(k < q) => q = k
  BY <1>2
<1>7. n % L # 0
  BY <1>1, <1>3, <1>4, <1>5, <1>6
<1> QED
  BY <1>7 DEF n

\* The clock skips the first instant of each day.
LEMMA TickOffMidnight ==
  ASSUME AttendanceConstants, now \in Nat, Tick
  PROVE  now' \in Nat /\ now <= now' /\ now' % DayLength # 0
<1>1. DayLength \in Nat /\ DayLength > 1
  BY DEF AttendanceConstants
<1>2. now' = IF (now + 1) % DayLength = 0 THEN now + 2 ELSE now + 1
  BY DEF Tick
<1>3. CASE (now + 1) % DayLength = 0
  <2>1. PICK k \in Nat : now + 1 = k * DayLength
    <3> DEFINE n == now + 1
    <3>1. n \in Nat /\ n % DayLength = 0
      BY <1>3
    <3> HIDE DEF n
    <3>2. n = (n \div DayLength) * DayLength + (n % DayLength) /\ n \div DayLength \in Nat
      BY <1>1, <3>1
    <3>3. (n \div DayLength) * DayLength \in Nat
      BY <1>1, <3>2
    <3>4. n = (n \div DayLength) * DayLength
      BY <3>1, <3>2, <3>3
    <3> QED
      BY <3>2, <3>4 DEF n
  <2>2. (k * DayLength + 1) % DayLength # 0
    BY <1>1, AfterMidnight
  <2>3. now' = now + 2 /\ now + 2 = k * DayLength + 1
    <3>1. k * DayLength \in Nat
      BY <1>1
    <3> QED
      BY <1>2, <1>3, <2>1, <3>1
  <2> QED
    BY <2>2, <2>3
<1>4. CASE (now + 1) % DayLength # 0
  BY <1>2, <1>4
<1> QED
  BY <1>3, <1>4

LEMMA MinOfTwo ==
  ASSUME NEW a \in Int, NEW b \in Int
  PROVE  /\ Min({a, b}) \in {a, b}
         /\ Min({a, b}) <= a /\ Min({a, b}) <= b
<1>1. \E x \in {a, b} : \A y \in {a, b} : x <= y
  OBVIOUS
<1>2. Min({a, b}) \in {a, b} /\ \A y \in {a, b} : Min({a, b}) <= y
  BY <1>1 DEF Min
<1> QED
  BY <1>2

Typed(rows) == rows \subseteq RowType(Passes)

TypeInv ==
  /\ now % DayLength # 0
  /\ \A s \in Seats : Typed(log[s])
  /\ \A i \in 1..Len(events) : events[i].seat \in Seats /\ events[i].pairs # {}

LEMMA TypedRow ==
  ASSUME NEW id, NEW status, NEW reason \in Reasons, NEW pass \in Passes \cup {NoPass},
         NEW at, NEW mech \in {"self", "teacher", "system"},
         RowSound(Row(id, status, reason, pass, at, mech))
  PROVE  Row(id, status, reason, pass, at, mech) \in RowType(Passes)
<1>1. id \in Nat \ {0} /\ at \in Nat /\ status \in {"active", "inactive"}
  BY DEF RowSound, Row
<1> QED
  BY <1>1 DEF RowType, Row

LEMMA Append1Typed ==
  ASSUME NEW rows, RowsSound(rows), Typed(rows), NEW status \in {"active", "inactive"},
         NEW reason \in Reasons, NEW pass \in Passes \cup {NoPass}, NEW at \in Nat,
         NEW mech \in {"self", "teacher", "system"}
  PROVE  /\ RowsSound(Append1(rows, status, reason, pass, at, mech))
         /\ Typed(Append1(rows, status, reason, pass, at, mech))
<1> DEFINE x == Row(Cardinality(rows) + 1, status, reason, pass, at, mech)
<1>1. RowsSound(Append1(rows, status, reason, pass, at, mech))
  BY Append1Sound
<1>2. Append1(rows, status, reason, pass, at, mech) = rows \cup {x}
  BY DEF Append1
<1>3. RowSound(x)
  BY <1>1, <1>2 DEF RowsSound
<1>4. x \in RowType(Passes)
  BY <1>3, TypedRow
<1> HIDE DEF x
<1> QED
  BY <1>1, <1>2, <1>4 DEF Typed

LEMMA RecordedTyped ==
  ASSUME AttendanceConstants, NEW rows, RowsSound(rows), Typed(rows), NEW t \in Nat,
         NEW status \in {"active", "inactive"}, NEW reason \in Reasons,
         NEW pass \in Passes \cup {NoPass}, NEW mech \in {"self", "teacher", "system"}
  PROVE  Typed(Recorded(rows, t, status, reason, pass, mech))
<1> DEFINE last == Latest(rows)
           end == Min({t, DayEnd(last.at)})
           over == Append1(rows, "inactive", "done_for_day", NoPass, end, mech)
<1>1. end \in Nat
  <2>1. last.at \in Nat
    BY LastFacts DEF Latest, NoRow, RowsSound, RowSound
  <2>2. DayEnd(last.at) \in Nat
    BY <2>1, DayEndNat
  <2>3. \A e \in Nat : Min({t, e}) \in {t, e}
    BY MinOfTwo
  <2> QED
    BY <2>2, <2>3
<1>2. RowsSound(over) /\ Typed(over)
  <2>1. "done_for_day" \in Reasons /\ NoPass \in Passes \cup {NoPass}
    BY DEF Reasons
  <2> HIDE DEF end
  <2> QED
    BY <1>1, <2>1, Append1Typed
<1>3. \/ Recorded(rows, t, status, reason, pass, mech)
           = Append1(rows, status, reason, pass, t, mech)
      \/ Recorded(rows, t, status, reason, pass, mech)
           = Append1(over, status, reason, pass, t, mech)
  BY DEF Recorded
<1> HIDE DEF over
<1> QED
  BY <1>2, <1>3, Append1Typed

LEMMA DueTyped ==
  ASSUME NEW rows, RowsSound(rows), Typed(rows), NEW t \in Nat
  PROVE  Typed(close_due_attendance_intervals(rows, t))
<1> DEFINE new == close_due_attendance_intervals(rows, t)
<1>1. \A y \in new : y \in rows \/ \E id, d :
                       y = Row(id, "inactive", "done_for_day", NoPass, d, "system")
  BY DEF close_due_attendance_intervals
<1>2. \A y \in new : RowSound(y)
  BY DueSound DEF RowsSound
<1> HIDE DEF new
<1>3. \A y \in new : y \in RowType(Passes)
  BY <1>1, <1>2, TypedRow DEF Typed, Reasons
<1> QED
  BY <1>3 DEF Typed, new

LEMMA HangingTyped ==
  ASSUME AttendanceConstants, NEW rows, RowsSound(rows), Typed(rows), NEW t \in Nat
  PROVE  Typed(close_due_hanging_hall_pass(rows, t))
<1> DEFINE new == close_due_hanging_hall_pass(rows, t)
<1>1. \A r \in rows : r.pass \in Passes \cup {NoPass}
  BY DEF Typed, RowType
<1>2. HangingExits(rows, t) \subseteq rows
  BY DEF HangingExits
<1>3. \A y \in new :
        \/ y \in rows
        \/ \E r \in rows : \E id, d : y = Row(id, "active", "start_work", r.pass, d, "system")
        \/ \E id, d : y = Row(id, "inactive", "done_for_day", NoPass, d, "system")
  BY <1>2 DEF close_due_hanging_hall_pass
<1>4. \A y \in new : RowSound(y)
  BY HangingSound DEF RowsSound
<1> HIDE DEF new
<1>5. "start_work" \in Reasons /\ "done_for_day" \in Reasons
  BY DEF Reasons
<1>6. ASSUME NEW y \in new
      PROVE  y \in RowType(Passes)
  <2>1. CASE y \in rows
    BY <2>1 DEF Typed
  <2>2. ASSUME NEW r \in rows, NEW id, NEW d,
               y = Row(id, "active", "start_work", r.pass, d, "system")
        PROVE  y \in RowType(Passes)
    BY <1>1, <1>4, <1>5, <2>2, TypedRow
  <2>3. ASSUME NEW id, NEW d, y = Row(id, "inactive", "done_for_day", NoPass, d, "system")
        PROVE  y \in RowType(Passes)
    BY <1>4, <1>5, <2>3, TypedRow
  <2> QED
    BY <1>3, <2>1, <2>2, <2>3
<1> QED
  BY <1>6 DEF Typed, new

LEMMA TypeInvStep ==
  ASSUME TypeInv, RulingInv, PayInv, HandlersSound, PayrollConstants, AttendanceConstants,
         [Next]_vars
  PROVE  TypeInv'
<1>1. CASE UNCHANGED <<now, log, events>>
  BY <1>1 DEF TypeInv
<1>2. ASSUME NEW op \in inflight, record_attendance_session(op) \/ SweepSeat(op)
      PROVE  TypeInv'
  <2> DEFINE s == op.seat
  <2>1. /\ s \in Seats /\ RowsSound(log[s]) /\ Typed(log[s])
        /\ now \in Nat /\ UNCHANGED <<now, events>>
    BY <1>2, HandlerLands DEF TypeInv, RulingInv, PayInv
  <2>2. \A t \in Nat, status \in {"active", "inactive"}, reason \in Reasons,
           pass \in Passes \cup {NoPass} :
          Typed(Recorded(log[s], t, status, reason, pass, "self"))
    BY <2>1, RecordedTyped
  <2>3. \A t \in Nat : Typed(Swept(log[s], t))
    <3> TAKE t \in Nat
    <3>1. Swept(log[s], t)
            = close_due_hanging_hall_pass(close_due_attendance_intervals(log[s], t), t)
      BY DEF Swept
    <3> HIDE DEF s
    <3> QED
      BY <2>1, <3>1, DueSound, DueTyped, HangingTyped
  <2>4. \E rows : Typed(rows) /\ log' = [log EXCEPT ![s] = rows]
    BY <1>2, <2>1, <2>2, <2>3, HandlerLands
  <2> HIDE DEF s
  <2>5. \A x \in Seats : Typed(log'[x])
    BY <2>4 DEF TypeInv, RulingInv
  <2> QED
    BY <2>1, <2>5 DEF TypeInv
<1>3. ASSUME NEW w \in Workers, complete_payroll_cycle(w), ~UNCHANGED <<now, log, events>>
      PROVE  TypeInv'
  <2> DEFINE r == runs[w]
             paid == PayrollEvents(r, ClosedBy(r))
  <2>1. /\ r # NoRun /\ log' = ClosedBy(r) /\ UNCHANGED now
        /\ \E order \in SetToSeqs(paid) : events' = events \o order
    BY <1>3 DEF complete_payroll_cycle
  <2>2. r.boundary \in Nat
    BY <2>1 DEF PayInv, RunsSound, RunFacts
  <2>3. \A s \in Seats : Typed(log'[s])
    <3> TAKE s \in Seats
    <3>1. RowsSound(log[s]) /\ Typed(log[s])
      BY DEF TypeInv, RulingInv
    <3>2. log'[s] = log[s] \/ log'[s] = close_due_attendance_intervals(log[s], r.boundary)
      BY <2>1 DEF ClosedBy
    <3> QED
      BY <2>2, <3>1, <3>2, DueTyped
  <2>4. IsFiniteSet(paid)
    BY RunEvents
  <2>7. \A e \in paid : e.seat \in Seats /\ e.pairs # {}
    BY DEF PayrollEvents
  <2> HIDE DEF paid
  <2>5. /\ \A i \in 1..Len(events) : events'[i] = events[i]
        /\ \A i \in 1..Len(events') : i > Len(events) => events'[i] \in paid
        /\ Len(events) \in Nat /\ Len(events') \in Nat
    BY <2>1, <2>4, AddedEvents DEF PayInv
  <2>6. \A i \in 1..Len(events') : events'[i].seat \in Seats /\ events'[i].pairs # {}
    <3> TAKE i \in 1..Len(events')
    <3>1. CASE i \in 1..Len(events)
      BY <2>5, <3>1 DEF TypeInv
    <3>2. CASE i > Len(events)
      BY <2>5, <2>7, <3>2
    <3> QED
      BY <2>5, <3>1, <3>2
  <2> QED
    BY <2>1, <2>3, <2>6 DEF TypeInv
<1>4. CASE Tick
  <2>1. now' % DayLength # 0 /\ UNCHANGED <<log, events>>
    BY <1>4, TickOffMidnight DEF PayInv, Tick
  <2> QED
    BY <2>1 DEF TypeInv
<1> QED
  BY <1>1, <1>2, <1>3, <1>4, StepCases

\* Every row keeps its shape, the clock stays off midnight, and no handler, run or
\* event is dated ahead of it, nor does any event pay nothing.
THEOREM PayrollTypes == Spec => []TypeOK
<1>1. Init => TypeInv
  <2>1. Init => /\ now = 1 /\ (\A s \in Seats : log[s] = {}) /\ 1..Len(events) = {}
    BY DEF Init
  <2>2. 1 % DayLength # 0
    BY AttendanceConstants DEF AttendanceConstants
  <2> QED
    BY <2>1, <2>2 DEF TypeInv, Typed
<1>2. PayInv /\ HandlersSound /\ RulingInv /\ TypeInv /\ [Next]_vars => TypeInv'
  BY PayrollConstants, AttendanceConstants, TypeInvStep
<1>3. PayInv /\ HandlersSound /\ RulingInv /\ TypeInv => TypeOK
  <2> SUFFICES ASSUME PayInv, HandlersSound, RulingInv, TypeInv PROVE TypeOK
    OBVIOUS
  <2>1. now \in Nat /\ now % DayLength # 0
    BY DEF PayInv, TypeInv
  <2>2. log \in [Seats -> SUBSET RowType(Passes)]
    BY DEF TypeInv, RulingInv, Typed
  <2>3. \A i \in 1..Len(events) :
          events[i].seat \in Seats /\ events[i].at <= now /\ events[i].pairs # {}
    BY DEF PayInv, EventsSound, EventFacts, TypeInv
  <2>4. \A w \in Workers : runs[w] # NoRun => runs[w].boundary <= now
    BY DEF PayInv, RunsSound, RunFacts
  <2>5. \A op \in inflight : op.seat \in Seats /\ op.since \in 0..now
    BY <2>1 DEF HandlersSound, HandlerFacts
  <2> QED
    BY <2>1, <2>2, <2>3, <2>4, <2>5 DEF TypeOK
<1> QED
  BY <1>1, <1>2, <1>3, PayAlways, RulingAlways, PTL DEF Spec
=============================================================================
