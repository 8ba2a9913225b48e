---------------------------- MODULE StoreProofs ----------------------------
(***************************************************************************)
(* Theorems about Store for any seats, products, limits and bounds,        *)
(* whatever purchases, requests, decisions, reversals and sweeps           *)
(* interleave, along three inductive invariants:                           *)
(*   StoreInv  money and entitlement move together, and a request is       *)
(*             decided once;                                               *)
(*   HoldInv   a seat holds no more of a product than its limit, the       *)
(*             purchase it has in progress included;                       *)
(*   WonInv    a goal that was met at its deadline is never swept.         *)
(***************************************************************************)
EXTENDS Store, FiniteSetTheorems, TLAPS

-----------------------------------------------------------------------------
(***************************************************************************)
(* The inductive invariant.                                                *)
(***************************************************************************)

Ends == {"none", "CONSUMED", "REVOKED", "EXPIRED", "USED"}

Money == {"granted", "charged", "reversed", "refunded", "expired"}

\* A purchase in progress is of units that its product may grant.
PurchasesTyped ==
  buying \in [Seats -> {NoPurchase} \cup [product: Products, quantity: 1..MaxQuantity]]

\* A handler in flight names an entitlement that was granted, and a decision a
\* request that was made.
InFlightKnown ==
  \A op \in inflight :
    /\ op.ent \in Entitlements
    /\ op.op = "decide" => op.id \in 1..Len(decision) /\ op.outcome \in Outcomes

\* What the sweep has loaded was granted.
SweepKnown == sweep.phase = "loaded" => sweep.loaded \subseteq Lots

\* A request that still waits has not been decided.
WaitingUndecided == \A r \in requests : decision[r.id] = "none"

WonTyped == won \in [Products -> SUBSET Lots]

StoreInv ==
  /\ TypeOK /\ PurchasesTyped /\ InFlightKnown /\ SweepKnown /\ WonTyped
  /\ WaitingUndecided /\ MoneyFollowsItem

-----------------------------------------------------------------------------
(***************************************************************************)
(* How lots change: one is added, one is rewritten, a unit of one ends.    *)
(***************************************************************************)

\* Lots are only added to, and each keeps its units.
LotsKept ==
  /\ Len(lots) <= Len(lots')
  /\ \A i \in Lots : Len(lots'[i].ends) = Len(lots[i].ends)

\* What the rows mean for money and item in one lot.
LotFollows(lot) ==
  /\ lot.money = "reversed" => \A u \in 1..Len(lot.ends) : lot.ends[u] = "REVOKED"
  /\ \A u \in 1..Len(lot.ends) : lot.money = "expired" <=> lot.ends[u] = "EXPIRED"

LEMMA FollowsByLot == MoneyFollowsItem <=> \A i \in Lots : LotFollows(lots[i])
  BY DEF MoneyFollowsItem, LotFollows

\* A new lot joins the others, which stay as they are.
LEMMA AddedLot ==
  ASSUME lots \in Seq(LotType), NEW lot \in LotType, lots' = Append(lots, lot)
  PROVE  /\ lots' \in Seq(LotType) /\ LotsKept
         /\ Len(lots') = Len(lots) + 1 /\ lots'[Len(lots) + 1] = lot
         /\ \A i \in Lots : lots'[i] = lots[i]
  BY DEF LotsKept, Lots

\* A lot that is replaced by one with as many units.
LEMMA ReplacedLot ==
  ASSUME lots \in Seq(LotType), NEW i \in Lots, NEW lot \in LotType,
         Len(lot.ends) = Len(lots[i].ends), lots' = [lots EXCEPT ![i] = lot]
  PROVE  /\ lots' \in Seq(LotType) /\ LotsKept /\ Len(lots') = Len(lots)
         /\ lots'[i] = lot /\ \A j \in Lots : j # i => lots'[j] = lots[j]
  BY DEF LotsKept, Lots

\* A lot whose units change.
LEMMA EndsUpdate ==
  ASSUME NEW lot \in LotType, NEW ends \in Seq(Ends)
  PROVE  LET new == [lot EXCEPT !.ends = ends]
         IN /\ new \in LotType /\ new.ends = ends /\ new.money = lot.money
  BY DEF LotType, Ends

\* One unit of a lot that ends: the lot is replaced by one that differs there.
LEMMA EndedUnit ==
  ASSUME lots \in Seq(LotType), NEW e \in Entitlements, NEW event \in Ends,
         lots' = [lots EXCEPT ![e[1]].ends[e[2]] = event]
  PROVE  /\ e[1] \in Lots /\ e[2] \in 1..Len(lots[e[1]].ends)
         /\ LET lot == [lots[e[1]] EXCEPT !.ends = [@ EXCEPT ![e[2]] = event]]
            IN /\ lot \in LotType /\ Len(lot.ends) = Len(lots[e[1]].ends)
               /\ lot.money = lots[e[1]].money
               /\ lot.ends = [lots[e[1]].ends EXCEPT ![e[2]] = event]
               /\ lots' = [lots EXCEPT ![e[1]] = lot]
<1>1. e[1] \in Lots /\ e[2] \in 1..Len(lots[e[1]].ends)
  BY DEF Entitlements, Lots
<1>2. lots[e[1]] \in LotType
  BY <1>1 DEF Lots
<1> DEFINE lot == [lots[e[1]] EXCEPT !.ends = [@ EXCEPT ![e[2]] = event]]
<1>3. [lots[e[1]].ends EXCEPT ![e[2]] = event] \in Seq(Ends)
  BY <1>1, <1>2 DEF LotType, Ends
<1>4. /\ lot \in LotType /\ lot.money = lots[e[1]].money
      /\ lot.ends = [lots[e[1]].ends EXCEPT ![e[2]] = event]
  BY <1>2, <1>3, EndsUpdate
<1>6. Len([lots[e[1]].ends EXCEPT ![e[2]] = event]) = Len(lots[e[1]].ends)
  BY <1>1, <1>2 DEF LotType
<1>5. lots' = [lots EXCEPT ![e[1]] = lot]
  BY <1>1, <1>2 DEF LotType
<1> QED
  BY <1>1, <1>4, <1>5, <1>6

\* What was granted stays granted.
LEMMA GrantedStays ==
  ASSUME lots \in Seq(LotType), lots' \in Seq(LotType), LotsKept
  PROVE  Lots \subseteq Lots' /\ Entitlements \subseteq Entitlements'
  BY DEF LotsKept, Lots, Entitlements

\* An unused unit, ended by its use or by a decision, leaves the lot's money and
\* its other units alone.
LEMMA UnitEndKeepsBooks ==
  ASSUME lots \in Seq(LotType), MoneyFollowsItem,
         NEW e \in Entitlements, NEW event \in {"CONSUMED", "REVOKED", "USED"},
         Unit(e) = "none",
         lots' = [lots EXCEPT ![e[1]].ends[e[2]] = event]
  PROVE  lots' \in Seq(LotType) /\ LotsKept /\ MoneyFollowsItem'
<1>1. event \in Ends
  BY DEF Ends
<1> DEFINE lot == [lots[e[1]] EXCEPT !.ends = [@ EXCEPT ![e[2]] = event]]
<1>2. /\ e[1] \in Lots /\ e[2] \in 1..Len(lots[e[1]].ends)
      /\ lot \in LotType /\ Len(lot.ends) = Len(lots[e[1]].ends)
      /\ lot.money = lots[e[1]].money
      /\ lot.ends = [lots[e[1]].ends EXCEPT ![e[2]] = event]
      /\ lots' = [lots EXCEPT ![e[1]] = lot]
  BY <1>1, EndedUnit
<1> HIDE DEF lot
<1>3. /\ lots' \in Seq(LotType) /\ LotsKept /\ Len(lots') = Len(lots)
      /\ lots'[e[1]] = lot /\ \A j \in Lots : j # e[1] => lots'[j] = lots[j]
  BY <1>2, ReplacedLot
<1>4. LotFollows(lots[e[1]]) /\ lots[e[1]].ends[e[2]] = "none"
  BY <1>2, FollowsByLot DEF Unit
<1>5. lots[e[1]].ends \in Seq(Ends)
  BY <1>2 DEF Lots, LotType, Ends
<1>6. LotFollows(lot)
  BY <1>2, <1>4, <1>5 DEF LotFollows
<1>7. \A i \in Lots' : LotFollows(lots'[i])
  BY <1>2, <1>3, <1>6, FollowsByLot DEF Lots
<1>8. MoneyFollowsItem'
  BY <1>7 DEF MoneyFollowsItem, LotFollows
<1> QED
  BY <1>3, <1>8

-----------------------------------------------------------------------------
(***************************************************************************)
(* Preservation, by what an action may change.                             *)
(***************************************************************************)

\* Names in the other tables still name something once lots have grown.
LEMMA NamesStay ==
  ASSUME StoreInv, lots' \in Seq(LotType), LotsKept
  PROVE  /\ \A e \in Entitlements : e \in Entitlements'
         /\ reminders \subseteq Entitlements'
         /\ \A op \in inflight : op.ent \in Entitlements'
         /\ \A r \in requests : r.ent \in Entitlements'
         /\ SweepKnown /\ UNCHANGED sweep => SweepKnown'
         /\ UNCHANGED won => WonTyped' /\ \A p \in Products : won'[p] \subseteq Lots'
<1>1. Lots \subseteq Lots' /\ Entitlements \subseteq Entitlements'
  BY GrantedStays DEF StoreInv, TypeOK
<1> QED
  BY <1>1 DEF StoreInv, TypeOK, InFlightKnown, SweepKnown, WonTyped

LEMMA InitInv == Init => StoreInv
<1> SUFFICES ASSUME Init PROVE StoreInv
  OBVIOUS
<1> USE DEF Init, Idle
<1>1. Lots = {} /\ Entitlements = {}
  BY DEF Lots, Entitlements
<1>2. TypeOK
  BY <1>1 DEF TypeOK, SeatFree, Goals
<1>3. PurchasesTyped /\ InFlightKnown /\ SweepKnown /\ WonTyped /\ WaitingUndecided
  BY <1>1 DEF PurchasesTyped, InFlightKnown, SweepKnown, WonTyped, WaitingUndecided
<1>4. MoneyFollowsItem
  BY <1>1 DEF MoneyFollowsItem
<1> QED
  BY <1>2, <1>3, <1>4 DEF StoreInv

\* Nothing that a step leaves of lots, requests and decisions can break.
LEMMA LotsUnchanged ==
  ASSUME StoreInv, UNCHANGED lots
  PROVE  /\ lots' \in Seq(LotType) /\ Lots' = Lots /\ Entitlements' = Entitlements
         /\ MoneyFollowsItem'
  BY DEF StoreInv, TypeOK, Lots, Entitlements, MoneyFollowsItem

\* The deadline passes, or the teacher withdraws a product.
LEMMA ProductStep ==
  ASSUME StoreInv, NEW p \in Products, Lapse(p) \/ retire_lineage(p)
  PROVE  StoreInv'
<1>1. UNCHANGED <<lots, buying, requests, reminders, decision, inflight, sweep>>
  BY DEF Lapse, retire_lineage
<1>2. /\ lots' \in Seq(LotType) /\ Lots' = Lots /\ Entitlements' = Entitlements
      /\ MoneyFollowsItem'
  BY <1>1, LotsUnchanged
<1>3. available' \in [Products -> BOOLEAN] /\ lapsed' \subseteq Goals
  BY DEF StoreInv, TypeOK, Lapse, retire_lineage
<1>4. Standing(p) \subseteq Lots
  BY DEF Standing
<1>5. WonTyped' /\ \A q \in Products : won'[q] \subseteq Lots'
  BY <1>2, <1>4 DEF StoreInv, WonTyped, Lapse, retire_lineage
<1>6. TypeOK'
  BY <1>1, <1>2, <1>3, <1>5 DEF StoreInv, TypeOK, SeatFree
<1>7. PurchasesTyped' /\ InFlightKnown' /\ SweepKnown' /\ WaitingUndecided'
  BY <1>1, <1>2
     DEF StoreInv, PurchasesTyped, InFlightKnown, SweepKnown, WaitingUndecided
<1> QED
  BY <1>2, <1>5, <1>6, <1>7 DEF StoreInv

\* A purchase starts, or ends with nothing done.
LEMMA LockStep ==
  ASSUME StoreInv, NEW s \in Seats, NEW n \in 1..MaxQuantity, NEW p \in Products,
         PurchaseBegin(s, p, n) \/ PurchaseRefused(s)
  PROVE  StoreInv'
<1>1. UNCHANGED <<lots, available, lapsed, requests, reminders, decision, inflight,
                  sweep, won>>
  BY DEF PurchaseBegin, PurchaseRefused
<1>2. /\ lots' \in Seq(LotType) /\ Lots' = Lots /\ Entitlements' = Entitlements
      /\ MoneyFollowsItem'
  BY <1>1, LotsUnchanged
<1>3. PurchasesTyped'
  BY DEF StoreInv, PurchasesTyped, PurchaseBegin, PurchaseRefused
<1>4. TypeOK'
  BY <1>1, <1>2, <1>3 DEF StoreInv, TypeOK, SeatFree, PurchasesTyped
<1>5. InFlightKnown' /\ SweepKnown' /\ WonTyped' /\ WaitingUndecided'
  BY <1>1, <1>2 DEF StoreInv, InFlightKnown, SweepKnown, WonTyped, WaitingUndecided
<1> QED
  BY <1>2, <1>3, <1>4, <1>5 DEF StoreInv

\* A new lot with fresh units of one state: bought, bought and used, or given.
LEMMA NewLotFollows ==
  ASSUME NEW s \in Seats, NEW p \in Products, NEW n \in Nat,
         NEW event \in {"none", "CONSUMED"}, NEW money \in {"charged", "granted"}
  PROVE  LET lot == [seat |-> s, product |-> p, money |-> money, ends |-> Units(n, event)]
         IN /\ lot \in LotType /\ LotFollows(lot) /\ Len(lot.ends) = n
<1>1. Units(n, event) \in Seq(Ends) /\ Len(Units(n, event)) = n
      /\ \A u \in 1..n : Units(n, event)[u] = event
  BY DEF Units, Ends
<1> QED
  BY <1>1 DEF LotType, LotFollows, Ends

LEMMA AddedKeepsBooks ==
  ASSUME StoreInv, NEW lot \in LotType, LotFollows(lot), lots' = Append(lots, lot)
  PROVE  lots' \in Seq(LotType) /\ LotsKept /\ MoneyFollowsItem'
<1>1. /\ lots' \in Seq(LotType) /\ LotsKept
      /\ Len(lots') = Len(lots) + 1 /\ lots'[Len(lots) + 1] = lot
      /\ \A i \in Lots : lots'[i] = lots[i]
  BY AddedLot DEF StoreInv, TypeOK
<1>2. \A i \in Lots' : i \in Lots \/ i = Len(lots) + 1
  BY <1>1 DEF Lots, StoreInv, TypeOK
<1>3. \A i \in Lots' : LotFollows(lots'[i])
  BY <1>1, <1>2, FollowsByLot DEF StoreInv
<1> QED
  BY <1>1, <1>3 DEF MoneyFollowsItem, LotFollows

\* The charge, its grants and its reminder are written together.
LEMMA CommitStep ==
  ASSUME StoreInv, StoreConstants, NEW s \in Seats, PurchaseCommit(s)
  PROVE  StoreInv'
<1> DEFINE event == IF Type[buying[s].product] = "IMMEDIATE_USE" THEN "CONSUMED" ELSE "none"
           lot == [seat |-> s, product |-> buying[s].product, money |-> "charged",
                   ends |-> Units(buying[s].quantity, event)]
<1>1. /\ lots' = Append(lots, lot)
      /\ reminders' = IF Type[buying[s].product] = "IMMEDIATE_USE"
                      THEN reminders \cup {<<NewLot, 1>>} ELSE reminders
      /\ buying' = [buying EXCEPT ![s] = NoPurchase]
      /\ UNCHANGED <<available, lapsed, requests, decision, inflight, sweep, won>>
  BY DEF PurchaseCommit
<1>2. buying[s].product \in Products /\ buying[s].quantity \in 1..MaxQuantity
  BY DEF PurchaseCommit, SeatFree, StoreInv, PurchasesTyped
<1>3. buying[s].quantity \in Nat /\ buying[s].quantity >= 1
      /\ event \in {"none", "CONSUMED"} /\ MaxQuantity \in Nat
  BY <1>2 DEF StoreConstants
<1>4. lot \in LotType /\ LotFollows(lot) /\ Len(lot.ends) = buying[s].quantity
  BY <1>2, <1>3, NewLotFollows
<1> HIDE DEF lot, event
<1>5. lots' \in Seq(LotType) /\ LotsKept /\ MoneyFollowsItem'
  BY <1>1, <1>4, AddedKeepsBooks
<1>6. /\ reminders \subseteq Entitlements' /\ \A op \in inflight : op.ent \in Entitlements'
      /\ \A r \in requests : r.ent \in Entitlements'
      /\ SweepKnown' /\ WonTyped' /\ \A p \in Products : won'[p] \subseteq Lots'
  BY <1>1, <1>5, NamesStay DEF StoreInv
<1>7. <<NewLot, 1>> \in Entitlements'
  <2>1. Len(lots') = Len(lots) + 1 /\ lots'[Len(lots) + 1] = lot
    BY <1>1, <1>4, AddedLot DEF StoreInv, TypeOK
  <2>2. NewLot \in Lots' /\ 1 \in 1..MaxQuantity /\ 1 <= Len(lots'[NewLot].ends)
    BY <1>2, <1>3, <1>4, <2>1 DEF NewLot, Lots, StoreInv, TypeOK
  <2> QED
    BY <2>2 DEF Entitlements
<1>8. PurchasesTyped'
  BY <1>1 DEF StoreInv, PurchasesTyped
<1>9. TypeOK'
  BY <1>1, <1>5, <1>6, <1>7, <1>8 DEF StoreInv, TypeOK, PurchasesTyped, SeatFree
<1>10. InFlightKnown' /\ WaitingUndecided'
  BY <1>1, <1>6 DEF StoreInv, InFlightKnown, WaitingUndecided
<1> QED
  BY <1>5, <1>6, <1>8, <1>9, <1>10 DEF StoreInv

\* A step that only moves lots, by adding one or by rewriting one that stays as
\* long, leaves every other part of the invariant as it was.
LEMMA OnlyLots ==
  ASSUME StoreInv, lots' \in Seq(LotType), LotsKept, MoneyFollowsItem',
         available' \in [Products -> BOOLEAN],
         UNCHANGED <<lapsed, buying, requests, reminders, decision, inflight, won>>,
         sweep' = sweep \/ sweep' = Idle
  PROVE  StoreInv'
<1>1. /\ reminders \subseteq Entitlements' /\ \A op \in inflight : op.ent \in Entitlements'
      /\ \A r \in requests : r.ent \in Entitlements'
      /\ UNCHANGED sweep => SweepKnown'
      /\ WonTyped' /\ \A p \in Products : won'[p] \subseteq Lots'
  BY NamesStay DEF StoreInv
<1>2. SweepKnown' /\ sweep'.phase \in {"idle", "counted", "loaded"}
  BY <1>1 DEF Idle, SweepKnown, StoreInv, TypeOK
<1>3. TypeOK'
  BY <1>1, <1>2 DEF StoreInv, TypeOK, SeatFree
<1>4. PurchasesTyped' /\ InFlightKnown' /\ WaitingUndecided'
  BY <1>1 DEF StoreInv, PurchasesTyped, InFlightKnown, WaitingUndecided
<1> QED
  BY <1>1, <1>2, <1>3, <1>4 DEF StoreInv

\* A teacher's grant of hall passes.
LEMMA GrantStep ==
  ASSUME StoreInv, StoreConstants, NEW s \in Seats, NEW p \in Products,
         NEW n \in 1..MaxQuantity, _execute_direct_grant_impl(s, p, n)
  PROVE  StoreInv'
<1> DEFINE lot == [seat |-> s, product |-> p, money |-> "granted", ends |-> Units(n, "none")]
<1>1. /\ lots' = Append(lots, lot)
      /\ UNCHANGED <<available, lapsed, buying, requests, reminders, decision, inflight,
                     sweep, won>>
  BY DEF _execute_direct_grant_impl, DirectGrant
<1>2. n \in Nat
  BY DEF StoreConstants
<1>3. lot \in LotType /\ LotFollows(lot)
  BY <1>2, NewLotFollows
<1> HIDE DEF lot
<1>4. lots' \in Seq(LotType) /\ LotsKept /\ MoneyFollowsItem'
  BY <1>1, <1>3, AddedKeepsBooks
<1> QED
  BY <1>1, <1>4, OnlyLots DEF StoreInv, TypeOK

\* A hall pass is used.
LEMMA UseLogStep ==
  ASSUME StoreInv, NEW e \in Entitlements, _record_hall_pass_log_impl(e)
  PROVE  StoreInv'
<1>1. /\ Unit(e) = "none" /\ lots' = [lots EXCEPT ![e[1]].ends[e[2]] = "USED"]
      /\ UNCHANGED <<available, lapsed, buying, requests, reminders, decision, inflight,
                     sweep, won>>
  BY DEF _record_hall_pass_log_impl
<1>2. lots' \in Seq(LotType) /\ LotsKept /\ MoneyFollowsItem'
  BY <1>1, UnitEndKeepsBooks DEF StoreInv, TypeOK
<1> QED
  BY <1>1, <1>2, OnlyLots DEF StoreInv, TypeOK

\* A route reads, and its handler is in flight.
LEMMA ReadStep ==
  ASSUME StoreInv,
         \/ \E e \in Entitlements : CheckUse(e)
         \/ \E r \in requests, o \in Outcomes : _load_redemption_for_decision(r, o)
         \/ \E op \in inflight : CountAttempts(op)
  PROVE  StoreInv'
<1>1. UNCHANGED <<lots, available, lapsed, buying, requests, reminders, decision, sweep, won>>
  BY DEF CheckUse, _load_redemption_for_decision, CountAttempts, Start
<1>2. /\ lots' \in Seq(LotType) /\ Lots' = Lots /\ Entitlements' = Entitlements
      /\ MoneyFollowsItem'
  BY <1>1, LotsUnchanged
<1>3. InFlightKnown'
  <2>1. CASE \E e \in Entitlements : CheckUse(e)
    BY <1>1, <1>2, <2>1 DEF CheckUse, Start, StoreInv, InFlightKnown
  <2>2. CASE \E r \in requests, o \in Outcomes : _load_redemption_for_decision(r, o)
    BY <1>1, <1>2, <2>2
       DEF _load_redemption_for_decision, Start, StoreInv, TypeOK, InFlightKnown
  <2>3. CASE \E op \in inflight : CountAttempts(op)
    BY <1>1, <1>2, <2>3 DEF CountAttempts, StoreInv, InFlightKnown
  <2> QED
    BY <2>1, <2>2, <2>3
<1>4. TypeOK'
  BY <1>1, <1>2 DEF StoreInv, TypeOK, SeatFree
<1>5. PurchasesTyped' /\ SweepKnown' /\ WonTyped' /\ WaitingUndecided'
  BY <1>1, <1>2 DEF StoreInv, PurchasesTyped, SweepKnown, WonTyped, WaitingUndecided
<1> QED
  BY <1>2, <1>3, <1>4, <1>5 DEF StoreInv

\* A request is inserted, or refused by the unique key.
LEMMA RequestStep ==
  ASSUME StoreInv, NEW op \in inflight, execute_use_item_request(op)
  PROVE  /\ StoreInv'
         /\ \A id \in 1..Len(decision) : decision'[id] = decision[id]
<1>1. /\ UNCHANGED <<lots, available, lapsed, buying, reminders, sweep, won>>
      /\ inflight' = inflight \ {op}
      /\ \/ /\ requests' = requests \cup
                 {[id |-> Len(decision) + 1, ent |-> op.ent, key |-> op.key]}
            /\ decision' = Append(decision, "none")
         \/ UNCHANGED <<requests, decision>>
  BY DEF execute_use_item_request, Finish
<1>2. /\ lots' \in Seq(LotType) /\ Lots' = Lots /\ Entitlements' = Entitlements
      /\ MoneyFollowsItem'
  BY <1>1, LotsUnchanged
<1>3. op.ent \in Entitlements /\ decision \in Seq(Outcomes \cup {"none"})
  BY DEF StoreInv, InFlightKnown, TypeOK
<1>4. /\ decision' \in Seq(Outcomes \cup {"none"}) /\ Len(decision) <= Len(decision')
      /\ \A id \in 1..Len(decision) : decision'[id] = decision[id]
  BY <1>1, <1>3
<1>5. \A r \in requests' :
        /\ r.id \in 1..Len(decision') /\ r.ent \in Entitlements'
        /\ decision'[r.id] = "none"
  <2>1. \A r \in requests : /\ r.id \in 1..Len(decision) /\ r.ent \in Entitlements
                            /\ decision[r.id] = "none"
    BY DEF StoreInv, TypeOK, WaitingUndecided
  <2>2. CASE UNCHANGED <<requests, decision>>
    BY <1>2, <2>1, <2>2
  <2>3. CASE /\ requests' = requests \cup
                  {[id |-> Len(decision) + 1, ent |-> op.ent, key |-> op.key]}
             /\ decision' = Append(decision, "none")
    <3>1. Len(decision') = Len(decision) + 1 /\ decision'[Len(decision) + 1] = "none"
      BY <1>3, <2>3
    <3> QED
      BY <1>2, <1>3, <1>4, <2>1, <2>3, <3>1
  <2> QED
    BY <1>1, <2>2, <2>3
<1>6. TypeOK'
  BY <1>1, <1>2, <1>4, <1>5 DEF StoreInv, TypeOK, SeatFree
<1>7. InFlightKnown'
  BY <1>1, <1>2, <1>3, <1>4 DEF StoreInv, InFlightKnown
<1>8. PurchasesTyped' /\ SweepKnown' /\ WonTyped' /\ WaitingUndecided'
  BY <1>1, <1>2, <1>5 DEF StoreInv, PurchasesTyped, SweepKnown, WonTyped, WaitingUndecided
<1> QED
  BY <1>2, <1>4, <1>6, <1>7, <1>8 DEF StoreInv

\* A decision resolves a request that still waits, which no one decided before.
LEMMA DecideStep ==
  ASSUME StoreInv, NEW op \in inflight, Decide(op)
  PROVE  /\ StoreInv'
         /\ \A id \in 1..Len(decision) :
              decision[id] # "none" => decision'[id] = decision[id]
<1> DEFINE ends == op.outcome # "returned"
           event == IF op.outcome = "approved" THEN "CONSUMED" ELSE "REVOKED"
           Done == StillWaiting(op.id) /\ (ends => Unit(op.ent) = "none")
<1>1. /\ UNCHANGED <<available, lapsed, buying, reminders, sweep, won>>
      /\ inflight' = inflight \ {op}
      /\ Done => /\ requests' = { r \in requests : r.id # op.id }
                 /\ decision' = [decision EXCEPT ![op.id] = op.outcome]
                 /\ lots' = IF ends THEN [lots EXCEPT ![op.ent[1]].ends[op.ent[2]] = event]
                                    ELSE lots
      /\ ~Done => UNCHANGED <<requests, decision, lots>>
  BY DEF Decide, Finish
<1>2. /\ op.ent \in Entitlements /\ decision \in Seq(Outcomes \cup {"none"})
      /\ op.id \in 1..Len(decision) /\ op.outcome \in Outcomes
  BY DEF StoreInv, InFlightKnown, TypeOK, Decide
<1>3. event \in {"CONSUMED", "REVOKED", "USED"}
  OBVIOUS
<1>4. lots' \in Seq(LotType) /\ LotsKept /\ MoneyFollowsItem'
  <2>1. CASE UNCHANGED lots
    <3>1. lots' \in Seq(LotType) /\ MoneyFollowsItem'
      BY <2>1, LotsUnchanged
    <3>2. LotsKept
      BY <2>1 DEF LotsKept, Lots, StoreInv, TypeOK
    <3> QED
      BY <3>1, <3>2
  <2>2. CASE Done /\ ends
    BY <1>1, <1>2, <1>3, <2>2, UnitEndKeepsBooks DEF StoreInv, TypeOK
  <2> QED
    BY <1>1, <2>1, <2>2
<1>5. /\ reminders \subseteq Entitlements' /\ \A o \in inflight : o.ent \in Entitlements'
      /\ \A r \in requests : r.ent \in Entitlements'
      /\ SweepKnown' /\ WonTyped' /\ \A p \in Products : won'[p] \subseteq Lots'
  BY <1>1, <1>4, NamesStay DEF StoreInv
<1>6. decision' \in Seq(Outcomes \cup {"none"}) /\ Len(decision') = Len(decision)
  BY <1>1, <1>2
<1>7. \A r \in requests' : r \in requests /\ decision'[r.id] = decision[r.id]
  <2>1. \A r \in requests : r.id \in 1..Len(decision)
    BY DEF StoreInv, TypeOK
  <2>2. \A r \in requests' : r \in requests /\ (Done => r.id # op.id)
    BY <1>1
  <2> HIDE DEF Done
  <2> QED
    BY <1>1, <1>2, <2>1, <2>2
<1>8. \A id \in 1..Len(decision) : decision[id] # "none" => decision'[id] = decision[id]
  <2>1. Done => decision[op.id] = "none"
    BY DEF StillWaiting, StoreInv, WaitingUndecided
  <2> QED
    BY <1>1, <1>2, <2>1
<1>9. TypeOK'
  BY <1>1, <1>4, <1>5, <1>6, <1>7 DEF StoreInv, TypeOK, SeatFree
<1>10. PurchasesTyped' /\ InFlightKnown' /\ WaitingUndecided'
  BY <1>1, <1>5, <1>6, <1>7
     DEF StoreInv, PurchasesTyped, InFlightKnown, WaitingUndecided
<1> QED
  BY <1>4, <1>5, <1>8, <1>9, <1>10 DEF StoreInv

\* The teacher marks an immediate-use purchase complete.
LEMMA ReminderStep ==
  ASSUME StoreInv, NEW e \in reminders, execute_complete_immediate_use(e)
  PROVE  StoreInv'
<1>1. /\ UNCHANGED <<lots, available, lapsed, buying, requests, decision, inflight, sweep, won>>
      /\ reminders' \subseteq reminders
  BY DEF execute_complete_immediate_use
<1>2. /\ lots' \in Seq(LotType) /\ Lots' = Lots /\ Entitlements' = Entitlements
      /\ MoneyFollowsItem'
  BY <1>1, LotsUnchanged
<1>3. TypeOK'
  BY <1>1, <1>2 DEF StoreInv, TypeOK, SeatFree
<1>4. PurchasesTyped' /\ InFlightKnown' /\ SweepKnown' /\ WonTyped' /\ WaitingUndecided'
  BY <1>1, <1>2
     DEF StoreInv, PurchasesTyped, InFlightKnown, SweepKnown, WonTyped, WaitingUndecided
<1> QED
  BY <1>2, <1>3, <1>4 DEF StoreInv

\* A lot rewritten to one that has as many units and follows its money.
LEMMA RewrittenKeepsBooks ==
  ASSUME StoreInv, NEW i \in Lots, NEW lot \in LotType,
         Len(lot.ends) = Len(lots[i].ends), LotFollows(lot),
         lots' = [lots EXCEPT ![i] = lot]
  PROVE  lots' \in Seq(LotType) /\ LotsKept /\ MoneyFollowsItem'
<1>1. /\ lots' \in Seq(LotType) /\ LotsKept /\ Len(lots') = Len(lots)
      /\ lots'[i] = lot /\ \A j \in Lots : j # i => lots'[j] = lots[j]
  BY ReplacedLot DEF StoreInv, TypeOK
<1>2. \A j \in Lots' : LotFollows(lots'[j])
  BY <1>1, FollowsByLot DEF Lots, StoreInv
<1> QED
  BY <1>1, <1>2 DEF MoneyFollowsItem, LotFollows

\* The units of a lot that is there.
LEMMA LotFacts ==
  ASSUME StoreInv, NEW i \in Lots
  PROVE  /\ lots \in Seq(LotType) /\ lots[i] \in LotType
         /\ lots[i].ends \in Seq(Ends) /\ Len(lots[i].ends) \in Nat
<1>1. lots \in Seq(LotType) /\ lots[i] \in LotType
  BY DEF StoreInv, TypeOK, Lots
<1> QED
  BY <1>1 DEF LotType, Ends

\* A lot that ends whole, with the same event for every unit.
LEMMA EndedWhole ==
  ASSUME StoreInv, NEW i \in Lots,
         NEW event \in {"REVOKED", "EXPIRED"}, NEW money \in {"reversed", "expired"},
         money = "expired" <=> event = "EXPIRED"
  PROVE  LET lot == [lots[i] EXCEPT !.ends = [u \in 1..Len(lots[i].ends) |-> event],
                                    !.money = money]
         IN lot \in LotType /\ Len(lot.ends) = Len(lots[i].ends) /\ LotFollows(lot)
<1> DEFINE ends == [u \in 1..Len(lots[i].ends) |-> event]
<1>1. ends \in Seq(Ends) /\ Len(ends) = Len(lots[i].ends)
      /\ \A u \in 1..Len(ends) : ends[u] = event
  BY LotFacts DEF Ends
<1> HIDE DEF ends
<1> DEFINE lot == [lots[i] EXCEPT !.ends = ends, !.money = money]
<1>2. lot \in LotType /\ lot.ends = ends /\ lot.money = money
  <2>1. money \in Money /\ lots[i] \in LotType
    BY LotFacts DEF Money
  <2> QED
    BY <1>1, <2>1 DEF LotType, Ends, Money
<1>3. LotFollows(lot)
  BY <1>1, <1>2 DEF LotFollows
<1> QED
  BY <1>1, <1>2, <1>3 DEF ends

\* Money goes back for a purchase whose units are all unused.
LEMMA MoneyBackStep ==
  ASSUME StoreInv, NEW i \in Lots, ReversePurchase(i) \/ RefundPurchase(i)
  PROVE  StoreInv'
<1>1. /\ UNCHANGED <<available, lapsed, buying, requests, reminders, decision, inflight,
                     sweep, won>>
      /\ \A u \in 1..Len(lots[i].ends) : lots[i].ends[u] = "none"
  BY DEF ReversePurchase, RefundPurchase, OutsideTheMoney,
         lock_and_resolve_purchase_eligibility
<1>2. lots' \in Seq(LotType) /\ LotsKept /\ MoneyFollowsItem'
  <2>1. CASE ReversePurchase(i)
    <3> DEFINE lot == [lots[i] EXCEPT !.ends = [u \in 1..Len(lots[i].ends) |-> "REVOKED"],
                                      !.money = "reversed"]
    <3>1. lot \in LotType /\ Len(lot.ends) = Len(lots[i].ends) /\ LotFollows(lot)
      BY EndedWhole
    <3>2. lots' = [lots EXCEPT ![i] = lot]
      BY <2>1, LotFacts DEF ReversePurchase, EndAll, LotType
    <3> HIDE DEF lot
    <3> QED
      BY <3>1, <3>2, RewrittenKeepsBooks
  <2>2. CASE RefundPurchase(i)
    <3> DEFINE lot == [lots[i] EXCEPT !.money = "refunded"]
    <3>1. lot \in LotType /\ lot.ends = lots[i].ends /\ lot.money = "refunded"
      BY LotFacts DEF LotType
    <3>2. lots' = [lots EXCEPT ![i] = lot]
      BY <2>2, LotFacts DEF RefundPurchase, LotType
    <3>3. LotFollows(lot)
      BY <1>1, <3>1 DEF LotFollows
    <3> HIDE DEF lot
    <3> QED
      BY <3>1, <3>2, <3>3, RewrittenKeepsBooks
  <2> QED
    BY <2>1, <2>2
<1> QED
  BY <1>1, <1>2, OnlyLots DEF StoreInv, TypeOK

-----------------------------------------------------------------------------
(***************************************************************************)
(* The sweep.                                                              *)
(***************************************************************************)

\* The sweep counts, loads or gives up: no row changes.
LEMMA SweepReadStep ==
  ASSUME StoreInv, SweepLoad \/ SweepRollback \/ \E p \in Products : SweepCount(p)
  PROVE  StoreInv'
<1>1. UNCHANGED <<lots, available, lapsed, buying, requests, reminders, decision,
                  inflight, won>>
  BY DEF SweepLoad, SweepRollback, SweepCount, OutsideTheSweep
<1>2. /\ lots' \in Seq(LotType) /\ Lots' = Lots /\ Entitlements' = Entitlements
      /\ MoneyFollowsItem'
  BY <1>1, LotsUnchanged
<1>3. SweepKnown' /\ sweep'.phase \in {"idle", "counted", "loaded"}
  <2>1. CASE SweepLoad
    BY <1>2, <2>1 DEF SweepLoad, SweepKnown, _load_open_goal_entitlements
  <2>2. CASE SweepRollback
    BY <2>2 DEF SweepRollback, SweepKnown, Idle
  <2>3. CASE \E p \in Products : SweepCount(p)
    BY <2>3 DEF SweepCount, SweepKnown
  <2> QED
    BY <2>1, <2>2, <2>3
<1>4. TypeOK'
  BY <1>1, <1>2, <1>3 DEF StoreInv, TypeOK, SeatFree
<1>5. PurchasesTyped' /\ InFlightKnown' /\ WonTyped' /\ WaitingUndecided'
  BY <1>1, <1>2 DEF StoreInv, PurchasesTyped, InFlightKnown, WonTyped, WaitingUndecided
<1> QED
  BY <1>2, <1>3, <1>4, <1>5 DEF StoreInv

\* Every covered lot is refunded and expires whole; the others stay.
LEMMA ExpireStep ==
  ASSUME StoreInv, expire_lapsed_collective_goal
  PROVE  StoreInv'
<1> DEFINE expired(i) ==
      [lots[i] EXCEPT !.ends = [u \in 1..Len(lots[i].ends) |-> "EXPIRED"],
                      !.money = "expired"]
<1>1. /\ sweep' = Idle /\ UNCHANGED <<lapsed, buying, requests, reminders, decision,
                                      inflight, won>>
      /\ lots' = [i \in Lots |->
           IF i \in Covered
           THEN [lots[i] EXCEPT !.money = "expired",
                                !.ends = [u \in 1..Len(@) |-> "EXPIRED"]]
           ELSE lots[i]]
      /\ available' = [available EXCEPT
           ![sweep.product] = @ /\ Covered # sweep.loaded]
  BY DEF expire_lapsed_collective_goal, OutsideTheSweep
<1>2. \A i \in Lots :
        /\ expired(i) \in LotType /\ Len(expired(i).ends) = Len(lots[i].ends)
        /\ LotFollows(expired(i))
  BY EndedWhole
<1>3. \A i \in Lots : lots[i] \in LotType /\ LotFollows(lots[i])
  BY LotFacts, FollowsByLot DEF StoreInv
<1>4. \A i \in Lots : lots'[i] = lots[i] \/ lots'[i] = expired(i)
  <2>1. \A i \in Lots :
          [lots[i] EXCEPT !.money = "expired", !.ends = [u \in 1..Len(@) |-> "EXPIRED"]]
            = expired(i)
    BY <1>3 DEF LotType
  <2> HIDE DEF expired
  <2> QED
    BY <1>1, <2>1
<1> HIDE DEF expired
<1>5. lots' \in Seq(LotType) /\ Len(lots') = Len(lots) /\ Lots' = Lots
  <2>1. \A i \in Lots : lots'[i] \in LotType
    BY <1>2, <1>3, <1>4
  <2>2. Len(lots) \in Nat /\ Lots = 1..Len(lots)
    BY DEF Lots, StoreInv, TypeOK
  <2> DEFINE new(i) == IF i \in Covered
                       THEN [lots[i] EXCEPT !.money = "expired",
                                            !.ends = [u \in 1..Len(@) |-> "EXPIRED"]]
                       ELSE lots[i]
  <2>3. lots' = [i \in 1..Len(lots) |-> new(i)]
    BY <1>1, <2>2
  <2> HIDE DEF new
  <2>4. \A i \in 1..Len(lots) : new(i) \in LotType
    BY <2>1, <2>2, <2>3
  <2>5. lots' \in Seq(LotType) /\ Len(lots') = Len(lots)
    BY <2>2, <2>3, <2>4
  <2> QED
    BY <2>5 DEF Lots
<1>6. LotsKept
  BY <1>2, <1>4, <1>5 DEF LotsKept, StoreInv, TypeOK
<1>7. \A i \in Lots' : LotFollows(lots'[i])
  BY <1>2, <1>3, <1>4, <1>5
<1>8. MoneyFollowsItem'
  BY <1>7 DEF MoneyFollowsItem, LotFollows
<1>9. available' \in [Products -> BOOLEAN]
  BY <1>1 DEF StoreInv, TypeOK
<1> QED
  BY <1>1, <1>5, <1>6, <1>8, <1>9, OnlyLots

-----------------------------------------------------------------------------
(***************************************************************************)
(* The theorems.                                                           *)
(***************************************************************************)

\* Nothing but a request and its decision writes to the decisions.
LEMMA StepInv ==
  ASSUME StoreInv, StoreConstants, [Next]_vars
  PROVE  /\ StoreInv'
         /\ \A id \in 1..Len(decision) :
              decision[id] # "none" => decision'[id] = decision[id]
<1>1. CASE UNCHANGED vars
  <2>1. /\ lots' \in Seq(LotType) /\ Lots' = Lots /\ Entitlements' = Entitlements
        /\ MoneyFollowsItem'
    BY <1>1, LotsUnchanged DEF vars
  <2> QED
    BY <1>1, <2>1
       DEF vars, StoreInv, TypeOK, SeatFree, PurchasesTyped, InFlightKnown, SweepKnown,
           WonTyped, WaitingUndecided
<1>2. CASE \E p \in Products : Lapse(p) \/ retire_lineage(p) \/ SweepCount(p)
  BY <1>2, ProductStep, SweepReadStep
     DEF Lapse, retire_lineage, SweepCount, OutsideTheSweep
<1>3. CASE \E s \in Seats, n \in 1..MaxQuantity : \E p \in Wares[s] :
             PurchaseBegin(s, p, n) \/ _execute_direct_grant_impl(s, p, n)
  <2>1. PICK s \in Seats, n \in 1..MaxQuantity, p \in Products :
          PurchaseBegin(s, p, n) \/ _execute_direct_grant_impl(s, p, n)
    BY <1>3 DEF StoreConstants
  <2> QED
    BY <2>1, LockStep, GrantStep
       DEF PurchaseBegin, _execute_direct_grant_impl, DirectGrant
<1>4. CASE \E s \in Seats : Purchase(s)
  <2>1. PICK s \in Seats : PurchaseCommit(s) \/ PurchaseRefused(s)
    BY <1>4 DEF Purchase
  <2>2. CASE PurchaseCommit(s)
    BY <2>2, CommitStep DEF PurchaseCommit
  <2>3. CASE PurchaseRefused(s)
    <3>1. buying[s].product \in Products /\ buying[s].quantity \in 1..MaxQuantity
      BY <2>3 DEF PurchaseRefused, SeatFree, StoreInv, PurchasesTyped
    <3> QED
      BY <2>3, <3>1, LockStep DEF PurchaseRefused
  <2> QED
    BY <2>1, <2>2, <2>3
<1>5. CASE \E e \in Entitlements : CheckUse(e) \/ _record_hall_pass_log_impl(e)
  BY <1>5, ReadStep, UseLogStep DEF CheckUse, Start, _record_hall_pass_log_impl
<1>6. CASE \E op \in inflight :
             CountAttempts(op) \/ execute_use_item_request(op) \/ Decide(op)
  BY <1>6, ReadStep, RequestStep, DecideStep DEF CountAttempts
<1>7. CASE \E r \in requests, o \in Outcomes : _load_redemption_for_decision(r, o)
  BY <1>7, ReadStep DEF _load_redemption_for_decision, Start
<1>8. CASE \E e \in reminders : execute_complete_immediate_use(e)
  BY <1>8, ReminderStep DEF execute_complete_immediate_use
<1>9. CASE \E i \in Lots : ReversePurchase(i) \/ RefundPurchase(i)
  BY <1>9, MoneyBackStep DEF ReversePurchase, RefundPurchase, OutsideTheMoney
<1>10. CASE Sweep
  BY <1>10, SweepReadStep, ExpireStep
     DEF Sweep, SweepLoad, expire_lapsed_collective_goal, SweepRollback, OutsideTheSweep
<1> QED
  BY <1>1, <1>2, <1>3, <1>4, <1>5, <1>6, <1>7, <1>8, <1>9, <1>10 DEF Next

\* Every row of the store has its shape and names a lot that was written, for any
\* seats, products and bounds.
THEOREM StoreTypes == Spec => []TypeOK
<1>1. Init => StoreInv
  BY InitInv
<1>2. StoreInv /\ [Next]_vars => StoreInv'
  BY StoreConstants, StepInv
<1>3. StoreInv => TypeOK
  BY DEF StoreInv
<1> QED
  BY <1>1, <1>2, <1>3, PTL DEF Spec

\* "Money and entitlement move together", whatever interleaves with a reversal
\* or with the sweep's reads and writes.
THEOREM MoneyAndEntitlement == Spec => []MoneyFollowsItem
<1>1. Init => StoreInv
  BY InitInv
<1>2. StoreInv /\ [Next]_vars => StoreInv'
  BY StoreConstants, StepInv
<1>3. StoreInv => MoneyFollowsItem
  BY DEF StoreInv
<1> QED
  BY <1>1, <1>2, <1>3, PTL DEF Spec

\* A request is decided once, however many decisions and repeated requests for
\* the same item are in flight.
THEOREM RequestsDecidedOnce == Spec => DecidedOnce
<1>1. Init => StoreInv
  BY InitInv
<1>2. StoreInv /\ [Next]_vars => StoreInv'
  BY StoreConstants, StepInv
<1>3. StoreInv /\ [Next]_vars =>
        [\A id \in 1..Len(decision) :
           decision[id] # "none" => decision'[id] = decision[id]]_vars
  BY StoreConstants, StepInv
<1> QED
  BY <1>1, <1>2, <1>3, PTL DEF Spec, DecidedOnce

-----------------------------------------------------------------------------
(***************************************************************************)
(* What a step may do to a lot that is there.                              *)
(***************************************************************************)

\* A lot keeps its buyer, its product and its number of units; units are used up,
\* never given back; and the one unit of a lot that has ended stays as it ended.
LotMoves(old, new) ==
  /\ new.seat = old.seat /\ new.product = old.product
  /\ Len(new.ends) = Len(old.ends)
  /\ new.money = "granted" => old.money = "granted"
  /\ \A u \in 1..Len(old.ends) : new.ends[u] = "none" => old.ends[u] = "none"
  /\ Len(old.ends) = 1 /\ old.ends[1] # "none" => new.ends = old.ends

\* Only the sweep lets a lot expire, and only one it has loaded and covers.
ExpiresBySweep(i) ==
  lots'[i].money = "expired" =>
    lots[i].money = "expired" \/ (expire_lapsed_collective_goal /\ i \in Covered)

LotsMove ==
  /\ Len(lots) =< Len(lots')
  /\ \A i \in Lots : LotMoves(lots[i], lots'[i]) /\ ExpiresBySweep(i)

LEMMA LotsStay == ASSUME StoreInv, UNCHANGED lots PROVE LotsMove
  BY DEF LotsMove, LotMoves, ExpiresBySweep, Lots, StoreInv, TypeOK

LEMMA AddedMoves ==
  ASSUME StoreInv, NEW lot \in LotType, lots' = Append(lots, lot)
  PROVE  LotsMove
<1>1. lots \in Seq(LotType) /\ Len(lots) \in Nat
  BY DEF StoreInv, TypeOK
<1>2. Len(lots') = Len(lots) + 1 /\ \A i \in Lots : lots'[i] = lots[i]
  BY <1>1, AddedLot
<1>3. ASSUME NEW i \in Lots PROVE LotMoves(lots[i], lots'[i]) /\ ExpiresBySweep(i)
  <2>1. lots'[i] = lots[i]
    BY <1>2
  <2> QED
    BY <2>1 DEF LotMoves, ExpiresBySweep
<1>4. Len(lots) =< Len(lots')
  BY <1>1, <1>2
<1> QED
  BY <1>3, <1>4 DEF LotsMove

\* One lot is rewritten.
LEMMA RewrittenMoves ==
  ASSUME StoreInv, NEW i \in Lots, NEW lot \in LotType, Len(lot.ends) = Len(lots[i].ends),
         lots' = [lots EXCEPT ![i] = lot],
         LotMoves(lots[i], lot), lot.money = "expired" => lots[i].money = "expired"
  PROVE  LotsMove
<1>1. lots \in Seq(LotType) /\ Len(lots) \in Nat
  BY DEF StoreInv, TypeOK
<1>2. /\ Len(lots') = Len(lots)
      /\ lots'[i] = lot /\ \A j \in Lots : j # i => lots'[j] = lots[j]
  BY <1>1, ReplacedLot
<1>3. ASSUME NEW j \in Lots PROVE LotMoves(lots[j], lots'[j]) /\ ExpiresBySweep(j)
  <2>1. CASE j = i
    BY <1>2, <2>1 DEF ExpiresBySweep
  <2>2. CASE j # i
    <3>1. lots'[j] = lots[j]
      BY <1>2, <2>2
    <3> QED
      BY <3>1 DEF LotMoves, ExpiresBySweep
  <2> QED
    BY <2>1, <2>2
<1> QED
  BY <1>1, <1>2, <1>3 DEF LotsMove

\* One unused unit ends.
LEMMA UnitMoves ==
  ASSUME StoreInv, NEW e \in Entitlements, NEW event \in {"CONSUMED", "REVOKED", "USED"},
         Unit(e) = "none", lots' = [lots EXCEPT ![e[1]].ends[e[2]] = event]
  PROVE  LotsMove
<1> DEFINE lot == [lots[e[1]] EXCEPT !.ends = [@ EXCEPT ![e[2]] = event]]
<1>1. event \in Ends
  BY DEF Ends
<1>2. /\ e[1] \in Lots /\ e[2] \in 1..Len(lots[e[1]].ends)
      /\ lot \in LotType /\ Len(lot.ends) = Len(lots[e[1]].ends)
      /\ lot.money = lots[e[1]].money
      /\ lot.ends = [lots[e[1]].ends EXCEPT ![e[2]] = event]
      /\ lots' = [lots EXCEPT ![e[1]] = lot]
  BY <1>1, EndedUnit DEF StoreInv, TypeOK
<1>3. lots[e[1]] \in LotType /\ lots[e[1]].ends \in Seq(Ends)
  BY <1>2, LotFacts
<1>4. lot.seat = lots[e[1]].seat /\ lot.product = lots[e[1]].product
  BY <1>3 DEF LotType
<1> HIDE DEF lot
<1>5. lots[e[1]].ends[e[2]] = "none"
  BY DEF Unit
<1>6. LotMoves(lots[e[1]], lot)
  BY <1>2, <1>3, <1>4, <1>5 DEF LotMoves
<1> QED
  BY <1>2, <1>6, RewrittenMoves

\* Money goes back for a lot whose units are all unused.
LEMMA MoneyBackMoves ==
  ASSUME StoreInv, NEW i \in Lots, ReversePurchase(i) \/ RefundPurchase(i)
  PROVE  LotsMove
<1>1. /\ \A u \in 1..Len(lots[i].ends) : lots[i].ends[u] = "none"
      /\ lots[i] \in LotType /\ lots[i].ends \in Seq(Ends) /\ Len(lots[i].ends) \in Nat
  BY LotFacts DEF ReversePurchase, RefundPurchase, lock_and_resolve_purchase_eligibility
<1>2. CASE ReversePurchase(i)
  <2> DEFINE ends == [u \in 1..Len(lots[i].ends) |-> "REVOKED"]
             lot == [lots[i] EXCEPT !.ends = ends, !.money = "reversed"]
  <2>1. ends \in Seq(Ends) /\ Len(ends) = Len(lots[i].ends)
        /\ \A u \in 1..Len(lots[i].ends) : ends[u] = "REVOKED"
    BY <1>1 DEF Ends
  <2>2. lots' = [lots EXCEPT ![i] = lot]
    BY <1>1, <1>2 DEF ReversePurchase, EndAll, LotType
  <2> HIDE DEF ends
  <2>3. /\ lot \in LotType /\ lot.ends = ends /\ lot.money = "reversed"
        /\ lot.seat = lots[i].seat /\ lot.product = lots[i].product
    BY <1>1, <2>1 DEF LotType, Ends
  <2> HIDE DEF lot
  <2>4. LotMoves(lots[i], lot)
    BY <1>1, <2>1, <2>3 DEF LotMoves
  <2> QED
    BY <2>1, <2>2, <2>3, <2>4, RewrittenMoves
<1>3. CASE RefundPurchase(i)
  <2> DEFINE lot == [lots[i] EXCEPT !.money = "refunded"]
  <2>1. lots' = [lots EXCEPT ![i] = lot]
    BY <1>1, <1>3 DEF RefundPurchase, LotType
  <2>2. /\ lot \in LotType /\ lot.ends = lots[i].ends /\ lot.money = "refunded"
        /\ lot.seat = lots[i].seat /\ lot.product = lots[i].product
    BY <1>1 DEF LotType
  <2> HIDE DEF lot
  <2>3. LotMoves(lots[i], lot)
    BY <2>2 DEF LotMoves
  <2> QED
    BY <2>1, <2>2, <2>3, RewrittenMoves
<1> QED
  BY <1>2, <1>3

\* The sweep: covered lots are open, and end whole.
LEMMA ExpireMoves ==
  ASSUME StoreInv, expire_lapsed_collective_goal
  PROVE  LotsMove /\ Len(lots') = Len(lots)
<1>1. /\ lots' = [i \in Lots |->
           IF i \in Covered
           THEN [lots[i] EXCEPT !.money = "expired",
                                !.ends = [u \in 1..Len(@) |-> "EXPIRED"]]
           ELSE lots[i]]
      /\ \A i \in Covered : Open(i)
  BY DEF expire_lapsed_collective_goal
<1>2. lots \in Seq(LotType) /\ Len(lots) \in Nat
  BY DEF StoreInv, TypeOK
<1>3. Len(lots') = Len(lots)
  <2>1. DOMAIN lots' = 1..Len(lots)
    BY <1>1 DEF Lots
  <2>2. lots' \in Seq(LotType)
    BY ExpireStep DEF StoreInv, TypeOK
  <2> QED
    BY <1>2, <2>1, <2>2
<1>4. ASSUME NEW i \in Lots PROVE LotMoves(lots[i], lots'[i]) /\ ExpiresBySweep(i)
  <2>1. lots[i] \in LotType /\ lots[i].ends \in Seq(Ends) /\ Len(lots[i].ends) \in Nat
    BY LotFacts
  <2>2. CASE i \notin Covered
    <3>1. lots'[i] = lots[i]
      BY <1>1, <2>2
    <3> QED
      BY <3>1 DEF LotMoves, ExpiresBySweep
  <2>3. CASE i \in Covered
    <3>1. lots'[i] = [lots[i] EXCEPT !.money = "expired",
                                     !.ends = [u \in 1..Len(@) |-> "EXPIRED"]]
      BY <1>1, <2>3
    <3> DEFINE ends == [u \in 1..Len(lots[i].ends) |-> "EXPIRED"]
    <3>2. Len(ends) = Len(lots[i].ends) /\ \A u \in 1..Len(lots[i].ends) : ends[u] = "EXPIRED"
      BY <2>1
    <3>3. /\ lots'[i].seat = lots[i].seat /\ lots'[i].product = lots[i].product
          /\ lots'[i].ends = ends /\ lots'[i].money = "expired"
      BY <2>1, <3>1 DEF LotType
    <3> HIDE DEF ends
    <3>4. Len(lots[i].ends) = 1 => lots[i].ends[1] = "none"
      <4>1. PICK u \in 1..Len(lots[i].ends) : lots[i].ends[u] = "none"
        BY <1>1, <2>3 DEF Open
      <4> QED
        BY <4>1
    <3> QED
      BY <2>3, <3>2, <3>3, <3>4 DEF LotMoves, ExpiresBySweep
  <2> QED
    BY <2>2, <2>3
<1> QED
  BY <1>2, <1>3, <1>4 DEF LotsMove

\* A purchase adds the lot it was locked for, and a grant the lot it checked.
AddsLot(s, p, n) ==
  /\ SeatFree(s)' /\ \A t \in Seats \ {s} : buying'[t] = buying[t]
  /\ \E lot \in LotType : /\ lots' = Append(lots, lot) /\ lot.seat = s /\ lot.product = p
                          /\ Len(lot.ends) = n
                          /\ lot.money = "granted" => Type[p] = "HALL_PASS"
  /\ UNCHANGED <<lapsed, sweep, won>>

LEMMA CommitAdds ==
  ASSUME StoreInv, StoreConstants, NEW s \in Seats, PurchaseCommit(s)
  PROVE  /\ buying[s].product \in Products /\ buying[s].quantity \in 1..MaxQuantity
         /\ AddsLot(s, buying[s].product, buying[s].quantity)
<1> DEFINE event == IF Type[buying[s].product] = "IMMEDIATE_USE" THEN "CONSUMED" ELSE "none"
           lot == [seat |-> s, product |-> buying[s].product, money |-> "charged",
                   ends |-> Units(buying[s].quantity, event)]
<1>1. /\ lots' = Append(lots, lot) /\ buying' = [buying EXCEPT ![s] = NoPurchase]
      /\ UNCHANGED <<lapsed, sweep, won>>
  BY DEF PurchaseCommit
<1>2. buying[s].product \in Products /\ buying[s].quantity \in 1..MaxQuantity
  BY DEF PurchaseCommit, SeatFree, StoreInv, PurchasesTyped
<1>3. buying[s].quantity \in Nat /\ event \in {"none", "CONSUMED"}
  BY <1>2 DEF StoreConstants
<1>4. lot \in LotType /\ Len(lot.ends) = buying[s].quantity
  BY <1>2, <1>3, NewLotFollows
<1>5. lot.seat = s /\ lot.product = buying[s].product /\ lot.money = "charged"
  OBVIOUS
<1>6. SeatFree(s)' /\ \A t \in Seats \ {s} : buying'[t] = buying[t]
  BY <1>1 DEF SeatFree, StoreInv, PurchasesTyped
<1> HIDE DEF lot
<1> QED
  BY <1>1, <1>2, <1>4, <1>5, <1>6 DEF AddsLot

LEMMA GrantAdds ==
  ASSUME StoreInv, StoreConstants, NEW s \in Seats, NEW p \in Products,
         NEW n \in 1..MaxQuantity, _execute_direct_grant_impl(s, p, n)
  PROVE  AddsLot(s, p, n) /\ ensure_within_holding_limit(s, p, n) /\ Type[p] = "HALL_PASS"
<1> DEFINE lot == [seat |-> s, product |-> p, money |-> "granted", ends |-> Units(n, "none")]
<1>1. /\ lots' = Append(lots, lot) /\ SeatFree(s) /\ UNCHANGED <<buying, lapsed, sweep, won>>
      /\ ensure_within_holding_limit(s, p, n) /\ Type[p] = "HALL_PASS"
  BY DEF _execute_direct_grant_impl, DirectGrant
<1>2. n \in Nat
  BY DEF StoreConstants
<1>3. lot \in LotType /\ Len(lot.ends) = n
  BY <1>2, NewLotFollows
<1>4. lot.seat = s /\ lot.product = p
  OBVIOUS
<1> HIDE DEF lot
<1> QED
  BY <1>1, <1>3, <1>4 DEF AddsLot, SeatFree

LEMMA AddsMoves ==
  ASSUME StoreInv, NEW s, NEW p, NEW n, AddsLot(s, p, n)
  PROVE  LotsMove
  BY AddedMoves DEF AddsLot

-----------------------------------------------------------------------------
(***************************************************************************)
(* The holding limit: a purchase in progress has room for what it buys.    *)
(***************************************************************************)

HeldUnits(s, p) ==
  { e \in Lots \X (1..MaxQuantity) :
      /\ lots[e[1]].seat = s /\ lots[e[1]].product = p
      /\ e[2] <= Len(lots[e[1]].ends) /\ Unit(e) = "none" }

HoldInv ==
  /\ HoldingLimitRespected
  /\ \A s \in Seats :
       SeatFree(s) \/ ensure_within_holding_limit(s, buying[s].product, buying[s].quantity)

LEMMA HeldFacts ==
  ASSUME StoreInv, StoreConstants
  PROVE  \A s, p : /\ IsFiniteSet(HeldUnits(s, p)) /\ Held(s, p) = Cardinality(HeldUnits(s, p))
                   /\ Held(s, p) \in Nat
<1> SUFFICES ASSUME NEW s, NEW p
             PROVE  /\ IsFiniteSet(HeldUnits(s, p))
                    /\ Held(s, p) = Cardinality(HeldUnits(s, p)) /\ Held(s, p) \in Nat
  OBVIOUS
<1>1. IsFiniteSet(Lots) /\ IsFiniteSet(1..MaxQuantity)
  <2>1. Len(lots) \in Nat /\ MaxQuantity \in Nat
    BY DEF StoreConstants, StoreInv, TypeOK
  <2> QED
    BY <2>1, FS_Interval DEF Lots
<1>2. IsFiniteSet(Lots \X (1..MaxQuantity))
  BY <1>1, FS_Product
<1>3. HeldUnits(s, p) \in SUBSET (Lots \X (1..MaxQuantity))
  BY DEF HeldUnits
<1>4. IsFiniteSet(HeldUnits(s, p))
  BY <1>2, <1>3, FS_Subset
<1> QED
  BY <1>4, FS_CardinalityType DEF Held, HeldUnits

\* What a lot that was there holds afterwards, it held before.
LEMMA HeldBefore ==
  ASSUME StoreInv, LotsMove
  PROVE  \A s, p : \A e \in HeldUnits(s, p)' : e[1] \in Lots => e \in HeldUnits(s, p)
<1> SUFFICES ASSUME NEW s, NEW p, NEW e \in HeldUnits(s, p)', e[1] \in Lots
             PROVE  e \in HeldUnits(s, p)
  OBVIOUS
<1>1. /\ lots'[e[1]].seat = s /\ lots'[e[1]].product = p
      /\ e[2] \in 1..MaxQuantity /\ e = <<e[1], e[2]>>
      /\ e[2] <= Len(lots'[e[1]].ends) /\ lots'[e[1]].ends[e[2]] = "none"
  BY DEF HeldUnits, Unit
<1>2. LotMoves(lots[e[1]], lots'[e[1]]) /\ Len(lots[e[1]].ends) \in Nat
  BY LotFacts DEF LotsMove
<1>3. e[2] \in 1..Len(lots[e[1]].ends)
  BY <1>1, <1>2 DEF LotMoves
<1> QED
  BY <1>1, <1>2, <1>3 DEF LotMoves, HeldUnits, Unit

\* A step that writes no new lot and lets no purchase in without room.
LEMMA HoldQuiet ==
  ASSUME StoreInv, StoreInv', StoreConstants, HoldInv, LotsMove, Len(lots') = Len(lots),
         \A s \in Seats :
           \/ buying'[s] = buying[s] \/ SeatFree(s)'
           \/ ensure_within_holding_limit(s, buying'[s].product, buying'[s].quantity)
  PROVE  HoldInv'
<1>1. ASSUME NEW s, NEW p PROVE Held(s, p)' \in Nat /\ Held(s, p)' =< Held(s, p)
  <2>1. Lots' = Lots
    BY DEF Lots
  <2>2. HeldUnits(s, p)' \in SUBSET HeldUnits(s, p)
    <3>1. \A e \in HeldUnits(s, p)' : e[1] \in Lots
      BY <2>1 DEF HeldUnits
    <3> QED
      BY <3>1, HeldBefore
  <2>3. IsFiniteSet(HeldUnits(s, p)) /\ Held(s, p) = Cardinality(HeldUnits(s, p))
    BY HeldFacts
  <2>4. Held(s, p)' = Cardinality(HeldUnits(s, p)')
    BY DEF Held, HeldUnits
  <2>5. /\ IsFiniteSet(HeldUnits(s, p)')
        /\ Cardinality(HeldUnits(s, p)') =< Cardinality(HeldUnits(s, p))
    BY <2>2, <2>3, FS_Subset
  <2> QED
    BY <2>3, <2>4, <2>5, FS_CardinalityType
<1>2. \A s \in Seats, p \in Products : Held(s, p) \in Nat /\ Limit(p) \in Nat
  BY HeldFacts DEF Limit, StoreConstants
<1>3. HoldingLimitRespected'
  <2> SUFFICES ASSUME NEW s \in Seats, NEW p \in Products PROVE Held(s, p)' =< Limit(p)
    BY DEF HoldingLimitRespected, Limit
  <2> QED
    BY <1>1, <1>2 DEF HoldInv, HoldingLimitRespected
<1>4. ASSUME NEW s \in Seats, NEW p, NEW n, ~SeatFree(s)',
             p = buying'[s].product, n = buying'[s].quantity
      PROVE  ensure_within_holding_limit(s, p, n)'
  <2>1. p \in Products /\ n \in 1..MaxQuantity /\ MaxQuantity \in Nat
    BY <1>4 DEF StoreInv, PurchasesTyped, SeatFree, StoreConstants
  <2>2. Held(s, p) + n =< Limit(p)
    <3>1. CASE buying'[s] = buying[s]
      BY <1>4, <3>1 DEF HoldInv, SeatFree, ensure_within_holding_limit
    <3>2. CASE ensure_within_holding_limit(s, buying'[s].product, buying'[s].quantity)
      BY <1>4, <3>2 DEF ensure_within_holding_limit
    <3> QED
      BY <1>4, <3>1, <3>2
  <2>3. Held(s, p)' \in Nat /\ Held(s, p)' =< Held(s, p)
    BY <1>1
  <2>4. Held(s, p) \in Nat /\ Limit(p) \in Nat /\ n \in Nat
    BY <1>2, <2>1
  <2>5. Held(s, p)' + n =< Limit(p)
    BY <2>2, <2>3, <2>4
  <2> QED
    BY <2>5 DEF ensure_within_holding_limit, Limit
<1> QED
  BY <1>3, <1>4 DEF HoldInv, ensure_within_holding_limit

\* A step that adds a lot it had room for, and leaves the seat's lock.
LEMMA HoldAdd ==
  ASSUME StoreInv, StoreInv', StoreConstants, HoldInv, NEW s \in Seats, NEW p \in Products,
         NEW n \in 1..MaxQuantity, AddsLot(s, p, n), ensure_within_holding_limit(s, p, n)
  PROVE  HoldInv'
<1>1. PICK lot \in LotType : /\ lots' = Append(lots, lot) /\ lot.seat = s /\ lot.product = p
                             /\ Len(lot.ends) = n
  BY DEF AddsLot
<1>2. /\ lots \in Seq(LotType) /\ Len(lots) \in Nat /\ n \in Nat /\ 1 =< n
      /\ MaxQuantity \in Nat
  BY DEF StoreInv, TypeOK, StoreConstants
<1>3. /\ Len(lots') = Len(lots) + 1 /\ lots'[NewLot] = lot
      /\ \A i \in Lots : lots'[i] = lots[i]
  BY <1>1, <1>2, AddedLot DEF NewLot
<1>4. \A i \in Lots' : i \in Lots \/ i = NewLot
  BY <1>2, <1>3 DEF Lots, NewLot
<1>5. LotsMove
  BY AddsMoves
<1>6. ASSUME NEW t, NEW q, ~(t = s /\ q = p)
      PROVE  Held(t, q)' \in Nat /\ Held(t, q)' =< Held(t, q)
  <2>1. HeldUnits(t, q)' \in SUBSET HeldUnits(t, q)
    <3>1. \A e \in HeldUnits(t, q)' : e[1] \in Lots
      BY <1>1, <1>3, <1>4, <1>6 DEF HeldUnits
    <3> QED
      BY <1>5, <3>1, HeldBefore
  <2>2. IsFiniteSet(HeldUnits(t, q)) /\ Held(t, q) = Cardinality(HeldUnits(t, q))
    BY HeldFacts
  <2>3. Held(t, q)' = Cardinality(HeldUnits(t, q)')
    BY DEF Held, HeldUnits
  <2>4. /\ IsFiniteSet(HeldUnits(t, q)')
        /\ Cardinality(HeldUnits(t, q)') =< Cardinality(HeldUnits(t, q))
    BY <2>1, <2>2, FS_Subset
  <2> QED
    BY <2>2, <2>3, <2>4, FS_CardinalityType
<1>7. Held(s, p)' \in Nat /\ Held(s, p)' =< Held(s, p) + n
  <2> DEFINE old == HeldUnits(s, p)
             added == {NewLot} \X (1..n)
  <2>1. HeldUnits(s, p)' \in SUBSET (old \cup added)
    <3> SUFFICES ASSUME NEW e \in HeldUnits(s, p)' PROVE e \in old \/ e \in added
      OBVIOUS
    <3>1. /\ e = <<e[1], e[2]>> /\ e[1] \in Lots' /\ e[2] \in 1..MaxQuantity
          /\ e[2] <= Len(lots'[e[1]].ends)
      BY DEF HeldUnits
    <3>2. CASE e[1] \in Lots
      BY <1>5, <3>2, HeldBefore
    <3>3. CASE e[1] = NewLot
      <4>1. e[2] \in 1..n
        <5>1. Len(lots'[e[1]].ends) = n
          BY <1>1, <1>3, <3>3
        <5> QED
          BY <1>2, <3>1, <5>1
      <4> QED
        BY <3>1, <3>3, <4>1
    <3> QED
      BY <1>4, <3>1, <3>2, <3>3
  <2>2. IsFiniteSet(old) /\ Held(s, p) = Cardinality(old) /\ Cardinality(old) \in Nat
    BY HeldFacts, FS_CardinalityType
  <2>3. IsFiniteSet(added) /\ Cardinality(added) = n
    <3>1. IsFiniteSet(1..n) /\ Cardinality(1..n) = n
      BY <1>2, FS_Interval
    <3>2. IsFiniteSet({NewLot}) /\ Cardinality({NewLot}) = 1
      BY FS_Singleton
    <3>3. /\ IsFiniteSet(added)
          /\ Cardinality(added) = Cardinality({NewLot}) * Cardinality(1..n)
      BY <3>1, <3>2, FS_Product, Zenon
    <3> QED
      BY <1>2, <3>1, <3>2, <3>3
  <2> HIDE DEF old, added
  <2>4. /\ IsFiniteSet(old \cup added)
        /\ Cardinality(old \cup added) =
             Cardinality(old) + Cardinality(added) - Cardinality(old \cap added)
    BY <2>2, <2>3, FS_Union
  <2>5. IsFiniteSet(old \cap added) /\ Cardinality(old \cap added) \in Nat
    <3>1. old \cap added \in SUBSET old
      OBVIOUS
    <3>2. IsFiniteSet(old \cap added)
      BY <2>2, <3>1, FS_Subset
    <3> QED
      BY <3>2, FS_CardinalityType
  <2>6. /\ IsFiniteSet(HeldUnits(s, p)')
        /\ Cardinality(HeldUnits(s, p)') =< Cardinality(old \cup added)
    BY <2>1, <2>4, FS_Subset
  <2>7. Cardinality(HeldUnits(s, p)') \in Nat
    BY <2>6, FS_CardinalityType
  <2>8. Held(s, p)' = Cardinality(HeldUnits(s, p)')
    BY DEF Held, HeldUnits
  <2>9. Cardinality(HeldUnits(s, p)') =< Cardinality(old) + n
    BY <1>2, <2>2, <2>3, <2>4, <2>5, <2>6, <2>7
  <2> QED
    BY <2>2, <2>7, <2>8, <2>9
<1>8. \A q \in Products : Limit(q) \in Nat
  BY DEF Limit, StoreConstants
<1>9. \A t, q : Held(t, q) \in Nat
  BY HeldFacts
<1>10. HoldingLimitRespected'
  <2> SUFFICES ASSUME NEW t \in Seats, NEW q \in Products PROVE Held(t, q)' =< Limit(q)
    BY DEF HoldingLimitRespected, Limit
  <2>1. CASE t = s /\ q = p
    BY <1>2, <1>7, <1>8, <1>9, <2>1 DEF ensure_within_holding_limit
  <2>2. CASE ~(t = s /\ q = p)
    <3>1. Held(t, q)' \in Nat /\ Held(t, q)' =< Held(t, q) /\ Held(t, q) =< Limit(q)
      BY <1>6, <2>2 DEF HoldInv, HoldingLimitRespected
    <3> QED
      BY <1>8, <1>9, <3>1
  <2> QED
    BY <2>1, <2>2
<1>11. ASSUME NEW t \in Seats, NEW q, NEW m, ~SeatFree(t)',
              q = buying'[t].product, m = buying'[t].quantity
       PROVE  ensure_within_holding_limit(t, q, m)'
  <2>1. t # s /\ buying'[t] = buying[t]
    BY <1>11 DEF AddsLot
  <2>2. Held(t, q) + m =< Limit(q)
    BY <1>11, <2>1 DEF HoldInv, SeatFree, ensure_within_holding_limit
  <2>3. Held(t, q)' \in Nat /\ Held(t, q)' =< Held(t, q)
    BY <1>6, <2>1
  <2>4. q \in Products /\ m \in 1..MaxQuantity /\ MaxQuantity \in Nat
    BY <1>11 DEF StoreInv, PurchasesTyped, SeatFree, StoreConstants
  <2>5. Held(t, q)' + m =< Limit(q)
    BY <1>8, <1>9, <2>2, <2>3, <2>4
  <2> QED
    BY <2>5 DEF ensure_within_holding_limit, Limit
<1> QED
  BY <1>10, <1>11 DEF HoldInv, ensure_within_holding_limit

-----------------------------------------------------------------------------
(***************************************************************************)
(* A goal that was met when its deadline passed stands: its buy-ins can    *)
(* only be withdrawn, so the sweep never finds it short.                   *)
(***************************************************************************)

\* The goal's buy-ins sufficed at the deadline and none has been withdrawn since.
Kept(p) ==
  /\ Target[p] > 0 /\ Cardinality({ lots[i].seat : i \in won[p] }) >= Target[p]
  /\ \A i \in won[p] : lots[i].ends[1] # "REVOKED"

\* A share of a goal is one unit, and is bought.
OneShareEach ==
  /\ \A i \in Lots : lots[i].product \in Goals =>
       Len(lots[i].ends) = 1 /\ lots[i].money # "granted"
  /\ \A s \in Seats : SeatFree(s) \/ (buying[s].product \in Goals => buying[s].quantity = 1)

\* The sweep is at a lapsed goal that was not met, or lost a buy-in since.
SweepSound ==
  sweep.phase # "idle" =>
    /\ sweep.product \in lapsed /\ ~Kept(sweep.product)
    /\ sweep.phase = "loaded" => \A i \in sweep.loaded : lots[i].product = sweep.product

WonStands ==
  \A p \in Goals :
    /\ p \in lapsed \/ won[p] = {}
    /\ \A i \in won[p] :
         /\ lots[i].product = p
         /\ Kept(p) => lots[i].money # "expired"

WonInv == OneShareEach /\ SweepSound /\ WonStands

LEMMA WonInit == Init => WonInv
  BY DEF Init, Idle, WonInv, OneShareEach, SweepSound, WonStands, Lots, SeatFree, Goals

\* The one unit of a goal's lot.
LEMMA ShareFacts ==
  ASSUME StoreInv, OneShareEach, NEW i \in Lots, lots[i].product \in Goals
  PROVE  /\ Len(lots[i].ends) = 1 /\ lots[i].ends \in Seq(Ends)
         /\ lots[i].money = "expired" <=> lots[i].ends[1] = "EXPIRED"
<1>1. Len(lots[i].ends) = 1 /\ lots[i].ends \in Seq(Ends)
  BY LotFacts DEF OneShareEach
<1>2. LotFollows(lots[i])
  BY FollowsByLot DEF StoreInv
<1> QED
  BY <1>1, <1>2 DEF LotFollows

\* A goal that is kept is met: its buy-ins still stand.
LEMMA KeptIsMet ==
  ASSUME StoreInv, StoreConstants, WonInv, NEW p \in Goals, Kept(p)
  PROVE  is_goal_met(p)
<1>1. p \in Products /\ won[p] \subseteq Lots
  BY DEF Goals, StoreInv, WonTyped
<1>2. won[p] \subseteq Standing(p)
  <2> SUFFICES ASSUME NEW i \in won[p] PROVE i \in Standing(p)
    OBVIOUS
  <2>1. /\ i \in Lots /\ lots[i].product = p /\ lots[i].money # "expired"
        /\ lots[i].ends[1] # "REVOKED" /\ lots[i].money # "granted"
    BY <1>1 DEF WonInv, WonStands, Kept, OneShareEach
  <2>2. 1 \in 1..Len(lots[i].ends) /\ lots[i].ends[1] \notin {"EXPIRED", "REVOKED"}
    BY <2>1, ShareFacts DEF WonInv
  <2> QED
    BY <2>1, <2>2 DEF Standing
<1> DEFINE winners == { lots[i].seat : i \in won[p] }
           buyers == { lots[i].seat : i \in Standing(p) }
<1>3. IsFiniteSet(buyers)
  <2>1. IsFiniteSet(Lots)
    <3>1. Len(lots) \in Nat
      BY DEF StoreInv, TypeOK
    <3> QED
      BY <3>1, FS_Interval DEF Lots
  <2>2. Standing(p) \in SUBSET Lots
    BY DEF Standing
  <2>3. IsFiniteSet(Standing(p))
    BY <2>1, <2>2, FS_Subset
  <2>4. [i \in Standing(p) |-> lots[i].seat] \in Surjection(Standing(p), buyers)
    BY DEF Surjection
  <2> QED
    BY <2>3, <2>4, FS_Surjection
<1>4. winners \in SUBSET buyers
  BY <1>2
<1> HIDE DEF winners, buyers
<1>5. /\ IsFiniteSet(winners) /\ Cardinality(winners) =< Cardinality(buyers)
      /\ Cardinality(winners) \in Nat /\ Cardinality(buyers) \in Nat
  BY <1>3, <1>4, FS_Subset, FS_CardinalityType
<1>6. Target[p] \in Nat /\ Target[p] > 0 /\ Cardinality(winners) >= Target[p]
  BY <1>1 DEF StoreConstants, Kept, winners
<1>7. Cardinality(buyers) >= Target[p]
  BY <1>5, <1>6
<1> QED
  BY <1>6, <1>7 DEF is_goal_met, count_goal_participants, buyers

\* Withdrawals of a goal's buy-ins are for good, so what is kept was kept before.
LEMMA KeptBefore ==
  ASSUME StoreInv, WonInv, LotsMove, NEW p \in Goals, won'[p] = won[p], Kept(p)'
  PROVE  Kept(p)
<1>1. \A i \in won[p] : i \in Lots /\ lots[i].product = p
  BY DEF Goals, StoreInv, WonTyped, WonInv, WonStands
<1>2. \A i \in won[p] : lots'[i].seat = lots[i].seat
  BY <1>1 DEF LotsMove, LotMoves
<1>3. { lots'[i].seat : i \in won[p] } = { lots[i].seat : i \in won[p] }
  BY <1>2
<1>4. ASSUME NEW i \in won[p], lots[i].ends[1] = "REVOKED" PROVE FALSE
  <2>1. Len(lots[i].ends) = 1 /\ LotMoves(lots[i], lots'[i])
    BY <1>1, ShareFacts DEF LotsMove, WonInv
  <2>2. lots'[i].ends[1] = "REVOKED"
    BY <1>4, <2>1 DEF LotMoves
  <2>3. lots'[i].ends[1] # "REVOKED"
    BY DEF Kept
  <2> QED
    BY <2>2, <2>3
<1> QED
  BY <1>3, <1>4 DEF Kept

\* What stands through a step that ends no deadline: the sweep, if it starts, is at
\* a goal that is not met, and if it loads, loads lots of that goal.
LEMMA WonQuiet ==
  ASSUME StoreInv, StoreInv', StoreConstants, WonInv, LotsMove, UNCHANGED <<lapsed, won>>,
         OneShareEach',
         sweep'.phase # "idle" =>
           \/ sweep' = sweep
           \/ /\ sweep'.product \in lapsed /\ ~Kept(sweep'.product)
              /\ sweep'.phase = "loaded" =>
                   \A i \in sweep'.loaded : i \in Lots /\ lots[i].product = sweep'.product
  PROVE  WonInv'
<1>1. ASSUME NEW p \in Goals, Kept(p)' PROVE Kept(p)
  BY <1>1, KeptBefore
<1>2. lapsed \subseteq Goals
  BY DEF StoreInv, TypeOK
<1>3. SweepSound'
  <2> SUFFICES ASSUME NEW p, p = sweep'.product, sweep'.phase # "idle"
               PROVE  /\ p \in lapsed /\ ~Kept(p)'
                      /\ sweep'.phase = "loaded" => \A i \in sweep'.loaded : lots'[i].product = p
    BY DEF SweepSound, Kept
  <2>1. /\ p \in lapsed /\ ~Kept(p)
        /\ sweep'.phase = "loaded" => \A i \in sweep'.loaded : i \in Lots /\ lots[i].product = p
    BY DEF WonInv, SweepSound, StoreInv, SweepKnown
  <2> QED
    BY <1>1, <1>2, <2>1 DEF LotsMove, LotMoves
<1>4. WonStands'
  <2> SUFFICES ASSUME NEW p \in Goals
               PROVE  /\ p \in lapsed \/ won[p] = {}
                      /\ \A i \in won[p] : /\ lots'[i].product = p
                                           /\ Kept(p)' => lots'[i].money # "expired"
    BY DEF WonStands, Goals, Kept
  <2>1. p \in lapsed \/ won[p] = {}
    BY DEF WonInv, WonStands
  <2>2. ASSUME NEW i \in won[p]
        PROVE  lots'[i].product = p /\ (Kept(p)' => lots'[i].money # "expired")
    <3>1. i \in Lots /\ lots[i].product = p /\ (Kept(p) => lots[i].money # "expired")
      BY <2>2 DEF Goals, StoreInv, WonTyped, WonInv, WonStands
    <3>2. LotMoves(lots[i], lots'[i]) /\ ExpiresBySweep(i)
      BY <3>1 DEF LotsMove
    <3>3. ASSUME Kept(p), lots'[i].money = "expired", lots[i].money # "expired" PROVE FALSE
      <4>1. sweep.phase = "loaded" /\ i \in sweep.loaded
        BY <3>2, <3>3 DEF ExpiresBySweep, expire_lapsed_collective_goal, Covered
      <4>2. sweep.product = p /\ ~Kept(sweep.product)
        BY <3>1, <4>1 DEF WonInv, SweepSound
      <4> QED
        BY <3>3, <4>2
    <3> QED
      BY <1>1, <3>1, <3>2, <3>3 DEF LotMoves
  <2> QED
    BY <2>1, <2>2
<1> QED
  BY <1>3, <1>4 DEF WonInv

\* A step that leaves lots no shorter than they were keeps one share each.
LEMMA SharesStay ==
  ASSUME StoreInv, OneShareEach, LotsMove, Len(lots') = Len(lots),
         \A s \in Seats :
           \/ buying'[s] = buying[s] \/ SeatFree(s)'
           \/ buying'[s].product \in Goals => buying'[s].quantity = 1
  PROVE  OneShareEach'
<1>1. Lots' = Lots
  BY DEF Lots
<1>2. ASSUME NEW i \in Lots, lots'[i].product \in Goals
      PROVE  Len(lots'[i].ends) = 1 /\ lots'[i].money # "granted"
  BY <1>2 DEF LotsMove, LotMoves, OneShareEach
<1>3. ASSUME NEW s \in Seats, ~SeatFree(s)', buying'[s].product \in Goals
      PROVE  buying'[s].quantity = 1
  BY <1>3 DEF OneShareEach, SeatFree
<1> QED
  BY <1>1, <1>2, <1>3 DEF OneShareEach, Goals

\* A new lot.
LEMMA WonAdd ==
  ASSUME StoreInv, StoreInv', StoreConstants, WonInv, NEW s \in Seats, NEW p \in Products,
         NEW n \in 1..MaxQuantity, AddsLot(s, p, n), p \in Goals => n = 1
  PROVE  WonInv'
<1>1. PICK lot \in LotType : /\ lots' = Append(lots, lot) /\ lot.product = p
                             /\ Len(lot.ends) = n
                             /\ lot.money = "granted" => Type[p] = "HALL_PASS"
  BY DEF AddsLot
<1>2. lots \in Seq(LotType) /\ Len(lots) \in Nat
  BY DEF StoreInv, TypeOK
<1>3. /\ Len(lots') = Len(lots) + 1 /\ lots'[NewLot] = lot
      /\ \A i \in Lots : lots'[i] = lots[i]
  BY <1>1, <1>2, AddedLot DEF NewLot
<1>4. \A i \in Lots' : i \in Lots \/ i = NewLot
  BY <1>2, <1>3 DEF Lots, NewLot
<1>5. OneShareEach'
  <2>1. ASSUME NEW i \in Lots', lots'[i].product \in Goals
        PROVE  Len(lots'[i].ends) = 1 /\ lots'[i].money # "granted"
    <3>1. CASE i \in Lots
      BY <1>3, <2>1, <3>1 DEF WonInv, OneShareEach
    <3>2. CASE i = NewLot
      BY <1>1, <1>3, <2>1, <3>2 DEF Goals
    <3> QED
      BY <1>4, <3>1, <3>2
  <2>2. ASSUME NEW t \in Seats, ~SeatFree(t)', buying'[t].product \in Goals
        PROVE  buying'[t].quantity = 1
    BY <2>2 DEF AddsLot, WonInv, OneShareEach, SeatFree
  <2> QED
    BY <2>1, <2>2 DEF OneShareEach, Goals
<1>6. UNCHANGED <<lapsed, sweep, won>>
  BY DEF AddsLot
<1> QED
  BY <1>5, <1>6, AddsMoves, WonQuiet

\* The deadline of a goal passes: what stands is what is won.
LEMMA LapseStep ==
  ASSUME StoreInv, StoreInv', StoreConstants, WonInv, NEW p \in Products, Lapse(p)
  PROVE  WonInv'
<1>1. /\ p \in Goals /\ p \notin lapsed /\ lapsed' = lapsed \cup {p}
      /\ won' = [won EXCEPT ![p] = Standing(p)]
      /\ UNCHANGED <<lots, buying, sweep>>
  BY DEF Lapse
<1>2. won'[p] = Standing(p) /\ \A q \in Products : q # p => won'[q] = won[q]
  BY <1>1 DEF StoreInv, WonTyped
<1>3. OneShareEach'
  BY <1>1 DEF WonInv, OneShareEach, Lots, SeatFree
<1>4. SweepSound'
  <2>1. lapsed \subseteq Products
    BY DEF StoreInv, TypeOK, Goals
  <2>2. ASSUME NEW q \in lapsed PROVE Kept(q)' <=> Kept(q)
    <3>1. won'[q] = won[q]
      BY <1>1, <1>2, <2>1
    <3> QED
      BY <1>1, <3>1 DEF Kept
  <2> SUFFICES ASSUME NEW q, q = sweep.product, sweep.phase # "idle"
               PROVE  /\ q \in lapsed' /\ ~Kept(q)'
                      /\ sweep.phase = "loaded" => \A i \in sweep.loaded : lots'[i].product = q
    BY <1>1 DEF SweepSound, Kept
  <2>3. /\ q \in lapsed /\ ~Kept(q)
        /\ sweep.phase = "loaded" => \A i \in sweep.loaded : lots[i].product = q
    BY DEF WonInv, SweepSound
  <2> QED
    BY <1>1, <2>2, <2>3
<1>5. ASSUME NEW q \in Goals, q # p
      PROVE  /\ q \in lapsed' \/ won'[q] = {}
             /\ \A i \in won'[q] : /\ lots'[i].product = q
                                   /\ Kept(q)' => lots'[i].money # "expired"
  <2>1. q \in Products
    BY DEF Goals
  <2>2. won'[q] = won[q] /\ (Kept(q)' <=> Kept(q))
    BY <1>1, <1>2, <1>5, <2>1 DEF Kept
  <2> QED
    BY <1>1, <2>2 DEF WonInv, WonStands
<1>6. ASSUME NEW i \in Standing(p) PROVE lots[i].product = p /\ lots[i].money # "expired"
  <2>1. i \in Lots /\ lots[i].product = p
    BY DEF Standing
  <2>2. PICK u \in 1..Len(lots[i].ends) : lots[i].ends[u] \notin {"EXPIRED", "REVOKED"}
    BY DEF Standing
  <2> QED
    BY <2>1, <2>2 DEF StoreInv, MoneyFollowsItem
<1>7. WonStands'
  <2> SUFFICES ASSUME NEW q \in Goals
               PROVE  /\ q \in lapsed' \/ won'[q] = {}
                      /\ \A i \in won'[q] : /\ lots'[i].product = q
                                            /\ Kept(q)' => lots'[i].money # "expired"
    BY DEF WonStands, Goals, Kept
  <2>1. CASE q = p
    BY <1>1, <1>2, <1>6, <2>1
  <2>2. CASE q # p
    BY <1>5, <2>2
  <2> QED
    BY <2>1, <2>2
<1> QED
  BY <1>3, <1>4, <1>7 DEF WonInv

-----------------------------------------------------------------------------
(***************************************************************************)
(* Every step preserves both.                                              *)
(***************************************************************************)

\* A step that adds no lot, starts no purchase and ends no deadline.
LEMMA BothQuiet ==
  ASSUME StoreInv, StoreInv', StoreConstants, HoldInv, WonInv, LotsMove, Len(lots') = Len(lots),
         UNCHANGED <<buying, lapsed, won>>, sweep' = sweep \/ sweep' = Idle
  PROVE  HoldInv' /\ WonInv'
<1>1. HoldInv'
  BY HoldQuiet
<1>2. OneShareEach'
  BY SharesStay DEF WonInv
<1>3. sweep'.phase # "idle" => sweep' = sweep
  BY DEF Idle
<1> QED
  BY <1>1, <1>2, <1>3, WonQuiet

\* A purchase takes the seat's lock with room for what it buys.
LEMMA BeginBoth ==
  ASSUME StoreInv, StoreInv', StoreConstants, HoldInv, WonInv, NEW s \in Seats,
         NEW n \in 1..MaxQuantity, NEW p \in Products,
         PurchaseBegin(s, p, n) \/ PurchaseRefused(s)
  PROVE  HoldInv' /\ WonInv'
<1>1. UNCHANGED <<lots, lapsed, sweep, won>> /\ LotsMove
  BY LotsStay DEF PurchaseBegin, PurchaseRefused
<1>2. \A t \in Seats :
        \/ buying'[t] = buying[t] \/ SeatFree(t)'
        \/ /\ ensure_within_holding_limit(t, buying'[t].product, buying'[t].quantity)
           /\ buying'[t].product \in Goals => buying'[t].quantity = 1
  BY DEF PurchaseBegin, PurchaseRefused, QuantityAllowed, Goals, StoreInv, PurchasesTyped, SeatFree
<1>3. HoldInv'
  BY <1>1, <1>2, HoldQuiet
<1>4. OneShareEach'
  BY <1>1, <1>2, SharesStay DEF WonInv
<1> QED
  BY <1>1, <1>3, <1>4, WonQuiet

\* A purchase or a grant is written.
LEMMA AddBoth ==
  ASSUME StoreInv, StoreInv', StoreConstants, HoldInv, WonInv, NEW s \in Seats,
         \/ PurchaseCommit(s)
         \/ \E p \in Products, n \in 1..MaxQuantity : _execute_direct_grant_impl(s, p, n)
  PROVE  HoldInv' /\ WonInv'
<1>1. CASE PurchaseCommit(s)
  <2> DEFINE p == buying[s].product
             n == buying[s].quantity
  <2>1. p \in Products /\ n \in 1..MaxQuantity /\ AddsLot(s, p, n)
    BY <1>1, CommitAdds
  <2>2. ensure_within_holding_limit(s, p, n) /\ (p \in Goals => n = 1)
    BY <1>1 DEF PurchaseCommit, HoldInv, WonInv, OneShareEach
  <2> HIDE DEF p, n
  <2> QED
    BY <2>1, <2>2, HoldAdd, WonAdd
<1>2. ASSUME NEW p \in Products, NEW n \in 1..MaxQuantity, _execute_direct_grant_impl(s, p, n)
      PROVE  HoldInv' /\ WonInv'
  <2>1. AddsLot(s, p, n) /\ ensure_within_holding_limit(s, p, n) /\ p \notin Goals
    BY <1>2, GrantAdds DEF Goals
  <2> QED
    BY <2>1, HoldAdd, WonAdd
<1> QED
  BY <1>1, <1>2

\* The sweep starts at a lapsed goal it counts as not met, and loads its open lots.
LEMMA SweepBoth ==
  ASSUME StoreInv, StoreInv', StoreConstants, HoldInv, WonInv,
         Sweep \/ \E p \in Products : SweepCount(p)
  PROVE  HoldInv' /\ WonInv'
<1>1. CASE expire_lapsed_collective_goal
  <2>1. sweep' = Idle /\ UNCHANGED <<buying, lapsed, won>>
    BY <1>1 DEF expire_lapsed_collective_goal, OutsideTheSweep
  <2> QED
    BY <1>1, <2>1, ExpireMoves, BothQuiet
<1>2. CASE SweepRollback
  <2>1. sweep' = Idle /\ UNCHANGED <<lots, buying, lapsed, won>>
    BY <1>2 DEF SweepRollback, OutsideTheSweep
  <2> QED
    BY <2>1, LotsStay, BothQuiet
<1>3. CASE SweepLoad
  <2>1. /\ UNCHANGED <<lots, buying, lapsed, won>> /\ sweep.phase = "counted"
        /\ sweep'.product = sweep.product
        /\ sweep'.loaded = _load_open_goal_entitlements(sweep.product)
    BY <1>3 DEF SweepLoad, OutsideTheSweep
  <2>2. /\ sweep'.product \in lapsed /\ ~Kept(sweep'.product)
        /\ \A i \in sweep'.loaded : i \in Lots /\ lots[i].product = sweep'.product
    BY <2>1 DEF WonInv, SweepSound, _load_open_goal_entitlements
  <2>3. HoldInv' /\ OneShareEach' /\ LotsMove
    BY <2>1, LotsStay, HoldQuiet, SharesStay DEF WonInv
  <2> QED
    BY <2>1, <2>2, <2>3, WonQuiet
<1>4. ASSUME NEW p \in Products, SweepCount(p) PROVE HoldInv' /\ WonInv'
  <2>1. /\ UNCHANGED <<lots, buying, lapsed, won>> /\ p \in lapsed /\ ~is_goal_met(p)
        /\ sweep'.product = p /\ sweep'.phase = "counted"
    BY <1>4 DEF SweepCount, OutsideTheSweep
  <2>2. p \in Goals
    BY <2>1 DEF StoreInv, TypeOK
  <2>3. ~Kept(p)
    BY <2>1, <2>2, KeptIsMet
  <2>4. HoldInv' /\ OneShareEach' /\ LotsMove
    BY <2>1, LotsStay, HoldQuiet, SharesStay DEF WonInv
  <2> QED
    BY <2>1, <2>3, <2>4, WonQuiet
<1> QED
  BY <1>1, <1>2, <1>3, <1>4 DEF Sweep

\* A unit is used, requested or decided on; money goes back; a reminder is closed.
LEMMA ItemBoth ==
  ASSUME StoreInv, StoreInv', StoreConstants, HoldInv, WonInv,
         \/ \E e \in Entitlements : CheckUse(e) \/ _record_hall_pass_log_impl(e)
         \/ \E op \in inflight :
              CountAttempts(op) \/ execute_use_item_request(op) \/ Decide(op)
         \/ \E r \in requests, o \in Outcomes : _load_redemption_for_decision(r, o)
         \/ \E e \in reminders : execute_complete_immediate_use(e)
         \/ \E i \in Lots : ReversePurchase(i) \/ RefundPurchase(i)
         \/ \E p \in Products : retire_lineage(p)
  PROVE  HoldInv' /\ WonInv'
<1>1. UNCHANGED <<buying, lapsed, sweep, won>>
  BY DEF CheckUse, Start, _record_hall_pass_log_impl, CountAttempts, execute_use_item_request,
         Decide, _load_redemption_for_decision, execute_complete_immediate_use,
         ReversePurchase, RefundPurchase, OutsideTheMoney, retire_lineage
<1> SUFFICES LotsMove /\ Len(lots') = Len(lots)
  BY <1>1, BothQuiet
<1>2. CASE UNCHANGED lots
  BY <1>2, LotsStay
<1>3. ASSUME NEW e \in Entitlements, NEW event \in {"CONSUMED", "REVOKED", "USED"},
             Unit(e) = "none", lots' = [lots EXCEPT ![e[1]].ends[e[2]] = event]
      PROVE  LotsMove /\ Len(lots') = Len(lots)
  <2>1. Len(lots') = Len(lots)
    BY <1>3 DEF StoreInv, TypeOK
  <2> QED
    BY <1>3, <2>1, UnitMoves
<1>4. ASSUME NEW e \in Entitlements, _record_hall_pass_log_impl(e)
      PROVE  LotsMove /\ Len(lots') = Len(lots)
  BY <1>3, <1>4 DEF _record_hall_pass_log_impl
<1>5. ASSUME NEW op \in inflight, Decide(op) PROVE LotsMove /\ Len(lots') = Len(lots)
  <2>1. op.ent \in Entitlements
    BY DEF StoreInv, InFlightKnown
  <2> DEFINE event == IF op.outcome = "approved" THEN "CONSUMED" ELSE "REVOKED"
  <2>2. \/ UNCHANGED lots
        \/ /\ Unit(op.ent) = "none"
           /\ lots' = [lots EXCEPT ![op.ent[1]].ends[op.ent[2]] = event]
    BY <1>5 DEF Decide
  <2>3. event \in {"CONSUMED", "REVOKED", "USED"}
    OBVIOUS
  <2> HIDE DEF event
  <2> QED
    BY <1>2, <1>3, <2>1, <2>2, <2>3
<1>6. ASSUME NEW i \in Lots, ReversePurchase(i) \/ RefundPurchase(i)
      PROVE  LotsMove /\ Len(lots') = Len(lots)
  <2>1. Len(lots') = Len(lots)
    BY <1>6 DEF ReversePurchase, RefundPurchase, EndAll, StoreInv, TypeOK
  <2> QED
    BY <1>6, <2>1, MoneyBackMoves
<1>7. ASSUME \/ \E e \in Entitlements : CheckUse(e)
             \/ \E op \in inflight : CountAttempts(op) \/ execute_use_item_request(op)
             \/ \E r \in requests, o \in Outcomes : _load_redemption_for_decision(r, o)
             \/ \E e \in reminders : execute_complete_immediate_use(e)
             \/ \E p \in Products : retire_lineage(p)
      PROVE  UNCHANGED lots
  BY <1>7 DEF CheckUse, Start, CountAttempts, execute_use_item_request,
              _load_redemption_for_decision, execute_complete_immediate_use, retire_lineage
<1> QED
  BY <1>2, <1>4, <1>5, <1>6, <1>7

LEMMA BothNext ==
  ASSUME StoreInv, StoreInv', StoreConstants, HoldInv, WonInv, [Next]_vars
  PROVE  HoldInv' /\ WonInv'
<1>1. CASE UNCHANGED vars
  BY <1>1, LotsStay, BothQuiet DEF vars
<1>2. ASSUME NEW p \in Products, Lapse(p) PROVE HoldInv' /\ WonInv'
  <2>1. UNCHANGED <<lots, buying>>
    BY <1>2 DEF Lapse
  <2> QED
    BY <1>2, <2>1, LapseStep, LotsStay, HoldQuiet
<1>3. CASE \E s \in Seats, n \in 1..MaxQuantity : \E p \in Wares[s] :
             PurchaseBegin(s, p, n) \/ _execute_direct_grant_impl(s, p, n)
  <2>1. PICK s \in Seats, n \in 1..MaxQuantity, p \in Products :
          PurchaseBegin(s, p, n) \/ _execute_direct_grant_impl(s, p, n)
    BY <1>3 DEF StoreConstants
  <2> QED
    BY <2>1, BeginBoth, AddBoth
<1>4. CASE \E s \in Seats : Purchase(s)
  <2>1. PICK s \in Seats : PurchaseCommit(s) \/ PurchaseRefused(s)
    BY <1>4 DEF Purchase
  <2>2. CASE PurchaseCommit(s)
    BY <2>2, AddBoth
  <2>3. CASE PurchaseRefused(s)
    <3>1. buying[s].product \in Products /\ buying[s].quantity \in 1..MaxQuantity
      BY <2>3 DEF PurchaseRefused, SeatFree, StoreInv, PurchasesTyped
    <3> QED
      BY <2>3, <3>1, BeginBoth
  <2> QED
    BY <2>1, <2>2, <2>3
<1>5. CASE Sweep \/ \E p \in Products : SweepCount(p)
  BY <1>5, SweepBoth
<1>6. CASE \/ \E e \in Entitlements : CheckUse(e) \/ _record_hall_pass_log_impl(e)
           \/ \E op \in inflight :
                CountAttempts(op) \/ execute_use_item_request(op) \/ Decide(op)
           \/ \E r \in requests, o \in Outcomes : _load_redemption_for_decision(r, o)
           \/ \E e \in reminders : execute_complete_immediate_use(e)
           \/ \E i \in Lots : ReversePurchase(i) \/ RefundPurchase(i)
           \/ \E p \in Products : retire_lineage(p)
  BY <1>6, ItemBoth
<1> QED
  BY <1>1, <1>2, <1>3, <1>4, <1>5, <1>6 DEF Next

LEMMA HoldInit == Init /\ StoreConstants => HoldInv
<1> SUFFICES ASSUME Init, StoreConstants PROVE HoldInv
  OBVIOUS
<1>1. lots = <<>> /\ \A s \in Seats : SeatFree(s)
  BY DEF Init, SeatFree
<1>2. ASSUME NEW s \in Seats, NEW p \in Products PROVE Held(s, p) =< Limit(p)
  <2>1. HeldUnits(s, p) = {}
    BY <1>1 DEF HeldUnits, Lots
  <2>2. Held(s, p) = 0
    BY <2>1, FS_EmptySet DEF Held, HeldUnits
  <2> QED
    BY <2>2 DEF Limit, StoreConstants
<1> QED
  BY <1>1, <1>2 DEF HoldInv, HoldingLimitRespected

LEMMA BothInvariant == Spec => [](StoreInv /\ HoldInv /\ WonInv)
<1>1. Init => StoreInv /\ HoldInv /\ WonInv
  BY StoreConstants, InitInv, HoldInit, WonInit
<1>2. StoreInv /\ HoldInv /\ WonInv /\ [Next]_vars => (StoreInv /\ HoldInv /\ WonInv)'
  BY StoreConstants, StepInv, BothNext
<1> QED
  BY <1>1, <1>2, PTL DEF Spec

\* Whatever purchases, grants, uses and reversals interleave, a seat never holds more
\* of a product than its limit: the units counted under the seat's lock are those
\* there when the purchase commits (ensure_within_holding_limit).
THEOREM HoldingsStayWithinLimits == Spec => []HoldingLimitRespected
<1>1. HoldInv => HoldingLimitRespected
  BY DEF HoldInv
<1> QED
  BY <1>1, BothInvariant, PTL

\* A goal that had its buy-ins when the deadline passed is not expired unless one is
\* withdrawn, however the sweep's count, load and writes interleave with uses,
\* decisions and reversals (run_collective_goal_expiry_job, is_goal_met).
THEOREM WonGoalsStand == Spec => []WonGoalStands
<1>1. WonInv => WonGoalStands
  BY DEF WonInv, WonStands, WonGoalStands, Kept
<1> QED
  BY <1>1, BothInvariant, PTL
=============================================================================
