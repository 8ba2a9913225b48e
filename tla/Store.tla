------------------------------- MODULE Store -------------------------------
(***************************************************************************)
(* The store of one class: purchases and the entitlements they grant, the  *)
(* requests to use them, the teacher's decisions, the reversals that give  *)
(* money back, and the job that closes a collective goal which missed its  *)
(* deadline.                                                               *)
(*                                                                         *)
(* Money and entitlement live in two tables joined by the purchase's       *)
(* correlation id.  A lot is one such correlation: a charge and the units  *)
(* it granted, or a teacher's grant that cost nothing.  What keeps the two *)
(* tables together is the buyer's seat lock: FOR UPDATE in the purchase,   *)
(* the reversals and the sweep, and the key-share lock that the foreign    *)
(* key of an inserted event or request takes on the same row.              *)
(*                                                                         *)
(* A purchase holds that lock from PurchaseBegin to its end, and the sweep *)
(* and the request and decision routes read before they lock; everything   *)
(* else is one locked transaction and one action.                          *)
(***************************************************************************)
EXTENDS Naturals, Sequences, FiniteSets

CONSTANTS
  Seats,          \* claimed student seats
  Products,       \* product lineages
  Type,           \* the entitlement type of a product
  HoldingLimit,   \* units of a product a seat may hold
  Target,         \* buy-ins a collective goal needs
  Wares,          \* bound: the products a seat buys or is given
  Withdrawable,   \* bound: the products the teacher may withdraw
  NoPurchase,     \* a seat with no purchase in progress
  MaxQuantity,    \* bound: units of one purchase
  MaxLots,        \* bound: purchases and grants
  MaxRequests,    \* bound: requests to use an item
  MaxInFlight     \* bound: handlers between their reads and their commit

Types == {"DELAYED_USE", "IMMEDIATE_USE", "PRIVILEGE", "COLLECTIVE_GOAL", "HALL_PASS"}

ASSUME StoreConstants ==
  /\ Type \in [Products -> Types]
  /\ HoldingLimit \in [Products -> Nat] /\ Target \in [Products -> Nat]
  /\ {MaxQuantity, MaxLots, MaxRequests, MaxInFlight} \subseteq Nat
  /\ Wares \in [Seats -> SUBSET Products] /\ Withdrawable \subseteq Products
  /\ NoPurchase \notin [product: Products, quantity: 1..MaxQuantity]

VARIABLES
  lots,       \* charges and grants, oldest first
  available,  \* whether the product's version is IN_USE (else RETIRED)
  lapsed,     \* goals whose deadline has passed
  buying,     \* the purchase that holds a seat's lock
  requests,   \* pending_actions rows of redemption requests
  reminders,  \* pending_actions rows of immediate-use purchases
  decision,   \* what became of each request, by its id
  inflight,   \* handlers that have read and not yet committed
  sweep,      \* the goal the expiry job is at, and the lots it has loaded
  won         \* history: the lots that stood in a goal when its deadline passed

vars == <<lots, available, lapsed, buying, requests, reminders, decision,
          inflight, sweep, won>>

Goals == { p \in Products : Type[p] = "COLLECTIVE_GOAL" }

Lots == 1..Len(lots)

\* An entitlement is a unit of a lot.
Unit(e) == lots[e[1]].ends[e[2]]

SeatOf(e) == lots[e[1]].seat

Open(i) == \E u \in 1..Len(lots[i].ends) : lots[i].ends[u] = "none"

SeenWaiting(id) == TRUE

\* Whether the row a decision read is still there, found by its primary key.
StillWaiting(id) == \E r \in requests : r.id = id

Waiting(e) == \E r \in requests : r.ent = e

EndOneUnit(i, event, money) ==
  [lots EXCEPT ![i].ends[1] = event, ![i].money = money]

EndAll(i, event, money) ==
  [lots EXCEPT ![i].ends = [u \in 1..Len(@) |-> event], ![i].money = money]

-----------------------------------------------------------------------------
(* Holdings and goal progress, derived from the events. *)

Held(s, p) ==
  Cardinality({ e \in Lots \X (1..MaxQuantity) :
                  /\ lots[e[1]].seat = s /\ lots[e[1]].product = p
                  /\ e[2] <= Len(lots[e[1]].ends) /\ Unit(e) = "none" })

Limit(p) == IF Type[p] \in {"PRIVILEGE", "COLLECTIVE_GOAL"} THEN 1 ELSE HoldingLimit[p]

ensure_within_holding_limit(s, p, n) == Held(s, p) + n <= Limit(p)

Unused(p) ==
  { i \in Lots : lots[i].product = p /\ lots[i].money # "granted" /\ Open(i) }

\* The buy-ins that still stand: CONSUMED does not withdraw one.
Standing(p) ==
  { i \in Lots : /\ lots[i].product = p /\ lots[i].money # "granted"
                 /\ \E u \in 1..Len(lots[i].ends) :
                      lots[i].ends[u] \notin {"EXPIRED", "REVOKED"} }

count_goal_participants(p) == Cardinality({ lots[i].seat : i \in Standing(p) })

is_goal_met(p) == Target[p] > 0 /\ count_goal_participants(p) >= Target[p]

-----------------------------------------------------------------------------
Idle == [phase |-> "idle"]

Init ==
  /\ lots = <<>>
  /\ available = [p \in Products |-> TRUE]
  /\ lapsed = {}
  /\ buying = [s \in Seats |-> NoPurchase]
  /\ requests = {} /\ reminders = {}
  /\ decision = <<>>
  /\ inflight = {}
  /\ sweep = Idle
  /\ won = [p \in Products |-> {}]

Lapse(p) ==
  /\ p \in Goals \ lapsed
  /\ lapsed' = lapsed \cup {p}
  /\ won' = [won EXCEPT ![p] = Standing(p)]
  /\ UNCHANGED <<lots, available, buying, requests, reminders, decision, inflight, sweep>>

\* delete_store_item: every version of the lineage is withdrawn.
retire_lineage(p) ==
  /\ p \in Withdrawable /\ available[p]
  /\ available' = [available EXCEPT ![p] = FALSE]
  /\ UNCHANGED <<lots, lapsed, buying, requests, reminders, decision, inflight, sweep, won>>

-----------------------------------------------------------------------------
(* Purchases and grants. *)

QuantityAllowed(p, n) ==
  n = 1 \/ Type[p] \notin {"IMMEDIATE_USE", "PRIVILEGE", "COLLECTIVE_GOAL"}

SeatFree(s) == buying[s] = NoPurchase

\* Purchases in progress and done stay within the bound.
RoomForALot == Len(lots) + Cardinality({ s \in Seats : ~SeatFree(s) }) < MaxLots

\* The seat is locked, and everything the purchase decides is read.
PurchaseBegin(s, p, n) ==
  /\ SeatFree(s) /\ RoomForALot
  /\ available[p] /\ QuantityAllowed(p, n) /\ p \notin lapsed
  /\ ensure_within_holding_limit(s, p, n)
  /\ buying' = [buying EXCEPT ![s] = [product |-> p, quantity |-> n]]
  /\ UNCHANGED <<lots, available, lapsed, requests, reminders, decision, inflight,
                 sweep, won>>

Units(n, event) == [u \in 1..n |-> event]

LotBefore == Len(lots)

NewLot == Len(lots) + 1

\* Charge, grants and, for an immediate-use product, its use and reminder.
PurchaseCommit(s) ==
  LET p == buying[s].product
      instant_use == Type[p] = "IMMEDIATE_USE"
      lot == [seat |-> s, product |-> p, money |-> "charged",
              ends |-> Units(buying[s].quantity,
                             IF instant_use THEN "CONSUMED" ELSE "none")]
  IN /\ ~SeatFree(s)
     /\ lots' = Append(lots, lot)
     /\ reminders' = IF instant_use
                     THEN reminders \cup {<<NewLot, 1>>} ELSE reminders
     /\ buying' = [buying EXCEPT ![s] = NoPurchase]
     /\ UNCHANGED <<available, lapsed, requests, decision, inflight, sweep, won>>

\* Overdue rent, too little money or a failure: the transaction leaves nothing.
PurchaseRefused(s) ==
  /\ ~SeatFree(s)
  /\ buying' = [buying EXCEPT ![s] = NoPurchase]
  /\ UNCHANGED <<lots, available, lapsed, requests, reminders, decision, inflight,
                 sweep, won>>

DirectGrant(s, p, n) ==
  /\ Type[p] = "HALL_PASS" /\ ensure_within_holding_limit(s, p, n)
  /\ RoomForALot
  /\ lots' = Append(lots, [seat |-> s, product |-> p, money |-> "granted",
                           ends |-> Units(n, "none")])
  /\ UNCHANGED <<available, lapsed, buying, requests, reminders, decision, inflight,
                 sweep, won>>

_execute_direct_grant_unlocked(s, p, n) == DirectGrant(s, p, n)

\* Only hall passes are granted; a retired product still resolves.
_execute_direct_grant_impl(s, p, n) == SeatFree(s) /\ DirectGrant(s, p, n)

\* A hall pass is used by its log, under the seat lock (module HallPasses).
_record_hall_pass_log_impl(e) ==
  /\ Type[lots[e[1]].product] = "HALL_PASS" /\ Unit(e) = "none" /\ SeatFree(SeatOf(e))
  /\ lots' = [lots EXCEPT ![e[1]].ends[e[2]] = "USED"]
  /\ UNCHANGED <<available, lapsed, buying, requests, reminders, decision, inflight,
                 sweep, won>>

-----------------------------------------------------------------------------
(* Requests to use an item and what the teacher decides. *)

Start(op) ==
  /\ Cardinality(inflight) < MaxInFlight /\ op \notin inflight
  /\ inflight' = inflight \cup {op}
  /\ UNCHANGED <<lots, available, lapsed, buying, requests, reminders, decision, sweep, won>>

Finish(op) == op \in inflight /\ inflight' = inflight \ {op}

Requestable(p) == Type[p] \notin {"IMMEDIATE_USE", "HALL_PASS"}

\* use_item: the item is unused and nothing waits on it, read without a lock.
CheckUse(e) ==
  /\ Requestable(lots[e[1]].product) /\ Unit(e) = "none" /\ ~Waiting(e)
  /\ Start([op |-> "use", ent |-> e])

\* A second read counts the rows there are: the key of this attempt.
CountAttempts(op) ==
  /\ op.op = "use"
  /\ inflight' = (inflight \ {op}) \cup
       {[op |-> "request", ent |-> op.ent,
         key |-> Cardinality({ r \in requests : r.ent = op.ent })]}
  /\ UNCHANGED <<lots, available, lapsed, buying, requests, reminders, decision, sweep, won>>

\* The unique index on the key refuses a second row of the same attempt.
execute_use_item_request(op) ==
  LET row == [id |-> Len(decision) + 1, ent |-> op.ent, key |-> op.key]
  IN /\ op.op = "request" /\ SeatFree(SeatOf(op.ent)) /\ Finish(op)
     /\ IF /\ Len(decision) < MaxRequests
           /\ \A r \in requests : r.ent = op.ent => r.key # op.key
        THEN /\ requests' = requests \cup {row}
             /\ decision' = Append(decision, "none")
        ELSE UNCHANGED <<requests, decision>>
     /\ UNCHANGED <<lots, available, lapsed, buying, reminders, sweep, won>>

Outcomes == {"approved", "denied", "returned"}

\* The route loads the request; the lock it took is gone when the FEAT starts.
_load_redemption_for_decision(r, outcome) ==
  Start([op |-> "decide", id |-> r.id, ent |-> r.ent, outcome |-> outcome])

\* The FEAT locks the row again; approval and denial also need an unused item,
\* and the event they insert waits for the seat lock.
Decide(op) ==
  LET ends == op.outcome # "returned"
      event == IF op.outcome = "approved" THEN "CONSUMED" ELSE "REVOKED"
  IN /\ op.op = "decide" /\ (ends => SeatFree(SeatOf(op.ent))) /\ Finish(op)
     /\ IF StillWaiting(op.id) /\ (ends => Unit(op.ent) = "none")
        THEN /\ requests' = { r \in requests : r.id # op.id }
             /\ decision' = [decision EXCEPT ![op.id] = op.outcome]
             /\ lots' = IF ends
                        THEN [lots EXCEPT ![op.ent[1]].ends[op.ent[2]] = event]
                        ELSE lots
        ELSE UNCHANGED <<requests, decision, lots>>
     /\ UNCHANGED <<available, lapsed, buying, reminders, sweep, won>>

execute_complete_immediate_use(e) ==
  /\ e \in reminders
  /\ reminders' = reminders \ {e}
  /\ UNCHANGED <<lots, available, lapsed, buying, requests, decision, inflight, sweep, won>>

-----------------------------------------------------------------------------
(* Money back.  One gate decides whether a purchase may be reversed. *)

lock_and_resolve_purchase_eligibility(i) ==
  /\ SeatFree(lots[i].seat) /\ lots[i].money = "charged"
  /\ Type[lots[i].product] \in {"DELAYED_USE", "COLLECTIVE_GOAL", "HALL_PASS"}
  /\ \A u \in 1..Len(lots[i].ends) : ~Waiting(<<i, u>>) /\ lots[i].ends[u] = "none"

OutsideTheMoney ==
  UNCHANGED <<available, lapsed, buying, requests, reminders, decision, inflight, sweep, won>>

\* The banking page's Reverse and an issue's REVERSE: every unit is revoked.
ReversePurchase(i) ==
  /\ lock_and_resolve_purchase_eligibility(i)
  /\ lots' = EndAll(i, "REVOKED", "reversed")
  /\ OutsideTheMoney

\* An issue's REFUND gives the money back and leaves the item.
RefundPurchase(i) ==
  /\ lock_and_resolve_purchase_eligibility(i)
  /\ lots' = [lots EXCEPT ![i].money = "refunded"]
  /\ OutsideTheMoney

-----------------------------------------------------------------------------
(* The job that closes a lapsed goal: count, load, then refund and expire. *)

OutsideTheSweep ==
  UNCHANGED <<lapsed, buying, requests, reminders, decision, inflight, won>>

SweepCount(p) ==
  /\ sweep = Idle /\ p \in lapsed /\ available[p] /\ ~is_goal_met(p)
  /\ sweep' = [phase |-> "counted", product |-> p]
  /\ UNCHANGED <<lots, available>> /\ OutsideTheSweep

LoadedWhateverBecameOfThem(p) ==
  { i \in Lots : lots[i].product = p /\ lots[i].money # "granted" }

_load_open_goal_entitlements(p) ==
  { i \in Lots : lots[i].product = p /\ lots[i].money # "granted" /\ Open(i) }

SweepLoad ==
  /\ sweep.phase = "counted"
  /\ sweep' = [phase |-> "loaded", product |-> sweep.product,
               loaded |-> _load_open_goal_entitlements(sweep.product)]
  /\ UNCHANGED <<lots, available>> /\ OutsideTheSweep

\* Loaded lots whose charge carries no reversal.
Covered == { i \in sweep.loaded : lots[i].money = "charged" }

\* Lots with no covering charge are left for review, and then so is the product.
\* A covered lot that ended since it was loaded fails the whole goal.
expire_lapsed_collective_goal ==
  /\ sweep.phase = "loaded" /\ sweep' = Idle
  /\ \A i \in sweep.loaded : SeatFree(lots[i].seat)
  /\ \A i \in Covered : Open(i)
  /\ lots' = [i \in Lots |->
       IF i \in Covered
       THEN [lots[i] EXCEPT !.money = "expired",
                            !.ends = [u \in 1..Len(@) |-> "EXPIRED"]]
       ELSE lots[i]]
  /\ available' = [available EXCEPT
       ![sweep.product] = @ /\ Covered # sweep.loaded]
  /\ OutsideTheSweep

\* A lot that ended after it was loaded, or whose charge was reversed between
\* the covering read and the lock: the FEAT raises and rolls back.
SweepRollback ==
  /\ sweep.phase = "loaded" /\ sweep' = Idle
  /\ \E i \in sweep.loaded : ~Open(i) \/ lots[i].money # "charged"
  /\ UNCHANGED <<lots, available>> /\ OutsideTheSweep

-----------------------------------------------------------------------------
Entitlements == { e \in Lots \X (1..MaxQuantity) : e[2] <= Len(lots[e[1]].ends) }

Purchase(s) == PurchaseCommit(s) \/ PurchaseRefused(s)

Sweep == SweepLoad \/ expire_lapsed_collective_goal \/ SweepRollback

Next ==
  \/ \E p \in Products : Lapse(p) \/ retire_lineage(p) \/ SweepCount(p)
  \/ \E s \in Seats, n \in 1..MaxQuantity : \E p \in Wares[s] :
       PurchaseBegin(s, p, n) \/ _execute_direct_grant_impl(s, p, n)
  \/ \E s \in Seats : Purchase(s)
  \/ \E e \in Entitlements : CheckUse(e) \/ _record_hall_pass_log_impl(e)
  \/ \E op \in inflight :
       CountAttempts(op) \/ execute_use_item_request(op) \/ Decide(op)
  \/ \E r \in requests, o \in Outcomes : _load_redemption_for_decision(r, o)
  \/ \E e \in reminders : execute_complete_immediate_use(e)
  \/ \E i \in Lots : ReversePurchase(i) \/ RefundPurchase(i)
  \/ Sweep

Spec == Init /\ [][Next]_vars

\* A purchase's transaction ends.  The job runs every hour and visits every
\* lapsed goal; the seat rows it waits for queue its lock request, so it is not
\* overtaken for ever.
Fairness ==
  /\ \A s \in Seats : WF_vars(Purchase(s))
  /\ \A p \in Goals : SF_vars(SweepCount(p))
  /\ SF_vars(Sweep)

FairSpec == Spec /\ Fairness

-----------------------------------------------------------------------------
(* Properties. *)

LotType ==
  [seat: Seats, product: Products,
   money: {"granted", "charged", "reversed", "refunded", "expired"},
   ends: Seq({"none", "CONSUMED", "REVOKED", "EXPIRED", "USED"})]

\* Every row has its shape, and names a lot that exists.
TypeOK ==
  /\ lots \in Seq(LotType)
  /\ available \in [Products -> BOOLEAN] /\ lapsed \subseteq Goals
  /\ \A s \in Seats : SeatFree(s) \/ buying[s].product \in Products
  /\ \A r \in requests : r.id \in 1..Len(decision) /\ r.ent \in Entitlements
  /\ reminders \subseteq Entitlements
  /\ decision \in Seq(Outcomes \cup {"none"})
  /\ sweep.phase \in {"idle", "counted", "loaded"}
  /\ \A p \in Products : won[p] \subseteq Lots

\* "Money and entitlement move together" (collective_goal_expiry_feat.py): a
\* reversed purchase has every unit revoked, a swept one every unit expired, no
\* unit expires without its refund, and none of them was ever used; whatever
\* else was requested, decided or bought between the reads and the commit.
MoneyFollowsItem ==
  \A i \in Lots :
    /\ lots[i].money = "reversed" =>
         \A u \in 1..Len(lots[i].ends) : lots[i].ends[u] = "REVOKED"
    /\ \A u \in 1..Len(lots[i].ends) :
         lots[i].money = "expired" <=> lots[i].ends[u] = "EXPIRED"

\* A seat never holds more of a product than its limit, whatever purchases and
\* grants race (ensure_within_holding_limit: "must hold the target seat's row
\* lock so the count cannot race a concurrent grant").
HoldingLimitRespected ==
  \A s \in Seats, p \in Products : Held(s, p) <= Limit(p)

\* "Expiring a met goal would refund students who actually won": a goal that had
\* its buy-ins when the deadline passed keeps them, unless one is withdrawn, also
\* after students used their share.
WonGoalStands ==
  \A p \in Goals : \A i \in won[p] :
    (/\ Target[p] > 0 /\ Cardinality({ lots[j].seat : j \in won[p] }) >= Target[p]
     /\ \A j \in won[p] : lots[j].ends[1] # "REVOKED")
      => lots[i].money # "expired"

\* A request is decided once (_lock_pending_action: "a concurrent decision on
\* the same request waits on it and then finds nothing left").
DecidedOnce ==
  [][\A id \in 1..Len(decision) :
       decision[id] # "none" => decision'[id] = decision[id]]_vars

Owed(p, i) ==
  /\ p \in lapsed /\ available[p] /\ ~is_goal_met(p)
  /\ i \in Lots /\ lots[i].product = p /\ lots[i].money = "charged" /\ Open(i)

\* "Without it, students who bought into a goal that never happened ... stay
\* charged for it" (run_collective_goal_expiry_job): a paid buy-in of a lapsed
\* goal is refunded or used, or the goal turns out met or is withdrawn, also when
\* a sweep rolls back or other purchases keep taking the seat lock.  There is
\* always a later moment at which nothing of the goal is owed, so each debt ends.
LapsedGoalIsRefunded ==
  \A p \in Goals : []<>(\A i \in 1..MaxLots : ~Owed(p, i))

\* The job's promise without the escape: once a sweep has retired a goal, no
\* buy-in of it is still charged and open.  A purchase that read the deadline
\* before it passed may commit after the sweep.
NoBuyInStranded ==
  \A p \in Goals, i \in Lots :
    p \in lapsed /\ ~available[p] /\ lots[i].product = p
      => ~(lots[i].money = "charged" /\ Open(i))

\* api.py, use_item: "a double submit within one attempt is already refused by
\* the pending-action check".  The check and the count of rows are two reads.
OneRequestPerItem == \A r, q \in requests : r.ent = q.ent => r = q
=============================================================================
