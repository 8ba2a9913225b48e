------------------------- MODULE MCRentObligations -------------------------
(* Instances of RentObligations for TLC. *)
EXTENDS RentObligations, TLC

CONSTANTS alice, r1, r2, p1, p2, w1, w2

\* Sound only where every payment asks for the same amount of the same bill.
RentSymmetry == {r @@ k : r \in Permutations(Runs), k \in Permutations(Payments)}

Policy(rent, fee, every, incremental, period, preview) ==
  [rent |-> rent, fee |-> fee, every |-> every, incremental |-> incremental,
   period |-> period, grace |-> 1, preview |-> preview]

\* The teacher moves from daily rent to a two-day period with a preview day.
\* A payment of 2 meets a rent of 1 and then a part of the fee.
TwoPolicies ==
  << Policy(1, 2, 1, TRUE, 1, 0), Policy(2, 1, 0, TRUE, 2, 1) >>

\* Two-day periods, assessed a day ahead, paid in parts or not.
InParts == << Policy(2, 1, 1, TRUE, 2, 1) >>
InFull == << Policy(2, 2, 0, FALSE, 2, 1) >>

\* The same without a day of grace.
NoGrace == << [InParts[1] EXCEPT !.grace = 0] >>

\* Daily rent, assessed a day ahead.
DailyAhead == << Policy(2, 1, 1, TRUE, 1, 1) >>

\* What the commands ask to pay: the whole bill, or an amount.
WholeBill == [k \in Payments |-> 0]
AskTwo == [k \in Payments |-> 2]
AskThree == [k \in Payments |-> 3]

FirstBill == [k \in Payments |-> RentOf(alice, 1)]
SecondBill == [k \in Payments |-> RentOf(alice, 2)]

Rich == [s \in Seats |-> 6]
Short == [s \in Seats |-> 4]

=============================================================================
