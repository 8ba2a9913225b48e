------------------------------ MODULE MCStore ------------------------------
(* Two students and a store with one product of each kind that matters: an *)
(* item bought in quantity, a collective goal both must join, and hall     *)
(* passes that are sold and given.                                         *)
EXTENDS Store, TLC

CONSTANTS s1, s2, item, goal, pass, snack

MCWares == (s1 :> {item, goal}) @@ (s2 :> {goal, pass, snack})

MCType ==
  (item :> "DELAYED_USE") @@ (goal :> "COLLECTIVE_GOAL") @@ (pass :> "HALL_PASS")
    @@ (snack :> "IMMEDIATE_USE")

MCHoldingLimit == (item :> 1) @@ (goal :> 5) @@ (pass :> 2) @@ (snack :> 1)

MCTarget == (item :> 0) @@ (goal :> 2) @@ (pass :> 0) @@ (snack :> 0)
=============================================================================
