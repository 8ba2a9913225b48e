---------------------------- MODULE MCHallPasses ----------------------------
(***************************************************************************)
(* Two students share one queue slot.  The first holds two passes, so that *)
(* a stale handler of the one can meet the other.                          *)
(***************************************************************************)
EXTENDS HallPasses

CONSTANTS s1, s2, p1, p2, p3, bath

MCHolder == [p \in Passes |-> IF p = p3 THEN s2 ELSE s1]

MCAcquisition ==
  [p \in Passes |-> CASE p = p1 -> "GRANT" [] p = p2 -> "PERK" [] OTHER -> "PURCHASE"]

MCInitialGrants == <<p1, p3>>

\* The second student only competes for the queue.
MCMaxRows == [s \in Seats |-> IF s = s1 THEN 3 ELSE 1]

MCMaxQueue == [d \in Destinations |-> 1]
=============================================================================
