---------------------------- MODULE MCInsurance ----------------------------
(* A policy sold in one version and then in another. *)
EXTENDS Insurance, TLC

CONSTANTS fine, fee, d1, d2

Version(premium, period, wait) ==
  [premium |-> premium, period |-> period, preview |-> 1, cancelAfter |-> 1,
   wait |-> wait, cap |-> 3, allowance |-> 2]

\* The second version is dearer.
TwoVersions == << Version(1, 2, 0), Version(1, 2, 1) >>

\* One version, with days between a deadline and the end of the period.
OneVersion == << Version(1, 3, 1) >>

One == [l \in Losses |-> 1]
Two == [l \in Losses |-> 2]

ClaimSymmetry == Permutations(Decisions) \cup Permutations(Losses)
=============================================================================
