------------------------------ MODULE MCPayroll ------------------------------
(***************************************************************************)
(* One student with one hall pass or none, the scheduler and a teacher as  *)
(* workers, days of three instants and a payday at the end of each.        *)
(***************************************************************************)
EXTENDS Payroll

CONSTANTS s1, h1, w1, w2

HolderOf == [p \in Passes |-> s1]

WorkerSymmetry == Permutations(Workers)
=============================================================================
