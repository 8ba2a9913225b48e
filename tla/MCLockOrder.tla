---------------------------- MODULE MCLockOrder -----------------------------
(* Instances of LockOrder for TLC. *)
EXTENDS LockOrder

MCSeats == {1, 2}

OrderedWriters ==
  {SeatMoney(s) : s \in MCSeats}
    \cup {TeacherPenalty(<<1, 2>>), VoidBatch(<<1, 2>>), SavingsInterest(<<1, 2>>),
          PayrollCycle(<<1, 2>>), ClosePriorDay(1, 2)}
    \cup UNION {{SubmitHallPass(s), ApproveHallPass(s), DropHallPass(s)} : s \in MCSeats}

WithGoalExpiry == OrderedWriters \cup {GoalExpiry(2, 1)}

WithUnclaim == OrderedWriters \cup {UnclaimSeat(s) : s \in MCSeats}

=============================================================================
