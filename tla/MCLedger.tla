------------------------------ MODULE MCLedger ------------------------------
(* Instances of Ledger for TLC. *)
EXTENDS Ledger, TLC

WorkerSymmetry == Permutations(Workers)

MCSeats == {1, 2}
OneSeat == {1}

Cmd(kind, key, seats, acct, amt, type) ==
  [kind |-> kind, key |-> key, seats |-> seats, acct |-> acct, amt |-> amt,
   type |-> type, funded |-> TRUE, of |-> key, ofType |-> type]

Credit(key, s, acct, amt, type) == Cmd("credit", key, {s}, acct, amt, type)
Transfer(key, s, from, amt) == Cmd("transfer", key, {s}, from, amt, "Withdrawal")
Purchase(key, s, amt) == Cmd("charge", key, {s}, "checking", amt, "purchase")
Fine(key, seats, amt) ==
  [Cmd("charge", key, seats, "checking", amt, "penalty") EXCEPT !.funded = FALSE]
Reversal(key, s, of, type) ==
  [Cmd("reverse", key, {s}, "checking", 0, "REVERSAL") EXCEPT !.of = of, !.ofType = type]
Recovery(key, s, of, amt) ==
  [Cmd("recover", key, {s}, "checking", amt, "payroll_correction")
     EXCEPT !.of = of, !.ofType = "payroll"]

\* Double spending: pay one seat, then spend the pay twice over, by transfer and
\* by purchase; the pay can also be retried with a different amount.
SpendKeys == {"pay", "move", "buy"}
SpendCommands ==
  { Credit("pay", 1, "checking", 2, "payroll"),
    Credit("pay", 1, "checking", 3, "payroll"),
    Transfer("move", 1, "checking", 2),
    Purchase("buy", 1, 2) }

\* Corrections: one paycheck recovered by interval, by residual and by exact
\* reversal from two places under different keys, while a fine on two seats is
\* reviewed before and applied after the money moved.
CorrectionKeys == {"pay", "void", "unpay", "part", "rest", "fine"}
CorrectionCommands ==
  { Credit("pay", 1, "checking", 3, "payroll"),
    Reversal("unpay", 1, "pay", "payroll"),
    Reversal("void", 1, "pay", "payroll"),
    Recovery("part", 1, "pay", 2),
    Recovery("rest", 1, "pay", 0),
    Fine("fine", {1, 2}, 4) }

\* One leg of a transfer reversed by the teacher.
LegKeys == {"pay", "move", "undo"}
LegCommands ==
  { Credit("pay", 1, "checking", 2, "payroll"),
    Transfer("move", 1, "checking", 2),
    Reversal("undo", 1, "move", "Withdrawal") }

=============================================================================
