---------------------------- MODULE AtomicLedger ----------------------------
(***************************************************************************)
(* What the ledger promises its callers: a table of account balances and   *)
(* a book of entries, on which each accepted command acts once and all at  *)
(* once.  There are no locks, reservations in flight, posting sequences or *)
(* snapshots here; settlement is invisible.                                *)
(***************************************************************************)
EXTENDS Integers, Sequences

CONSTANTS Seats, Commands, ProtectionEnabled

VARIABLES
  bal,        \* available balance of each account
  accepted,   \* the commands that took effect
  book,       \* their entries, each numbered within its command and seat
  recovered,  \* of each entry: cents taken back from it
  reversed    \* the entries that were exactly reversed

atomicVars == <<bal, accepted, book, recovered, reversed>>

Accounts == {"checking", "savings"}

AtomicInit ==
  /\ bal = [s \in Seats |-> [a \in Accounts |-> 0]]
  /\ accepted = {}
  /\ book = {}
  /\ recovered = [e \in {} |-> 0]
  /\ reversed = {}

Part(a, amt, type) == [acct |-> a, amt |-> amt, type |-> type]

OtherAccount(a) == IF a = "checking" THEN "savings" ELSE "checking"

\* A debit of checking that checking cannot cover is covered from savings,
\* wholly or not at all, when protection is on.
Cover(b, amt, a) ==
  LET short == amt - b["checking"]
  IN  IF a = "checking" /\ short > 0 /\ ProtectionEnabled /\ b["savings"] >= short
      THEN short ELSE 0

\* Balances b of one seat after a debit of account a, and after a credit.
Debited(b, amt, a) ==
  [x \in Accounts |-> b[x] + (IF x = "checking" THEN Cover(b, amt, a) ELSE -Cover(b, amt, a))
                           - (IF x = a THEN amt ELSE 0)]

Credited(b, amt, a) == [x \in Accounts |-> b[x] + (IF x = a THEN amt ELSE 0)]

\* The entries of a debit: what covers it, then its principal.
Debit(b, amt, a, type) ==
  LET t == Cover(b, amt, a)
  IN  IF t > 0 THEN << Part("savings", -t, "Withdrawal"), Part("checking", t, "Deposit"),
                       Part(a, -amt, type) >>
      ELSE << Part(a, -amt, type) >>

Entry(c, s, i, part) ==
  [key |-> c.key, seat |-> s, leg |-> i, acct |-> part.acct, amt |-> part.amt,
   type |-> part.type]

\* Command c enters the parts parts[s] on each of its seats s.
Enter(c, parts) ==
  book' = book \cup UNION {{Entry(c, s, i, parts[s][i]) : i \in DOMAIN parts[s]} : s \in c.seats}

\* The new entries have nothing recovered yet.
Recovers(e, cents) ==
  recovered' = [x \in book' |-> IF x = e THEN cents
                                ELSE IF x \in book THEN recovered[x] ELSE 0]

RecoversNothing == recovered' = [x \in book' |-> IF x \in book THEN recovered[x] ELSE 0]

Credit(c) ==
  /\ c.kind = "credit"
  /\ bal' = [s \in Seats |-> IF s \in c.seats THEN Credited(bal[s], c.amt, c.acct) ELSE bal[s]]
  /\ Enter(c, [s \in c.seats |-> << Part(c.acct, c.amt, c.type) >>])
  /\ RecoversNothing /\ UNCHANGED reversed

Move(c) ==
  /\ c.kind = "transfer"
  /\ \A s \in c.seats : bal[s][c.acct] >= c.amt
  /\ bal' = [s \in Seats |-> IF s \in c.seats
               THEN Credited(Credited(bal[s], -c.amt, c.acct), c.amt, OtherAccount(c.acct))
               ELSE bal[s]]
  /\ Enter(c, [s \in c.seats |-> << Part(c.acct, -c.amt, "Withdrawal"),
                                   Part(OtherAccount(c.acct), c.amt, "Deposit") >>])
  /\ RecoversNothing /\ UNCHANGED reversed

Charge(c) ==
  /\ c.kind = "charge"
  /\ c.funded => \A s \in c.seats : Debited(bal[s], c.amt, "checking")["checking"] >= 0
  /\ bal' = [s \in Seats |-> IF s \in c.seats THEN Debited(bal[s], c.amt, "checking") ELSE bal[s]]
  /\ Enter(c, [s \in c.seats |-> Debit(bal[s], c.amt, "checking", c.type)])
  /\ RecoversNothing /\ UNCHANGED reversed

\* The entries a correction may name.
Named(c) == {e \in book : e.key = c.of /\ e.type = c.ofType /\ e.seat \in c.seats}

\* An entry is undone once: a debit is given back, a credit taken back whole.
Reverse(c) ==
  /\ c.kind = "reverse"
  /\ \E e \in Named(c) :
       /\ e \notin reversed /\ e.type # "REVERSAL"
       /\ reversed' = reversed \cup {e}
       /\ \/ /\ e.amt > 0 /\ recovered[e] = 0
             /\ bal' = [bal EXCEPT ![e.seat] = Debited(@, e.amt, e.acct)]
             /\ Enter(c, [s \in c.seats |-> Debit(bal[s], e.amt, e.acct, "REVERSAL")])
             /\ Recovers(e, e.amt)
          \/ /\ ~ (e.amt > 0)
             /\ bal' = [bal EXCEPT ![e.seat] = Credited(@, -e.amt, e.acct)]
             /\ Enter(c, [s \in c.seats |-> << Part(e.acct, -e.amt, "REVERSAL") >>])
             /\ RecoversNothing

\* Part of a credit, or all that is left of it, back.
Recover(c) ==
  /\ c.kind = "recover"
  /\ \E e \in Named(c) :
       LET take == IF c.amt > 0 THEN c.amt ELSE e.amt - recovered[e] IN
       /\ take > 0 /\ recovered[e] + take =< e.amt
       /\ bal' = [bal EXCEPT ![e.seat] = Debited(@, take, e.acct)]
       /\ Enter(c, [s \in c.seats |-> Debit(bal[s], take, e.acct, "payroll_correction")])
       /\ Recovers(e, recovered[e] + take)
  /\ UNCHANGED reversed

Perform(c) ==
  /\ \A d \in accepted : d.key # c.key
  /\ accepted' = accepted \cup {c}
  /\ Credit(c) \/ Move(c) \/ Charge(c) \/ Reverse(c) \/ Recover(c)

AtomicSpec == AtomicInit /\ [][\E c \in Commands : Perform(c)]_atomicVars

=============================================================================
