----------------------------- MODULE Settlement ------------------------------
(***************************************************************************)
(* What the economic exchange promises its two users, with STIR, the wire  *)
(* and the faults taken away: an agreement is settled in one step, at most *)
(* once, and only while the payer stays above the credit floor.  STIR may  *)
(* learn of it later, never earlier, and never forgets it.  This is what   *)
(* scripts/economic_exchange_e2e.py asserts of every exchange it runs.     *)
(***************************************************************************)
EXTENDS Integers

CONSTANTS
  Agreement,   \* accepted agreements
  User,        \* the users who trade
  Payer,       \* [Agreement -> User]
  Payee,       \* [Agreement -> User]
  Amount,      \* [Agreement -> amount agreed on]
  Floor        \* credit floor, zero or negative

VARIABLES
  settled,     \* agreements that osTRIS has committed
  known,       \* agreements that STIR reports as COMMITTED
  balance      \* [User -> balance]

vars == <<settled, known, balance>>

Moved(a) == [balance EXCEPT ![Payer[a]] = @ - Amount[a],
                            ![Payee[a]] = @ + Amount[a]]

Init ==
  /\ settled = {}
  /\ known = {}
  /\ balance = [u \in User |-> 0]

Settle(a) ==
  /\ a \notin settled
  /\ balance[Payer[a]] - Amount[a] >= Floor
  /\ settled' = settled \cup {a}
  /\ balance' = Moved(a)
  /\ UNCHANGED known

Learn(a) ==
  /\ a \in settled \ known
  /\ known' = known \cup {a}
  /\ UNCHANGED <<settled, balance>>

Next == \E a \in Agreement : Settle(a) \/ Learn(a)

Spec == Init /\ [][Next]_vars
=============================================================================
