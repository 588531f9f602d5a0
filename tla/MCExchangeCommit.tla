-------------------------- MODULE MCExchangeCommit ---------------------------
(***************************************************************************)
(* ExchangeCommit for TLC: the two users of the drivers, and agreements of *)
(* both directions.  Pedro pays for two of them: he answers Ana's OFFER of *)
(* tomatoes, and Ana answers his WANTED repair.  Each is within his credit *)
(* floor, both together are not, unless Ana has bought his bread before.   *)
(* The constraint bounds the commits alive at once.                        *)
(***************************************************************************)
EXTENDS ExchangeCommit, FiniteSets, TLC

CONSTANTS ana, pedro, tomatoes, repair, bread, MaxAlive

ASSUME AliveAssumption == MaxAlive \in Nat

MCOwner == [a \in Agreement |-> IF a = tomatoes THEN ana ELSE pedro]
MCInitiator == [a \in Agreement |-> IF a = tomatoes THEN pedro ELSE ana]
MCDirection == [a \in Agreement |-> IF a = repair THEN "WANTED" ELSE "OFFER"]
MCAmount == [a \in Agreement |-> IF a = tomatoes THEN 2 ELSE 1]
MCFloor == -2

FewAlive ==
  Cardinality({<<a, s>> \in Agreement \X Slot : call[a][s] # NoCommit})
    <= MaxAlive

Symmetry == Permutations(Slot)
=============================================================================
