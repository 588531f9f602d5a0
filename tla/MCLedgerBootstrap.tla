-------------------------- MODULE MCLedgerBootstrap --------------------------
(* Two validators, two wallets, payments valid for one ledger. *)
EXTENDS LedgerBootstrap, TLC

CONSTANTS v1, v2, w1, w2
MCValidators == {v1, v2}
MCWallets == {w1, w2}
Symmetry == Permutations(MCValidators) \cup Permutations(MCWallets)

(* Bound: while the network is configured again, one ledger at most and    *)
(* one run of the other script.                                            *)
FewRuns ==
  \/ netRuns <= 1
  \/ fundRuns = 0 /\ ledger <= 1
  \/ netRuns <= 2 /\ fundRuns <= 1 /\ ledger <= 1
=============================================================================
