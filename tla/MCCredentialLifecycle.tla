----------------------- MODULE MCCredentialLifecycle -----------------------
(***************************************************************************)
(* CredentialLifecycle for TLC: two participants, one spare key for a      *)
(* second device and two exchanges.  The constraint bounds the requests in *)
(* flight, of whatever kind.                                               *)
(***************************************************************************)
EXTENDS CredentialLifecycle, FiniteSets, TLC

CONSTANT MaxRequests

ASSUME BoundAssumption == MaxRequests \in Nat

FewRequests ==
  Cardinality(adds) + Cardinality(revokes) + Cardinality(commits)
    + Cardinality({t \in Proposal : view[t].pc # "idle"}) <= MaxRequests

Symmetry == Permutations(Key) \cup Permutations(Proposal)
=============================================================================
