---------------------------- MODULE MCGovernance ----------------------------
(* Seven seats and the platform roles of the fixtures, one day that ends.  *)
EXTENDS Governance

Member == {"trade", "references.read", "references.propose"}
Consenting == Member \cup {"consent.manage"}
Elector == Consenting \cup {"governance.vote"}
MCGranted ==
  [NONE |-> {}, trader |-> {"trade"}, member |-> Member,
   publisher |-> Member \cup {"references.publish"},
   consenting |-> Consenting, keeper |-> Consenting \cup {"references.publish", "retention.manage"},
   elector |-> Elector,
   steward |-> Elector \cup {"references.publish", "retention.manage", "governance.manage"},
   manager |-> Member \cup {"references.publish", "governance.manage", "governance.vote"},
   voter |-> Member \cup {"governance.vote"}]
=============================================================================
