-------------------------- MODULE CommunityDrivers --------------------------
(***************************************************************************)
(* The community and marketplace drivers as scripts: the requests each     *)
(* makes, in their order, with the answers it accepts.  A step with `about`*)
(* is a question whose answer the driver compares.  201 counts as 200.     *)
(***************************************************************************)
EXTENDS References

(* The accounts the drivers make, the roles they give them and the         *)
(* identifiers they use.                                                   *)
ASSUME FixtureAssumption ==
  /\ {"ana", "pedro", "carlos", "bea", "diego", "manager", "owner", "readonly", "service",
      "plain", "reviewer", "v1", "v2", "v3", "v4"} \subseteq Users
  /\ {"trader", "member", "publisher", "consenting", "keeper", "elector", "steward", "manager",
      "voter"} \subseteq DOMAIN Granted
  /\ {1, 2, 3} \subseteq Listings \cap Drafts /\ {1, 2, 3, 4, 5, 6} \subseteq Deals
  /\ {1, 2} \subseteq CaseIds

Do(op, u) == [op |-> op, by |-> u, tenant |-> "A", who |-> "nobody", id |-> 0, of |-> 0,
              kind |-> "NONE", n |-> 0, version |-> 0, share |-> FALSE, about |-> "NONE",
              expect |-> {200}]
On(op, u, id)          == [Do(op, u) EXCEPT !.id = id]
Kinded(op, u, id, k)   == [On(op, u, id) EXCEPT !.kind = k]
About(op, u, who)      == [Do(op, u) EXCEPT !.who = who]
Gets(step, codes)      == [step EXCEPT !.expect = codes]
In(step, tenant)       == [step EXCEPT !.tenant = tenant]
Elsewhere(step)        == In(step, "B")
From(step, version)    == [step EXCEPT !.version = version]
Is(about, id, value)   == [On("ask", "nobody", id) EXCEPT !.about = about, !.expect = {value}]
Foreign  == {400, 403, 404}
Platform == {401, 403, 404}

(* Fixtures: a tenant of its own with ana as its administrator, another    *)
(* tenant for bea.                                                         *)
Account(u, tenant, role) == [Kinded("provision", "admin", 0, role) EXCEPT !.who = u, !.tenant = tenant]
SetRank(u, rank)         == [Kinded("rank", "admin", 0, rank) EXCEPT !.who = u]
CommunityFixture(member, publisher) ==
  << Account("ana", "A", publisher), SetRank("ana", "admin"), Account("pedro", "A", member),
     Account("carlos", "A", member), Account("bea", "B", member) >>
References7 == CommunityFixture("member", "publisher")
ConsentFixture == CommunityFixture("consenting", "keeper")
SeedFixture == CommunityFixture("elector", "steward")

(* `sharing` are the participants who consent to the use of the price. *)
Bid(d, l, buyer, amount, sharing) ==
  [On("offer", buyer, d) EXCEPT !.of = l, !.n = amount, !.share = buyer \in sharing]
Accepts(d, seller, version, sharing) ==
  [On("accept", seller, d) EXCEPT !.version = version, !.share = seller \in sharing]
Agree(d, l, buyer, seller, amount, sharing) ==
  << Bid(d, l, buyer, amount, sharing), Accepts(d, seller, 0, sharing) >>
Priced(op, u, l, direction, version) ==
  [Kinded(op, u, l, direction) EXCEPT !.version = version, !.share = TRUE]

Signal(u, c, o) == [On("signal", u, c) EXCEPT !.of = o]

-----------------------------------------------------------------------------
(* community_references_e2e.py *)
ReferenceVersions ==
  References7
  \o << Do("define", "ana"), Do("view", "pedro"), Is("included", 0, 0),
        On("propose_reference", "ana", 1), Gets(On("publish_reference", "pedro", 1), {403}),
        On("publish_reference", "ana", 1), Is("referenceVersion", 0, 1),
        On("publish", "ana", 1), On("read_listing", "pedro", 1) >>
  \o Agree(1, 1, "pedro", "ana", 1, {"pedro", "ana"}) \o Agree(2, 1, "pedro", "ana", 10, {"pedro", "ana"})
  \o Agree(3, 1, "pedro", "ana", 100, {"pedro", "ana"})
  \o << On("context", "pedro", 1), Is("contextVersion", 1, 1), Is("agreements", 0, 3),
        Do("view", "pedro"), Is("included", 0, 0),
        On("propose_reference", "ana", 2), On("publish_reference", "ana", 2),
        Do("view", "pedro"), Is("referenceVersion", 0, 2),
        On("context", "ana", 1), Is("contextVersion", 1, 1), On("read_agreement", "pedro", 1) >>
  \o Agree(4, 1, "pedro", "ana", 30, {})
  \o << Is("consent", 8, 0), Gets(On("context", "carlos", 1), {404}),
        Gets(On("read_agreement", "carlos", 1), {404}), Gets(Do("view", "bea"), Foreign),
        Gets(On("context", "bea", 1), Foreign), Gets(Elsewhere(Do("view", "bea")), {404}),
        Gets(Elsewhere(On("context", "bea", 1)), {404}), Gets(Do("view", "nobody"), {401}) >>

(* community_value_governance_e2e.py, section by section *)
SecondPublisher == << Account("diego", "A", "publisher"), SetRank("diego", "admin") >>
RawHistory ==
  << Do("define", "ana"), On("publish", "ana", 1) >>
  \o Agree(1, 1, "pedro", "ana", 5, {})
  \o << Do("manifest", "ana"), Is("included", 0, 0), Is("exclusions", 0, 0),
        Gets(Do("observations", "pedro"), {403}),
        Gets(Do("manifest", "pedro"), {403}) >>
  \o Agree(2, 1, "pedro", "ana", 10, {"pedro", "ana"}) \o Agree(3, 1, "pedro", "ana", 11, {"pedro", "ana"})
  \o Agree(4, 1, "pedro", "ana", 12, {"pedro", "ana"}) \o Agree(5, 1, "pedro", "ana", 13, {"pedro", "ana"})
  \o Agree(6, 1, "pedro", "ana", 14, {"pedro", "ana"})
  \o << Do("observations", "ana"), Is("observations", 0, 12), Is("agreements", 0, 6),
        Is("proposals", 0, 6), Do("manifest", "ana"), Is("included", 0, 0), Is("exclusions", 0, 0),
        Do("view", "ana"), Is("included", 0, 0) >>
SuperAdminGovernsNothing ==
  << Gets(Do("policy", "admin"), Platform), Gets(Do("define", "admin"), Platform),
     Gets(On("propose_reference", "admin", 1), Platform), Gets(On("publish_reference", "admin", 2), Platform),
     Gets(On("signal", "admin", 1), Platform), Gets(Kinded("decide", "admin", 1, "UNDER_REVIEW"), Platform),
     Do("view", "admin"), Do("observations", "admin") >>
PolicyFloors ==
  << Do("policy", "ana"), Is("policyVersion", 0, 2), Do("view", "pedro"),
     Gets(Kinded("policy", "ana", 0, "PROTECTED"), {409}) >>
Integrity ==
  << Signal("ana", 1, 2), Gets(Kinded("decide", "ana", 1, "FINAL"), {409}),
     Kinded("decide", "ana", 1, "UNDER_REVIEW"), Gets(Kinded("decide", "ana", 1, "FINAL"), {409}),
     Do("cases", "ana"), Is("decisions", 1, 2),
     Kinded("decide", "diego", 1, "FINAL"), Do("cases", "ana"), Is("decisions", 1, 3),
     Signal("ana", 2, 4), Kinded("decide", "ana", 2, "UNDER_REVIEW"),
     Kinded("decide", "diego", 2, "DISMISSED"), Do("manifest", "ana"), Is("excluded", 4, 0),
     Do("observations", "ana"), Is("observations", 0, 12) >>
ValueIsolation ==
  << Gets(Do("observations", "bea"), Foreign), Gets(Do("manifest", "bea"), Foreign),
     Gets(Do("cases", "bea"), Foreign), Gets(Elsewhere(Do("observations", "bea")), {403, 404}) >>
ValueGovernance ==
  References7 \o SecondPublisher \o RawHistory \o SuperAdminGovernsNothing \o PolicyFloors
  \o Integrity \o ValueIsolation

(* consent_retention_e2e.py *)
Consent ==
  << Do("define", "ana"), On("publish", "ana", 1) >>
  \o Agree(1, 1, "pedro", "ana", 10, {"pedro", "ana"}) \o << Is("consent", 2, 1) >>
  \o Agree(2, 1, "pedro", "ana", 12, {"pedro"})
  \o << Is("consent", 4, 0), Is("observations", 0, 4),
        Gets(On("withdraw", "carlos", 2), {403}), On("withdraw", "pedro", 2), On("withdraw", "pedro", 2),
        Is("consentEvents", 2, 2), Is("consent", 2, 1),
        Gets(On("read_consent", "bea", 2), {403, 404}), Gets(On("withdraw", "bea", 2), {403, 404}) >>
Retain(u, days) == [Do("retention", u) EXCEPT !.n = days]
BugBackdate(o, days) == [On("backdate", "admin", o) EXCEPT !.n = -days]
Backdate(o, days) == [On("backdate", "admin", o) EXCEPT !.n = days]
Retention ==
  << Gets(Retain("ana", 10), {400}), Gets(Retain("admin", 120), Platform), Retain("ana", 120) >>
  \o Agree(3, 1, "pedro", "ana", 20, {"pedro", "ana"}) \o Agree(4, 1, "pedro", "ana", 22, {"pedro", "ana"})
  \o << Backdate(6, 200), Backdate(8, 200), Signal("ana", 1, 8),
        Gets(On("anonymize", "ana", 8), {409}), Is("due", 6, 1), Is("due", 8, 0),
        On("anonymize", "ana", 6), Gets(On("anonymize", "ana", 6), {409}) >>
ConsentRetention == ConsentFixture \o Consent \o Retention

(* multi_source_value_evidence_e2e.py, ordinary_governance_e2e.py, *)
(* community_authority_e2e.py                                      *)
Vote(u, p, choice) == Kinded("vote", u, p, choice)
Enable(u) == Kinded("settings", u, 0, "ENABLE")
ForeignCommunity(u) == Gets(Kinded("settings", u, 0, "FOREIGN"), {403})

Sources ==
  << Do("define", "ana"), Kinded("policy", "ana", 0, "WIDE"), Is("policyVersion", 0, 2),
     Priced("publish", "ana", 1, "OFFER", 0), Is("lineage", 1, 1),
     Priced("publish", "pedro", 2, "WANTED", 0), Is("lineage", 2, 1),
     Priced("edit", "ana", 1, "OFFER", 0), Is("lineage", 1, 2), On("publish", "ana", 3) >>
  \o Agree(1, 3, "pedro", "ana", 39, {"pedro", "ana"})
  \o << Is("lineage", 3, 2), Gets(On("read_listing", "bea", 1), {403, 404}), Is("lineage", 1, 2) >>
Seed ==
  << About("enrol", "ana", "ana"), About("enrol", "ana", "pedro"), About("enrol", "ana", "carlos"),
     Enable("ana"), Do("terms", "ana"), Gets(On("start", "admin", 1), Platform), On("start", "ana", 1),
     Gets(Vote("admin", 1, "APPROVE"), Platform), Vote("ana", 1, "APPROVE"), Vote("pedro", 1, "APPROVE"),
     Gets(Vote("ana", 1, "APPROVE"), {409}), Is("approvals", 1, 2), Is("roll", 1, 3) >>
MultiSource == SeedFixture \o Sources \o Seed

Electors ==
  << Account("manager", "A", "manager"), SetRank("manager", "admin"), Account("v1", "A", "voter"),
     Account("v2", "A", "voter"), Account("v3", "A", "voter"), Account("v4", "A", "voter") >>
DirectPublish ==
  << Is("enabled", 0, 0), Do("define", "manager"), On("propose_reference", "manager", 1),
     On("publish_reference", "manager", 1) >>
EnableGovernance ==
  << About("enrol", "manager", "manager"), About("enrol", "manager", "v1"), About("enrol", "manager", "v2"),
     About("enrol", "manager", "v3"), About("enrol", "manager", "v4"), Enable("manager"),
     Do("terms", "manager") >>
OrdinaryVote ==
  << On("propose_reference", "manager", 2), Gets(On("publish_reference", "manager", 2), {409}),
     Gets(On("start", "pedro", 2), {403}), Gets(Elsewhere(On("start", "bea", 2)), Foreign),
     Gets(Vote("admin", 3, "APPROVE"), Platform), On("start", "manager", 2), Is("roll", 2, 5),
     Gets(Vote("admin", 2, "APPROVE"), Platform), Vote("v1", 2, "APPROVE"),
     Gets(Vote("v1", 2, "REJECT"), {409}), Vote("v2", 2, "APPROVE"), Vote("v3", 2, "APPROVE"),
     Is("approvals", 2, 3), Is("roll", 2, 5) >>
OrdinaryGovernance == References7 \o Electors \o DirectPublish \o EnableGovernance \o OrdinaryVote

Defines(u, codes) == Gets(Do("define", u), codes)
AuthorityFixture ==
  << Account("owner", "A", "publisher"), Account("readonly", "A", "publisher"),
     Account("service", "A", "publisher"), Account("plain", "A", "publisher"), SetRank("owner", "owner"),
     SetRank("readonly", "readonly"), SetRank("service", "service"), SetRank("plain", "user"),
     Account("manager", "A", "manager"), SetRank("manager", "admin") >>
GovernanceDisabled ==
  << Is("enabled", 0, 0), Defines("owner", {200}), Defines("ana", {200}), Defines("plain", {403}),
     Defines("readonly", {403}), Defines("service", {403}), Defines("admin", {403}),
     Elsewhere(Defines("ana", {403})), Defines("bea", {403}), ForeignCommunity("manager") >>
GovernanceEnabled ==
  << About("enrol", "manager", "manager"), Enable("manager"), SetRank("manager", "user"),
     Is("enabled", 0, 1), Defines("manager", {200}), Defines("owner", {403}), Defines("ana", {403}),
     Defines("admin", {403}), ForeignCommunity("manager") >>
CommunityAuthority == References7 \o AuthorityFixture \o GovernanceDisabled \o GovernanceEnabled

(* participant_independence_e2e.py *)
Refresh(u, who, codes) == Gets(About("refresh", u, who), codes)
Stands(who, value) == [Is("independence", 0, value) EXCEPT !.who = who]
Confirm(who, subject) == [About("confirm", "admin", who) EXCEPT !.id = subject]
Reviewer == << Account("reviewer", "A", "publisher"), SetRank("reviewer", "admin") >>
IndependenceAnswers ==
  << Refresh("reviewer", "carlos", {200}), Stands("carlos", 1), About("bind", "admin", "pedro"),
     About("bind", "admin", "carlos"), Refresh("reviewer", "pedro", {200}), Stands("pedro", 2),
     Refresh("pedro", "pedro", {403}), Elsewhere(Refresh("bea", "pedro", Foreign)),
     Refresh("admin", "pedro", Platform), Confirm("pedro", 1), Confirm("carlos", 1),
     Refresh("reviewer", "pedro", {200}), Refresh("reviewer", "carlos", {200}),
     Stands("pedro", 3), Stands("carlos", 3) >>
RelatedAgreement ==
  << Do("define", "reviewer"), On("publish", "pedro", 1) >>
  \o Agree(1, 1, "carlos", "pedro", 10, {"carlos", "pedro"})
  \o << Do("observations", "reviewer"), Is("agreements", 0, 1), Do("manifest", "reviewer"),
        Is("included", 0, 0), Is("exclusions", 0, 0), Stands("pedro", 3),
        Gets(Elsewhere(Do("independence", "bea")), Foreign) >>
ParticipantIndependence == References7 \o Reviewer \o IndependenceAnswers \o RelatedAgreement
-----------------------------------------------------------------------------
(* smoke.py *)
Smoke ==
  << Account("ana", "A", "trader"), Gets(Do("list", "nobody"), {401}), Do("list", "ana"),
     On("publish", "ana", 1), Do("list", "ana"), On("read_listing", "ana", 1), On("edit", "ana", 1),
     Gets(On("edit", "ana", 1), {409}), From(On("close", "ana", 1), 1),
     Is("closed", 1, 1), From(On("close", "ana", 1), 2), Is("version", 1, 2),
     Is("closed", 1, 1), Gets(From(On("edit", "ana", 1), 2), {409}) >>

(* marketplace_e2e.py *)
Traders ==
  << Account("ana", "A", "trader"), Account("pedro", "A", "trader"), Account("carlos", "A", "trader"),
     Account("bea", "B", "trader") >>
Marketplace3 ==
  Traders
  \o << On("publish", "ana", 1), Do("list", "pedro"), Bid(1, 1, "pedro", 10, {}),
        On("read_deal", "ana", 1), On("counter", "ana", 1), On("read_deal", "pedro", 1),
        Accepts(1, "pedro", 1, {}), On("read_deal", "ana", 1), Is("accepted", 1, 1),
        On("read_agreement", "ana", 1), On("read_agreement", "pedro", 1),
        On("read_listing", "carlos", 1), Gets(On("read_deal", "carlos", 1), {404}),
        Gets(On("read_agreement", "carlos", 1), {404}),
        Gets(From(On("decline", "carlos", 1), 2), {400, 403, 404, 409}),
        Gets(On("read_listing", "bea", 1), Foreign), Gets(On("read_deal", "bea", 1), Foreign),
        Gets(On("read_agreement", "bea", 1), Foreign) >>

(* multitenant.py: what each of two participants may do with the listing   *)
(* of its own tenant and of the other's                                    *)
Intrudes(u, own, l) ==
  LET other == IF own = "A" THEN "B" ELSE "A"
      mine  == IF l = 1 THEN 2 ELSE 1
  IN  << In(On("read_listing", u, mine), own), In(On("edit", u, mine), own), Is("version", mine, 1),
         In(Do("list", u), own), In(Gets(On("read_listing", u, l), {404}), own),
         In(Gets(On("edit", u, l), {404}), own), In(Gets(On("close", u, l), {404}), own),
         In(Gets(Do("list", u), Foreign), other), In(Gets(On("edit", u, l), Foreign), other),
         In(Gets(On("close", u, l), Foreign), other),
         In(Gets(Kinded("list", u, 0, "CONTRADICTORY"), {400, 403}), own),
         In(Gets(Kinded("publish", u, 3, "FORGED"), {400}), own) >>
Multitenant ==
  << Account("ana", "A", "trader"), On("publish", "ana", 1), Account("bea", "B", "trader"),
     Elsewhere(On("publish", "bea", 2)) >>
  \o Intrudes("ana", "A", 2) \o Intrudes("bea", "B", 1)
=============================================================================
