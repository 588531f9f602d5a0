----------------------------- MODULE References -----------------------------
(***************************************************************************)
(* Community value references on top of the marketplace: definitions and   *)
(* their published versions, ordinary governance, raw observations and the *)
(* daily evidence, consent, retention, market integrity and independence,  *)
(* as the seven community drivers fix them.                                *)
(*                                                                         *)
(* External like Marketplace.  One definition stands for those of a        *)
(* tenant, and time passes in UTC days.                                    *)
(***************************************************************************)
EXTENDS Marketplace

CONSTANTS
  Drafts,        \* identifiers of reference and seed proposals
  CaseIds,       \* identifiers of integrity cases
  RetentionFloor \* days a retention policy has at least (90)

VARIABLES
  reference,   \* definitions, versions of the policy, drafts, published versions
  governance,  \* ordinary governance: enabled, roster, versions of its terms
  ballot,      \* per draft: the roll of its electors, the votes in their order
  observation, \* raw observations, in their order
  case,        \* per integrity case: the observation and the decisions
  period,      \* retention in days; 0: no policy
  snapshot,    \* the evidence of a day, once it was asked for
  context,     \* per agreement: the version of the reference it was made under
  identity,    \* osTRIS: bound accounts, risk subjects; STIR: its projection
  today

community == <<market, reference, governance, ballot, observation, case, period, snapshot,
               context, identity>>

Independence == {"NONE", "NO_OSTRIS_BINDING", "INDEPENDENCE_UNKNOWN", "RELATED_CONTINUITY"}

CommunityInit ==
  /\ MarketInit
  /\ reference = [definitions |-> 0, policy |-> 0, wide |-> FALSE, drafts |-> {}, versions |-> <<>>]
  /\ governance = [enabled |-> FALSE, roster |-> {}, terms |-> 0]
  /\ ballot = [p \in Drafts |-> [roll |-> {}, votes |-> <<>>]]
  /\ observation = <<>>
  /\ case = [c \in CaseIds |-> [on |-> 0, history |-> <<>>]]
  /\ period = 0
  /\ snapshot = [day |-> -1, included |-> {}, excluded |-> {}]
  /\ context = [d \in Deals |-> -1]
  /\ identity = [bound |-> {}, subject |-> [u \in Users |-> 0], projection |-> [u \in Users |-> "NONE"]]
  /\ today = 0

-----------------------------------------------------------------------------
(* Who may: a permission opens the door, authority is the community's.     *)
Needs(op) ==
  CASE op \in MarketOps -> "trade"
    [] op \in {"view", "context", "constitution"} -> "references.read"
    [] op = "propose_reference" -> "references.propose"
    [] op \in {"withdraw", "read_consent"} -> "consent.manage"
    [] op \in {"retention", "anonymize"} -> "retention.manage"
    [] op \in {"enrol", "settings", "terms", "start"} -> "governance.manage"
    [] op = "vote" -> "governance.vote"
    [] OTHER -> "references.publish"

Authority(u, tenant) ==
  IF governance.enabled THEN u \in governance.roster
  ELSE user[u].tenant = tenant /\ user[u].rank \in {"owner", "admin"}

Sovereign == {"define", "policy", "propose_reference", "publish_reference", "signal", "decide",
              "retention", "anonymize", "enrol", "settings", "terms", "start", "refresh"}

Overreaches(r) ==
  \/ r.op \in Sovereign /\ ~Authority(r.by, r.tenant)
  \/ r.op = "settings" /\ r.kind = "FOREIGN"
  \/ r.op = "vote" /\ r.by \notin ballot[r.id].roll
  \/ r.op = "withdraw" /\ r.id \in DOMAIN observation /\ r.by \notin observation[r.id].given

BelowFloor(r) == r.op = "retention" /\ r.n < RetentionFloor

Hidden(r) ==
  \/ HiddenThing(r)
  \/ r.op = "signal" /\ r.of \notin DOMAIN observation
  \/ r.op = "withdraw" /\ r.id \notin DOMAIN observation
  \/ r.tenant # "A" /\ Needs(r.op) = "references.read"
  \/ r.op = "context" /\ (context[r.id] = -1 \/ r.by \notin Parties(r.id))

(* Market integrity: who opened a case does not end it.                    *)
Status(c) == IF case[c].history = <<>> THEN "NONE" ELSE case[c].history[Len(case[c].history)].status
Skips(r) ==
  \/ Status(r.id) = "SIGNAL" /\ r.kind # "UNDER_REVIEW"
  \/ Status(r.id) = "UNDER_REVIEW" /\ r.kind \notin {"FINAL", "DISMISSED"}
  \/ Status(r.id) \notin {"SIGNAL", "UNDER_REVIEW"}
SelfDecides(r) == r.kind \in {"FINAL", "DISMISSED"} /\ r.by = case[r.id].history[1].by

(* Retention: what a case is about stays; what is due may lose its names.  *)
Held(o) == \E c \in CaseIds : case[c].on = o /\ Status(c) # "DISMISSED"
Due(o)  ==
  /\ period > 0 /\ o \in DOMAIN observation
  /\ today - observation[o].day > period /\ ~observation[o].anonymous
Voted(u, p) == \E i \in DOMAIN ballot[p].votes : ballot[p].votes[i].by = u

Conflicts(r) ==
  \/ Stale(r)
  \/ r.op = "policy" /\ r.kind = "PROTECTED"
  \/ /\ r.op = "publish_reference"
     /\ governance.enabled \/ r.id \notin reference.drafts
  \/ r.op = "settings" /\ r.kind = "ENABLE" /\ governance.roster = {}
  \/ r.op = "start" /\ ballot[r.id].roll # {}
  \/ r.op = "vote" /\ Voted(r.by, r.id)
  \/ r.op = "signal" /\ Status(r.id) # "NONE"
  \/ r.op = "decide" /\ (Skips(r) \/ SelfDecides(r))
  \/ r.op = "anonymize" /\ (Held(r.id) \/ ~Due(r.id))

Fixtures == {"provision", "rank", "bind", "confirm", "backdate"}
CommunityAnswer(r) ==
  IF r.op \in Fixtures THEN 200
  ELSE IF Anonymous(r) THEN 401
  ELSE IF ~Belongs(r) \/ Contradicts(r) \/ ~Holds(r.by, Needs(r.op)) THEN 403
  ELSE IF ForgesOwner(r) \/ BelowFloor(r) THEN 400
  ELSE IF Overreaches(r) THEN 403
  ELSE IF Hidden(r) THEN 404
  ELSE IF Conflicts(r) THEN 409 ELSE 200

-----------------------------------------------------------------------------
(* Raw observations: an indicative price with consent, every proposal and  *)
(* every agreement leave one, an edit leaves another.  One lineage is one  *)
(* economic process.                                                       *)
Trace(source, lineage, parties, consent, given) ==
  [source |-> source, lineage |-> lineage, parties |-> parties, consent |-> consent, given |-> given,
   withdrawn |-> <<>>, day |-> today, anonymous |-> FALSE]
Traces(r) ==
  IF reference.definitions = 0 THEN <<>>
  ELSE CASE r.op \in {"publish", "edit"} /\ r.share ->
              << Trace(r.kind, r.id, {r.by}, TRUE, {r.by}) >>
         [] r.op = "offer" ->
              << Trace("PROPOSAL", r.of, {r.by, listing[r.of].owner}, r.share, {}) >>
         [] r.op = "accept" ->
              << Trace("AGREEMENT", deal[r.id].listing, Parties(r.id), deal[r.id].shared /\ r.share,
                       (IF deal[r.id].shared THEN Parties(r.id) \ {r.by} ELSE {})
                       \cup (IF r.share THEN {r.by} ELSE {})) >>
         [] OTHER -> <<>>

ObservationNext(r) ==
  CASE r.op = "withdraw" ->
         IF \E i \in DOMAIN observation[r.id].withdrawn : observation[r.id].withdrawn[i] = r.by
         THEN observation
         ELSE [observation EXCEPT ![r.id].withdrawn = Append(@, r.by)]
    [] r.op = "anonymize" -> [observation EXCEPT ![r.id].anonymous = TRUE, ![r.id].parties = {}]
    [] r.op = "backdate" -> [observation EXCEPT ![r.id].day = today - r.n]
    [] OTHER -> observation \o Traces(r)

(* The evidence of a day: what was observed before it, with consent that   *)
(* stands, no final finding and no related parties; what else was observed *)
(* before it is an exclusion.  Computed once.                              *)
Related(o) == \E u, v \in observation[o].parties :
  u # v /\ identity.subject[u] = identity.subject[v] /\ identity.projection[u] = "RELATED_CONTINUITY"
Eligible(o) ==
  /\ observation[o].consent /\ observation[o].withdrawn = <<>>
  /\ observation[o].source \in {"OFFER", "WANTED"} => reference.wide
  /\ ~\E c \in CaseIds : case[c].on = o /\ Status(c) = "FINAL"
  /\ ~Related(o)
Snapshot ==
  IF snapshot.day = today THEN snapshot
  ELSE LET cut == {o \in DOMAIN observation : observation[o].day < today}
       IN  [day |-> today, included |-> {o \in cut : Eligible(o)},
            excluded |-> {o \in cut : ~Eligible(o)}]

ReferenceNext(r) ==
  CASE r.op = "define" -> [reference EXCEPT !.definitions = @ + 1, !.policy = IF @ = 0 THEN 1 ELSE @]
    [] r.op = "policy" -> [reference EXCEPT !.policy = @ + 1, !.wide = r.kind = "WIDE"]
    [] r.op = "propose_reference" -> [reference EXCEPT !.drafts = @ \cup {r.id}]
    [] r.op = "publish_reference" ->
         [reference EXCEPT !.drafts = @ \ {r.id}, !.versions = Append(@, r.id)]
    [] OTHER -> reference

GovernanceNext(r) ==
  CASE r.op = "enrol" -> [governance EXCEPT !.roster = @ \cup {r.who}]
    [] r.op = "settings" -> [governance EXCEPT !.enabled = r.kind = "ENABLE"]
    [] r.op = "terms" -> [governance EXCEPT !.terms = @ + 1]
    [] OTHER -> governance

BallotNext(r) ==
  CASE r.op = "start" -> [ballot EXCEPT ![r.id] = [roll |-> governance.roster, votes |-> <<>>]]
    [] r.op = "vote" -> [ballot EXCEPT ![r.id].votes = Append(@, [by |-> r.by, choice |-> r.kind])]
    [] OTHER -> ballot

CaseNext(r) ==
  CASE r.op = "signal" -> [case EXCEPT ![r.id] =
         [on |-> r.of, history |-> <<[status |-> "SIGNAL", by |-> r.by]>>]]
    [] r.op = "decide" -> [case EXCEPT ![r.id].history = Append(@, [status |-> r.kind, by |-> r.by])]
    [] OTHER -> case

(* osTRIS decides about continuity, STIR keeps the answer of its last question. *)
Asked(u) ==
  IF u \notin identity.bound THEN "NO_OSTRIS_BINDING"
  ELSE IF identity.subject[u] # 0 /\ \E v \in identity.bound \ {u} : identity.subject[v] = identity.subject[u]
  THEN "RELATED_CONTINUITY" ELSE "INDEPENDENCE_UNKNOWN"
IdentityNext(r) ==
  CASE r.op = "bind" -> [identity EXCEPT !.bound = @ \cup {r.who}]
    [] r.op = "confirm" -> [identity EXCEPT !.subject[r.who] = r.id]
    [] r.op = "refresh" -> [identity EXCEPT !.projection[r.who] = Asked(r.who)]
    [] OTHER -> identity

CommunityStep(r) ==
  /\ IF r.op \in MarketOps \cup {"provision", "rank"} THEN MarketStep(r) ELSE UNCHANGED market
  /\ reference' = ReferenceNext(r) /\ governance' = GovernanceNext(r) /\ ballot' = BallotNext(r)
  /\ observation' = ObservationNext(r) /\ case' = CaseNext(r) /\ identity' = IdentityNext(r)
  /\ period' = IF r.op = "retention" THEN r.n ELSE period
  /\ snapshot' = IF r.op \in {"manifest", "view", "accept"} THEN Snapshot ELSE snapshot
  /\ context' = IF r.op = "accept" /\ reference.definitions > 0
                THEN [context EXCEPT ![r.id] = Len(reference.versions)] ELSE context

CommunityServe(r) ==
  IF CommunityAnswer(r) = 200 THEN CommunityStep(r) ELSE UNCHANGED community

(* What the drivers ask and compare. *)
CommunityTold(r) ==
  LET From(source) == Cardinality({o \in DOMAIN observation : observation[o].source = source})
  IN CASE r.about = "policyVersion" -> reference.policy
       [] r.about = "referenceVersion" -> Len(reference.versions)
       [] r.about = "contextVersion" -> context[r.id]
       [] r.about = "enabled" -> IF governance.enabled THEN 1 ELSE 0
       [] r.about = "observations" -> Len(observation)
       [] r.about = "agreements" -> From("AGREEMENT")
       [] r.about = "proposals" -> From("PROPOSAL")
       [] r.about = "lineage" ->
            Cardinality({o \in DOMAIN observation : observation[o].lineage = r.id})
       [] r.about = "consent" -> IF observation[r.id].consent THEN 1 ELSE 0
       [] r.about = "consentEvents" -> 1 + Len(observation[r.id].withdrawn)
       [] r.about = "included" -> Cardinality(Snapshot.included)
       [] r.about = "exclusions" -> Cardinality(Snapshot.excluded)
       [] r.about = "excluded" -> IF r.id \in Snapshot.excluded THEN 1 ELSE 0
       [] r.about = "due" -> IF Due(r.id) /\ ~Held(r.id) THEN 1 ELSE 0
       [] r.about = "decisions" -> Len(case[r.id].history)
       [] r.about = "roll" -> Cardinality(ballot[r.id].roll)
       [] r.about = "approvals" -> Cardinality({i \in DOMAIN ballot[r.id].votes :
                                                 ballot[r.id].votes[i].choice = "APPROVE"})
       [] r.about = "independence" -> CHOOSE n \in 0..3 :
            identity.projection[r.who] = <<"NONE", "NO_OSTRIS_BINDING", "INDEPENDENCE_UNKNOWN",
                                           "RELATED_CONTINUITY">>[n + 1]
       [] r.about = "version" -> listing[r.id].version
       [] r.about = "closed" -> IF listing[r.id].status = "CLOSED" THEN 1 ELSE 0
       [] r.about = "accepted" -> IF deal[r.id].status = "ACCEPTED" THEN 1 ELSE 0
-----------------------------------------------------------------------------
CommunityTypeOK ==
  /\ MarketTypeOK
  /\ reference \in [definitions : Nat, policy : Nat, wide : BOOLEAN, drafts : SUBSET Drafts,
                    versions : Seq(Drafts)]
  /\ governance.enabled \in BOOLEAN /\ governance.roster \subseteq Users /\ governance.terms \in Nat
  /\ \A p \in Drafts : ballot[p].roll \subseteq Users
  /\ \A o \in DOMAIN observation :
       /\ observation[o].parties \subseteq Users /\ observation[o].given \subseteq Users
       /\ observation[o].day <= today
  /\ \A c \in CaseIds : case[c].on \in {0} \cup DOMAIN observation
  /\ period \in Nat /\ snapshot.included \cup snapshot.excluded \subseteq DOMAIN observation
  /\ context \in [Deals -> Nat \cup {-1}] /\ today \in Nat
  /\ identity.bound \subseteq Users /\ identity.projection \in [Users -> Independence]
=============================================================================
