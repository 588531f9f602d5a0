-------------------------- MODULE Governance_proofs --------------------------
(***************************************************************************)
(* Proofs about Governance, for any seats, accounts, permissions and days: *)
(* whatever the drivers sent reaches the services again, in whatever order *)
(* and however late.                                                       *)
(*                                                                         *)
(* The argument about a service never looks at who sends a request, only   *)
(* at its type: StepSet and Requests say what a step and a request are,    *)
(* and ScriptsFit that the thirteen scripts are made of such steps.        *)
(***************************************************************************)
EXTENDS Governance, FiniteSetTheorems, SequenceTheorems, TLAPS

(* The requests of the community and the marketplace. *)
Routes == MarketOps \cup Sovereign \cup Fixtures
            \cup {"ask", "view", "context", "constitution", "withdraw", "read_consent", "vote",
                  "observations", "manifest", "cases", "independence"}
Kinds  == DOMAIN Granted \cup Ranks
            \cup {"NONE", "FORGED", "CONTRADICTORY", "OFFER", "WANTED", "WIDE", "PROTECTED", "FOREIGN",
                  "ENABLE", "UNDER_REVIEW", "FINAL", "DISMISSED", "APPROVE", "REJECT"}
Topics == {"NONE", "policyVersion", "referenceVersion", "contextVersion", "enabled", "observations",
           "agreements", "proposals", "lineage", "consent", "consentEvents", "included",
           "exclusions", "excluded", "due", "decisions", "roll", "approvals", "independence", "version", "closed",
           "accepted"}
Form == [op : Routes, by : Users, tenant : Tenants, who : Users, id : Int, of : Int, kind : Kinds,
         n : Nat, version : Nat, share : BOOLEAN, about : Topics, expect : SUBSET Int]

(* What the body of a request has to be for its route. *)
Fits(r) ==
  /\ r.op = "provision" => r.kind \in DOMAIN Granted
  /\ r.op = "rank" => r.kind \in Ranks
  /\ r.op \in {"publish", "edit", "close"} => r.id \in Listings
  /\ r.op \in {"offer", "counter", "accept", "decline"} => r.id \in Deals
  /\ r.op = "offer" => r.of \in Listings
  /\ r.op \in {"propose_reference", "publish_reference", "start", "vote"} => r.id \in Drafts
  /\ r.op \in {"signal", "decide"} => r.id \in CaseIds
CommunityRequests == {r \in Form : Fits(r)}

(* The requests of Seven Keys, and the steps of the custody drivers. *)
Voices  == Seats \cup {Nobody}
Domains == {"NONE", "CONSTITUTION", "GUARDIAN", "POSSESSION"}
Proofs  == [by : Creds, text : [domain : Domains, about : Voices \cup Pids, content : Int], count : Nat]
Tokens  == {"administrator", "member", "other_tenant", "unsigned", "untrusted"}
Bodies  == {"whole", "unknown_field", "missing_seat", "duplicate_seat"}
Matters == {"constitutionVersion", "nextSequence", "signatureCount", "seat", "revoked", "guardianRemoved"}

Bootstraps  == [op : {"bootstrap"}, token : Tokens, body : Bodies]
Registers   == [op : {"register"}, cred : Creds]
Proposes    == [op : {"propose"}, p : Pids, action : Actions, seat : Voices, new : Creds]
Signs       == [op : {"sign"}, p : Pids, seat : Voices, cred : Creds, proof : Proofs]
Activates   == [op : {"activate"}, p : Pids, guardian : Proofs, possession : Proofs]
Suspends    == [op : {"suspend"}, seat : Voices, cred : Creds, expected : Int, proof : Proofs]
Asks        == [op : {"ask"}, about : Matters, p : Pids \cup Voices]
KeyRequests == Bootstraps \cup Registers \cup Proposes \cup Signs \cup Activates \cup Suspends \cup Asks

Requests == CommunityRequests \cup KeyRequests

CustodySteps ==
  [do : {"bootstrap"}, token : Tokens, body : Bodies, expect : Int, keep : BOOLEAN]
  \cup [do : {"register"}, cred : Creds, expect : Int, keep : BOOLEAN]
  \cup [do : {"propose"}, p : Pids, action : Actions, seat : Voices, new : Creds, expect : Int,
        keep : BOOLEAN]
  \cup [do : {"sign"}, p : Pids, seat : Voices, cred : Creds, key : Creds, domain : Domains,
        content : Int, count : Nat \cup {Fresh}, expect : Int, keep : BOOLEAN]
  \cup [do : {"activate"}, p : Pids, new : Creds, expect : Int, keep : BOOLEAN]
  \cup [do : {"suspend"}, seat : Seats, offset : Int, expect : Int, keep : BOOLEAN]
  \cup [do : {"resend"}, p : Pids, seat : {Nobody}, expect : Int, keep : BOOLEAN]
  \cup [do : {"resend"}, p : {Nobody}, seat : Seats, expect : Int, keep : BOOLEAN]
  \cup [do : {"ask"}, about : Matters, p : Pids \cup Voices, expect : Int, keep : BOOLEAN]
StepSet == CommunityRequests \cup CustodySteps
-----------------------------------------------------------------------------
(* The inductive invariant.  Seven Keys: only seats' credentials have a    *)
(* seat, and without a constitution nothing has happened.                  *)
Credentials ==
  [seat : Voices, type : {"SOFTWARE_ED25519", "WEBAUTHN"}, status : Statuses, count : Nat]
Proposals ==
  [action : Actions, seat : Voices, new : Creds, state : {"NONE", "PROPOSED", "ACTIVATED"},
   signed : SUBSET Seats]
OneKey ==
  /\ \A s \in Seats : \E c \in Creds : Live(s) = {c}
  /\ \A c, d \in Suspended : c = d
KeysInv ==
  /\ KeysTypeOK
  /\ \A c \in Creds : c \notin Seats \cup Replacements => cred[c].seat = Nobody
  /\ version = 0 => /\ \A c \in Creds : cred[c].status = "NONE" /\ cred[c].seat = Nobody
                    /\ \A p \in Pids : proposal[p].state = "NONE"
  /\ version > 0 => OneKey
  /\ cred[Guardian].status \in {"NONE", "ACTIVE", "REMOVED"}

(* The community: a deal is about a listing, votes are on a roll.          *)
Sources4 == Kinds \cup {"PROPOSAL", "AGREEMENT"}
Observations ==
  [source : Sources4, lineage : Int \cup Listings, parties : SUBSET Users, consent : BOOLEAN,
   given : SUBSET Users, withdrawn : Seq(Users), day : Int, anonymous : BOOLEAN]
Decisions == {"SIGNAL", "UNDER_REVIEW", "FINAL", "DISMISSED"}
Votes == [by : Users, choice : Kinds]
Rulings == [status : Decisions, by : Users]
Cases == [on : Int, history : Seq(Rulings)]
Accounts == [tenant : Tenants \cup {"PLATFORM", "NONE"}, role : DOMAIN Granted, rank : Ranks]
ListingRows == [owner : Users, tenant : Tenants \cup {"NONE"}, status : {"NONE", "ACTIVE", "CLOSED"},
                version : Nat]
DealRows == [listing : Listings \cup {0}, buyer : Users, head : Users, version : Nat,
             status : {"NONE", "OPEN", "ACCEPTED", "DECLINED"}, amount : Nat, shared : BOOLEAN]
CommunityInv ==
  /\ CommunityTypeOK
  /\ \A d \in Deals : deal[d].status # "NONE" => deal[d].listing \in Listings
  /\ governance \in [enabled : BOOLEAN, roster : SUBSET Users, terms : Nat]
  /\ ballot \in [Drafts -> [roll : SUBSET Users, votes : Seq(Votes)]]
  /\ \A p \in Drafts : ballot[p].roll = {} => ballot[p].votes = <<>>
  /\ observation \in Seq(Observations)
  /\ case \in [CaseIds -> Cases]
  /\ snapshot.day \in Int
  /\ identity \in [bound : SUBSET Users, subject : [Users -> Int], projection : [Users -> Independence]]

(* What the service knows once it has accepted a request of those that     *)
(* drivers repeat: it will not accept it again, unless that is allowed.    *)
Withdrawn(u, o) ==
  /\ o \in DOMAIN observation
  /\ \E i \in DOMAIN observation[o].withdrawn : observation[o].withdrawn[i] = u
Spent(r) ==
  CASE r.op = "bootstrap" -> version > 0
    [] r.op = "sign" -> proposal[r.p].state # "NONE" /\ r.seat \in proposal[r.p].signed
    [] r.op = "activate" -> proposal[r.p].state = "ACTIVATED"
    [] r.op = "suspend" -> r.expected < next
    [] r.op = "edit" -> listing[r.id].status # "NONE" /\ listing[r.id].version > r.version
    [] r.op = "vote" -> Voted(r.by, r.id)
    [] r.op = "anonymize" -> r.id \in DOMAIN observation /\ observation[r.id].anonymous
    [] OTHER -> r.op \in Idempotent

Log == [request : Requests, accepted : BOOLEAN]
DriverInv ==
  /\ driver \in DOMAIN Script /\ late \in BOOLEAN /\ pc \in 0..(Len(Steps) + 1)
  /\ used \in [Seats \cup {Guardian, Nobody} -> Nat] /\ seen \in Nat
  /\ kept \in KeyRequests
  /\ sent \subseteq Log
  /\ \A m \in sent : Repeatable(m.request) /\ (m.accepted => Spent(m.request))

IInv == KeysInv /\ CommunityInv /\ DriverInv
-----------------------------------------------------------------------------
(***************************************************************************)
(* Where a request goes                                                    *)
(***************************************************************************)
LEMMA CommunityShape ==
  ASSUME NEW r \in CommunityRequests
  PROVE  ~ToKeys(r) /\ ~Custody(r)
BY DEF CommunityRequests, Form, ToKeys, Custody

LEMMA KeysShape == ASSUME NEW r \in KeyRequests PROVE ToKeys(r)
BY DEF KeyRequests, Bootstraps, Registers, Proposes, Signs, Activates, Suspends, Asks, ToKeys

LEMMA CustodyShape == ASSUME NEW s \in CustodySteps PROVE Custody(s)
BY DEF CustodySteps, Custody

\* What a custody driver makes of a step is a request, whatever it remembers.
LEMMA RequestMade ==
  ASSUME used \in [Seats \cup {Guardian, Nobody} -> Nat], seen \in Nat, kept \in KeyRequests,
         NEW s \in CustodySteps
  PROVE  Request(s) \in KeyRequests
<1>1. \A k \in Creds, count \in Nat \cup {Fresh} : Counted(k, count) \in Nat
  <2> SUFFICES ASSUME NEW k \in Creds, NEW count \in Nat \cup {Fresh}
               PROVE  Counted(k, count) \in Nat
    OBVIOUS
  <2>1. k \in Hardware => Holder(k) \in Seats \cup {Guardian}
    BY CustodyAssumption DEF CustodyAssumption, Hardware, Holder
  <2>2. k \in Hardware => used[Holder(k)] \in Nat
    BY <2>1
  <2>3. CASE k \notin Hardware
    BY <2>3 DEF Counted
  <2>4. CASE k \in Hardware /\ count = Fresh
    BY <2>2, <2>4 DEF Counted
  <2>5. CASE k \in Hardware /\ count # Fresh
    BY <2>5 DEF Counted
  <2> QED
    BY <2>3, <2>4, <2>5
<1>2. \A k \in Creds, d \in Domains, a \in Voices \cup Pids, c \in Int, count \in Nat \cup {Fresh} :
        Proof(k, Text(d, a, c), Counted(k, count)) \in Proofs
  BY <1>1 DEF Proof, Text, Proofs
<1>3. \A k \in Creds, d \in Domains, a \in Voices \cup Pids, c \in Int :
        Proof(k, Text(d, a, c), 0) \in Proofs
  BY DEF Proof, Text, Proofs
<1>4. NoProof \in Proofs
  <2>1. Nobody \in Creds /\ "NONE" \in Domains /\ Nobody \in Voices \cup Pids /\ 0 \in Int
    BY DEF Creds, Domains, Voices
  <2> QED
    BY <1>3, <2>1 DEF NoProof
<1>5. Guardian \in Creds /\ Fresh \in Nat \cup {Fresh} /\ Seats \subseteq Creds /\ Seats \subseteq Voices
  BY DEF Creds, Voices
<1>6. CASE s.do = "bootstrap"
  BY <1>6 DEF CustodySteps, Request, KeyRequests, Bootstraps
<1>7. CASE s.do = "register"
  BY <1>7 DEF CustodySteps, Request, KeyRequests, Registers
<1>8. CASE s.do = "propose"
  BY <1>8 DEF CustodySteps, Request, KeyRequests, Proposes
<1>9. CASE s.do = "sign"
  BY <1>2, <1>9 DEF CustodySteps, Request, KeyRequests, Signs
<1>10. CASE s.do = "activate"
  <2>0. s \in [do : {"activate"}, p : Pids, new : Creds, expect : Int, keep : BOOLEAN]
    BY <1>10 DEF CustodySteps
  <2>1. /\ s.p \in Pids /\ s.new \in Creds
        /\ Request(s) = [op |-> "activate", p |-> s.p,
             guardian |-> IF s.new = Nobody THEN NoProof
                          ELSE Proof(Guardian, Text("GUARDIAN", s.p, 0), Counted(Guardian, Fresh)),
             possession |-> IF s.new = Nobody THEN NoProof
                            ELSE Proof(s.new, Text("POSSESSION", s.p, 0), 0)]
    BY <1>10, <2>0 DEF Request
  <2>2. /\ Proof(Guardian, Text("GUARDIAN", s.p, 0), Counted(Guardian, Fresh)) \in Proofs
        /\ Proof(s.new, Text("POSSESSION", s.p, 0), 0) \in Proofs
    <3>1. "GUARDIAN" \in Domains /\ "POSSESSION" \in Domains /\ s.p \in Voices \cup Pids /\ 0 \in Int
      BY <2>1 DEF Domains
    <3> QED
      BY <1>2, <1>3, <1>5, <2>1, <3>1
  <2> QED
    BY <1>4, <2>1, <2>2 DEF KeyRequests, Activates
<1>11. CASE s.do = "suspend"
  <2>0. s \in [do : {"suspend"}, seat : Seats, offset : Int, expect : Int, keep : BOOLEAN]
    BY <1>11 DEF CustodySteps
  <2>1. /\ s.seat \in Seats /\ s.offset \in Int
        /\ Request(s) = [op |-> "suspend", seat |-> s.seat, cred |-> s.seat,
             expected |-> seen + s.offset,
             proof |-> Proof(Guardian, Text("GUARDIAN", s.seat, seen + s.offset), Counted(Guardian, Fresh))]
    BY <1>11, <2>0 DEF Request
  <2>2. Proof(Guardian, Text("GUARDIAN", s.seat, seen + s.offset), Counted(Guardian, Fresh)) \in Proofs
    <3>1. "GUARDIAN" \in Domains /\ s.seat \in Voices \cup Pids /\ seen + s.offset \in Int
      BY <2>1 DEF Domains, Voices
    <3> QED
      BY <1>2, <1>5, <3>1
  <2> QED
    BY <1>5, <2>1, <2>2 DEF KeyRequests, Suspends
<1>12. CASE s.do = "resend"
  <2>1. s.seat \in Voices /\ (s.seat = Nobody => s.p \in Pids)
    BY <1>12, SevenKeysAssumption DEF CustodySteps, Voices, SevenKeysAssumption
  <2>2. Request(s) = IF s.seat # Nobody THEN [kept EXCEPT !.seat = s.seat]
                     ELSE [kept EXCEPT !.p = s.p]
    BY <1>12 DEF Request
  <2>3. CASE kept \in Bootstraps
    BY <2>1, <2>2, <2>3 DEF KeyRequests, Bootstraps
  <2>4. CASE kept \in Registers
    BY <2>1, <2>2, <2>4 DEF KeyRequests, Registers
  <2>5. CASE kept \in Proposes
    BY <2>1, <2>2, <2>5 DEF KeyRequests, Proposes
  <2>6. CASE kept \in Signs
    BY <2>1, <2>2, <2>6 DEF KeyRequests, Signs
  <2>7. CASE kept \in Activates
    BY <2>1, <2>2, <2>7 DEF KeyRequests, Activates
  <2>8. CASE kept \in Suspends
    BY <2>1, <2>2, <2>8 DEF KeyRequests, Suspends
  <2>9. CASE kept \in Asks
    BY <2>1, <2>2, <2>9 DEF KeyRequests, Asks, Voices
  <2> QED
    BY <2>3, <2>4, <2>5, <2>6, <2>7, <2>8, <2>9 DEF KeyRequests
<1>13. CASE s.do = "ask"
  BY <1>13 DEF CustodySteps, Request, KeyRequests, Asks
<1> QED
  BY <1>6, <1>7, <1>8, <1>9, <1>10, <1>11, <1>12, <1>13 DEF CustodySteps
-----------------------------------------------------------------------------
(***************************************************************************)
(* Seven Keys                                                              *)
(***************************************************************************)
LEMMA KeysInitially == KeysInit => KeysInv
BY SevenKeysAssumption
DEF SevenKeysAssumption, KeysInit, KeysInv, KeysTypeOK, NoCred, NoProposal, Creds, Statuses, Actions

LEMMA KeysTyped ==
  KeysTypeOK <=> /\ cred \in [Creds -> Credentials] /\ proposal \in [Pids -> Proposals]
                 /\ version \in Nat /\ next \in Nat
BY DEF KeysTypeOK, Credentials, Proposals, Voices

LEMMA Counting ==
  ASSUME KeysInv
  PROVE  SeatsKeepOneKey
<1> SUFFICES ASSUME version > 0
             PROVE  /\ \A s \in Seats : Cardinality(Live(s)) = 1
                    /\ Cardinality(Suspended) <= 1
  BY DEF SeatsKeepOneKey
<1>1. OneKey
  BY DEF KeysInv
<1>2. \A s \in Seats : Cardinality(Live(s)) = 1
  BY <1>1, FS_Singleton DEF OneKey
<1>3. Suspended = {} \/ \E c : Suspended = {c}
  BY <1>1 DEF OneKey
<1>4. Cardinality(Suspended) <= 1
  <2>1. CASE Suspended = {}
    BY <2>1, FS_EmptySet
  <2>2. ASSUME NEW c, Suspended = {c} PROVE Cardinality(Suspended) = 1
    BY <2>2, FS_Singleton
  <2> QED
    BY <1>3, <2>1, <2>2
<1> QED
  BY <1>2, <1>4

\* A step that moves no credential to another seat or status keeps the keys of the seats.
LEMMA StandingKept ==
  ASSUME KeysInv, KeysTypeOK', version' > 0 <=> version > 0, version' = 0 <=> version = 0,
         \A c \in Creds : cred'[c].seat = cred[c].seat /\ cred'[c].status = cred[c].status,
         version = 0 => \A p \in Pids : proposal'[p].state = "NONE"
  PROVE  KeysInv'
<1>1. \A s : Live(s)' = Live(s)
  BY DEF Live
<1>2. Suspended' = Suspended
  BY DEF Suspended
<1>3. version > 0 => OneKey'
  BY <1>1, <1>2 DEF OneKey, KeysInv
<1> QED
  BY <1>3 DEF KeysInv, Creds

LEMMA RegisterKeepsKeys ==
  ASSUME KeysInv, NEW r \in Registers, RegisterAnswer(r) = 200, Register(r)
  PROVE  KeysInv'
<1>1. r.cred \in Creds
  BY DEF Registers
<1>2. KeysTypeOK'
  BY <1>1 DEF KeysInv, KeysTypeOK, Register
<1>3. \A c \in Creds : cred'[c].seat = cred[c].seat /\ cred'[c].status = cred[c].status
  BY <1>1 DEF KeysInv, KeysTypeOK, Register
<1> QED
  BY <1>2, <1>3, StandingKept DEF KeysInv, Register

\* A founded community: each seat has its own key, the guardian its.
LEMMA BootstrapEffect ==
  ASSUME KeysInv, NEW r \in Bootstraps, BootstrapAnswer(r) = 200, Bootstrap(r)
  PROVE  /\ version = 0
         /\ \A c \in Creds :
              /\ cred[c].status = "NONE"
              /\ cred'[c].status = IF c \in Seats \cup {Guardian} THEN "ACTIVE" ELSE "NONE"
              /\ cred'[c].seat = IF c \in Seats THEN c ELSE Nobody
              /\ cred'[c] \in Credentials
         /\ \A s \in Seats : Live(s)' = {s}
         /\ Suspended' = {}
<1>1. version = 0
  BY DEF BootstrapAnswer, KeysInv, KeysTypeOK
<1>2. \A c \in Creds :
        /\ cred[c] \in Credentials /\ cred[c].status = "NONE" /\ cred[c].seat = Nobody
        /\ cred'[c] = IF c \in Seats \cup {Guardian}
                      THEN [cred[c] EXCEPT !.status = "ACTIVE", !.seat = IF c \in Seats THEN c ELSE Nobody]
                      ELSE cred[c]
  BY <1>1, KeysTyped DEF KeysInv, Bootstrap
<1>3. \A c \in Creds :
        /\ cred'[c].status = IF c \in Seats \cup {Guardian} THEN "ACTIVE" ELSE "NONE"
        /\ cred'[c].seat = IF c \in Seats THEN c ELSE Nobody
        /\ cred'[c] \in Credentials
  <2> SUFFICES ASSUME NEW c \in Creds
               PROVE  /\ cred'[c].status = IF c \in Seats \cup {Guardian} THEN "ACTIVE" ELSE "NONE"
                      /\ cred'[c].seat = IF c \in Seats THEN c ELSE Nobody
                      /\ cred'[c] \in Credentials
    OBVIOUS
  <2>0. PICK k \in Credentials : k = cred[c]
    BY <1>2
  <2>1. "ACTIVE" \in Statuses /\ (IF c \in Seats THEN c ELSE Nobody) \in Voices
    BY DEF Statuses, Voices
  <2>2. CASE c \in Seats \cup {Guardian}
    <3>0. PICK v \in Voices : v = IF c \in Seats THEN c ELSE Nobody
      BY <2>1
    <3>1. cred'[c] = [k EXCEPT !.status = "ACTIVE", !.seat = v]
      BY <1>2, <2>0, <2>2, <3>0
    <3>2. cred'[c] \in Credentials
      <4>2. PICK s \in Statuses : s = "ACTIVE"
        BY <2>1
      <4>3. PICK m : m = cred'[c]
        OBVIOUS
      <4>4. m = [k EXCEPT !.status = s, !.seat = v]
        BY <3>1, <4>2, <4>3
      <4>5. m \in Credentials
        BY <4>4 DEF Credentials
      <4> QED
        BY <4>3, <4>5
    <3> QED
      BY <2>2, <3>0, <3>1, <3>2 DEF Credentials
  <2>3. CASE c \notin Seats \cup {Guardian}
    <3>1. cred'[c] = cred[c] /\ cred[c] \in Credentials /\ cred[c].status = "NONE" /\ cred[c].seat = Nobody
      BY <1>2, <2>3
    <3> QED
      BY <2>3, <3>1
  <2> QED
    BY <2>2, <2>3
<1>4. \A s \in Seats : Live(s)' = {s}
  BY <1>3, SevenKeysAssumption DEF Live, SevenKeysAssumption, Creds
<1>5. Suspended' = {}
  BY <1>3 DEF Suspended
<1> QED
  BY <1>1, <1>2, <1>3, <1>4, <1>5

LEMMA BootstrapKeepsKeys ==
  ASSUME KeysInv, NEW r \in Bootstraps, BootstrapAnswer(r) = 200, Bootstrap(r)
  PROVE  KeysInv'
<1>3. /\ \A c \in Creds : cred'[c] \in Credentials /\ cred'[c].seat = IF c \in Seats THEN c ELSE Nobody
      /\ cred'[Guardian].status = "ACTIVE"
      /\ \A s \in Seats : Live(s)' = {s}
      /\ Suspended' = {}
  BY BootstrapEffect DEF Creds
<1>6. OneKey'
  BY <1>3 DEF OneKey, Creds
<1>9. cred' = [c \in Creds |-> cred'[c]]
  BY DEF Bootstrap
<1>10. KeysTypeOK'
  <2>1. cred' \in [Creds -> Credentials]
    BY <1>3, <1>9
  <2> QED
    <3>1. proposal' \in [Pids -> Proposals] /\ version' \in Nat /\ next' \in Nat
      <4>1. version' = 1 /\ next' = next + 1 /\ proposal' = proposal
        BY DEF Bootstrap
      <4>2. proposal \in [Pids -> Proposals] /\ next \in Nat
        BY KeysTyped DEF KeysInv
      <4> QED
        BY <4>1, <4>2
    <3> QED
      BY <2>1, <3>1 DEF Credentials, Proposals, Voices, KeysTypeOK
<1>7. \A c \in Creds : c \notin Seats \cup Replacements => cred'[c].seat = Nobody
  BY <1>3
<1>8. version' = 1
  BY DEF Bootstrap
<1> QED
  BY <1>10, <1>3, <1>6, <1>7, <1>8 DEF KeysInv

LEMMA ProposeKeepsKeys ==
  ASSUME KeysInv, NEW r \in Proposes, ProposeAnswer(r) = 200, Propose(r)
  PROVE  KeysInv'
<1>1. KeysTypeOK'
  BY DEF KeysInv, KeysTypeOK, Propose, Proposes, Voices
<1>2. version # 0
  BY DEF ProposeAnswer
<1> QED
  BY <1>1, <1>2, StandingKept DEF KeysInv, Propose

LEMMA SignKeepsKeys ==
  ASSUME KeysInv, NEW r \in Signs, SignAnswer(r) = 200, Sign(r)
  PROVE  KeysInv'
<1>1. r.p \in Pids /\ r.cred \in Creds /\ r.proof.count \in Nat
  BY DEF Signs, Proofs
<1>2. r.seat \in Seats /\ proposal[r.p].state = "PROPOSED"
  BY DEF SignAnswer
<1>3. KeysTypeOK'
  <2>1. cred[r.cred] \in Credentials /\ proposal[r.p] \in Proposals
    BY <1>1, KeysTyped DEF KeysInv
  <2>2. [cred[r.cred] EXCEPT !.count = r.proof.count] \in Credentials
    BY <1>1, <2>1 DEF Credentials
  <2>3. [proposal[r.p] EXCEPT !.signed = @ \cup {r.seat}] \in Proposals
    BY <1>2, <2>1 DEF Proposals
  <2>4. cred' \in [Creds -> Credentials] /\ proposal' \in [Pids -> Proposals]
    BY <2>2, <2>3, KeysTyped DEF KeysInv, Sign
  <2> QED
    BY <2>4, KeysTyped DEF KeysInv, Sign, Credentials, Proposals, Voices, KeysTypeOK
<1>4. version # 0
  BY <1>1, <1>2 DEF KeysInv
<1>5. \A c \in Creds : cred'[c].seat = cred[c].seat /\ cred'[c].status = cred[c].status
  BY <1>1 DEF KeysInv, KeysTypeOK, Sign
<1> QED
  BY <1>3, <1>4, <1>5, StandingKept DEF KeysInv, Sign

\* A rotation: the seat changes its key, everybody else keeps theirs.
Replaces(t, old, new) ==
  /\ old # new /\ old # Guardian /\ new # Guardian /\ new \in Replacements
  /\ old \in Suspended /\ cred[new].status = "NONE"
  /\ Live(t) = {old} /\ Live(t)' = {new}
  /\ \A s \in Seats : s # t => Live(s)' = Live(s)
  /\ \A c \in Creds :
       /\ cred'[c] \in Credentials
       /\ cred'[c].seat = IF c = new THEN t ELSE cred[c].seat
       /\ cred'[c].status = IF c = old THEN "REVOKED" ELSE IF c = new THEN "ACTIVE" ELSE cred[c].status

LEMMA RotationEffect ==
  ASSUME KeysInv, NEW r \in Activates, ActivateAnswer(r) = 200, Activate(r),
         proposal[r.p].action = "ROTATE_CREDENTIAL"
  PROVE  \E t \in Seats, old, new \in Creds :
           t = proposal[r.p].seat /\ new = proposal[r.p].new /\ Replaces(t, old, new)
<1> DEFINE p == proposal[r.p]
           n == r.guardian.count
<1>1. r.p \in Pids /\ n \in Nat /\ p \in Proposals
  BY KeysTyped DEF Activates, Proofs, KeysInv
<1>2. /\ p.state = "PROPOSED" /\ p.seat \in Seats /\ p.new \in Replacements
      /\ cred[p.new].status = "NONE" /\ \E c \in Suspended : cred[c].seat = p.seat
  BY DEF ActivateAnswer, Enough
<1>3. version # 0 /\ OneKey
  BY <1>1, <1>2 DEF KeysInv, KeysTypeOK
<1>4. cred' = Rotated(p, n) /\ version' = version /\ next' = next + 1
      /\ proposal' = [proposal EXCEPT ![r.p].state = "ACTIVATED"]
  BY DEF Activate
<1>5. p.new \in Creds /\ p.new # Guardian /\ p.new \notin Seats
  BY <1>2, SevenKeysAssumption DEF Creds, SevenKeysAssumption
<1>6. PICK old \in Creds : Live(p.seat) = {old}
  BY <1>2, <1>3 DEF OneKey
<1>7. old \in Suspended /\ cred[old].seat = p.seat /\ old # p.new /\ old # Guardian
  <2>1. \A c \in Suspended : cred[c].seat = p.seat => c \in Live(p.seat)
    BY DEF Suspended, Live
  <2>2. old \in Suspended /\ cred[old].seat = p.seat
    BY <1>2, <1>6, <2>1
  <2>3. cred[old].seat \in Seats /\ cred[old].status # "NONE"
    BY <1>2, <2>2 DEF Suspended
  <2> QED
    BY <1>2, <2>2, <2>3, <1>5, SevenKeysAssumption DEF KeysInv, SevenKeysAssumption, Creds
<1>8. \A c \in Creds :
        /\ cred'[c] \in Credentials
        /\ cred'[c].seat = IF c = p.new THEN p.seat ELSE cred[c].seat
        /\ cred'[c].status = IF c = old THEN "REVOKED" ELSE IF c = p.new THEN "ACTIVE" ELSE cred[c].status
  <2> SUFFICES ASSUME NEW c \in Creds
               PROVE  /\ cred'[c] \in Credentials
                      /\ cred'[c].seat = IF c = p.new THEN p.seat ELSE cred[c].seat
                      /\ cred'[c].status = IF c = old THEN "REVOKED" ELSE IF c = p.new THEN "ACTIVE"
                                           ELSE cred[c].status
    OBVIOUS
  <2>0. PICK k \in Credentials : k = cred[c]
    BY KeysTyped DEF KeysInv
  <2>1. "ACTIVE" \in Statuses /\ "REVOKED" \in Statuses /\ p.seat \in Voices
    BY <1>2 DEF Statuses, Voices
  <2>2. CASE c = old
    <3>1. cred'[c] = [k EXCEPT !.status = "REVOKED"]
      BY <1>4, <1>6, <2>0, <2>2 DEF Rotated
    <3> QED
      BY <1>7, <2>0, <2>1, <2>2, <3>1 DEF Credentials
  <2>3. CASE c = p.new
    <3>1. cred'[c] = [k EXCEPT !.status = "ACTIVE", !.seat = p.seat]
      BY <1>4, <1>6, <1>7, <2>0, <2>3 DEF Rotated
    <3>2. PICK s \in Statuses : s = "ACTIVE"
      BY <2>1
    <3>3. PICK v \in Voices : v = p.seat
      BY <2>1
    <3>4. PICK m : m = cred'[c]
      OBVIOUS
    <3>5. m = [k EXCEPT !.status = s, !.seat = v]
      BY <3>1, <3>2, <3>3, <3>4
    <3>6. m \in Credentials /\ m.status = s /\ m.seat = v
      BY <3>5 DEF Credentials
    <3> QED
      BY <1>7, <2>3, <3>2, <3>3, <3>4, <3>6
  <2>4. CASE c = Guardian
    <3>1. cred'[c] = [k EXCEPT !.count = n]
      BY <1>4, <1>5, <1>6, <1>7, <2>0, <2>4 DEF Rotated
    <3>2. cred'[c] \in Credentials /\ cred'[c].status = k.status /\ cred'[c].seat = k.seat
      BY <1>1, <3>1 DEF Credentials
    <3> QED
      BY <1>5, <1>7, <2>0, <2>4, <3>2
  <2>5. CASE c # old /\ c # p.new /\ c # Guardian
    <3>1. cred'[c] = cred[c] /\ cred[c] \in Credentials
      BY <1>4, <1>6, <2>0, <2>5 DEF Rotated
    <3> QED
      BY <2>5, <3>1
  <2> QED
    BY <2>2, <2>3, <2>4, <2>5
<1> DEFINE alive(c, s) == cred[c].seat = s /\ cred[c].status \in {"ACTIVE", "EMERGENCY_SUSPENDED"}
<1>9. PICK t \in Seats, new \in Creds : t = p.seat /\ new = p.new
  BY <1>2, <1>5
<1>15. Live(t)' = {new}
  <2>1. \A c \in Creds : alive(c, t) => c = old
    BY <1>6, <1>9 DEF Live
  <2>2. \A c \in Creds : alive(c, t)' <=> c = new
    BY <1>7, <1>8, <1>9, <2>1
  <2> QED
    BY <2>2 DEF Live
<1>10. \A s \in Seats : s # t => Live(s)' = Live(s)
  <2>1. \A s \in Seats, c \in Creds : s # t => (alive(c, s)' <=> alive(c, s))
    BY <1>2, <1>7, <1>8, <1>9
  <2> QED
    BY <2>1 DEF Live
<1>11. Replaces(t, old, new)
  BY <1>2, <1>5, <1>6, <1>7, <1>8, <1>9, <1>10, <1>15 DEF Replaces
<1> QED
  BY <1>9, <1>11

LEMMA RotationKeepsKeys ==
  ASSUME KeysInv, NEW r \in Activates, ActivateAnswer(r) = 200, Activate(r),
         proposal[r.p].action = "ROTATE_CREDENTIAL"
  PROVE  KeysInv'
<1> DEFINE p == proposal[r.p]
           n == r.guardian.count
<1>1. r.p \in Pids /\ n \in Nat /\ p \in Proposals
  BY KeysTyped DEF Activates, Proofs, KeysInv
<1>0. PICK t \in Seats, old, new \in Creds : Replaces(t, old, new)
  BY RotationEffect
<1>2. /\ new \in Replacements /\ old # Guardian /\ new # Guardian /\ Live(t)' = {new}
      /\ \A s \in Seats : s # t => Live(s)' = Live(s)
      /\ \A c \in Creds :
           /\ cred'[c] \in Credentials
           /\ cred'[c].seat = IF c = new THEN t ELSE cred[c].seat
           /\ cred'[c].status = IF c = old THEN "REVOKED" ELSE IF c = new THEN "ACTIVE" ELSE cred[c].status
  BY <1>0 DEF Replaces
<1>3. version # 0 /\ OneKey
  BY <1>1 DEF KeysInv, KeysTypeOK, ActivateAnswer
<1>4. cred' = Rotated(p, n) /\ version' = version /\ next' = next + 1
      /\ proposal' = [proposal EXCEPT ![r.p].state = "ACTIVATED"]
  BY DEF Activate
<1>11. Suspended' \subseteq Suspended
  BY <1>2 DEF Suspended
<1>12. OneKey'
  <2>1. \A s \in Seats : \E c \in Creds : Live(s)' = {c}
    BY <1>2, <1>3 DEF OneKey
  <2> QED
    BY <1>3, <1>11, <2>1 DEF OneKey
<1>13. KeysTypeOK'
  <2>1. cred' \in [Creds -> Credentials]
    <3>1. cred' = [c \in Creds |-> cred'[c]]
      BY <1>4 DEF Rotated
    <3> QED
      BY <1>2, <3>1
  <2>2. [p EXCEPT !.state = "ACTIVATED"] \in Proposals
    BY <1>1 DEF Proposals
  <2>3. proposal \in [Pids -> Proposals] /\ version \in Nat /\ next \in Nat
    BY KeysTyped DEF KeysInv
  <2>4. proposal' \in [Pids -> Proposals] /\ version' \in Nat /\ next' \in Nat
    <3>1. proposal' = [proposal EXCEPT ![r.p] = [p EXCEPT !.state = "ACTIVATED"]]
      BY <1>4
    <3>2. proposal' \in [Pids -> Proposals]
      BY <2>2, <2>3, <3>1
    <3> QED
      BY <1>4, <2>3, <3>2
  <2> QED
    BY <2>1, <2>4 DEF Credentials, Proposals, Voices, KeysTypeOK
<1>14. \A c \in Creds : c \notin Seats \cup Replacements => cred'[c].seat = Nobody
  BY <1>2 DEF KeysInv
<1>15. cred'[Guardian].status = cred[Guardian].status
  BY <1>2 DEF Creds
<1> QED
  BY <1>3, <1>4, <1>12, <1>13, <1>14, <1>15 DEF KeysInv

\* An amendment counts a version, a removal ends the guardian: no seat notices.
LEMMA ActivateKeepsKeys ==
  ASSUME KeysInv, NEW r \in Activates, ActivateAnswer(r) = 200, Activate(r)
  PROVE  KeysInv'
<1> DEFINE p == proposal[r.p]
<1>1. r.p \in Pids /\ p \in Proposals /\ p.state = "PROPOSED"
  BY KeysTyped DEF Activates, KeysInv, ActivateAnswer
<1>2. version # 0 /\ OneKey
  BY <1>1 DEF KeysInv, KeysTypeOK
<1>3. CASE p.action = "ROTATE_CREDENTIAL"
  BY <1>3, RotationKeepsKeys
<1>4. CASE p.action # "ROTATE_CREDENTIAL"
  <2>1. /\ next' = next + 1 /\ version' \in {version, version + 1}
        /\ proposal' = [proposal EXCEPT ![r.p].state = "ACTIVATED"]
        /\ cred' = cred \/ cred' = [cred EXCEPT ![Guardian].status = "REMOVED"]
    BY <1>4 DEF Activate
  <2>2. proposal \in [Pids -> Proposals] /\ cred \in [Creds -> Credentials] /\ version \in Nat
        /\ next \in Nat /\ Guardian \in Creds
    BY KeysTyped DEF KeysInv, Creds
  <2>3. [p EXCEPT !.state = "ACTIVATED"] \in Proposals
    BY <1>1 DEF Proposals
  <2>4. [cred[Guardian] EXCEPT !.status = "REMOVED"] \in Credentials
    <3>1. cred[Guardian] \in Credentials /\ "REMOVED" \in Statuses
      BY <2>2 DEF Statuses
    <3> QED
      BY <3>1 DEF Credentials
  <2>5. proposal' \in [Pids -> Proposals] /\ cred' \in [Creds -> Credentials] /\ version' \in Nat
        /\ next' \in Nat
    <3>1. proposal' = [proposal EXCEPT ![r.p] = [p EXCEPT !.state = "ACTIVATED"]]
      BY <2>1
    <3>2. cred' = cred \/ cred' = [cred EXCEPT ![Guardian] = [cred[Guardian] EXCEPT !.status = "REMOVED"]]
      BY <2>1
    <3>3. proposal' \in [Pids -> Proposals]
      BY <2>2, <2>3, <3>1
    <3>4. cred' \in [Creds -> Credentials]
      BY <2>2, <2>4, <3>2
    <3> QED
      BY <2>1, <2>2, <3>3, <3>4
  <2>6. KeysTypeOK'
    BY <2>5 DEF Credentials, Proposals, Voices, KeysTypeOK
  <2>7. \A c \in Creds : /\ cred'[c].seat = cred[c].seat
                         /\ c # Guardian => cred'[c].status = cred[c].status
                         /\ c = Guardian => cred'[c].status \in {cred[c].status, "REMOVED"}
    BY <2>1, <2>2 DEF Credentials
  <2>8. cred[Guardian].seat = Nobody /\ Nobody \notin Seats
    BY <2>2, SevenKeysAssumption DEF KeysInv, SevenKeysAssumption
  <2>9. \A s \in Seats : Live(s)' = Live(s)
    BY <2>7, <2>8 DEF Live
  <2>10. Suspended' \subseteq Suspended
    BY <2>7 DEF Suspended
  <2>11. OneKey'
    BY <1>2, <2>9, <2>10 DEF OneKey
  <2>12. version' > 0 /\ \A c \in Creds : c \notin Seats \cup Replacements => cred'[c].seat = Nobody
    BY <1>2, <2>1, <2>2, <2>7 DEF KeysInv
  <2> QED
    BY <2>2, <2>6, <2>7, <2>11, <2>12 DEF KeysInv
<1> QED
  BY <1>3, <1>4

\* A suspension: one credential that speaks for a seat is silent, and it alone.
LEMMA SuspendEffect ==
  ASSUME KeysInv, NEW r \in Suspends, SuspendAnswer(r) = 200, Suspend(r)
  PROVE  /\ r.cred \in Creds /\ r.seat \in Seats /\ r.cred # Guardian
         /\ Suspended = {} /\ Suspended' = {r.cred}
         /\ cred[r.cred].seat = r.seat /\ cred[r.cred].status = "ACTIVE"
         /\ \A s \in Seats : Live(s)' = Live(s)
         /\ \A c \in Creds :
              /\ cred'[c].seat = cred[c].seat
              /\ cred'[c].status = IF c = r.cred THEN "EMERGENCY_SUSPENDED" ELSE cred[c].status
<1>1. r.cred \in Creds /\ r.proof.count \in Nat /\ Guardian \in Creds
  BY DEF Suspends, Proofs, Creds
<1>2. /\ Suspended = {} /\ r.seat \in Seats /\ cred[r.cred].seat = r.seat
      /\ cred[r.cred].status = "ACTIVE"
  BY DEF SuspendAnswer
<1>3. r.cred # Guardian
  BY <1>1, <1>2, SevenKeysAssumption DEF KeysInv, SevenKeysAssumption, Creds
<1>5. \A c \in Creds : /\ cred'[c].seat = cred[c].seat
                       /\ cred'[c].status = IF c = r.cred THEN "EMERGENCY_SUSPENDED" ELSE cred[c].status
  BY <1>1, <1>3 DEF KeysInv, KeysTypeOK, Suspend
<1>6. \A s \in Seats : Live(s)' = Live(s)
  BY <1>2, <1>5 DEF Live
<1>7. Suspended' = {r.cred}
  BY <1>1, <1>2, <1>5 DEF Suspended
<1> QED
  BY <1>1, <1>2, <1>3, <1>5, <1>6, <1>7

LEMMA SuspendKeepsKeys ==
  ASSUME KeysInv, NEW r \in Suspends, SuspendAnswer(r) = 200, Suspend(r)
  PROVE  KeysInv'
<1>1. r.cred \in Creds /\ r.proof.count \in Nat /\ Guardian \in Creds
  BY DEF Suspends, Proofs, Creds
<1>4. KeysTypeOK'
  <2>1. cred \in [Creds -> Credentials]
    BY DEF KeysInv, KeysTypeOK, Credentials, Voices
  <2>2. PICK n \in Nat : n = r.proof.count
    BY <1>1
  <2>3. cred' = [cred EXCEPT ![r.cred].status = "EMERGENCY_SUSPENDED", ![Guardian].count = n]
    BY <2>2 DEF Suspend
  <2>4. cred' \in [Creds -> Credentials]
    BY <1>1, <2>1, <2>3 DEF Credentials, Statuses
  <2>5. proposal' = proposal /\ version' = version /\ next' = next + 1
    BY DEF Suspend
  <2> QED
    BY <2>4, <2>5 DEF KeysInv, KeysTypeOK, Credentials, Voices
<1>5. /\ Suspended' = {r.cred} /\ \A s \in Seats : Live(s)' = Live(s)
      /\ cred[r.cred].status = "ACTIVE" /\ \A c \in Creds : cred'[c].seat = cred[c].seat
  BY SuspendEffect
<1>8. version # 0
  BY <1>1, <1>5 DEF KeysInv
<1>9. OneKey'
  BY <1>1, <1>5, <1>8 DEF OneKey, KeysInv, KeysTypeOK
<1>10. version' = version
  BY DEF Suspend
<1>11. \A c \in Creds : c \notin Seats \cup Replacements => cred'[c].seat = Nobody
  BY <1>5 DEF KeysInv
<1>12. cred'[Guardian].status = cred[Guardian].status
  BY <1>1, SuspendEffect
<1> QED
  BY <1>4, <1>8, <1>9, <1>10, <1>11, <1>12 DEF KeysInv

\* One request, whatever it is, leaves every seat its key.
LEMMA ServeKeepsKeys ==
  ASSUME KeysInv, NEW r \in KeyRequests, Serve(r)
  PROVE  KeysInv'
<1>1. CASE r.op = "register" /\ RegisterAnswer(r) = 200 /\ Register(r)
  <2>1. r \in Registers
    BY <1>1 DEF KeyRequests, Bootstraps, Registers, Proposes, Signs, Activates, Suspends, Asks
  <2> QED
    BY <1>1, <2>1, RegisterKeepsKeys
<1>2. CASE r.op = "bootstrap" /\ BootstrapAnswer(r) = 200 /\ Bootstrap(r)
  <2>1. r \in Bootstraps
    BY <1>2 DEF KeyRequests, Bootstraps, Registers, Proposes, Signs, Activates, Suspends, Asks
  <2> QED
    BY <1>2, <2>1, BootstrapKeepsKeys
<1>3. CASE r.op = "propose" /\ ProposeAnswer(r) = 200 /\ Propose(r)
  <2>1. r \in Proposes
    BY <1>3 DEF KeyRequests, Bootstraps, Registers, Proposes, Signs, Activates, Suspends, Asks
  <2> QED
    BY <1>3, <2>1, ProposeKeepsKeys
<1>4. CASE r.op = "sign" /\ SignAnswer(r) = 200 /\ Sign(r)
  <2>1. r \in Signs
    BY <1>4 DEF KeyRequests, Bootstraps, Registers, Proposes, Signs, Activates, Suspends, Asks
  <2> QED
    BY <1>4, <2>1, SignKeepsKeys
<1>5. CASE r.op = "activate" /\ ActivateAnswer(r) = 200 /\ Activate(r)
  <2>1. r \in Activates
    BY <1>5 DEF KeyRequests, Bootstraps, Registers, Proposes, Signs, Activates, Suspends, Asks
  <2> QED
    BY <1>5, <2>1, ActivateKeepsKeys
<1>6. CASE r.op = "suspend" /\ SuspendAnswer(r) = 200 /\ Suspend(r)
  <2>1. r \in Suspends
    BY <1>6 DEF KeyRequests, Bootstraps, Registers, Proposes, Signs, Activates, Suspends, Asks
  <2> QED
    BY <1>6, <2>1, SuspendKeepsKeys
<1>7. CASE UNCHANGED keys
  BY <1>7 DEF keys, KeysInv, KeysTypeOK, OneKey, Live, Suspended
<1> QED
  BY <1>1, <1>2, <1>3, <1>4, <1>5, <1>6, <1>7 DEF Serve
-----------------------------------------------------------------------------
(***************************************************************************)
(* The community                                                           *)
(***************************************************************************)
\* What a request is for the handler that takes it.
LEMMA CommunityForm ==
  ASSUME NEW r \in CommunityRequests
  PROVE  /\ r.op \in Routes /\ r.by \in Users /\ r.tenant \in Tenants /\ r.who \in Users
         /\ r.id \in Int /\ r.of \in Int /\ r.kind \in Kinds /\ r.n \in Nat /\ r.version \in Nat
         /\ r.share \in BOOLEAN
         /\ r.op = "provision" => r.kind \in DOMAIN Granted
         /\ r.op = "rank" => r.kind \in Ranks
         /\ r.op \in {"publish", "edit", "close"} => r.id \in Listings
         /\ r.op \in {"offer", "counter", "accept", "decline"} => r.id \in Deals
         /\ r.op = "offer" => r.of \in Listings
         /\ r.op \in {"propose_reference", "publish_reference", "start", "vote"} => r.id \in Drafts
         /\ r.op \in {"signal", "decide"} => r.id \in CaseIds
BY DEF CommunityRequests, Form, Fits

\* A request that is accepted passed every check of its route.
LEMMA Passed ==
  ASSUME NEW r, CommunityAnswer(r) = 200, r.op \notin Fixtures
  PROVE  ~Anonymous(r) /\ ~Overreaches(r) /\ ~Hidden(r) /\ ~Conflicts(r)
BY DEF CommunityAnswer

LEMMA MarketTyped ==
  MarketTypeOK <=> /\ user \in [Users -> Accounts] /\ listing \in [Listings -> ListingRows]
                   /\ deal \in [Deals -> DealRows]
BY DEF MarketTypeOK, Accounts, ListingRows, DealRows

LEMMA EndTyped ==
  ASSUME deal \in [Deals -> DealRows], NEW r, r.id \in Deals,
         NEW status \in {"NONE", "OPEN", "ACCEPTED", "DECLINED"}, Ends(r, status)
  PROVE  deal' \in [Deals -> DealRows]
BY DEF Ends, DealRows

LEMMA CounterMeans ==
  ASSUME deal \in [Deals -> DealRows], NEW r, r.id \in Deals, r.by \in Users, r.n \in Nat, Counter(r)
  PROVE  /\ deal' \in [Deals -> DealRows]
         /\ deal'[r.id].status = deal[r.id].status /\ deal'[r.id].listing = deal[r.id].listing
         /\ deal'[r.id].version = deal[r.id].version + 1
         /\ \A d \in Deals : d # r.id => deal'[d] = deal[d]
<1>1. deal' \in [Deals -> DealRows]
  BY DEF Counter, DealRows
<1>2. deal'[r.id].status = deal[r.id].status
  BY DEF Counter, DealRows
<1>3. deal'[r.id].listing = deal[r.id].listing
  BY DEF Counter, DealRows
<1>4. deal'[r.id].version = deal[r.id].version + 1
  BY DEF Counter, DealRows
<1>5. \A d \in Deals : d # r.id => deal'[d] = deal[d]
  BY DEF Counter
<1> QED
  BY <1>1, <1>2, <1>3, <1>4, <1>5

\* An accepted or declined offer ends the negotiation about the same listing.
LEMMA EndKept ==
  ASSUME MarketTypeOK, \A d \in Deals : deal[d].status # "NONE" => deal[d].listing \in Listings,
         NEW r, r.id \in Deals, deal[r.id].status = "OPEN",
         NEW status \in {"NONE", "OPEN", "ACCEPTED", "DECLINED"}, Ends(r, status)
  PROVE  MarketTypeOK' /\ \A d \in Deals : deal'[d].status # "NONE" => deal'[d].listing \in Listings
<1>1. user \in [Users -> Accounts] /\ listing \in [Listings -> ListingRows] /\ deal \in [Deals -> DealRows]
  BY MarketTyped
<1>2. deal' \in [Deals -> DealRows]
  BY <1>1, EndTyped
<1>3. \A d \in Deals : deal'[d].listing = deal[d].listing /\ (d # r.id => deal'[d].status = deal[d].status)
  <2>1. deal'[r.id].listing = deal[r.id].listing
    BY <1>1 DEF Ends, DealRows
  <2>2. \A d \in Deals : d # r.id => deal'[d] = deal[d]
    BY <1>1 DEF Ends
  <2> QED
    BY <2>1, <2>2
<1> QED
  BY <1>1, <1>2, <1>3 DEF Ends, DealRows, MarketTypeOK

LEMMA MarketKept ==
  ASSUME CommunityInv, NEW r \in CommunityRequests, CommunityAnswer(r) = 200, CommunityStep(r)
  PROVE  MarketTypeOK' /\ \A d \in Deals : deal'[d].status # "NONE" => deal'[d].listing \in Listings
<1>a. /\ r.by \in Users /\ r.tenant \in Tenants /\ r.who \in Users /\ r.n \in Nat /\ r.share \in BOOLEAN
      /\ r.op = "provision" => r.kind \in DOMAIN Granted
      /\ r.op = "rank" => r.kind \in Ranks
      /\ r.op \in {"publish", "edit", "close"} => r.id \in Listings
      /\ r.op \in {"offer", "counter", "accept", "decline"} => r.id \in Deals
      /\ r.op = "offer" => r.of \in Listings
  BY CommunityForm
<1>b. r.op \in {"counter", "accept", "decline"} => deal[r.id].status = "OPEN"
  BY Passed DEF Conflicts, Stale, Fixtures
<1>1. MarketTypeOK /\ \A d \in Deals : deal[d].status # "NONE" => deal[d].listing \in Listings
  BY DEF CommunityInv, CommunityTypeOK
<1>0. user \in [Users -> Accounts] /\ listing \in [Listings -> ListingRows] /\ deal \in [Deals -> DealRows]
  BY <1>1, MarketTyped
<1>2. CASE UNCHANGED market
  BY <1>1, <1>2 DEF market, MarketTypeOK
<1>3. CASE r.op = "provision" /\ Provision(r)
  BY <1>1, <1>3, <1>a DEF Provision, MarketTypeOK, Ranks
<1>4. CASE r.op = "rank" /\ Rank(r)
  <2>1. [user[r.who] EXCEPT !.rank = r.kind] \in Accounts
    BY <1>0, <1>4, <1>a DEF Accounts
  <2>2. user' = [user EXCEPT ![r.who] = [user[r.who] EXCEPT !.rank = r.kind]]
    BY <1>4 DEF Rank
  <2>3. user' \in [Users -> Accounts]
    BY <1>0, <2>1, <2>2, <1>a
  <2> QED
    BY <1>1, <1>4, <2>3 DEF Rank, Accounts, MarketTypeOK
<1>5. CASE r.op = "publish" /\ Publish(r)
  BY <1>1, <1>5, <1>a DEF Publish, MarketTypeOK
<1>6. CASE r.op = "edit" /\ Edit(r)
  <2>1. listing' \in [Listings -> ListingRows]
    BY <1>0, <1>6, <1>a DEF Edit, ListingRows
  <2> QED
    BY <1>1, <1>6, <2>1 DEF Edit, ListingRows, MarketTypeOK
<1>7. CASE r.op = "close" /\ Close(r)
  <2>1. listing' \in [Listings -> ListingRows]
    BY <1>0, <1>7, <1>a DEF Close, ListingRows
  <2> QED
    BY <1>1, <1>7, <2>1 DEF Close, ListingRows, MarketTypeOK
<1>8. CASE r.op = "offer" /\ Offer(r)
  BY <1>1, <1>8, <1>a DEF Offer, MarketTypeOK
<1>9. CASE r.op = "counter" /\ Counter(r)
  <2>1. deal' \in [Deals -> DealRows]
    BY <1>0, <1>9, <1>a, CounterMeans
  <2>2. \A d \in Deals : deal'[d].status = deal[d].status /\ deal'[d].listing = deal[d].listing
    BY <1>0, <1>9, <1>a, CounterMeans
  <2> QED
    BY <1>1, <1>9, <2>1, <2>2 DEF Counter, DealRows, MarketTypeOK
<1>10. CASE r.op = "accept" /\ Ends(r, "ACCEPTED")
  BY <1>1, <1>10, <1>a, <1>b, EndKept
<1>11. CASE r.op = "decline" /\ Ends(r, "DECLINED")
  BY <1>1, <1>11, <1>a, <1>b, EndKept
<1> QED
  BY <1>2, <1>3, <1>4, <1>5, <1>6, <1>7, <1>8, <1>9, <1>10, <1>11 DEF CommunityStep, MarketStep

LEMMA ReferenceKept ==
  ASSUME CommunityInv, NEW r \in CommunityRequests
  PROVE  ReferenceNext(r) \in [definitions : Nat, policy : Nat, wide : BOOLEAN, drafts : SUBSET Drafts,
                               versions : Seq(Drafts)]
<1>1. reference \in [definitions : Nat, policy : Nat, wide : BOOLEAN, drafts : SUBSET Drafts,
                     versions : Seq(Drafts)]
  BY DEF CommunityInv, CommunityTypeOK
<1>2. r.op \in {"propose_reference", "publish_reference"} => r.id \in Drafts
  BY CommunityForm
<1>3. CASE r.op = "define"
  <2>1. PICK a \in Nat, b \in Nat : /\ a = reference.definitions + 1
                                    /\ b = IF reference.policy = 0 THEN 1 ELSE reference.policy
    BY <1>1
  <2>2. ReferenceNext(r) = [reference EXCEPT !.definitions = a, !.policy = b]
    BY <1>1, <1>3, <2>1 DEF ReferenceNext
  <2> QED
    BY <1>1, <2>2
<1>4. CASE r.op = "policy"
  <2>1. PICK a \in Nat : a = reference.policy + 1
    BY <1>1
  <2>3. PICK b \in BOOLEAN : b = (r.kind = "WIDE")
    OBVIOUS
  <2>2. ReferenceNext(r) = [reference EXCEPT !.policy = a, !.wide = b]
    BY <1>1, <1>4, <2>1, <2>3 DEF ReferenceNext
  <2> QED
    BY <1>1, <2>2
<1>5. CASE r.op = "propose_reference"
  BY <1>1, <1>2, <1>5 DEF ReferenceNext
<1>6. CASE r.op = "publish_reference"
  <2>1. Append(reference.versions, r.id) \in Seq(Drafts)
    BY <1>1, <1>2, <1>6
  <2> QED
    BY <1>1, <1>6, <2>1 DEF ReferenceNext
<1> QED
  BY <1>1, <1>3, <1>4, <1>5, <1>6 DEF ReferenceNext

LEMMA GovernanceKept ==
  ASSUME CommunityInv, NEW r \in CommunityRequests
  PROVE  GovernanceNext(r) \in [enabled : BOOLEAN, roster : SUBSET Users, terms : Nat]
<1>1. governance \in [enabled : BOOLEAN, roster : SUBSET Users, terms : Nat] /\ r.who \in Users
  BY CommunityForm DEF CommunityInv
<1>2. CASE r.op = "enrol"
  BY <1>1, <1>2 DEF GovernanceNext
<1>3. CASE r.op = "settings"
  BY <1>1, <1>3 DEF GovernanceNext
<1>4. CASE r.op = "terms"
  BY <1>1, <1>4 DEF GovernanceNext
<1> QED
  BY <1>1, <1>2, <1>3, <1>4 DEF GovernanceNext

LEMMA BallotKept ==
  ASSUME CommunityInv, NEW r \in CommunityRequests, CommunityAnswer(r) = 200
  PROVE  /\ BallotNext(r) \in [Drafts -> [roll : SUBSET Users, votes : Seq(Votes)]]
         /\ \A p \in Drafts : BallotNext(r)[p].roll = {} => BallotNext(r)[p].votes = <<>>
<1>1. /\ ballot \in [Drafts -> [roll : SUBSET Users, votes : Seq(Votes)]]
      /\ \A p \in Drafts : ballot[p].roll = {} => ballot[p].votes = <<>>
      /\ governance.roster \in SUBSET Users
  BY DEF CommunityInv
<1>2. r.by \in Users /\ r.kind \in Kinds /\ (r.op \in {"start", "vote"} => r.id \in Drafts)
  BY CommunityForm
<1>3. CASE r.op = "start"
  BY <1>1, <1>2, <1>3 DEF BallotNext
<1>4. CASE r.op = "vote"
  <2>1. r.by \in ballot[r.id].roll
    BY <1>4, Passed DEF Overreaches, Fixtures
  <2>2. Append(ballot[r.id].votes, [by |-> r.by, choice |-> r.kind]) \in Seq(Votes)
    <3>1. ballot[r.id].votes \in Seq(Votes)
      BY <1>1, <1>2, <1>4
    <3>2. [by |-> r.by, choice |-> r.kind] \in Votes
      BY <1>2 DEF Votes
    <3> QED
      BY <3>1, <3>2, AppendProperties
  <2>3. BallotNext(r) = [ballot EXCEPT ![r.id].votes = Append(@, [by |-> r.by, choice |-> r.kind])]
    BY <1>4 DEF BallotNext
  <2>4. PICK vs \in Seq(Votes) : vs = Append(ballot[r.id].votes, [by |-> r.by, choice |-> r.kind])
    BY <2>2
  <2>5. BallotNext(r) = [ballot EXCEPT ![r.id].votes = vs]
    BY <2>3, <2>4
  <2>6. BallotNext(r) \in [Drafts -> [roll : SUBSET Users, votes : Seq(Votes)]]
    BY <1>1, <1>2, <1>4, <2>5
  <2>7. \A p \in Drafts : /\ BallotNext(r)[p].roll = ballot[p].roll
                          /\ p # r.id => BallotNext(r)[p].votes = ballot[p].votes
    BY <1>1, <1>2, <1>4, <2>5
  <2>8. \A p \in Drafts : BallotNext(r)[p].roll = {} => p # r.id /\ ballot[p].roll = {}
    BY <2>1, <2>7
  <2>9. \A p \in Drafts : BallotNext(r)[p].roll = {} => BallotNext(r)[p].votes = <<>>
    BY <1>1, <2>7, <2>8
  <2> QED
    BY <2>6, <2>9
<1> QED
  BY <1>1, <1>3, <1>4 DEF BallotNext

LEMMA CaseKept ==
  ASSUME CommunityInv, NEW r \in CommunityRequests, CommunityAnswer(r) = 200
  PROVE  /\ CaseNext(r) \in [CaseIds -> Cases]
         /\ \A c \in CaseIds : CaseNext(r)[c].on \in {0} \cup DOMAIN observation
<1>1. case \in [CaseIds -> Cases] /\ \A c \in CaseIds : case[c].on \in {0} \cup DOMAIN observation
  BY DEF CommunityInv, CommunityTypeOK
<1>2. r.by \in Users /\ r.of \in Int /\ (r.op \in {"signal", "decide"} => r.id \in CaseIds)
  BY CommunityForm
<1>3. ASSUME r.op \in {"signal", "decide"}, NEW row \in Cases, row.on \in {0} \cup DOMAIN observation,
             CaseNext(r) = [case EXCEPT ![r.id] = row]
      PROVE  /\ CaseNext(r) \in [CaseIds -> Cases]
             /\ \A c \in CaseIds : CaseNext(r)[c].on \in {0} \cup DOMAIN observation
  BY <1>1, <1>2, <1>3
<1>4. CASE r.op = "signal"
  <2>1. r.of \in DOMAIN observation
    BY <1>4, Passed DEF Hidden, Fixtures
  <2>2. <<[status |-> "SIGNAL", by |-> r.by]>> \in Seq(Rulings)
    BY <1>2 DEF Decisions, Rulings
  <2>3. PICK row : row = [on |-> r.of, history |-> <<[status |-> "SIGNAL", by |-> r.by]>>]
    OBVIOUS
  <2>4. row \in Cases /\ row.on = r.of
    BY <1>2, <2>2, <2>3 DEF Cases
  <2>5. CaseNext(r) = [case EXCEPT ![r.id] = row]
    BY <1>4, <2>3 DEF CaseNext
  <2> QED
    BY <1>3, <1>4, <2>1, <2>4, <2>5
<1>5. CASE r.op = "decide"
  <2>1. PICK k \in Cases : k = case[r.id]
    BY <1>1, <1>2, <1>5
  <2>2. r.kind \in Decisions
    BY <1>5, Passed DEF Conflicts, Skips, Fixtures, Decisions
  <2>3. [status |-> r.kind, by |-> r.by] \in Rulings /\ k.history \in Seq(Rulings)
    BY <1>2, <2>2 DEF Rulings, Cases
  <2>4. PICK h \in Seq(Rulings) : h = Append(k.history, [status |-> r.kind, by |-> r.by])
    <3>1. Append(k.history, [status |-> r.kind, by |-> r.by]) \in Seq(Rulings)
      BY <2>3, AppendProperties
    <3> QED
      BY <3>1
  <2>5. PICK row : row = [k EXCEPT !.history = h]
    OBVIOUS
  <2>6. row \in Cases /\ row.on = k.on
    BY <2>5 DEF Cases
  <2>7. CaseNext(r) = [case EXCEPT ![r.id] = row]
    BY <1>5, <2>1, <2>4, <2>5 DEF CaseNext
  <2> QED
    BY <1>1, <1>2, <1>3, <1>5, <2>1, <2>6, <2>7
<1> QED
  BY <1>1, <1>4, <1>5 DEF CaseNext

\* A request leaves at most one trace, a typed one of today.
LEMMA TracesTyped ==
  ASSUME CommunityInv, NEW r \in CommunityRequests, CommunityAnswer(r) = 200
  PROVE  /\ Traces(r) \in Seq(Observations)
         /\ \A i \in DOMAIN Traces(r) : Traces(r)[i].day = today
<1>1. /\ r.by \in Users /\ r.share \in BOOLEAN /\ r.kind \in Kinds /\ r.id \in Int /\ today \in Int
      /\ r.op = "offer" => r.of \in Listings
      /\ r.op = "accept" => r.id \in Deals
  BY CommunityForm DEF CommunityInv, CommunityTypeOK
<1>2. ASSUME NEW t \in Observations, t.day = today, Traces(r) = << t >>
      PROVE  /\ Traces(r) \in Seq(Observations)
             /\ \A i \in DOMAIN Traces(r) : Traces(r)[i].day = today
  BY <1>2
<1>3. CASE reference.definitions = 0 \/ Traces(r) = <<>>
  <2>1. Traces(r) = <<>>
    BY <1>3 DEF Traces
  <2> QED
    BY <2>1
<1>4. CASE reference.definitions # 0 /\ r.op \in {"publish", "edit"} /\ r.share
  <2>1. Traces(r) = << Trace(r.kind, r.id, {r.by}, TRUE, {r.by}) >>
    BY <1>4 DEF Traces
  <2>2. r.kind \in Sources4 /\ r.id \in Int \cup Listings /\ {r.by} \in SUBSET Users /\ TRUE \in BOOLEAN
    BY <1>1 DEF Sources4
  <2>3. PICK t : t = Trace(r.kind, r.id, {r.by}, TRUE, {r.by})
    OBVIOUS
  <2>4. t \in Observations /\ t.day = today
    BY <1>1, <2>2, <2>3 DEF Trace, Observations
  <2>5. Traces(r) = << t >>
    BY <2>1, <2>3
  <2> QED
    BY <1>2, <2>4, <2>5
<1>5. CASE reference.definitions # 0 /\ r.op = "offer"
  <2>1. listing[r.of].owner \in Users
    BY <1>1, <1>5 DEF CommunityInv, CommunityTypeOK, MarketTypeOK
  <2> QED
    <3>1. Traces(r) = << Trace("PROPOSAL", r.of, {r.by, listing[r.of].owner}, r.share, {}) >>
      BY <1>5 DEF Traces
    <3>2. /\ "PROPOSAL" \in Sources4 /\ r.of \in Int \cup Listings
          /\ {r.by, listing[r.of].owner} \in SUBSET Users /\ {} \in SUBSET Users
      BY <1>1, <1>5, <2>1 DEF Sources4
    <3>3. PICK t : t = Trace("PROPOSAL", r.of, {r.by, listing[r.of].owner}, r.share, {})
      OBVIOUS
    <3>4. t \in Observations /\ t.day = today
      BY <1>1, <3>2, <3>3 DEF Trace, Observations
    <3>5. Traces(r) = << t >>
      BY <3>1, <3>3
    <3> QED
      BY <1>2, <3>4, <3>5
<1>6. CASE reference.definitions # 0 /\ r.op = "accept"
  <2>1. deal[r.id].status = "OPEN"
    BY <1>6, Passed DEF Conflicts, Stale, Fixtures
  <2>2. deal[r.id].listing \in Listings /\ deal[r.id].shared \in BOOLEAN /\ deal[r.id].buyer \in Users
    BY <1>1, <1>6, <2>1 DEF CommunityInv, CommunityTypeOK, MarketTypeOK
  <2>3. Parties(r.id) \in SUBSET Users
    BY <2>2 DEF Parties, CommunityInv, CommunityTypeOK, MarketTypeOK
  <2> DEFINE given == (IF deal[r.id].shared THEN Parties(r.id) \ {r.by} ELSE {})
                      \cup (IF r.share THEN {r.by} ELSE {})
  <2>4. Traces(r) = << Trace("AGREEMENT", deal[r.id].listing, Parties(r.id),
                             deal[r.id].shared /\ r.share, given) >>
    BY <1>6 DEF Traces
  <2>5. given \in SUBSET Users
    BY <1>1, <2>3
  <2> HIDE DEF given
  <2> QED
    <3>1. /\ "AGREEMENT" \in Sources4 /\ deal[r.id].listing \in Int \cup Listings
          /\ (deal[r.id].shared /\ r.share) \in BOOLEAN
      BY <2>2 DEF Sources4
    <3>3. PICK t : t = Trace("AGREEMENT", deal[r.id].listing, Parties(r.id),
                             deal[r.id].shared /\ r.share, given)
      OBVIOUS
    <3>4. t \in Observations /\ t.day = today
      BY <1>1, <2>3, <2>5, <3>1, <3>3 DEF Trace, Observations
    <3>5. Traces(r) = << t >>
      BY <2>4, <3>3
    <3> QED
      BY <1>2, <3>4, <3>5
<1> QED
  BY <1>3, <1>4, <1>5, <1>6 DEF Traces

LEMMA ObservationKept ==
  ASSUME CommunityInv, NEW r \in CommunityRequests, CommunityAnswer(r) = 200
  PROVE  /\ ObservationNext(r) \in Seq(Observations)
         /\ DOMAIN observation \subseteq DOMAIN ObservationNext(r)
         /\ \A o \in DOMAIN ObservationNext(r) : ObservationNext(r)[o].day <= today
<1>1. /\ observation \in Seq(Observations) /\ today \in Nat
      /\ \A o \in DOMAIN observation : observation[o].day <= today
  BY DEF CommunityInv, CommunityTypeOK
<1>2. r.by \in Users /\ r.n \in Nat
  BY CommunityForm
<1>3. ASSUME NEW o \in DOMAIN observation, NEW x \in Observations, x.day <= today,
             ObservationNext(r) = [observation EXCEPT ![o] = x]
      PROVE  /\ ObservationNext(r) \in Seq(Observations)
             /\ DOMAIN observation \subseteq DOMAIN ObservationNext(r)
             /\ \A i \in DOMAIN ObservationNext(r) : ObservationNext(r)[i].day <= today
  BY <1>1, <1>3, ExceptSeq
<1>4. CASE ObservationNext(r) = observation
  BY <1>1, <1>4
<1>5. CASE ObservationNext(r) = observation \o Traces(r)
  BY <1>1, <1>5, TracesTyped
<1>6. CASE r.op = "withdraw"
  <2>1. CASE r.id \in DOMAIN observation
    <3>1. PICK k \in Observations : k = observation[r.id]
      BY <1>1, <2>1
    <3>2. PICK w \in Seq(Users) : w = Append(k.withdrawn, r.by)
      <4>1. k.withdrawn \in Seq(Users)
        BY DEF Observations
      <4>2. Append(k.withdrawn, r.by) \in Seq(Users)
        BY <1>2, <4>1, AppendProperties
      <4> QED
        BY <4>2
    <3>3. PICK x : x = [k EXCEPT !.withdrawn = w]
      OBVIOUS
    <3>4. x \in Observations /\ x.day = k.day
      BY <3>3 DEF Observations
    <3>5. ObservationNext(r) \in {observation, [observation EXCEPT ![r.id] = x]}
      BY <1>6, <3>1, <3>2, <3>3 DEF ObservationNext
    <3> QED
      BY <1>1, <1>3, <1>4, <2>1, <3>1, <3>4, <3>5
  <2>2. CASE r.id \notin DOMAIN observation
    BY <1>1, <1>4, <1>6, <2>2 DEF ObservationNext
  <2> QED
    BY <2>1, <2>2
<1>7. CASE r.op = "anonymize"
  <2>1. r.id \in DOMAIN observation
    BY <1>7, Passed DEF Conflicts, Due, Fixtures
  <2>2. PICK k \in Observations : k = observation[r.id]
    BY <1>1, <2>1
  <2>3. PICK x : x = [k EXCEPT !.anonymous = TRUE, !.parties = {}]
    OBVIOUS
  <2>4. x \in Observations /\ x.day = k.day
    BY <2>3 DEF Observations
  <2>5. ObservationNext(r) = [observation EXCEPT ![r.id] = x]
    BY <1>1, <1>7, <2>1, <2>2, <2>3 DEF ObservationNext
  <2> QED
    BY <1>1, <1>3, <2>1, <2>2, <2>4, <2>5
<1>8. CASE r.op = "backdate"
  <2>1. CASE r.id \in DOMAIN observation
    <3>1. PICK k \in Observations : k = observation[r.id]
      BY <1>1, <2>1
    <3>2. PICK d \in Int : d = today - r.n
      BY <1>1, <1>2
    <3>3. PICK x : x = [k EXCEPT !.day = d]
      OBVIOUS
    <3>4. x \in Observations /\ x.day = d
      BY <3>3 DEF Observations
    <3>5. ObservationNext(r) = [observation EXCEPT ![r.id] = x]
      BY <1>8, <3>1, <3>2, <3>3 DEF ObservationNext
    <3> QED
      BY <1>1, <1>2, <1>3, <2>1, <3>2, <3>4, <3>5
  <2>2. CASE r.id \notin DOMAIN observation
    BY <1>1, <1>4, <1>8, <2>2 DEF ObservationNext
  <2> QED
    BY <2>1, <2>2
<1> QED
  BY <1>5, <1>6, <1>7, <1>8 DEF ObservationNext

LEMMA IdentityKept ==
  ASSUME CommunityInv, NEW r \in CommunityRequests
  PROVE  IdentityNext(r) \in [bound : SUBSET Users, subject : [Users -> Int],
                              projection : [Users -> Independence]]
<1>1. identity \in [bound : SUBSET Users, subject : [Users -> Int], projection : [Users -> Independence]]
  BY DEF CommunityInv
<1>2. r.who \in Users /\ r.id \in Int
  BY CommunityForm
<1>3. Asked(r.who) \in Independence
  BY DEF Asked, Independence
<1> QED
  BY <1>1, <1>2, <1>3 DEF IdentityNext

\* One request of the community or the marketplace, whatever it is.
LEMMA CommunityServeKeeps ==
  ASSUME CommunityInv, NEW r \in CommunityRequests, CommunityServe(r), today' = today
  PROVE  CommunityInv'
<1>1. CASE UNCHANGED community
  BY <1>1 DEF community, market, CommunityInv, CommunityTypeOK, MarketTypeOK
<1>2. CASE CommunityAnswer(r) = 200 /\ CommunityStep(r)
  <2>1. MarketTypeOK' /\ \A d \in Deals : deal'[d].status # "NONE" => deal'[d].listing \in Listings
    BY <1>2, MarketKept
  <2>2. reference' \in [definitions : Nat, policy : Nat, wide : BOOLEAN, drafts : SUBSET Drafts,
                        versions : Seq(Drafts)]
    BY <1>2, ReferenceKept DEF CommunityStep
  <2>3. governance' \in [enabled : BOOLEAN, roster : SUBSET Users, terms : Nat]
    BY <1>2, GovernanceKept DEF CommunityStep
  <2>4. /\ ballot' \in [Drafts -> [roll : SUBSET Users, votes : Seq(Votes)]]
        /\ \A p \in Drafts : ballot'[p].roll = {} => ballot'[p].votes = <<>>
    BY <1>2, BallotKept DEF CommunityStep
  <2>5. /\ observation' \in Seq(Observations) /\ DOMAIN observation \subseteq DOMAIN observation'
        /\ \A o \in DOMAIN observation' : observation'[o].day <= today'
    BY <1>2, ObservationKept DEF CommunityStep
  <2>6. case' \in [CaseIds -> Cases] /\ \A c \in CaseIds : case'[c].on \in {0} \cup DOMAIN observation
    BY <1>2, CaseKept DEF CommunityStep
  <2>7. identity' \in [bound : SUBSET Users, subject : [Users -> Int], projection : [Users -> Independence]]
    BY <1>2, IdentityKept DEF CommunityStep
  <2>8. period' \in Nat
    BY <1>2, CommunityForm DEF CommunityStep, CommunityInv, CommunityTypeOK
  <2>9. snapshot'.day \in Int /\ snapshot'.included \cup snapshot'.excluded \subseteq DOMAIN observation
    BY <1>2 DEF CommunityStep, CommunityInv, CommunityTypeOK, Snapshot
  <2>10. context' \in [Deals -> Nat \cup {-1}]
    <3>1. Len(reference.versions) \in Nat /\ context \in [Deals -> Nat \cup {-1}]
      BY DEF CommunityInv, CommunityTypeOK
    <3>2. context' = context \/ context' = [context EXCEPT ![r.id] = Len(reference.versions)]
      BY <1>2 DEF CommunityStep
    <3> QED
      BY <3>1, <3>2
  <2>11. \A o \in DOMAIN observation' : observation'[o].parties \subseteq Users /\ observation'[o].given \subseteq Users
    <3>1. \A o \in DOMAIN observation' : observation'[o] \in Observations
      BY <2>5
    <3> QED
      BY <3>1 DEF Observations
  <2>12. CommunityTypeOK'
    BY <2>1, <2>2, <2>3, <2>4, <2>5, <2>6, <2>7, <2>8, <2>9, <2>10, <2>11
    DEF CommunityTypeOK, CommunityInv
  <2> QED
    BY <2>1, <2>3, <2>4, <2>5, <2>6, <2>7, <2>9, <2>12 DEF CommunityInv
<1> QED
  BY <1>1, <1>2 DEF CommunityServe

LEMMA MidnightKeeps ==
  ASSUME CommunityInv, UNCHANGED community, today' = today + 1
  PROVE  CommunityInv'
<1>1. today' \in Nat /\ \A o \in DOMAIN observation : observation[o].day <= today'
  <2>1. \A o \in DOMAIN observation : observation[o].day \in Int /\ observation[o].day <= today
    <3>1. \A o \in DOMAIN observation : observation[o] \in Observations /\ observation[o].day <= today
      BY DEF CommunityInv, CommunityTypeOK
    <3> QED
      BY <3>1 DEF Observations
  <2> QED
    BY <2>1 DEF CommunityInv, CommunityTypeOK
<1> QED
  BY <1>1 DEF community, market, CommunityInv, CommunityTypeOK, MarketTypeOK

LEMMA CommunityInitially == CommunityInit => CommunityInv
<1> SUFFICES ASSUME CommunityInit PROVE CommunityInv
  OBVIOUS
<1>1. MarketTypeOK /\ \A d \in Deals : deal[d].status = "NONE"
  BY MarketplaceAssumption DEF MarketplaceAssumption, CommunityInit, MarketInit, MarketTypeOK,
     NoUser,
     NoListing, NoDeal, Tenants, Ranks
<1>2. reference \in [definitions : Nat, policy : Nat, wide : BOOLEAN, drafts : SUBSET Drafts,
                     versions : Seq(Drafts)]
  BY DEF CommunityInit
<1>3. governance \in [enabled : BOOLEAN, roster : SUBSET Users, terms : Nat]
  BY DEF CommunityInit
<1>4. /\ ballot \in [Drafts -> [roll : SUBSET Users, votes : Seq(Votes)]]
      /\ \A p \in Drafts : ballot[p].votes = <<>>
  BY DEF CommunityInit
<1>5. observation = <<>> /\ observation \in Seq(Observations) /\ DOMAIN observation = {}
  BY DEF CommunityInit
<1>6. case \in [CaseIds -> Cases] /\ \A c \in CaseIds : case[c].on = 0
  BY DEF CommunityInit, Cases
<1>7. identity \in [bound : SUBSET Users, subject : [Users -> Int], projection : [Users -> Independence]]
  BY DEF CommunityInit, Independence
<1>8. snapshot.day \in Int /\ snapshot.included = {} /\ snapshot.excluded = {} /\ period \in Nat /\ today \in Nat
      /\ context \in [Deals -> Nat \cup {-1}]
  BY DEF CommunityInit
<1> QED
  BY <1>1, <1>2, <1>3, <1>4, <1>5, <1>6, <1>7, <1>8 DEF CommunityInv, CommunityTypeOK
-----------------------------------------------------------------------------
(***************************************************************************)
(* What was accepted is known                                              *)
(***************************************************************************)
\* No resolution, signature or sequence is ever taken back.
LEMMA KeysProgress ==
  ASSUME KeysInv, NEW q \in KeyRequests, Serve(q)
  PROVE  /\ version' >= version /\ next' >= next
         /\ \A p \in Pids : /\ proposal[p].state # "NONE" => /\ proposal'[p].state # "NONE"
                                                             /\ proposal[p].signed \subseteq proposal'[p].signed
                            /\ proposal[p].state = "ACTIVATED" => proposal'[p].state = "ACTIVATED"
<1>1. proposal \in [Pids -> Proposals] /\ version \in Nat /\ next \in Nat
  BY KeysTyped DEF KeysInv
<1>2. CASE q.op = "register" /\ RegisterAnswer(q) = 200 /\ Register(q)
  BY <1>1, <1>2 DEF Register
<1>3. CASE q.op = "bootstrap" /\ BootstrapAnswer(q) = 200 /\ Bootstrap(q)
  <2>1. version = 0
    BY <1>1, <1>3 DEF BootstrapAnswer
  <2>2. version' = 1 /\ next' = next + 1 /\ proposal' = proposal
    BY <1>3 DEF Bootstrap
  <2> QED
    BY <1>1, <2>1, <2>2
<1>4. CASE q.op = "propose" /\ ProposeAnswer(q) = 200 /\ Propose(q)
  BY <1>1, <1>4 DEF Propose, ProposeAnswer
<1>5. CASE q.op = "sign" /\ SignAnswer(q) = 200 /\ Sign(q)
  <2>1. \A p \in Pids : proposal'[p].state = proposal[p].state /\ proposal[p].signed \subseteq proposal'[p].signed
    BY <1>1, <1>5 DEF Sign, Proposals
  <2> QED
    BY <1>1, <1>5, <2>1 DEF Sign
<1>6. CASE q.op = "activate" /\ ActivateAnswer(q) = 200 /\ Activate(q)
  <2>1. \A p \in Pids : /\ proposal'[p].state \in {proposal[p].state, "ACTIVATED"}
                        /\ proposal'[p].signed = proposal[p].signed
    BY <1>1, <1>6 DEF Activate, Proposals
  <2> QED
    BY <1>1, <1>6, <2>1 DEF Activate
<1>7. CASE q.op = "suspend" /\ SuspendAnswer(q) = 200 /\ Suspend(q)
  BY <1>1, <1>7 DEF Suspend
<1>8. CASE UNCHANGED keys
  BY <1>1, <1>8 DEF keys
<1> QED
  BY <1>2, <1>3, <1>4, <1>5, <1>6, <1>7, <1>8 DEF Serve

LEMMA ListingProgress ==
  ASSUME CommunityInv, NEW q \in CommunityRequests, CommunityAnswer(q) = 200, CommunityStep(q)
  PROVE  \A l \in Listings : /\ listing[l].status # "NONE" =>
                                  listing'[l].status # "NONE" /\ listing'[l].version >= listing[l].version
                             /\ listing[l].status = "CLOSED" => listing'[l].status = "CLOSED"
<1>1. listing \in [Listings -> ListingRows] /\ (q.op \in {"publish", "edit", "close"} => q.id \in Listings)
  BY MarketTyped, CommunityForm DEF CommunityInv, CommunityTypeOK
<1>2. CASE UNCHANGED listing
  BY <1>1, <1>2 DEF ListingRows
<1>3. CASE q.op = "publish" /\ Publish(q)
  <2>1. listing[q.id].status = "NONE"
    BY <1>3, Passed DEF Conflicts, Stale, Fixtures
  <2>2. \A l \in Listings : l # q.id => listing'[l] = listing[l]
    BY <1>1, <1>3 DEF Publish
  <2> QED
    BY <1>1, <2>1, <2>2 DEF ListingRows
<1>4. CASE q.op = "edit" /\ Edit(q)
  BY <1>1, <1>4 DEF Edit, ListingRows
<1>5. CASE q.op = "close" /\ Close(q)
  BY <1>1, <1>5 DEF Close, ListingRows
<1> QED
  BY <1>2, <1>3, <1>4, <1>5
  DEF CommunityStep, MarketStep, market, Provision, Rank, Offer, Counter, Ends

LEMMA VoteProgress ==
  ASSUME CommunityInv, NEW q \in CommunityRequests, CommunityAnswer(q) = 200, CommunityStep(q)
  PROVE  \A u \in Users, p \in Drafts : Voted(u, p) => Voted(u, p)'
<1>1. /\ ballot \in [Drafts -> [roll : SUBSET Users, votes : Seq(Votes)]]
      /\ \A p \in Drafts : ballot[p].roll = {} => ballot[p].votes = <<>>
      /\ q.op \in {"start", "vote"} => q.id \in Drafts
      /\ ballot' = BallotNext(q)
  BY CommunityForm DEF CommunityInv, CommunityStep
<1>2. CASE q.op = "start"
  <2>1. ballot[q.id].votes = <<>>
    BY <1>1, <1>2, Passed DEF Conflicts, Fixtures
  <2>2. \A p \in Drafts : p # q.id => ballot'[p] = ballot[p]
    BY <1>1, <1>2 DEF BallotNext
  <2> QED
    BY <2>1, <2>2 DEF Voted
<1>3. CASE q.op = "vote"
  <2>1. ballot' = [ballot EXCEPT ![q.id].votes = Append(@, [by |-> q.by, choice |-> q.kind])]
    BY <1>1, <1>3 DEF BallotNext
  <2>2. PICK vs : vs = Append(ballot[q.id].votes, [by |-> q.by, choice |-> q.kind])
    OBVIOUS
  <2>3. ballot'[q.id].votes = vs /\ \A p \in Drafts : p # q.id => ballot'[p] = ballot[p]
    BY <1>1, <1>3, <2>1, <2>2
  <2>4. ballot[q.id].votes \in Seq(Votes)
    BY <1>1, <1>3
  <2>5. \A i \in DOMAIN ballot[q.id].votes : i \in DOMAIN vs /\ vs[i] = ballot[q.id].votes[i]
    BY <2>2, <2>4
  <2> QED
    BY <2>3, <2>5 DEF Voted
<1>4. CASE q.op \notin {"start", "vote"}
  BY <1>1, <1>4 DEF BallotNext, Voted
<1> QED
  BY <1>2, <1>3, <1>4

\* How a case stands after a decision.
LEMMA Decided1 ==
  ASSUME case \in [CaseIds -> Cases], NEW q, q.op = "decide", q.id \in CaseIds,
         q.kind \in Decisions, q.by \in Users, case' = CaseNext(q)
  PROVE  Status(q.id)' = q.kind /\ \A c \in CaseIds : c # q.id => case'[c] = case[c]
<1>1. case' = [case EXCEPT ![q.id].history = Append(@, [status |-> q.kind, by |-> q.by])]
  BY DEF CaseNext
<1>2. PICK k \in Cases : k = case[q.id]
  OBVIOUS
<1>3. k.history \in Seq(Rulings) /\ [status |-> q.kind, by |-> q.by] \in Rulings
  BY DEF Cases, Rulings
<1>4. PICK h : h = Append(k.history, [status |-> q.kind, by |-> q.by])
  OBVIOUS
<1>5. h \in Seq(Rulings) /\ h # <<>> /\ h[Len(h)].status = q.kind
  BY <1>3, <1>4, AppendProperties
<1>6. case'[q.id].history = h /\ \A c \in CaseIds : c # q.id => case'[c] = case[c]
  BY <1>1, <1>2, <1>4 DEF Cases
<1> QED
  BY <1>5, <1>6 DEF Status

LEMMA CaseProgress ==
  ASSUME CommunityInv, NEW q \in CommunityRequests, CommunityAnswer(q) = 200, CommunityStep(q)
  PROVE  \A c \in CaseIds : Status(c) \in {"FINAL", "DISMISSED"} => Status(c)' = Status(c)
<1>1. /\ case \in [CaseIds -> Cases] /\ q.by \in Users
      /\ q.op \in {"signal", "decide"} => q.id \in CaseIds
      /\ case' = CaseNext(q)
  BY CommunityForm DEF CommunityInv, CommunityStep
<1>2. CASE q.op = "signal"
  <2>1. Status(q.id) = "NONE"
    BY <1>2, Passed DEF Conflicts, Fixtures
  <2>2. \A c \in CaseIds : c # q.id => case'[c] = case[c]
    BY <1>1, <1>2 DEF CaseNext
  <2>3. \A c \in CaseIds : c # q.id => Status(c)' = Status(c)
    BY <2>2 DEF Status
  <2> QED
    BY <2>1, <2>3
<1>3. CASE q.op = "decide"
  <2>1. ~Skips(q)
    BY <1>3, Passed DEF Conflicts, Fixtures
  <2>2. q.kind \in Decisions /\ Status(q.id) \notin {"FINAL", "DISMISSED"}
    BY <2>1 DEF Skips, Decisions
  <2>3. Status(q.id)' = q.kind /\ \A c \in CaseIds : c # q.id => case'[c] = case[c]
    BY <1>1, <1>3, <2>2, Decided1
  <2>4. \A c \in CaseIds : c # q.id => Status(c)' = Status(c)
    BY <2>3 DEF Status
  <2> QED
    BY <2>2, <2>3, <2>4
<1>4. CASE q.op \notin {"signal", "decide"}
  BY <1>1, <1>4 DEF CaseNext, Status
<1> QED
  BY <1>2, <1>3, <1>4

LEMMA ObservationProgress ==
  ASSUME CommunityInv, NEW q \in CommunityRequests, CommunityAnswer(q) = 200, CommunityStep(q)
  PROVE  \A o \in DOMAIN observation : /\ o \in DOMAIN observation'
                                       /\ observation[o].anonymous => observation'[o].anonymous
<1>1. observation \in Seq(Observations) /\ observation' = ObservationNext(q)
  BY DEF CommunityInv, CommunityStep
<1>2. DOMAIN observation \subseteq DOMAIN observation'
  BY <1>1, ObservationKept
<1>3. CASE q.op \in {"withdraw", "anonymize", "backdate"}
  BY <1>1, <1>2, <1>3 DEF ObservationNext, Observations
<1>4. CASE q.op \notin {"withdraw", "anonymize", "backdate"}
  <2>1. observation' = observation \o Traces(q) /\ Traces(q) \in Seq(Observations)
    BY <1>1, <1>4, TracesTyped DEF ObservationNext
  <2>2. \A o \in DOMAIN observation : observation'[o] = observation[o]
    BY <1>1, <2>1
  <2> QED
    BY <1>2, <2>2
<1> QED
  BY <1>3, <1>4

\* Who withdrew consent has withdrawn it for good.
LEMMA WithdrawalProgress ==
  ASSUME CommunityInv, NEW q \in CommunityRequests, CommunityAnswer(q) = 200, CommunityStep(q)
  PROVE  /\ q.op = "withdraw" => Withdrawn(q.by, q.id)'
         /\ \A u, o : Withdrawn(u, o) => Withdrawn(u, o)'
<1>1. observation \in Seq(Observations) /\ observation' = ObservationNext(q)
  BY DEF CommunityInv, CommunityStep
<1>2. CASE q.op = "withdraw"
  <2>1. q.id \in DOMAIN observation /\ q.by \in Users
    BY <1>2, Passed, CommunityForm DEF Hidden, Fixtures
  <2>2. CASE Withdrawn(q.by, q.id)
    <3>1. observation' = observation
      BY <1>1, <1>2, <2>2 DEF ObservationNext, Withdrawn
    <3> QED
      BY <2>2, <3>1 DEF Withdrawn
  <2>3. CASE ~Withdrawn(q.by, q.id)
    <3>1. observation' = [observation EXCEPT ![q.id].withdrawn = Append(@, q.by)]
      BY <1>1, <1>2, <2>1, <2>3 DEF ObservationNext, Withdrawn
    <3>2. PICK k \in Observations : k = observation[q.id]
      BY <1>1, <2>1
    <3>3. PICK w : w = Append(k.withdrawn, q.by)
      OBVIOUS
    <3>4. k.withdrawn \in Seq(Users)
      BY DEF Observations
    <3>5. /\ w \in Seq(Users) /\ Len(w) \in DOMAIN w /\ w[Len(w)] = q.by
          /\ \A i \in DOMAIN k.withdrawn : i \in DOMAIN w /\ w[i] = k.withdrawn[i]
      BY <2>1, <3>3, <3>4, AppendProperties
    <3>6. PICK x : x = [k EXCEPT !.withdrawn = w]
      OBVIOUS
    <3>7. x.withdrawn = w
      BY <3>6 DEF Observations
    <3>8. observation' = [observation EXCEPT ![q.id] = x]
      BY <1>1, <2>1, <3>1, <3>2, <3>3, <3>6
    <3>9. /\ DOMAIN observation' = DOMAIN observation /\ observation'[q.id] = x
          /\ \A o \in DOMAIN observation : o # q.id => observation'[o] = observation[o]
      BY <1>1, <2>1, <3>8
    <3> QED
      BY <2>1, <3>2, <3>5, <3>7, <3>9 DEF Withdrawn
  <2> QED
    BY <2>2, <2>3
<1>3. CASE q.op \in {"anonymize", "backdate"}
  <2>1. \A o \in DOMAIN observation : /\ o \in DOMAIN observation'
                                      /\ observation'[o].withdrawn = observation[o].withdrawn
    BY <1>1, <1>3 DEF ObservationNext, Observations
  <2> QED
    BY <1>3, <2>1 DEF Withdrawn
<1>4. CASE q.op \notin {"withdraw", "anonymize", "backdate"}
  <2>1. observation' = observation \o Traces(q) /\ Traces(q) \in Seq(Observations)
    BY <1>1, <1>4, TracesTyped DEF ObservationNext
  <2>2. \A o \in DOMAIN observation : o \in DOMAIN observation' /\ observation'[o] = observation[o]
    BY <1>1, <2>1
  <2> QED
    BY <1>4, <2>2 DEF Withdrawn
<1> QED
  BY <1>2, <1>3, <1>4

\* Neither is what a request of the community writes: versions grow, what is closed, voted,
\* decided, withdrawn or forgotten stays so.
LEMMA CommunityProgress ==
  ASSUME CommunityInv, NEW q \in CommunityRequests, CommunityServe(q)
  PROVE  /\ \A l \in Listings : /\ listing[l].status # "NONE" =>
                                     listing'[l].status # "NONE" /\ listing'[l].version >= listing[l].version
                                /\ listing[l].status = "CLOSED" => listing'[l].status = "CLOSED"
         /\ \A u \in Users, p \in Drafts : Voted(u, p) => Voted(u, p)'
         /\ \A c \in CaseIds : Status(c) \in {"FINAL", "DISMISSED"} => Status(c)' = Status(c)
         /\ \A o \in DOMAIN observation : /\ o \in DOMAIN observation'
                                          /\ observation[o].anonymous => observation'[o].anonymous
         /\ \A u, o : Withdrawn(u, o) => Withdrawn(u, o)'
<1>1. CASE UNCHANGED community
  BY <1>1 DEF community, market, CommunityInv, CommunityTypeOK, MarketTypeOK, Voted, Status, Withdrawn
<1>2. CASE CommunityAnswer(q) = 200 /\ CommunityStep(q)
  <2>1. \A l \in Listings : /\ listing[l].status # "NONE" =>
                                 listing'[l].status # "NONE" /\ listing'[l].version >= listing[l].version
                            /\ listing[l].status = "CLOSED" => listing'[l].status = "CLOSED"
    BY <1>2, ListingProgress
  <2>2. \A u \in Users, p \in Drafts : Voted(u, p) => Voted(u, p)'
    BY <1>2, VoteProgress
  <2>3. \A c \in CaseIds : Status(c) \in {"FINAL", "DISMISSED"} => Status(c)' = Status(c)
    BY <1>2, CaseProgress
  <2>4. \A o \in DOMAIN observation : /\ o \in DOMAIN observation'
                                      /\ observation[o].anonymous => observation'[o].anonymous
    BY <1>2, ObservationProgress
  <2>5. \A u, o : Withdrawn(u, o) => Withdrawn(u, o)'
    BY <1>2, WithdrawalProgress
  <2> QED
    BY <2>1, <2>2, <2>3, <2>4, <2>5
<1> QED
  BY <1>1, <1>2 DEF CommunityServe

\* What Seven Keys accepted of the requests that are repeated it knows
\* afterwards, and what it knows it refuses.
LEMMA KeysSpend ==
  ASSUME KeysInv, NEW r \in KeyRequests, Repeatable(r), Accepted(r), Serve(r)
  PROVE  Spent(r)'
<1>1. Answer(r) = 200 /\ r.op \in {"bootstrap", "sign", "activate", "suspend"}
  BY KeysShape DEF Accepted, Repeatable
<1>2. proposal \in [Pids -> Proposals] /\ version \in Nat /\ next \in Nat
  BY KeysTyped DEF KeysInv
<1>3. CASE r.op = "bootstrap"
  <2>1. version' = 1
    BY <1>1, <1>3 DEF Serve, Bootstrap
  <2> QED
    BY <1>3, <2>1 DEF Spent
<1>4. CASE r.op = "sign"
  <2>1. r.p \in Pids /\ Sign(r) /\ SignAnswer(r) = 200
    BY <1>1, <1>4 DEF KeyRequests, Bootstraps, Registers, Proposes, Signs, Activates, Suspends,
       Asks, Serve
  <2>2. proposal[r.p].state = "PROPOSED"
    BY <2>1 DEF SignAnswer
  <2>3. proposal'[r.p].state # "NONE" /\ r.seat \in proposal'[r.p].signed
    BY <1>2, <2>1, <2>2 DEF Sign, Proposals
  <2> QED
    BY <1>4, <2>3 DEF Spent
<1>5. CASE r.op = "activate"
  <2>1. r.p \in Pids /\ Activate(r)
    BY <1>1, <1>5 DEF KeyRequests, Bootstraps, Registers, Proposes, Signs, Activates, Suspends,
       Asks, Serve
  <2>2. proposal'[r.p].state = "ACTIVATED"
    BY <1>2, <2>1 DEF Activate, Proposals
  <2> QED
    BY <1>5, <2>2 DEF Spent
<1>6. CASE r.op = "suspend"
  <2>1. Suspend(r) /\ SuspendAnswer(r) = 200
    BY <1>1, <1>6 DEF Serve
  <2>2. r.expected = next /\ next' = next + 1
    BY <2>1 DEF SuspendAnswer, Suspend
  <2>3. r.expected < next'
    BY <1>2, <2>2
  <2> QED
    BY <1>6, <2>3 DEF Spent
<1> QED
  BY <1>1, <1>3, <1>4, <1>5, <1>6

LEMMA KeysRefuse ==
  ASSUME KeysInv, NEW r \in KeyRequests, Repeatable(r), Spent(r)
  PROVE  ~Accepted(r)
<1>1. r.op \in {"bootstrap", "sign", "activate", "suspend"}
  BY KeysShape DEF Repeatable
<1> SUFFICES Answer(r) # 200
  BY KeysShape DEF Accepted
<1>2. CASE r.op = "bootstrap"
  BY <1>2 DEF Answer, BootstrapAnswer, Spent
<1>3. CASE r.op = "sign"
  BY <1>3 DEF Answer, SignAnswer, Spent
<1>4. CASE r.op = "activate"
  BY <1>4 DEF Answer, ActivateAnswer, Spent
<1>5. CASE r.op = "suspend"
  <2>1. r.expected \in Int /\ next \in Nat /\ r.expected < next
    BY <1>5 DEF KeyRequests, Bootstraps, Registers, Proposes, Signs, Activates, Suspends, Asks,
       Spent,
       KeysInv, KeysTypeOK
  <2>2. r.expected # next
    BY <2>1
  <2> QED
    BY <1>5, <2>2 DEF Answer, SuspendAnswer
<1> QED
  BY <1>1, <1>2, <1>3, <1>4, <1>5

LEMMA KeysRemember ==
  ASSUME KeysInv, NEW q \in KeyRequests, Serve(q), UNCHANGED community,
         NEW r \in Requests, Spent(r)
  PROVE  Spent(r)'
<1>1. version \in Nat /\ next \in Nat /\ version' \in Nat /\ next' \in Nat
  BY ServeKeepsKeys DEF KeysInv, KeysTypeOK
<1>2. CASE r.op \in {"bootstrap", "sign", "activate", "suspend"}
  <2>1. r \in KeyRequests
    BY <1>2 DEF Requests, CommunityRequests, Form, Routes, MarketOps, ListingOps, DealOps,
       Sovereign, Fixtures
  <2>2. /\ r.op \in {"sign", "activate"} => r.p \in Pids
        /\ r.op = "suspend" => r.expected \in Int
    BY <2>1 DEF KeyRequests, Bootstraps, Registers, Proposes, Signs, Activates, Suspends, Asks
  <2>3. CASE r.op = "bootstrap"
    BY <1>1, <2>3, KeysProgress DEF Spent
  <2>4. CASE r.op = "sign"
    BY <2>2, <2>4, KeysProgress DEF Spent
  <2>5. CASE r.op = "activate"
    BY <2>2, <2>5, KeysProgress DEF Spent
  <2>6. CASE r.op = "suspend"
    BY <1>1, <2>2, <2>6, KeysProgress DEF Spent
  <2> QED
    BY <1>2, <2>3, <2>4, <2>5, <2>6
<1>3. CASE r.op \notin {"bootstrap", "sign", "activate", "suspend"}
  BY <1>3 DEF Spent, community, market, Voted
<1> QED
  BY <1>2, <1>3

LEMMA CommunitySpend ==
  ASSUME CommunityInv, NEW r \in CommunityRequests, Repeatable(r), Accepted(r), CommunityServe(r)
  PROVE  Spent(r)'
<1>1. /\ CommunityAnswer(r) = 200 /\ CommunityStep(r)
      /\ r.op \in {"edit", "vote", "anonymize"} \cup Idempotent
  BY CommunityShape DEF Accepted, Repeatable, CommunityServe, Idempotent
<1>2. CASE r.op \in Idempotent
  BY <1>2 DEF Spent, Idempotent
<1>3. CASE r.op = "edit"
  <2>1. ~Conflicts(r) /\ listing \in [Listings -> ListingRows] /\ r.id \in Listings /\ r.version \in Nat
    BY <1>1, <1>3, Passed, CommunityForm, MarketTyped DEF Fixtures, CommunityInv, CommunityTypeOK
  <2>2. listing[r.id].status = "ACTIVE" /\ listing[r.id].version = r.version
    BY <1>3, <2>1 DEF Conflicts, Stale
  <2>3. Edit(r)
    BY <1>1, <1>3 DEF CommunityStep, MarketStep, MarketOps, ListingOps
  <2>4. listing'[r.id].status = "ACTIVE" /\ listing'[r.id].version = listing[r.id].version + 1
    BY <1>3, <2>1, <2>2, <2>3 DEF Edit, ListingRows
  <2> QED
    BY <1>3, <2>1, <2>2, <2>4 DEF Spent
<1>4. CASE r.op = "vote"
  <2>1. /\ ballot' = [ballot EXCEPT ![r.id].votes = Append(@, [by |-> r.by, choice |-> r.kind])]
        /\ ballot \in [Drafts -> [roll : SUBSET Users, votes : Seq(Votes)]]
        /\ r.id \in Drafts /\ r.by \in Users /\ r.kind \in Kinds
    BY <1>1, <1>4, CommunityForm DEF CommunityStep, BallotNext, CommunityInv
  <2>2. PICK vs : vs = Append(ballot[r.id].votes, [by |-> r.by, choice |-> r.kind])
    OBVIOUS
  <2>3. ballot'[r.id].votes = vs /\ ballot[r.id].votes \in Seq(Votes)
    BY <2>1, <2>2
  <2>4. [by |-> r.by, choice |-> r.kind] \in Votes
    BY <2>1 DEF Votes
  <2>5. vs \in Seq(Votes) /\ Len(vs) \in DOMAIN vs /\ vs[Len(vs)].by = r.by
    BY <2>2, <2>3, <2>4, AppendProperties
  <2>6. Voted(r.by, r.id)'
    BY <2>3, <2>5 DEF Voted
  <2> QED
    BY <1>4, <2>6 DEF Spent
<1>5. CASE r.op = "anonymize"
  <2>1. r.id \in DOMAIN observation
    BY <1>1, <1>5, Passed DEF Fixtures, Conflicts, Due
  <2>2. observation' = [observation EXCEPT ![r.id].anonymous = TRUE, ![r.id].parties = {}]
    BY <1>1, <1>5 DEF CommunityStep, ObservationNext
  <2>3. observation \in Seq(Observations)
    BY DEF CommunityInv
  <2>4. r.id \in DOMAIN observation' /\ observation'[r.id].anonymous
    <3>1. PICK k \in Observations : k = observation[r.id]
      BY <2>1, <2>3
    <3>2. PICK x : x = [k EXCEPT !.anonymous = TRUE, !.parties = {}]
      OBVIOUS
    <3>3. x.anonymous
      BY <3>2 DEF Observations
    <3>4. observation' = [observation EXCEPT ![r.id] = x]
      BY <2>1, <2>2, <2>3, <3>1, <3>2
    <3> QED
      BY <2>1, <2>3, <3>3, <3>4
  <2> QED
    BY <1>5, <2>4 DEF Spent
<1> QED
  BY <1>1, <1>2, <1>3, <1>4, <1>5

LEMMA CommunityRefuse ==
  ASSUME CommunityInv, NEW r \in CommunityRequests, Repeatable(r), Spent(r)
  PROVE  r.op \in Idempotent \/ ~Accepted(r)
<1>1. ~ToKeys(r) /\ r.op \in {"edit", "vote", "anonymize"} \cup Idempotent
  BY CommunityShape DEF Repeatable, Idempotent
<1>2. CASE r.op = "edit"
  <2>1. listing \in [Listings -> ListingRows] /\ r.id \in Listings /\ r.version \in Nat
    BY <1>2, CommunityForm, MarketTyped DEF CommunityInv, CommunityTypeOK
  <2>2. listing[r.id].version # r.version
    BY <1>2, <2>1 DEF Spent, ListingRows
  <2> QED
    BY <1>1, <1>2, <2>2, Passed DEF Fixtures, Conflicts, Stale, Accepted
<1>3. CASE r.op = "vote"
  BY <1>1, <1>3, Passed DEF Fixtures, Spent, Conflicts, Accepted
<1>4. CASE r.op = "anonymize"
  BY <1>1, <1>4, Passed DEF Fixtures, Spent, Conflicts, Due, Accepted
<1> QED
  BY <1>1, <1>2, <1>3, <1>4

LEMMA CommunityRemembers ==
  ASSUME CommunityInv, NEW q \in CommunityRequests, CommunityServe(q), UNCHANGED keys, today' = today,
         NEW r \in Requests, Spent(r)
  PROVE  Spent(r)'
<1>1. CASE r.op \in {"edit", "vote", "anonymize"}
  <2>1. r \in CommunityRequests
    BY <1>1 DEF Requests, KeyRequests, Bootstraps, Registers, Proposes, Signs, Activates,
       Suspends, Asks
  <2>2. /\ r.by \in Users /\ r.version \in Nat
        /\ r.op = "edit" => r.id \in Listings
        /\ r.op = "vote" => r.id \in Drafts
    BY <2>1, CommunityForm
  <2>3. listing \in [Listings -> ListingRows] /\ listing' \in [Listings -> ListingRows]
    <3>1. CommunityInv'
      BY CommunityServeKeeps
    <3>2. MarketTypeOK /\ MarketTypeOK'
      BY <3>1 DEF CommunityInv, CommunityTypeOK
    <3> QED
      BY <3>2 DEF MarketTypeOK, ListingRows
  <2>4. CASE r.op = "edit"
    <3>1. /\ listing[r.id].status # "NONE" /\ listing[r.id].version > r.version
          /\ listing[r.id].version \in Nat /\ listing'[r.id].version \in Nat
      BY <2>2, <2>3, <2>4 DEF Spent, ListingRows
    <3>2. listing'[r.id].status # "NONE" /\ listing'[r.id].version >= listing[r.id].version
      BY <2>2, <2>4, <3>1, CommunityProgress
    <3> QED
      BY <2>2, <2>4, <3>1, <3>2 DEF Spent
  <2>5. CASE r.op = "vote"
    <3>1. Voted(r.by, r.id)
      BY <2>5 DEF Spent
    <3>2. Voted(r.by, r.id)'
      BY <2>2, <2>5, <3>1, CommunityProgress
    <3> QED
      BY <2>5, <3>2 DEF Spent
  <2>6. CASE r.op = "anonymize"
    <3>1. r.id \in DOMAIN observation /\ observation[r.id].anonymous
      BY <2>6 DEF Spent
    <3>2. r.id \in DOMAIN observation' /\ observation'[r.id].anonymous
      BY <3>1, CommunityProgress
    <3> QED
      BY <2>6, <3>2 DEF Spent
  <2> QED
    BY <1>1, <2>4, <2>5, <2>6
<1>2. CASE r.op \notin {"edit", "vote", "anonymize"}
  BY <1>2 DEF Spent, keys
<1> QED
  BY <1>1, <1>2
-----------------------------------------------------------------------------
(***************************************************************************)
(* The scripts are made of steps                                           *)
(***************************************************************************)
\* What the parts of a request have to be for its route.
Good(op, id, of, kind) ==
  /\ op = "provision" => kind \in DOMAIN Granted
  /\ op = "rank" => kind \in Ranks
  /\ op \in {"publish", "edit", "close"} => id \in Listings
  /\ op \in {"offer", "counter", "accept", "decline"} => id \in Deals
  /\ op = "offer" => of \in Listings
  /\ op \in {"propose_reference", "publish_reference", "start", "vote"} => id \in Drafts
  /\ op \in {"signal", "decide"} => id \in CaseIds

LEMMA Defaults ==
  /\ "A" \in Tenants /\ "B" \in Tenants /\ "nobody" \in Users /\ "admin" \in Users
  /\ "NONE" \in Kinds /\ "NONE" \in Topics /\ {200} \in SUBSET Int
BY MarketplaceAssumption DEF MarketplaceAssumption, Tenants, Kinds, Topics

LEMMA KindedFits ==
  ASSUME NEW op \in Routes, NEW u \in Users, NEW id \in Int, NEW kind \in Kinds, Good(op, id, 0, kind)
  PROVE  Kinded(op, u, id, kind) \in CommunityRequests
<1>1. Do(op, u) \in Form
  BY Defaults DEF Form, Do
<1>2. On(op, u, id) \in Form
  BY <1>1 DEF Form, On
<1>3. Kinded(op, u, id, kind) \in Form
  BY <1>2 DEF Form, Kinded
<1>4. /\ Kinded(op, u, id, kind).op = op /\ Kinded(op, u, id, kind).id = id
      /\ Kinded(op, u, id, kind).of = 0 /\ Kinded(op, u, id, kind).kind = kind
  BY DEF Kinded, On, Do
<1>5. Fits(Kinded(op, u, id, kind))
  BY <1>4 DEF Fits, Good
<1> QED
  BY <1>3, <1>5 DEF CommunityRequests

LEMMA OnFits ==
  ASSUME NEW op \in Routes, NEW u \in Users, NEW id \in Int, Good(op, id, 0, "NONE")
  PROVE  On(op, u, id) \in CommunityRequests
<1>1. Do(op, u) \in Form
  BY Defaults DEF Form, Do
<1>2. On(op, u, id) \in Form
  BY <1>1 DEF Form, On
<1>3. /\ On(op, u, id).op = op /\ On(op, u, id).id = id
      /\ On(op, u, id).of = 0 /\ On(op, u, id).kind = "NONE"
  BY DEF On, Do
<1>4. Fits(On(op, u, id))
  BY <1>3 DEF Fits, Good
<1> QED
  BY <1>2, <1>4 DEF CommunityRequests

LEMMA DoFits ==
  ASSUME NEW op \in Routes, NEW u \in Users, Good(op, 0, 0, "NONE")
  PROVE  Do(op, u) \in CommunityRequests
<1>1. Do(op, u) \in Form
  BY Defaults DEF Form, Do
<1>2. Fits(Do(op, u))
  BY DEF Do, Fits, Good
<1> QED
  BY <1>1, <1>2 DEF CommunityRequests

\* Routes whose requests name nothing the service has to know.
Plain == {"define", "policy", "retention", "anonymize", "enrol", "settings", "terms", "refresh",
          "bind", "confirm", "backdate", "ask", "view", "context", "constitution", "withdraw",
          "read_consent", "observations", "manifest", "cases", "independence", "list",
          "read_listing", "read_deal", "read_agreement"}

LEMMA PlainRoute ==
  ASSUME NEW op \in Plain, NEW id \in Int, NEW kind \in Kinds
  PROVE  op \in Routes /\ Good(op, id, 0, kind)
<1>1. op \in Routes
  BY DEF Plain, Routes, Sovereign, Fixtures, MarketOps, ListingOps, DealOps
<1>2. Good(op, id, 0, kind)
  BY DEF Plain, Good
<1> QED
  BY <1>1, <1>2

LEMMA PlainDo ==
  ASSUME NEW op \in Plain, NEW u \in Users
  PROVE  Do(op, u) \in CommunityRequests
BY PlainRoute, Defaults, DoFits

LEMMA PlainOn ==
  ASSUME NEW op \in Plain, NEW u \in Users, NEW id \in Int
  PROVE  On(op, u, id) \in CommunityRequests
BY PlainRoute, Defaults, OnFits

LEMMA PlainKinded ==
  ASSUME NEW op \in Plain, NEW u \in Users, NEW id \in Int, NEW kind \in Kinds
  PROVE  Kinded(op, u, id, kind) \in CommunityRequests
BY PlainRoute, KindedFits

\* The identifiers that the drivers use, of every sort of thing.
LEMMA Identifiers ==
  1..3 \subseteq Listings /\ 1..3 \subseteq Drafts /\ 1..6 \subseteq Deals /\ 1..2 \subseteq CaseIds
<1>1. \A i \in 1..3 : i \in {1, 2, 3}
  OBVIOUS
<1>2. \A i \in 1..2 : i \in {1, 2}
  OBVIOUS
<1>3. \A i \in 1..6 : i \in {1, 2, 3, 4, 5, 6}
  OBVIOUS
<1> QED
  BY <1>1, <1>2, <1>3, FixtureAssumption DEF FixtureAssumption

Names(op) ==
  CASE op \in {"publish", "edit", "close", "propose_reference", "publish_reference", "start", "vote"} -> 1..3
    [] op \in {"counter", "accept", "decline"} -> 1..6
    [] op \in {"signal", "decide"} -> 1..2
Naming == {"publish", "edit", "close", "propose_reference", "publish_reference", "start", "vote",
           "counter", "accept", "decline", "signal", "decide"}

LEMMA NamingRoute ==
  ASSUME NEW op \in Naming, NEW id \in Names(op), NEW kind
  PROVE  op \in Routes /\ id \in Int /\ Good(op, id, 0, kind)
<1>1. op \in Routes
  BY DEF Naming, Routes, Sovereign, Fixtures, MarketOps, ListingOps, DealOps
<1>2. id \in Int
  BY DEF Naming, Names
<1>3. Good(op, id, 0, kind)
  BY Identifiers DEF Naming, Names, Good
<1> QED
  BY <1>1, <1>2, <1>3

LEMMA NamingOn ==
  ASSUME NEW op \in Naming, NEW u \in Users, NEW id \in Names(op)
  PROVE  On(op, u, id) \in CommunityRequests
BY NamingRoute, OnFits

LEMMA NamingKinded ==
  ASSUME NEW op \in Naming, NEW u \in Users, NEW id \in Names(op), NEW kind \in Kinds
  PROVE  Kinded(op, u, id, kind) \in CommunityRequests
BY NamingRoute, KindedFits

\* What the helpers make of a request is a request.
LEMMA InSteps ==
  ASSUME NEW r \in CommunityRequests, NEW t \in Tenants
  PROVE  In(r, t) \in CommunityRequests
BY DEF CommunityRequests, Form, In, Fits

LEMMA ElsewhereSteps == ASSUME NEW r \in CommunityRequests PROVE Elsewhere(r) \in CommunityRequests
BY InSteps, Defaults DEF Elsewhere

LEMMA FromSteps ==
  ASSUME NEW r \in CommunityRequests, NEW v \in Nat
  PROVE  From(r, v) \in CommunityRequests
BY DEF CommunityRequests, Form, From, Fits

LEMMA GetsSteps ==
  ASSUME NEW r \in CommunityRequests, NEW codes \in SUBSET Int
  PROVE  Gets(r, codes) \in CommunityRequests
BY DEF CommunityRequests, Form, Gets, Fits

LEMMA Codes ==
  /\ \A n \in Int : {n} \in SUBSET Int
  /\ {400, 403, 404} \in SUBSET Int /\ {401, 403, 404} \in SUBSET Int /\ {403, 404} \in SUBSET Int
  /\ {400, 403} \in SUBSET Int /\ {400, 403, 404, 409} \in SUBSET Int
  /\ Foreign \in SUBSET Int /\ Platform \in SUBSET Int
BY DEF Foreign, Platform

LEMMA AboutSteps ==
  ASSUME NEW op \in Plain, NEW u \in Users, NEW who \in Users
  PROVE  About(op, u, who) \in CommunityRequests
<1>1. Do(op, u) \in CommunityRequests
  BY PlainDo
<1> QED
  BY <1>1 DEF CommunityRequests, Form, About, Fits

LEMMA IsSteps ==
  ASSUME NEW about \in Topics, NEW id \in Int, NEW value \in Int
  PROVE  Is(about, id, value) \in CommunityRequests
<1>1. On("ask", "nobody", id) \in CommunityRequests
  BY PlainOn, Defaults DEF Plain
<1> QED
  BY <1>1 DEF CommunityRequests, Form, Is, Fits

LEMMA AccountSteps ==
  ASSUME NEW u \in Users, NEW t \in Tenants, NEW role \in DOMAIN Granted
  PROVE  Account(u, t, role) \in CommunityRequests
<1>1. "provision" \in Routes /\ role \in Kinds /\ Good("provision", 0, 0, role)
  BY DEF Good, Kinds, Routes, Fixtures
<1>2. Kinded("provision", "admin", 0, role) \in CommunityRequests
  BY <1>1, KindedFits, Defaults
<1> QED
  BY <1>2 DEF Account, CommunityRequests, Form, Fits

LEMMA RankSteps ==
  ASSUME NEW u \in Users, NEW rank \in Ranks
  PROVE  SetRank(u, rank) \in CommunityRequests
<1>1. "rank" \in Routes /\ rank \in Kinds /\ Good("rank", 0, 0, rank)
  BY DEF Good, Kinds, Routes, Fixtures
<1>2. Kinded("rank", "admin", 0, rank) \in CommunityRequests
  BY <1>1, KindedFits, Defaults
<1> QED
  BY <1>2 DEF SetRank, CommunityRequests, Form, Fits

LEMMA PricedSteps ==
  ASSUME NEW op \in {"publish", "edit"}, NEW u \in Users, NEW l \in 1..3,
         NEW direction \in Kinds, NEW v \in Nat
  PROVE  Priced(op, u, l, direction, v) \in CommunityRequests
<1>1. Kinded(op, u, l, direction) \in CommunityRequests
  BY NamingKinded DEF Naming, Names
<1> QED
  BY <1>1 DEF Priced, CommunityRequests, Form, Fits

LEMMA BidSteps ==
  ASSUME NEW d \in 1..6, NEW l \in 1..3, NEW buyer \in Users, NEW amount \in Nat, NEW sharing
  PROVE  Bid(d, l, buyer, amount, sharing) \in CommunityRequests
<1>1. Do("offer", buyer) \in Form
  BY Defaults DEF Form, Do, Routes, MarketOps
<1>2. On("offer", buyer, d) \in Form
  BY <1>1 DEF Form, On
<1>3. (buyer \in sharing) \in BOOLEAN /\ l \in Int
  OBVIOUS
<1>4. \A share \in BOOLEAN :
        [On("offer", buyer, d) EXCEPT !.of = l, !.n = amount, !.share = share] \in Form
  BY <1>2, <1>3 DEF Form
<1>5. Bid(d, l, buyer, amount, sharing) \in Form
  BY <1>3, <1>4, Zenon DEF Bid
<1>6. /\ Bid(d, l, buyer, amount, sharing).op = "offer" /\ Bid(d, l, buyer, amount, sharing).of = l
      /\ Bid(d, l, buyer, amount, sharing).id = d
  BY DEF Bid, On, Do
<1>7. Fits(Bid(d, l, buyer, amount, sharing))
  BY <1>6, Identifiers DEF Fits
<1> QED
  BY <1>5, <1>7 DEF CommunityRequests

LEMMA AcceptSteps ==
  ASSUME NEW d \in 1..6, NEW seller \in Users, NEW v \in Nat, NEW sharing
  PROVE  Accepts(d, seller, v, sharing) \in CommunityRequests
<1>1. On("accept", seller, d) \in CommunityRequests
  BY NamingOn DEF Naming, Names
<1>2. (seller \in sharing) \in BOOLEAN
  OBVIOUS
<1>3. \A share \in BOOLEAN :
        [On("accept", seller, d) EXCEPT !.version = v, !.share = share] \in CommunityRequests
  BY <1>1 DEF CommunityRequests, Form, Fits
<1> QED
  BY <1>2, <1>3, Zenon DEF Accepts

LEMMA Joined ==
  ASSUME NEW s \in Seq(CommunityRequests), NEW t \in Seq(CommunityRequests)
  PROVE  s \o t \in Seq(CommunityRequests)
OBVIOUS

\* The fixtures that the drivers work with.
LEMMA Cast ==
  /\ "ana" \in Users /\ "pedro" \in Users /\ "carlos" \in Users /\ "bea" \in Users
  /\ "diego" \in Users /\ "manager" \in Users /\ "owner" \in Users /\ "readonly" \in Users
  /\ "service" \in Users /\ "plain" \in Users /\ "reviewer" \in Users /\ "v1" \in Users
  /\ "v2" \in Users /\ "v3" \in Users /\ "v4" \in Users
  /\ "admin" \in Users /\ "nobody" \in Users
  /\ "trader" \in DOMAIN Granted /\ "member" \in DOMAIN Granted /\ "publisher" \in DOMAIN Granted
  /\ "consenting" \in DOMAIN Granted /\ "keeper" \in DOMAIN Granted /\ "elector" \in DOMAIN Granted
  /\ "steward" \in DOMAIN Granted /\ "manager" \in DOMAIN Granted /\ "voter" \in DOMAIN Granted
BY FixtureAssumption, Defaults DEF FixtureAssumption

LEMMA Words ==
  /\ {"FORGED", "CONTRADICTORY", "OFFER", "WANTED", "WIDE", "PROTECTED", "FOREIGN", "ENABLE",
      "UNDER_REVIEW", "FINAL", "DISMISSED", "APPROVE", "REJECT"} \subseteq Kinds
  /\ Ranks \subseteq Kinds /\ DOMAIN Granted \subseteq Kinds
BY DEF Kinds

LEMMA AgreeSteps ==
  ASSUME NEW d \in 1..6, NEW l \in 1..3, NEW buyer \in Users, NEW seller \in Users, NEW amount \in Nat,
         NEW sharing
  PROVE  Agree(d, l, buyer, seller, amount, sharing) \in Seq(CommunityRequests)
BY BidSteps, AcceptSteps DEF Agree

LEMMA CircleSteps ==
  ASSUME NEW u \in Users, NEW who \in Users
  PROVE  /\ \A p \in 1..3, choice \in Kinds : Vote(u, p, choice) \in CommunityRequests
         /\ Enable(u) \in CommunityRequests /\ ForeignCommunity(u) \in CommunityRequests
         /\ \A codes \in SUBSET Int : Defines(u, codes) \in CommunityRequests
                                      /\ Refresh(u, who, codes) \in CommunityRequests
<1>1. ASSUME NEW p \in 1..3, NEW choice \in Kinds PROVE Vote(u, p, choice) \in CommunityRequests
  BY NamingKinded DEF Vote, Naming, Names
<1>2. /\ Kinded("settings", u, 0, "ENABLE") \in CommunityRequests
      /\ Kinded("settings", u, 0, "FOREIGN") \in CommunityRequests
  BY PlainKinded DEF Plain, Kinds
<1>3. Do("define", u) \in CommunityRequests
  BY PlainDo DEF Plain
<1>4. About("refresh", u, who) \in CommunityRequests
  BY AboutSteps DEF Plain
<1> QED
  BY <1>1, <1>2, <1>3, <1>4, GetsSteps, Codes DEF Enable, ForeignCommunity, Defines, Refresh

LEMMA OddSteps ==
  ASSUME NEW u \in Users, NEW n \in Nat
  PROVE  /\ Retain(u, n) \in CommunityRequests
         /\ \A o \in Int : Backdate(o, n) \in CommunityRequests
         /\ Stands(u, n) \in CommunityRequests
         /\ \A o \in Int : Confirm(u, o) \in CommunityRequests
<1>1. /\ Do("retention", u) \in CommunityRequests
      /\ \A o \in Int : On("backdate", "admin", o) \in CommunityRequests
  BY PlainDo, PlainOn, Cast DEF Plain
<1>2. Retain(u, n) \in CommunityRequests
  BY <1>1 DEF Retain, CommunityRequests, Form, Fits
<1>3. ASSUME NEW o \in Int PROVE Backdate(o, n) \in CommunityRequests
  BY <1>1 DEF Backdate, CommunityRequests, Form, Fits
<1>4. Is("independence", 0, n) \in CommunityRequests
  BY IsSteps DEF Topics
<1>5. Stands(u, n) \in CommunityRequests
  BY <1>4 DEF Stands, CommunityRequests, Form, Fits
<1>6. About("confirm", "admin", u) \in CommunityRequests /\ About("confirm", "admin", u).op = "confirm"
  BY AboutSteps, Cast DEF Plain, About, Do
<1>7. ASSUME NEW o \in Int PROVE Confirm(u, o) \in CommunityRequests
  BY <1>6 DEF Confirm, CommunityRequests, Form, Fits
<1> QED
  BY <1>2, <1>3, <1>5, <1>7

LEMMA SignalSteps ==
  ASSUME NEW u \in Users, NEW c \in 1..2, NEW o \in Int
  PROVE  Signal(u, c, o) \in CommunityRequests
<1>1. On("signal", u, c) \in CommunityRequests /\ On("signal", u, c).op = "signal"
  BY NamingOn DEF Naming, Names, On, Do
<1> QED
  BY <1>1 DEF Signal, CommunityRequests, Form, Fits

\* The community drivers, section by section.
LEMMA FixtureSteps ==
  /\ References7 \in Seq(CommunityRequests) /\ ConsentFixture \in Seq(CommunityRequests)
  /\ SeedFixture \in Seq(CommunityRequests)
<1>1. ASSUME NEW member \in DOMAIN Granted, NEW publisher \in DOMAIN Granted
      PROVE  CommunityFixture(member, publisher) \in Seq(CommunityRequests)
  <2>1. /\ Account("ana", "A", publisher) \in CommunityRequests
        /\ Account("pedro", "A", member) \in CommunityRequests
        /\ Account("carlos", "A", member) \in CommunityRequests
        /\ Account("bea", "B", member) \in CommunityRequests
        /\ SetRank("ana", "admin") \in CommunityRequests
    BY AccountSteps, RankSteps, Defaults, Cast DEF Ranks
  <2> QED
    BY <2>1 DEF CommunityFixture
<1> QED
  BY <1>1, Cast DEF References7, ConsentFixture, SeedFixture

LEMMA SecondPublisherSteps == SecondPublisher \in Seq(CommunityRequests)
<1>1. Account("diego", "A", "publisher") \in CommunityRequests
  BY AccountSteps, Defaults, Cast
<1>2. SetRank("diego", "admin") \in CommunityRequests
  BY RankSteps, Cast DEF Ranks
<1> QED
  BY <1>1, <1>2 DEF SecondPublisher

LEMMA RawHistorySteps == RawHistory \in Seq(CommunityRequests)
<1>1. /\ Do("define", "ana") \in CommunityRequests /\ Do("manifest", "ana") \in CommunityRequests
      /\ Do("observations", "pedro") \in CommunityRequests
      /\ Do("manifest", "pedro") \in CommunityRequests
      /\ Do("observations", "ana") \in CommunityRequests
      /\ Do("view", "ana") \in CommunityRequests
  BY PlainDo, Cast DEF Plain
<1>2. On("publish", "ana", 1) \in CommunityRequests
  BY NamingOn, Cast DEF Naming, Names
<1>3. /\ Is("included", 0, 0) \in CommunityRequests
      /\ Is("exclusions", 0, 0) \in CommunityRequests
      /\ Is("observations", 0, 12) \in CommunityRequests
      /\ Is("agreements", 0, 6) \in CommunityRequests
      /\ Is("proposals", 0, 6) \in CommunityRequests
  BY IsSteps, Cast DEF Topics
<1>4. /\ Gets(Do("observations", "pedro"), {403}) \in CommunityRequests
      /\ Gets(Do("manifest", "pedro"), {403}) \in CommunityRequests
  BY <1>1, <1>2, <1>3, GetsSteps, Codes
<1>5. /\ Agree(1, 1, "pedro", "ana", 5, {}) \in Seq(CommunityRequests)
      /\ Agree(2, 1, "pedro", "ana", 10, {"pedro", "ana"}) \in Seq(CommunityRequests)
      /\ Agree(3, 1, "pedro", "ana", 11, {"pedro", "ana"}) \in Seq(CommunityRequests)
      /\ Agree(4, 1, "pedro", "ana", 12, {"pedro", "ana"}) \in Seq(CommunityRequests)
      /\ Agree(5, 1, "pedro", "ana", 13, {"pedro", "ana"}) \in Seq(CommunityRequests)
      /\ Agree(6, 1, "pedro", "ana", 14, {"pedro", "ana"}) \in Seq(CommunityRequests)
  BY AgreeSteps, Cast
<1> QED
  BY <1>1, <1>2, <1>3, <1>4, <1>5, Joined DEF RawHistory

LEMMA SuperAdminGovernsNothingSteps == SuperAdminGovernsNothing \in Seq(CommunityRequests)
<1>1. /\ Do("policy", "admin") \in CommunityRequests
      /\ Do("define", "admin") \in CommunityRequests /\ Do("view", "admin") \in CommunityRequests
      /\ Do("observations", "admin") \in CommunityRequests
  BY PlainDo, Cast DEF Plain
<1>2. /\ On("propose_reference", "admin", 1) \in CommunityRequests
      /\ On("publish_reference", "admin", 2) \in CommunityRequests
      /\ On("signal", "admin", 1) \in CommunityRequests
  BY NamingOn, Cast DEF Naming, Names
<1>3. Kinded("decide", "admin", 1, "UNDER_REVIEW") \in CommunityRequests
  BY NamingKinded, Words, Cast DEF Naming, Names
<1>4. /\ Gets(Do("policy", "admin"), Platform) \in CommunityRequests
      /\ Gets(Do("define", "admin"), Platform) \in CommunityRequests
      /\ Gets(On("propose_reference", "admin", 1), Platform) \in CommunityRequests
      /\ Gets(On("publish_reference", "admin", 2), Platform) \in CommunityRequests
      /\ Gets(On("signal", "admin", 1), Platform) \in CommunityRequests
      /\ Gets(Kinded("decide", "admin", 1, "UNDER_REVIEW"), Platform) \in CommunityRequests
  BY <1>1, <1>2, <1>3, GetsSteps, Codes
<1> QED
  BY <1>1, <1>2, <1>3, <1>4 DEF SuperAdminGovernsNothing

LEMMA PolicyFloorsSteps == PolicyFloors \in Seq(CommunityRequests)
<1>1. /\ Do("policy", "ana") \in CommunityRequests /\ Do("view", "pedro") \in CommunityRequests
  BY PlainDo, Cast DEF Plain
<1>2. Kinded("policy", "ana", 0, "PROTECTED") \in CommunityRequests
  BY PlainKinded, Words, Cast DEF Plain
<1>3. Is("policyVersion", 0, 2) \in CommunityRequests
  BY IsSteps, Cast DEF Topics
<1>4. Gets(Kinded("policy", "ana", 0, "PROTECTED"), {409}) \in CommunityRequests
  BY <1>1, <1>2, <1>3, GetsSteps, Codes
<1> QED
  BY <1>1, <1>2, <1>3, <1>4 DEF PolicyFloors

LEMMA IntegritySteps == Integrity \in Seq(CommunityRequests)
<1>1. /\ Do("cases", "ana") \in CommunityRequests /\ Do("manifest", "ana") \in CommunityRequests
      /\ Do("observations", "ana") \in CommunityRequests
  BY PlainDo, Cast DEF Plain
<1>2. /\ Kinded("decide", "ana", 1, "FINAL") \in CommunityRequests
      /\ Kinded("decide", "ana", 1, "UNDER_REVIEW") \in CommunityRequests
      /\ Kinded("decide", "diego", 1, "FINAL") \in CommunityRequests
      /\ Kinded("decide", "ana", 2, "UNDER_REVIEW") \in CommunityRequests
      /\ Kinded("decide", "diego", 2, "DISMISSED") \in CommunityRequests
  BY NamingKinded, Words, Cast DEF Naming, Names
<1>3. /\ Is("decisions", 1, 2) \in CommunityRequests
      /\ Is("decisions", 1, 3) \in CommunityRequests /\ Is("excluded", 4, 0) \in CommunityRequests
      /\ Is("observations", 0, 12) \in CommunityRequests
  BY IsSteps, Cast DEF Topics
<1>4. /\ Signal("ana", 1, 2) \in CommunityRequests /\ Signal("ana", 2, 4) \in CommunityRequests
  BY SignalSteps, Cast
<1>5. Gets(Kinded("decide", "ana", 1, "FINAL"), {409}) \in CommunityRequests
  BY <1>1, <1>2, <1>3, <1>4, GetsSteps, Codes
<1> QED
  BY <1>1, <1>2, <1>3, <1>4, <1>5 DEF Integrity

LEMMA ValueIsolationSteps == ValueIsolation \in Seq(CommunityRequests)
<1>1. /\ Do("observations", "bea") \in CommunityRequests
      /\ Do("manifest", "bea") \in CommunityRequests /\ Do("cases", "bea") \in CommunityRequests
  BY PlainDo, Cast DEF Plain
<1>2. /\ Gets(Do("observations", "bea"), Foreign) \in CommunityRequests
      /\ Gets(Do("manifest", "bea"), Foreign) \in CommunityRequests
      /\ Gets(Do("cases", "bea"), Foreign) \in CommunityRequests
      /\ Elsewhere(Do("observations", "bea")) \in CommunityRequests
      /\ Gets(Elsewhere(Do("observations", "bea")), {403, 404}) \in CommunityRequests
  BY <1>1, ElsewhereSteps, GetsSteps, Codes
<1> QED
  BY <1>1, <1>2 DEF ValueIsolation

LEMMA ConsentSteps == Consent \in Seq(CommunityRequests)
<1>1. Do("define", "ana") \in CommunityRequests
  BY PlainDo, Cast DEF Plain
<1>2. /\ On("withdraw", "carlos", 2) \in CommunityRequests
      /\ On("withdraw", "pedro", 2) \in CommunityRequests
      /\ On("read_consent", "bea", 2) \in CommunityRequests
      /\ On("withdraw", "bea", 2) \in CommunityRequests
  BY PlainOn, Cast DEF Plain
<1>3. On("publish", "ana", 1) \in CommunityRequests
  BY NamingOn, Cast DEF Naming, Names
<1>4. /\ Is("consent", 2, 1) \in CommunityRequests /\ Is("consent", 4, 0) \in CommunityRequests
      /\ Is("observations", 0, 4) \in CommunityRequests
      /\ Is("consentEvents", 2, 2) \in CommunityRequests
  BY IsSteps, Cast DEF Topics
<1>5. /\ Gets(On("withdraw", "carlos", 2), {403}) \in CommunityRequests
      /\ Gets(On("read_consent", "bea", 2), {403, 404}) \in CommunityRequests
      /\ Gets(On("withdraw", "bea", 2), {403, 404}) \in CommunityRequests
  BY <1>1, <1>2, <1>3, <1>4, GetsSteps, Codes
<1>6. /\ Agree(1, 1, "pedro", "ana", 10, {"pedro", "ana"}) \in Seq(CommunityRequests)
      /\ Agree(2, 1, "pedro", "ana", 12, {"pedro"}) \in Seq(CommunityRequests)
  BY AgreeSteps, Cast
<1> QED
  BY <1>1, <1>2, <1>3, <1>4, <1>5, <1>6, Joined DEF Consent

LEMMA RetentionSteps == Retention \in Seq(CommunityRequests)
<1>1. /\ On("anonymize", "ana", 8) \in CommunityRequests
      /\ On("anonymize", "ana", 6) \in CommunityRequests
  BY PlainOn, Cast DEF Plain
<1>2. /\ Is("due", 6, 1) \in CommunityRequests /\ Is("due", 8, 0) \in CommunityRequests
  BY IsSteps, Cast DEF Topics
<1>3. /\ Retain("ana", 10) \in CommunityRequests /\ Retain("admin", 120) \in CommunityRequests
      /\ Retain("ana", 120) \in CommunityRequests
  BY OddSteps, Cast
<1>4. /\ Backdate(6, 200) \in CommunityRequests /\ Backdate(8, 200) \in CommunityRequests
  BY OddSteps, Cast
<1>5. Signal("ana", 1, 8) \in CommunityRequests
  BY SignalSteps, Cast
<1>6. /\ Gets(Retain("ana", 10), {400}) \in CommunityRequests
      /\ Gets(Retain("admin", 120), Platform) \in CommunityRequests
      /\ Gets(On("anonymize", "ana", 8), {409}) \in CommunityRequests
      /\ Gets(On("anonymize", "ana", 6), {409}) \in CommunityRequests
  BY <1>1, <1>2, <1>3, <1>4, <1>5, GetsSteps, Codes
<1>7. /\ Agree(3, 1, "pedro", "ana", 20, {"pedro", "ana"}) \in Seq(CommunityRequests)
      /\ Agree(4, 1, "pedro", "ana", 22, {"pedro", "ana"}) \in Seq(CommunityRequests)
  BY AgreeSteps, Cast
<1> QED
  BY <1>1, <1>2, <1>3, <1>4, <1>5, <1>6, <1>7, Joined DEF Retention

LEMMA SourcesSteps == Sources \in Seq(CommunityRequests)
<1>1. Do("define", "ana") \in CommunityRequests
  BY PlainDo, Cast DEF Plain
<1>2. On("read_listing", "bea", 1) \in CommunityRequests
  BY PlainOn, Cast DEF Plain
<1>3. Kinded("policy", "ana", 0, "WIDE") \in CommunityRequests
  BY PlainKinded, Words, Cast DEF Plain
<1>4. On("publish", "ana", 3) \in CommunityRequests
  BY NamingOn, Cast DEF Naming, Names
<1>5. /\ Is("policyVersion", 0, 2) \in CommunityRequests
      /\ Is("lineage", 1, 1) \in CommunityRequests /\ Is("lineage", 2, 1) \in CommunityRequests
      /\ Is("lineage", 1, 2) \in CommunityRequests /\ Is("lineage", 3, 2) \in CommunityRequests
  BY IsSteps, Cast DEF Topics
<1>6. /\ Priced("publish", "ana", 1, "OFFER", 0) \in CommunityRequests
      /\ Priced("publish", "pedro", 2, "WANTED", 0) \in CommunityRequests
      /\ Priced("edit", "ana", 1, "OFFER", 0) \in CommunityRequests
  BY PricedSteps, Words, Cast
<1>7. Gets(On("read_listing", "bea", 1), {403, 404}) \in CommunityRequests
  BY <1>1, <1>2, <1>3, <1>4, <1>5, <1>6, GetsSteps, Codes
<1>8. Agree(1, 3, "pedro", "ana", 39, {"pedro", "ana"}) \in Seq(CommunityRequests)
  BY AgreeSteps, Cast
<1> QED
  BY <1>1, <1>2, <1>3, <1>4, <1>5, <1>6, <1>7, <1>8, Joined DEF Sources

LEMMA SeedSteps == Seed \in Seq(CommunityRequests)
<1>1. Do("terms", "ana") \in CommunityRequests
  BY PlainDo, Cast DEF Plain
<1>2. /\ On("start", "admin", 1) \in CommunityRequests
      /\ On("start", "ana", 1) \in CommunityRequests
  BY NamingOn, Cast DEF Naming, Names
<1>3. /\ Is("approvals", 1, 2) \in CommunityRequests /\ Is("roll", 1, 3) \in CommunityRequests
  BY IsSteps, Cast DEF Topics
<1>4. /\ About("enrol", "ana", "ana") \in CommunityRequests
      /\ About("enrol", "ana", "pedro") \in CommunityRequests
      /\ About("enrol", "ana", "carlos") \in CommunityRequests
  BY AboutSteps, Cast DEF Plain
<1>5. /\ Vote("admin", 1, "APPROVE") \in CommunityRequests
      /\ Vote("ana", 1, "APPROVE") \in CommunityRequests
      /\ Vote("pedro", 1, "APPROVE") \in CommunityRequests
  BY CircleSteps, Words, Cast
<1>6. Enable("ana") \in CommunityRequests
  BY CircleSteps, Cast
<1>7. /\ Gets(On("start", "admin", 1), Platform) \in CommunityRequests
      /\ Gets(Vote("admin", 1, "APPROVE"), Platform) \in CommunityRequests
      /\ Gets(Vote("ana", 1, "APPROVE"), {409}) \in CommunityRequests
  BY <1>1, <1>2, <1>3, <1>4, <1>5, <1>6, GetsSteps, Codes
<1> QED
  BY <1>1, <1>2, <1>3, <1>4, <1>5, <1>6, <1>7 DEF Seed

LEMMA ElectorsSteps == Electors \in Seq(CommunityRequests)
<1>1. /\ Account("manager", "A", "manager") \in CommunityRequests
      /\ Account("v1", "A", "voter") \in CommunityRequests
      /\ Account("v2", "A", "voter") \in CommunityRequests
      /\ Account("v3", "A", "voter") \in CommunityRequests
      /\ Account("v4", "A", "voter") \in CommunityRequests
  BY AccountSteps, Defaults, Cast
<1>2. SetRank("manager", "admin") \in CommunityRequests
  BY RankSteps, Cast DEF Ranks
<1> QED
  BY <1>1, <1>2 DEF Electors

LEMMA DirectPublishSteps == DirectPublish \in Seq(CommunityRequests)
<1>1. Do("define", "manager") \in CommunityRequests
  BY PlainDo, Cast DEF Plain
<1>2. /\ On("propose_reference", "manager", 1) \in CommunityRequests
      /\ On("publish_reference", "manager", 1) \in CommunityRequests
  BY NamingOn, Cast DEF Naming, Names
<1>3. Is("enabled", 0, 0) \in CommunityRequests
  BY IsSteps, Cast DEF Topics
<1> QED
  BY <1>1, <1>2, <1>3 DEF DirectPublish

LEMMA EnableGovernanceSteps == EnableGovernance \in Seq(CommunityRequests)
<1>1. Do("terms", "manager") \in CommunityRequests
  BY PlainDo, Cast DEF Plain
<1>2. /\ About("enrol", "manager", "manager") \in CommunityRequests
      /\ About("enrol", "manager", "v1") \in CommunityRequests
      /\ About("enrol", "manager", "v2") \in CommunityRequests
      /\ About("enrol", "manager", "v3") \in CommunityRequests
      /\ About("enrol", "manager", "v4") \in CommunityRequests
  BY AboutSteps, Cast DEF Plain
<1>3. Enable("manager") \in CommunityRequests
  BY CircleSteps, Cast
<1> QED
  BY <1>1, <1>2, <1>3 DEF EnableGovernance

LEMMA OrdinaryVoteSteps == OrdinaryVote \in Seq(CommunityRequests)
<1>1. /\ On("propose_reference", "manager", 2) \in CommunityRequests
      /\ On("publish_reference", "manager", 2) \in CommunityRequests
      /\ On("start", "pedro", 2) \in CommunityRequests
      /\ On("start", "bea", 2) \in CommunityRequests
      /\ On("start", "manager", 2) \in CommunityRequests
  BY NamingOn, Cast DEF Naming, Names
<1>2. /\ Is("roll", 2, 5) \in CommunityRequests /\ Is("approvals", 2, 3) \in CommunityRequests
  BY IsSteps, Cast DEF Topics
<1>3. /\ Vote("admin", 3, "APPROVE") \in CommunityRequests
      /\ Vote("admin", 2, "APPROVE") \in CommunityRequests
      /\ Vote("v1", 2, "APPROVE") \in CommunityRequests
      /\ Vote("v1", 2, "REJECT") \in CommunityRequests
      /\ Vote("v2", 2, "APPROVE") \in CommunityRequests
      /\ Vote("v3", 2, "APPROVE") \in CommunityRequests
  BY CircleSteps, Words, Cast
<1>4. /\ Gets(On("publish_reference", "manager", 2), {409}) \in CommunityRequests
      /\ Gets(On("start", "pedro", 2), {403}) \in CommunityRequests
      /\ Elsewhere(On("start", "bea", 2)) \in CommunityRequests
      /\ Gets(Elsewhere(On("start", "bea", 2)), Foreign) \in CommunityRequests
      /\ Gets(Vote("admin", 3, "APPROVE"), Platform) \in CommunityRequests
      /\ Gets(Vote("admin", 2, "APPROVE"), Platform) \in CommunityRequests
      /\ Gets(Vote("v1", 2, "REJECT"), {409}) \in CommunityRequests
  BY <1>1, <1>2, <1>3, ElsewhereSteps, GetsSteps, Codes
<1> QED
  BY <1>1, <1>2, <1>3, <1>4 DEF OrdinaryVote

LEMMA AuthorityFixtureSteps == AuthorityFixture \in Seq(CommunityRequests)
<1>1. /\ Account("owner", "A", "publisher") \in CommunityRequests
      /\ Account("readonly", "A", "publisher") \in CommunityRequests
      /\ Account("service", "A", "publisher") \in CommunityRequests
      /\ Account("plain", "A", "publisher") \in CommunityRequests
      /\ Account("manager", "A", "manager") \in CommunityRequests
  BY AccountSteps, Defaults, Cast
<1>2. /\ SetRank("owner", "owner") \in CommunityRequests
      /\ SetRank("readonly", "readonly") \in CommunityRequests
      /\ SetRank("service", "service") \in CommunityRequests
      /\ SetRank("plain", "user") \in CommunityRequests
      /\ SetRank("manager", "admin") \in CommunityRequests
  BY RankSteps, Cast DEF Ranks
<1> QED
  BY <1>1, <1>2 DEF AuthorityFixture

LEMMA GovernanceDisabledSteps == GovernanceDisabled \in Seq(CommunityRequests)
<1>1. Is("enabled", 0, 0) \in CommunityRequests
  BY IsSteps, Cast DEF Topics
<1>2. ForeignCommunity("manager") \in CommunityRequests
  BY CircleSteps, Cast
<1>3. /\ Defines("owner", {200}) \in CommunityRequests
      /\ Defines("ana", {200}) \in CommunityRequests
      /\ Defines("plain", {403}) \in CommunityRequests
      /\ Defines("readonly", {403}) \in CommunityRequests
      /\ Defines("service", {403}) \in CommunityRequests
      /\ Defines("admin", {403}) \in CommunityRequests
      /\ Defines("ana", {403}) \in CommunityRequests
      /\ Defines("bea", {403}) \in CommunityRequests
  BY CircleSteps, Codes, Cast
<1>4. Elsewhere(Defines("ana", {403})) \in CommunityRequests
  BY <1>1, <1>2, <1>3, ElsewhereSteps
<1> QED
  BY <1>1, <1>2, <1>3, <1>4 DEF GovernanceDisabled

LEMMA GovernanceEnabledSteps == GovernanceEnabled \in Seq(CommunityRequests)
<1>1. Is("enabled", 0, 1) \in CommunityRequests
  BY IsSteps, Cast DEF Topics
<1>2. SetRank("manager", "user") \in CommunityRequests
  BY RankSteps, Cast DEF Ranks
<1>3. About("enrol", "manager", "manager") \in CommunityRequests
  BY AboutSteps, Cast DEF Plain
<1>4. Enable("manager") \in CommunityRequests
  BY CircleSteps, Cast
<1>5. ForeignCommunity("manager") \in CommunityRequests
  BY CircleSteps, Cast
<1>6. /\ Defines("manager", {200}) \in CommunityRequests
      /\ Defines("owner", {403}) \in CommunityRequests
      /\ Defines("ana", {403}) \in CommunityRequests
      /\ Defines("admin", {403}) \in CommunityRequests
  BY CircleSteps, Codes, Cast
<1> QED
  BY <1>1, <1>2, <1>3, <1>4, <1>5, <1>6 DEF GovernanceEnabled

LEMMA ReviewerSteps == Reviewer \in Seq(CommunityRequests)
<1>1. Account("reviewer", "A", "publisher") \in CommunityRequests
  BY AccountSteps, Defaults, Cast
<1>2. SetRank("reviewer", "admin") \in CommunityRequests
  BY RankSteps, Cast DEF Ranks
<1> QED
  BY <1>1, <1>2 DEF Reviewer

LEMMA IndependenceAnswersSteps == IndependenceAnswers \in Seq(CommunityRequests)
<1>1. /\ About("bind", "admin", "pedro") \in CommunityRequests
      /\ About("bind", "admin", "carlos") \in CommunityRequests
  BY AboutSteps, Cast DEF Plain
<1>2. /\ Refresh("reviewer", "carlos", {200}) \in CommunityRequests
      /\ Refresh("reviewer", "pedro", {200}) \in CommunityRequests
      /\ Refresh("pedro", "pedro", {403}) \in CommunityRequests
      /\ Refresh("bea", "pedro", Foreign) \in CommunityRequests
      /\ Refresh("admin", "pedro", Platform) \in CommunityRequests
  BY CircleSteps, Codes, Cast
<1>3. /\ Stands("carlos", 1) \in CommunityRequests /\ Stands("pedro", 2) \in CommunityRequests
      /\ Stands("pedro", 3) \in CommunityRequests /\ Stands("carlos", 3) \in CommunityRequests
  BY OddSteps, Cast
<1>4. /\ Confirm("pedro", 1) \in CommunityRequests /\ Confirm("carlos", 1) \in CommunityRequests
  BY OddSteps, Cast
<1>5. Elsewhere(Refresh("bea", "pedro", Foreign)) \in CommunityRequests
  BY <1>1, <1>2, <1>3, <1>4, ElsewhereSteps
<1> QED
  BY <1>1, <1>2, <1>3, <1>4, <1>5 DEF IndependenceAnswers

LEMMA RelatedAgreementSteps == RelatedAgreement \in Seq(CommunityRequests)
<1>1. /\ Do("define", "reviewer") \in CommunityRequests
      /\ Do("observations", "reviewer") \in CommunityRequests
      /\ Do("manifest", "reviewer") \in CommunityRequests
      /\ Do("independence", "bea") \in CommunityRequests
  BY PlainDo, Cast DEF Plain
<1>2. On("publish", "pedro", 1) \in CommunityRequests
  BY NamingOn, Cast DEF Naming, Names
<1>3. /\ Is("agreements", 0, 1) \in CommunityRequests
      /\ Is("included", 0, 0) \in CommunityRequests
      /\ Is("exclusions", 0, 0) \in CommunityRequests
  BY IsSteps, Cast DEF Topics
<1>4. Stands("pedro", 3) \in CommunityRequests
  BY OddSteps, Cast
<1>5. /\ Elsewhere(Do("independence", "bea")) \in CommunityRequests
      /\ Gets(Elsewhere(Do("independence", "bea")), Foreign) \in CommunityRequests
  BY <1>1, <1>2, <1>3, <1>4, ElsewhereSteps, GetsSteps, Codes
<1>6. Agree(1, 1, "carlos", "pedro", 10, {"carlos", "pedro"}) \in Seq(CommunityRequests)
  BY AgreeSteps, Cast
<1> QED
  BY <1>1, <1>2, <1>3, <1>4, <1>5, <1>6, Joined DEF RelatedAgreement

LEMMA TradersSteps == Traders \in Seq(CommunityRequests)
<1>1. /\ Account("ana", "A", "trader") \in CommunityRequests
      /\ Account("pedro", "A", "trader") \in CommunityRequests
      /\ Account("carlos", "A", "trader") \in CommunityRequests
      /\ Account("bea", "B", "trader") \in CommunityRequests
  BY AccountSteps, Defaults, Cast
<1> QED
  BY <1>1 DEF Traders

LEMMA IntrudesSteps ==
  ASSUME NEW u \in Users, NEW own \in Tenants, NEW l \in {1, 2}
  PROVE  Intrudes(u, own, l) \in Seq(CommunityRequests)
<1>1. PICK other \in Tenants : other = IF own = "A" THEN "B" ELSE "A"
  BY Defaults
<1>2. PICK mine \in {1, 2} : mine = IF l = 1 THEN 2 ELSE 1
  OBVIOUS
<1>3. /\ On("edit", u, mine) \in CommunityRequests /\ On("edit", u, l) \in CommunityRequests
      /\ On("close", u, l) \in CommunityRequests
      /\ Kinded("publish", u, 3, "FORGED") \in CommunityRequests
  BY NamingOn, NamingKinded, Words DEF Naming, Names
<1>4. /\ On("read_listing", u, mine) \in CommunityRequests
      /\ On("read_listing", u, l) \in CommunityRequests /\ Do("list", u) \in CommunityRequests
      /\ Kinded("list", u, 0, "CONTRADICTORY") \in CommunityRequests
  BY PlainDo, PlainOn, PlainKinded, Words DEF Plain
<1>5. Is("version", mine, 1) \in CommunityRequests
  BY IsSteps DEF Topics
<1>6. /\ Gets(On("read_listing", u, l), {404}) \in CommunityRequests
      /\ Gets(On("edit", u, l), {404}) \in CommunityRequests
      /\ Gets(On("close", u, l), {404}) \in CommunityRequests
      /\ Gets(Do("list", u), Foreign) \in CommunityRequests
      /\ Gets(On("edit", u, l), Foreign) \in CommunityRequests
      /\ Gets(On("close", u, l), Foreign) \in CommunityRequests
      /\ Gets(Kinded("list", u, 0, "CONTRADICTORY"), {400, 403}) \in CommunityRequests
      /\ Gets(Kinded("publish", u, 3, "FORGED"), {400}) \in CommunityRequests
  BY <1>3, <1>4, GetsSteps, Codes
<1> QED
  BY <1>1, <1>2, <1>3, <1>4, <1>5, <1>6, InSteps DEF Intrudes

LEMMA ReferenceVersionsSteps == ReferenceVersions \in Seq(CommunityRequests)
<1>1. /\ Do("define", "ana") \in CommunityRequests /\ Do("view", "pedro") \in CommunityRequests
      /\ Do("view", "bea") \in CommunityRequests /\ Do("view", "nobody") \in CommunityRequests
  BY PlainDo, Cast DEF Plain
<1>2. /\ On("read_listing", "pedro", 1) \in CommunityRequests
      /\ On("context", "pedro", 1) \in CommunityRequests
      /\ On("context", "ana", 1) \in CommunityRequests
      /\ On("read_agreement", "pedro", 1) \in CommunityRequests
      /\ On("context", "carlos", 1) \in CommunityRequests
      /\ On("read_agreement", "carlos", 1) \in CommunityRequests
      /\ On("context", "bea", 1) \in CommunityRequests
  BY PlainOn, Cast DEF Plain
<1>3. /\ On("propose_reference", "ana", 1) \in CommunityRequests
      /\ On("publish_reference", "pedro", 1) \in CommunityRequests
      /\ On("publish_reference", "ana", 1) \in CommunityRequests
      /\ On("publish", "ana", 1) \in CommunityRequests
      /\ On("propose_reference", "ana", 2) \in CommunityRequests
      /\ On("publish_reference", "ana", 2) \in CommunityRequests
  BY NamingOn, Cast DEF Naming, Names
<1>4. /\ Is("included", 0, 0) \in CommunityRequests
      /\ Is("referenceVersion", 0, 1) \in CommunityRequests
      /\ Is("contextVersion", 1, 1) \in CommunityRequests
      /\ Is("agreements", 0, 3) \in CommunityRequests
      /\ Is("referenceVersion", 0, 2) \in CommunityRequests
      /\ Is("consent", 8, 0) \in CommunityRequests
  BY IsSteps, Cast DEF Topics
<1>5. /\ Gets(On("publish_reference", "pedro", 1), {403}) \in CommunityRequests
      /\ Gets(On("context", "carlos", 1), {404}) \in CommunityRequests
      /\ Gets(On("read_agreement", "carlos", 1), {404}) \in CommunityRequests
      /\ Gets(Do("view", "bea"), Foreign) \in CommunityRequests
      /\ Gets(On("context", "bea", 1), Foreign) \in CommunityRequests
      /\ Elsewhere(Do("view", "bea")) \in CommunityRequests
      /\ Gets(Elsewhere(Do("view", "bea")), {404}) \in CommunityRequests
      /\ Elsewhere(On("context", "bea", 1)) \in CommunityRequests
      /\ Gets(Elsewhere(On("context", "bea", 1)), {404}) \in CommunityRequests
      /\ Gets(Do("view", "nobody"), {401}) \in CommunityRequests
  BY <1>1, <1>2, <1>3, <1>4, ElsewhereSteps, GetsSteps, Codes
<1>6. /\ Agree(1, 1, "pedro", "ana", 1, {"pedro", "ana"}) \in Seq(CommunityRequests)
      /\ Agree(2, 1, "pedro", "ana", 10, {"pedro", "ana"}) \in Seq(CommunityRequests)
      /\ Agree(3, 1, "pedro", "ana", 100, {"pedro", "ana"}) \in Seq(CommunityRequests)
      /\ Agree(4, 1, "pedro", "ana", 30, {}) \in Seq(CommunityRequests)
  BY AgreeSteps, Cast
<1> QED
  BY <1>1, <1>2, <1>3, <1>4, <1>5, <1>6, FixtureSteps, Joined DEF ReferenceVersions

LEMMA ValueGovernanceSteps == ValueGovernance \in Seq(CommunityRequests)
BY FixtureSteps, SecondPublisherSteps, RawHistorySteps, SuperAdminGovernsNothingSteps,
   PolicyFloorsSteps, IntegritySteps, ValueIsolationSteps, Joined DEF ValueGovernance

LEMMA ConsentRetentionSteps == ConsentRetention \in Seq(CommunityRequests)
BY FixtureSteps, ConsentSteps, RetentionSteps, Joined DEF ConsentRetention

LEMMA MultiSourceSteps == MultiSource \in Seq(CommunityRequests)
BY FixtureSteps, SourcesSteps, SeedSteps, Joined DEF MultiSource

LEMMA OrdinaryGovernanceSteps == OrdinaryGovernance \in Seq(CommunityRequests)
BY FixtureSteps, ElectorsSteps, DirectPublishSteps, EnableGovernanceSteps, OrdinaryVoteSteps, Joined
   DEF OrdinaryGovernance

LEMMA CommunityAuthoritySteps == CommunityAuthority \in Seq(CommunityRequests)
BY FixtureSteps, AuthorityFixtureSteps, GovernanceDisabledSteps, GovernanceEnabledSteps, Joined DEF
   CommunityAuthority

LEMMA ParticipantIndependenceSteps == ParticipantIndependence \in Seq(CommunityRequests)
BY FixtureSteps, ReviewerSteps, IndependenceAnswersSteps, RelatedAgreementSteps, Joined DEF
   ParticipantIndependence

LEMMA SmokeSteps == Smoke \in Seq(CommunityRequests)
<1>1. /\ Do("list", "nobody") \in CommunityRequests /\ Do("list", "ana") \in CommunityRequests
  BY PlainDo, Cast DEF Plain
<1>2. On("read_listing", "ana", 1) \in CommunityRequests
  BY PlainOn, Cast DEF Plain
<1>3. /\ On("publish", "ana", 1) \in CommunityRequests
      /\ On("edit", "ana", 1) \in CommunityRequests /\ On("close", "ana", 1) \in CommunityRequests
  BY NamingOn, Cast DEF Naming, Names
<1>4. /\ Is("closed", 1, 1) \in CommunityRequests /\ Is("version", 1, 2) \in CommunityRequests
  BY IsSteps, Cast DEF Topics
<1>5. Account("ana", "A", "trader") \in CommunityRequests
  BY AccountSteps, Defaults, Cast
<1>6. /\ Gets(Do("list", "nobody"), {401}) \in CommunityRequests
      /\ Gets(On("edit", "ana", 1), {409}) \in CommunityRequests
      /\ From(On("close", "ana", 1), 1) \in CommunityRequests
      /\ From(On("close", "ana", 1), 2) \in CommunityRequests
      /\ From(On("edit", "ana", 1), 2) \in CommunityRequests
      /\ Gets(From(On("edit", "ana", 1), 2), {409}) \in CommunityRequests
  BY <1>1, <1>2, <1>3, <1>4, <1>5, FromSteps, GetsSteps, Codes
<1> QED
  BY <1>1, <1>2, <1>3, <1>4, <1>5, <1>6 DEF Smoke

LEMMA Marketplace3Steps == Marketplace3 \in Seq(CommunityRequests)
<1>1. Do("list", "pedro") \in CommunityRequests
  BY PlainDo, Cast DEF Plain
<1>2. /\ On("read_deal", "ana", 1) \in CommunityRequests
      /\ On("read_deal", "pedro", 1) \in CommunityRequests
      /\ On("read_agreement", "ana", 1) \in CommunityRequests
      /\ On("read_agreement", "pedro", 1) \in CommunityRequests
      /\ On("read_listing", "carlos", 1) \in CommunityRequests
      /\ On("read_deal", "carlos", 1) \in CommunityRequests
      /\ On("read_agreement", "carlos", 1) \in CommunityRequests
      /\ On("read_listing", "bea", 1) \in CommunityRequests
      /\ On("read_deal", "bea", 1) \in CommunityRequests
      /\ On("read_agreement", "bea", 1) \in CommunityRequests
  BY PlainOn, Cast DEF Plain
<1>3. /\ On("publish", "ana", 1) \in CommunityRequests
      /\ On("counter", "ana", 1) \in CommunityRequests
      /\ On("decline", "carlos", 1) \in CommunityRequests
  BY NamingOn, Cast DEF Naming, Names
<1>4. Is("accepted", 1, 1) \in CommunityRequests
  BY IsSteps, Cast DEF Topics
<1>5. Bid(1, 1, "pedro", 10, {}) \in CommunityRequests
  BY BidSteps, Cast
<1>6. Accepts(1, "pedro", 1, {}) \in CommunityRequests
  BY AcceptSteps, Cast
<1>7. /\ Gets(On("read_deal", "carlos", 1), {404}) \in CommunityRequests
      /\ Gets(On("read_agreement", "carlos", 1), {404}) \in CommunityRequests
      /\ From(On("decline", "carlos", 1), 2) \in CommunityRequests
      /\ Gets(From(On("decline", "carlos", 1), 2), {400, 403, 404, 409}) \in CommunityRequests
      /\ Gets(On("read_listing", "bea", 1), Foreign) \in CommunityRequests
      /\ Gets(On("read_deal", "bea", 1), Foreign) \in CommunityRequests
      /\ Gets(On("read_agreement", "bea", 1), Foreign) \in CommunityRequests
  BY <1>1, <1>2, <1>3, <1>4, <1>5, <1>6, FromSteps, GetsSteps, Codes
<1> QED
  BY <1>1, <1>2, <1>3, <1>4, <1>5, <1>6, <1>7, TradersSteps, Joined DEF Marketplace3

LEMMA MultitenantSteps == Multitenant \in Seq(CommunityRequests)
<1>1. /\ On("publish", "ana", 1) \in CommunityRequests
      /\ On("publish", "bea", 2) \in CommunityRequests
  BY NamingOn, Cast DEF Naming, Names
<1>2. /\ Account("ana", "A", "trader") \in CommunityRequests
      /\ Account("bea", "B", "trader") \in CommunityRequests
  BY AccountSteps, Defaults, Cast
<1>3. Elsewhere(On("publish", "bea", 2)) \in CommunityRequests
  BY <1>1, <1>2, ElsewhereSteps
<1> QED
  BY <1>1, <1>2, <1>3, IntrudesSteps, Defaults, Cast, Joined DEF Multitenant

\* The custody drivers.
LEMMA Keyholders ==
  /\ 1..7 \subseteq Seats /\ {11, 14, 17} \subseteq Replacements /\ 1..6 \subseteq Pids
  /\ 1..7 \subseteq Creds /\ {11, 14, 17} \subseteq Creds /\ Guardian \in Creds /\ Nobody \in Creds
  /\ 1..7 \subseteq Voices /\ Nobody \in Voices
<1>1. /\ \A i \in 1..7 : i \in {1, 2, 3, 4, 5, 6, 7}
      /\ \A i \in 1..6 : i \in {1, 2, 3, 4, 5, 6}
  OBVIOUS
<1>2. 1..7 \subseteq Seats /\ {11, 14, 17} \subseteq Replacements /\ 1..6 \subseteq Pids
  BY <1>1, CustodyAssumption DEF CustodyAssumption
<1> QED
  BY <1>2 DEF Creds, Voices

LEMMA SignSteps ==
  ASSUME NEW p \in 1..6, NEW s \in Voices, NEW c \in Creds, NEW k \in Creds, NEW domain \in Domains,
         NEW content \in Int, NEW count \in Nat \cup {Fresh}, NEW code \in Int
  PROVE  /\ SignAs(p, s, c, k, domain, content, count, code) \in CustodySteps
         /\ Keep(SignAs(p, s, c, k, domain, content, count, code)) \in CustodySteps
BY Keyholders DEF SignAs, Keep, CustodySteps

LEMMA BySteps ==
  ASSUME NEW p \in 1..6, NEW s \in 1..7, NEW c \in Creds, NEW code \in Int
  PROVE  By(p, s, c, code) \in CustodySteps /\ Keep(By(p, s, c, code)) \in CustodySteps
<1>1. "CONSTITUTION" \in Domains /\ s \in Voices /\ Fresh \in Nat \cup {Fresh} /\ 0 \in Int
  BY Keyholders DEF Domains
<1> QED
  BY <1>1, SignSteps DEF By

LEMMA EachSteps ==
  ASSUME NEW p \in 1..6, NEW seats \in Seq(1..7)
  PROVE  Each(p, seats) \in Seq(CustodySteps)
<1>1. \A i \in DOMAIN seats : By(p, seats[i], seats[i], 200) \in CustodySteps
  BY BySteps, Keyholders
<1> QED
  BY <1>1 DEF Each

LEMMA BootSteps ==
  ASSUME NEW token \in Tokens, NEW body \in Bodies, NEW code \in Int
  PROVE  Boot(token, body, code) \in CustodySteps
BY DEF Boot, CustodySteps

LEMMA CeremonySteps == ASSUME NEW c \in Creds PROVE Ceremony(c) \in CustodySteps
BY DEF Ceremony, CustodySteps

LEMMA ProposalSteps ==
  ASSUME NEW p \in 1..6
  PROVE  /\ Amend(p) \in CustodySteps
         /\ \A action \in Actions, s \in Voices, c \in Creds :
              NewProposal(p, action, s, c) \in CustodySteps
<1>1. \A action \in Actions, s \in Voices, c \in Creds : NewProposal(p, action, s, c) \in CustodySteps
  BY Keyholders DEF NewProposal, CustodySteps
<1> QED
  BY <1>1, Keyholders DEF Amend, Actions

LEMMA ActivationSteps ==
  ASSUME NEW p \in 1..6, NEW c \in Creds, NEW code \in Int
  PROVE  Execute(p, code) \in CustodySteps /\ Recover(p, c, code) \in CustodySteps
BY Keyholders DEF Execute, Recover, CustodySteps

LEMMA SuspensionSteps ==
  ASSUME NEW s \in 1..7, NEW offset \in Int, NEW code \in Int
  PROVE  /\ Suspension(s, offset, code) \in CustodySteps
         /\ Keep(Suspension(s, offset, code)) \in CustodySteps
BY Keyholders DEF Suspension, Keep, CustodySteps

LEMMA ResendSteps ==
  ASSUME NEW code \in Int
  PROVE  /\ \A p \in 1..6 : Resend(p, code) \in CustodySteps
         /\ \A s \in 1..7 : ResendSeat(s, code) \in CustodySteps
BY Keyholders DEF Resend, ResendSeat, CustodySteps

LEMMA AskSteps ==
  ASSUME NEW about \in Matters, NEW p \in 1..7 \cup {Nobody}, NEW code \in Int
  PROVE  Ask(about, p, code) \in CustodySteps
BY Keyholders DEF Ask, CustodySteps

LEMMA Members == CommunityRequests \subseteq StepSet /\ CustodySteps \subseteq StepSet
BY DEF StepSet

LEMMA RequestSeq == ASSUME NEW s \in Seq(CommunityRequests) PROVE s \in Seq(StepSet)
BY Members

LEMMA CustodySeq == ASSUME NEW s \in Seq(CustodySteps) PROVE s \in Seq(StepSet)
BY Members

\* What the drivers sign, and the seats that do.
LEMMA Signing ==
  /\ 1 \in Pids /\ 3 \in Pids /\ 7 \in Voices /\ 7 \in Creds /\ Guardian \in Creds /\ Nobody \in Creds
  /\ "CONSTITUTION" \in Domains /\ "GUARDIAN" \in Domains
  /\ Fresh \in Nat \cup {Fresh} /\ 99 \in Nat \cup {Fresh}
BY Keyholders DEF Domains

LEMMA Rounds ==
  ASSUME NEW p \in 1..6
  PROVE  /\ Each(p, <<1, 2, 3, 4, 5, 6, 7>>) \in Seq(StepSet)
         /\ Each(p, <<1, 2, 3, 4, 5, 6>>) \in Seq(StepSet)
         /\ Each(p, <<1, 2, 3, 5, 6>>) \in Seq(StepSet)
         /\ Each(p, <<2, 3, 4, 5, 6>>) \in Seq(StepSet)
<1>1. \A seats \in Seq(1..7) : Each(p, seats) \in Seq(StepSet)
  BY EachSteps, CustodySeq
<1>2. /\ <<1, 2, 3, 4, 5, 6, 7>> \in Seq(1..7) /\ <<1, 2, 3, 4, 5, 6>> \in Seq(1..7)
      /\ <<1, 2, 3, 5, 6>> \in Seq(1..7) /\ <<2, 3, 4, 5, 6>> \in Seq(1..7)
  OBVIOUS
<1> QED
  BY <1>1, <1>2, Zenon

LEMMA JoinedSteps == ASSUME NEW s \in Seq(StepSet), NEW t \in Seq(StepSet) PROVE s \o t \in Seq(StepSet)
OBVIOUS

LEMMA MarketIntegritySteps == MarketIntegrity \in Seq(StepSet)
<1>1. /\ Do("define", "ana") \in CommunityRequests /\ Do("policy", "ana") \in CommunityRequests
      /\ Do("constitution", "bea") \in CommunityRequests
  BY PlainDo, Cast DEF Plain
<1>2. Kinded("policy", "ana", 0, "PROTECTED") \in CommunityRequests
  BY PlainKinded, Words, Cast DEF Plain
<1>3. Is("policyVersion", 0, 2) \in CommunityRequests
  BY IsSteps, Cast DEF Topics
<1>4. /\ Gets(Kinded("policy", "ana", 0, "PROTECTED"), {409}) \in CommunityRequests
      /\ Elsewhere(Do("constitution", "bea")) \in CommunityRequests
      /\ Gets(Elsewhere(Do("constitution", "bea")), {404}) \in CommunityRequests
  BY <1>1, <1>2, <1>3, ElsewhereSteps, GetsSteps, Codes
<1>5. /\ By(1, 7, 7, 200) \in CustodySteps /\ By(4, 7, 7, 200) \in CustodySteps
      /\ By(2, 4, 4, 409) \in CustodySteps
  BY BySteps, Keyholders
<1>6. Boot("administrator", "whole", 200) \in CustodySteps
  BY BootSteps DEF Tokens, Bodies
<1>7. /\ NewProposal(3, "REPLACE_CONTROLLER", 4, 11) \in CustodySteps
      /\ NewProposal(4, "ROTATE_CREDENTIAL", 4, 14) \in CustodySteps
      /\ NewProposal(5, "REMOVE_GUARDIAN", Nobody, Nobody) \in CustodySteps
  BY ProposalSteps, Keyholders DEF Actions
<1>8. /\ Amend(1) \in CustodySteps /\ Amend(2) \in CustodySteps
  BY ProposalSteps
<1>9. /\ Execute(1, 409) \in CustodySteps /\ Execute(1, 200) \in CustodySteps
      /\ Execute(2, 409) \in CustodySteps /\ Execute(5, 200) \in CustodySteps
  BY ActivationSteps, Keyholders
<1>10. /\ Recover(3, 11, 409) \in CustodySteps /\ Recover(4, 14, 409) \in CustodySteps
      /\ Recover(4, 14, 200) \in CustodySteps
  BY ActivationSteps, Keyholders
<1>11. Keep(Suspension(4, 0, 200)) \in CustodySteps
  BY SuspensionSteps
<1>12. /\ ResendSeat(5, 409) \in CustodySteps /\ ResendSeat(4, 409) \in CustodySteps
  BY ResendSteps
<1>13. /\ Ask("signatureCount", 1, 6) \in CustodySteps
      /\ Ask("constitutionVersion", Nobody, 2) \in CustodySteps
      /\ Ask("nextSequence", Nobody, Any) \in CustodySteps
      /\ Ask("seat", 4, 14) \in CustodySteps /\ Ask("revoked", 4, 1) \in CustodySteps
      /\ Ask("guardianRemoved", Nobody, 1) \in CustodySteps
  BY AskSteps DEF Matters, Any
<1>14. /\ Each(1, <<1, 2, 3, 4, 5, 6>>) \in Seq(StepSet)
      /\ Each(4, <<1, 2, 3, 5, 6>>) \in Seq(StepSet)
      /\ Each(5, <<1, 2, 3, 5, 6>>) \in Seq(StepSet)
  BY Rounds
<1> QED
  BY <1>1, <1>2, <1>3, <1>4, <1>5, <1>6, <1>7, <1>8, <1>9, <1>10, <1>11, <1>12, <1>13, <1>14,
     FixtureSteps, RequestSeq, JoinedSteps, Members DEF MarketIntegrity

LEMMA WebauthnCustodySteps == WebauthnCustody \in Seq(StepSet)
<1>1. Do("constitution", "bea") \in CommunityRequests
  BY PlainDo, Cast DEF Plain
<1>2. /\ Elsewhere(Do("constitution", "bea")) \in CommunityRequests
      /\ Gets(Elsewhere(Do("constitution", "bea")), {404}) \in CommunityRequests
  BY <1>1, ElsewhereSteps, GetsSteps, Codes
<1>3. /\ SignAs(3, 7, 7, 7, "CONSTITUTION", -1, Fresh, 400) \in CustodySteps
      /\ SignAs(3, 7, 7, 7, "CONSTITUTION", -2, Fresh, 400) \in CustodySteps
      /\ SignAs(3, 7, 7, 7, "CONSTITUTION", 0, 99, 409) \in CustodySteps
  BY Signing DEF SignAs, CustodySteps
<1>4. /\ Keep(By(2, 7, 7, 200)) \in CustodySteps /\ By(2, 7, 7, 409) \in CustodySteps
      /\ By(5, 7, 17, 200) \in CustodySteps /\ By(6, 1, 11, 200) \in CustodySteps
  BY BySteps, Keyholders
<1>5. Boot("administrator", "whole", 200) \in CustodySteps
  BY BootSteps DEF Tokens, Bodies
<1>6. /\ Ceremony(7) \in CustodySteps /\ Ceremony(Guardian) \in CustodySteps
      /\ Ceremony(17) \in CustodySteps /\ Ceremony(11) \in CustodySteps
  BY CeremonySteps, Keyholders
<1>7. /\ NewProposal(4, "ROTATE_CREDENTIAL", 7, 17) \in CustodySteps
      /\ NewProposal(5, "ROTATE_CREDENTIAL", 1, 11) \in CustodySteps
  BY ProposalSteps, Keyholders DEF Actions
<1>8. /\ Amend(1) \in CustodySteps /\ Amend(2) \in CustodySteps
      /\ Amend(3) \in CustodySteps /\ Amend(6) \in CustodySteps
  BY ProposalSteps
<1>9. /\ Execute(1, 200) \in CustodySteps /\ Execute(6, 409) \in CustodySteps
  BY ActivationSteps, Keyholders
<1>10. /\ Recover(4, 17, 200) \in CustodySteps /\ Recover(5, 11, 200) \in CustodySteps
  BY ActivationSteps, Keyholders
<1>11. /\ Suspension(7, 0, 200) \in CustodySteps
      /\ Suspension(1, 0, 200) \in CustodySteps
  BY SuspensionSteps
<1>12. /\ Resend(2, 400) \in CustodySteps /\ Resend(3, 400) \in CustodySteps
  BY ResendSteps
<1>13. /\ Ask("constitutionVersion", Nobody, 2) \in CustodySteps
      /\ Ask("nextSequence", Nobody, Any) \in CustodySteps
      /\ Ask("seat", 7, 17) \in CustodySteps /\ Ask("seat", 1, 11) \in CustodySteps
      /\ Ask("revoked", 1, 1) \in CustodySteps /\ Ask("revoked", 7, 1) \in CustodySteps
  BY AskSteps DEF Matters, Any
<1>14. /\ Each(1, <<1, 2, 3, 4, 5, 6, 7>>) \in Seq(StepSet)
      /\ Each(2, <<1, 2, 3, 4, 5, 6>>) \in Seq(StepSet)
      /\ Each(4, <<1, 2, 3, 4, 5, 6>>) \in Seq(StepSet)
      /\ Each(5, <<2, 3, 4, 5, 6>>) \in Seq(StepSet)
      /\ Each(6, <<2, 3, 4, 5, 6>>) \in Seq(StepSet)
  BY Rounds
<1> QED
  BY <1>1, <1>2, <1>3, <1>4, <1>5, <1>6, <1>7, <1>8, <1>9, <1>10, <1>11, <1>12, <1>13, <1>14,
     FixtureSteps, RequestSeq, JoinedSteps, Members DEF WebauthnCustody

LEMMA ConstitutionalMutationMatrixSteps == ConstitutionalMutationMatrix \in Seq(StepSet)
<1>1. /\ SignAs(1, 7, 7, 7, "CONSTITUTION", -1, Fresh, 400) \in CustodySteps
      /\ SignAs(1, 7, 7, 7, "GUARDIAN", 0, Fresh, 400) \in CustodySteps
      /\ SignAs(1, 7, 7, 7, "CONSTITUTION", -3, Fresh, 400) \in CustodySteps
      /\ SignAs(1, 7, Guardian, Guardian, "CONSTITUTION", 0, Fresh, 409) \in CustodySteps
      /\ SignAs(1, 7, Nobody, 7, "CONSTITUTION", 0, Fresh, 409) \in CustodySteps
  BY Signing DEF SignAs, CustodySteps
<1>2. /\ By(1, 1, 1, 409) \in CustodySteps /\ By(1, 7, 7, 200) \in CustodySteps
      /\ By(1, 7, 7, 409) \in CustodySteps /\ By(2, 4, 4, 409) \in CustodySteps
  BY BySteps, Keyholders
<1>3. /\ Amend(1) \in CustodySteps /\ Amend(2) \in CustodySteps
  BY ProposalSteps
<1>4. /\ Execute(1, 409) \in CustodySteps /\ Execute(1, 200) \in CustodySteps
  BY ActivationSteps, Keyholders
<1>5. /\ Suspension(4, -1, 409) \in CustodySteps
      /\ Suspension(4, 0, 200) \in CustodySteps
  BY SuspensionSteps
<1>6. /\ Ask("constitutionVersion", Nobody, 1) \in CustodySteps
      /\ Ask("constitutionVersion", Nobody, 2) \in CustodySteps
      /\ Ask("nextSequence", Nobody, Any) \in CustodySteps
  BY AskSteps DEF Matters, Any
<1>7. Each(1, <<1, 2, 3, 4, 5, 6>>) \in Seq(StepSet)
  BY Rounds
<1> QED
  BY <1>1, <1>2, <1>3, <1>4, <1>5, <1>6, <1>7, JoinedSteps, Members DEF ConstitutionalMutationMatrix

LEMMA GovernedBoundarySteps == GovernedBoundary \in Seq(StepSet)
<1>1. /\ Boot("administrator", "whole", 200) \in CustodySteps
      /\ Boot("member", "unknown_field", 400) \in CustodySteps
      /\ Boot("member", "whole", 403) \in CustodySteps
      /\ Boot("other_tenant", "whole", 403) \in CustodySteps
      /\ Boot("unsigned", "whole", 401) \in CustodySteps
      /\ Boot("untrusted", "whole", 401) \in CustodySteps
      /\ Boot("administrator", "unknown_field", 400) \in CustodySteps
      /\ Boot("administrator", "missing_seat", 400) \in CustodySteps
      /\ Boot("administrator", "duplicate_seat", 409) \in CustodySteps
      /\ Boot("administrator", "whole", 409) \in CustodySteps
  BY BootSteps DEF Tokens, Bodies
<1>2. /\ Ask("constitutionVersion", Nobody, 0) \in CustodySteps
      /\ Ask("constitutionVersion", Nobody, 1) \in CustodySteps
  BY AskSteps DEF Matters, Any
<1> QED
  BY <1>1, <1>2, FixtureSteps, RequestSeq, ConstitutionalMutationMatrixSteps, JoinedSteps, Members
     DEF GovernedBoundary

LEMMA ScriptsFit == \A d \in DOMAIN Script : Script[d] \in Seq(StepSet)
<1>1. /\ ReferenceVersions \in Seq(StepSet) /\ ValueGovernance \in Seq(StepSet)
      /\ ConsentRetention \in Seq(StepSet) /\ MultiSource \in Seq(StepSet)
      /\ OrdinaryGovernance \in Seq(StepSet) /\ CommunityAuthority \in Seq(StepSet)
      /\ ParticipantIndependence \in Seq(StepSet) /\ Smoke \in Seq(StepSet)
      /\ Marketplace3 \in Seq(StepSet) /\ Multitenant \in Seq(StepSet)
  BY RequestSeq, ReferenceVersionsSteps, ValueGovernanceSteps, ConsentRetentionSteps,
     MultiSourceSteps,
     OrdinaryGovernanceSteps, CommunityAuthoritySteps, ParticipantIndependenceSteps, SmokeSteps,
     Marketplace3Steps, MultitenantSteps
<1> QED
  BY <1>1, MarketIntegritySteps, WebauthnCustodySteps, GovernedBoundarySteps DEF Script
-----------------------------------------------------------------------------
(***************************************************************************)
(* The inductive invariant holds                                           *)
(***************************************************************************)
\* Whichever service a request reaches, what was spent stays spent, and what
\* is accepted of the requests that are repeated is spent from then on.
LEMMA ServicesKeep ==
  ASSUME KeysInv, CommunityInv, NEW r \in Requests, Reaches(r), today' = today
  PROVE  /\ KeysInv' /\ CommunityInv'
         /\ \A q \in Requests : Spent(q) => Spent(q)'
         /\ Repeatable(r) /\ Accepted(r) => Spent(r)'
<1>1. CASE r \in KeyRequests
  <2>1. Serve(r) /\ UNCHANGED community
    BY <1>1, KeysShape DEF Reaches
  <2>2. KeysInv'
    BY <1>1, <2>1, ServeKeepsKeys
  <2>3. CommunityInv'
    BY <2>1 DEF community, market, CommunityInv, CommunityTypeOK, MarketTypeOK, Status
  <2>4. \A q \in Requests : Spent(q) => Spent(q)'
    BY <1>1, <2>1, KeysRemember
  <2>5. Repeatable(r) /\ Accepted(r) => Spent(r)'
    BY <1>1, <2>1, KeysSpend
  <2> QED
    BY <2>2, <2>3, <2>4, <2>5
<1>2. CASE r \in CommunityRequests
  <2>1. CommunityServe(r) /\ UNCHANGED keys
    BY <1>2, CommunityShape DEF Reaches
  <2>2. KeysInv'
    BY <2>1 DEF keys, KeysInv, KeysTypeOK, OneKey, Live, Suspended
  <2>3. CommunityInv'
    BY <1>2, <2>1, CommunityServeKeeps
  <2>4. \A q \in Requests : Spent(q) => Spent(q)'
    BY <1>2, <2>1, CommunityRemembers
  <2>5. Repeatable(r) /\ Accepted(r) => Spent(r)'
    BY <1>2, <2>1, CommunitySpend
  <2> QED
    BY <2>2, <2>3, <2>4, <2>5
<1> QED
  BY <1>1, <1>2 DEF Requests

LEMMA InitHolds == GovernanceInit => IInv
<1> SUFFICES ASSUME GovernanceInit PROVE IInv
  OBVIOUS
<1>1. KeysInv
  BY KeysInitially DEF GovernanceInit
<1>2. CommunityInv
  BY CommunityInitially DEF GovernanceInit
<1>3. kept \in KeyRequests
  BY DEF GovernanceInit, NothingKept, KeyRequests, Asks, Matters, Voices
<1>4. used \in [Seats \cup {Guardian, Nobody} -> Nat]
  BY DEF GovernanceInit
<1>5. pc \in 0..(Len(Steps) + 1)
  <2>1. Steps \in Seq(StepSet)
    BY ScriptsFit DEF GovernanceInit, Steps
  <2> QED
    BY <2>1 DEF GovernanceInit
<1>6. /\ driver \in DOMAIN Script /\ late \in BOOLEAN /\ seen \in Nat /\ sent = {}
  BY DEF GovernanceInit
<1>7. DriverInv
  BY <1>3, <1>4, <1>5, <1>6 DEF DriverInv
<1> QED
  BY <1>1, <1>2, <1>7 DEF IInv

\* What a driver sends is a request.
LEMMA Sends ==
  ASSUME DriverInv, pc \in 1..Len(Steps)
  PROVE  /\ Steps \in Seq(StepSet) /\ Steps[pc] \in StepSet
         /\ Requested(Steps[pc]) \in Requests
         /\ Custody(Steps[pc]) => Requested(Steps[pc]) \in KeyRequests
<1>1. Steps \in Seq(StepSet)
  BY ScriptsFit DEF DriverInv, Steps
<1>2. Steps[pc] \in StepSet
  BY <1>1
<1>3. PICK step \in StepSet : step = Steps[pc]
  BY <1>2
<1>4. CASE step \in CommunityRequests
  <2>1. ~Custody(step)
    BY <1>4, CommunityShape
  <2>2. Requested(step) = step
    BY <2>1 DEF Requested
  <2> QED
    BY <1>1, <1>3, <1>4, <2>1, <2>2 DEF Requests
<1>5. CASE step \in CustodySteps
  <2>1. Request(step) \in KeyRequests
    BY <1>5, RequestMade DEF DriverInv
  <2>2. Requested(step) = Request(step)
    BY <1>5, CustodyShape DEF Requested
  <2> QED
    BY <1>1, <1>3, <2>1, <2>2 DEF Requests
<1> QED
  BY <1>3, <1>4, <1>5 DEF StepSet

LEMMA DriveKeeps ==
  ASSUME IInv, Drive
  PROVE  IInv'
<1> USE DEF IInv
<1>1. PICK r \in Requests : r = Requested(Steps[pc])
  BY Sends DEF Drive
<1>2. Reaches(r) /\ UNCHANGED <<driver, late, today>>
  BY <1>1 DEF Drive
<1>3. KeysInv' /\ CommunityInv' /\ \A q \in Requests : Spent(q) => Spent(q)'
  BY <1>1, <1>2, ServicesKeep
<1>4. Repeatable(r) /\ Accepted(r) => Spent(r)'
  BY <1>1, <1>2, ServicesKeep
<1>5. pc' \in 0..(Len(Steps') + 1) /\ driver' \in DOMAIN Script /\ late' \in BOOLEAN
  <2>1. Len(Steps) \in Nat /\ pc \in 1..Len(Steps) /\ Steps' = Steps
    BY <1>2, Sends DEF Drive, Steps
  <2>2. pc' = pc + 1 \/ pc' = 0
    BY DEF Drive
  <2> QED
    BY <1>2, <2>1, <2>2 DEF DriverInv
<1>6. used' \in [Seats \cup {Guardian, Nobody} -> Nat]
  <2>1. \/ used' = used
        \/ used' = [h \in DOMAIN used |-> IF h \in Uses(Steps[pc]) THEN used[h] + 1 ELSE used[h]]
    BY DEF Drive
  <2> QED
    BY <2>1 DEF DriverInv
<1>7. seen' \in Nat
  BY DEF Drive, DriverInv, KeysInv, KeysTypeOK
<1>8. kept' \in KeyRequests
  BY <1>1, Sends DEF Drive, DriverInv
<1>9. sent' \subseteq Log /\ \A m \in sent' : Repeatable(m.request) /\ (m.accepted => Spent(m.request)')
  <2>1. sent' = IF Repeatable(r) THEN sent \cup {[request |-> r, accepted |-> Accepted(r)]} ELSE sent
    BY <1>1 DEF Drive
  <2>2. Accepted(r) \in BOOLEAN
    BY DEF Accepted
  <2>3. PICK b \in BOOLEAN : b = Accepted(r)
    BY <2>2
  <2>4. sent' = IF Repeatable(r) THEN sent \cup {[request |-> r, accepted |-> b]} ELSE sent
    BY <2>1, <2>3
  <2>5. [request |-> r, accepted |-> b] \in Log
    BY <1>1 DEF Log
  <2>6. \A m \in sent : m \in Log /\ Repeatable(m.request) /\ (m.accepted => Spent(m.request)')
    BY <1>3 DEF DriverInv, Log
  <2>7. Repeatable(r) /\ b => Spent(r)'
    BY <1>4, <2>3
  <2> QED
    BY <2>4, <2>5, <2>6, <2>7
<1> QED
  BY <1>3, <1>5, <1>6, <1>7, <1>8, <1>9 DEF DriverInv

LEMMA RedeliverKeeps ==
  ASSUME IInv, Redeliver
  PROVE  IInv'
<1> USE DEF IInv
<1>1. PICK m \in sent :
        /\ Reaches(m.request)
        /\ sent' = IF Accepted(m.request) THEN sent \cup {[m EXCEPT !.accepted = TRUE]} ELSE sent
        /\ UNCHANGED <<driver, late, today, pc, used, seen, kept>>
  BY DEF Redeliver
<1>2. m \in Log /\ m.request \in Requests /\ Repeatable(m.request)
  BY DEF DriverInv, Log
<1>3. /\ KeysInv' /\ CommunityInv' /\ \A q \in Requests : Spent(q) => Spent(q)'
      /\ Accepted(m.request) => Spent(m.request)'
  BY <1>1, <1>2, ServicesKeep
<1>4. sent' \subseteq Log /\ \A k \in sent' : Repeatable(k.request) /\ (k.accepted => Spent(k.request)')
  <2>1. \A k \in sent : k \in Log /\ Repeatable(k.request) /\ (k.accepted => Spent(k.request)')
    BY <1>3 DEF DriverInv, Log
  <2>2. PICK n : n = [m EXCEPT !.accepted = TRUE]
    OBVIOUS
  <2>3. n \in Log /\ n.request = m.request
    BY <1>2, <2>2 DEF Log
  <2>4. sent' = IF Accepted(m.request) THEN sent \cup {n} ELSE sent
    BY <1>1, <2>2
  <2> QED
    BY <1>2, <1>3, <2>1, <2>3, <2>4
<1>5. /\ driver' \in DOMAIN Script /\ late' \in BOOLEAN /\ pc' \in 0..(Len(Steps') + 1)
      /\ used' \in [Seats \cup {Guardian, Nobody} -> Nat] /\ seen' \in Nat /\ kept' \in KeyRequests
  BY <1>1 DEF DriverInv, Steps
<1> QED
  BY <1>3, <1>4, <1>5 DEF DriverInv

\* A day ends, or nothing happens: no service does anything.
LEMMA ServicesRest ==
  ASSUME UNCHANGED <<keys, community>>, NEW r
  PROVE  Spent(r)' = Spent(r)
BY DEF keys, community, market, Spent, Voted

LEMMA RestKeeps ==
  ASSUME IInv, UNCHANGED <<keys, community, memory>>, today' = today \/ today' = today + 1
  PROVE  IInv'
<1> USE DEF IInv
<1>1. KeysInv'
  BY DEF keys, KeysInv, KeysTypeOK, OneKey, Live, Suspended
<1>2. CommunityInv'
  <2>1. CASE today' = today
    BY <2>1 DEF community, market, CommunityInv, CommunityTypeOK, MarketTypeOK
  <2>2. CASE today' = today + 1
    BY <2>2, MidnightKeeps
  <2> QED
    BY <2>1, <2>2
<1>3. DriverInv'
  <2>1. \A m \in sent : m.accepted => Spent(m.request)'
    BY ServicesRest DEF DriverInv
  <2> QED
    BY <2>1 DEF DriverInv, memory, Steps, Repeatable, ToKeys
<1> QED
  BY <1>1, <1>2, <1>3

\* The inductive invariant: what the services and the drivers hold has its
\* form, every seat has one key, and what was accepted of the requests that drivers
\* repeat is spent.
THEOREM Inductive == Spec => []IInv
<1>1. GovernanceInit => IInv
  BY InitHolds
<1>2. IInv /\ [Next]_vars => IInv'
  <2> SUFFICES ASSUME IInv, [Next]_vars PROVE IInv'
    OBVIOUS
  <2>1. CASE Drive
    BY <2>1, DriveKeeps
  <2>2. CASE Redeliver
    BY <2>2, RedeliverKeeps
  <2>3. CASE Midnight
    BY <2>3, RestKeeps DEF Midnight
  <2>4. CASE UNCHANGED vars
    BY <2>4, RestKeeps DEF vars
  <2> QED
    BY <2>1, <2>2, <2>3, <2>4 DEF Next
<1> QED
  BY <1>1, <1>2, PTL DEF Spec

\* Whatever is sent again, in whatever order, the services and the driver keep
\* their form, and the driver's place stays within its script.
THEOREM TypeCorrect == Spec => []TypeOK
<1>1. IInv => TypeOK
  BY DEF IInv, KeysInv, CommunityInv, DriverInv, TypeOK
<1> QED
  BY <1>1, Inductive, PTL

\* Every seat keeps one credential that counts, through every order of
\* suspensions, rotations and repeated requests, and one seat at most is
\* suspended (webauthn_hardware_custody_e2e.py:248-312).
THEOREM SeatsAlwaysKeepOneKey == Spec => []SeatsKeepOneKey
<1>1. IInv => SeatsKeepOneKey
  BY Counting DEF IInv
<1> QED
  BY <1>1, Inductive, PTL

\* Of the requests that drivers repeat, what a service accepted it refuses from
\* then on, however late and often it comes back and whatever request of
\* anybody came between (governed_boundary_e2e.py:80, 102-104,
\* webauthn_hardware_custody_e2e.py:189-208, market_integrity_e2e.py:113,
\* multi_source_value_evidence_e2e.py:129).
THEOREM NothingAcceptedTwice == Spec => []AcceptedOnce
<1>1. IInv => AcceptedOnce
  <2> SUFFICES ASSUME IInv, NEW m \in sent, m.accepted
               PROVE  m.request.op \in Idempotent \/ ~Accepted(m.request)
    BY DEF AcceptedOnce
  <2>1. /\ KeysInv /\ CommunityInv /\ m.request \in Requests
        /\ Repeatable(m.request) /\ Spent(m.request)
    BY DEF IInv, DriverInv, Log
  <2>2. CASE m.request \in KeyRequests
    BY <2>1, <2>2, KeysRefuse
  <2>3. CASE m.request \in CommunityRequests
    BY <2>1, <2>3, CommunityRefuse
  <2> QED
    BY <2>1, <2>2, <2>3 DEF Requests
<1> QED
  BY <1>1, Inductive, PTL
-----------------------------------------------------------------------------
(***************************************************************************)
(* Refinement: what Constitution promises, seen through the keys.  A seat  *)
(* has the voice of its one credential that is not revoked; requests that  *)
(* are refused, asked, registered or sent to the community are invisible.  *)
(***************************************************************************)
voiceNow   == [s \in Seats |-> Live(s)]
silentNow  == {s \in Seats : \E c \in Suspended : cred[c].seat = s}
lostNow    == {c \in Creds : cred[c].status = "REVOKED"}
motionNow  == [p \in Pids |-> [action |-> proposal[p].action, seat |-> proposal[p].seat,
                               new |-> proposal[p].new]]
pendingNow == {p \in Pids : proposal[p].state = "PROPOSED"}
enactedNow == {p \in Pids : proposal[p].state = "ACTIVATED"}
assentNow  == [p \in Pids |-> proposal[p].signed]
seatsNow   == <<voiceNow, silentNow, lostNow, cred[Guardian].status>>
lawNow     == <<version, seatsNow, motionNow, pendingNow, enactedNow, assentNow>>

LEMMA InitLawful == KeysInit => Law!Init
<1> SUFFICES ASSUME KeysInit PROVE Law!Init
  OBVIOUS
<1>1. /\ \A c \in Creds : cred[c].status = "NONE"
      /\ \A p \in Pids : proposal[p].state = "NONE" /\ proposal[p].signed = {}
      /\ version = 0
  BY DEF KeysInit, NoCred, NoProposal
<1>2. Guardian \in Creds
  BY DEF Creds
<1>3. \A s \in Seats : Live(s) = {}
  BY <1>1 DEF Live
<1> QED
  BY <1>1, <1>2, <1>3 DEF Law!Init, Suspended

\* Seats see nothing of a step that moves no credential to another seat or status.
LEMMA SeatsRest ==
  ASSUME \A c \in Creds : cred'[c].seat = cred[c].seat /\ cred'[c].status = cred[c].status
  PROVE  UNCHANGED seatsNow
<1>1. \A s : Live(s)' = Live(s)
  BY DEF Live
<1>2. Suspended' = Suspended
  BY DEF Suspended
<1>3. silentNow' = silentNow
  BY <1>2 DEF silentNow, Suspended
<1>4. voiceNow' = voiceNow
  BY <1>1 DEF voiceNow
<1>5. lostNow' = lostNow
  BY DEF lostNow
<1>6. Guardian \in Creds
  BY DEF Creds
<1> QED
  BY <1>3, <1>4, <1>5, <1>6 DEF seatsNow

LEMMA MotionsRest ==
  ASSUME UNCHANGED proposal
  PROVE  UNCHANGED <<motionNow, pendingNow, enactedNow, assentNow>>
BY DEF motionNow, pendingNow, enactedNow, assentNow

LEMMA BootstrapFounds ==
  ASSUME KeysInv, NEW r \in Bootstraps, BootstrapAnswer(r) = 200, Bootstrap(r)
  PROVE  Law!Found
<1>1. /\ version = 0 /\ Suspended' = {}
      /\ \A s \in Seats : Live(s)' = {s}
      /\ \A c \in Creds : /\ cred[c].status = "NONE"
                          /\ cred'[c].status = IF c \in Seats \cup {Guardian} THEN "ACTIVE" ELSE "NONE"
  BY BootstrapEffect
<1>2. version' = 1 /\ proposal' = proposal /\ Guardian \in Creds
  BY DEF Bootstrap, Creds
<1>3. voiceNow' = [s \in Seats |-> {s}]
  BY <1>1 DEF voiceNow
<1>4. silentNow' = silentNow
  <2>1. silentNow' = {}
    BY <1>1 DEF silentNow
  <2>2. silentNow = {}
    BY <1>1 DEF silentNow, Suspended
  <2> QED
    BY <2>1, <2>2
<1>5. lostNow' = lostNow
  BY <1>1 DEF lostNow
<1>6. cred'[Guardian].status = "ACTIVE"
  BY <1>1, <1>2
<1> QED
  BY <1>1, <1>2, <1>3, <1>4, <1>5, <1>6, MotionsRest
  DEF Law!Found, voiceNow, silentNow, lostNow, motionNow, pendingNow, enactedNow, assentNow

LEMMA ProposeMoves ==
  ASSUME KeysInv, NEW r \in Proposes, ProposeAnswer(r) = 200, Propose(r)
  PROVE  Law!Move(r.p)
<1>1. PICK p \in Pids : p = r.p
  BY DEF Proposes
<1>2. proposal \in [Pids -> Proposals] /\ version \in Nat
  BY KeysTyped DEF KeysInv
<1>3. version # 0 /\ proposal[p].state = "NONE"
  BY <1>1 DEF ProposeAnswer
<1>4. /\ proposal'[p].state = "PROPOSED" /\ proposal'[p].signed = {}
      /\ \A q \in Pids \ {p} : proposal'[q] = proposal[q]
  BY <1>1, <1>2 DEF Propose
<1>5. pendingNow' = pendingNow \cup {p} /\ enactedNow' = enactedNow
  BY <1>3, <1>4 DEF pendingNow, enactedNow
<1>6. assentNow' = [assentNow EXCEPT ![p] = {}]
  BY <1>4 DEF assentNow
<1>7. \A q \in Pids \ {p} : motionNow'[q] = motionNow[q]
  BY <1>4 DEF motionNow
<1>8. UNCHANGED <<version, seatsNow>>
  BY SeatsRest DEF Propose
<1>9. p \notin pendingNow \cup enactedNow
  BY <1>3 DEF pendingNow, enactedNow
<1> QED
  BY <1>1, <1>2, <1>3, <1>5, <1>6, <1>7, <1>8, <1>9
  DEF Law!Move, Law!seats, seatsNow, voiceNow, silentNow, lostNow, motionNow, pendingNow, enactedNow, assentNow

\* Only the one credential of a seat signs for it, so that a silent seat does not.
LEMMA SignAssents ==
  ASSUME KeysInv, NEW r \in Signs, SignAnswer(r) = 200, Sign(r)
  PROVE  r.seat \in Seats /\ Law!Assent(r.p, r.seat)
<1>1. PICK p \in Pids, k \in Creds, n \in Nat : p = r.p /\ k = r.cred /\ n = r.proof.count
  BY DEF Signs, Proofs
<1>2. proposal \in [Pids -> Proposals] /\ cred \in [Creds -> Credentials] /\ version \in Nat
  BY KeysTyped DEF KeysInv
<1>3. PICK s \in Seats :
        /\ s = r.seat /\ proposal[p].state = "PROPOSED" /\ s \notin proposal[p].signed
        /\ cred[k].seat = s /\ cred[k].status = "ACTIVE"
  BY <1>1 DEF SignAnswer
<1>4. s \notin silentNow
  <2>1. OneKey
    BY <1>1, <1>2, <1>3 DEF KeysInv
  <2>2. k \in Live(s)
    BY <1>1, <1>3 DEF Live
  <2>3. \A c \in Suspended : cred[c].seat = s => c \in Live(s)
    BY DEF Suspended, Live
  <2>4. \A c \in Suspended : cred[c].status # "ACTIVE"
    BY DEF Suspended
  <2> QED
    BY <1>3, <2>1, <2>2, <2>3, <2>4 DEF OneKey, silentNow
<1>5. /\ proposal' = [proposal EXCEPT ![p] = [proposal[p] EXCEPT !.signed = @ \cup {s}]]
      /\ cred' = [cred EXCEPT ![k].count = n] /\ version' = version
  BY <1>1, <1>3 DEF Sign
<1>6. \A q \in Pids : /\ proposal'[q].action = proposal[q].action /\ proposal'[q].seat = proposal[q].seat
                      /\ proposal'[q].new = proposal[q].new /\ proposal'[q].state = proposal[q].state
                      /\ proposal'[q].signed = IF q = p THEN proposal[q].signed \cup {s} ELSE proposal[q].signed
  <2>1. PICK m \in Proposals : m = proposal[p]
    BY <1>2
  <2>2. PICK v : v = m.signed \cup {s}
    OBVIOUS
  <2>3. proposal'[p] = [m EXCEPT !.signed = v]
    BY <1>2, <1>5, <2>1, <2>2
  <2>4. /\ proposal'[p].action = m.action /\ proposal'[p].seat = m.seat /\ proposal'[p].new = m.new
        /\ proposal'[p].state = m.state /\ proposal'[p].signed = v
    BY <2>3 DEF Proposals
  <2>5. \A q \in Pids : q # p => proposal'[q] = proposal[q]
    BY <1>2, <1>5
  <2> QED
    BY <2>1, <2>2, <2>4, <2>5
<1>7. motionNow' = motionNow /\ pendingNow' = pendingNow /\ enactedNow' = enactedNow
  BY <1>6 DEF motionNow, pendingNow, enactedNow
<1>8. assentNow' = [assentNow EXCEPT ![p] = @ \cup {s}]
  BY <1>6 DEF assentNow
<1>9. UNCHANGED seatsNow
  <2>1. \A c \in Creds : cred'[c].seat = cred[c].seat /\ cred'[c].status = cred[c].status
    BY <1>2, <1>5 DEF Credentials
  <2> QED
    BY <2>1, SeatsRest
<1>10. p \in pendingNow /\ s \notin assentNow[p] \cup silentNow
  BY <1>3, <1>4 DEF pendingNow, assentNow
<1> QED
  BY <1>1, <1>3, <1>5, <1>7, <1>8, <1>9, <1>10
  DEF Law!Assent, Law!seats, seatsNow, voiceNow, silentNow, lostNow, motionNow, pendingNow, enactedNow, assentNow

\* A proposal that is executed was pending, and is not again.
LEMMA ActivateEnacts ==
  ASSUME KeysInv, NEW p \in Pids, proposal[p].state = "PROPOSED",
         proposal' = [proposal EXCEPT ![p].state = "ACTIVATED"]
  PROVE  Law!Enact(p)
<1>1. proposal \in [Pids -> Proposals]
  BY KeysTyped DEF KeysInv
<1>2. \A q \in Pids : /\ proposal'[q].action = proposal[q].action /\ proposal'[q].seat = proposal[q].seat
                      /\ proposal'[q].new = proposal[q].new /\ proposal'[q].signed = proposal[q].signed
                      /\ proposal'[q].state = IF q = p THEN "ACTIVATED" ELSE proposal[q].state
  BY <1>1 DEF Proposals
<1>3. motionNow' = motionNow /\ assentNow' = assentNow
  BY <1>2 DEF motionNow, assentNow
<1>4. pendingNow' = pendingNow \ {p} /\ enactedNow' = enactedNow \cup {p} /\ p \in pendingNow
  BY <1>2 DEF pendingNow, enactedNow
<1> QED
  BY <1>3, <1>4 DEF Law!Enact, motionNow, pendingNow, enactedNow, assentNow

LEMMA RotateRecovers ==
  ASSUME KeysInv, NEW r \in Activates, ActivateAnswer(r) = 200, Activate(r),
         proposal[r.p].action = "ROTATE_CREDENTIAL"
  PROVE  \E p \in Pids, s \in Seats : Law!Recover(p, s)
<1>1. PICK p \in Pids : p = r.p
  BY DEF Activates
<1>2. /\ proposal[p].state = "PROPOSED" /\ Seats \ {proposal[p].seat} \subseteq proposal[p].signed
      /\ cred[Guardian].status = "ACTIVE"
  BY <1>1 DEF ActivateAnswer, Enough
<1>0. PICK t \in Seats, old, new \in Creds :
        t = proposal[r.p].seat /\ new = proposal[r.p].new /\ Replaces(t, old, new)
  BY RotationEffect
<1>3. /\ t = proposal[r.p].seat /\ new = proposal[r.p].new /\ old # new
      /\ old # Guardian /\ new # Guardian
      /\ old \in Suspended /\ cred[new].status = "NONE"
      /\ Live(t) = {old} /\ Live(t)' = {new}
      /\ \A s \in Seats : s # t => Live(s)' = Live(s)
      /\ \A c \in Creds :
           /\ cred'[c].seat = IF c = new THEN t ELSE cred[c].seat
           /\ cred'[c].status = IF c = old THEN "REVOKED" ELSE IF c = new THEN "ACTIVE" ELSE cred[c].status
  BY <1>0 DEF Replaces
<1>4. version' = version /\ proposal' = [proposal EXCEPT ![p].state = "ACTIVATED"] /\ OneKey
  BY <1>1, <1>2 DEF Activate, KeysInv, KeysTypeOK
<1>5. Law!Enact(p)
  BY <1>2, <1>4, ActivateEnacts
<1>6. motionNow[p].action = "ROTATE_CREDENTIAL" /\ motionNow[p].seat = t /\ motionNow[p].new = new
  BY <1>1, <1>3 DEF motionNow
<1>7. t \in silentNow /\ silentNow' = {}
  <2>1. cred[old].seat = t
    BY <1>3 DEF Live
  <2>2. Suspended' = {}
    BY <1>3, <1>4 DEF Suspended, OneKey
  <2> QED
    BY <1>3, <2>1, <2>2 DEF silentNow
<1>8. new \in Creds \ (lostNow \cup UNION {voiceNow[s] : s \in Seats})
  BY <1>3 DEF lostNow, voiceNow, Live
<1>9. voiceNow' = [voiceNow EXCEPT ![t] = {new}]
  <2>1. \A s \in Seats : Live(s)' = IF s = t THEN {new} ELSE Live(s)
    BY <1>3
  <2>2. voiceNow' = [s \in Seats |-> Live(s)']
    BY DEF voiceNow
  <2>3. voiceNow' = [s \in Seats |-> IF s = t THEN {new} ELSE Live(s)]
    BY <2>1, <2>2
  <2> QED
    BY <2>3 DEF voiceNow
<1>10. lostNow' = lostNow \cup voiceNow[t]
  <2>1. voiceNow[t] = {old}
    BY <1>3 DEF voiceNow
  <2> QED
    BY <1>3, <2>1 DEF lostNow
<1>11. cred'[Guardian].status = cred[Guardian].status
  BY <1>3 DEF Creds
<1>12. Seats \ {t} \subseteq assentNow[p]
  BY <1>1, <1>2, <1>3 DEF assentNow
<1>13. Law!Recover(p, t)
  BY <1>2, <1>4, <1>5, <1>6, <1>7, <1>8, <1>9, <1>10, <1>11, <1>12
  DEF Law!Recover, voiceNow, silentNow, lostNow, motionNow, assentNow
<1> QED
  BY <1>13

LEMMA AmendAmends ==
  ASSUME KeysInv, NEW r \in Activates, ActivateAnswer(r) = 200, Activate(r),
         proposal[r.p].action = "AMEND_CONSTITUTION"
  PROVE  \E p \in Pids : Law!Amend(p)
<1>1. PICK p \in Pids : p = r.p
  BY DEF Activates
<1>2. proposal[p].state = "PROPOSED" /\ proposal[p].signed = Seats /\ Suspended = {}
  BY <1>1 DEF ActivateAnswer, Enough, Unanimous
<1>3. /\ version' = version + 1 /\ proposal' = [proposal EXCEPT ![p].state = "ACTIVATED"]
      /\ cred' = cred
  BY <1>1 DEF Activate
<1>4. Law!Enact(p)
  BY <1>2, <1>3, ActivateEnacts
<1>5. UNCHANGED seatsNow
  BY <1>3, SeatsRest
<1>6. motionNow[p].action = "AMEND_CONSTITUTION" /\ assentNow[p] = Seats /\ silentNow = {}
  BY <1>1, <1>2 DEF motionNow, assentNow, silentNow
<1>7. Law!Amend(p)
  BY <1>3, <1>4, <1>5, <1>6
  DEF Law!Amend, Law!seats, seatsNow, voiceNow, silentNow, lostNow, motionNow, assentNow
<1> QED
  BY <1>7

\* The guardian holds no seat: its removal changes no seat's voice.
LEMMA RemovalRemoves ==
  ASSUME KeysInv, NEW r \in Activates, ActivateAnswer(r) = 200, Activate(r),
         proposal[r.p].action = "REMOVE_GUARDIAN"
  PROVE  \E p \in Pids : Law!Remove(p)
<1>1. PICK p \in Pids : p = r.p
  BY DEF Activates
<1>2. proposal[p].state = "PROPOSED" /\ Cardinality(proposal[p].signed) >= RemovalQuorum
      /\ proposal[p].signed \subseteq Seats
  BY <1>1, KeysTyped DEF ActivateAnswer, Enough, KeysInv, Proposals
<1>3. /\ version' = version /\ proposal' = [proposal EXCEPT ![p].state = "ACTIVATED"]
      /\ cred' = [cred EXCEPT ![Guardian].status = "REMOVED"]
  BY <1>1 DEF Activate
<1>4. Law!Enact(p)
  BY <1>2, <1>3, ActivateEnacts
<1>5. cred \in [Creds -> Credentials] /\ Guardian \in Creds
  BY KeysTyped DEF KeysInv, Creds
<1>6. \A c \in Creds : /\ cred'[c].seat = cred[c].seat
                       /\ cred'[c].status = IF c = Guardian THEN "REMOVED" ELSE cred[c].status
  BY <1>3, <1>5 DEF Credentials
<1>7. cred[Guardian].seat = Nobody /\ Nobody \notin Seats
  BY <1>5, SevenKeysAssumption DEF KeysInv, SevenKeysAssumption
<1>8. cred[Guardian].status # "REVOKED"
  BY DEF KeysInv
<1>9. UNCHANGED <<voiceNow, silentNow, lostNow>>
  <2>1. \A s \in Seats : Live(s)' = Live(s)
    BY <1>6, <1>7 DEF Live
  <2>2. silentNow' = silentNow
    BY <1>5, <1>6, <1>7 DEF silentNow, Suspended
  <2>3. lostNow' = lostNow
    BY <1>5, <1>6, <1>8 DEF lostNow
  <2> QED
    BY <2>1, <2>2, <2>3 DEF voiceNow
<1>10. /\ motionNow[p].action = "REMOVE_GUARDIAN"
       /\ assentNow[p] \in {q \in SUBSET Seats : Cardinality(q) >= RemovalQuorum}
  BY <1>1, <1>2 DEF motionNow, assentNow
<1>11. Law!Remove(p)
  BY <1>3, <1>4, <1>5, <1>6, <1>9, <1>10
  DEF Law!Remove, voiceNow, silentNow, lostNow, motionNow, assentNow
<1> QED
  BY <1>11

LEMMA SuspensionSilences ==
  ASSUME KeysInv, NEW r \in Suspends, SuspendAnswer(r) = 200, Suspend(r)
  PROVE  \E s \in Seats : Law!Silence(s)
<1>1. PICK k \in Creds, s \in Seats :
        /\ k = r.cred /\ s = r.seat /\ k # Guardian
        /\ Suspended = {} /\ Suspended' = {k}
        /\ cred[k].seat = s /\ cred[k].status = "ACTIVE"
        /\ \A t \in Seats : Live(t)' = Live(t)
        /\ \A c \in Creds : /\ cred'[c].seat = cred[c].seat
                            /\ cred'[c].status = IF c = k THEN "EMERGENCY_SUSPENDED" ELSE cred[c].status
  BY SuspendEffect
<1>2. cred[Guardian].status = "ACTIVE" /\ proposal' = proposal /\ version' = version
  BY DEF SuspendAnswer, Suspend
<1>3. silentNow = {} /\ silentNow' = {s}
  BY <1>1 DEF silentNow
<1>4. voiceNow' = voiceNow /\ lostNow' = lostNow
  BY <1>1 DEF voiceNow, lostNow
<1>5. cred'[Guardian].status = cred[Guardian].status
  BY <1>1 DEF Creds
<1>6. Law!Silence(s)
  BY <1>2, <1>3, <1>4, <1>5, MotionsRest
  DEF Law!Silence, voiceNow, silentNow, lostNow, motionNow, pendingNow, enactedNow, assentNow
<1> QED
  BY <1>6

\* One request is one step of the constitution, or none.
LEMMA ServeIsLawful ==
  ASSUME KeysInv, NEW r \in KeyRequests, Serve(r)
  PROVE  Law!Next \/ UNCHANGED lawNow
<1> USE DEF Law!Next
<1>1. CASE r.op = "register" /\ RegisterAnswer(r) = 200 /\ Register(r)
  <2>1. cred \in [Creds -> Credentials]
    BY KeysTyped DEF KeysInv
  <2>2. \A c \in Creds : cred'[c].seat = cred[c].seat /\ cred'[c].status = cred[c].status
    BY <1>1, <2>1 DEF Register, Credentials
  <2> QED
    BY <1>1, <2>2, SeatsRest, MotionsRest DEF Register, lawNow
<1>2. CASE r.op = "bootstrap" /\ BootstrapAnswer(r) = 200 /\ Bootstrap(r)
  <2>1. r \in Bootstraps
    BY <1>2 DEF KeyRequests, Bootstraps, Registers, Proposes, Signs, Activates, Suspends, Asks
  <2> QED
    BY <1>2, <2>1, BootstrapFounds
<1>3. CASE r.op = "propose" /\ ProposeAnswer(r) = 200 /\ Propose(r)
  <2>1. r \in Proposes /\ r.p \in Pids
    BY <1>3 DEF KeyRequests, Bootstraps, Registers, Proposes, Signs, Activates, Suspends, Asks
  <2> QED
    BY <1>3, <2>1, ProposeMoves
<1>4. CASE r.op = "sign" /\ SignAnswer(r) = 200 /\ Sign(r)
  <2>1. r \in Signs /\ r.p \in Pids
    BY <1>4 DEF KeyRequests, Bootstraps, Registers, Proposes, Signs, Activates, Suspends, Asks
  <2> QED
    BY <1>4, <2>1, SignAssents
<1>5. CASE r.op = "activate" /\ ActivateAnswer(r) = 200 /\ Activate(r)
  <2>1. r \in Activates
    BY <1>5 DEF KeyRequests, Bootstraps, Registers, Proposes, Signs, Activates, Suspends, Asks
  <2>2. proposal[r.p].action \in {"AMEND_CONSTITUTION", "ROTATE_CREDENTIAL", "REMOVE_GUARDIAN"}
    BY <1>5 DEF ActivateAnswer, Enough
  <2> QED
    BY <1>5, <2>1, <2>2, AmendAmends, RotateRecovers, RemovalRemoves
<1>6. CASE r.op = "suspend" /\ SuspendAnswer(r) = 200 /\ Suspend(r)
  <2>1. r \in Suspends
    BY <1>6 DEF KeyRequests, Bootstraps, Registers, Proposes, Signs, Activates, Suspends, Asks
  <2> QED
    BY <1>6, <2>1, SuspensionSilences
<1>7. CASE UNCHANGED keys
  BY <1>7, SeatsRest, MotionsRest DEF keys, lawNow
<1> QED
  BY <1>1, <1>2, <1>3, <1>4, <1>5, <1>6, <1>7 DEF Serve

LEMMA ReachesIsLawful ==
  ASSUME KeysInv, NEW r \in Requests, Reaches(r)
  PROVE  Law!Next \/ UNCHANGED lawNow
<1>1. CASE r \in KeyRequests
  BY <1>1, KeysShape, ServeIsLawful DEF Reaches
<1>2. CASE r \in CommunityRequests
  <2>1. UNCHANGED keys
    BY <1>2, CommunityShape DEF Reaches
  <2> QED
    BY <2>1, SeatsRest, MotionsRest DEF keys, lawNow
<1> QED
  BY <1>1, <1>2 DEF Requests

LEMMA NextIsLawful ==
  ASSUME IInv, [Next]_vars
  PROVE  Law!Next \/ UNCHANGED lawNow
<1>1. CASE Drive
  <2>1. PICK r \in Requests : Reaches(r)
    BY <1>1, Sends DEF Drive, IInv
  <2> QED
    BY <2>1, ReachesIsLawful DEF IInv
<1>2. CASE Redeliver
  <2>1. PICK r \in Requests : Reaches(r)
    BY <1>2 DEF Redeliver, IInv, DriverInv, Log
  <2> QED
    BY <2>1, ReachesIsLawful DEF IInv
<1>3. CASE UNCHANGED keys
  BY <1>3, SeatsRest, MotionsRest DEF keys, lawNow
<1> QED
  BY <1>1, <1>2, <1>3 DEF Next, Midnight, vars

\* Whatever the drivers send, and whatever reaches the services again, the
\* community sees its constitution at work: no change without every seat, no
\* say for a silent seat, no recovery without the other seats and the guardian
\* (market_integrity_e2e.py:71-113, webauthn_hardware_custody_e2e.py:229-321).
THEOREM ConstitutionHolds == Spec => Constitutional
<1>1. GovernanceInit => Law!Init
  BY InitLawful DEF GovernanceInit
<1>2. IInv /\ [Next]_vars => [Law!Next]_(Law!vars)
  <2> SUFFICES ASSUME IInv, [Next]_vars PROVE Law!Next \/ UNCHANGED lawNow
    BY DEF Law!vars, Law!seats, lawNow, seatsNow, voiceNow, silentNow, lostNow, motionNow, pendingNow,
           enactedNow, assentNow
  <2> QED
    BY NextIsLawful
<1> QED
  BY <1>1, <1>2, Inductive, PTL DEF Spec, Constitutional, Law!Spec

\* A resolution that was executed is not touched by any request.
LEMMA ExecutedStays ==
  ASSUME KeysInv, NEW q \in KeyRequests, Serve(q), NEW p \in Pids, proposal[p].state = "ACTIVATED"
  PROVE  proposal'[p] = proposal[p]
<1>1. proposal \in [Pids -> Proposals]
  BY KeysTyped DEF KeysInv
<1>2. CASE q.op = "propose" /\ ProposeAnswer(q) = 200 /\ Propose(q)
  BY <1>1, <1>2 DEF ProposeAnswer, Propose
<1>3. CASE q.op = "sign" /\ SignAnswer(q) = 200 /\ Sign(q)
  BY <1>1, <1>3 DEF SignAnswer, Sign
<1>4. CASE q.op = "activate" /\ ActivateAnswer(q) = 200 /\ Activate(q)
  BY <1>1, <1>4 DEF ActivateAnswer, Activate
<1> QED
  BY <1>2, <1>3, <1>4 DEF Serve, Register, Bootstrap, Suspend, keys

\* Neither is an agreement, nor an offer that was declined.
LEMMA ConcludedStays ==
  ASSUME CommunityInv, NEW q \in CommunityRequests, CommunityServe(q),
         NEW d \in Deals, deal[d].status \in {"ACCEPTED", "DECLINED"}
  PROVE  deal'[d] = deal[d]
<1>1. deal \in [Deals -> DealRows]
  BY MarketTyped DEF CommunityInv, CommunityTypeOK
<1>2. CASE UNCHANGED deal
  BY <1>2
<1>3. CASE CommunityAnswer(q) = 200 /\ q.op \in {"offer", "counter", "accept", "decline"} /\ MarketStep(q)
  <2>1. ~Stale(q)
    BY <1>3, Passed DEF Conflicts, Fixtures
  <2>2. q.id # d
    BY <1>3, <2>1 DEF Stale
  <2>3. CASE q.op = "offer" /\ Offer(q)
    BY <1>1, <2>2, <2>3 DEF Offer
  <2>4. CASE q.op = "counter" /\ Counter(q)
    BY <1>1, <2>2, <2>4 DEF Counter
  <2>5. CASE Ends(q, "ACCEPTED") \/ Ends(q, "DECLINED")
    BY <1>1, <2>2, <2>5 DEF Ends
  <2> QED
    BY <1>3, <2>3, <2>4, <2>5 DEF MarketStep
<1> QED
  BY <1>2, <1>3
  DEF CommunityServe, CommunityStep, MarketStep, MarketOps, ListingOps, DealOps, community, market,
      Provision, Rank, Publish, Edit, Close

LEMMA LostStays ==
  ASSUME Law!Next \/ UNCHANGED lawNow
  PROVE  lostNow \subseteq lostNow'
<1>1. CASE UNCHANGED lawNow
  BY <1>1 DEF lawNow, seatsNow
<1>2. CASE Law!Found
  BY <1>2 DEF Law!Found, lostNow
<1>3. ASSUME NEW p \in Pids, Law!Move(p) \/ Law!Amend(p) \/ Law!Remove(p)
      PROVE  lostNow' = lostNow
  BY <1>3 DEF Law!Move, Law!Amend, Law!Remove, Law!seats, lostNow
<1>4. ASSUME NEW p \in Pids, NEW s \in Seats, Law!Assent(p, s)
      PROVE  lostNow' = lostNow
  BY <1>4 DEF Law!Assent, Law!seats, lostNow
<1>5. ASSUME NEW p \in Pids, NEW s \in Seats, Law!Recover(p, s)
      PROVE  lostNow \subseteq lostNow'
  BY <1>5 DEF Law!Recover, lostNow
<1>6. ASSUME NEW s \in Seats, Law!Silence(s)
      PROVE  lostNow' = lostNow
  BY <1>6 DEF Law!Silence, lostNow
<1> QED
  BY <1>1, <1>2, <1>3, <1>4, <1>5, <1>6 DEF Law!Next

\* What the service the drivers fix has decided is not decided again: a revoked credential stays revoked,
\* an executed resolution and a concluded negotiation keep every field, a
\* closed listing, a vote, a verdict and a withdrawal stay, and forgotten names
\* stay forgotten (webauthn_hardware_custody_e2e.py:307-312,
\* governed_boundary_e2e.py:102-104, consent_retention_e2e.py:94-102).
Final ==
  /\ lostNow \subseteq lostNow'
  /\ \A p \in Pids : proposal[p].state = "ACTIVATED" => proposal'[p] = proposal[p]
  /\ \A l \in Listings : listing[l].status = "CLOSED" => listing'[l].status = "CLOSED"
  /\ \A d \in Deals : deal[d].status \in {"ACCEPTED", "DECLINED"} => deal'[d] = deal[d]
  /\ \A u \in Users, p \in Drafts : Voted(u, p) => Voted(u, p)'
  /\ \A c \in CaseIds : Status(c) \in {"FINAL", "DISMISSED"} => Status(c)' = Status(c)
  /\ \A u, o : Withdrawn(u, o) => Withdrawn(u, o)'
  /\ \A o \in DOMAIN observation :
       o \in DOMAIN observation' /\ (observation[o].anonymous => observation'[o].anonymous)
DecisionsStay == [][Final]_vars

LEMMA ReachesFinal ==
  ASSUME KeysInv, CommunityInv, NEW r \in Requests, Reaches(r)
  PROVE  Final
<1>1. lostNow \subseteq lostNow'
  BY ReachesIsLawful, LostStays
<1>2. CASE r \in KeyRequests
  <2>1. Serve(r) /\ UNCHANGED community
    BY <1>2, KeysShape DEF Reaches
  <2>2. \A p \in Pids : proposal[p].state = "ACTIVATED" => proposal'[p] = proposal[p]
    BY <1>2, <2>1, ExecutedStays
  <2> QED
    BY <1>1, <2>1, <2>2 DEF Final, community, market, Voted, Status, Withdrawn
<1>3. CASE r \in CommunityRequests
  <2>1. CommunityServe(r) /\ UNCHANGED keys
    BY <1>3, CommunityShape DEF Reaches
  <2>2. \A d \in Deals : deal[d].status \in {"ACCEPTED", "DECLINED"} => deal'[d] = deal[d]
    BY <1>3, <2>1, ConcludedStays
  <2> QED
    BY <1>1, <1>3, <2>1, <2>2, CommunityProgress DEF Final, keys
<1> QED
  BY <1>2, <1>3 DEF Requests

THEOREM DecisionsAreFinal == Spec => DecisionsStay
<1>1. IInv /\ [Next]_vars => Final
  <2> SUFFICES ASSUME IInv, [Next]_vars PROVE Final
    OBVIOUS
  <2>1. CASE \E r \in Requests : Reaches(r)
    BY <2>1, ReachesFinal DEF IInv
  <2>2. CASE UNCHANGED <<keys, community>>
    BY <2>2 DEF Final, keys, community, market, Voted, Status, Withdrawn, lostNow
  <2>3. CASE Drive
    BY <2>1, <2>3, Sends DEF Drive, IInv
  <2>4. CASE Redeliver
    BY <2>1, <2>4 DEF Redeliver, IInv, DriverInv, Log
  <2> QED
    BY <2>2, <2>3, <2>4 DEF Next, Midnight, vars
<1> QED
  BY <1>1, Inductive, PTL DEF Spec, DecisionsStay
=============================================================================
