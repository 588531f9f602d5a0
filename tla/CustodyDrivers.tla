--------------------------- MODULE CustodyDrivers ---------------------------
(***************************************************************************)
(* The three custody drivers as scripts.  A step says which request to     *)
(* make and which answer is expected; the request is made from what the    *)
(* driver remembers: the authenticators' counters, the sequence it read, a *)
(* request it kept.                                                        *)
(***************************************************************************)
EXTENDS SevenKeys, CommunityDrivers

VARIABLES
  driver,   \* which of the scripts runs
  used,     \* the authenticators' counters, as the driver keeps them
  seen,     \* the nextSequence the driver read last
  kept      \* a request it will send again

ASSUME CustodyAssumption ==
  /\ {1, 2, 3, 4, 5, 6, 7} \subseteq Seats /\ {11, 14, 17} \subseteq Replacements
  /\ {1, 2, 3, 4, 5, 6} \subseteq Pids

Any  == -1   \* an answer the driver does not compare
Fresh == -1  \* a count taken from the authenticator

(* Steps.  SignAs: a signature for seat s with credential c, made by key k *)
(* over a text in a domain; content 0 is the payload as the service gave   *)
(* it.                                                                     *)
SignAs(p, s, c, k, domain, content, count, expect) ==
  [do |-> "sign", p |-> p, seat |-> s, cred |-> c, key |-> k, domain |-> domain,
   content |-> content, count |-> count, expect |-> expect, keep |-> FALSE]
By(p, s, c, expect) == SignAs(p, s, c, c, "CONSTITUTION", 0, Fresh, expect)
Keep(step) == [step EXCEPT !.keep = TRUE]
Each(p, seats) == [i \in DOMAIN seats |-> By(p, seats[i], seats[i], 200)]

Boot(token, body, expect) ==
  [do |-> "bootstrap", token |-> token, body |-> body, expect |-> expect, keep |-> FALSE]
Ceremony(c) == [do |-> "register", cred |-> c, expect |-> 200, keep |-> FALSE]
NewProposal(p, action, s, c) ==
  [do |-> "propose", p |-> p, action |-> action, seat |-> s, new |-> c, expect |-> 200, keep |-> FALSE]
Amend(p) == NewProposal(p, "AMEND_CONSTITUTION", Nobody, Nobody)
Execute(p, expect) == [do |-> "activate", p |-> p, new |-> Nobody, expect |-> expect, keep |-> FALSE]
Recover(p, c, expect) == [do |-> "activate", p |-> p, new |-> c, expect |-> expect, keep |-> FALSE]
Suspension(s, offset, expect) ==
  [do |-> "suspend", seat |-> s, offset |-> offset, expect |-> expect, keep |-> FALSE]
Resend(p, expect) == [do |-> "resend", p |-> p, seat |-> Nobody, expect |-> expect, keep |-> FALSE]
ResendSeat(s, expect) == [do |-> "resend", p |-> Nobody, seat |-> s, expect |-> expect, keep |-> FALSE]
Ask(about, p, expect) == [do |-> "ask", about |-> about, p |-> p, expect |-> expect, keep |-> FALSE]

(* market_integrity_e2e.py *)
MarketIntegrity ==
  References7
  \o << Boot("administrator", "whole", 200), Do("define", "ana"), Do("policy", "ana"),
        Is("policyVersion", 0, 2), Gets(Kinded("policy", "ana", 0, "PROTECTED"), {409}), Amend(1) >> \o Each(1, <<1, 2, 3, 4, 5, 6>>)
  \o << Execute(1, 409), Ask("signatureCount", 1, 6), By(1, 7, 7, 200), Execute(1, 200),
        Ask("constitutionVersion", Nobody, 2), Ask("nextSequence", Nobody, Any),
        Keep(Suspension(4, 0, 200)), ResendSeat(5, 409), Amend(2), Execute(2, 409),
        NewProposal(3, "REPLACE_CONTROLLER", 4, 11), Recover(3, 11, 409),
        NewProposal(4, "ROTATE_CREDENTIAL", 4, 14) >>
  \o Each(4, <<1, 2, 3, 5, 6>>)
  \o << Recover(4, 14, 409), By(4, 7, 7, 200), Recover(4, 14, 200),
        Ask("seat", 4, 14), Ask("revoked", 4, 1), By(2, 4, 4, 409),
        NewProposal(5, "REMOVE_GUARDIAN", Nobody, Nobody) >>
  \o Each(5, <<1, 2, 3, 5, 6>>)
  \o << Execute(5, 200), Ask("guardianRemoved", Nobody, 1), ResendSeat(4, 409),
        Gets(Elsewhere(Do("constitution", "bea")), {404}) >>

(* webauthn_hardware_custody_e2e.py *)
WebauthnCustody ==
  References7 \o << Ceremony(7), Ceremony(Guardian), Boot("administrator", "whole", 200), Amend(1) >>
  \o Each(1, <<1, 2, 3, 4, 5, 6, 7>>)
  \o << Execute(1, 200), Ask("constitutionVersion", Nobody, 2), Amend(2) >>
  \o Each(2, <<1, 2, 3, 4, 5, 6>>)
  \o << Keep(By(2, 7, 7, 200)), Resend(2, 400), By(2, 7, 7, 409), Amend(3), Resend(3, 400),
        SignAs(3, 7, 7, 7, "CONSTITUTION", -1, Fresh, 400),
        SignAs(3, 7, 7, 7, "CONSTITUTION", -2, Fresh, 400),
        Ask("nextSequence", Nobody, Any), Suspension(7, 0, 200),
        SignAs(3, 7, 7, 7, "CONSTITUTION", 0, 99, 409),
        Ceremony(17), NewProposal(4, "ROTATE_CREDENTIAL", 7, 17) >>
  \o Each(4, <<1, 2, 3, 4, 5, 6>>)
  \o << Recover(4, 17, 200), Ask("seat", 7, 17),
        Ask("nextSequence", Nobody, Any), Suspension(1, 0, 200),
        Ceremony(11), NewProposal(5, "ROTATE_CREDENTIAL", 1, 11) >>
  \o Each(5, <<2, 3, 4, 5, 6>>)
  \o << By(5, 7, 17, 200), Recover(5, 11, 200), Ask("seat", 1, 11),
        Ask("revoked", 1, 1), Ask("revoked", 7, 1), Amend(6) >>
  \o Each(6, <<2, 3, 4, 5, 6>>)
  \o << By(6, 1, 11, 200), Execute(6, 409), Gets(Elsewhere(Do("constitution", "bea")), {404}) >>

(* governed_boundary_e2e.py *)
ConstitutionalMutationMatrix ==
  << Amend(1) >> \o Each(1, <<1, 2, 3, 4, 5, 6>>)
  \o << Execute(1, 409), By(1, 1, 1, 409),
        SignAs(1, 7, 7, 7, "CONSTITUTION", -1, Fresh, 400),
        SignAs(1, 7, 7, 7, "GUARDIAN", 0, Fresh, 400),
        SignAs(1, 7, 7, 7, "CONSTITUTION", -3, Fresh, 400),
        SignAs(1, 7, Guardian, Guardian, "CONSTITUTION", 0, Fresh, 409),
        SignAs(1, 7, Nobody, 7, "CONSTITUTION", 0, Fresh, 409),
        Ask("constitutionVersion", Nobody, 1),
        By(1, 7, 7, 200), Execute(1, 200), Ask("constitutionVersion", Nobody, 2),
        Execute(1, 409), By(1, 7, 7, 409), Ask("constitutionVersion", Nobody, 2),
        Ask("nextSequence", Nobody, Any), Suspension(4, -1, 409), Suspension(4, 0, 200),
        Amend(2), By(2, 4, 4, 409) >>

GovernedBoundary ==
  References7 \o << Ask("constitutionVersion", Nobody, 0), Boot("administrator", "whole", 200),
     Boot("member", "unknown_field", 400), Boot("member", "whole", 403),
     Boot("other_tenant", "whole", 403), Boot("unsigned", "whole", 401),
     Boot("untrusted", "whole", 401), Boot("administrator", "unknown_field", 400),
     Boot("administrator", "missing_seat", 400), Boot("administrator", "duplicate_seat", 409),
     Boot("administrator", "whole", 409), Ask("constitutionVersion", Nobody, 1) >>
  \o ConstitutionalMutationMatrix

-----------------------------------------------------------------------------
(* The keys that are in hardware, and the authenticator that holds a key:  *)
(* seat 7 keeps one counter across its rotation.                           *)
Hardware == IF driver = "custody" THEN {7, Guardian, 11, 17} ELSE {}
Holder(k) == IF k = 11 THEN 1 ELSE IF k = 17 THEN 7 ELSE k
BugCounted(k, count) ==
  IF k \notin Hardware THEN 0 ELSE IF count = Fresh THEN used[Holder(k)] ELSE count
Counted(k, count) ==
  IF k \notin Hardware THEN 0 ELSE IF count = Fresh THEN used[Holder(k)] + 1 ELSE count

(* Before a driver keeps a request, what it would repeat is a question. *)
NothingKept == [op |-> "ask", about |-> "constitutionVersion", p |-> Nobody]

(* The requests, as the drivers' helpers make them. *)
Request(step) ==
  CASE step.do = "bootstrap" -> [op |-> "bootstrap", token |-> step.token, body |-> step.body]
    [] step.do = "register" -> [op |-> "register", cred |-> step.cred]
    [] step.do = "propose" -> [op |-> "propose", p |-> step.p, action |-> step.action,
                               seat |-> step.seat, new |-> step.new]
    [] step.do = "sign" -> [op |-> "sign", p |-> step.p, seat |-> step.seat, cred |-> step.cred,
         proof |-> Proof(step.key, Text(step.domain, step.p, step.content),
                         Counted(step.key, step.count))]
    [] step.do = "activate" -> [op |-> "activate", p |-> step.p,
         guardian |-> IF step.new = Nobody THEN NoProof
                      ELSE Proof(Guardian, Text("GUARDIAN", step.p, 0), Counted(Guardian, Fresh)),
         possession |-> IF step.new = Nobody THEN NoProof
                        ELSE Proof(step.new, Text("POSSESSION", step.p, 0), 0)]
    [] step.do = "suspend" -> [op |-> "suspend", seat |-> step.seat, cred |-> step.seat,
         expected |-> seen + step.offset,
         proof |-> Proof(Guardian, Text("GUARDIAN", step.seat, seen + step.offset),
                         Counted(Guardian, Fresh))]
    [] step.do = "resend" -> IF step.seat # Nobody THEN [kept EXCEPT !.seat = step.seat]
                             ELSE [kept EXCEPT !.p = step.p]
    [] step.do = "ask" -> [op |-> "ask", about |-> step.about, p |-> step.p]

(* The authenticators a step uses: their counters advance.  A software key *)
(* has none.                                                               *)
Uses(step) ==
  CASE step.do = "sign" /\ step.count = Fresh /\ step.key \in Hardware -> {Holder(step.key)}
    [] step.do = "suspend" -> {Guardian}
    [] step.do = "activate" /\ step.new # Nobody -> {Guardian}
    [] OTHER -> {}
=============================================================================
