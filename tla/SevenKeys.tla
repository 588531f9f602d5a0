----------------------------- MODULE SevenKeys -----------------------------
(***************************************************************************)
(* Seven Keys, as the three custody drivers (market_integrity_e2e.py,      *)
(* webauthn_hardware_custody_e2e.py, governed_boundary_e2e.py) fix it: the *)
(* constitution of a community changes when every seat signs, a guardian   *)
(* suspends one credential at a time, a suspended seat gets a new          *)
(* credential and keeps its controller.                                    *)
(*                                                                         *)
(* External: the service is another repository.  A request is a record, an *)
(* answer its HTTP status.  The checks and their place among the others    *)
(* are those the drivers observe, with two exceptions that no step of      *)
(* theirs tells apart: that a second registration of a credential and a    *)
(* second proposal of an identifier are refused, and that signatures of    *)
(* all seats amend nothing while a seat is suspended: the motion that      *)
(* market_integrity_e2e.py:86-87 executes then has no signature, and its   *)
(* closing line (:119) claims the "constitutional freeze".                 *)
(***************************************************************************)
EXTENDS Integers, FiniteSets

CONSTANTS
  Seats,          \* ordinals of the seats; seat s begins with credential s
  Replacements,   \* credentials that rotations bring
  Guardian,       \* the guardian's credential
  Nobody,         \* a credential the service does not know; no seat
  Pids,           \* proposals
  RemovalQuorum   \* signatures that remove the guardian (5)

Creds == Seats \cup Replacements \cup {Guardian, Nobody}

ASSUME SevenKeysAssumption ==
  /\ IsFiniteSet(Seats) /\ Seats # {} /\ Seats \cap Replacements = {}
  /\ Guardian \notin Seats \cup Replacements
  /\ Nobody \notin Seats \cup Replacements \cup {Guardian}
  /\ RemovalQuorum \in Nat

VARIABLES
  cred,       \* per credential: its seat, type, status and sign counter
  proposal,   \* per proposal: action, seat and credential concerned, state, seats that signed
  version,    \* constitutionVersion; 0: no constitution
  next        \* nextSequence

keys == <<cred, proposal, version, next>>

Statuses == {"NONE", "ACTIVE", "EMERGENCY_SUSPENDED", "REVOKED", "REMOVED"}
Actions == {"AMEND_CONSTITUTION", "ROTATE_CREDENTIAL", "REPLACE_CONTROLLER", "REMOVE_GUARDIAN"}

NoCred == [seat |-> Nobody, type |-> "SOFTWARE_ED25519", status |-> "NONE", count |-> 0]
NoProposal == [action |-> "AMEND_CONSTITUTION", seat |-> Nobody, new |-> Nobody,
               state |-> "NONE", signed |-> {}]

KeysInit ==
  /\ cred = [c \in Creds |-> NoCred] /\ proposal = [p \in Pids |-> NoProposal]
  /\ version = 0 /\ next = 1

(* What a key signs: a text in a domain about a proposal or a seat.        *)
(* `content` is 0 for a proposal's own payload, the sequence for a         *)
(* suspension, negative for a payload that somebody changed.               *)
Text(domain, about, content) == [domain |-> domain, about |-> about, content |-> content]
Proof(key, text, count) == [by |-> key, text |-> text, count |-> count]
NoProof == Proof(Nobody, Text("NONE", Nobody, 0), 0)

(* An assertion of a WebAuthn key also has to count further than the last. *)
Verifies(c, proof, text) ==
  /\ proof.by = c /\ proof.text = text
  /\ cred[c].type = "WEBAUTHN" => proof.count > cred[c].count

Suspended == {c \in Creds : cred[c].status = "EMERGENCY_SUSPENDED"}
Live(s) == {c \in Creds : cred[c].seat = s /\ cred[c].status \in {"ACTIVE", "EMERGENCY_SUSPENDED"}}

-----------------------------------------------------------------------------
(* Registration of a WebAuthn credential: begin and finish of a ceremony.  *)
RegisterAnswer(r) == IF cred[r.cred] # NoCred THEN 409 ELSE 200
Register(r) ==
  /\ cred' = [cred EXCEPT ![r.cred].type = "WEBAUTHN"]
  /\ UNCHANGED <<proposal, version, next>>

(* Bootstrap: who asks (by the token), and what is wrong with the body.    *)
BootstrapAnswer(r) ==
  IF r.token \in {"unsigned", "untrusted"} THEN 401
  ELSE IF r.body \in {"unknown_field", "missing_seat"} THEN 400
  ELSE IF r.token # "administrator" THEN 403
  ELSE IF version > 0 \/ r.body = "duplicate_seat" THEN 409 ELSE 200
Bootstrap(r) ==
  /\ cred' = [c \in Creds |->
       IF c \in Seats \cup {Guardian}
       THEN [cred[c] EXCEPT !.status = "ACTIVE", !.seat = IF c \in Seats THEN c ELSE Nobody]
       ELSE cred[c]]
  /\ version' = 1 /\ next' = next + 1
  /\ UNCHANGED proposal

(* proposalId is the client's; that a second proposal of that id is        *)
(* refused is this model's choice, as no driver sends one.                 *)
ProposeAnswer(r) == IF version = 0 \/ proposal[r.p].state # "NONE" THEN 409 ELSE 200
Propose(r) ==
  /\ proposal' = [proposal EXCEPT ![r.p] =
       [action |-> r.action, seat |-> r.seat, new |-> r.new, state |-> "PROPOSED", signed |-> {}]]
  /\ UNCHANGED <<cred, version, next>>

BugSignAnswer(r) ==
  IF proposal[r.p].state # "PROPOSED" \/ cred[r.cred].seat # r.seat \/ cred[r.cred].status # "ACTIVE"
  THEN 409
  ELSE IF ~Verifies(r.cred, r.proof, Text("CONSTITUTION", r.p, 0)) THEN 400 ELSE 200
SignAnswer(r) ==
  IF proposal[r.p].state # "PROPOSED" THEN 409
  ELSE IF r.seat \notin Seats \/ cred[r.cred].seat # r.seat THEN 409
  ELSE IF cred[r.cred].status # "ACTIVE" THEN 409
  ELSE IF ~Verifies(r.cred, r.proof, Text("CONSTITUTION", r.p, 0)) THEN 400
  ELSE IF r.seat \in proposal[r.p].signed THEN 409 ELSE 200
Sign(r) ==
  /\ proposal' = [proposal EXCEPT ![r.p].signed = @ \cup {r.seat}]
  /\ cred' = [cred EXCEPT ![r.cred].count = r.proof.count]
  /\ UNCHANGED <<version, next>>

(* What each action needs.  The constitution is frozen while a seat is     *)
(* suspended; a rotation needs the other seats, the guardian and the new   *)
(* key; no driver has a resolution that replaces a controller.             *)
BugUnanimous(p) == Cardinality(Seats \ p.signed) <= 1 /\ Suspended = {}
Unanimous(p)    == p.signed = Seats /\ Suspended = {}
Enough(r) ==
  LET p == proposal[r.p]
  IN  CASE p.action = "AMEND_CONSTITUTION" -> Unanimous(p)
        [] p.action = "ROTATE_CREDENTIAL" ->
             /\ p.seat \in Seats /\ Seats \ {p.seat} \subseteq p.signed
             /\ \E c \in Suspended : cred[c].seat = p.seat
             /\ cred[Guardian].status = "ACTIVE"
             /\ Verifies(Guardian, r.guardian, Text("GUARDIAN", r.p, 0))
             /\ p.new \in Replacements /\ cred[p.new].status = "NONE"
             /\ r.possession.by = p.new /\ r.possession.text = Text("POSSESSION", r.p, 0)
        [] p.action = "REMOVE_GUARDIAN" -> Cardinality(p.signed) >= RemovalQuorum
        [] OTHER -> FALSE

ActivateAnswer(r) == IF proposal[r.p].state = "PROPOSED" /\ Enough(r) THEN 200 ELSE 409

BugRotated(p, count) ==
  [cred EXCEPT ![p.new].status = "ACTIVE", ![p.new].seat = p.seat, ![Guardian].count = count]
Rotated(p, count) ==
  [c \in Creds |->
    IF c \in Live(p.seat) THEN [cred[c] EXCEPT !.status = "REVOKED"]
    ELSE IF c = p.new THEN [cred[c] EXCEPT !.status = "ACTIVE", !.seat = p.seat]
    ELSE IF c = Guardian THEN [cred[c] EXCEPT !.count = count]
    ELSE cred[c]]

Activate(r) ==
  LET p == proposal[r.p]
  IN  /\ proposal' = [proposal EXCEPT ![r.p].state = "ACTIVATED"]
      /\ next' = next + 1
      /\ version' = IF p.action = "AMEND_CONSTITUTION" THEN version + 1 ELSE version
      /\ cred' = CASE p.action = "ROTATE_CREDENTIAL" -> Rotated(p, r.guardian.count)
                   [] p.action = "REMOVE_GUARDIAN" -> [cred EXCEPT ![Guardian].status = "REMOVED"]
                   [] OTHER -> cred

(* Only the guardian, only for the sequence of now, only one at a time. *)
SuspendAnswer(r) ==
  IF cred[Guardian].status # "ACTIVE" \/ r.expected # next \/ Suspended # {} THEN 409
  ELSE IF r.seat \notin Seats \/ cred[r.cred].seat # r.seat THEN 409
  ELSE IF cred[r.cred].status # "ACTIVE" THEN 409
  ELSE IF ~Verifies(Guardian, r.proof, Text("GUARDIAN", r.seat, r.expected)) THEN 400 ELSE 200
Suspend(r) ==
  /\ cred' = [cred EXCEPT ![r.cred].status = "EMERGENCY_SUSPENDED", ![Guardian].count = r.proof.count]
  /\ next' = next + 1
  /\ UNCHANGED <<proposal, version>>

(* Questions, whose answer is what they ask for. *)
Told(r) ==
  CASE r.about = "constitutionVersion" -> version
    [] r.about = "nextSequence" -> next
    [] r.about = "signatureCount" -> Cardinality(proposal[r.p].signed)
    [] r.about = "seat" -> IF \E c \in Live(r.p) : cred[c].status = "ACTIVE"
                           THEN CHOOSE c \in Live(r.p) : cred[c].status = "ACTIVE" ELSE Nobody
    [] r.about = "revoked" -> IF cred[r.p].status = "REVOKED" THEN 1 ELSE 0
    [] r.about = "guardianRemoved" -> IF cred[Guardian].status = "REMOVED" THEN 1 ELSE 0

Answer(r) ==
  CASE r.op = "register" -> RegisterAnswer(r)
    [] r.op = "bootstrap" -> BootstrapAnswer(r)
    [] r.op = "propose" -> ProposeAnswer(r)
    [] r.op = "sign" -> SignAnswer(r)
    [] r.op = "activate" -> ActivateAnswer(r)
    [] r.op = "suspend" -> SuspendAnswer(r)
    [] r.op = "ask" -> Told(r)

(* One request: an accepted one takes effect, any other changes nothing. *)
Serve(r) ==
  \/ r.op = "register" /\ RegisterAnswer(r) = 200 /\ Register(r)
  \/ r.op = "bootstrap" /\ BootstrapAnswer(r) = 200 /\ Bootstrap(r)
  \/ r.op = "propose" /\ ProposeAnswer(r) = 200 /\ Propose(r)
  \/ r.op = "sign" /\ SignAnswer(r) = 200 /\ Sign(r)
  \/ r.op = "activate" /\ ActivateAnswer(r) = 200 /\ Activate(r)
  \/ r.op = "suspend" /\ SuspendAnswer(r) = 200 /\ Suspend(r)
  \/ (r.op = "ask" \/ Answer(r) # 200) /\ UNCHANGED keys
-----------------------------------------------------------------------------
(* A seat never loses its voice: it has one credential that is not         *)
(* revoked, through suspensions and rotations, and one seat at most is     *)
(* suspended (webauthn_hardware_custody_e2e.py:248-312).                   *)
SeatsKeepOneKey ==
  version > 0 => /\ \A s \in Seats : Cardinality(Live(s)) = 1
                 /\ Cardinality(Suspended) <= 1

(* Behind credentials, signatures, counters and sequences the community    *)
(* sees its constitution: no change without all seats, none while a seat   *)
(* is silent, no say for a silent seat, no recovery without the other six  *)
(* and the guardian, no voice that comes back, nothing enacted that was    *)
(* not moved and assented to (market_integrity_e2e.py:71-113,              *)
(* webauthn_hardware_custody_e2e.py:229-321).                              *)
Law == INSTANCE Constitution
  WITH Voices <- Creds, Motions <- Pids,
       Quorums <- {q \in SUBSET Seats : Cardinality(q) >= RemovalQuorum},
       voice <- [s \in Seats |-> Live(s)],
       silent <- {s \in Seats : \E c \in Suspended : cred[c].seat = s},
       lost <- {c \in Creds : cred[c].status = "REVOKED"},
       guardian <- cred[Guardian].status,
       motion <- [p \in Pids |-> [action |-> proposal[p].action, seat |-> proposal[p].seat,
                                  new |-> proposal[p].new]],
       pending <- {p \in Pids : proposal[p].state = "PROPOSED"},
       enacted <- {p \in Pids : proposal[p].state = "ACTIVATED"},
       assent <- [p \in Pids |-> proposal[p].signed]
Constitutional == Law!Spec

KeysTypeOK ==
  /\ cred \in [Creds -> [seat : Seats \cup {Nobody}, type : {"SOFTWARE_ED25519", "WEBAUTHN"},
                         status : Statuses, count : Nat]]
  /\ proposal \in [Pids -> [action : Actions, seat : Seats \cup {Nobody}, new : Creds,
                            state : {"NONE", "PROPOSED", "ACTIVATED"}, signed : SUBSET Seats]]
  /\ version \in Nat /\ next \in Nat
=============================================================================
