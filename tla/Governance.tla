----------------------------- MODULE Governance -----------------------------
(***************************************************************************)
(* The e2e drivers at work on the service: Seven Keys, the community and   *)
(* the marketplace behind one API.  A driver sends the request of its next *)
(* step (smoke.py, request) and stops at an answer it does not accept.     *)
(* Each has a tenant of its own, so that one driver runs at a time.        *)
(*                                                                         *)
(* A request whose repetition the drivers know the answer of may reach the *)
(* service again at any later time, and a day may end between two steps.   *)
(***************************************************************************)
EXTENDS CustodyDrivers

CONSTANT LastDay   \* bound: the days a driver may see end

VARIABLES
  late,     \* whether refused requests come back as well, or only accepted ones
  pc,       \* the next step; 0: the driver stopped at an answer
  sent      \* requests sent, with whether they were accepted

memory == <<driver, late, pc, used, seen, kept, sent>>
vars   == <<keys, community, today, memory>>

Script ==
  [references |-> ReferenceVersions, value |-> ValueGovernance, consent |-> ConsentRetention,
   sources |-> MultiSource, ordinary |-> OrdinaryGovernance, authority |-> CommunityAuthority,
   independence |-> ParticipantIndependence, smoke |-> Smoke, marketplace |-> Marketplace3,
   multitenant |-> Multitenant, market |-> MarketIntegrity, custody |-> WebauthnCustody,
   boundary |-> GovernedBoundary]
Steps == Script[driver]

(* Custody steps are marked with `do`, community requests go as they are. *)
Custody(step)    == "do" \in DOMAIN step
ToKeys(r)        == "by" \notin DOMAIN r
Requested(step)  == IF Custody(step) THEN Request(step) ELSE step
Accepted(r)      == r.op # "ask" /\ (IF ToKeys(r) THEN Answer(r) ELSE CommunityAnswer(r)) = 200

(* What the driver makes of the answer: it compares the status, or the     *)
(* value it asked for.                                                     *)
Expected(step) ==
  IF Custody(step) THEN step.expect = Any \/ Answer(Request(step)) = step.expect
  ELSE (IF step.op = "ask" THEN CommunityTold(step) ELSE CommunityAnswer(step)) \in step.expect

Reaches(r) ==
  IF ToKeys(r) THEN Serve(r) /\ UNCHANGED community
  ELSE CommunityServe(r) /\ UNCHANGED keys

(* The requests that some driver sends a second time, so that the answer   *)
(* is the service's and not this model's: the bootstrap, a signature, an   *)
(* execution and a suspension (governed_boundary_e2e.py, market_integrity, *)
(* webauthn_hardware_custody), an edit and the close of a listing (smoke), *)
(* a vote (multi_source_value_evidence), a withdrawal and an anonymisation *)
(* (consent_retention), a question to osTRIS (participant_independence).   *)
(* Nothing is said of the others: creations, versions of a policy or of    *)
(* terms, settings, enrolment, retention, a publication, the start of a    *)
(* vote, a decision, a counter offer, an acceptance, a refusal.            *)
Repeatable(r) ==
  \/ ToKeys(r) /\ r.op \in {"bootstrap", "sign", "activate", "suspend"}
  \/ ~ToKeys(r) /\ r.op \in {"edit", "close", "vote", "withdraw", "anonymize", "refresh"}
Idempotent == {"close", "withdraw", "refresh"}

GovernanceInit ==
  /\ KeysInit /\ CommunityInit
  /\ driver \in DOMAIN Script /\ late \in BOOLEAN
  /\ pc = 1 /\ seen = 0 /\ kept = NothingKept /\ sent = {}
  /\ used = [h \in Seats \cup {Guardian, Nobody} |-> IF h = Guardian THEN 1 ELSE 0]

Drive ==
  /\ pc \in 1..Len(Steps)
  /\ LET step == Steps[pc]
         r == Requested(step)
     IN  /\ Reaches(r)
         /\ pc' = IF Expected(step) THEN pc + 1 ELSE 0
         /\ used' = IF Custody(step)
                    THEN [h \in DOMAIN used |-> IF h \in Uses(step) THEN used[h] + 1 ELSE used[h]]
                    ELSE used
         /\ seen' = IF r.op = "ask" /\ r.about = "nextSequence" THEN next ELSE seen
         /\ kept' = IF Custody(step) /\ step.keep THEN r ELSE kept
         /\ sent' = IF Repeatable(r) THEN sent \cup {[request |-> r, accepted |-> Accepted(r)]} ELSE sent
  /\ UNCHANGED <<driver, late, today>>

(* A request arrives once more: a retry on the way, a client that repeats. *)
Redeliver ==
  \E m \in sent :
    /\ late \/ m.accepted
    /\ Reaches(m.request)
    /\ sent' = IF Accepted(m.request) THEN sent \cup {[m EXCEPT !.accepted = TRUE]} ELSE sent
    /\ UNCHANGED <<driver, late, today, pc, used, seen, kept>>

Midnight ==
  /\ today < LastDay /\ today' = today + 1
  /\ UNCHANGED <<keys, community, memory>>

Next == Drive \/ Redeliver \/ Midnight
Spec == GovernanceInit /\ [][Next]_vars
-----------------------------------------------------------------------------
(* A driver stops at no answer, whichever of its repeatable requests was   *)
(* accepted and reaches the service again at any later moment, except      *)
(* where a day ends under one that compares the evidence of the day with   *)
(* what it read before or expects its own observations to be too young for *)
(* any exclusion (community_references_e2e.py:74,                          *)
(* community_value_governance_e2e.py:61, 84,                               *)
(* participant_independence_e2e.py:131), or a refused request comes back   *)
(* when a later step has made it good (market_integrity_e2e.py:71,         *)
(* governed_boundary_e2e.py:79).                                           *)
DayBound == {"references", "value", "independence"}
Premature == {"market", "boundary"}
Answered ==
  pc = 0 => \/ today > 0 /\ driver \in DayBound
            \/ late /\ driver \in Premature

(* Of the requests that drivers repeat, what was accepted is not accepted  *)
(* again whatever happened since, unless repeating it is allowed: no       *)
(* signature or vote counts twice, no suspension outlives its recovery, no *)
(* resolution is executed twice (governed_boundary_e2e.py:80, 102-104,     *)
(* webauthn_hardware_custody_e2e.py:189-208,                               *)
(* multi_source_value_evidence_e2e.py:129, market_integrity_e2e.py:113).   *)
AcceptedOnce ==
  \A m \in sent : m.accepted => m.request.op \in Idempotent \/ ~Accepted(m.request)

TypeOK ==
  /\ KeysTypeOK /\ CommunityTypeOK
  /\ driver \in DOMAIN Script /\ late \in BOOLEAN /\ pc \in 0..(Len(Steps) + 1)
=============================================================================
