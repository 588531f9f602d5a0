---------------------------- MODULE SecurityProbe ----------------------------
(***************************************************************************)
(* scripts/audit_security_status_probe.py: a monitor that asks the audit   *)
(* verifier's /security-status for the number of open security incidents,  *)
(* validates the answer and turns it into an exit status, once or in a     *)
(* loop.  Incidents are opened and resolved while a poll is under way.     *)
(*                                                                         *)
(* The endpoint is external: it reads the incidents on every request, so a *)
(* well-formed answer gives their number at one moment of the poll; but it *)
(* may be down, or answer anything that is not well-formed.                *)
(***************************************************************************)
EXTENDS Integers

CONSTANTS
  Counts,    \* the integers an answer may carry
  MaxOpen    \* bound: incidents open at once

ASSUME CountsAssumption == Counts \subseteq Int
ASSUME MaxOpenAssumption == MaxOpen \in Nat

VARIABLES
  open,      \* rows of stir_audit.security_incident that are open
  pc,        \* "idle", "asked", "answered" or "ended"
  loop,      \* --loop
  answer,    \* what the last request got
  status,    \* result of the last poll; exit status once pc = "ended"
  seen       \* ghost: the values of open between the request and its answer

vars == <<open, pc, loop, answer, status, seen>>

EXIT_CLEAR == 0
EXIT_CRITICAL == 1
EXIT_UNREACHABLE == 2
EXIT_INVALID_RESPONSE == 3
NoStatus == -1
\* What the interpreter returns when an exception leaves main.
Uncaught == 1

CRITICAL == "CRITICAL_SECURITY_INCIDENT"
VALID_STATES == {"CLEAR", CRITICAL}

\* securityState: not there, not a string (a list is not hashable either), or
\* a string.  openIncidentCount: by its Python type; True is 1, False is 0.
JsonString == VALID_STATES \cup {"other_string"}
State == {"absent", "not_string", "unhashable"} \cup JsonString
Count ==
  [type : {"absent", "other_type"}, value : {0}]
  \cup [type : {"bool"}, value : {0, 1}] \cup [type : {"int"}, value : Counts]
NoCount == [type |-> "absent", value |-> 0]

\* "unreachable": URLError (so any status that is not 2xx), TimeoutError or
\* ConnectionError.  "cut_off": any other exception of urlopen and read, such
\* as IncompleteRead or BadStatusLine.  "too_big": json.loads raises something
\* that is no JSONDecodeError (a number too long, lists too deep).
Broken == {"unreachable", "cut_off", "not_utf8", "empty", "not_json",
           "too_big", "not_object"}
Answer ==
  [got : Broken, state : {"absent"}, count : {NoCount}]
  \cup [got : {"object"}, state : State, count : Count]
NoAnswer == [got |-> "empty", state |-> "absent", count |-> NoCount]

\* The two payloads of the endpoint's contract.
WellFormed(a) ==
  /\ a.got = "object" /\ a.state \in VALID_STATES /\ a.count.type = "int"
  /\ IF a.state = "CLEAR" THEN a.count.value = 0 ELSE a.count.value >= 1
-----------------------------------------------------------------------------
\* Mutant: the first version of the probe, which took any state it did not
\* know for one that is not CRITICAL.
BugParseDefaults(a) ==
  IF a.got = "too_big" THEN "raises"
  ELSE IF /\ a.got = "object"
          /\ a.state = CRITICAL => a.count.type = "int" /\ a.count.value >= 1
       THEN "valid" ELSE "invalid"

\* Mutant: the second version, in which a list raises TypeError in the
\* membership test.
BugParseHashes(a) ==
  IF a.got = "too_big" \/ a.state = "unhashable" THEN "raises"
  ELSE IF WellFormed(a) THEN "valid" ELSE "invalid"

\* Mutant: one incident is not enough.
BugParseOffByOne(a) ==
  IF a.got = "too_big" THEN "raises"
  ELSE IF WellFormed(a) /\ a.count.value # 1 THEN "valid" ELSE "invalid"

parse_security_status(a) ==
  IF a.got = "too_big" THEN "raises"
  ELSE IF \/ a.got # "object"
          \/ a.state \notin JsonString
          \/ a.state \notin VALID_STATES
          \/ a.count.type # "int"
          \/ a.count.value < 0
          \/ a.state = "CLEAR" /\ a.count.value # 0
          \/ a.state = CRITICAL /\ a.count.value < 1
       THEN "invalid" ELSE "valid"

Raises(a) == a.got = "cut_off" \/ parse_security_status(a) = "raises"

\* Mutant: the first return is forgotten, so that poll_once returns None.
BugPollReturns(a) ==
  IF a.got = "unreachable" THEN NoStatus
  ELSE IF Raises(a) THEN Uncaught
  ELSE IF parse_security_status(a) = "invalid" THEN EXIT_INVALID_RESPONSE
  ELSE IF a.state = CRITICAL THEN EXIT_CRITICAL ELSE EXIT_CLEAR

poll_once(a) ==
  IF a.got = "unreachable" THEN EXIT_UNREACHABLE
  ELSE IF Raises(a) THEN Uncaught
  ELSE IF parse_security_status(a) = "invalid" THEN EXIT_INVALID_RESPONSE
  ELSE IF a.state = CRITICAL THEN EXIT_CRITICAL ELSE EXIT_CLEAR
-----------------------------------------------------------------------------
Init ==
  /\ open \in 0 .. MaxOpen
  /\ pc = "idle"
  /\ loop \in BOOLEAN
  /\ answer = NoAnswer
  /\ status = NoStatus
  /\ seen = {}

\* External: an incident is opened, or resolved.
Incident ==
  \E n \in 0 .. MaxOpen :
    /\ n = open + 1 \/ n = open - 1
    /\ open' = n
    /\ seen' = IF pc = "asked" THEN seen \cup {n} ELSE seen
    /\ UNCHANGED <<pc, loop, answer, status>>

Ask ==
  /\ pc = "idle"
  /\ pc' = "asked"
  /\ seen' = {open}
  /\ UNCHANGED <<open, loop, answer, status>>

\* External: the endpoint answers, or does not.
Respond ==
  /\ pc = "asked"
  /\ pc' = "answered"
  /\ \E a \in Answer :
       /\ WellFormed(a) => a.count.value = open
       /\ answer' = a
  /\ UNCHANGED <<open, loop, status, seen>>

\* With --loop the status of a poll is overwritten by that of the next one;
\* only an exception ends the loop.
Conclude ==
  /\ pc = "answered"
  /\ status' = poll_once(answer)
  /\ pc' = IF loop /\ (answer.got = "unreachable" \/ ~Raises(answer))
           THEN "idle" ELSE "ended"
  /\ UNCHANGED <<open, loop, answer, seen>>

Next == Incident \/ Ask \/ Respond \/ Conclude

Spec == Init /\ [][Next]_vars

Concluded == status # NoStatus /\ pc \in {"idle", "ended"}
-----------------------------------------------------------------------------
(***************************************************************************)
(* Properties                                                              *)
(***************************************************************************)
\* Types; the probe does not end without a status.
TypeOK ==
  /\ open \in 0 .. MaxOpen
  /\ pc \in {"idle", "asked", "answered", "ended"}
  /\ loop \in BOOLEAN
  /\ answer \in Answer
  /\ status \in -1 .. 3
  /\ seen \subseteq 0 .. MaxOpen
  /\ pc = "ended" => status # NoStatus

\* "NEVER exits 0": whatever the endpoint answers and whatever happens to the
\* incidents meanwhile, CLEAR is concluded only if at some moment of the poll
\* no incident was open.
ClearWasClear == Concluded /\ status = EXIT_CLEAR => 0 \in seen

\* An incident that is open during the whole of a poll which is answered
\* properly is concluded to be CRITICAL.
IncidentIsReported ==
  Concluded /\ WellFormed(answer) /\ 0 \notin seen => status = EXIT_CRITICAL

\* 2 and 3 are "deliberately distinct and must never be conflated", and each
\* is a poll's result exactly when the contract in the script's docstring says
\* so, except for the answers whose exception leaves main.
UnusableIsClassified ==
  Concluded /\ answer.got \notin {"cut_off", "too_big"} =>
    /\ status = EXIT_UNREACHABLE <=> answer.got = "unreachable"
    /\ status = EXIT_INVALID_RESPONSE <=>
         answer.got # "unreachable" /\ ~WellFormed(answer)

\* "exit 1 = CRITICAL_SECURITY_INCIDENT": the status means that at some moment
\* of the poll an incident was open.
CriticalWasIncident ==
  Concluded /\ status = EXIT_CRITICAL => \E n \in seen : n >= 1
=============================================================================
