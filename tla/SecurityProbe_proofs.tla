------------------------ MODULE SecurityProbe_proofs -------------------------
(***************************************************************************)
(* The probe's conclusions, for any integers an answer may carry and any   *)
(* number of incidents.                                                    *)
(***************************************************************************)
EXTENDS SecurityProbe, TLAPS

\* What the validator and poll_once make of one answer: the contract of the
\* script's docstring, but for the answers that raise.
LEMMA Verdict ==
  ASSUME NEW a \in Answer
  PROVE  /\ poll_once(a) \in 0 .. 3
         /\ poll_once(a) = EXIT_CLEAR => WellFormed(a) /\ a.count.value = 0
         /\ WellFormed(a) /\ a.count.value # 0 => poll_once(a) = EXIT_CRITICAL
         /\ a.got \notin {"cut_off", "too_big"} =>
              /\ poll_once(a) = EXIT_UNREACHABLE <=> a.got = "unreachable"
              /\ poll_once(a) = EXIT_INVALID_RESPONSE <=>
                   a.got # "unreachable" /\ ~WellFormed(a)
<1> USE DEF EXIT_CLEAR, EXIT_CRITICAL, EXIT_UNREACHABLE,
            EXIT_INVALID_RESPONSE, Uncaught, CRITICAL
<1>1. a.got \in Broken \cup {"object"}
  BY DEF Answer
<1>2. CASE a.got # "object"
  <2>1. ~WellFormed(a)
    BY <1>2 DEF WellFormed
  <2>2. parse_security_status(a) =
          IF a.got = "too_big" THEN "raises" ELSE "invalid"
    BY <1>2 DEF parse_security_status
  <2>3. /\ a.got = "unreachable" => poll_once(a) = 2
        /\ a.got \in {"cut_off", "too_big"} => poll_once(a) = 1
        /\ a.got \notin {"unreachable", "cut_off", "too_big"} =>
             poll_once(a) = 3
    BY <2>2 DEF poll_once, Raises
  <2>4. poll_once(a) \in 0 .. 3 /\ poll_once(a) # 0
    BY <2>3
  <2>5. poll_once(a) = 2 <=> a.got = "unreachable"
    BY <2>3
  <2>6. a.got \notin {"cut_off", "too_big"} =>
          (poll_once(a) = 3 <=> a.got # "unreachable")
    BY <2>3
  <2> QED
    BY <2>1, <2>4, <2>5, <2>6
<1>3. CASE a.got = "object"
  <2>1. a.state \in State /\ a.count \in Count
    BY <1>3 DEF Answer, Broken
  <2>2. a.count.type = "int" => a.count.value \in Int
    BY <2>1, CountsAssumption DEF Count
  <2>3. parse_security_status(a) = IF WellFormed(a) THEN "valid" ELSE "invalid"
    <3>1. CASE a.state \in VALID_STATES /\ a.count.type = "int"
      BY <1>3, <3>1, <2>2
      DEF parse_security_status, WellFormed, VALID_STATES, JsonString
    <3>2. CASE a.state \notin VALID_STATES \/ a.count.type # "int"
      BY <1>3, <3>2 DEF parse_security_status, WellFormed
    <3> QED
      BY <3>1, <3>2
  <2>4. WellFormed(a) => /\ a.state \in {"CLEAR", CRITICAL}
                         /\ a.state = "CLEAR" <=> a.count.value = 0
    BY <2>2 DEF WellFormed, VALID_STATES
  <2> QED
    BY <1>3, <2>3, <2>4 DEF poll_once, Raises
<1> QED
  BY <1>2, <1>3

\* The count at this moment of a request is among the counts seen, hence a
\* well-formed answer too; a conclusion is what poll_once makes of the answer.
SeenOpen == pc = "asked" => open \in seen

PInv ==
  /\ TypeOK
  /\ SeenOpen
  /\ (pc = "answered" \/ Concluded) /\ WellFormed(answer) =>
       answer.count.value \in seen
  /\ Concluded => status = poll_once(answer)

LEMMA InitPInv == Init => PInv
BY MaxOpenAssumption
DEF Init, PInv, TypeOK, SeenOpen, Concluded, NoStatus, Answer, NoAnswer, NoCount, Broken

LEMMA NextPInv == PInv /\ [Next]_vars => PInv'
<1> SUFFICES ASSUME PInv, [Next]_vars PROVE PInv'
  OBVIOUS
<1> USE DEF PInv, TypeOK, SeenOpen, Concluded, NoStatus
<1>1. CASE Incident
  BY <1>1, MaxOpenAssumption DEF Incident
<1>2. CASE Ask
  BY <1>2, MaxOpenAssumption DEF Ask
<1>3. CASE Respond
  <2>1. PICK a \in Answer : /\ WellFormed(a) => a.count.value = open
                            /\ answer' = a
    BY <1>3 DEF Respond
  <2>2. pc = "asked" /\ pc' = "answered" /\ UNCHANGED <<open, loop, status, seen>>
    BY <1>3 DEF Respond
  <2>3. open \in seen
    BY <2>2
  <2> QED
    BY <2>1, <2>2, <2>3
<1>4. CASE Conclude
  <2>1. poll_once(answer) \in 0 .. 3
    BY Verdict
  <2> QED
    BY <1>4, <2>1 DEF Conclude
<1>5. CASE UNCHANGED vars
  BY <1>5 DEF vars
<1> QED
  BY <1>1, <1>2, <1>3, <1>4, <1>5 DEF Next

LEMMA Invariance == Spec => []PInv
BY InitPInv, NextPInv, PTL DEF Spec

\* The probe stays within its states, whatever the integers of an answer.
THEOREM TypeCorrect == Spec => []TypeOK
<1>1. PInv => TypeOK
  BY DEF PInv
<1> QED
  BY Invariance, <1>1, PTL

\* CLEAR is never concluded from a poll during which an incident was open all
\* the time.
THEOREM ClearIsSafe == Spec => []ClearWasClear
<1>1. PInv => ClearWasClear
  <2> SUFFICES ASSUME PInv, Concluded, status = EXIT_CLEAR PROVE 0 \in seen
    BY DEF ClearWasClear
  <2>1. answer \in Answer /\ poll_once(answer) = EXIT_CLEAR
    BY DEF PInv, TypeOK
  <2>2. WellFormed(answer) /\ answer.count.value = 0
    BY <2>1, Verdict
  <2> QED
    BY <2>2 DEF PInv
<1> QED
  BY Invariance, <1>1, PTL

\* An incident open throughout a properly answered poll is concluded CRITICAL.
THEOREM IncidentsSurface == Spec => []IncidentIsReported
<1>1. PInv => IncidentIsReported
  <2> SUFFICES ASSUME PInv, Concluded, WellFormed(answer), 0 \notin seen
               PROVE  status = EXIT_CRITICAL
    BY DEF IncidentIsReported
  <2>1. answer \in Answer /\ answer.count.value # 0
    BY DEF PInv, TypeOK
  <2>2. poll_once(answer) = EXIT_CRITICAL
    BY <2>1, Verdict
  <2> QED
    BY <2>2 DEF PInv
<1> QED
  BY Invariance, <1>1, PTL

\* 2 and 3 are told apart as the contract says, unless an exception leaves main.
THEOREM ContractOfFailures == Spec => []UnusableIsClassified
<1>1. PInv => UnusableIsClassified
  <2> SUFFICES ASSUME PInv, Concluded, answer.got \notin {"cut_off", "too_big"}
               PROVE  /\ status = EXIT_UNREACHABLE <=>
                           answer.got = "unreachable"
                      /\ status = EXIT_INVALID_RESPONSE <=>
                           answer.got # "unreachable" /\ ~WellFormed(answer)
    BY DEF UnusableIsClassified
  <2>1. answer \in Answer /\ status = poll_once(answer)
    BY DEF PInv, TypeOK
  <2> QED
    BY <2>1, Verdict
<1> QED
  BY Invariance, <1>1, PTL
=============================================================================
