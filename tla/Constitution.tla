---------------------------- MODULE Constitution ----------------------------
(***************************************************************************)
(* What Seven Keys promises a community, with credentials, signatures,     *)
(* sign counters, sequences and requests taken away: seats assent to a     *)
(* motion with a voice each, the guardian may silence one seat, and only   *)
(* the others, with the guardian, give it a new voice.  This is what the   *)
(* custody drivers assert of every resolution they carry out.              *)
(***************************************************************************)
EXTENDS Integers

CONSTANTS
  Seats,    \* the seats; seat s begins with voice s
  Voices,   \* voices a seat may have
  Motions,  \* identifiers of motions
  Quorums   \* sets of seats whose assent removes the guardian

VARIABLES
  version,    \* constitutions so far; 0: none
  voice,      \* [Seats -> its voice, as a set]
  silent,     \* the seat that may not speak, if there is one
  lost,       \* voices that were replaced
  guardian,   \* "NONE", "ACTIVE" or "REMOVED"
  motion,     \* [Motions -> what was moved: action, seat and voice concerned]
  pending,    \* motions that wait
  enacted,    \* motions that took effect
  assent      \* [Motions -> seats that assented]

seats == <<voice, silent, lost, guardian>>
vars  == <<version, seats, motion, pending, enacted, assent>>

Init ==
  /\ version = 0 /\ guardian = "NONE"
  /\ voice = [s \in Seats |-> {}] /\ silent = {} /\ lost = {}
  /\ pending = {} /\ enacted = {}
  /\ assent = [m \in Motions |-> {}]

Found ==
  /\ version = 0 /\ version' = 1
  /\ guardian' = "ACTIVE"
  /\ voice' = [s \in Seats |-> {s}]
  /\ UNCHANGED <<silent, lost, motion, pending, enacted, assent>>

(* A motion is made once, and nobody has assented to it yet. *)
Move(m) ==
  /\ version > 0 /\ m \notin pending \cup enacted
  /\ pending' = pending \cup {m}
  /\ assent' = [assent EXCEPT ![m] = {}]
  /\ \A n \in Motions \ {m} : motion'[n] = motion[n]
  /\ UNCHANGED <<version, seats, enacted>>

(* A seat that has been silenced has no say, whatever voices it had. *)
Assent(m, s) ==
  /\ m \in pending /\ s \notin assent[m] \cup silent
  /\ assent' = [assent EXCEPT ![m] = @ \cup {s}]
  /\ UNCHANGED <<version, seats, motion, pending, enacted>>

Enact(m) ==
  /\ m \in pending
  /\ pending' = pending \ {m} /\ enacted' = enacted \cup {m}
  /\ UNCHANGED <<motion, assent>>

(* Seven of seven, and no constitution changes while a seat is silent. *)
Amend(m) ==
  /\ motion[m].action = "AMEND_CONSTITUTION"
  /\ assent[m] = Seats /\ silent = {}
  /\ Enact(m)
  /\ version' = version + 1
  /\ UNCHANGED seats

(* Six of seven and the guardian: a voice that no seat ever had. *)
Recover(m, s) ==
  /\ motion[m].action = "ROTATE_CREDENTIAL" /\ motion[m].seat = s
  /\ Seats \ {s} \subseteq assent[m]
  /\ s \in silent /\ guardian = "ACTIVE"
  /\ motion[m].new \in Voices \ (lost \cup UNION {voice[t] : t \in Seats})
  /\ Enact(m)
  /\ voice' = [voice EXCEPT ![s] = {motion[m].new}]
  /\ lost' = lost \cup voice[s]
  /\ silent' = {}
  /\ UNCHANGED <<version, guardian>>

(* Five of seven; nothing brings the guardian back. *)
Remove(m) ==
  /\ motion[m].action = "REMOVE_GUARDIAN"
  /\ assent[m] \in Quorums
  /\ Enact(m)
  /\ guardian' = "REMOVED"
  /\ UNCHANGED <<version, voice, silent, lost>>

Silence(s) ==
  /\ guardian = "ACTIVE" /\ silent = {}
  /\ silent' = {s}
  /\ UNCHANGED <<version, voice, lost, guardian, motion, pending, enacted, assent>>

Next ==
  \/ Found
  \/ \E m \in Motions : Move(m) \/ Amend(m) \/ Remove(m)
  \/ \E m \in Motions, s \in Seats : Assent(m, s) \/ Recover(m, s)
  \/ \E s \in Seats : Silence(s)

Spec == Init /\ [][Next]_vars
=============================================================================
