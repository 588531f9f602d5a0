--------------------------- MODULE ExchangeCommit ----------------------------
(***************************************************************************)
(* The last leg of an economic exchange, under the fault injection of      *)
(* scripts/audit_ostris_fault_proxy.py: the drivers                        *)
(* (scripts/economic_exchange_e2e.py, audit_economic_commit_e2e.py) call   *)
(* STIR, STIR posts the commit to osTRIS through the proxy, osTRIS writes  *)
(* the journal.  Any number of commits may be in progress at once; STIR    *)
(* may stop waiting for an answer at any time, while the proxy still holds *)
(* the request; the answer may be lost after osTRIS has committed.         *)
(*                                                                         *)
(* The drivers and the proxy are code of this repository.  STIR and osTRIS *)
(* are not: their part is what the drivers require of them.                *)
(***************************************************************************)
EXTENDS Integers, Sequences

CONSTANTS
  Agreement,   \* accepted agreements
  User,        \* the users who trade
  Owner,       \* [Agreement -> user who published the listing]
  Initiator,   \* [Agreement -> user who made the first offer]
  Direction,   \* [Agreement -> {"OFFER", "WANTED"}], of the listing
  Amount,      \* [Agreement -> amount of the accepted offer]
  Floor,       \* credit floor of every account, zero or negative
  Slot,        \* bound: commits of one agreement that may be in progress
  MaxFaults    \* bound: faults armed

ASSUME AgreementAssumption ==
  /\ Owner \in [Agreement -> User] /\ Initiator \in [Agreement -> User]
  /\ \A a \in Agreement : Owner[a] # Initiator[a]
  /\ Direction \in [Agreement -> {"OFFER", "WANTED"}]
  /\ Amount \in [Agreement -> Nat \ {0}]
ASSUME FloorAssumption == Floor \in Int /\ Floor <= 0
ASSUME FaultAssumption == MaxFaults \in Nat

VARIABLES
  trade,     \* [Agreement -> stir.trade: state and receipt]
  signed,    \* [Agreement -> users whose signature osTRIS holds]
  journal,   \* rows of ostris.journal_transaction, in sequence order
  balance,   \* [User -> ostris.account.balance_projection]
  mode,      \* next_mode of the proxy
  call,      \* [Agreement -> [Slot -> a commit: STIR's half, the proxy's]]
  refused,   \* ghost: agreements whose commit met the credit floor
  armed,     \* ghost: faults armed so far
  hit        \* ghost: commits that met a fault

vars == <<trade, signed, journal, balance, mode, call, refused, armed, hit>>
ostrisVars == <<signed, journal, balance, refused>>
ghosts == <<armed, hit>>

Party(a) == {Owner[a], Initiator[a]}

\* A WANTED listing asks for something: its owner is the one who pays.
Payer == [a \in Agreement |->
            IF Direction[a] = "OFFER" THEN Initiator[a] ELSE Owner[a]]
Payee == [a \in Agreement |->
            IF Direction[a] = "OFFER" THEN Owner[a] ELSE Initiator[a]]

Fault == {"unavailable_once", "timeout_once", "drop_after_once"}
Mode == {"normal"} \cup Fault
TradeState == {"NONE", "AWAITING_SIGNATURES", "COMMITTED"}

\* What osTRIS answers: its receipt, or 409, or 422.
Answer == {"none", "receipt", "unsigned", "floor"}
Commit == [stir : {"idle", "waiting"},
           proxy : {"idle", "arrived", "injecting", "forwarding", "returning"},
           mode : Mode, answer : Answer, sequence : Nat]
NoCommit == [stir |-> "idle", proxy |-> "idle", mode |-> "normal",
             answer |-> "none", sequence |-> 0]

Init ==
  /\ trade = [a \in Agreement |-> [state |-> "NONE", sequence |-> 0]]
  /\ signed = [a \in Agreement |-> {}]
  /\ journal = <<>>
  /\ balance = [u \in User |-> 0]
  /\ mode = "normal"
  /\ call = [a \in Agreement |-> [s \in Slot |-> NoCommit]]
  /\ refused = {}
  /\ armed = 0
  /\ hit = 0

Committed(a) == \E i \in DOMAIN journal : journal[i] = a
SequenceOf(a) == CHOOSE i \in DOMAIN journal : journal[i] = a

(***************************************************************************)
(* The drivers' calls of STIR.  Repeating trade/activate or committing a   *)
(* trade that is COMMITTED changes nothing (idempotency).                  *)
(***************************************************************************)
Activate(a) ==
  /\ trade[a].state = "NONE"
  /\ trade' = [trade EXCEPT ![a].state = "AWAITING_SIGNATURES"]
  /\ UNCHANGED <<ostrisVars, mode, call, ghosts>>

Authorize(a, u) ==
  /\ trade[a].state = "AWAITING_SIGNATURES"
  /\ u \in Party(a) \ signed[a]
  /\ signed' = [signed EXCEPT ![a] = @ \cup {u}]
  /\ UNCHANGED <<trade, journal, balance, refused, mode, call, ghosts>>

\* Mutant: a trade is not committed again after a fault.
BugCommitCall(a, s) ==
  /\ hit = 0
  /\ trade[a].state = "AWAITING_SIGNATURES"
  /\ call[a][s] = NoCommit
  /\ call' = [call EXCEPT ![a][s].stir = "waiting", ![a][s].proxy = "arrived"]
  /\ UNCHANGED <<trade, ostrisVars, mode, ghosts>>

\* trade/commit, before, between or after the signatures.  A slot is free
\* when neither half of its last commit is alive.
CommitCall(a, s) ==
  /\ trade[a].state = "AWAITING_SIGNATURES"
  /\ call[a][s] = NoCommit
  /\ call' = [call EXCEPT ![a][s].stir = "waiting", ![a][s].proxy = "arrived"]
  /\ UNCHANGED <<trade, ostrisVars, mode, ghosts>>

\* Mutant: the status is shown and not stored.
BugSync(a) ==
  /\ trade[a].state = "AWAITING_SIGNATURES"
  /\ Committed(a)
  /\ UNCHANGED vars

\* Mutant: the last sequence of the community is taken for the trade's own.
BugSyncLast(a) ==
  /\ trade[a].state = "AWAITING_SIGNATURES"
  /\ Committed(a)
  /\ trade' = [trade EXCEPT ![a] = [state |-> "COMMITTED",
                                    sequence |-> Len(journal)]]
  /\ UNCHANGED <<ostrisVars, mode, call, ghosts>>

\* Mutant: a transaction with all its signatures counts as committed.
BugSyncEager(a) ==
  /\ trade[a].state = "AWAITING_SIGNATURES"
  /\ signed[a] = Party(a)
  /\ trade' = [trade EXCEPT ![a] = [state |-> "COMMITTED",
                                    sequence |-> Len(journal) + 1]]
  /\ UNCHANGED <<ostrisVars, mode, call, ghosts>>

\* trade/sync: STIR reads the status of the transaction from osTRIS.
Sync(a) ==
  /\ trade[a].state = "AWAITING_SIGNATURES"
  /\ Committed(a)
  /\ trade' = [trade EXCEPT ![a] = [state |-> "COMMITTED",
                                    sequence |-> SequenceOf(a)]]
  /\ UNCHANGED <<ostrisVars, mode, call, ghosts>>

\* fault_once: the next commit to reach the proxy meets fault m.
FaultOnce(m) ==
  /\ armed < MaxFaults
  /\ mode' = m
  /\ armed' = armed + 1
  /\ UNCHANGED <<trade, ostrisVars, call, hit>>

(***************************************************************************)
(* The proxy, one thread per request                                       *)
(***************************************************************************)
Processing(m) ==
  IF m \in {"unavailable_once", "timeout_once"} THEN "injecting" ELSE "forwarding"

\* Mutant: the mode is read and not reset.
BugProxyTake(a, s) ==
  /\ call[a][s].proxy = "arrived"
  /\ call' = [call EXCEPT ![a][s].proxy = Processing(mode),
                          ![a][s].mode = mode]
  /\ hit' = IF mode = "normal" THEN hit ELSE hit + 1
  /\ UNCHANGED <<trade, ostrisVars, mode, armed>>

\* Under the lock: the mode is taken and "normal" put in its place.
ProxyTake(a, s) ==
  /\ call[a][s].proxy = "arrived"
  /\ call' = [call EXCEPT ![a][s].proxy = Processing(mode),
                          ![a][s].mode = mode]
  /\ mode' = "normal"
  /\ hit' = IF mode = "normal" THEN hit ELSE hit + 1
  /\ UNCHANGED <<trade, ostrisVars, armed>>

\* 503, at once or after 25 seconds; the request goes no further.
ProxyInject(a, s) ==
  /\ call[a][s].proxy = "injecting"
  /\ call' = [call EXCEPT ![a][s] = NoCommit]
  /\ UNCHANGED <<trade, ostrisVars, mode, ghosts>>

\* osTRIS is not reached: urlopen raises something that is no HTTPError, the
\* handler ends and the connection with it.
ProxyLoses(a, s) ==
  /\ call[a][s].proxy = "forwarding"
  /\ call' = [call EXCEPT ![a][s] = NoCommit]
  /\ UNCHANGED <<trade, ostrisVars, mode, ghosts>>

\* drop_after_once: osTRIS has answered, and its answer is thrown away.
ProxyDrops(a, s) ==
  /\ call[a][s].proxy = "returning"
  /\ call[a][s].mode = "drop_after_once"
  /\ call' = [call EXCEPT ![a][s] = NoCommit]
  /\ UNCHANGED <<trade, ostrisVars, mode, ghosts>>

(***************************************************************************)
(* External: osTRIS commits.  Exactly one journal row for an agreement,    *)
(* the same receipt for a repeated commit, nothing without both            *)
(* signatures, nothing below the credit floor.                             *)
(***************************************************************************)
Return(a, s, answer, sequence) ==
  call' = [call EXCEPT ![a][s].proxy = "returning", ![a][s].answer = answer,
                       ![a][s].sequence = sequence]

Again(a, s) ==
  /\ Committed(a)
  /\ Return(a, s, "receipt", SequenceOf(a))
  /\ UNCHANGED ostrisVars

Unsigned(a, s) ==
  /\ ~Committed(a)
  /\ signed[a] # Party(a)
  /\ Return(a, s, "unsigned", 0)
  /\ UNCHANGED ostrisVars

Affordable(a) == balance[Payer[a]] - Amount[a] >= Floor

FloorBreached(a, s) ==
  /\ ~Committed(a)
  /\ signed[a] = Party(a)
  /\ ~Affordable(a)
  /\ Return(a, s, "floor", 0)
  /\ refused' = refused \cup {a}
  /\ UNCHANGED <<signed, journal, balance>>

Post(a, s) ==
  /\ ~Committed(a)
  /\ signed[a] = Party(a)
  /\ Affordable(a)
  /\ journal' = Append(journal, a)
  /\ balance' = [balance EXCEPT ![Payer[a]] = @ - Amount[a],
                                ![Payee[a]] = @ + Amount[a]]
  /\ Return(a, s, "receipt", Len(journal) + 1)
  /\ UNCHANGED <<signed, refused>>

OstrisCommit(a, s) ==
  /\ call[a][s].proxy = "forwarding"
  /\ Again(a, s) \/ Unsigned(a, s) \/ FloorBreached(a, s) \/ Post(a, s)
  /\ UNCHANGED <<trade, mode, ghosts>>

(***************************************************************************)
(* External: STIR.  It waits for the proxy's answer, for as long as it     *)
(* likes; without one it answers 503 and leaves the trade as it is.        *)
(***************************************************************************)
\* Mutant: any answer of osTRIS counts as a commit.
BugStirAnswered(a, s) ==
  /\ call[a][s].proxy = "returning"
  /\ call[a][s].mode # "drop_after_once"
  /\ trade' = IF call[a][s].stir = "waiting"
              THEN [trade EXCEPT ![a] = [state |-> "COMMITTED",
                                         sequence |-> call[a][s].sequence]]
              ELSE trade
  /\ call' = [call EXCEPT ![a][s] = NoCommit]
  /\ UNCHANGED <<ostrisVars, mode, ghosts>>

StirAnswered(a, s) ==
  /\ call[a][s].proxy = "returning"
  /\ call[a][s].mode # "drop_after_once"
  /\ trade' = IF call[a][s].stir = "waiting" /\ call[a][s].answer = "receipt"
              THEN [trade EXCEPT ![a] = [state |-> "COMMITTED",
                                         sequence |-> call[a][s].sequence]]
              ELSE trade
  /\ call' = [call EXCEPT ![a][s] = NoCommit]
  /\ UNCHANGED <<ostrisVars, mode, ghosts>>

StirGivesUp(a, s) ==
  /\ call[a][s].stir = "waiting"
  /\ call' = [call EXCEPT ![a][s].stir = "idle"]
  /\ UNCHANGED <<trade, ostrisVars, mode, ghosts>>

Handle(a, s) ==
  \/ ProxyTake(a, s) \/ ProxyInject(a, s) \/ ProxyDrops(a, s)
  \/ StirAnswered(a, s)

Next ==
  \/ \E m \in Fault : FaultOnce(m)
  \/ \E a \in Agreement :
       \/ Activate(a) \/ Sync(a)
       \/ \E u \in User : Authorize(a, u)
       \/ \E s \in Slot :
            \/ CommitCall(a, s) \/ Handle(a, s) \/ OstrisCommit(a, s)
            \/ ProxyLoses(a, s) \/ StirGivesUp(a, s)

Spec == Init /\ [][Next]_vars

(***************************************************************************)
(* The drivers go on after an error: a refused or interrupted commit is    *)
(* called again, a lost answer is followed by sync.  Every handler thread  *)
(* runs, and osTRIS is not out of reach for ever.                          *)
(***************************************************************************)
Fairness ==
  \A a \in Agreement :
    /\ WF_vars(Sync(a))
    /\ WF_vars(signed[a] = Party(a) /\ \E s \in Slot : CommitCall(a, s))
    /\ SF_vars(\E s \in Slot : OstrisCommit(a, s))
    /\ \A s \in Slot : WF_vars(Handle(a, s))

FairSpec == Spec /\ Fairness
-----------------------------------------------------------------------------
(***************************************************************************)
(* Properties                                                              *)
(***************************************************************************)
\* Types; a trade has a receipt exactly when it is COMMITTED.
TypeOK ==
  /\ trade \in [Agreement -> [state : TradeState, sequence : Nat]]
  /\ \A a \in Agreement : trade[a].state = "COMMITTED" <=> trade[a].sequence # 0
  /\ signed \in [Agreement -> SUBSET User]
  /\ journal \in Seq(Agreement)
  /\ balance \in [User -> Int]
  /\ mode \in Mode
  /\ call \in [Agreement -> [Slot -> Commit]]
  /\ refused \in SUBSET Agreement
  /\ armed \in 0 .. MaxFaults
  /\ hit \in Nat

\* "The same committedSequence as the original commit receipt": whichever of
\* several commits, retries and syncs made STIR record a receipt, it names
\* the journal row of that agreement.
ReceiptIsJournalled ==
  \A a \in Agreement : trade[a].state = "COMMITTED" =>
    /\ trade[a].sequence \in DOMAIN journal
    /\ journal[trade[a].sequence] = a

\* "unavailable_once", "timeout_once", "drop_after_once": an armed fault hits
\* one commit at most, however many threads of the proxy ask for the mode.
FaultsHitOnce == hit <= armed

\* Under faults, lost answers and concurrent commits, users see the atomic
\* exchange: one settlement per agreement, balances moved with it and only
\* above the floor, STIR's report never ahead of osTRIS and never withdrawn.
Promise == INSTANCE Settlement
  WITH settled <- {a \in Agreement : Committed(a)},
       known <- {a \in Agreement : trade[a].state = "COMMITTED"}
Settles == Promise!Spec

\* A commit whose answer was lost is found again: STIR reports COMMITTED in
\* the end whenever osTRIS has committed.
Reconciled ==
  \A a \in Agreement : Committed(a) ~> trade[a].state = "COMMITTED"

\* "Execution stays retryable": with both signatures an exchange is decided in
\* the end, committed or refused at the floor, whatever faults were armed.
Decided ==
  \A a \in Agreement :
    signed[a] = Party(a) ~> (trade[a].state = "COMMITTED" \/ a \in refused)
=============================================================================
