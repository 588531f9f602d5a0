------------------------ MODULE ExchangeCommit_proofs ------------------------
(***************************************************************************)
(* Proofs about ExchangeCommit, for any agreements, users, credit floor,   *)
(* number of commits in progress and number of faults.                     *)
(***************************************************************************)
EXTENDS ExchangeCommit, TLAPS

-----------------------------------------------------------------------------
(***************************************************************************)
(* A fault that is armed and has not hit is in the mode, and there is room *)
(* for one at a time.                                                      *)
(***************************************************************************)
FInv ==
  /\ armed \in Nat /\ hit \in Nat
  /\ hit <= armed
  /\ mode # "normal" => hit < armed

LEMMA FInvInductive == FInv /\ [Next]_vars => FInv'
<1> SUFFICES ASSUME FInv, [Next]_vars PROVE FInv'
  OBVIOUS
<1> USE DEF FInv, ghosts
<1>1. ASSUME NEW m \in Fault, FaultOnce(m) PROVE FInv'
  BY <1>1 DEF FaultOnce
<1>2. ASSUME NEW a \in Agreement, NEW s \in Slot, ProxyTake(a, s) PROVE FInv'
  BY <1>2 DEF ProxyTake
<1>3. CASE UNCHANGED <<mode, armed, hit>>
  BY <1>3
<1>4. ASSUME NEW a \in Agreement,
             Activate(a) \/ Sync(a) \/ \E u \in User : Authorize(a, u)
      PROVE  UNCHANGED <<mode, armed, hit>>
  BY <1>4 DEF Activate, Sync, Authorize
<1>5. ASSUME NEW a \in Agreement, NEW s \in Slot,
             \/ CommitCall(a, s) \/ ProxyInject(a, s) \/ ProxyDrops(a, s)
             \/ StirAnswered(a, s) \/ OstrisCommit(a, s) \/ ProxyLoses(a, s)
             \/ StirGivesUp(a, s)
      PROVE  UNCHANGED <<mode, armed, hit>>
  BY <1>5 DEF CommitCall, ProxyInject, ProxyDrops, StirAnswered, OstrisCommit,
              ProxyLoses, StirGivesUp
<1>6. CASE UNCHANGED vars
  BY <1>6 DEF vars
<1> QED
  BY <1>1, <1>2, <1>3, <1>4, <1>5, <1>6 DEF Next, Handle

\* An armed fault hits one commit at most, however many threads the proxy has
\* and in whatever order they take the mode.
THEOREM OneFaultOneHit == Spec => []FaultsHitOnce
<1>1. Init => FInv
  BY DEF Init, FInv
<1>2. FInv => FaultsHitOnce
  BY DEF FInv, FaultsHitOnce
<1> QED
  BY <1>1, <1>2, FInvInductive, PTL DEF Spec

-----------------------------------------------------------------------------
(***************************************************************************)
(* A receipt under way names a row of the journal, which only grows.       *)
(***************************************************************************)
Row(rows, a, i) == i \in DOMAIN rows /\ rows[i] = a

RInv ==
  /\ journal \in Seq(Agreement)
  /\ mode \in Mode
  /\ call \in [Agreement -> [Slot -> Commit]]
  /\ trade \in [Agreement -> [state : TradeState, sequence : Nat]]
  /\ \A a \in Agreement, s \in Slot :
       call[a][s].answer = "receipt" => Row(journal, a, call[a][s].sequence)
  /\ \A a \in Agreement :
       trade[a].state = "COMMITTED" => Row(journal, a, trade[a].sequence)

LEMMA InitRInv == Init => RInv
BY DEF Init, RInv, Row, Commit, NoCommit, Mode, Answer, TradeState

\* Rows stay when the journal stays or grows at its end.
LEMMA RowsStay ==
  ASSUME journal \in Seq(Agreement),
         \/ journal' = journal
         \/ \E b \in Agreement : journal' = Append(journal, b)
  PROVE  /\ journal' \in Seq(Agreement)
         /\ \A a, i : Row(journal, a, i) => Row(journal', a, i)
BY DEF Row

\* A step that replaces one commit by c and leaves the trades alone, where a
\* receipt in c is that of a row.
LEMMA CallStep ==
  ASSUME RInv, NEW a \in Agreement, NEW s \in Slot, NEW c \in Commit,
         call' = [call EXCEPT ![a][s] = c],
         UNCHANGED trade, mode' \in Mode,
         \/ journal' = journal
         \/ \E b \in Agreement : journal' = Append(journal, b),
         c.answer = "receipt" => Row(journal', a, c.sequence)
  PROVE  RInv'
<1>1. call' \in [Agreement -> [Slot -> Commit]]
  BY DEF RInv
<1>2. ASSUME NEW b \in Agreement, NEW t \in Slot, call'[b][t].answer = "receipt"
      PROVE  Row(journal', b, call'[b][t].sequence)
  <2>1. CASE b = a /\ t = s
    BY <1>2, <2>1 DEF RInv
  <2>2. CASE ~(b = a /\ t = s)
    <3>1. call'[b][t] = call[b][t]
      BY <2>2 DEF RInv
    <3> QED
      BY <1>2, <3>1, RowsStay DEF RInv
  <2> QED
    BY <2>1, <2>2
<1>3. ASSUME NEW b \in Agreement, trade'[b].state = "COMMITTED"
      PROVE  Row(journal', b, trade'[b].sequence)
  BY <1>3, RowsStay DEF RInv
<1> QED
  BY <1>1, <1>2, <1>3, RowsStay DEF RInv

\* The steps of the proxy that forget a commit.
LEMMA ForgetSteps ==
  ASSUME RInv, NEW a \in Agreement, NEW s \in Slot,
         ProxyInject(a, s) \/ ProxyLoses(a, s) \/ ProxyDrops(a, s)
  PROVE  RInv'
<1>1. NoCommit \in Commit /\ NoCommit.answer # "receipt"
  BY DEF NoCommit, Commit, Mode, Answer
<1>2. call' = [call EXCEPT ![a][s] = NoCommit]
  BY DEF ProxyInject, ProxyLoses, ProxyDrops
<1>3. UNCHANGED <<trade, journal, mode>>
  BY DEF ProxyInject, ProxyLoses, ProxyDrops, ostrisVars
<1>4. mode' \in Mode
  BY <1>3 DEF RInv
<1> QED
  BY <1>1, <1>2, <1>3, <1>4, CallStep

\* The steps that change one commit and leave its answer alone.
LEMMA ProxySteps ==
  ASSUME RInv, NEW a \in Agreement, NEW s \in Slot,
         CommitCall(a, s) \/ ProxyTake(a, s) \/ StirGivesUp(a, s)
  PROVE  RInv'
<1>1. /\ call \in [Agreement -> [Slot -> Commit]] /\ call[a][s] \in Commit
      /\ mode \in Mode /\ "normal" \in Mode
      /\ call[a][s].answer = "receipt" =>
           Row(journal, a, call[a][s].sequence)
  BY DEF RInv, Mode
<1>2. /\ UNCHANGED <<trade, journal>> /\ mode' \in Mode
      /\ \E c \in Commit :
           /\ call' = [call EXCEPT ![a][s] = c]
           /\ c.answer = call[a][s].answer
           /\ c.sequence = call[a][s].sequence
  <2>1. CASE CommitCall(a, s)
    <3> DEFINE c == [call[a][s] EXCEPT !.stir = "waiting", !.proxy = "arrived"]
    <3>1. c \in Commit /\ c.answer = call[a][s].answer
          /\ c.sequence = call[a][s].sequence
      BY <1>1 DEF Commit
    <3>2. call' = [call EXCEPT ![a][s] = c]
      BY <1>1, <2>1 DEF CommitCall, Commit
    <3> QED
      BY <1>1, <2>1, <3>1, <3>2 DEF CommitCall, ostrisVars
  <2>2. CASE ProxyTake(a, s)
    <3> DEFINE c == [call[a][s] EXCEPT !.proxy = Processing(mode), !.mode = mode]
    <3>1. c \in Commit /\ c.answer = call[a][s].answer
          /\ c.sequence = call[a][s].sequence
      BY <1>1 DEF Commit, Processing
    <3>2. call' = [call EXCEPT ![a][s] = c]
      BY <1>1, <2>2 DEF ProxyTake, Commit
    <3> QED
      BY <1>1, <2>2, <3>1, <3>2 DEF ProxyTake, ostrisVars
  <2>3. CASE StirGivesUp(a, s)
    <3> DEFINE c == [call[a][s] EXCEPT !.stir = "idle"]
    <3>1. c \in Commit /\ c.answer = call[a][s].answer
          /\ c.sequence = call[a][s].sequence
      BY <1>1 DEF Commit
    <3>2. call' = [call EXCEPT ![a][s] = c]
      BY <1>1, <2>3 DEF StirGivesUp, Commit
    <3> QED
      BY <1>1, <2>3, <3>1, <3>2 DEF StirGivesUp, ostrisVars
  <2> QED
    BY <2>1, <2>2, <2>3
<1> QED
  BY <1>1, <1>2, CallStep

\* osTRIS answers with the sequence of a row, or with no receipt.
LEMMA OstrisStep ==
  ASSUME RInv, NEW a \in Agreement, NEW s \in Slot, OstrisCommit(a, s)
  PROVE  RInv'
<1>1. /\ call \in [Agreement -> [Slot -> Commit]] /\ call[a][s] \in Commit
      /\ journal \in Seq(Agreement) /\ mode' \in Mode
      /\ UNCHANGED trade
  BY DEF RInv, OstrisCommit
<1>2. ASSUME NEW answer \in Answer, NEW sequence \in Nat,
             Return(a, s, answer, sequence),
             \/ journal' = journal
             \/ \E b \in Agreement : journal' = Append(journal, b),
             answer = "receipt" => Row(journal', a, sequence)
      PROVE  RInv'
  <2> DEFINE c == [call[a][s] EXCEPT !.proxy = "returning", !.answer = answer,
                                     !.sequence = sequence]
  <2>1. c \in Commit /\ c.answer = answer /\ c.sequence = sequence
    BY <1>1 DEF Commit
  <2>2. call' = [call EXCEPT ![a][s] = c]
    BY <1>1, <1>2 DEF Return, Commit
  <2> QED
    BY <1>1, <1>2, <2>1, <2>2, CallStep
<1>3. CASE Again(a, s)
  <2>1. SequenceOf(a) \in Nat /\ Row(journal, a, SequenceOf(a))
    BY <1>1, <1>3 DEF Again, Committed, SequenceOf, Row
  <2> QED
    BY <1>2, <1>3, <2>1 DEF Again, ostrisVars, Answer
<1>4. CASE Unsigned(a, s) \/ FloorBreached(a, s)
  BY <1>2, <1>4 DEF Unsigned, FloorBreached, ostrisVars, Answer
<1>5. CASE Post(a, s)
  <2>1. journal' = Append(journal, a) /\ Return(a, s, "receipt", Len(journal) + 1)
    BY <1>5 DEF Post
  <2>2. Len(journal) + 1 \in Nat /\ Row(journal', a, Len(journal) + 1)
    BY <1>1, <2>1 DEF Row
  <2> QED
    BY <1>2, <2>1, <2>2 DEF Answer
<1> QED
  BY <1>3, <1>4, <1>5 DEF OstrisCommit

\* STIR records the receipt it is given, or the row it reads from osTRIS.
LEMMA StirSteps ==
  ASSUME RInv, NEW a \in Agreement,
         \/ Activate(a) \/ Sync(a) \/ \E u \in User : Authorize(a, u)
         \/ \E s \in Slot : StirAnswered(a, s)
  PROVE  RInv'
<1>1. /\ call \in [Agreement -> [Slot -> Commit]] /\ journal \in Seq(Agreement)
      /\ trade \in [Agreement -> [state : TradeState, sequence : Nat]]
  BY DEF RInv
<1>2. CASE Activate(a) \/ \E u \in User : Authorize(a, u)
  <2>1. UNCHANGED <<journal, mode, call>>
    BY <1>2 DEF Activate, Authorize, ostrisVars
  <2>2. trade' = trade \/ trade' = [trade EXCEPT ![a].state = "AWAITING_SIGNATURES"]
    BY <1>2 DEF Activate, Authorize
  <2>3. /\ trade' \in [Agreement -> [state : TradeState, sequence : Nat]]
        /\ \A b \in Agreement : trade'[b].state = "COMMITTED" =>
             trade'[b] = trade[b]
    BY <1>1, <2>2 DEF TradeState
  <2> QED
    BY <2>1, <2>3 DEF RInv
<1>3. CASE Sync(a)
  <2>1. SequenceOf(a) \in Nat /\ Row(journal, a, SequenceOf(a))
    BY <1>1, <1>3 DEF Sync, Committed, SequenceOf, Row
  <2> QED
    BY <1>3, <2>1 DEF Sync, ostrisVars, RInv, TradeState
<1>4. ASSUME NEW s \in Slot, StirAnswered(a, s) PROVE RInv'
  <2>1. /\ UNCHANGED <<journal, mode>>
        /\ call' = [call EXCEPT ![a][s] = NoCommit]
        /\ \/ trade' = trade
           \/ /\ trade' = [trade EXCEPT ![a] = [state |-> "COMMITTED",
                                            sequence |-> call[a][s].sequence]]
              /\ Row(journal, a, call[a][s].sequence)
    BY <1>4 DEF StirAnswered, ostrisVars, RInv
  <2>2. call' \in [Agreement -> [Slot -> Commit]]
    BY <1>1, <2>1 DEF NoCommit, Commit, Mode, Answer
  <2>3. ASSUME NEW b \in Agreement, NEW t \in Slot,
               call'[b][t].answer = "receipt"
        PROVE  Row(journal, b, call'[b][t].sequence)
    <3>1. ~(b = a /\ t = s)
      BY <1>1, <2>1, <2>3 DEF NoCommit
    <3> QED
      BY <1>1, <2>1, <2>3, <3>1 DEF RInv
  <2>4. /\ trade' \in [Agreement -> [state : TradeState, sequence : Nat]]
        /\ \A b \in Agreement : trade'[b].state = "COMMITTED" =>
             Row(journal, b, trade'[b].sequence)
    <3>1. call[a][s].sequence \in Nat
      BY <1>1 DEF Commit
    <3>2. CASE trade' = trade
      BY <3>2 DEF RInv
    <3>3. CASE /\ trade' = [trade EXCEPT ![a] = [state |-> "COMMITTED",
                                              sequence |-> call[a][s].sequence]]
               /\ Row(journal, a, call[a][s].sequence)
      <4>1. trade' \in [Agreement -> [state : TradeState, sequence : Nat]]
        BY <1>1, <3>1, <3>3 DEF TradeState
      <4>2. ASSUME NEW b \in Agreement, trade'[b].state = "COMMITTED"
            PROVE  Row(journal, b, trade'[b].sequence)
        BY <1>1, <3>3, <4>2 DEF RInv
      <4> QED
        BY <4>1, <4>2
    <3> QED
      BY <2>1, <3>2, <3>3
  <2> QED
    BY <2>1, <2>2, <2>3, <2>4 DEF RInv
<1> QED
  BY <1>2, <1>3, <1>4

LEMMA RInvInductive == RInv /\ [Next]_vars => RInv'
<1> SUFFICES ASSUME RInv, [Next]_vars PROVE RInv'
  OBVIOUS
<1>1. ASSUME NEW m \in Fault, FaultOnce(m) PROVE RInv'
  BY <1>1 DEF FaultOnce, ostrisVars, RInv, Mode
<1>2. CASE UNCHANGED vars
  BY <1>2 DEF vars, RInv
<1> QED
  BY <1>1, <1>2, ProxySteps, ForgetSteps, OstrisStep, StirSteps
  DEF Next, Handle

\* Whichever of several commits, retries and syncs made STIR record a receipt,
\* it is that of a journal row of the same agreement.
THEOREM ReceiptsAreGenuine == Spec => []ReceiptIsJournalled
<1>1. RInv => ReceiptIsJournalled
  BY DEF RInv, ReceiptIsJournalled, Row
<1> QED
  BY <1>1, InitRInv, RInvInductive, PTL DEF Spec
-----------------------------------------------------------------------------
(***************************************************************************)
(* Refinement: a row of the journal is a settlement, a trade that becomes  *)
(* COMMITTED is STIR learning of one, and every other step is invisible.   *)
(***************************************************************************)
settledNow == {a \in Agreement : Committed(a)}
knownNow   == {a \in Agreement : trade[a].state = "COMMITTED"}

LEMMA InitSettles == Init => Promise!Init
  BY DEF Init, Promise!Init, Committed

LEMMA JournalledIsSettled ==
  ASSUME RInv, NEW a \in Agreement, NEW i, Row(journal, a, i) PROVE a \in settledNow
  BY DEF Row, settledNow, Committed

\* Post is the only step that writes a row.
LEMMA PostSettles ==
  ASSUME RInv, NEW a \in Agreement, NEW s \in Slot, Post(a, s), UNCHANGED trade
  PROVE  Promise!Settle(a)
<1>1. a \notin settledNow
  BY DEF Post, settledNow
<1>2. settledNow' = settledNow \cup {a}
  <2>1. journal \in Seq(Agreement) /\ journal' = Append(journal, a)
    BY DEF Post, RInv
  <2>2. DOMAIN journal' = DOMAIN journal \cup {Len(journal) + 1}
    BY <2>1
  <2>3. \A b \in Agreement : Committed(b)' <=> Committed(b) \/ b = a
    BY <2>1, <2>2 DEF Committed
  <2> QED
    BY <2>3 DEF settledNow
<1> QED
  BY <1>1, <1>2 DEF Post, Affordable, Promise!Settle, Promise!Moved, settledNow, Committed

\* STIR learns at most one settlement, which is there.
LEMMA RecordLearns ==
  ASSUME RInv, NEW a \in Agreement, NEW i, Row(journal, a, i), UNCHANGED <<journal, balance>>,
         trade' = [trade EXCEPT ![a] = [state |-> "COMMITTED", sequence |-> i]]
  PROVE  Promise!Next \/ UNCHANGED <<settledNow, knownNow, balance>>
<1>1. a \in settledNow
  BY JournalledIsSettled
<1>2. knownNow' = knownNow \cup {a}
  BY DEF knownNow, RInv
<1>3. settledNow' = settledNow
  BY DEF settledNow, Committed
<1> QED
  BY <1>1, <1>2, <1>3 DEF Promise!Next, Promise!Learn, settledNow, knownNow

\* The steps that write neither a row nor a trade's receipt.
LEMMA QuietStep ==
  ASSUME UNCHANGED <<journal, balance>>,
         \A a \in Agreement : trade'[a].state = "COMMITTED" <=> trade[a].state = "COMMITTED"
  PROVE  UNCHANGED <<settledNow, knownNow, balance>>
  BY DEF settledNow, knownNow, Committed

LEMMA StepSettles ==
  ASSUME RInv, [Next]_vars
  PROVE  Promise!Next \/ UNCHANGED <<settledNow, knownNow, balance>>
<1> USE DEF ostrisVars
<1>1. ASSUME NEW a \in Agreement, Activate(a)
      PROVE  UNCHANGED <<settledNow, knownNow, balance>>
  BY <1>1, QuietStep DEF Activate, RInv
<1>2. ASSUME NEW a \in Agreement, Sync(a)
      PROVE  Promise!Next \/ UNCHANGED <<settledNow, knownNow, balance>>
  <2>1. Row(journal, a, SequenceOf(a))
    BY <1>2 DEF Sync, Committed, SequenceOf, Row
  <2> QED
    BY <1>2, <2>1, RecordLearns DEF Sync
<1>3. ASSUME NEW a \in Agreement, NEW s \in Slot, StirAnswered(a, s)
      PROVE  Promise!Next \/ UNCHANGED <<settledNow, knownNow, balance>>
  <2>1. CASE call[a][s].stir = "waiting" /\ call[a][s].answer = "receipt"
    <3>1. Row(journal, a, call[a][s].sequence)
      BY <2>1 DEF RInv
    <3>2. /\ UNCHANGED <<journal, balance>>
          /\ trade' = [trade EXCEPT ![a] = [state |-> "COMMITTED", sequence |-> call[a][s].sequence]]
      BY <1>3, <2>1 DEF StirAnswered
    <3> QED
      BY <3>1, <3>2, RecordLearns
  <2>2. CASE ~(call[a][s].stir = "waiting" /\ call[a][s].answer = "receipt")
    BY <1>3, <2>2, QuietStep DEF StirAnswered
  <2> QED
    BY <2>1, <2>2
<1>4. ASSUME NEW a \in Agreement, NEW s \in Slot, OstrisCommit(a, s)
      PROVE  Promise!Next \/ UNCHANGED <<settledNow, knownNow, balance>>
  <2>1. CASE Post(a, s)
    BY <1>4, <2>1, PostSettles DEF OstrisCommit, Promise!Next
  <2>2. CASE Again(a, s) \/ Unsigned(a, s) \/ FloorBreached(a, s)
    BY <1>4, <2>2, QuietStep DEF OstrisCommit, Again, Unsigned, FloorBreached
  <2> QED
    BY <1>4, <2>1, <2>2 DEF OstrisCommit
<1>5. CASE UNCHANGED <<journal, balance, trade>>
  BY <1>5, QuietStep
<1>6. ASSUME NEW a \in Agreement, NEW s \in Slot,
             \/ CommitCall(a, s) \/ ProxyTake(a, s) \/ ProxyInject(a, s) \/ ProxyDrops(a, s)
             \/ ProxyLoses(a, s) \/ StirGivesUp(a, s)
      PROVE  UNCHANGED <<journal, balance, trade>>
  BY <1>6 DEF CommitCall, ProxyTake, ProxyInject, ProxyDrops, ProxyLoses, StirGivesUp
<1>7. ASSUME NEW a \in Agreement, NEW u \in User, Authorize(a, u)
      PROVE  UNCHANGED <<journal, balance, trade>>
  BY <1>7 DEF Authorize
<1>8. ASSUME NEW m \in Fault, FaultOnce(m)
      PROVE  UNCHANGED <<journal, balance, trade>>
  BY <1>8 DEF FaultOnce
<1>9. CASE UNCHANGED vars
  BY <1>5, <1>9 DEF vars
<1> QED
  BY <1>1, <1>2, <1>3, <1>4, <1>5, <1>6, <1>7, <1>8, <1>9 DEF Next, Handle

\* Whatever faults are injected, answers lost and commits repeated, the
\* exchange behaves as one that settles each agreement in one step.
THEOREM ExchangeSettles == Spec => Settles
<1>1. Init => Promise!Init /\ RInv
  BY InitSettles, InitRInv
<1>2. RInv /\ [Next]_vars => RInv' /\ [Promise!Next]_(Promise!vars)
  BY RInvInductive, StepSettles DEF Promise!vars, settledNow, knownNow
<1> QED
  BY <1>1, <1>2, PTL DEF Spec, Settles, Promise!Spec
-----------------------------------------------------------------------------
(***************************************************************************)
(* Types, on top of RInv.                                                  *)
(***************************************************************************)
ReceiptOnlyWhenCommitted ==
  \A a \in Agreement : trade[a].sequence # 0 => trade[a].state = "COMMITTED"

Ledger ==
  /\ signed \in [Agreement -> SUBSET User] /\ balance \in [User -> Int]
  /\ refused \in SUBSET Agreement /\ armed \in 0 .. MaxFaults /\ hit \in Nat

TInv == RInv /\ ReceiptOnlyWhenCommitted /\ Ledger

LEMMA RInvStep == ASSUME RInv, Next PROVE RInv'
  BY RInvInductive

LEMMA TradeKept ==
  ASSUME RInv, ReceiptOnlyWhenCommitted, Next PROVE ReceiptOnlyWhenCommitted'
<1> USE DEF RInv, ReceiptOnlyWhenCommitted
<1>1. ASSUME NEW a \in Agreement, Activate(a) PROVE ReceiptOnlyWhenCommitted'
  BY <1>1 DEF Activate
<1>2. ASSUME NEW a \in Agreement, NEW i,
             trade' = trade \/ trade' = [trade EXCEPT ![a] = [state |-> "COMMITTED", sequence |-> i]]
      PROVE  ReceiptOnlyWhenCommitted'
  <2>1. CASE trade' = trade
    BY <2>1
  <2>2. CASE trade' = [trade EXCEPT ![a] = [state |-> "COMMITTED", sequence |-> i]]
    <3>1. \A b \in Agreement :
            trade'[b] = IF b = a THEN [state |-> "COMMITTED", sequence |-> i] ELSE trade[b]
      BY <2>2
    <3> QED
      BY <3>1
  <2> QED
    BY <1>2, <2>1, <2>2
<1>3. ASSUME NEW a \in Agreement, NEW s \in Slot, Handle(a, s) PROVE ReceiptOnlyWhenCommitted'
  BY <1>2, <1>3 DEF Handle, ProxyTake, ProxyInject, ProxyDrops, StirAnswered
<1>4. ASSUME NEW a \in Agreement, Sync(a) PROVE ReceiptOnlyWhenCommitted'
  BY <1>2, <1>4 DEF Sync
<1>5. CASE UNCHANGED trade
  BY <1>5
<1> QED
  BY <1>1, <1>3, <1>4, <1>5
  DEF Next, FaultOnce, Authorize, CommitCall, OstrisCommit, ProxyLoses, StirGivesUp

LEMMA LedgerKept == ASSUME Ledger, RInv, Next PROVE Ledger'
<1> USE DEF Ledger, ghosts, ostrisVars
<1>1. ASSUME NEW m \in Fault, FaultOnce(m) PROVE Ledger'
  BY <1>1, FaultAssumption DEF FaultAssumption, FaultOnce
<1>2. ASSUME NEW a \in Agreement, NEW u \in User, Authorize(a, u) PROVE Ledger'
  BY <1>2 DEF Authorize
<1>3. ASSUME NEW a \in Agreement, NEW s \in Slot, ProxyTake(a, s) PROVE Ledger'
  BY <1>3 DEF ProxyTake
<1>4. ASSUME NEW a \in Agreement, NEW s \in Slot, OstrisCommit(a, s) PROVE Ledger'
  <2>1. CASE Post(a, s)
    <3>1. Payer[a] \in User /\ Payee[a] \in User /\ Amount[a] \in Int
      BY AgreementAssumption DEF AgreementAssumption, Payer, Payee
    <3>2. balance' \in [User -> Int]
      BY <2>1, <3>1 DEF Post
    <3> QED
      BY <1>4, <2>1, <3>2 DEF OstrisCommit, Post
  <2>2. CASE Again(a, s) \/ Unsigned(a, s) \/ FloorBreached(a, s)
    BY <1>4, <2>2 DEF OstrisCommit, Again, Unsigned, FloorBreached
  <2> QED
    BY <1>4, <2>1, <2>2 DEF OstrisCommit
<1>5. CASE UNCHANGED <<signed, balance, refused, armed, hit>>
  BY <1>5
<1> QED
  BY <1>1, <1>2, <1>3, <1>4, <1>5
  DEF Next, Handle, Activate, Sync, CommitCall, ProxyInject, ProxyDrops, StirAnswered, ProxyLoses, StirGivesUp

LEMMA InitTInv == Init => TInv
  BY InitRInv, FaultAssumption DEF FaultAssumption, Init, TInv, ReceiptOnlyWhenCommitted, Ledger

LEMMA TInvInductive == TInv /\ [Next]_vars => TInv'
<1>1. ASSUME TInv, Next PROVE TInv'
  BY <1>1, RInvStep, TradeKept, LedgerKept DEF TInv
<1>2. ASSUME TInv, UNCHANGED vars PROVE TInv'
  BY <1>2 DEF vars, TInv, RInv, Row, ReceiptOnlyWhenCommitted, Ledger
<1> QED
  BY <1>1, <1>2

\* Every variable keeps its type, and a trade has a receipt exactly when it is
\* COMMITTED, through every fault and every late answer.
THEOREM TypeCorrect == Spec => []TypeOK
<1>1. ASSUME TInv PROVE TypeOK
  <2>1. \A a \in Agreement : trade[a].state = "COMMITTED" => trade[a].sequence # 0
    BY <1>1 DEF TInv, RInv, Row
  <2> QED
    BY <1>1, <2>1 DEF TInv, RInv, ReceiptOnlyWhenCommitted, Ledger, TypeOK
<1> QED
  BY <1>1, InitTInv, TInvInductive, PTL DEF Spec
=============================================================================
