--------------------- MODULE CredentialLifecycle_proofs ---------------------
(***************************************************************************)
(* Proofs about CredentialLifecycle, for any participants, keys, proposals *)
(* and numbers of requests in flight.                                      *)
(*                                                                         *)
(* One strengthening carries everything: no recorded sequence is ahead of  *)
(* the community's.  A sequence that was read some time ago is at most the *)
(* current one because next_sequence only grows.                           *)
(***************************************************************************)
EXTENDS CredentialLifecycle, TLAPS

\* A stored activation is strictly below the next sequence, a stored
\* revocation at most the next sequence.
SequencesBehind ==
  \A k \in Key :
    /\ cred[k].activation < next
    /\ cred[k].revocation <= next

\* Only a credential that exists carries a revocation.
RevokedExist == \A k \in Key : Revoked(k) => Registered(k)

IInv == TypeOK /\ SequencesBehind /\ RevokedExist

-----------------------------------------------------------------------------
(***************************************************************************)
(* The invariant is inductive: one lemma per action that changes it.       *)
(***************************************************************************)
LEMMA InitIInv == Init => IInv
  BY NobodyAssumption DEF Init, IInv, TypeOK, SequencesBehind, Credential,
     ProposalState, Status, View, NoView, RevokedExist, Revoked

\* Inserting a credential whose activation is behind keeps the table behind.
LEMMA RegisterBehind ==
  ASSUME IInv, NEW p \in Participant, NEW k \in Key, NEW a \in Nat,
         a < next, Register(p, k, a)
  PROVE  /\ cred' \in [Key -> Credential]
         /\ \A j \in Key : cred'[j].activation < next /\ cred'[j].revocation <= next
         /\ RevokedExist'
<1>1. cred' = [cred EXCEPT ![k] = [owner |-> p, activation |-> a,
                                   revocation |-> 0]]
  BY DEF Register
<1>2. next \in Nat \ {0} /\ cred \in [Key -> Credential]
  BY DEF IInv, TypeOK
<1>3. cred' \in [Key -> Credential]
  BY <1>1, <1>2 DEF Credential
<1>4. ASSUME NEW j \in Key
      PROVE  cred'[j].activation < next /\ cred'[j].revocation <= next
  BY <1>1, <1>2 DEF IInv, SequencesBehind, Credential
<1>5. RevokedExist'
  BY <1>1, <1>2 DEF IInv, RevokedExist, Revoked, Registered, Credential
<1> QED
  BY <1>3, <1>4, <1>5

LEMMA ActivateIInv ==
  ASSUME IInv, NEW p \in Participant, NEW k \in Key, Activate(p, k)
  PROVE  IInv'
<1>1. next \in Nat \ {0} /\ Register(p, k, 0)
  BY DEF IInv, TypeOK, Activate
<1>2. /\ cred' \in [Key -> Credential]
      /\ \A j \in Key : cred'[j].activation < next /\ cred'[j].revocation <= next
      /\ RevokedExist'
  BY <1>1, RegisterBehind
<1> QED
  BY <1>2 DEF IInv, TypeOK, SequencesBehind, Activate

LEMMA AddReadIInv ==
  ASSUME IInv, NEW p \in Participant, NEW k \in Key, AddRead(p, k)
  PROVE  IInv'
  BY DEF IInv, TypeOK, SequencesBehind, RevokedExist, Registered,
     Revoked, AddRead

LEMMA AddInsertIInv ==
  ASSUME IInv, NEW r \in adds, AddInsert(r)
  PROVE  IInv'
<1>1. /\ next \in Nat \ {0}
      /\ r.owner \in Participant /\ r.key \in Key /\ r.sequence \in 1 .. next
  BY DEF IInv, TypeOK
<1>2. r.sequence - 1 \in Nat /\ r.sequence - 1 < next
  BY <1>1
<1>3. /\ cred' \in [Key -> Credential]
      /\ \A j \in Key : cred'[j].activation < next /\ cred'[j].revocation <= next
      /\ RevokedExist'
  BY <1>1, <1>2, RegisterBehind DEF AddInsert
<1> QED
  BY <1>3 DEF IInv, TypeOK, SequencesBehind, AddInsert

LEMMA RevokeUpdateIInv ==
  ASSUME IInv, NEW r \in revokes, RevokeUpdate(r)
  PROVE  IInv'
<1>1. /\ next \in Nat \ {0} /\ cred \in [Key -> Credential]
      /\ r.key \in Key /\ r.sequence \in 1 .. next
  BY DEF IInv, TypeOK
<1>2. cred' = [cred EXCEPT ![r.key].revocation = r.sequence]
  BY DEF RevokeUpdate
<1>3. cred' \in [Key -> Credential]
  BY <1>1, <1>2 DEF Credential
<1>4. SequencesBehind'
  BY <1>1, <1>2 DEF IInv, SequencesBehind, RevokeUpdate, Credential
<1>5. RevokedExist'
  BY <1>1, <1>2 DEF IInv, RevokedExist, Revoked, Registered, Credential,
     RevokeUpdate
<1> QED
  BY <1>3, <1>4, <1>5 DEF IInv, TypeOK, RevokeUpdate

\* A commit moves next forward: what was behind stays behind.
LEMMA CommitWriteIInv ==
  ASSUME IInv, NEW c \in commits, CommitWrite(c)
  PROVE  IInv'
<1>1. /\ next \in Nat \ {0} /\ next' = next + 1 /\ c.proposal \in Proposal
      /\ cred \in [Key -> Credential] /\ cred' = cred
      /\ proposal \in [Proposal -> ProposalState]
      /\ proposal' = [proposal EXCEPT ![c.proposal].status = "COMMITTED",
                                      ![c.proposal].sequence = next]
  BY DEF IInv, TypeOK, CommitWrite
<1>2. proposal' \in [Proposal -> ProposalState]
  BY <1>1 DEF ProposalState, Status
<1>3. SequencesBehind'
  BY <1>1 DEF IInv, SequencesBehind, Credential
<1>4. 1 .. next \subseteq 1 .. next'
  BY <1>1
<1>5. /\ adds' \in SUBSET [owner : Participant, key : Key, sequence : 1 .. next']
      /\ revokes' \in SUBSET [key : Key, sequence : 1 .. next']
      /\ commits' \in SUBSET [proposal : Proposal, sequence : 1 .. next']
  BY <1>4 DEF IInv, TypeOK, CommitWrite
<1>6. RevokedExist'
  BY <1>1 DEF IInv, RevokedExist, Registered, Revoked
<1> QED
  BY <1>1, <1>2, <1>3, <1>5, <1>6 DEF IInv, TypeOK, CommitWrite

LEMMA NextIInv == IInv /\ [Next]_vars => IInv'
<1> SUFFICES ASSUME IInv, [Next]_vars PROVE IInv'
  OBVIOUS
<1>1. CASE Provisioning
  <2>1. CASE \E p \in Participant, k \in Key : Activate(p, k) \/ AddRead(p, k)
    BY <2>1, ActivateIInv, AddReadIInv
  <2>2. CASE \E r \in adds : AddInsert(r)
    BY <2>2, AddInsertIInv
  <2>3. CASE \E r \in adds : AddFail(r)
    BY <2>3 DEF IInv, TypeOK, SequencesBehind, RevokedExist, Registered,
     Revoked, AddFail
  <2>4. CASE \E k \in Key : RevokeRead(k)
    BY <2>4 DEF IInv, TypeOK, SequencesBehind, RevokedExist, Registered,
     Revoked, RevokeRead
  <2>5. CASE \E r \in revokes : RevokeUpdate(r)
    BY <2>5, RevokeUpdateIInv
  <2>6. CASE \E r \in revokes : RevokeFail(r)
    BY <2>6 DEF IInv, TypeOK, SequencesBehind, RevokedExist, Registered,
     Revoked, RevokeFail
  <2> QED
    BY <1>1, <2>1, <2>2, <2>3, <2>4, <2>5, <2>6 DEF Provisioning
<1>2. CASE Transactions
  <2>1. ASSUME NEW t \in Proposal, NEW parties \in SUBSET Participant,
               Propose(t, parties)
        PROVE  IInv'
    BY <2>1 DEF IInv, TypeOK, SequencesBehind, RevokedExist, Registered,
       Revoked, Propose, ProposalState, Status
  <2>2. ASSUME NEW t \in Proposal, NEW k \in Key, AddEvidence(t, k)
        PROVE  IInv'
    BY <2>2 DEF IInv, TypeOK, SequencesBehind, RevokedExist, Registered,
     Revoked, AddEvidence, ProposalState
  <2>3. ASSUME NEW t \in Proposal, CommitCheck(t)
        PROVE  IInv'
    BY <2>3 DEF IInv, TypeOK, SequencesBehind, RevokedExist, Registered,
       Revoked, CommitCheck
  <2>4. ASSUME NEW c \in commits, CommitWrite(c)
        PROVE  IInv'
    BY <2>4, CommitWriteIInv
  <2>5. ASSUME NEW c \in commits, CommitFail(c)
        PROVE  IInv'
    BY <2>5 DEF IInv, TypeOK, SequencesBehind, RevokedExist, Registered,
       Revoked, CommitFail
  <2> QED
    BY <1>2, <2>1, <2>2, <2>3, <2>4, <2>5 DEF Transactions
<1>3. CASE Discovery
  <2> SUFFICES ASSUME NEW t \in Proposal,
                      \/ ViewProposal(t) \/ ViewEvidence(t)
                      \/ ViewJournal(t) \/ ViewReturn(t)
               PROVE  IInv'
    BY <1>3 DEF Discovery
  <2>1. view' \in [Proposal -> View]
    <3>1. CASE ViewProposal(t)
      BY <3>1 DEF IInv, TypeOK, ViewProposal, View, ProposalState
    <3>2. CASE ViewEvidence(t)
      BY <3>2 DEF IInv, TypeOK, ViewEvidence, View, Signers
    <3>3. CASE ViewJournal(t)
      <4>1. Journalled(t) \in BOOLEAN
        BY DEF Journalled
      <4> QED
        BY <3>3, <4>1 DEF IInv, TypeOK, ViewJournal, View
    <3>4. CASE ViewReturn(t)
      BY <3>4 DEF IInv, TypeOK, ViewReturn, View, NoView, Status
    <3> QED
      BY <3>1, <3>2, <3>3, <3>4
  <2>2. UNCHANGED <<next, cred, proposal, commits, adds, revokes>>
    BY DEF ViewProposal, ViewEvidence, ViewJournal, ViewReturn
  <2> QED
    BY <2>1, <2>2 DEF IInv, TypeOK, SequencesBehind, RevokedExist, Registered,
       Revoked
<1>4. CASE UNCHANGED vars
  BY <1>4 DEF vars, IInv, TypeOK, SequencesBehind, RevokedExist, Registered,
     Revoked
<1> QED
  BY <1>1, <1>2, <1>3, <1>4 DEF Next

LEMMA Invariance == Spec => []IInv
<1> QED
  BY InitIInv, NextIInv, PTL DEF Spec

-----------------------------------------------------------------------------
(***************************************************************************)
(* The theorems                                                            *)
(***************************************************************************)
\* The types hold in every execution of ProvisioningService,
\* DiscoveryService and the commits between them.
THEOREM TypeCorrect == Spec => []TypeOK
<1>1. IInv => TypeOK
  BY DEF IInv
<1> QED
  BY Invariance, <1>1, PTL

\* addCredential: an added, unrevoked device is eligible for the very next
\* commit, whatever happened between its two statements.
THEOREM ActiveCredentialsSign == Spec => []ActiveIsEligible
<1>1. IInv => ActiveIsEligible
  BY DEF IInv, SequencesBehind, ActiveIsEligible, Eligible
<1> QED
  BY Invariance, <1>1, PTL

LEMMA RevokedStay ==
  ASSUME IInv, [Next]_vars, NEW k \in Key, Revoked(k)
  PROVE  cred'[k] = cred[k]
<1> cred \in [Key -> Credential]
  BY DEF IInv, TypeOK
<1>1. CASE UNCHANGED cred
  BY <1>1
<1>2. CASE \E p \in Participant, j \in Key : Activate(p, j)
  BY <1>2 DEF IInv, RevokedExist, Activate, Register
<1>3. CASE \E r \in adds : AddInsert(r)
  BY <1>3 DEF IInv, RevokedExist, AddInsert, Register
<1>4. CASE \E r \in revokes : RevokeUpdate(r)
  BY <1>4 DEF RevokeUpdate, Revoked
<1> QED
  BY <1>1, <1>2, <1>3, <1>4 DEF Next, vars, Provisioning,
     Transactions, Discovery, AddRead, AddFail, RevokeRead, RevokeFail,
     Propose, AddEvidence, CommitCheck, CommitWrite, CommitFail,
     ViewProposal, ViewEvidence, ViewJournal, ViewReturn

\* revokeCredential: an exchange that relies on a revoked credential fails
\* closed for ever, unless its commit was evaluated before the revocation,
\* although the revocation may record a sequence that is out of date.
THEOREM RevokedStaysClosed == Spec => RevokedFailsClosed
<1>1. ASSUME IInv, NEW t \in Proposal, CommitCheck(t),
             NEW k \in proposal[t].evidence
      PROVE  ~Revoked(k)
  <2>1. k \in Key /\ next \in Nat /\ cred[k].revocation \in Nat
    BY <1>1 DEF IInv, TypeOK, ProposalState, Credential
  <2>2. Eligible(k, next)
    BY <1>1 DEF CommitCheck, Authorized
  <2>3. cred[k].revocation <= next
    BY <1>1, <2>1 DEF IInv, SequencesBehind
  <2> QED
    BY <2>1, <2>2, <2>3 DEF Eligible
<1>2. ASSUME IInv, [Next]_vars, NEW t \in Proposal, FailsClosed(t)
      PROVE  FailsClosed(t)'
  <2>0. PICK k \in proposal[t].evidence : Revoked(k)
    BY <1>2 DEF FailsClosed
  <2>1. k \in Key /\ cred[k] \in Credential /\ proposal \in [Proposal -> ProposalState]
    BY <1>2 DEF IInv, TypeOK, ProposalState
  <2>2. Revoked(k)'
    BY <1>2, <2>0, <2>1, RevokedStay DEF Revoked
  <2>3. CASE UNCHANGED <<proposal, commits>>
    BY <1>2, <2>0, <2>2, <2>3 DEF FailsClosed
  <2>4. ASSUME NEW s \in Proposal, NEW parties \in SUBSET Participant,
               Propose(s, parties)
        PROVE  FailsClosed(t)'
    BY <1>2, <2>0, <2>1, <2>2, <2>4 DEF Propose, FailsClosed
  <2>5. ASSUME NEW s \in Proposal, NEW j \in Key, AddEvidence(s, j)
        PROVE  FailsClosed(t)'
    <3>1. proposal'[t].status = "PROPOSED" /\ k \in proposal'[t].evidence
      BY <1>2, <2>0, <2>1, <2>5 DEF AddEvidence, FailsClosed, ProposalState
    <3> QED
      BY <1>2, <2>2, <2>5, <3>1 DEF AddEvidence, FailsClosed
  <2>6. ASSUME NEW s \in Proposal, CommitCheck(s)
        PROVE  FailsClosed(t)'
    <3>1. s # t
      BY <1>1, <1>2, <2>0, <2>6
    <3> QED
      BY <1>2, <2>0, <2>2, <2>6, <3>1 DEF CommitCheck, FailsClosed
  <2>7. ASSUME NEW c \in commits, CommitWrite(c)
        PROVE  FailsClosed(t)'
    <3>1. proposal'[t] = proposal[t] /\ commits' \subseteq commits
      BY <1>2, <2>1, <2>7 DEF CommitWrite, FailsClosed
    <3> QED
      BY <1>2, <2>0, <2>2, <3>1 DEF FailsClosed
  <2>8. ASSUME NEW c \in commits, CommitFail(c)
        PROVE  FailsClosed(t)'
    BY <1>2, <2>0, <2>2, <2>8 DEF CommitFail, FailsClosed
  <2>9. \/ UNCHANGED <<proposal, commits>> \/ Transactions
    BY <1>2 DEF Next, vars, Provisioning, Discovery,
       Activate, AddRead, AddInsert, AddFail, RevokeRead, RevokeUpdate,
       RevokeFail, ViewProposal, ViewEvidence, ViewJournal, ViewReturn
  <2> QED
    BY <2>3, <2>4, <2>5, <2>6, <2>7, <2>8, <2>9 DEF Transactions
<1>3. IInv /\ [Next]_vars =>
        [\A t \in Proposal : FailsClosed(t) => FailsClosed(t)']_vars
  BY <1>2
<1> QED
  BY Invariance, <1>3, PTL DEF Spec, RevokedFailsClosed

\* A recorded revocation is never rewritten, however many revocations of the
\* same credential race.
THEOREM RevocationStays == Spec => RevocationIsFinal
<1>1. IInv /\ [Next]_vars =>
        [\A k \in Key : Revoked(k) => cred'[k] = cred[k]]_vars
  BY RevokedStay
<1> QED
  BY Invariance, <1>1, PTL DEF Spec, RevocationIsFinal

-----------------------------------------------------------------------------
(***************************************************************************)
(* The status view                                                         *)
(***************************************************************************)
\* A commit of the proposal is under way or written.
Evaluated(t) == Journalled(t) \/ \E c \in commits : c.proposal = t

\* What a proposal keeps once it is evaluated: its evidence is of registered
\* keys, and those are of exactly its parties.
EvidenceComplete ==
  \A t \in Proposal :
    /\ \A k \in proposal[t].evidence : Registered(k)
    /\ Evaluated(t) => Signers(proposal[t].evidence) = proposal[t].parties

\* What each of the three reads has to have seen once the first said COMMITTED.
ViewBehind ==
  \A t \in Proposal :
    view[t].status = "COMMITTED" =>
      /\ Journalled(t)
      /\ view[t].pc \in {"journal", "done"} =>
           view[t].authorized = proposal[t].parties
      /\ view[t].pc = "done" => view[t].receipt

\* Only what was proposed is committed.
CommitsProposed == \A c \in commits : proposal[c.proposal].status # "NONE"

VInv == EvidenceComplete /\ CommitsProposed /\ ViewBehind

\* A key that is taken stays with its owner.
LEMMA OwnersStay ==
  ASSUME IInv, [Next]_vars, NEW k \in Key, Registered(k)
  PROVE  cred'[k].owner = cred[k].owner /\ Registered(k)'
<1> cred \in [Key -> Credential]
  BY DEF IInv, TypeOK
<1>1. CASE UNCHANGED cred
  BY <1>1 DEF Registered
<1>2. CASE \E p \in Participant, j \in Key : Activate(p, j)
  BY <1>2 DEF Activate, Register, Registered
<1>3. CASE \E r \in adds : AddInsert(r)
  BY <1>3 DEF AddInsert, Register, Registered
<1>4. CASE \E r \in revokes : RevokeUpdate(r)
  BY <1>4 DEF RevokeUpdate, Registered, Credential
<1> QED
  BY <1>1, <1>2, <1>3, <1>4 DEF Next, vars, Provisioning,
     Transactions, Discovery, AddRead, AddFail, RevokeRead, RevokeFail,
     Propose, AddEvidence, CommitCheck, CommitWrite, CommitFail, ViewProposal, ViewEvidence, ViewJournal,
     ViewReturn

\* So the signers of a set of registered keys stay the same.
LEMMA SignersStay ==
  ASSUME IInv, [Next]_vars, NEW keys \in SUBSET Key,
         \A k \in keys : Registered(k)
  PROVE  Signers(keys)' = Signers(keys) /\ \A k \in keys : Registered(k)'
<1>1. \A k \in keys : cred'[k].owner = cred[k].owner /\ Registered(k)'
  BY OwnersStay
<1> QED
  BY <1>1 DEF Signers

\* A committed proposal is final.
LEMMA CommittedStay ==
  ASSUME IInv, [Next]_vars, NEW t \in Proposal, Journalled(t)
  PROVE  /\ Journalled(t)'
         /\ proposal'[t].evidence = proposal[t].evidence
         /\ proposal'[t].parties = proposal[t].parties
<1> proposal \in [Proposal -> ProposalState]
  BY DEF IInv, TypeOK
<1>1. CASE UNCHANGED proposal
  BY <1>1 DEF Journalled
<1>2. CASE \E s \in Proposal, parties \in SUBSET Participant :
             Propose(s, parties)
  BY <1>2 DEF Propose, Journalled, ProposalState
<1>3. CASE \E s \in Proposal, k \in Key : AddEvidence(s, k)
  BY <1>3 DEF AddEvidence, Journalled, ProposalState
<1>4. CASE \E c \in commits : CommitWrite(c)
  BY <1>4 DEF CommitWrite, Journalled, ProposalState
<1> QED
  BY <1>1, <1>2, <1>3, <1>4 DEF Next, vars, Provisioning,
     Transactions, Discovery, Activate, AddRead, AddInsert, AddFail,
     RevokeRead, RevokeUpdate, RevokeFail, CommitCheck, CommitFail,
     ViewProposal, ViewEvidence, ViewJournal, ViewReturn

LEMMA InitVInv == Init => VInv
  BY DEF Init, VInv, EvidenceComplete, CommitsProposed, ViewBehind, Evaluated, Journalled, NoView

LEMMA EvidenceStep ==
  ASSUME IInv, VInv, [Next]_vars
  PROVE  EvidenceComplete'
<1> SUFFICES ASSUME NEW t \in Proposal
             PROVE  /\ \A k \in proposal'[t].evidence : Registered(k)'
                    /\ Evaluated(t)' =>
                         Signers(proposal[t].evidence)' = proposal'[t].parties
  BY DEF EvidenceComplete
<1>1. /\ proposal \in [Proposal -> ProposalState]
      /\ proposal[t].evidence \in SUBSET Key
      /\ proposal[t].parties \in SUBSET Participant
  BY DEF IInv, TypeOK, ProposalState
<1>2. \A k \in proposal[t].evidence : Registered(k)
  BY DEF VInv, EvidenceComplete
<1>e. PICK e \in SUBSET Key : e = proposal[t].evidence
  BY <1>1
<1>3. Signers(e)' = Signers(e) /\ \A k \in e : Registered(k)'
  BY <1>e, <1>2, SignersStay
<1>s. ASSUME NEW f \in SUBSET Key, proposal'[t].evidence = f
      PROVE  Signers(proposal[t].evidence)' = Signers(f)'
  BY <1>s DEF Signers
<1>4. CASE /\ proposal'[t].evidence = proposal[t].evidence
           /\ proposal'[t].parties = proposal[t].parties
           /\ Evaluated(t)' => Evaluated(t) \/ Signers(e) = proposal[t].parties
  BY <1>e, <1>s, <1>3, <1>4 DEF VInv, EvidenceComplete
<1>5. CASE UNCHANGED <<proposal, commits>>
  BY <1>4, <1>5 DEF Evaluated, Journalled
<1>6. ASSUME NEW s \in Proposal, NEW parties \in SUBSET Participant, Propose(s, parties)
      PROVE  /\ \A k \in proposal'[t].evidence : Registered(k)'
             /\ Evaluated(t)' => Signers(proposal[t].evidence)' = proposal'[t].parties
  <2>1. /\ commits' = commits /\ proposal'[t].evidence = proposal[t].evidence
        /\ s # t => proposal'[t] = proposal[t]
        /\ s = t => proposal'[t].status = "PROPOSED" /\ proposal[t].status = "NONE"
    BY <1>1, <1>6 DEF Propose, ProposalState
  <2>2. CASE s # t
    BY <1>4, <2>1, <2>2 DEF Evaluated, Journalled
  <2>3. CASE s = t
    <3>1. ~Evaluated(t)
      BY <2>1, <2>3 DEF VInv, CommitsProposed, Evaluated, Journalled
    <3>2. ~Evaluated(t)'
      BY <2>1, <2>3, <3>1 DEF Evaluated, Journalled
    <3> QED
      BY <1>e, <1>3, <2>1, <3>2
  <2> QED
    BY <2>2, <2>3
<1>7. ASSUME NEW s \in Proposal, NEW k \in Key, AddEvidence(s, k)
      PROVE  /\ \A j \in proposal'[t].evidence : Registered(j)'
             /\ Evaluated(t)' => Signers(proposal[t].evidence)' = proposal'[t].parties
  <2>1. cred' = cred /\ commits' = commits /\ cred[k].owner \in proposal[s].parties
    BY <1>7 DEF AddEvidence
  <2>2. cred[k].owner \in Participant /\ Registered(k)'
    BY <1>7, <2>1, NobodyAssumption DEF IInv, TypeOK, ProposalState, Registered
  <2>3. /\ s = t => /\ proposal'[t].evidence = e \cup {k}
                    /\ proposal'[t].parties = proposal[t].parties
                    /\ proposal'[t].status = proposal[t].status
        /\ s # t => proposal'[t] = proposal[t]
    BY <1>1, <1>e, <1>7 DEF AddEvidence, ProposalState
  <2>4. CASE s # t
    BY <1>4, <2>1, <2>3, <2>4 DEF Evaluated, Journalled
  <2>5. CASE s = t
    <3>1. Signers(proposal[t].evidence)' = Signers(e \cup {k})'
      BY <1>s, <2>3, <2>5
    <3>2. Signers(e \cup {k})' = Signers(e) \cup {cred[k].owner}
      BY <2>1, <2>2 DEF Signers
    <3>3. Evaluated(t)' => Evaluated(t)
      BY <2>1, <2>3, <2>5 DEF Evaluated, Journalled
    <3>4. Evaluated(t) => Signers(e) = proposal[t].parties
      BY <1>e DEF VInv, EvidenceComplete
    <3> QED
      BY <1>3, <2>1, <2>2, <2>3, <2>5, <3>1, <3>2, <3>3, <3>4
  <2> QED
    BY <2>4, <2>5
<1>8. CASE \E s \in Proposal : CommitCheck(s)
  <2>1. PICK s \in Proposal : CommitCheck(s)
    BY <1>8
  <2>2. proposal' = proposal /\ commits' = commits \cup {[proposal |-> s, sequence |-> next]}
    BY <2>1 DEF CommitCheck
  <2>3. s = t => Signers(e) = proposal[t].parties
    BY <1>e, <2>1 DEF CommitCheck, Authorized
  <2>4. s # t /\ Evaluated(t)' => Evaluated(t)
    BY <2>2 DEF Evaluated, Journalled
  <2> QED
    BY <1>4, <2>2, <2>3, <2>4
<1>9. CASE \E c \in commits : CommitWrite(c) \/ CommitFail(c)
  <2>1. PICK c \in commits : CommitWrite(c) \/ CommitFail(c)
    BY <1>9
  <2>2. /\ proposal'[t].evidence = proposal[t].evidence
        /\ proposal'[t].parties = proposal[t].parties
        /\ c.proposal # t => proposal'[t] = proposal[t]
        /\ commits' \subseteq commits
    BY <1>1, <2>1 DEF CommitWrite, CommitFail, ProposalState
  <2>3. Evaluated(t)' => Evaluated(t)
    BY <2>1, <2>2 DEF Evaluated, Journalled
  <2> QED
    BY <1>4, <2>2, <2>3
<1> QED
  BY <1>5, <1>6, <1>7, <1>8, <1>9 DEF Next, vars, Provisioning,
     Transactions, Discovery, Activate, AddRead, AddInsert, AddFail,
     RevokeRead, RevokeUpdate, RevokeFail, ViewProposal, ViewEvidence,
     ViewJournal, ViewReturn

LEMMA CommitsProposedStep ==
  ASSUME IInv, VInv, [Next]_vars
  PROVE  CommitsProposed'
<1>1. proposal \in [Proposal -> ProposalState] /\ \A c \in commits : c.proposal \in Proposal
  BY DEF IInv, TypeOK
<1>2. ASSUME NEW s \in Proposal, NEW parties \in SUBSET Participant, Propose(s, parties)
      PROVE  CommitsProposed'
  BY <1>1, <1>2 DEF VInv, CommitsProposed, Propose, ProposalState
<1>3. ASSUME NEW s \in Proposal, NEW k \in Key, AddEvidence(s, k)
      PROVE  CommitsProposed'
  BY <1>1, <1>3 DEF VInv, CommitsProposed, AddEvidence, ProposalState
<1>4. ASSUME NEW s \in Proposal, CommitCheck(s)
      PROVE  CommitsProposed'
  BY <1>1, <1>4 DEF VInv, CommitsProposed, CommitCheck
<1>5. ASSUME NEW c \in commits, CommitWrite(c) \/ CommitFail(c)
      PROVE  CommitsProposed'
  BY <1>1, <1>5 DEF VInv, CommitsProposed, CommitWrite, CommitFail, ProposalState
<1>6. CASE UNCHANGED <<proposal, commits>>
  BY <1>6 DEF VInv, CommitsProposed
<1> QED
  BY <1>2, <1>3, <1>4, <1>5, <1>6 DEF Next, vars, Provisioning,
     Transactions, Discovery, Activate, AddRead, AddInsert, AddFail,
     RevokeRead, RevokeUpdate, RevokeFail, ViewProposal, ViewEvidence,
     ViewJournal, ViewReturn

\* The reads of one answer: each sees a state at or after the one before it.
LEMMA ViewStep ==
  ASSUME IInv, VInv, [Next]_vars
  PROVE  ViewBehind'
<1> SUFFICES ASSUME NEW t \in Proposal, view'[t].status = "COMMITTED"
             PROVE  /\ Journalled(t)'
                    /\ view'[t].pc \in {"journal", "done"} =>
                         view'[t].authorized = proposal'[t].parties
                    /\ view'[t].pc = "done" => view'[t].receipt
  BY DEF ViewBehind
<1>1. view \in [Proposal -> View] /\ view[t] \in View
  BY DEF IInv, TypeOK
<1>2. CASE view'[t] = view[t]
  BY <1>2, CommittedStay DEF VInv, ViewBehind
<1>3. CASE ViewProposal(t)
  BY <1>1, <1>3, CommittedStay DEF ViewProposal, Journalled, View
<1>4. CASE ViewEvidence(t)
  <2>1. /\ view'[t].status = view[t].status /\ view'[t].pc = "journal"
        /\ view'[t].authorized = Signers(proposal[t].evidence)
        /\ proposal' = proposal
    BY <1>1, <1>4 DEF ViewEvidence, View
  <2>2. Journalled(t)
    BY <2>1 DEF VInv, ViewBehind
  <2> QED
    BY <2>1, <2>2 DEF VInv, EvidenceComplete, Evaluated, Journalled
<1>5. CASE ViewJournal(t)
  <2>1. /\ view'[t].status = view[t].status /\ view'[t].pc = "done"
        /\ view'[t].authorized = view[t].authorized
        /\ view'[t].receipt = Journalled(t) /\ view[t].pc = "journal"
        /\ proposal' = proposal
    BY <1>1, <1>5 DEF ViewJournal, View, Journalled
  <2> QED
    BY <2>1 DEF VInv, ViewBehind, Journalled
<1>6. CASE ViewReturn(t)
  BY <1>1, <1>6 DEF ViewReturn, NoView
<1>7. \/ view'[t] = view[t] \/ ViewProposal(t) \/ ViewEvidence(t)
      \/ ViewJournal(t) \/ ViewReturn(t)
  <2>1. CASE UNCHANGED view
    BY <2>1
  <2>2. CASE Discovery
    <3>1. PICK s \in Proposal : \/ ViewProposal(s) \/ ViewEvidence(s)
                                \/ ViewJournal(s) \/ ViewReturn(s)
      BY <2>2 DEF Discovery
    <3> QED
      BY <1>1, <3>1 DEF ViewProposal, ViewEvidence, ViewJournal, ViewReturn
  <2> QED
    BY <2>1, <2>2 DEF Next, vars, Provisioning, Transactions, Activate,
       AddRead, AddInsert, AddFail, RevokeRead, RevokeUpdate, RevokeFail,
       Propose, AddEvidence, CommitCheck, CommitWrite, CommitFail
<1> QED
  BY <1>2, <1>3, <1>4, <1>5, <1>6, <1>7

\* DiscoveryService.transaction: an answer that says COMMITTED carries the
\* receipt and lists every party, whatever happened between its reads.
THEOREM CommittedViews == Spec => []CommittedViewIsComplete
<1>1. VInv => CommittedViewIsComplete
  BY DEF VInv, ViewBehind, CommittedViewIsComplete
<1>2. IInv /\ VInv /\ [Next]_vars => VInv'
  BY EvidenceStep, CommitsProposedStep, ViewStep DEF VInv
<1> QED
  BY Invariance, InitVInv, <1>1, <1>2, PTL DEF Spec
=============================================================================
