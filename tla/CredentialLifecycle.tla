------------------------- MODULE CredentialLifecycle -------------------------
(***************************************************************************)
(* The device lifecycle of a participant in one osTRIS community, as the   *)
(* public application surface exposes it: ProvisioningService (activate,   *)
(* add and revoke a credential) and DiscoveryService.transaction, both in  *)
(* patches/ostris-0.4-public-application-surface.patch.                    *)
(*                                                                         *)
(* Add and revoke read community.next_sequence with a plain SELECT and use *)
(* it in a later statement of their transaction, and the status view is    *)
(* three SELECTs: under read committed isolation a commit of an exchange   *)
(* may fall in between.  Proposals, signatures and the commit itself are   *)
(* osTRIS code that the patch only calls; its tests fix what they do.  A   *)
(* commit is two steps, since what it has evaluated is flushed at its end: *)
(* a revocation, which takes no lock, may return in between.               *)
(***************************************************************************)
EXTENDS Naturals

CONSTANTS
  Participant,   \* a participant, with its one account and its one controller
  Key,           \* Ed25519 public keys; one is registered at most once
  Proposal,      \* identifiers of transaction proposals
  Nobody         \* not a participant

ASSUME NobodyAssumption == Nobody \notin Participant

VARIABLES
  next,      \* ostris.community.next_sequence
  cred,      \* [Key -> ostris.credential and its binding]
  proposal,  \* [Proposal -> ostris.transaction_proposal and its evidence]
  commits,   \* commit requests that have been evaluated and not yet written
  adds,      \* addCredential requests that have read next_sequence
  revokes,   \* revokeCredential requests that have read next_sequence
  view       \* [Proposal -> a DiscoveryService.transaction request in progress]

vars == <<next, cred, proposal, commits, adds, revokes, view>>

\* A revocation of 0 is the null of the column: sequences start at 1.
Credential == [owner : Participant \cup {Nobody}, activation : Nat,
               revocation : Nat]
Status == {"NONE", "PROPOSED", "COMMITTED"}
ProposalState == [status : Status, parties : SUBSET Participant,
                  evidence : SUBSET Key, sequence : Nat]
View == [pc : {"idle", "evidence", "journal", "done"}, status : Status,
         authorized : SUBSET Participant, receipt : BOOLEAN]
NoView == [pc |-> "idle", status |-> "NONE", authorized |-> {},
           receipt |-> FALSE]

Registered(k) == cred[k].owner # Nobody
Revoked(k) == cred[k].revocation # 0

\* A controller is known once its participant has been activated; revoking a
\* credential never revokes it.
ActiveController(p) == \E k \in Key : cred[k].owner = p

\* createCommunity: next_sequence starts at 1.
Init ==
  /\ next = 1
  /\ cred = [k \in Key |->
               [owner |-> Nobody, activation |-> 0, revocation |-> 0]]
  /\ proposal = [t \in Proposal |->
                   [status |-> "NONE", parties |-> {}, evidence |-> {},
                    sequence |-> 0]]
  /\ commits = {}
  /\ adds = {}
  /\ revokes = {}
  /\ view = [t \in Proposal |-> NoView]

(***************************************************************************)
(* ProvisioningService                                                     *)
(***************************************************************************)
\* CREDENTIAL_KEY_TAKEN: the key is unique in its community.  The refused
\* request changes nothing.
Register(p, k, activation) ==
  /\ ~Registered(k)
  /\ cred' = [cred EXCEPT ![k] = [owner |-> p, activation |-> activation,
                                  revocation |-> 0]]

\* activateParticipant: the first credential of a new controller.
Activate(p, k) ==
  /\ ~ActiveController(p)
  /\ Register(p, k, 0)
  /\ UNCHANGED <<next, proposal, commits, adds, revokes, view>>

\* Mutant: one is taken off at the read as well.
BugAddRead(p, k) ==
  /\ ActiveController(p)
  /\ adds' = adds \cup {[owner |-> p, key |-> k, sequence |-> next - 1]}
  /\ UNCHANGED <<next, cred, proposal, commits, revokes, view>>

\* addCredential up to currentSequence: the controller is checked, the
\* sequence is read.
AddRead(p, k) ==
  /\ ActiveController(p)
  /\ adds' = adds \cup {[owner |-> p, key |-> k, sequence |-> next]}
  /\ UNCHANGED <<next, cred, proposal, commits, revokes, view>>

\* Mutant: the sequence is stored as it was read, which makes the device wait
\* for a second commit.
BugAddInsert(r) ==
  /\ Register(r.owner, r.key, r.sequence)
  /\ adds' = adds \ {r}
  /\ UNCHANGED <<next, proposal, commits, revokes, view>>

AddInsert(r) ==
  /\ Register(r.owner, r.key, r.sequence - 1)
  /\ adds' = adds \ {r}
  /\ UNCHANGED <<next, proposal, commits, revokes, view>>

\* The insert is refused (CREDENTIAL_KEY_TAKEN) or the request is lost.
AddFail(r) ==
  /\ adds' = adds \ {r}
  /\ UNCHANGED <<next, cred, proposal, commits, revokes, view>>

\* revokeCredential up to currentSequence: whether the credential exists is
\* only asked by the update.
RevokeRead(k) ==
  /\ revokes' = revokes \cup {[key |-> k, sequence |-> next]}
  /\ UNCHANGED <<next, cred, proposal, commits, adds, view>>

\* Mutant: the revocation takes effect one sequence later.
BugRevokeLate(r) ==
  /\ Registered(r.key)
  /\ ~Revoked(r.key)
  /\ cred' = [cred EXCEPT ![r.key].revocation = r.sequence + 1]
  /\ revokes' = revokes \ {r}
  /\ UNCHANGED <<next, proposal, commits, adds, view>>

\* Mutant: the update has no "revocation_sequence is null".
BugRevokeAgain(r) ==
  /\ Registered(r.key)
  /\ cred' = [cred EXCEPT ![r.key].revocation = r.sequence]
  /\ revokes' = revokes \ {r}
  /\ UNCHANGED <<next, proposal, commits, adds, view>>

\* update ... set revocation_sequence where revocation_sequence is null.
RevokeUpdate(r) ==
  /\ Registered(r.key)
  /\ ~Revoked(r.key)
  /\ cred' = [cred EXCEPT ![r.key].revocation = r.sequence]
  /\ revokes' = revokes \ {r}
  /\ UNCHANGED <<next, proposal, commits, adds, view>>

\* UNKNOWN_CREDENTIAL, CREDENTIAL_ALREADY_REVOKED, or the request is lost.
RevokeFail(r) ==
  /\ revokes' = revokes \ {r}
  /\ UNCHANGED <<next, cred, proposal, commits, adds, view>>

(***************************************************************************)
(* External: osTRIS transactions.  Every signature on a proposal must come *)
(* from a credential that is eligible when its commit is evaluated.        *)
(***************************************************************************)
Propose(t, parties) ==
  /\ proposal[t].status = "NONE"
  /\ \E p, q \in parties : p # q
  /\ \A p \in parties : ActiveController(p)
  /\ proposal' = [proposal EXCEPT ![t].status = "PROPOSED",
                                  ![t].parties = parties]
  /\ UNCHANGED <<next, cred, commits, adds, revokes, view>>

\* A signature is accepted when it verifies, even of a revoked credential,
\* and it stays on the proposal.
AddEvidence(t, k) ==
  /\ proposal[t].status = "PROPOSED"
  /\ cred[k].owner \in proposal[t].parties
  /\ proposal' = [proposal EXCEPT ![t].evidence = @ \cup {k}]
  /\ UNCHANGED <<next, cred, commits, adds, revokes, view>>

Eligible(k, sequence) ==
  /\ Registered(k)
  /\ cred[k].activation < sequence
  /\ Revoked(k) => sequence < cred[k].revocation

Signers(keys) == {p \in Participant : \E k \in keys : cred[k].owner = p}

Authorized(t) ==
  /\ \A k \in proposal[t].evidence : Eligible(k, next)
  /\ Signers(proposal[t].evidence) = proposal[t].parties

\* A commit is evaluated at S = next_sequence; a refused one leaves the
\* proposal PROPOSED.
CommitCheck(t) ==
  /\ proposal[t].status = "PROPOSED"
  /\ Authorized(t)
  /\ commits' = commits \cup {[proposal |-> t, sequence |-> next]}
  /\ UNCHANGED <<next, cred, proposal, adds, revokes, view>>

\* The journal row, the status and the next sequence change together.  Of
\* several commits evaluated at one sequence one is written (assumed of osTRIS:
\* a community gives a sequence once).
CommitWrite(c) ==
  /\ next = c.sequence
  /\ proposal' = [proposal EXCEPT ![c.proposal].status = "COMMITTED",
                                  ![c.proposal].sequence = next]
  /\ next' = next + 1
  /\ commits' = commits \ {c}
  /\ UNCHANGED <<cred, adds, revokes, view>>

\* The sequence was taken, or the request is lost.
CommitFail(c) ==
  /\ commits' = commits \ {c}
  /\ UNCHANGED <<next, cred, proposal, adds, revokes, view>>

(***************************************************************************)
(* DiscoveryService.transaction: the proposal row, then the evidence, then *)
(* the journal row.                                                        *)
(***************************************************************************)
Journalled(t) == proposal[t].status = "COMMITTED"

ViewProposal(t) ==
  /\ view[t].pc = "idle"
  /\ proposal[t].status # "NONE"
  /\ view' = [view EXCEPT ![t].pc = "evidence",
                          ![t].status = proposal[t].status]
  /\ UNCHANGED <<next, cred, proposal, commits, adds, revokes>>

ViewEvidence(t) ==
  /\ view[t].pc = "evidence"
  /\ view' = [view EXCEPT ![t].pc = "journal",
                          ![t].authorized = Signers(proposal[t].evidence)]
  /\ UNCHANGED <<next, cred, proposal, commits, adds, revokes>>

\* Mutant: the status is looked up last instead of first.
BugViewStatusLast(t) ==
  /\ view[t].pc = "journal"
  /\ view' = [view EXCEPT ![t].pc = "done",
                          ![t].status = proposal[t].status,
                          ![t].receipt = (view[t].status = "COMMITTED")]
  /\ UNCHANGED <<next, cred, proposal, commits, adds, revokes>>

ViewJournal(t) ==
  /\ view[t].pc = "journal"
  /\ view' = [view EXCEPT ![t].pc = "done", ![t].receipt = Journalled(t)]
  /\ UNCHANGED <<next, cred, proposal, commits, adds, revokes>>

\* The answer leaves; the caller may poll again.
ViewReturn(t) ==
  /\ view[t].pc = "done"
  /\ view' = [view EXCEPT ![t] = NoView]
  /\ UNCHANGED <<next, cred, proposal, commits, adds, revokes>>

Provisioning ==
  \/ \E p \in Participant, k \in Key : Activate(p, k) \/ AddRead(p, k)
  \/ \E r \in adds : AddInsert(r) \/ AddFail(r)
  \/ \E k \in Key : RevokeRead(k)
  \/ \E r \in revokes : RevokeUpdate(r) \/ RevokeFail(r)

Transactions ==
  \/ \E c \in commits : CommitWrite(c) \/ CommitFail(c)
  \/ \E t \in Proposal :
       \/ \E parties \in SUBSET Participant : Propose(t, parties)
       \/ \E k \in Key : AddEvidence(t, k)
       \/ CommitCheck(t)

Discovery ==
  \E t \in Proposal :
    ViewProposal(t) \/ ViewEvidence(t) \/ ViewJournal(t) \/ ViewReturn(t)

Next == Provisioning \/ Transactions \/ Discovery

Spec == Init /\ [][Next]_vars
-----------------------------------------------------------------------------
(***************************************************************************)
(* Properties                                                              *)
(***************************************************************************)
\* Every variable has its type; a request in flight holds a sequence that
\* the community really had.
TypeOK ==
  /\ next \in Nat \ {0}
  /\ cred \in [Key -> Credential]
  /\ proposal \in [Proposal -> ProposalState]
  /\ commits \in SUBSET [proposal : Proposal, sequence : 1 .. next]
  /\ adds \in SUBSET [owner : Participant, key : Key, sequence : 1 .. next]
  /\ revokes \in SUBSET [key : Key, sequence : 1 .. next]
  /\ view \in [Proposal -> View]

\* A device that was added and not revoked can sign the very next commit,
\* "not one cycle later", however many commits happened between the read of
\* the sequence and the insert.
ActiveIsEligible ==
  \A k \in Key : Registered(k) /\ ~Revoked(k) => Eligible(k, next)

\* An exchange that carries a signature of a revoked credential, and whose
\* commit is not under way.
FailsClosed(t) ==
  /\ proposal[t].status = "PROPOSED"
  /\ \A c \in commits : c.proposal # t
  /\ \E k \in proposal[t].evidence : Revoked(k)

\* Such an exchange "fails closed forever" (patch:792-793): whether it was
\* proposed or signed before or after the revocation, however old the sequence
\* is that the revocation recorded, and whatever commits since, no commit of it
\* is begun again.  One that was evaluated before the revocation may still be
\* written.
RevokedFailsClosed ==
  [][\A t \in Proposal : FailsClosed(t) => FailsClosed(t)']_vars

\* Of several concurrent revocations of a credential one counts: the recorded
\* sequence is final, so the question "was this credential valid at S" has
\* one answer for ever.
RevocationIsFinal ==
  [][\A k \in Key : Revoked(k) => cred'[k] = cred[k]]_vars

\* A client that lost the commit response polls the status view.  When it
\* says COMMITTED, the receipt is there and every party is listed as having
\* signed, although the three reads see three states.
CommittedViewIsComplete ==
  \A t \in Proposal :
    view[t].pc = "done" /\ view[t].status = "COMMITTED" =>
      view[t].receipt /\ view[t].authorized = proposal[t].parties
=============================================================================
