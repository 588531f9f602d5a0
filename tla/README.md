# STIR deployment: models, checks and proofs

This directory specifies the program logic of `stir-main`, the repository that
deploys STIR: its scripts, its compose files, the bootstrap of its private
ledger, the osTRIS patch it carries and the drivers with which it tests an
economic exchange, the marketplace, community governance and key custody. The
backends themselves (STIR, osTRIS, the Shell, Seven Keys, the Ledger) are other
repositories; where a module needs one of them, it says "External" and models
what the code here requires of it.

Everything is TLA+ checked with TLC on small instances; the theorems are
checked with TLAPS for all instances.

## 1. Inventory

| Component | State it keeps | Operations | What makes it hard |
|---|---|---|---|
| Backup (`scripts/backup.py`) | `.local/backups/<stamp>/{postgres.sql, minio_data.tar.gz}` | start, dump, archive, prune | runs against a live stack; any command may fail; cron overlaps with everything, a manual backup included |
| Restore (`scripts/restore.py`) | five schemas, `stir_audit`, the object volume, the running services | confirm, stop, drop, load, clear, extract, up | eight commands, no transaction around them; psql ignores errors; a writer that is not stopped |
| Backup rehearsal and routing (`backup_restore_e2e.py`, `multitenant.py`) | `COMPOSE_PROJECT_NAME` | route, destroy, verify | two ways of naming the same project |
| Deployment (`scripts/deploy.py`) | image tags, `stir-rollback/*:previous`, containers | tag, build, up, wait, smoke, roll back | partial builds, dependency failures, containers that stop meanwhile |
| Update (`scripts/update.py`) | git checkouts | pull, initialise, deploy | several repositories, each of which may refuse |
| Vendor pinning (`initialize.py`, `prepare_shell.py`) | `vendor/*`, `.local/secrets` | clone, heal, patch, generate | interrupted runs |
| Device lifecycle (`patches/ostris-0.4-…patch`) | credentials and their sequences, the community's `next_sequence` | activate, add, revoke, list, transaction status | sequence read and used in two statements; read committed; no lock between a commit and a revocation |
| Exchange under faults (`audit_ostris_fault_proxy.py`, `audit_economic_commit_e2e.py`, `economic_exchange_e2e.py`) | the proxy's mode; STIR's trade; osTRIS' journal and balances | activate, sign, commit, sync, inject | lost answers, time-outs, retries while the first request is alive |
| Security status probe (`audit_security_status_probe.py`) | the incidents are the verifier's, the exit status its own | poll, validate, conclude, loop | incidents change during a poll; answers of any shape; exceptions that are none of the expected ones |
| Ledger bootstrap (`deploy/idax-ledger/init_xrpl_network.py`, `init_anchoring_account.py`, `start_xrpl.sh`, `cold_restart_test.sh`) | key files and tokens, the nodes' configurations, the anchor's seed and address, the funding payment | create, configure, up, down, fund | runs killed anywhere and repeated; nodes that restart by themselves (`restart: unless-stopped`) and read what they find; a payment validated after its run gave up; an error that reads as "not funded" |
| Marketplace and community drivers (`smoke.py`, `marketplace_e2e.py`, `multitenant.py`, seven `*_e2e.py`) | nothing of their own; what they expect of listings, deals, references, ballots, evidence, consent, integrity cases | long fixed sequences of requests | requests that reach the service twice or late; days that end between two steps |
| Custody drivers (`market_integrity_e2e.py`, `webauthn_hardware_custody_e2e.py`, `governed_boundary_e2e.py`) | the authenticators' sign counters, the sequence read last, a request kept for later | bootstrap, ceremonies, proposals, signatures, suspension, rotation, recovery | counters and sequences that must stay in step over many requests; replays |
| Compose graph (`compose*.yml`) | containers, healthchecks | up, ps | dependency chain; no restart policies |
| Ledger checks (`xrpl_health.py`, `mirror_platform_tenant.sh`, `ledger_integration_e2e.py`) | none | read, one idempotent insert | none of their own |
| Release gate (`release_gate.sh`, `flyway_matrix.sh`) | the topology under test | switch, restore | a switch back that fails |
| Container entry points and SQL provisioning | none | exec, idempotent statements | none of their own |
| Browser drivers (`*_browser*.py`), reports (`status.py`) | none | clicks, reads | none of their own |

How they interact: `update.py` calls `initialize.py` and `deploy.py`;
`deploy.py` uses the compose graph and `smoke.py`; `backup_restore_e2e.py`
calls `backup.py` and `restore.py` in an environment of its own; STIR calls
osTRIS over HTTP, in the fault topology through the proxy; osTRIS answers with
what the patch's services read from its database; the e2e drivers go through
`smoke.py`'s `request` to one API. The two ledger scripts share no file, but the
second one needs the network that the first one configured and `start_xrpl.sh`
started. Nothing locks: every script may run while every other one does, and two
backups at once. Where a model has less, it is an assumption that no code ensures:
one restore at a time (an operator confirms it at a prompt), no two backups
started within one second (they would share a directory), one run at a time of
`deploy.py` and of each initialisation (an operator starts them).

What makes each of the modelled components correct:

* a finished backup is restorable, whatever was written while it ran, and one
  such backup stays on disk whatever fails afterwards, as long as no run ends
  after `--keep` later ones were started;
* a restore brings back one backup, in which the services it stops have no part,
  in one project and no other, and never leaves governed data without its audit
  events;
* a deployment ends; it passes only with the version it built everywhere; a
  rollback brings back what ran before it;
* a device that is added can sign the next commit; with the signature of one that
  is revoked no commit begins any more (one evaluated before may still be
  written); a status report of COMMITTED is complete;
* an exchange is committed at most once, moves the balances exactly then, and
  is reported by STIR when, and only when, osTRIS has committed it;
* an initialisation that succeeds leaves the pinned files and whole patches,
  whatever earlier runs left behind, and a repeated one touches nothing;
* the probe says CLEAR only if at some moment no incident was open, and
  CRITICAL if one was open all the time;
* after any killed runs, two nodes of the ledger never trust different keys; a
  run that finished leaves every node all it needs; money only goes to an
  account whose seed is on disk, and goes there once unless a run gave up before
  it saw its payment or took an error for an account without money;
* a driver's answer does not depend on which of its repeatable requests reach the
  service twice, nor, but for three drivers, on midnight, nor, but for two, on a
  refused request that comes back; no vote, signature, suspension or execution
  counts twice; a seat has one credential at a time.

`PROJECT.json` lists every component and every hazard with its line.

## 2. Modules

| Module | Models | Used by |
|---|---|---|
| `BackupRestore` | `backup.py`, `restore.py`, the writes that go on meanwhile, the two project names | `MCBackupRestore`, `BackupRestore_proofs` |
| `Deploy` | `deploy.py`, the part of `compose up`/`ps` it relies on, the source `update.py` brings | `MCDeploy`, `Deploy_proofs` |
| `VendorPin` | the loop of `initialize.py` over the lock file, `prepare_shell.py` | `MCVendorPin`, `VendorPin_proofs` |
| `SecurityProbe` | `audit_security_status_probe.py` | `MCSecurityProbe`, `SecurityProbe_proofs` |
| `CredentialLifecycle` | `ProvisioningService` and `DiscoveryService.transaction` of the patch | `MCCredentialLifecycle`, `CredentialLifecycle_proofs` |
| `Settlement` | abstract: what two users are promised | `ExchangeCommit` |
| `ExchangeCommit` | drivers, proxy, STIR's and osTRIS' part in a commit | `MCExchangeCommit`, `ExchangeCommit_proofs` |
| `LedgerBootstrap` | both initialisation scripts of the ledger, compose up and down, the nodes and the validation of the payment | `MCLedgerBootstrap`, `LedgerBootstrap_proofs` |
| `Marketplace` | external: accounts, listings, negotiations, agreements | `References` |
| `References` | external: references, ordinary governance, evidence, consent, retention, integrity, independence | `CommunityDrivers` |
| `SevenKeys` | external: seats, credentials, the constitution and its proposals | `CustodyDrivers` |
| `Constitution` | abstract: what Seven Keys promises a community | `SevenKeys` |
| `CommunityDrivers`, `CustodyDrivers` | the thirteen e2e drivers, step by step | `Governance` |
| `Governance` | composition: a driver, the services, requests delivered again, midnight | `MCGovernance`, `Governance_proofs` |

A property of a run is broken, one by one, by the `Bug…` operators that stand
before the definition they change: each is the definition with one plausible
mistake.

### BackupRestore

One variable per thing on disk: `rows` (the five schemas), `audit`
(`stir_audit`, which restore never drops) and `objects` (the volume), per
project, and `laid`, whether the schemas exist and are granted; `dir`, the content
of each backup directory; `backup[r]`, where the process of run `r` is, so that
runs overlap and prune each other's directories, and `restore`, where that
process is. One action per command of the scripts. `Target` is the
project `docker compose` resolves to, `VolumeOwner` the one whose volume the
scripts mount by name: equal in normal use, different under
`backup_restore_e2e.py`. An upload stores its object before its row
(`PutObject`, `InsertRow`); `BackupTar`/`BackupTarDone` bracket the walk of
`tar`, which sees any part of what changes meanwhile. `BackupFail` and
`RestoreFail` end a script at any command; an interrupted `psql` or `tar`
leaves a part of its work (`RestoreLoadPart`, `RestoreExtractPart`).

`up` is about the eight services that `restore.py` stops. `governed-verifier` is not
one of them, so that `GovernedWrite` goes on while the schemas exist; and
`ComposeUp`, of `deploy.py` and `update.py`, starts everything and migrates the
schemas whatever the restore is at, after which the load may be rejected in part.
A directory that was pruned under a backup or a restore is made again, empty, by
the `docker run -v` that mounts it.

Two abstractions: a row that refers to a photo carries its name; a photo is
never deleted by the application. `intact` and `dir[r].steady` are history
variables that say whether a half-done restore was visible to a backup;
`completed` says that some backup has finished, `overtaken` that one ended after
`Keep` later ones had started.

### Deploy

An image is the source version it was built from. `latest` is the tag compose
runs, `prev` the `stir-rollback/*` tag, `running` the image of the container.
`up -d` is three actions: `UpCreate` recreates what changed, `UpStart` starts a
service whose dependencies are healthy, `UpDone` or `UpRaises` ends it.
`Settle` and `Exit` are the containers' own. `RetagHits` says whether the name
that `rollback` tags is the one compose runs: TRUE with `--prod`, FALSE in
development, where it tags `stir-main-<service>` for a project called
`stir-dev`. Failures of `docker tag` (`check=False`) are not modelled.

### CredentialLifecycle

`cred[k]` is a credential with its binding, `next` the community's
`next_sequence`. Because the isolation level is read committed, `addCredential`
and `revokeCredential` are two steps each, the read of the sequence
(`AddRead`, `RevokeRead`) and the write (`AddInsert`, `RevokeUpdate`), with any
commits in between; `DiscoveryService.transaction` is three reads. Requests
with equal content that are in flight together are one element of a set, which
is enough: the second write of a key is refused either way. Proposals,
signatures and commits are osTRIS' own and modelled as the patch's device
lifecycle test uses them: a signature by any key that verifies is accepted, a
commit is refused when a signer's credential is not eligible
(`activation < S`, and `S < revocation` when revoked). The test's own comment
(patch:658-663) describes a commit as several statements that are flushed at its
end, and a revocation takes no lock against it, so a commit is two steps:
`CommitCheck` evaluates it at the sequence `S` of then, `CommitWrite` writes it
later, whatever was revoked meanwhile. One thing is assumed of osTRIS: of several
commits evaluated at one sequence one is written, since a community gives a
sequence once.

### ExchangeCommit and Settlement

A commit is a record with two halves, STIR's (`waiting` or not) and the
proxy's (`arrived`, `injecting`, `forwarding`, `returning`): STIR may give up
while the proxy still holds the request, which then reaches osTRIS after
STIR's retry. `Slot` bounds how many commits of one agreement are alive. The
proxy's `ProxyTake` is the critical section of the fault mode. osTRIS'
`OstrisCommit` is one transaction: a repeat, a refusal, or a journal row with
both balances.

`Settlement` has two steps, `Settle` and `Learn`. `ExchangeCommit` implements
it with `settled` the agreements in the journal and `known` the trades that
STIR shows as COMMITTED (`Settles`).

### VendorPin

A clone is what git keeps of it: the commit of `HEAD`, the index, the files and
whether anything is untracked; commit 0 stands for files that are missing or of
several commits. `pc` is the next git command of a run, `todo` and `left` what
its loops still have to visit. `Fail` ends a run at any command,
`CheckoutCut` and `ApplyCut` in the middle of one. Between two runs the lock
and the patches change (`Pull`) and a clone is edited (`Edit`). What `git
apply --check` finds out is `AlreadyApplied` (it looks at the files) and
`Applies` (it compares the files of the patch with the index). The origin
check and a fetch that fails are `Fail`.

Abstractions: the patches of one repository touch different files, as those of
osTRIS do, and only revisions of the same patch are in each other's way; a pin
never goes back (`PinAssumption`); git writes the index and `HEAD` at once at
the end of a checkout; a lock file that a killed git leaves is not modelled.

### SecurityProbe

`Answer` is everything a request can get: failures by the exceptions they
raise, and objects by the kinds of the two fields. `parse_security_status` and
`poll_once` are functions of it, with the conditions of the code in their
order. `WellFormed` is the contract of the docstring, against which they are
checked. The state machine adds the incidents that come and go and the loop,
in which a status is overwritten by the next poll's and only an exception ends
the process. The endpoint is external: its well-formed answers are true at the
moment they are given, all others are possible at any time. `seen` is the
history of the poll.

### LedgerBootstrap

`init_xrpl_network.py` has two loops. The first one (`NetKeys`) makes the keys
that are missing and reads them all, the second one takes, node by node, a new
token (`NetToken`) and writes `xrpld.cfg` (`NetConfig`), `validators.txt`
(`NetUnl`) and the mode (`NetChmod`). `NetKilled` ends it anywhere; a file that
was being written is then cut off. A node that is wanted (`up`) starts with the
files it finds (`Boot`), stops at any time (`Stop`) and comes back; without
whole files it does not come up. Ledgers are validated while all validators run
and trust the same keys.

`init_anchoring_account.py` is one action per call or file: the seed's file
exists before it has its content (`FundOpenSeed`, `FundWriteSeed`), and every run
empties `address.txt` before it writes it again (`FundOpenAddress`,
`FundAddress`); the account's balance, the paying account's sequence and the last
ledger are read in three calls (`FundInfo`, `FundRoot`, `FundServer`), between
which ledgers are validated; the first of them takes any error for "not funded";
`FundSubmit` may succeed without an answer; `FundSeen` sees the payment validated
with success, `FundRefused` with another result (`failed`), `FundKilled` is
everything else. A payment is validated at most once per sequence number and not
after its last ledger. `netRuns`, `fundRuns`, `unseen` (runs that submitted and did
not see the end) and `misread` (runs that took a funded account for an unfunded
one) are history. `validator-keys` and `xrpld` are external.

Abstractions: a key file has one key, numbered; a token is its number in the key
file; keys and configurations live in one directory that nobody else writes.

### Governance and the drivers

A driver is a sequence of steps (`CommunityDrivers`, `CustodyDrivers`): a
request, who makes it, and the answers it accepts; or a question whose answer it
compares. `Governance` runs one of the thirteen, chosen at the start, against
the services. `Drive` sends the next request and stops at an answer the driver
does not accept (`pc = 0`); custody requests are made from what the driver
remembers, that is the authenticators' counters (`used`), the sequence it read
(`seen`) and a request it kept (`kept`). `Redeliver` lets any request that was
sent reach the service again, at any later moment; only accepted ones when
`late` is FALSE. `Midnight` ends a day. Delivered again are the requests that some
driver itself sends a second time (`Repeatable`), so that the answer is the
service's and not the model's: the bootstrap, a signature, an execution, a
suspension; the edit and the close of a listing, a vote, a withdrawal, an
anonymisation, a question to osTRIS. Of all other requests nothing is said:
creations, proposals, versions of a policy or of terms, settings, enrolment,
retention, a publication, the start of a vote, a decision, a counter offer, an
acceptance, a refusal.

The services are models of what the drivers observe, and of nothing else: an
answer is its HTTP status, and a refusal stands where the drivers' expectations
put it among the others. Three rules are written down although no step of a driver
tells them apart: a credential is registered and a proposal's identifier used once;
no amendment while a seat is suspended (the motion of `market_integrity_e2e.py:86-87`
has no signatures at all; its closing line claims the freeze); a counter offer, an
acceptance or a refusal made from an older version of a negotiation is refused, as
the edit of a listing is. No property of the requests delivered again rests on
them; `Constitutional` does on the first two. What no driver sees (paging, texts, hashes, the
cryptography of a signature beyond "made by this key over this text with this
counter") is not there. In `SevenKeys` a proof is a key, a text and a count; a
seat has one credential, a suspended one signs nothing, a recovery brings a new
credential and keeps the controller; every execution and suspension increases
`next`, an executed amendment `version`. In `References` the evidence of a day (`snapshot`), the
agreements it includes and those it excludes, is computed when it is first asked
for and kept until the day is over. One
definition stands for those of a tenant; time passes in days.

`Constitution` is what a community sees of Seven Keys: seats with a voice each,
motions, assents, one silent seat at most, a guardian. It has no credentials,
signatures, counters, sequences or refusals. `SevenKeys` implements it
(`Constitutional`) with these values: the voice of a seat is its one credential
that is not revoked (`Live`), the silent seat the one whose credential is
suspended, a voice is lost with the revocation of its credential, a motion is a
proposal and an assent a signature. Registrations, questions and refused
requests are stutters. What a step of `Constitution` demands, the detailed module
checks in other places and at other moments: that a silent seat does not assent
is a test of the credential's status at the signature; that an amendment has all
seats and finds none silent, a count at the execution.

## 3. Runs

| Run | Question | Bounds and why they are enough |
|---|---|---|
| `BackupRestore` | Are backups restorable, does one always stay, and do the stopped services stay out of a restore, with writers, failures and both scripts at once, backups twice? | three runs under `Keep = 2` overlap, fail and prune each other in every order, two of them with a photo and an event that can fall on either side of every command, the third beside data one at a time (`LittleAtOnce`) |
| `Deploy` | Do deployments end, pass with what they built, and roll back to what ran? | one service of each kind (waited for, smoke-tested, without healthcheck, not listed); three versions, so that two consecutive deployments can fail |
| `LedgerBootstrap` | Do trust lists agree, does a finished run leave all that is needed, is the account paid once, whatever is killed? | two validators (disagreement needs two) and the API node, two wallets (a lost seed shows as a second wallet); three runs of each script, so that one follows two killed ones; four ledgers and payments valid for one, so that a payment is validated in time, late or never and repeated. While the network is configured again, one ledger and one run of the other script (`FewRuns`): the scripts share no variable |
| `Governance` | Do the thirteen drivers pass with requests delivered again and a day that ends? Is any of the requests that drivers repeat accepted twice? Does Seven Keys implement the constitution it stands for? | the drivers' own seats (seven), removal quorum (five), users and deals; one midnight, at any moment; any number of redeliveries |
| `VendorPin` | Does a successful initialisation leave what the lock says, whatever was cut off before? | one repository of each kind (must stay clean, looked at by nobody, two patches of which one adds files); a pull that changes a patch only and one that changes pins only |
| `SecurityProbe` | Does the conclusion follow the contract, and is it true? | every shape of an answer; counts -1 to 2, on both sides of every comparison; up to two incidents, so that they come and go during a poll |
| `CredentialLifecycle` | Do stale sequences ever let a revoked device begin a commit, or keep a new one from it? Is a COMMITTED view complete? | two participants, a spare key, two exchanges (one commit before and one after a stale read), two requests in flight |
| `ExchangeCommit` | Does the faulty path implement the atomic settlement? | three agreements of both directions, two of which compete for the same credit floor unless the third commits first; two commits alive at once, of one agreement or of two; one fault |
| `ExchangeLiveness` | Is every commit found again and every signed exchange decided? | the two competing agreements, one commit of each at a time, two faults |

Runs that are expected to end in a counterexample, each a disagreement between
the code and something the repository says:

| Run | Code | Statement it contradicts |
|---|---|---|
| `BackupRestoreIsolatedFinding` | the volume commands use `stir-dev_minio_data` whatever the project | every command "is now explicitly scoped to STIR_COMPOSE_PROJECT" |
| `DeployRaisedFinding` | `up -d` raises on an unhealthy dependency and no rollback follows | "rollback … if anything is unhealthy" |
| `SecurityProbeFinding` | a body that is cut off raises `IncompleteRead`, which nobody catches: exit status 1 | "exit 1 = CRITICAL_SECURITY_INCIDENT" |

What else the models show, for which no run is kept:

* `RestoredIsBackup` with `BackupRestore.cfg` is violated: `restore.py:43` stops
  eight services and not `governed-verifier` (`compose.yml:77-97`), so that what
  that service writes after the load stays among the restored data, although the
  script "replaces current data with the backup's" (`restore.py:3`). The proxy in
  front of it is stopped: what remains are requests from inside the compose
  network. `StoppedServicesStayOut` is what holds.
* `WholeBackupSurvives` without `~overtaken` is violated: with a small `--keep` a
  run that ends after later ones have started removes its own directory, and when
  the later ones fail no whole backup is left.
* A commit that osTRIS evaluated before a revocation may be written after it, so
  that the journal may hold a commit that is not below the recorded revocation of
  its signer. `RevokedFailsClosed` is what holds.
* `Deploy.cfg` with `RetagHits = FALSE` violates `RollbackRunsPrevious`: in
  development the rollback tags `stir-main-<service>` and compose runs
  `stir-dev-<service>`, against "rollback to the previous images"
  (`deploy.py:57`).
* `UnexpectedIsRejected` with `VendorPin.cfg` is violated: git is asked about the
  files of the patches only, although the script "rejects unexpected tracked or
  untracked source". A clone of `idax-shell` without any files is accepted when
  its `HEAD` is the pin.
* `TokensKept`, as a PROPERTY with `LedgerBootstrap.cfg`, is violated: every run
  asks for new tokens and writes them, although tokens that exist are "never
  regenerated" (`init_xrpl_network.py:11`).
* `Cardinality(applied) <= 1` does not hold: the account's balance is read at
  `init_anchoring_account.py:60` and the paying account's sequence at `:71`. A
  payment of an earlier run that is validated in between is followed by a second
  one. A run that meets an error of `account_info` on a funded account pays again
  too: `rpc` does not raise for it (`:28`), and an answer without account data reads
  as not funded (`:60-61`). `PaidOnceUnlessUnseen` is what holds.
* A run killed at `init_anchoring_account.py:58` leaves `address.txt` empty, also
  of an account that was funded long before; the next run writes it again.
* A run killed at `init_anchoring_account.py:55`, between the creation of the
  seed's file and its content, leaves an empty seed, with which every later run
  fails until somebody removes the file.
* `cold_restart_test.sh:20-27` goes on when the network has not converged after
  36 polls: the result of its loop is not looked at.
* Three drivers fail when a day ends under them (`community_references_e2e.py:74`,
  `community_value_governance_e2e.py:61, 84`, and
  `participant_independence_e2e.py:131`, whose agreement is one of a related
  cluster after a midnight), and two when a request that was refused comes back
  after a later step has made it good (`market_integrity_e2e.py:71`,
  `governed_boundary_e2e.py:79`). `Answered` names them; of the other drivers it
  says that neither happens to the questions and answers that are modelled.
* A stopped container has no row in `compose ps` without `-a`, so `healthy()`
  never meets the `Exit` it looks for (`deploy.py:44-47`).
* A second deployment after a failed one tags what runs then as the previous
  version, the images of the failed one included (`deploy.py:39`): a rollback
  goes back to what ran before *this* deployment, which is what
  `RollbackRunsPrevious` says, and not to the last that passed.
* `restore.py` leaves `stir_audit` as it is, so the audit log may be younger than
  the restored data (which `GovernedRowsAudited` relies on).

`CHECK_DEADLOCK FALSE` everywhere: once the bounded source versions, runs,
photos, payments or commits are used up, or a driver has made its last step, the
system rests, as it does between two invocations of its scripts.

### Fairness

`Deploy`: a step of a deployment in progress is taken in the end (`up` waits
only for healthchecks, which have bounded retries; `wait_healthy` has a
deadline), and a healthcheck settles. Starting a deployment and the exit of a
container are not fair.

`ExchangeCommit`: weak fairness for each handler thread of the proxy, for
`sync` and for the driver's repeated commit (`run_exchange` goes on after a 503;
its `aftercommit` branch ends in `sync`), and strong fairness for osTRIS being
reached, since a lost request disables the step again and again. No fairness
for the fault injection, lost requests or STIR's time-out. `Spec`, without
fairness, carries all safety properties.

## 4. Proofs

Eight modules hold proofs. Between them they state every invariant, action
property and refinement that a passing run checks, except `Answered` of
`Governance`, for all values of the constants; `PROJECT.json` lists the theorems
with the properties. In each case TLC first checked the inductive invariant. Two
theorems state action properties that stand beside them in the proof modules and
that no run of section 3 lists: `DeploymentProgresses` and `DecisionsAreFinal`; TLC
found no violation of them within the bounds of `Deploy.cfg` and `Governance.cfg`.

`CredentialLifecycle_proofs` proves for any sets of participants, keys and
proposals, and any number of concurrent requests:

* `TypeCorrect`, `ActiveCredentialsSign`, `RevokedStaysClosed`,
  `RevocationStays` and `CommittedViews`, that is `TypeOK`, `ActiveIsEligible`,
  `RevokedFailsClosed`, `RevocationIsFinal` and `CommittedViewIsComplete` of the
  specification.

The invariant is `IInv`: types; every activation is below `next` and every
revocation at most `next` (`SequencesBehind`); a revoked credential exists
(`RevokedExist`). The second part is what a stale read needs: a sequence read
earlier is at most `next` now, since `next` only grows, so `sequence - 1` is
below every later commit and a recorded revocation never above `next`: that is why
no commit with its key is begun any more (`RevokedStay` keeps the revocation and
the signature).
`CommittedViews` needs a second one, `VInv`: a proposal that is journalled, or
evaluated and under way, is signed by exactly its parties (`EvidenceComplete`); a
commit under way is of a proposal that exists (`CommitsProposed`); and a view that
has read COMMITTED is behind a state in which that was so (`ViewBehind`). Its
later reads find it still, because signatures, owners and commits stay
(`SignersStay`, `OwnersStay`, `CommittedStay`). The assumption used is
`NobodyAssumption`.

`SecurityProbe_proofs` proves, for any integers an answer may carry and any
number of incidents, `TypeCorrect`, `ClearIsSafe`, `IncidentsSurface` and
`ContractOfFailures`, that is all the invariants of its run. The argument is
the lemma `Verdict`, the contract of one answer by cases, and the invariant
`PInv`: the number of open incidents is among those `seen` while the request is
out, so a well-formed answer's count is too, and a conclusion is `poll_once` of
the last answer. The assumptions are `CountsAssumption` and
`MaxOpenAssumption`.

`ExchangeCommit_proofs` proves, for any agreements, users, credit floor, any
number of faults and of commits of one agreement in progress:

* `OneFaultOneHit`, that is `FaultsHitOnce`. Its invariant `FInv` adds what a
  second thread could break: while a fault is in the mode, fewer commits have
  been hit than faults armed, so the thread that takes it is the only one it
  hits.
* `ReceiptsAreGenuine`, that is `ReceiptIsJournalled`. Its invariant `RInv` adds
  that a receipt under way, not only a recorded one, names a row of the journal
  that is of its agreement; the journal only grows (`RowsStay`), so an answer
  that arrives late, after other commits, still names that row.

* `ExchangeSettles`, that is `Settles`: the specification implements
  `Settlement` with the mapping of section 2. A commit that osTRIS accepts is a
  `Settle` (`PostSettles`), a receipt that STIR records is a `Learn`
  (`RecordLearns`), which needs `RInv` for the row to be there; every other step
  is a stutter.
* `TypeCorrect`. Its invariant `TInv` adds to `RInv` that a trade has a receipt
  only when committed, and the types of the ledger.

`TypeCorrect` uses `AgreementAssumption` and `FaultAssumption`, the others none.

`BackupRestore_proofs` proves, for any projects, photos, events, `Keep` and
number of runs:

* `TypeCorrect`, `RestoresAreOfWholeDumps`, `RowsStayAudited` and
  `PruneLeavesWhole` (`WholeBackupSurvives`), from `Base`, with any number of
  backups at once: the place of a run fixes which of its two files are whole
  (`DirFiles`); what a dump holds is audited (`DumpsAudited`), and audit events are
  never removed. The last rests on `Survival`: while fewer than `Keep` runs were
  started after a run, no prune removes its directory (`PruneKeepsRecent`), so its
  files are as its own place says (`InTime`); and a prune, of whichever run, leaves
  the newest directories, among which some whole one is.
* `StoppedServicesAreOut` and `BackupsAreClosed`, under `Routed`, that is
  `Target = VolumeOwner`: the scripts talk to the project whose volume they
  mount by name. Without it both are false, which is what
  `BackupRestoreIsolatedFinding` shows. `Scoped` adds to `Base` what is known of
  rows and objects at each place of the restore while nobody starts the stopped
  services (`Quiet`, `StillOut`), and that outside one every row's object is there
  (`Closed`).

`Deploy_proofs` proves, for any services, dependencies and versions,
`TypeCorrect`, `PassedIsBuilt` and, under `RetagHits`, `RollbackIsToPrevious`
(without it the run described in section 3 is a counterexample). The invariant
says for each place of the script which version images and containers have: the
tags are what ran before (`TagsAreBefore`), going forward it is the version just
built (`ForwardBuilt`), going back the tagged one (`BackwardTagged`).

`DeploymentProgresses` is the part of `DeployEnds` that needs no fairness: every
step of a deployment leaves less to do (`Advances`: a later place of the script,
or one container less to start), and neither new source nor a container that
settles or stops leaves more (`Holds`). So a rollback is tried once, and after its
tags a deployment has at most nine steps and two more for each service. That it
takes them remains with TLC: `up` waits for healthchecks, which is fairness.

`LedgerBootstrap_proofs` proves, for any validators, wallets, windows and number
of runs, `TypeCorrect`, `TrustAlwaysAgrees`, `FinishedRunsAreComplete`,
`FundedAccountsHaveSeed`, `ReportsAreTrue` and `PaidOnce`. The scripts share no
variable, so there is one invariant for each: `NetInv` (the keys read are the
keys on disk; a trust list that exists is all of them, since none is written
before every key was made; what the second loop has passed is complete) and
`FundInv` (past the file's writing the seed is the run's wallet's for ever, past the
address' writing the address too, until the next run empties it: what is paid for
is the seed, not the address). `PaidInv` counts: each payment beyond the first has
a run that lost sight of one or misread a funded account (`Blind`), which needs
that a payment that failed is never validated again, its number being used
(`Numbered`). The assumption is `LedgerAssumption`.

`VendorPin_proofs` proves, for any repositories, lock files, patches and number
of interrupted runs, `TypeCorrect`, `SuccessfulRunsPin`, `HealedClonesAccepted`
and `RightClonesStay`, that is `TypeOK`, `SuccessIsPinned`, `HealedIsAccepted`
and `RerunTouchesNothing`. `IInv` joins three things: what an interrupted run can
leave in a clone (`Sound`: files of no commit or of `HEAD`, halves only of
patches that were wanted for that `HEAD`); what the loops have established of
what is behind them (`LoopInv`); and that a clone healed in this run will pass
the checks to come (`FreshInv`). The assumptions are those of the module. The one to know is
`FileAssumption`: the patches of one release touch different files, and no file
of a patch goes away while the pin stays. Were a patch dropped without a new pin,
its files would stay in the clone and the next success would not be of the lock's
content.

`Governance_proofs` proves, for any seats, quorum, accounts, permissions,
identifiers and days, `TypeCorrect`, `SeatsAlwaysKeepOneKey`,
`NothingAcceptedTwice` and `ConstitutionHolds`, that is `TypeOK`,
`SeatsKeepOneKey`, `AcceptedOnce` and `Constitutional`, and two theorems more, `Inductive` and `DecisionsAreFinal`.
None of them is about what a driver sends: `StepSet` and `Requests` are the steps
and requests of the right form, `ScriptsFit` shows, script by script, that the
thirteen drivers make only such steps, and from there on any request may follow
any other. `IInv` has three parts.

* `KeysInv`: with a constitution every seat has exactly one live credential and
  two suspended ones are the same (`OneKey`); without one nothing has happened;
  only seats' credentials and replacements have a seat. The last is what a
  rotation needs: the credential it brings was nobody's, and the guardian's is no
  seat's. The guardian's credential is never suspended or revoked: without that, its
  removal would take a voice out of those that are lost. A count of credentials would not be inductive for the provers;
  `Counting` derives it at the end.
* `CommunityInv`: types, with what a handler reads of another part: a deal is
  about a listing that exists, votes are on a roll, a case is about an
  observation.
* `DriverInv`: every request that was accepted, of those that drivers repeat, is
  `Spent` or idempotent. `Spent` says, for each of these routes, what the service
  itself remembers of an accepted request: a constitution, a signature among those
  of its proposal, a sequence that is over, a version that was passed, a vote in
  the ballot, names that are forgotten. Three facts carry the proof: what
  is accepted is spent (`KeysSpend`, `CommunitySpend`), what is spent is refused
  (`KeysRefuse`, `CommunityRefuse`), and no request of anybody makes it good again
  (`KeysRemember`, `CommunityRemembers`, from what only ever grows:
  `KeysProgress`, `CommunityProgress`).

`ConstitutionHolds` maps each accepted request to one step of `Constitution`: the
bootstrap to `Found`, a proposal to `Move`, a signature to `Assent`, an execution
to `Amend`, `Recover` or `Remove`, a suspension to `Silence`
(`BootstrapFounds` to `SuspensionSilences`, joined in `ServeIsLawful`). `OneKey`
is what a signature needs: the seat's one live credential is not suspended, so the
seat is not silent. `RotationEffect` is what a recovery needs: a rotation replaces
one credential of one seat by a credential that was nobody's, and nothing else.

`DecisionsAreFinal` collects what no order of requests takes back in the service as
it is modelled. That a revoked credential stays revoked is read off `Constitution`
(`LostStays`), the rest off the handlers (`ExecutedStays`, `ConcludedStays`,
`CommunityProgress`, `WithdrawalProgress`).

The assumptions are those of the modules: `SevenKeysAssumption`,
`MarketplaceAssumption`, and `FixtureAssumption` and `CustodyAssumption`, that the
accounts, roles, seats and identifiers which the scripts name exist.

Only model-checked: `Answered` of `Governance`, which holds because of what each
driver has done before each of its steps, so that a proof would execute the
thirteen scripts under every repetition; and the liveness properties `DeployEnds`, `Reconciled` and
`Decided`, which rest on fairness and `ENABLED` and are out of the provers' reach.

## 5. Not modelled

* The backends, beyond the parts named External above. In particular the service
  modules under `Governance` say nothing of the services but what the drivers
  require: a property that holds there holds of every service the drivers accept
  in these respects, not of a particular one.
* Of the drivers: the database roles and secret mounts that
  `governed_boundary_e2e.py:200-221` and `multitenant.py:146-169` look up (the
  database's catalogue, no step of a protocol), and the creation of fixtures that
  no later step tells apart.
* The browser drivers: the same requests by way of a user interface that is in
  another repository.
* `initialize.py:44-70`, the generation of local secrets: a file, one write. A run
  killed between both leaves an empty secret that later runs keep.
* `release_gate.sh`, `flyway_matrix.sh`: gates in a row, each of which ends the
  script. The one switch of topology is undone by three commands, and the health
  of the container is asked for afterwards (`:75`).
* `status.py`, `xrpl_health.py`, `mirror_platform_tenant.sh`,
  `ledger_integration_e2e.py`: reports, one idempotent insert, and a driver that
  waits for a service of another repository.
* The git checks of `update.py`; entry points, networks, environment and SQL
  provisioning of the containers.
* Crash of the Docker daemon or of the host in the middle of a container
  command.

## 6. Plan

Done, in the order of importance: `BackupRestore`, `Deploy`,
`CredentialLifecycle`, `ExchangeCommit` with `Settlement`, `VendorPin`,
`SecurityProbe`, `LedgerBootstrap`, `Governance` with the drivers and the
services they fix, `Constitution`, and the proofs of section 4.

Left:

1. `Update`, the composition of `VendorPin` and `Deploy` along `update.py`:
   nothing is built from sources that were not pinned.
2. `ReleaseGate`, the switch to the fault topology and back with every command
   failing: a gate that passes has run every check against the topology it names.
