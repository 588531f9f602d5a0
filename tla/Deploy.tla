------------------------------- MODULE Deploy --------------------------------
(***************************************************************************)
(* scripts/deploy.py: tag the running images as `previous`, build, `docker *)
(* compose up -d`, wait for health, smoke test, and roll back to the       *)
(* `previous` images when a check fails.  An image is its source version;  *)
(* version 0 is "no image".                                                *)
(*                                                                         *)
(* `up -d` first recreates the containers whose image changed and then     *)
(* starts them along the depends_on graph of compose.yml; it exits with an *)
(* error when a service that another one waits for turns unhealthy or      *)
(* stops.  `docker compose ps`, which the health check reads, lists the    *)
(* running containers only.                                                *)
(***************************************************************************)
EXTENDS Naturals

CONSTANTS
  Service,     \* services compose.yml builds from source
  Listed,      \* BUILT_SERVICES of deploy.py
  Checked,     \* services with a healthcheck
  DependsOn,   \* [Service -> services that must be healthy first]
  Smoked,      \* services the smoke test needs
  RetagHits,   \* rollback retags the name compose runs: `stir-prod-<service>`
  MaxVersion   \* bound: source versions

ASSUME ServiceAssumption ==
  /\ Listed \subseteq Service /\ Checked \subseteq Service
  /\ Smoked \subseteq Service
  /\ DependsOn \in [Service -> SUBSET Checked]
ASSUME ModeAssumption == RetagHits \in BOOLEAN /\ MaxVersion \in Nat \ {0}

VARIABLES
  src,       \* version of the source tree that a build would use
  latest,    \* [Service -> version of the image compose runs for it]
  prev,      \* [Service -> version tagged stir-rollback/<service>:previous]
  running,   \* [Service -> image of its container, 0 without a container]
  status,    \* [Service -> state of its container]
  pc,        \* where deploy.py is
  tags,      \* previous_tags: the services tagged by this deployment
  before,    \* ghost: running when this deployment began
  built,     \* ghost: source version this deployment built
  outcome    \* how the last deployment ended

vars == <<src, latest, prev, running, status, pc, tags, before, built, outcome>>
containers == <<running, status>>
images == <<latest, prev>>
ghosts == <<before, built>>

Version == 0 .. MaxVersion
Status == {"absent", "created", "starting", "healthy", "unhealthy", "running",
           "exited"}
Live == {"starting", "healthy", "unhealthy", "running"}
Place == {"idle", "build", "create", "start", "wait", "smoke", "retag",
          "recreate", "restart", "rewait"}

Init ==
  /\ src = 1
  /\ latest = [s \in Service |-> 0]
  /\ prev = [s \in Service |-> 0]
  /\ running = [s \in Service |-> 0]
  /\ status = [s \in Service |-> "absent"]
  /\ pc = "idle"
  /\ tags = {}
  /\ before = [s \in Service |-> 0]
  /\ built = 0
  /\ outcome = "none"

\* New source arrives (update.py's pulls, or an operator's).
Pull ==
  /\ pc = "idle"
  /\ src < MaxVersion
  /\ src' = src + 1
  /\ UNCHANGED <<images, containers, pc, tags, outcome, ghosts>>

TagCurrentAsPrevious ==
  /\ pc = "idle"
  /\ tags' = {s \in Listed : running[s] # 0}
  /\ prev' = [s \in Service |-> IF s \in tags' THEN running[s] ELSE prev[s]]
  /\ before' = running
  /\ outcome' = "none"
  /\ pc' = "build"
  /\ UNCHANGED <<src, latest, containers, built>>

Build ==
  /\ pc = "build"
  /\ latest' = [s \in Service |-> src]
  /\ built' = src
  /\ pc' = "create"
  /\ UNCHANGED <<src, prev, containers, tags, before, outcome>>

\* Mutant: the exit status of the build is not looked at.
BugBuildUnchecked(done) ==
  /\ pc = "build"
  /\ latest' = [s \in Service |-> IF s \in done THEN src ELSE latest[s]]
  /\ built' = src
  /\ pc' = "create"
  /\ UNCHANGED <<src, prev, containers, tags, before, outcome>>

\* A failing build raises; the images built before it keep their new tag.
BuildFails(done) ==
  /\ pc = "build"
  /\ latest' = [s \in Service |-> IF s \in done THEN src ELSE latest[s]]
  /\ outcome' = "raised"
  /\ pc' = "idle"
  /\ UNCHANGED <<src, prev, containers, tags, ghosts>>

(***************************************************************************)
(* `up -d`, for a deployment and again, with --no-build, for a rollback.   *)
(***************************************************************************)
\* Mutant: containers that exist are started, never recreated.
BugUpNoRecreate(from, to) ==
  /\ pc = from
  /\ running' = [s \in Service |-> IF running[s] = 0 THEN latest[s] ELSE running[s]]
  /\ status' = [s \in Service |->
                  IF status[s] \in {"absent", "exited"} THEN "created"
                  ELSE status[s]]
  /\ pc' = to
  /\ UNCHANGED <<src, images, tags, outcome, ghosts>>

UpCreate(from, to) ==
  /\ pc = from
  /\ running' = latest
  /\ status' = [s \in Service |->
                  IF running[s] # latest[s] \/ status[s] \in {"absent", "exited"}
                  THEN "created" ELSE status[s]]
  /\ pc' = to
  /\ UNCHANGED <<src, images, tags, outcome, ghosts>>

UpStart(s) ==
  /\ pc \in {"start", "restart"}
  /\ status[s] = "created"
  /\ \A d \in DependsOn[s] : status[d] = "healthy"
  /\ status' = [status EXCEPT ![s] = IF s \in Checked THEN "starting"
                                     ELSE "running"]
  /\ UNCHANGED <<src, images, running, pc, tags, outcome, ghosts>>

UpDone(from, to) ==
  /\ pc = from
  /\ \A s \in Service : status[s] # "created"
  /\ pc' = to
  /\ UNCHANGED <<src, images, containers, tags, outcome, ghosts>>

\* "dependency failed to start": run(check=True) raises out of main.
UpRaises ==
  /\ pc \in {"start", "restart"}
  /\ \E s \in Service : \E d \in DependsOn[s] :
       status[s] = "created" /\ status[d] \in {"unhealthy", "exited"}
  /\ outcome' = "raised"
  /\ pc' = "idle"
  /\ UNCHANGED <<src, images, containers, tags, ghosts>>

(***************************************************************************)
(* The containers.  A healthcheck settles; any process may stop.           *)
(***************************************************************************)
Settle(s) ==
  /\ status[s] = "starting"
  /\ \E h \in {"healthy", "unhealthy"} : status' = [status EXCEPT ![s] = h]
  /\ UNCHANGED <<src, images, running, pc, tags, outcome, ghosts>>

Exit(s) ==
  /\ status[s] \in Live
  /\ status' = [status EXCEPT ![s] = "exited"]
  /\ UNCHANGED <<src, images, running, pc, tags, outcome, ghosts>>

(***************************************************************************)
(* Health check and smoke test                                             *)
(***************************************************************************)
\* healthy(): there are rows, and none says starting or unhealthy; an exited
\* container has no row.
Healthy ==
  /\ \E s \in Service : status[s] \in Live
  /\ \A s \in Service : status[s] \notin {"starting", "unhealthy"}

\* Mutant: wait_healthy loops until the services are healthy.
BugWaitForever(from, ok, failed) ==
  /\ pc = from
  /\ Healthy
  /\ pc' = ok
  /\ UNCHANGED <<src, images, containers, tags, outcome, ghosts>>

\* Polls until healthy or until the timeout, which may come before a slow
\* healthcheck has settled.
WaitHealthy(from, ok, failed) ==
  /\ pc = from
  /\ \/ Healthy /\ pc' = ok
     \/ ~Healthy /\ pc' = failed
  /\ UNCHANGED <<src, images, containers, tags, outcome, ghosts>>

SmokePasses ==
  /\ pc = "smoke"
  /\ \A s \in Smoked : status[s] \in {"healthy", "running"}
  /\ outcome' = "passed"
  /\ pc' = "idle"
  /\ UNCHANGED <<src, images, containers, tags, ghosts>>

SmokeFails ==
  /\ pc = "smoke"
  /\ pc' = "retag"
  /\ UNCHANGED <<src, images, containers, tags, outcome, ghosts>>

(***************************************************************************)
(* rollback(previous_tags)                                                 *)
(***************************************************************************)
\* Mutant: a fresh tag_current_as_previous decides what to go back to.
BugRetag ==
  /\ pc = "retag"
  /\ latest' = [s \in Service |-> IF RetagHits /\ s \in tags THEN running[s]
                                  ELSE latest[s]]
  /\ pc' = "recreate"
  /\ UNCHANGED <<src, prev, containers, tags, outcome, ghosts>>

\* In development the tag is stir-main-<service>, a name compose.yml (project
\* stir-dev) never runs.
Retag ==
  /\ pc = "retag"
  /\ latest' = [s \in Service |-> IF RetagHits /\ s \in tags THEN prev[s]
                                  ELSE latest[s]]
  /\ pc' = "recreate"
  /\ UNCHANGED <<src, prev, containers, tags, outcome, ghosts>>

\* After the second wait main raises SystemExit in both cases; only the
\* message says whether the previous version is healthy again.
RollbackEnds ==
  /\ pc = "rewait"
  /\ outcome' = IF Healthy THEN "rolledBack" ELSE "manual"
  /\ pc' = "idle"
  /\ UNCHANGED <<src, images, containers, tags, ghosts>>

DeployStep ==
  \/ TagCurrentAsPrevious \/ Build
  \/ \E done \in SUBSET Service : BuildFails(done)
  \/ UpCreate("create", "start") \/ UpDone("start", "wait") \/ UpRaises
  \/ WaitHealthy("wait", "smoke", "retag") \/ SmokePasses \/ SmokeFails
  \/ Retag \/ UpCreate("recreate", "restart") \/ UpDone("restart", "rewait")
  \/ RollbackEnds
  \/ \E s \in Service : UpStart(s)

Next ==
  \/ Pull
  \/ DeployStep
  \/ \E s \in Service : Settle(s) \/ Exit(s)

(***************************************************************************)
(* A healthcheck gives up after its retries (compose.yml), `up` waits for  *)
(* nothing else, and wait_healthy has a deadline: no step of a deployment  *)
(* in progress can be put off forever.  Starting one is the operator's.    *)
(***************************************************************************)
Fairness ==
  /\ WF_vars(pc # "idle" /\ DeployStep)
  /\ \A s \in Service : WF_vars(Settle(s))

Spec == Init /\ [][Next]_vars
FairSpec == Spec /\ Fairness
-----------------------------------------------------------------------------
(***************************************************************************)
(* Properties                                                              *)
(***************************************************************************)
\* Types; and a container always has an image.
TypeOK ==
  /\ src \in Version /\ built \in Version
  /\ latest \in [Service -> Version]
  /\ prev \in [Service -> Version]
  /\ running \in [Service -> Version]
  /\ before \in [Service -> Version]
  /\ status \in [Service -> Status]
  /\ pc \in Place
  /\ tags \in SUBSET Listed
  /\ outcome \in {"none", "passed", "raised", "rolledBack", "manual"}
  /\ \A s \in Service : running[s] = 0 <=> status[s] = "absent"

RolledBack == outcome \in {"rolledBack", "manual"}

\* "Rolling back to the previous images" (deploy.py:57): after a rollback each
\* service of BUILT_SERVICES that had a container when the deployment began
\* runs the image it ran then, whatever was built, pulled or restarted since.
RollbackRunsPrevious ==
  RolledBack => \A s \in Listed : before[s] # 0 => running[s] = before[s]

\* "Deploy PASSED" is about the version just built: every service runs it, in
\* a container recreated from it, and no image of a failed build is mixed in.
PassedRunsBuilt ==
  outcome = "passed" => \A s \in Service : running[s] = built

\* "rollback to the previous images if anything is unhealthy" (deploy.py:3):
\* a deployment that ends in an exception has not replaced any container.
RaisedLeavesPrevious ==
  outcome = "raised" => \A s \in Service : before[s] # 0 => running[s] = before[s]

\* A deployment always comes to an end: `up` cannot wait for ever on a service
\* that fails, and both health waits time out, in a rollback as well.
DeployEnds == pc # "idle" ~> pc = "idle"
=============================================================================
