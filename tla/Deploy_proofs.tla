---------------------------- MODULE Deploy_proofs ----------------------------
(***************************************************************************)
(* Proofs about Deploy, for any services, dependencies and versions.       *)
(*                                                                         *)
(* The strengthening says, for each place of deploy.py, which version the  *)
(* images and the containers have by then: the version just built until a  *)
(* rollback begins, and after Retag the tagged one wherever there is a tag. *)
(* It also says that every image a container can be created from exists.   *)
(***************************************************************************)
EXTENDS Deploy, TLAPS

Forward  == {"create", "start", "wait", "smoke", "retag"}
Backward == {"recreate", "restart", "rewait"}

\* The tags of a deployment are what it found running.
TagsAreBefore ==
  pc # "idle" =>
    /\ tags = {s \in Listed : before[s] # 0}
    /\ \A s \in tags : prev[s] = before[s]

ForwardBuilt ==
  /\ pc \in Forward => built # 0 /\ \A s \in Service : latest[s] = built
  /\ pc \in Forward \ {"create"} => \A s \in Service : running[s] = built

BackwardTagged ==
  /\ pc \in Backward =>
       /\ \A s \in Service : latest[s] # 0
       /\ RetagHits => \A s \in tags : latest[s] = before[s]
  /\ pc \in Backward \ {"recreate"} => running = latest

\* The outcome is decided by the step that ends a deployment.
OutcomeAtEnd == pc # "idle" => outcome = "none"

IInv ==
  /\ TypeOK /\ src # 0
  /\ TagsAreBefore /\ ForwardBuilt /\ BackwardTagged /\ OutcomeAtEnd
  /\ RetagHits => RollbackRunsPrevious
  /\ PassedRunsBuilt
-----------------------------------------------------------------------------
LEMMA InitIInv == Init => IInv
  BY ModeAssumption
  DEF ModeAssumption, Init, IInv, TypeOK, Version, Status, Place, TagsAreBefore, ForwardBuilt, Forward,
      BackwardTagged, Backward, OutcomeAtEnd, RollbackRunsPrevious, RolledBack, PassedRunsBuilt

LEMMA TypeStep == ASSUME IInv, Next PROVE TypeOK' /\ src' # 0
<1> USE ModeAssumption DEF ModeAssumption, IInv, TypeOK, Version, images, containers, ghosts
<1>1. CASE Pull
  BY <1>1 DEF Pull
<1>2. CASE TagCurrentAsPrevious
  BY <1>2, ServiceAssumption DEF ServiceAssumption, TagCurrentAsPrevious, Place
<1>3. CASE Build
  BY <1>3 DEF Build, Place
<1>4. ASSUME NEW done \in SUBSET Service, BuildFails(done) PROVE TypeOK' /\ src' # 0
  BY <1>4 DEF BuildFails, Place
<1>5. ASSUME NEW from \in {"create", "recreate"}, NEW to \in {"start", "restart"}, UpCreate(from, to)
      PROVE TypeOK' /\ src' # 0
  <2>1. \A s \in Service : latest[s] # 0
    BY <1>5 DEF UpCreate, ForwardBuilt, Forward, BackwardTagged, Backward
  <2>2. status' \in [Service -> Status]
    BY <1>5 DEF UpCreate, Status
  <2>3. \A s \in Service : running'[s] # 0 /\ status'[s] # "absent"
    BY <1>5, <2>1 DEF UpCreate
  <2> QED
    BY <1>5, <2>2, <2>3 DEF UpCreate, Place
<1>6. ASSUME NEW s \in Service, UpStart(s) \/ Settle(s) \/ Exit(s) PROVE TypeOK' /\ src' # 0
  <2>1. status' \in [Service -> Status]
    BY <1>6 DEF UpStart, Settle, Exit, Status
  <2>2. \A d \in Service : status'[d] = "absent" <=> status[d] = "absent"
    BY <1>6 DEF UpStart, Settle, Exit, Live
  <2> QED
    BY <1>6, <2>1, <2>2 DEF UpStart, Settle, Exit
<1>7. CASE \/ UpDone("start", "wait") \/ UpDone("restart", "rewait") \/ UpRaises
           \/ WaitHealthy("wait", "smoke", "retag") \/ SmokePasses \/ SmokeFails \/ RollbackEnds
  BY <1>7 DEF UpDone, UpRaises, WaitHealthy, SmokePasses, SmokeFails, RollbackEnds, Place
<1>8. CASE Retag
  BY <1>8 DEF Retag, Place
<1> QED
  BY <1>1, <1>2, <1>3, <1>4, <1>5, <1>6, <1>7, <1>8 DEF Next, DeployStep

\* The steps that move containers and nothing else.
LEMMA ContainerStep ==
  ASSUME IInv, NEW s \in Service, UpStart(s) \/ Settle(s) \/ Exit(s)
  PROVE  /\ TagsAreBefore' /\ ForwardBuilt' /\ BackwardTagged' /\ OutcomeAtEnd'
         /\ (RetagHits => RollbackRunsPrevious)' /\ PassedRunsBuilt'
  BY DEF UpStart, Settle, Exit, images, ghosts, IInv, TagsAreBefore, ForwardBuilt, BackwardTagged,
     OutcomeAtEnd, RollbackRunsPrevious, RolledBack, PassedRunsBuilt

LEMMA PlaceStep ==
  ASSUME IInv, Next
  PROVE  TagsAreBefore' /\ ForwardBuilt' /\ BackwardTagged' /\ OutcomeAtEnd'
<1> USE DEF IInv, TypeOK, Version, images, containers, ghosts, TagsAreBefore, ForwardBuilt, Forward,
            BackwardTagged, Backward, OutcomeAtEnd
<1>1. CASE Pull
  BY <1>1 DEF Pull
<1>2. CASE TagCurrentAsPrevious
  BY <1>2, ServiceAssumption DEF ServiceAssumption, TagCurrentAsPrevious
<1>3. CASE Build
  BY <1>3 DEF Build
<1>4. ASSUME NEW done \in SUBSET Service, BuildFails(done)
      PROVE  TagsAreBefore' /\ ForwardBuilt' /\ BackwardTagged' /\ OutcomeAtEnd'
  BY <1>4 DEF BuildFails
<1>5. CASE UpCreate("create", "start")
  BY <1>5 DEF UpCreate
<1>6. CASE UpCreate("recreate", "restart")
  BY <1>6 DEF UpCreate
<1>7. CASE UpDone("start", "wait") \/ UpDone("restart", "rewait")
  BY <1>7 DEF UpDone
<1>8. CASE UpRaises \/ SmokePasses \/ RollbackEnds
  BY <1>8 DEF UpRaises, SmokePasses, RollbackEnds
<1>9. CASE WaitHealthy("wait", "smoke", "retag") \/ SmokeFails
  BY <1>9 DEF WaitHealthy, SmokeFails
<1>10. CASE Retag
  <2>1. \A s \in Service : latest'[s] = IF RetagHits /\ s \in tags THEN before[s] ELSE built
    BY <1>10 DEF Retag
  <2>2. \A s \in tags : s \in Service /\ before[s] # 0
    BY <1>10, ServiceAssumption DEF ServiceAssumption, Retag
  <2> QED
    BY <1>10, <2>1, <2>2 DEF Retag
<1> QED
  BY <1>1, <1>2, <1>3, <1>4, <1>5, <1>6, <1>7, <1>8, <1>9, <1>10, ContainerStep DEF Next, DeployStep

LEMMA OutcomeStep ==
  ASSUME IInv, Next
  PROVE  (RetagHits => RollbackRunsPrevious)' /\ PassedRunsBuilt'
<1> USE DEF IInv, OutcomeAtEnd, RollbackRunsPrevious, RolledBack, PassedRunsBuilt, images, containers, ghosts
<1>1. CASE Pull
  BY <1>1 DEF Pull
<1>2. CASE \/ TagCurrentAsPrevious \/ Build \/ UpCreate("create", "start") \/ UpRaises
           \/ UpCreate("recreate", "restart") \/ UpDone("start", "wait") \/ UpDone("restart", "rewait")
           \/ WaitHealthy("wait", "smoke", "retag") \/ SmokeFails \/ Retag
           \/ \E done \in SUBSET Service : BuildFails(done)
  BY <1>2 DEF TagCurrentAsPrevious, Build, UpCreate, UpRaises, UpDone, WaitHealthy, SmokeFails, Retag,
     BuildFails
<1>3. CASE SmokePasses
  BY <1>3 DEF SmokePasses, ForwardBuilt, Forward
<1>4. CASE RollbackEnds
  <2>1. RetagHits => \A s \in Listed : before[s] # 0 => running[s] = before[s]
    BY <1>4 DEF RollbackEnds, TagsAreBefore, BackwardTagged, Backward
  <2> QED
    BY <1>4, <2>1 DEF RollbackEnds
<1> QED
  BY <1>1, <1>2, <1>3, <1>4, ContainerStep DEF Next, DeployStep

LEMMA Inductive == ASSUME IInv, [Next]_vars PROVE IInv'
<1>1. CASE Next
  BY <1>1, TypeStep, PlaceStep, OutcomeStep DEF IInv
<1>2. CASE UNCHANGED vars
  BY <1>2 DEF vars, images, containers, ghosts, IInv, TypeOK, TagsAreBefore, ForwardBuilt,
     BackwardTagged, OutcomeAtEnd, RollbackRunsPrevious, RolledBack, PassedRunsBuilt
<1> QED
  BY <1>1, <1>2

LEMMA Invariant == Spec => []IInv
  BY InitIInv, Inductive, PTL DEF Spec
-----------------------------------------------------------------------------
\* Every variable keeps its type, and a container always has an image: `up`
\* never meets a service without one.
THEOREM TypeCorrect == Spec => []TypeOK
<1>1. IInv => TypeOK
  BY DEF IInv
<1> QED
  BY <1>1, Invariant, PTL

\* Where the retagged name is the one compose runs, a rollback leaves each
\* listed service on the image it ran when the deployment began.
THEOREM RollbackIsToPrevious == Spec => [](RetagHits => RollbackRunsPrevious)
<1>1. IInv => (RetagHits => RollbackRunsPrevious)
  BY DEF IInv
<1> QED
  BY <1>1, Invariant, PTL

\* A deployment that passed runs the version it built, in every service.
THEOREM PassedIsBuilt == Spec => []PassedRunsBuilt
<1>1. IInv => PassedRunsBuilt
  BY DEF IInv
<1> QED
  BY <1>1, Invariant, PTL
-----------------------------------------------------------------------------
(***************************************************************************)
(* Progress.  What a deployment has still to do: the places of deploy.py   *)
(* before its end, and at a place the containers `up` has not started.     *)
(***************************************************************************)
Remaining(place) ==
  CASE place = "build"    -> 9
    [] place = "create"   -> 8
    [] place = "start"    -> 7
    [] place = "wait"     -> 6
    [] place = "smoke"    -> 5
    [] place = "retag"    -> 4
    [] place = "recreate" -> 3
    [] place = "restart"  -> 2
    [] place = "rewait"   -> 1
    [] place = "idle"     -> 0
Created == {s \in Service : status[s] = "created"}

Advances ==
  \/ Remaining(pc') < Remaining(pc)
  \/ pc' = pc /\ Created' \subseteq Created /\ Created' # Created
Holds == pc' = pc /\ Created' \subseteq Created

\* No deployment goes round in circles: each of its steps leaves less to do,
\* and nothing that happens to the source or to a container meanwhile leaves
\* more.  A rollback is tried once, and a deployment has at most nine steps and
\* two more for each service.
NeverBack == [][pc # "idle" => IF DeployStep THEN Advances ELSE Holds]_vars

LEMMA DeployAdvances == ASSUME IInv, pc # "idle", DeployStep PROVE Advances
<1> USE DEF Advances, Remaining
<1>1. CASE TagCurrentAsPrevious \/ Build
  BY <1>1 DEF TagCurrentAsPrevious, Build
<1>2. ASSUME NEW done \in SUBSET Service, BuildFails(done) PROVE Advances
  BY <1>2 DEF BuildFails
<1>3. CASE UpCreate("create", "start") \/ UpCreate("recreate", "restart")
  BY <1>3 DEF UpCreate
<1>4. CASE UpDone("start", "wait") \/ UpDone("restart", "rewait") \/ UpRaises
  BY <1>4 DEF UpDone, UpRaises
<1>5. CASE WaitHealthy("wait", "smoke", "retag") \/ SmokePasses \/ SmokeFails
  BY <1>5 DEF WaitHealthy, SmokePasses, SmokeFails
<1>6. CASE Retag \/ RollbackEnds
  BY <1>6 DEF Retag, RollbackEnds
<1>7. ASSUME NEW s \in Service, UpStart(s) PROVE Advances
  <2>1. status \in [Service -> Status] /\ status[s] = "created" /\ pc' = pc
    BY <1>7 DEF UpStart, IInv, TypeOK
  <2>2. status'[s] # "created" /\ \A t \in Service : t # s => status'[t] = status[t]
    BY <1>7, <2>1 DEF UpStart
  <2> QED
    BY <2>1, <2>2 DEF Created
<1> QED
  BY <1>1, <1>2, <1>3, <1>4, <1>5, <1>6, <1>7 DEF DeployStep

THEOREM DeploymentProgresses == Spec => NeverBack
<1>1. IInv /\ [Next]_vars => (pc # "idle" => IF DeployStep THEN Advances ELSE Holds) \/ UNCHANGED vars
  <2> SUFFICES ASSUME IInv, Next, pc # "idle" PROVE IF DeployStep THEN Advances ELSE Holds
    OBVIOUS
  <2>1. CASE DeployStep
    BY <2>1, DeployAdvances
  <2>2. CASE Pull
    BY <2>2 DEF Pull
  <2>3. ASSUME NEW s \in Service, Settle(s) \/ Exit(s) PROVE Holds
    <3>1. status \in [Service -> Status] /\ pc' = pc
      BY <2>3 DEF Settle, Exit, IInv, TypeOK
    <3>2. \A t \in Service : status'[t] = "created" => status[t] = "created"
      BY <2>3, <3>1 DEF Settle, Exit
    <3> QED
      BY <3>1, <3>2 DEF Holds, Created
  <2> QED
    BY <2>1, <2>2, <2>3, DeployAdvances DEF Next
<1> QED
  BY <1>1, Invariant, PTL DEF Spec, NeverBack
=============================================================================
