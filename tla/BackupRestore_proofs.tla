------------------------ MODULE BackupRestore_proofs ------------------------
(***************************************************************************)
(* Proofs about BackupRestore, for any projects, photos, events, retention *)
(* and number of runs, however many of them overlap.                       *)
(*                                                                         *)
(* What the files of a directory hold follows from where its run is, as    *)
(* long as the directory was not pruned and made again (DirFiles).  The    *)
(* two theorems about photos also need backup.py and restore.py to mount   *)
(* the volume of the project they talk to: Scoped collects what is then    *)
(* known of rows, objects and torn directories.                            *)
(***************************************************************************)
EXTENDS BackupRestore, FiniteSetTheorems, TLAPS

\* What is on disk: an archive is begun after the dump is whole, or in a
\* directory that has lost its dump; a restore begins with both.
DirFiles ==
  /\ \A r \in Run : dir[r].archive # "absent" => dir[r].dump # "partial"
  /\ \A r \in Run : At(r, "dump") => dir[r].dump = "partial" /\ dir[r].archive = "absent"
  /\ \A r \in Run : At(r, "tar") =>
       dir[r].archive = "absent" /\ (r \in present => dir[r].dump = "whole")
  /\ restore.pc # "idle" =>
       /\ dir[restore.run].dump # "partial"
       /\ dir[restore.run].archive # "absent" => dir[restore.run].dump = "whole"
       /\ ~At(restore.run, "dump") /\ ~At(restore.run, "tar")

\* Every dump's governed rows are in the audit table of the live database.
DumpsAudited == \A r \in Run : dir[r].rows \cap Event \subseteq audit[Target]

\* The directory of a run that is not overtaken is never pruned, so that it is
\* as the run left it.
InTime(r) ==
  ~Overtaken(r) =>
    /\ r \in present
    /\ At(r, "tarring") => dir[r].dump = "whole" /\ dir[r].archive = "partial"
    /\ At(r, "prune") => Whole(r)

Survival == (\A r \in 1 .. started : InTime(r)) /\ WholeBackupSurvives

Base == TypeOK /\ DirFiles /\ DumpsAudited /\ GovernedRowsAudited /\ Survival

-----------------------------------------------------------------------------
LEMMA InitBase == Init => Base
<1> SUFFICES ASSUME Init PROVE Base
  OBVIOUS
<1>1. NoDirectory \in Directory
  BY DEF NoDirectory, Directory, File
<1>2. TypeOK
  <2>1. dir \in [Run -> Directory]
    BY <1>1 DEF Init
  <2>2. started \in 0 .. MaxRuns /\ present \in SUBSET (1 .. started)
    BY BoundAssumption DEF BoundAssumption, Init
  <2>3. /\ rows \in [Project -> SUBSET Row] /\ audit \in [Project -> SUBSET Event]
        /\ objects \in [Project -> SUBSET Photo] /\ pending \in [Project -> SUBSET Photo]
    BY DEF Init
  <2>4. /\ backup \in [Run -> {"idle", "dump", "tar", "tarring", "prune"}]
        /\ \A r \in Run : At(r, "idle")
    BY DEF Init, At
  <2> QED
    BY <2>1, <2>2, <2>3, <2>4 DEF Init, TypeOK
<1>3. DirFiles
  BY DEF Init, DirFiles, NoDirectory, At
<1>4. DumpsAudited /\ GovernedRowsAudited /\ WholeBackupSurvives
  BY DEF Init, DumpsAudited, GovernedRowsAudited, WholeBackupSurvives, NoDirectory
<1>5. Survival
  <2>1. 1 .. started = {}
    BY DEF Init
  <2> QED
    BY <1>4, <2>1 DEF Survival
<1> QED
  BY <1>2, <1>3, <1>4, <1>5 DEF Base

LEMMA RunsInRange ==
  ASSUME TypeOK
  PROVE  /\ DOMAIN dir = Run /\ \A r \in Run : dir[r] \in Directory
         /\ started \in Nat /\ 1 .. started \subseteq Run
         /\ \A r \in Run : ~At(r, "idle") => r \in 1 .. started
         /\ restore.pc # "idle" => restore.run \in Run
<1>1. started \in Nat /\ started <= MaxRuns /\ MaxRuns \in Nat
  BY BoundAssumption DEF BoundAssumption, TypeOK
<1>2. 1 .. started \subseteq Run
  BY <1>1 DEF Run
<1>3. \A r \in Run : ~At(r, "idle") => r \in 1 .. started
  BY <1>1 DEF Run, TypeOK
<1> QED
  BY <1>1, <1>2, <1>3 DEF TypeOK

\* A destructive step of a restore marks the directories in progress as torn
\* and leaves every other field of every directory.
LEMMA TornFields ==
  ASSUME TypeOK, NEW d \in [Run -> Directory], dir' = Torn(d)
  PROVE  /\ dir' \in [Run -> Directory]
         /\ \A r \in Run : /\ dir'[r].dump = d[r].dump /\ dir'[r].archive = d[r].archive
                           /\ dir'[r].rows = d[r].rows /\ dir'[r].objects = d[r].objects
                           /\ dir'[r].steady => d[r].steady
                           /\ ~At(r, "idle") => ~dir'[r].steady
<1>1. \A r \in Run : dir'[r] = IF At(r, "idle") THEN d[r] ELSE [d[r] EXCEPT !.steady = FALSE]
  BY DEF Torn
<1>2. \A r \in Run : d[r] \in Directory
  OBVIOUS
<1>3. \A r \in Run : dir'[r] \in Directory
  BY <1>1, <1>2 DEF Directory
<1>4. dir' \in [Run -> Directory]
  BY <1>3 DEF Torn
<1> QED
  BY <1>1, <1>2, <1>4 DEF Directory

\* The directories after a restore has emptied the volume.
LEMMA ClearDir ==
  ASSUME TypeOK, RestoreClear
  PROVE  /\ dir' \in [Run -> Directory]
         /\ \A r \in Run : /\ dir'[r].rows = dir[r].rows /\ dir'[r].objects = dir[r].objects
                           /\ dir'[r].steady => dir[r].steady
                           /\ ~At(r, "idle") => ~dir'[r].steady
         /\ \A r \in Run : \/ dir'[r].dump = dir[r].dump /\ dir'[r].archive = dir[r].archive
                           \/ /\ r = restore.run /\ r \notin present
                              /\ dir'[r].dump = "absent" /\ dir'[r].archive = "absent"
         /\ present' = present \cup {restore.run}
         /\ restore.run \notin present => dir'[restore.run].archive = "absent"
<1> DEFINE d == IF restore.run \in present THEN dir
                ELSE [dir EXCEPT ![restore.run].dump = "absent", ![restore.run].archive = "absent"]
<1>1. restore.run \in Run /\ dir \in [Run -> Directory]
  BY RunsInRange DEF RestoreClear, RestoreAt, TypeOK
<1>2. CASE restore.run \in present
  <2>1. dir' = Torn(dir)
    BY <1>2 DEF RestoreClear
  <2> QED
    BY <1>1, <1>2, <2>1, TornFields DEF RestoreClear
<1>3. CASE restore.run \notin present
  <2>1. \A r \in Run : d[r] = IF r = restore.run
                              THEN [dir[r] EXCEPT !.dump = "absent", !.archive = "absent"] ELSE dir[r]
    BY <1>1, <1>3
  <2>2. ASSUME NEW r \in Run PROVE d[r] \in Directory
    <3>1. dir[r] \in Directory
      BY <1>1
    <3>2. [dir[r] EXCEPT !.dump = "absent", !.archive = "absent"] \in Directory
      BY <3>1 DEF Directory, File
    <3> QED
      BY <2>1, <3>1, <3>2
  <2>3. d \in [Run -> Directory]
    BY <1>1, <1>3, <2>2
  <2>4. dir' = Torn(d)
    BY DEF RestoreClear
  <2>5. ASSUME NEW r \in Run
        PROVE  /\ d[r].rows = dir[r].rows /\ d[r].objects = dir[r].objects
               /\ d[r].steady = dir[r].steady
               /\ r # restore.run => d[r].dump = dir[r].dump /\ d[r].archive = dir[r].archive
               /\ r = restore.run => d[r].dump = "absent" /\ d[r].archive = "absent"
    <3>1. dir[r] \in Directory
      BY <1>1
    <3> HIDE DEF d
    <3> QED
      BY <2>1, <3>1 DEF Directory
  <2> HIDE DEF d
  <2>6. /\ dir' \in [Run -> Directory]
        /\ \A r \in Run : /\ dir'[r].dump = d[r].dump /\ dir'[r].archive = d[r].archive
                          /\ dir'[r].rows = d[r].rows /\ dir'[r].objects = d[r].objects
                          /\ dir'[r].steady => d[r].steady
                          /\ ~At(r, "idle") => ~dir'[r].steady
    BY <2>3, <2>4, TornFields
  <2>7. present' = present \cup {restore.run}
    BY DEF RestoreClear
  <2> QED
    BY <1>1, <1>3, <2>5, <2>6, <2>7
<1> QED
  BY <1>2, <1>3

\* What each step of a backup makes of its directory; the others stay.
LEMMA StartDir ==
  ASSUME TypeOK, BackupStart
  PROVE  /\ started + 1 \in Run /\ started' = started + 1 /\ started' \in 0 .. MaxRuns
         /\ dir' \in [Run -> Directory]
         /\ dir'[started + 1] = [NoDirectory EXCEPT !.dump = "partial", !.steady = intact]
         /\ \A r \in Run : r # started + 1 => dir'[r] = dir[r]
         /\ backup' \in [Run -> {"idle", "dump", "tar", "tarring", "prune"}]
         /\ \A r \in Run : backup'[r] = IF r = started + 1 THEN "dump" ELSE backup[r]
<1>1. started + 1 \in Run /\ started' = started + 1 /\ started' \in 0 .. MaxRuns
  BY BoundAssumption DEF BoundAssumption, BackupStart, TypeOK, Run
<1>2. [NoDirectory EXCEPT !.dump = "partial", !.steady = intact] \in Directory
  BY DEF NoDirectory, Directory, File, TypeOK
<1> QED
  BY <1>1, <1>2 DEF BackupStart, TypeOK, Goto

\* A step of run r moves only that run.
Moves(r, pc) ==
  /\ r \in 1 .. started
  /\ backup' \in [Run -> {"idle", "dump", "tar", "tarring", "prune"}]
  /\ \A q \in Run : backup'[q] = IF q = r THEN pc ELSE backup[q]

LEMMA DumpDir ==
  ASSUME TypeOK, NEW r \in Run, BackupDump(r)
  PROVE  /\ dir' \in [Run -> Directory]
         /\ \A q \in Run : dir'[q] =
              IF q = r /\ r \in present
              THEN [dir[q] EXCEPT !.dump = "whole", !.rows = rows[Target], !.audit = audit[Target]]
              ELSE dir[q]
         /\ Moves(r, "tar")
<1>1. \A q \in Run : dir'[q] =
        IF q = r /\ r \in present
        THEN [dir[q] EXCEPT !.dump = "whole", !.rows = rows[Target], !.audit = audit[Target]]
        ELSE dir[q]
  BY RunsInRange DEF BackupDump
<1>2. rows[Target] \in SUBSET Row /\ audit[Target] \in SUBSET Event
  BY RoutingAssumption DEF RoutingAssumption, TypeOK
<1>3. ASSUME NEW q \in Run PROVE dir'[q] \in Directory
  <2>1. [dir[q] EXCEPT !.dump = "whole", !.rows = rows[Target], !.audit = audit[Target]] \in Directory
    BY <1>2, RunsInRange DEF Directory, File
  <2> QED
    BY <1>1, <2>1, RunsInRange
<1>4. DOMAIN dir' = Run /\ dir' = [q \in Run |-> dir'[q]]
  BY DEF BackupDump, TypeOK
<1>5. Moves(r, "tar")
  BY RunsInRange DEF BackupDump, TypeOK, Goto, At, Moves
<1> QED
  BY <1>1, <1>3, <1>4, <1>5

LEMMA TarDir ==
  ASSUME TypeOK, NEW r \in Run, BackupTar(r)
  PROVE  /\ dir' \in [Run -> Directory]
         /\ \A q \in Run : dir'[q] =
              IF q = r
              THEN [dir[q] EXCEPT !.dump = IF r \in present THEN dir[q].dump ELSE "absent",
                                  !.archive = "partial", !.objects = objects[VolumeOwner]]
              ELSE dir[q]
         /\ Moves(r, "tarring")
<1>1. \A q \in Run : dir'[q] =
        IF q = r
        THEN [dir[q] EXCEPT !.dump = IF r \in present THEN dir[q].dump ELSE "absent",
                            !.archive = "partial", !.objects = objects[VolumeOwner]]
        ELSE dir[q]
  BY RunsInRange DEF BackupTar
<1>2. objects[VolumeOwner] \in SUBSET Photo
  BY RoutingAssumption DEF RoutingAssumption, TypeOK
<1>3. ASSUME NEW q \in Run PROVE dir'[q] \in Directory
  <2>1. dir[q] \in Directory /\ (IF r \in present THEN dir[q].dump ELSE "absent") \in File
    BY RunsInRange DEF Directory, File
  <2>2. [dir[q] EXCEPT !.dump = IF r \in present THEN dir[q].dump ELSE "absent",
                       !.archive = "partial", !.objects = objects[VolumeOwner]] \in Directory
    BY <1>2, <2>1 DEF Directory, File
  <2> QED
    BY <1>1, <2>1, <2>2
<1>4. DOMAIN dir' = Run /\ dir' = [q \in Run |-> dir'[q]]
  BY DEF BackupTar, TypeOK
<1>5. Moves(r, "tarring")
  BY RunsInRange DEF BackupTar, TypeOK, Goto, At, Moves
<1> QED
  BY <1>1, <1>3, <1>4, <1>5

LEMMA TarFields ==
  ASSUME TypeOK, NEW r \in Run, BackupTar(r)
  PROVE  /\ dir'[r].dump = (IF r \in present THEN dir[r].dump ELSE "absent")
         /\ dir'[r].archive = "partial" /\ dir'[r].objects = objects[VolumeOwner]
         /\ dir'[r].rows = dir[r].rows /\ dir'[r].steady = dir[r].steady
<1>1. dir[r] \in Directory
  BY RunsInRange
<1>2. dir'[r] = [dir[r] EXCEPT !.dump = IF r \in present THEN dir[r].dump ELSE "absent",
                               !.archive = "partial", !.objects = objects[VolumeOwner]]
  BY TarDir
<1> QED
  BY <1>1, <1>2 DEF Directory

LEMMA TarDoneDir ==
  ASSUME TypeOK, NEW r \in Run, BackupTarDone(r)
  PROVE  /\ dir' \in [Run -> Directory]
         /\ \E seen \in SUBSET Photo :
              /\ dir[r].objects \cap objects[VolumeOwner] \subseteq seen
              /\ \A q \in Run : dir'[q] =
                   IF q = r /\ r \in present /\ dir[r].archive = "partial"
                   THEN [dir[q] EXCEPT !.archive = "whole", !.objects = seen]
                   ELSE dir[q]
         /\ Moves(r, "prune")
<1>1. dir[r] \in Directory
  BY RunsInRange
<1>2. objects[VolumeOwner] \in SUBSET Photo /\ dir[r].objects \in SUBSET Photo
  BY <1>1, RoutingAssumption DEF RoutingAssumption, TypeOK, Directory
<1>3. PICK seen \in SUBSET (dir[r].objects \cup objects[VolumeOwner]) :
        /\ dir[r].objects \cap objects[VolumeOwner] \subseteq seen
        /\ dir' = IF r \in present /\ dir[r].archive = "partial"
                  THEN [dir EXCEPT ![r].archive = "whole", ![r].objects = seen]
                  ELSE dir
  BY DEF BackupTarDone
<1>4. \A q \in Run : dir'[q] =
        IF q = r /\ r \in present /\ dir[r].archive = "partial"
        THEN [dir[q] EXCEPT !.archive = "whole", !.objects = seen] ELSE dir[q]
  BY <1>3, RunsInRange
<1>5. seen \in SUBSET Photo
  BY <1>2
<1>6. ASSUME NEW q \in Run PROVE dir'[q] \in Directory
  <2>1. [dir[q] EXCEPT !.archive = "whole", !.objects = seen] \in Directory
    BY <1>5, RunsInRange DEF Directory, File
  <2> QED
    BY <1>4, <2>1, RunsInRange
<1>7. dir' \in [Run -> Directory]
  BY <1>3, <1>6 DEF TypeOK
<1>8. Moves(r, "prune")
  BY RunsInRange DEF BackupTarDone, TypeOK, Goto, At, Moves
<1> QED
  BY <1>3, <1>4, <1>5, <1>7, <1>8

LEMMA EndsMove ==
  ASSUME TypeOK, NEW r \in Run, BackupPrune(r) \/ BackupFail(r)
  PROVE  Moves(r, "idle") /\ dir' = dir
  BY RunsInRange DEF BackupPrune, BackupFail, TypeOK, Goto, At, Moves

LEMMA TypeOfApp == ASSUME TypeOK, App PROVE TypeOK'
<1> USE DEF ghostVars, At
<1>1. ASSUME NEW p \in Project, NEW x \in Photo, PutObject(p, x) PROVE TypeOK'
  BY <1>1 DEF TypeOK, PutObject, Row
<1>2. ASSUME NEW p \in Project, NEW x \in Photo, InsertRow(p, x) PROVE TypeOK'
  BY <1>2 DEF TypeOK, InsertRow, Row
<1>3. ASSUME NEW p \in Project, NEW e \in Event, GovernedWrite(p, e) PROVE TypeOK'
  BY <1>3 DEF TypeOK, GovernedWrite, Row
<1> QED
  BY <1>1, <1>2, <1>3 DEF App

LEMMA TypeOfBackup == ASSUME TypeOK, Backup PROVE TypeOK'
<1> USE DEF dataVars, appVars, ghostVars
<1>0. started \in Nat /\ 1 .. started \subseteq Run /\ \A r \in Run : ~At(r, "idle") => r <= started
  BY RunsInRange DEF TypeOK
<1>1. CASE BackupStart
  <2>0. started' = started + 1 /\ present' = present \cup {started + 1} /\ present \subseteq 1 .. started
    BY <1>1 DEF BackupStart, TypeOK
  <2>1. present' \in SUBSET (1 .. started')
    BY <1>0, <2>0
  <2>2. \A r \in Run : backup'[r] # "idle" => r <= started'
    <3>1. \A r \in Run : backup'[r] = IF r = started + 1 THEN "dump" ELSE backup[r]
      BY <1>1, StartDir
    <3> QED
      BY <1>0, <2>0, <3>1 DEF At, Run
  <2> QED
    BY <1>1, <2>1, <2>2, StartDir DEF BackupStart, TypeOK, At
<1>2. ASSUME NEW r \in Run, NEW pc, Moves(r, pc) PROVE \A q \in Run : backup'[q] # "idle" => q <= started
  BY <1>0, <1>2 DEF Moves, At
<1>3. ASSUME NEW r \in Run, BackupDump(r) PROVE TypeOK'
  BY <1>2, <1>3, DumpDir DEF BackupDump, TypeOK, At, Moves
<1>4. ASSUME NEW r \in Run, BackupTar(r) PROVE TypeOK'
  BY <1>2, <1>4, TarDir DEF BackupTar, TypeOK, At, Moves
<1>5. ASSUME NEW r \in Run, BackupTarDone(r) PROVE TypeOK'
  BY <1>2, <1>5, TarDoneDir DEF BackupTarDone, TypeOK, At, Moves, Overtaken
<1>6. ASSUME NEW r \in Run, BackupPrune(r) PROVE TypeOK'
  BY <1>2, <1>6, EndsMove DEF BackupPrune, Retained, TypeOK, At, Moves, Overtaken
<1>7. ASSUME NEW r \in Run, BackupFail(r) PROVE TypeOK'
  BY <1>2, <1>7, EndsMove DEF BackupFail, TypeOK, At, Moves
<1> QED
  BY <1>1, <1>3, <1>4, <1>5, <1>6, <1>7 DEF Backup

LEMMA TypeOfRestore == ASSUME TypeOK, Restore PROVE TypeOK'
<1> USE RoutingAssumption
    DEF RoutingAssumption, dataVars, appVars, ghostVars, RestoreAt, RestoreGoto, At
<1>1. ASSUME NEW r \in Run, RestoreStart(r) PROVE TypeOK'
  BY <1>1 DEF RestoreStart, TypeOK
<1>2. CASE RestoreStop
  BY <1>2 DEF RestoreStop, TypeOK
<1>3. CASE RestoreDrop
  BY <1>3, TornFields DEF RestoreDrop, TypeOK
<1>4. CASE RestoreLoad
  <2>1. PICK loaded \in SUBSET dir[restore.run].rows :
          rows' = [rows EXCEPT ![Target] = @ \cup loaded]
    BY <1>4 DEF RestoreLoad
  <2>2. /\ loaded \in SUBSET Row
        /\ Copied(audit[Target], dir[restore.run].audit) \in SUBSET Event
    BY <1>4, <2>1, RunsInRange DEF RestoreLoad, TypeOK, Directory, Copied
  <2> QED
    BY <1>4, <2>1, <2>2, TornFields DEF RestoreLoad, TypeOK
<1>5. ASSUME NEW part \in SUBSET Row, RestoreLoadPart(part) PROVE TypeOK'
  BY <1>5, TornFields DEF RestoreLoadPart, TypeOK
<1>6. CASE RestoreClear
  BY <1>6, ClearDir DEF RestoreClear, TypeOK
<1>7. CASE RestoreExtract
  <2>1. dir[restore.run].objects \in SUBSET Photo
    BY <1>7, RunsInRange DEF RestoreExtract, Directory
  <2> QED
    BY <1>7, <2>1, TornFields DEF RestoreExtract, TypeOK
<1>8. ASSUME NEW part \in SUBSET Photo, RestoreExtractPart(part) PROVE TypeOK'
  BY <1>8, TornFields DEF RestoreExtractPart, TypeOK
<1>9. CASE RestoreUp
  BY <1>9 DEF RestoreUp, TypeOK
<1>10. CASE RestoreMinio
  BY <1>10 DEF RestoreMinio, TypeOK
<1>11. CASE RestoreFail
  BY <1>11 DEF RestoreFail, TypeOK
<1> QED
  BY <1>1, <1>2, <1>3, <1>4, <1>5, <1>6, <1>7, <1>8, <1>9, <1>10, <1>11 DEF Restore

LEMMA TypeStep == ASSUME TypeOK, Next PROVE TypeOK'
<1>1. CASE ComposeUp
  BY <1>1, RoutingAssumption DEF RoutingAssumption, ComposeUp, TypeOK, ghostVars, At
<1> QED
  BY <1>1, TypeOfApp, TypeOfBackup, TypeOfRestore DEF Next


-----------------------------------------------------------------------------
\* The steps of an application and of a restore: they move no file, except
\* that a restore may make the pruned directory it reads again, empty; and
\* they shrink no audit table.
SameFiles(r) == dir'[r].dump = dir[r].dump /\ dir'[r].archive = dir[r].archive

Remade(r) ==
  /\ restore.pc # "idle" /\ r = restore.run /\ r \notin present
  /\ dir'[r].dump = "absent" /\ dir'[r].archive = "absent"

LEMMA OtherSteps ==
  ASSUME TypeOK, App \/ Restore \/ ComposeUp
  PROVE  /\ \A r \in Run : dir'[r].rows = dir[r].rows /\ (SameFiles(r) \/ Remade(r))
         /\ \A r \in present' \ present : restore.pc # "idle" /\ r = restore.run
         /\ present \subseteq present'
         /\ UNCHANGED <<backup, started, completed, overtaken>>
         /\ audit[Target] \subseteq audit'[Target]
         /\ restore'.pc # "idle" =>
              \/ restore.pc # "idle" /\ restore'.run = restore.run
              \/ dir' = dir /\ dir[restore'.run].dump # "absent" /\ dir[restore'.run].archive # "absent"
<1> USE RoutingAssumption
    DEF RoutingAssumption, dataVars, appVars, ghostVars, RestoreAt, RestoreGoto, SameFiles, Remade
<1>0. dir \in [Run -> Directory]
  BY DEF TypeOK
<1>1. CASE App
  BY <1>1 DEF App, PutObject, InsertRow, GovernedWrite, TypeOK
<1>2. CASE ComposeUp
  BY <1>2 DEF ComposeUp
<1>3. ASSUME NEW r \in Run, RestoreStart(r)
      PROVE  /\ UNCHANGED <<dir, backup, started, present, completed, overtaken, audit>>
             /\ dir[restore'.run].dump # "absent" /\ dir[restore'.run].archive # "absent"
  BY <1>3 DEF RestoreStart
<1>4. CASE RestoreStop \/ RestoreUp \/ RestoreMinio \/ RestoreFail
  BY <1>4 DEF RestoreStop, RestoreUp, RestoreMinio, RestoreFail, TypeOK
<1>5. CASE RestoreDrop \/ RestoreExtract
  BY <1>0, <1>5, TornFields DEF RestoreDrop, RestoreExtract, TypeOK
<1>6. CASE RestoreLoad
  BY <1>0, <1>6, TornFields DEF RestoreLoad, Copied, TypeOK
<1>7. CASE RestoreClear
  <2>1. restore.pc = "clear" /\ restore'.run = restore.run
    BY <1>7 DEF RestoreClear, TypeOK
  <2> QED
    BY <1>7, <2>1, ClearDir DEF RestoreClear
<1>8. ASSUME NEW part, RestoreLoadPart(part) \/ RestoreExtractPart(part)
      PROVE  /\ dir' = Torn(dir) /\ UNCHANGED <<backup, started, present, completed, overtaken, audit>>
             /\ restore'.pc = "idle"
  BY <1>8 DEF RestoreLoadPart, RestoreExtractPart
<1> QED
  BY <1>0, <1>1, <1>2, <1>3, <1>4, <1>5, <1>6, <1>7, <1>8, TornFields DEF Restore

LEMMA FilesElsewhere ==
  ASSUME TypeOK, DirFiles, App \/ Restore \/ ComposeUp PROVE DirFiles'
<1>1. TypeOK'
  BY TypeStep DEF Next
<1>2. restore'.pc # "idle" => restore'.run \in Run
  BY <1>1, OtherSteps, BoundAssumption DEF BoundAssumption, TypeOK, Run
<1>3. \A r \in Run : dir[r].dump \in File /\ dir[r].archive \in File
  BY RunsInRange DEF Directory
<1>4. \A r \in Run : dir'[r].archive # "absent" => dir'[r].dump # "partial"
  BY OtherSteps DEF DirFiles, SameFiles, Remade
<1>5. \A r \in Run : At(r, "dump") => SameFiles(r)
  BY OtherSteps DEF DirFiles, Remade
<1>6. \A r \in Run : At(r, "tar") => SameFiles(r) /\ (r \in present' => r \in present)
  BY OtherSteps DEF DirFiles, Remade
<1>7. ASSUME restore'.pc # "idle"
      PROVE  /\ dir'[restore'.run].dump # "partial"
             /\ dir'[restore'.run].archive # "absent" => dir'[restore'.run].dump = "whole"
             /\ ~At(restore'.run, "dump") /\ ~At(restore'.run, "tar")
  <2>1. CASE restore.pc # "idle" /\ restore'.run = restore.run
    BY <1>2, <1>7, <2>1, OtherSteps DEF DirFiles, SameFiles, Remade
  <2>2. CASE /\ dir' = dir
             /\ dir[restore'.run].dump # "absent" /\ dir[restore'.run].archive # "absent"
    BY <1>2, <1>3, <1>7, <2>2 DEF DirFiles, File
  <2> QED
    BY <1>7, <2>1, <2>2, OtherSteps
<1>8. UNCHANGED backup
  BY OtherSteps
<1> QED
  BY <1>4, <1>5, <1>6, <1>7, <1>8 DEF DirFiles, At, SameFiles

\* What a backup step leaves alone.
LEMMA BackupFrame ==
  ASSUME Backup
  PROVE  UNCHANGED <<rows, audit, objects, laid, up, pending, used, restore, intact>>
  BY DEF Backup, BackupStart, BackupDump, BackupTar, BackupTarDone, BackupPrune, BackupFail,
     dataVars, appVars, ghostVars

LEMMA FilesOfBackup == ASSUME TypeOK, DirFiles, Backup PROVE DirFiles'
<1>0. restore' = restore /\ (restore.pc # "idle" => restore.run \in Run /\ restore.run # started + 1)
  BY RunsInRange, BackupFrame DEF TypeOK
<1>1. CASE BackupStart
  <2>1. dir'[started + 1].dump = "partial" /\ dir'[started + 1].archive = "absent"
    BY <1>1, StartDir DEF NoDirectory
  <2>2. \A r \in Run : r # started + 1 =>
          dir'[r] = dir[r] /\ backup'[r] = backup[r] /\ (r \in present' => r \in present)
    BY <1>1, StartDir DEF BackupStart
  <2>3. started + 1 \in Run /\ backup'[started + 1] = "dump"
    BY <1>1, StartDir
  <2> QED
    BY <1>0, <2>1, <2>2, <2>3 DEF DirFiles, At
<1>2. ASSUME NEW r \in Run, BackupDump(r) PROVE DirFiles'
  <2>1. At(r, "dump") /\ present' = present
    BY <1>2 DEF BackupDump
  <2>2. \A q \in Run : backup'[q] = IF q = r THEN "tar" ELSE backup[q]
    BY <1>2, DumpDir DEF Moves
  <2>3. \A q \in Run : q # r => dir'[q] = dir[q]
    BY <1>2, DumpDir
  <2>4. dir'[r].archive = "absent" /\ (r \in present => dir'[r].dump = "whole")
    <3>1. dir[r].archive = "absent" /\ dir[r] \in Directory
      BY <2>1, RunsInRange DEF DirFiles
    <3>2. dir'[r] = IF r \in present
                    THEN [dir[r] EXCEPT !.dump = "whole", !.rows = rows[Target], !.audit = audit[Target]]
                    ELSE dir[r]
      BY <1>2, DumpDir
    <3> QED
      BY <3>1, <3>2 DEF Directory
  <2> QED
    BY <1>0, <2>1, <2>2, <2>3, <2>4 DEF DirFiles, At
<1>3. ASSUME NEW r \in Run, BackupTar(r) PROVE DirFiles'
  <2>1. At(r, "tar") /\ present' = present \cup {r}
    BY <1>3 DEF BackupTar
  <2>2. \A q \in Run : backup'[q] = IF q = r THEN "tarring" ELSE backup[q]
    BY <1>3, TarDir DEF Moves
  <2>3. \A q \in Run : q # r => dir'[q] = dir[q]
    BY <1>3, TarDir
  <2>4. dir'[r].dump # "partial"
    <3>1. (r \in present => dir[r].dump = "whole") /\ dir[r] \in Directory
      BY <2>1, RunsInRange DEF DirFiles
    <3> QED
      BY <1>3, <3>1, TarFields
  <2> QED
    BY <1>0, <2>1, <2>2, <2>3, <2>4 DEF DirFiles, At
<1>4. ASSUME NEW r \in Run, BackupTarDone(r) PROVE DirFiles'
  <2>1. At(r, "tarring") /\ present' = present
    BY <1>4 DEF BackupTarDone
  <2>2. \A q \in Run : backup'[q] = IF q = r THEN "prune" ELSE backup[q]
    BY <1>4, TarDoneDir DEF Moves
  <2>3. \A q \in Run : /\ dir'[q].dump = dir[q].dump
                       /\ q # r => dir'[q] = dir[q]
                       /\ dir'[q].archive # "absent" => dir[q].archive # "absent"
    BY <1>4, TarDoneDir, RunsInRange DEF Directory
  <2> QED
    BY <1>0, <2>1, <2>2, <2>3 DEF DirFiles, At
<1>5. ASSUME NEW r \in Run, BackupPrune(r) \/ BackupFail(r) PROVE DirFiles'
  <2>1. present' \subseteq present
    BY <1>5 DEF BackupPrune, BackupFail, Retained
  <2>2. dir' = dir /\ \A q \in Run : backup'[q] = IF q = r THEN "idle" ELSE backup[q]
    BY <1>5, EndsMove DEF Moves
  <2> QED
    BY <1>0, <2>1, <2>2 DEF DirFiles, At
<1> QED
  BY <1>1, <1>2, <1>3, <1>4, <1>5 DEF Backup

\* Audit events are only added, and a dump takes its rows with their events.
LEMMA AuditStep ==
  ASSUME Base, Next PROVE DumpsAudited' /\ GovernedRowsAudited'
<1> USE RoutingAssumption DEF RoutingAssumption, Base, DumpsAudited, GovernedRowsAudited
<1>1. CASE App
  <2>1. \A p \in Project : rows'[p] \cap Event \subseteq audit'[p]
    BY <1>1, DataAssumption DEF DataAssumption, App, PutObject, InsertRow, GovernedWrite, TypeOK
  <2> QED
    BY <1>1, <2>1, OtherSteps
<1>2. CASE Backup
  <2>1. UNCHANGED <<rows, audit>>
    BY <1>2, BackupFrame
  <2>2. CASE BackupStart
    BY <2>1, <2>2, StartDir DEF NoDirectory
  <2>3. ASSUME NEW r \in Run, BackupDump(r) PROVE DumpsAudited'
    BY <2>1, <2>3, DumpDir, RunsInRange DEF Directory
  <2>4. ASSUME NEW r \in Run, BackupTar(r) PROVE DumpsAudited'
    BY <2>1, <2>4, TarDir, RunsInRange DEF Directory
  <2>5. ASSUME NEW r \in Run, BackupTarDone(r) PROVE DumpsAudited'
    BY <2>1, <2>5, TarDoneDir, RunsInRange DEF Directory
  <2>6. ASSUME NEW r \in Run, BackupPrune(r) \/ BackupFail(r) PROVE DumpsAudited'
    BY <2>1, <2>6, EndsMove
  <2> QED
    BY <1>2, <2>1, <2>2, <2>3, <2>4, <2>5, <2>6 DEF Backup
<1>3. CASE Restore
  <2> USE DEF dataVars, RestoreAt, RestoreGoto
  <2>1. DumpsAudited'
    BY <1>3, OtherSteps
  <2>2. CASE RestoreLoad
    <3>1. dir[restore.run].rows \cap Event \subseteq audit[Target]
      BY <2>2, RunsInRange DEF RestoreLoad
    <3>2. PICK loaded \in SUBSET dir[restore.run].rows : rows' = [rows EXCEPT ![Target] = @ \cup loaded]
      BY <2>2 DEF RestoreLoad
    <3>3. audit[Target] \subseteq audit'[Target] /\ \A p \in Project \ {Target} : audit'[p] = audit[p]
      BY <2>2 DEF RestoreLoad, Copied, TypeOK
    <3> QED
      BY <2>1, <3>1, <3>2, <3>3 DEF TypeOK
  <2>3. ASSUME NEW part, RestoreLoadPart(part) PROVE GovernedRowsAudited'
    <3>1. dir[restore.run].rows \cap Event \subseteq audit[Target]
      BY <2>3, RunsInRange DEF RestoreLoadPart
    <3> QED
      BY <2>3, <3>1 DEF RestoreLoadPart, TypeOK
  <2>4. CASE RestoreDrop
    BY <2>1, <2>4 DEF RestoreDrop, TypeOK
  <2>5. CASE UNCHANGED <<rows, audit>>
    BY <2>1, <2>5
  <2>6. \/ RestoreLoad \/ RestoreDrop \/ UNCHANGED <<rows, audit>>
        \/ \E part \in SUBSET Row : RestoreLoadPart(part)
    BY <1>3 DEF Restore, RestoreStart, RestoreStop, RestoreClear, RestoreExtract, RestoreExtractPart,
       RestoreUp, RestoreMinio, RestoreFail
  <2> QED
    BY <2>1, <2>2, <2>3, <2>4, <2>5, <2>6
<1>4. CASE ComposeUp
  BY <1>4 DEF ComposeUp
<1> QED
  BY <1>1, <1>2, <1>3, <1>4 DEF Next

\* prune leaves the directory of a run with fewer than Keep later ones.
LEMMA PruneKeepsRecent ==
  ASSUME TypeOK, NEW r \in present, ~Overtaken(r)
  PROVE  r \in Retained(present)
<1>1. started \in Nat /\ present \subseteq 1 .. started /\ r \in 1 .. started /\ Keep \in Nat
  BY BoundAssumption DEF BoundAssumption, TypeOK
<1>2. CASE Keep = 0
  BY <1>2 DEF Retained
<1>3. CASE Keep # 0
  <2> DEFINE later == {s \in present : s > r}
  <2>1. later \subseteq (r + 1) .. started
    <3> SUFFICES ASSUME NEW s \in present, s > r PROVE s \in (r + 1) .. started
      OBVIOUS
    <3>1. s \in Nat /\ s <= started /\ r \in Nat
      BY <1>1
    <3> QED
      BY <1>1, <3>1
  <2>2. IsFiniteSet((r + 1) .. started) /\ Cardinality((r + 1) .. started) = started - r
    <3>1. CASE r + 1 <= started
      BY <1>1, <3>1, FS_Interval
    <3>2. CASE ~(r + 1 <= started)
      <4>1. started = r
        BY <1>1, <3>2
      <4>2. (r + 1) .. started = {}
        BY <1>1, <4>1
      <4> QED
        BY <1>1, <4>1, <4>2, FS_EmptySet
    <3> QED
      BY <3>1, <3>2
  <2>3. IsFiniteSet(later) /\ Cardinality(later) <= started - r
    BY <2>1, <2>2, FS_Subset
  <2>4. Cardinality(later) \in Nat
    BY <2>3, FS_CardinalityType
  <2>5. Cardinality(later) < Keep
    BY <1>1, <1>3, <2>3, <2>4 DEF Overtaken
  <2> QED
    BY <1>3, <2>5 DEF Retained
<1> QED
  BY <1>2, <1>3

\* Whatever later runs, restores and prunes do, a run that is not overtaken
\* keeps its directory as it left it.
LEMMA InTimeStep ==
  ASSUME TypeOK, DirFiles, Survival, Next PROVE \A r \in 1 .. started' : InTime(r)'
<1> USE DEF Survival
<1>0. started \in Nat /\ 1 .. started \subseteq Run /\ Keep \in Nat
  BY RunsInRange, BoundAssumption DEF BoundAssumption
<1>1. CASE App \/ Restore \/ ComposeUp
  <2>1. UNCHANGED <<started, backup>> /\ present \subseteq present'
    BY <1>1, OtherSteps
  <2>2. \A r \in 1 .. started : ~Overtaken(r) => SameFiles(r)
    BY <1>0, <1>1, OtherSteps DEF InTime, Remade
  <2> QED
    BY <2>1, <2>2 DEF InTime, Overtaken, SameFiles, Whole, At
<1>2. CASE BackupStart
  <2>1. started' = started + 1 /\ present' = present \cup {started + 1}
    BY <1>2 DEF BackupStart
  <2>2. \A r \in 1 .. started : dir'[r] = dir[r] /\ backup'[r] = backup[r] /\ (~Overtaken(r)' => ~Overtaken(r))
    BY <1>0, <1>2, <2>1, StartDir DEF Overtaken
  <2>3. backup'[started + 1] = "dump"
    BY <1>2, StartDir
  <2>4. \A r \in 1 .. started' : r \in 1 .. started \/ r = started + 1
    BY <1>0, <2>1
  <2> QED
    BY <2>1, <2>2, <2>3, <2>4 DEF InTime, Whole, At
<1>3. ASSUME NEW r \in Run, BackupDump(r) PROVE \A q \in 1 .. started' : InTime(q)'
  <2>1. UNCHANGED <<started, present>>
    BY <1>3 DEF BackupDump
  <2>2. \A q \in 1 .. started : (q # r => dir'[q] = dir[q]) /\ backup'[q] = IF q = r THEN "tar" ELSE backup[q]
    BY <1>0, <1>3, DumpDir DEF Moves
  <2> QED
    BY <2>1, <2>2 DEF InTime, Overtaken, Whole, At
<1>4. ASSUME NEW r \in Run, BackupTar(r) PROVE \A q \in 1 .. started' : InTime(q)'
  <2>1. started' = started /\ present \subseteq present' /\ At(r, "tar")
    BY <1>4 DEF BackupTar
  <2>2. \A q \in 1 .. started : (q # r => dir'[q] = dir[q])
                                /\ backup'[q] = IF q = r THEN "tarring" ELSE backup[q]
    BY <1>0, <1>4, TarDir DEF Moves
  <2>3. r \in present => dir'[r].dump = "whole" /\ dir'[r].archive = "partial"
    BY <1>4, <2>1, TarFields DEF DirFiles
  <2> QED
    BY <2>1, <2>2, <2>3 DEF InTime, Overtaken, Whole, At
<1>5. ASSUME NEW r \in Run, BackupTarDone(r) PROVE \A q \in 1 .. started' : InTime(q)'
  <2>1. UNCHANGED <<started, present>> /\ At(r, "tarring")
    BY <1>5 DEF BackupTarDone
  <2>2. \A q \in 1 .. started : (q # r => dir'[q] = dir[q])
                                /\ backup'[q] = IF q = r THEN "prune" ELSE backup[q]
    BY <1>0, <1>5, TarDoneDir DEF Moves
  <2>3. r \in present /\ dir[r].dump = "whole" /\ dir[r].archive = "partial" => Whole(r)'
    BY <1>5, TarDoneDir, RunsInRange DEF Directory, Whole
  <2> QED
    BY <2>1, <2>2, <2>3 DEF InTime, Overtaken, Whole, At
<1>6. ASSUME NEW r \in Run, BackupPrune(r) \/ BackupFail(r) PROVE \A q \in 1 .. started' : InTime(q)'
  <2>1. UNCHANGED <<started, dir>> /\ \A q \in present : ~Overtaken(q) => q \in present'
    BY <1>6, PruneKeepsRecent DEF BackupPrune, BackupFail
  <2>2. \A q \in 1 .. started : backup'[q] = IF q = r THEN "idle" ELSE backup[q]
    BY <1>0, <1>6, EndsMove DEF Moves
  <2> QED
    BY <2>1, <2>2 DEF InTime, Overtaken, Whole, At
<1> QED
  BY <1>1, <1>2, <1>3, <1>4, <1>5, <1>6 DEF Next, Backup

\* A backup that completes in time is whole and survives its own prune; until
\* the next prune nothing removes a directory.
LEMMA SurvivesStep ==
  ASSUME TypeOK, DirFiles, Survival, Next PROVE WholeBackupSurvives'
<1> USE DEF WholeBackupSurvives
<1>0. present \subseteq Run /\ 1 .. started \subseteq Run
  BY RunsInRange DEF TypeOK
<1>1. CASE App \/ Restore \/ ComposeUp
  BY <1>0, <1>1, OtherSteps DEF Survival, Whole, SameFiles, Remade
<1>2. CASE BackupStart
  <2>1. \A r \in present : dir'[r] = dir[r] /\ r \in present'
    BY <1>0, <1>2, StartDir, BoundAssumption DEF BoundAssumption, BackupStart, TypeOK
  <2> QED
    BY <1>2, <2>1 DEF BackupStart, ghostVars, Survival, Whole
<1>3. ASSUME NEW r \in Run, BackupDump(r) \/ BackupTar(r) PROVE WholeBackupSurvives'
  <2>1. \A q \in Run : Whole(q) => dir'[q] = dir[q]
    BY <1>3, DumpDir, TarDir DEF BackupDump, BackupTar, DirFiles, Whole
  <2> QED
    BY <1>0, <1>3, <2>1 DEF BackupDump, BackupTar, ghostVars, Survival, Whole
<1>4. ASSUME NEW r \in Run, BackupTarDone(r), ~overtaken' PROVE \E q \in present' : Whole(q)'
  <2>1. ~Overtaken(r) /\ At(r, "tarring") /\ r \in 1 .. started /\ present' = present
    BY <1>4, RunsInRange DEF BackupTarDone, At
  <2>2. r \in present /\ dir[r].dump = "whole" /\ dir[r].archive = "partial"
    BY <2>1 DEF Survival, InTime
  <2>3. Whole(r)'
    BY <1>4, <2>2, TarDoneDir, RunsInRange DEF Directory, Whole
  <2> QED
    BY <2>1, <2>2, <2>3
<1>5. ASSUME NEW r \in Run, BackupPrune(r), ~overtaken' PROVE \E q \in present' : Whole(q)'
  <2>1. ~Overtaken(r) /\ At(r, "prune") /\ r \in 1 .. started
    BY <1>5, RunsInRange DEF BackupPrune, At
  <2>2. r \in present /\ Whole(r)
    BY <2>1 DEF Survival, InTime
  <2>3. r \in present' /\ dir' = dir
    BY <1>5, <2>1, <2>2, PruneKeepsRecent DEF BackupPrune
  <2> QED
    BY <2>2, <2>3 DEF Whole
<1>6. ASSUME NEW r \in Run, BackupFail(r) PROVE WholeBackupSurvives'
  BY <1>6 DEF BackupFail, ghostVars, Survival, Whole
<1> QED
  BY <1>1, <1>2, <1>3, <1>4, <1>5, <1>6 DEF Next, Backup

LEMMA BaseStep == ASSUME Base, [Next]_vars PROVE Base'
<1>1. CASE Next
  <2>1. DirFiles'
    BY <1>1, FilesElsewhere, FilesOfBackup DEF Next, Base
  <2>2. Survival'
    BY <1>1, InTimeStep, SurvivesStep DEF Base, Survival
  <2> QED
    BY <1>1, <2>1, <2>2, TypeStep, AuditStep DEF Base
<1>2. CASE UNCHANGED vars
  BY <1>2 DEF vars, Base, TypeOK, DirFiles, Whole, DumpsAudited, GovernedRowsAudited, Survival, InTime,
     Overtaken, WholeBackupSurvives, At
<1> QED
  BY <1>1, <1>2

LEMMA BaseAlways == Spec => []Base
  BY InitBase, BaseStep, PTL DEF Spec

-----------------------------------------------------------------------------
(***************************************************************************)
(* The volume of the project that the database belongs to.                 *)
(***************************************************************************)
Routed == VolumeOwner = Target

Photos(r) == dir[r].rows \cap Photo

\* What the stopped services leave as it is, while nobody starts them.
StillOut ==
  Target \notin up =>
    /\ restore.pc \in {"drop", "load", "clear", "extract", "up"} => pending[Target] = {}
    /\ restore.pc = "load" => Target \notin laid /\ rows[Target] = {}
    /\ restore.pc \in {"clear", "extract", "up"} =>
         /\ rows[Target] \cap Photo = Photos(restore.run)
         /\ dir[restore.run].rows \subseteq rows[Target]
    /\ restore.pc = "extract" => objects[Target] = {}
    /\ restore.pc = "up" => objects[Target] = dir[restore.run].objects

Quiet == StillOut /\ (restore.pc = "up" => dir[restore.run].archive = "whole")

\* The live project is closed while it is intact, a backup in progress that is
\* steady runs on an intact project, and what it dumps it will archive.
LiveClosed ==
  /\ intact => pending[Target] \subseteq objects[Target]
  /\ intact => rows[Target] \cap Photo \subseteq objects[Target]
  /\ restore.pc \in {"load", "clear", "extract", "up"} => ~intact

RunClosed(r) ==
  dir[r].steady /\ ~At(r, "idle") =>
    /\ intact
    /\ dir[r].dump = "whole" =>
         /\ At(r, "tar") \/ At(r, "tarring") => Photos(r) \subseteq objects[Target]
         /\ At(r, "tarring") => Photos(r) \subseteq dir[r].objects

Closed == LiveClosed /\ (\A r \in Run : RunClosed(r)) /\ BackupIsClosed

Scoped == Quiet /\ Closed

-----------------------------------------------------------------------------
LEMMA ScopedInit == Init => Scoped
<1> SUFFICES ASSUME Init PROVE Scoped
  OBVIOUS
<1>1. pending[Target] = {} /\ rows[Target] = {}
  BY RoutingAssumption DEF RoutingAssumption, Init
<1>2. \A r \in Run : At(r, "idle") /\ ~dir[r].steady
  BY DEF Init, At, NoDirectory
<1> QED
  BY <1>1, <1>2 DEF Init, Scoped, Quiet, StillOut, Closed, LiveClosed, RunClosed, BackupIsClosed

\* A backup leaves the directory that a restore reads as it is, but for a tar
\* still under way.
LEMMA RestoredDir ==
  ASSUME Base, Backup, restore.pc # "idle"
  PROVE  /\ dir'[restore.run].rows = dir[restore.run].rows
         /\ dir[restore.run].archive = "whole" =>
              /\ dir'[restore.run].archive = "whole"
              /\ dir'[restore.run].objects = dir[restore.run].objects
<1>1. /\ restore.run \in Run /\ restore.run # started + 1 /\ dir[restore.run] \in Directory
      /\ ~At(restore.run, "dump") /\ ~At(restore.run, "tar")
  BY RunsInRange DEF Base, TypeOK, DirFiles
<1>2. CASE BackupStart
  BY <1>1, <1>2, StartDir DEF Base
<1>3. ASSUME NEW r \in Run, BackupDump(r) \/ BackupTar(r) PROVE dir'[restore.run] = dir[restore.run]
  <2>1. r # restore.run
    BY <1>1, <1>3 DEF BackupDump, BackupTar
  <2> QED
    BY <1>1, <1>3, <2>1, DumpDir, TarDir DEF Base
<1>4. ASSUME NEW r \in Run, BackupTarDone(r)
      PROVE  /\ dir'[restore.run].rows = dir[restore.run].rows
             /\ dir[restore.run].archive = "whole" => dir'[restore.run] = dir[restore.run]
  BY <1>1, <1>4, TarDoneDir DEF Base, Directory
<1>5. ASSUME NEW r \in Run, BackupPrune(r) \/ BackupFail(r) PROVE dir' = dir
  BY <1>5, EndsMove DEF Base
<1> QED
  BY <1>2, <1>3, <1>4, <1>5 DEF Backup

LEMMA QuietOfBackup == ASSUME Base, Quiet, Backup PROVE Quiet'
<1>1. UNCHANGED <<rows, objects, laid, up, pending, restore>>
  BY BackupFrame
<1> QED
  BY <1>1, RestoredDir DEF Quiet, StillOut, Photos

LEMMA ClosedOfBackup == ASSUME Base, Routed, Closed, Backup PROVE Closed'
<1> USE DEF Closed
<1>0. UNCHANGED <<rows, objects, pending, restore, intact>> /\ LiveClosed' /\ TypeOK /\ DirFiles
  BY BackupFrame DEF LiveClosed, Base
<1>1. SUFFICES \A r \in Run : RunClosed(r)' /\ (Whole(r)' /\ dir'[r].steady => Photos(r)' \subseteq dir'[r].objects)
  BY <1>0 DEF BackupIsClosed, Photos
<1>2. \A q \in Run : dir'[q] = dir[q] /\ (backup'[q] = backup[q] \/ backup'[q] = "idle") =>
        RunClosed(q)' /\ (Whole(q)' /\ dir'[q].steady => Photos(q)' \subseteq dir'[q].objects)
  BY <1>0 DEF RunClosed, At, Photos, Whole, BackupIsClosed
<1>3. CASE BackupStart
  <2>1. /\ dir'[started + 1].dump = "partial" /\ dir'[started + 1].steady = intact
        /\ \A q \in Run : q # started + 1 => dir'[q] = dir[q] /\ backup'[q] = backup[q]
    BY <1>0, <1>3, StartDir DEF NoDirectory
  <2>2. \A q \in Run : q = started + 1 => RunClosed(q)' /\ ~Whole(q)'
    BY <1>0, <2>1 DEF RunClosed, Whole
  <2> QED
    BY <1>2, <2>1, <2>2
<1>4. ASSUME NEW r \in Run, BackupDump(r)
      PROVE \A q \in Run : RunClosed(q)' /\ (Whole(q)' /\ dir'[q].steady => Photos(q)' \subseteq dir'[q].objects)
  <2>1. /\ dir[r].dump = "partial" /\ dir[r].archive = "absent" /\ dir[r] \in Directory
        /\ At(r, "dump") /\ backup'[r] = "tar"
        /\ \A q \in Run : q # r => dir'[q] = dir[q] /\ backup'[q] = backup[q]
    <3>1. At(r, "dump") /\ dir[r].dump = "partial" /\ dir[r].archive = "absent" /\ dir[r] \in Directory
      BY <1>0, <1>4, RunsInRange DEF BackupDump, DirFiles
    <3> QED
      BY <1>0, <1>4, <3>1, DumpDir DEF Moves
  <2>2. /\ dir'[r].steady = dir[r].steady /\ dir'[r].archive = "absent"
        /\ dir'[r].dump = "whole" => dir'[r].rows = rows[Target]
    <3>1. dir'[r] = IF r \in present
                    THEN [dir[r] EXCEPT !.dump = "whole", !.rows = rows[Target], !.audit = audit[Target]]
                    ELSE dir[r]
      BY <1>0, <1>4, DumpDir
    <3> QED
      BY <2>1, <3>1 DEF Directory
  <2>3. RunClosed(r)'
    BY <1>0, <2>1, <2>2 DEF RunClosed, LiveClosed, At, Photos
  <2> QED
    BY <1>2, <2>1, <2>2, <2>3 DEF Whole
<1>5. ASSUME NEW r \in Run, BackupTar(r)
      PROVE \A q \in Run : RunClosed(q)' /\ (Whole(q)' /\ dir'[q].steady => Photos(q)' \subseteq dir'[q].objects)
  <2>1. /\ At(r, "tar") /\ backup'[r] = "tarring"
        /\ \A q \in Run : q # r => dir'[q] = dir[q] /\ backup'[q] = backup[q]
    BY <1>0, <1>5, TarDir DEF BackupTar, Moves
  <2>2. /\ dir'[r].dump = (IF r \in present THEN dir[r].dump ELSE "absent")
        /\ dir'[r].archive = "partial" /\ dir'[r].objects = objects[Target]
        /\ dir'[r].rows = dir[r].rows /\ dir'[r].steady = dir[r].steady
    BY <1>0, <1>5, TarFields DEF Routed
  <2>3. RunClosed(r)'
    BY <1>0, <2>1, <2>2 DEF RunClosed, At, Photos
  <2> QED
    BY <1>2, <2>1, <2>2, <2>3 DEF Whole
<1>6. ASSUME NEW r \in Run, BackupTarDone(r)
      PROVE \A q \in Run : RunClosed(q)' /\ (Whole(q)' /\ dir'[q].steady => Photos(q)' \subseteq dir'[q].objects)
  <2>0. dir[r] \in Directory /\ At(r, "tarring")
    BY <1>0, <1>6, RunsInRange DEF BackupTarDone
  <2>1. backup'[r] = "prune" /\ \A q \in Run : q # r => dir'[q] = dir[q] /\ backup'[q] = backup[q]
    BY <1>0, <1>6, TarDoneDir DEF Moves
  <2>2. PICK seen \in SUBSET Photo :
          /\ dir[r].objects \cap objects[Target] \subseteq seen
          /\ dir'[r] = IF r \in present /\ dir[r].archive = "partial"
                       THEN [dir[r] EXCEPT !.archive = "whole", !.objects = seen] ELSE dir[r]
    BY <1>0, <1>6, TarDoneDir DEF Routed
  <2>3. CASE dir'[r] = dir[r]
    BY <1>0, <1>2, <2>0, <2>1, <2>3 DEF RunClosed, At, Whole, Photos, BackupIsClosed
  <2>4. CASE dir'[r] # dir[r]
    <3>1. /\ dir'[r].dump = dir[r].dump /\ dir'[r].rows = dir[r].rows
          /\ dir'[r].steady = dir[r].steady /\ dir'[r].objects = seen
      BY <2>0, <2>2, <2>4 DEF Directory
    <3>2. Whole(r)' /\ dir'[r].steady => Photos(r)' \subseteq dir'[r].objects
      BY <2>0, <2>2, <3>1 DEF RunClosed, Whole, Photos, At
    <3>3. RunClosed(r)'
      BY <1>0, <2>0, <2>1, <3>1 DEF RunClosed, At
    <3> QED
      BY <1>2, <2>1, <3>2, <3>3
  <2> QED
    BY <2>3, <2>4
<1>7. ASSUME NEW r \in Run, BackupPrune(r) \/ BackupFail(r)
      PROVE \A q \in Run : RunClosed(q)' /\ (Whole(q)' /\ dir'[q].steady => Photos(q)' \subseteq dir'[q].objects)
  <2>1. \A q \in Run : dir'[q] = dir[q] /\ (backup'[q] = backup[q] \/ backup'[q] = "idle")
    BY <1>0, <1>7, EndsMove DEF Moves
  <2> QED
    BY <1>2, <2>1
<1> QED
  BY <1>1, <1>3, <1>4, <1>5, <1>6, <1>7 DEF Backup

LEMMA ScopedOfApp == ASSUME TypeOK, Scoped, App PROVE Scoped'
<1> USE RoutingAssumption DEF RoutingAssumption, Scoped, Closed
<1>1. UNCHANGED <<laid, up, dir, backup, restore, intact>>
  BY DEF App, PutObject, InsertRow, GovernedWrite, ghostVars
<1>2. objects[Target] \subseteq objects'[Target]
  BY DEF App, PutObject, InsertRow, GovernedWrite, TypeOK
<1>3. (\A r \in Run : RunClosed(r)') /\ BackupIsClosed'
  BY <1>1, <1>2 DEF RunClosed, BackupIsClosed, Whole, Photos, At
<1>4. ASSUME NEW p \in Project, NEW x \in Photo, PutObject(p, x) PROVE Quiet' /\ LiveClosed'
  <2>1. /\ rows' = rows /\ p \in up
        /\ objects'[Target] = IF p = Target THEN objects[Target] \cup {x} ELSE objects[Target]
        /\ pending'[Target] = IF p = Target THEN pending[Target] \cup {x} ELSE pending[Target]
    BY <1>4 DEF PutObject, TypeOK
  <2> QED
    BY <1>1, <2>1 DEF Quiet, StillOut, LiveClosed, Photos
<1>5. ASSUME NEW p \in Project, NEW x \in Photo, InsertRow(p, x) PROVE Quiet' /\ LiveClosed'
  <2>1. /\ objects' = objects /\ p \in up /\ x \in pending[p]
        /\ rows'[Target] = IF p = Target THEN rows[Target] \cup {x} ELSE rows[Target]
        /\ pending'[Target] = IF p = Target THEN pending[Target] \ {x} ELSE pending[Target]
    BY <1>5 DEF InsertRow, TypeOK
  <2> QED
    BY <1>1, <2>1 DEF Quiet, StillOut, LiveClosed, Photos
<1>6. ASSUME NEW p \in Project, NEW e \in Event, GovernedWrite(p, e) PROVE Quiet' /\ LiveClosed'
  <2>1. /\ objects' = objects /\ pending' = pending /\ p \in laid /\ e \notin Photo
        /\ rows'[Target] = IF p = Target THEN rows[Target] \cup {e} ELSE rows[Target]
    BY <1>6, DataAssumption DEF DataAssumption, GovernedWrite, TypeOK
  <2>2. rows'[Target] \cap Photo = rows[Target] \cap Photo /\ rows[Target] \subseteq rows'[Target]
    BY <2>1
  <2> QED
    BY <1>1, <2>1, <2>2 DEF Quiet, StillOut, LiveClosed, Photos
<1> QED
  BY <1>3, <1>4, <1>5, <1>6 DEF App

\* What a restore does to directories: a backup in progress is not steady any
\* more after a destructive step.
LEMMA ClosedOfDirs ==
  ASSUME TypeOK, Closed, UNCHANGED backup,
         \A r \in Run : /\ dir'[r].rows = dir[r].rows /\ dir'[r].objects = dir[r].objects
                        /\ dir'[r].steady => dir[r].steady
                        /\ ~At(r, "idle") => ~dir'[r].steady
                        /\ Whole(r)' => Whole(r)
  PROVE  (\A r \in Run : RunClosed(r)') /\ BackupIsClosed'
BY DEF Closed, RunClosed, BackupIsClosed, At

LEMMA ScopedOfRestore == ASSUME Base, Routed, Scoped, Restore PROVE Scoped'
<1> USE RoutingAssumption DEF RoutingAssumption, Scoped, Closed, dataVars, appVars, ghostVars,
        RestoreAt, RestoreGoto, Routed
<1>0. restore.pc # "idle" => restore.run \in Run
  BY RunsInRange DEF Base
<1>a. TypeOK /\ restore \in [pc : {"idle", "stop", "drop", "load", "clear", "extract", "up", "minio"}, run : Nat]
      /\ dir \in [Run -> Directory]
  BY DEF Base, TypeOK
<1>1. ASSUME NEW r \in Run, RestoreStart(r) PROVE Scoped'
  <2>1. restore'.pc = "stop" /\ UNCHANGED <<dataVars, appVars, dir, backup, intact>>
    BY <1>1 DEF RestoreStart
  <2> QED
    BY <2>1 DEF Quiet, StillOut, LiveClosed, RunClosed, BackupIsClosed, Whole, Photos, At
<1>2. CASE RestoreStop
  <2>1. /\ restore'.pc = "drop" /\ UNCHANGED <<dataVars, dir, backup, intact>> /\ pending'[Target] = {}
    BY <1>2, <1>a DEF RestoreStop, TypeOK
  <2> QED
    BY <2>1 DEF Quiet, StillOut, LiveClosed, RunClosed, BackupIsClosed, Whole, Photos, At
<1>3. CASE RestoreMinio \/ RestoreFail
  <2>1. restore'.pc = "idle" /\ UNCHANGED <<dataVars, appVars, dir, backup, intact>>
    BY <1>3 DEF RestoreMinio, RestoreFail
  <2> QED
    BY <2>1 DEF Quiet, StillOut, LiveClosed, RunClosed, BackupIsClosed, Whole, Photos, At
<1>4. ASSUME RestoreDrop \/ RestoreLoad \/ RestoreExtract
             \/ (\E part : RestoreLoadPart(part)) \/ (\E part : RestoreExtractPart(part))
      PROVE  /\ \A r \in Run : /\ dir'[r].dump = dir[r].dump /\ dir'[r].archive = dir[r].archive
                               /\ dir'[r].rows = dir[r].rows /\ dir'[r].objects = dir[r].objects
             /\ (\A r \in Run : RunClosed(r)') /\ BackupIsClosed'
  <2>1. dir' = Torn(dir) /\ UNCHANGED backup
    BY <1>4 DEF RestoreDrop, RestoreLoad, RestoreExtract, RestoreLoadPart, RestoreExtractPart
  <2>2. \A r \in Run : /\ dir'[r].dump = dir[r].dump /\ dir'[r].archive = dir[r].archive
                       /\ dir'[r].rows = dir[r].rows /\ dir'[r].objects = dir[r].objects
                       /\ dir'[r].steady => dir[r].steady
                       /\ ~At(r, "idle") => ~dir'[r].steady
    BY <1>a, <2>1, TornFields
  <2> QED
    BY <1>a, <2>1, <2>2, ClosedOfDirs DEF Whole
<1>5. CASE RestoreDrop
  <2>1. /\ restore'.pc = "load" /\ rows'[Target] = {} /\ Target \notin laid' /\ intact' = FALSE
        /\ restore.pc = "drop" /\ UNCHANGED <<pending, up>>
    BY <1>5, <1>a DEF RestoreDrop, TypeOK
  <2> QED
    BY <1>4, <1>5, <2>1 DEF Quiet, StillOut, LiveClosed
<1>6. CASE RestoreLoad
  <2>1. /\ restore.pc = "load" /\ restore'.pc = "clear" /\ restore'.run = restore.run
        /\ UNCHANGED <<objects, up, pending, intact>>
    BY <1>6, <1>a DEF RestoreLoad
  <2>2. Target \notin up => rows'[Target] = dir[restore.run].rows
    BY <1>6, <1>a, <2>1 DEF RestoreLoad, Quiet, StillOut, TypeOK
  <2> QED
    BY <1>0, <1>4, <1>6, <2>1, <2>2 DEF Quiet, StillOut, LiveClosed, Photos
<1>7. ASSUME NEW part \in SUBSET Row, RestoreLoadPart(part) PROVE Scoped'
  <2>1. restore.pc = "load" /\ restore'.pc = "idle" /\ UNCHANGED <<objects, up, pending, intact>>
    BY <1>7 DEF RestoreLoadPart
  <2> QED
    BY <1>4, <1>7, <2>1 DEF Quiet, StillOut, LiveClosed
<1>8. CASE RestoreClear
  <2>1. /\ restore.pc = "clear" /\ restore'.pc = "extract" /\ restore'.run = restore.run
        /\ UNCHANGED <<rows, laid, up, pending, intact, backup>> /\ objects'[Target] = {}
    BY <1>8, <1>a DEF RestoreClear, TypeOK
  <2>2. /\ \A r \in Run : /\ dir'[r].rows = dir[r].rows /\ dir'[r].objects = dir[r].objects
                          /\ dir'[r].steady => dir[r].steady
                          /\ ~At(r, "idle") => ~dir'[r].steady
                          /\ Whole(r)' => Whole(r)
    BY <1>8, <1>a, ClearDir DEF Whole
  <2>3. (\A r \in Run : RunClosed(r)') /\ BackupIsClosed'
    BY <1>a, <2>1, <2>2, ClosedOfDirs
  <2> QED
    BY <1>0, <2>1, <2>2, <2>3 DEF Quiet, StillOut, LiveClosed, Photos
<1>9. CASE RestoreExtract
  <2>1. /\ restore.pc = "extract" /\ restore'.pc = "up" /\ restore'.run = restore.run
        /\ UNCHANGED <<rows, up, pending, intact>> /\ dir[restore.run].archive = "whole"
        /\ objects'[Target] = objects[Target] \cup dir[restore.run].objects
    BY <1>9, <1>a DEF RestoreExtract, TypeOK
  <2> QED
    BY <1>0, <1>4, <1>9, <2>1 DEF Quiet, StillOut, LiveClosed, Photos
<1>10. ASSUME NEW part \in SUBSET Photo, RestoreExtractPart(part) PROVE Scoped'
  <2>1. restore.pc = "extract" /\ restore'.pc = "idle" /\ UNCHANGED <<rows, up, pending, intact>>
    BY <1>10 DEF RestoreExtractPart
  <2> QED
    BY <1>4, <1>10, <2>1 DEF Quiet, StillOut, LiveClosed
<1>11. CASE RestoreUp
  <2>1. /\ restore.pc = "up" /\ restore'.pc = "minio" /\ UNCHANGED <<dataVars, pending, dir, backup>>
        /\ intact' = (dir[restore.run].steady /\ Target \notin up)
    BY <1>11, <1>a DEF RestoreUp
  <2>2. \A r \in Run : RunClosed(r)'
    BY <2>1 DEF LiveClosed, RunClosed, At, Photos
  <2>3. intact' => Photos(restore.run) \subseteq dir[restore.run].objects
    <3>1. Whole(restore.run)
      BY <2>1 DEF Quiet, Base, DirFiles, Whole
    <3> QED
      BY <1>0, <2>1, <3>1 DEF BackupIsClosed, Photos
  <2>4. LiveClosed'
    BY <2>1, <2>3 DEF Quiet, StillOut, LiveClosed
  <2> QED
    BY <2>1, <2>2, <2>4 DEF Quiet, StillOut, BackupIsClosed, Whole
<1> QED
  BY <1>1, <1>2, <1>3, <1>5, <1>6, <1>7, <1>8, <1>9, <1>10, <1>11 DEF Restore

LEMMA ScopedStep == ASSUME Base, Base', Routed, Scoped, [Next]_vars PROVE Scoped'
<1>1. CASE ComposeUp
  <2>1. Target \in up' /\ UNCHANGED <<rows, objects, pending, dir, backup, restore, intact>>
    BY <1>1 DEF ComposeUp
  <2> QED
    BY <2>1 DEF Scoped, Quiet, StillOut, Closed, LiveClosed, RunClosed, BackupIsClosed, Whole, Photos, At
<1>2. CASE UNCHANGED vars
  BY <1>2 DEF vars, Scoped, Quiet, StillOut, Closed, LiveClosed, RunClosed, BackupIsClosed, Whole,
     Photos, At
<1> QED
  BY <1>1, <1>2, ScopedOfApp, QuietOfBackup, ClosedOfBackup, ScopedOfRestore DEF Next, Base, Scoped

LEMMA ScopedAlways == ASSUME Routed PROVE Spec => []Scoped
<1>1. Base /\ Base' /\ Scoped /\ [Next]_vars => Scoped'
  BY ScopedStep
<1> QED
  BY <1>1, ScopedInit, BaseAlways, PTL DEF Spec

-----------------------------------------------------------------------------
\* Type correctness, for any number of overlapping runs (BackupRestore!TypeOK).
THEOREM TypeCorrect == Spec => []TypeOK
<1>1. Base => TypeOK
  BY DEF Base
<1> QED
  BY <1>1, BaseAlways, PTL

\* A restore never feeds psql a truncated dump: restore.py's test for the two
\* files is enough (restore.py:31), for any number of runs, overlapping,
\* failing and pruned in any order.
THEOREM RestoresAreOfWholeDumps == Spec => []RestoresWholeDump
<1>1. Base => RestoresWholeDump
  BY DEF Base, DirFiles, RestoresWholeDump
<1> QED
  BY <1>1, BaseAlways, PTL

\* No governed row without its audit event, across any sequence of backups,
\* restores, half restores and failures.
THEOREM RowsStayAudited == Spec => []GovernedRowsAudited
<1>1. Base => GovernedRowsAudited
  BY DEF Base
<1> QED
  BY <1>1, BaseAlways, PTL

\* Once a backup has completed, prune always leaves a whole one, for every
\* value of --keep and any number of overlapping runs, as long as no run
\* completes after --keep later ones have been started.
THEOREM PruneLeavesWhole == Spec => []WholeBackupSurvives
<1>1. Base => WholeBackupSurvives
  BY DEF Base, Survival
<1> QED
  BY <1>1, BaseAlways, PTL

\* When both halves are back, and nobody has started what restore.py stopped,
\* the stopped services have no part in the data: their rows and the objects
\* are the backup's, whatever governed-verifier wrote meanwhile.
THEOREM StoppedServicesAreOut == ASSUME Routed PROVE Spec => []StoppedServicesStayOut
<1>1. Scoped => StoppedServicesStayOut
  BY DEF Scoped, Quiet, StillOut, StoppedServicesStayOut, Photos
<1> QED
  BY <1>1, ScopedAlways, PTL

\* No finished backup that ran on an intact project holds an attachment row
\* without its photo, with any number of concurrent uploads and other runs.
THEOREM BackupsAreClosed == ASSUME Routed PROVE Spec => []BackupIsClosed
<1>1. Scoped => BackupIsClosed
  BY DEF Scoped, Closed
<1> QED
  BY <1>1, ScopedAlways, PTL
=============================================================================
