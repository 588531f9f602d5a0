---------------------------- MODULE BackupRestore ----------------------------
(***************************************************************************)
(* scripts/backup.py and scripts/restore.py, run against the live stack,   *)
(* with the routing that scripts/backup_restore_e2e.py and                 *)
(* scripts/multitenant.py give them.                                       *)
(*                                                                         *)
(* A backup run is one directory under .local/backups: a pg_dump of the    *)
(* whole database, then a tar of the object volume, then a prune of the    *)
(* older directories.  A restore stops eight services, drops five schemas, *)
(* loads the dump, replaces the content of the object volume and starts    *)
(* everything again.  Nothing locks: backups overlap with each other and   *)
(* with a restore, `compose up` comes at any moment, and every script may  *)
(* stop at any step (a failing subprocess raises).                         *)
(*                                                                         *)
(* The compose commands act on the project Target; the `docker run -v`     *)
(* commands mount the volume of VolumeOwner.                               *)
(*                                                                         *)
(* Assumed, since no code ensures it: one restore at a time (an operator   *)
(* confirms it at a prompt), and no two backups started within the same    *)
(* second (they would share a directory).                                  *)
(***************************************************************************)
EXTENDS Naturals, FiniteSets

CONSTANTS
  Project,       \* compose projects on this host
  Target,        \* the project `docker compose` resolves to
  VolumeOwner,   \* the project whose minio_data volume is mounted by name
  Photo,         \* photo objects; an attachment row carries its object's name
  Event,         \* governed mutations: a row in schema stir and an audit event
  Keep,          \* backup.py --keep
  MaxRuns        \* bound: backup runs started

ASSUME RoutingAssumption == Target \in Project /\ VolumeOwner \in Project
ASSUME DataAssumption == Photo \cap Event = {}
ASSUME BoundAssumption == Keep \in Nat /\ MaxRuns \in Nat

VARIABLES
  rows,      \* [Project -> rows of the five schemas restore.py drops]
  audit,     \* [Project -> rows of stir_audit.mutation_event]
  objects,   \* [Project -> objects in the minio_data volume]
  laid,      \* projects whose five schemas exist and are granted to services
  up,        \* projects in which the services that restore.py stops are running
  pending,   \* [Project -> uploads with an object and no row yet]
  used,      \* photos and events created so far (names are never reused)
  dir,       \* [1 .. MaxRuns -> content of a backup directory]
  started,   \* number of backup runs started; a larger run has a later name
  present,   \* backup directories on disk
  backup,    \* [Run -> where the backup.py process of that run is]
  restore,   \* [pc, run]: the restore.py process
  intact,    \* ghost: Target is not half restored, nor restored from a torn
             \* run or under running services
  completed, \* ghost: some backup run has reached "Backup complete"
  overtaken  \* ghost: some run reached it after Keep later ones had started

dataVars == <<rows, audit, objects, laid>>
appVars == <<up, pending, used>>
ghostVars == <<completed, overtaken>>
vars == <<rows, audit, objects, laid, up, pending, used, dir, started, present,
          backup, restore, intact, completed, overtaken>>

Run == 1 .. MaxRuns
File == {"absent", "partial", "whole"}
Row == Photo \cup Event
Directory == [dump : File, archive : File, rows : SUBSET Row,
              audit : SUBSET Event, objects : SUBSET Photo, steady : BOOLEAN]
NoDirectory == [dump |-> "absent", archive |-> "absent", rows |-> {},
                audit |-> {}, objects |-> {}, steady |-> FALSE]

Init ==
  /\ rows = [p \in Project |-> {}]
  /\ audit = [p \in Project |-> {}]
  /\ objects = [p \in Project |-> {}]
  /\ laid = Project
  /\ up = Project
  /\ pending = [p \in Project |-> {}]
  /\ used = {}
  /\ dir = [r \in Run |-> NoDirectory]
  /\ started = 0
  /\ present = {}
  /\ backup = [r \in Run |-> "idle"]
  /\ restore = [pc |-> "idle", run |-> 0]
  /\ intact = TRUE
  /\ completed = FALSE
  /\ overtaken = FALSE

(***************************************************************************)
(* The application, which writes while the scripts run.  An upload stores  *)
(* its object first; its attachment row becomes ACTIVE in the transaction  *)
(* that ends the request.  A governed mutation writes its row and, in the  *)
(* same transaction, its audit event; it is the work of governed-verifier  *)
(* too, which restore.py does not stop.                                    *)
(***************************************************************************)
PutObject(p, x) ==
  /\ p \in up
  /\ x \in Photo \ used
  /\ objects' = [objects EXCEPT ![p] = @ \cup {x}]
  /\ pending' = [pending EXCEPT ![p] = @ \cup {x}]
  /\ used' = used \cup {x}
  /\ UNCHANGED <<rows, audit, laid, up, dir, started, present, backup, restore,
                 intact, ghostVars>>

InsertRow(p, x) ==
  /\ p \in up \cap laid
  /\ x \in pending[p]
  /\ rows' = [rows EXCEPT ![p] = @ \cup {x}]
  /\ pending' = [pending EXCEPT ![p] = @ \ {x}]
  /\ UNCHANGED <<audit, objects, laid, up, used, dir, started, present, backup,
                 restore, intact, ghostVars>>

GovernedWrite(p, e) ==
  /\ p \in laid
  /\ e \in Event \ used
  /\ rows' = [rows EXCEPT ![p] = @ \cup {e}]
  /\ audit' = [audit EXCEPT ![p] = @ \cup {e}]
  /\ used' = used \cup {e}
  /\ UNCHANGED <<objects, laid, up, pending, dir, started, present, backup,
                 restore, intact, ghostVars>>

(***************************************************************************)
(* backup.py, the run with directory r.  A later run may have pruned that  *)
(* directory: what is written into an open file of it is then lost.        *)
(***************************************************************************)
At(r, pc) == backup[r] = pc
Goto(r, pc) == backup' = [backup EXCEPT ![r] = pc]

\* out.mkdir, then postgres.sql is opened for writing before pg_dump starts.
BackupStart ==
  /\ started < MaxRuns
  /\ started' = started + 1
  /\ present' = present \cup {started + 1}
  /\ dir' = [dir EXCEPT ![started + 1] =
               [NoDirectory EXCEPT !.dump = "partial", !.steady = intact]]
  /\ Goto(started + 1, "dump")
  /\ UNCHANGED <<dataVars, appVars, restore, intact, ghostVars>>

\* pg_dump reads one snapshot of the whole database of the target project.
BackupDump(r) ==
  /\ At(r, "dump")
  /\ dir' = IF r \in present
            THEN [dir EXCEPT ![r].dump = "whole", ![r].rows = rows[Target],
                             ![r].audit = audit[Target]]
            ELSE dir
  /\ Goto(r, "tar")
  /\ UNCHANGED <<dataVars, appVars, started, present, restore, intact, ghostVars>>

\* tar opens its output and starts to walk the volume.  `docker run -v` makes
\* a directory that is not there, without the dump it once had.
BackupTar(r) ==
  /\ At(r, "tar")
  /\ dir' = [dir EXCEPT ![r].dump = IF r \in present THEN @ ELSE "absent",
                        ![r].archive = "partial",
                        ![r].objects = objects[VolumeOwner]]
  /\ present' = present \cup {r}
  /\ Goto(r, "tarring")
  /\ UNCHANGED <<dataVars, appVars, started, restore, intact, ghostVars>>

\* Run r is overtaken when --keep later ones have been started.
Overtaken(r) == Keep # 0 /\ started >= r + Keep

\* Mutant: the archive is taken before the dump.
BugTarBeforeDump(r) ==
  /\ At(r, "tarring")
  /\ dir' = [dir EXCEPT ![r].archive = "whole", ![r].rows = rows[Target],
                        ![r].audit = audit[Target]]
  /\ Goto(r, "prune")
  /\ completed' = TRUE
  /\ overtaken' = (overtaken \/ Overtaken(r))
  /\ UNCHANGED <<dataVars, appVars, started, present, restore, intact>>

\* The walk ends.  It certainly saw what was there from end to end, and any
\* part of what appeared or disappeared meanwhile.
BackupTarDone(r) ==
  /\ At(r, "tarring")
  /\ LET before == dir[r].objects
         after == objects[VolumeOwner]
     IN \E seen \in SUBSET (before \cup after) :
          /\ before \cap after \subseteq seen
          /\ dir' = IF r \in present /\ dir[r].archive = "partial"
                    THEN [dir EXCEPT ![r].archive = "whole", ![r].objects = seen]
                    ELSE dir
  /\ Goto(r, "prune")
  /\ completed' = TRUE
  /\ overtaken' = (overtaken \/ Overtaken(r))
  /\ UNCHANGED <<dataVars, appVars, started, present, restore, intact>>

\* Mutant: prune keeps the first Keep names (runs[keep:] are removed).
BugRetainOldest(runs) ==
  IF Keep = 0 THEN runs
  ELSE {r \in runs : Cardinality({s \in runs : s < r}) < Keep}

\* The runs prune(keep) leaves: the last Keep names, all of them for 0.
Retained(runs) ==
  IF Keep = 0 THEN runs
  ELSE {r \in runs : Cardinality({s \in runs : s > r}) < Keep}

BackupPrune(r) ==
  /\ At(r, "prune")
  /\ present' = Retained(present)
  /\ overtaken' = (overtaken \/ Overtaken(r))
  /\ Goto(r, "idle")
  /\ UNCHANGED <<dataVars, appVars, dir, started, restore, intact, completed>>

\* A failing or killed subprocess ends the script and leaves the directory as
\* it is; so does a prune that meets another one's rmtree.
BackupFail(r) ==
  /\ ~At(r, "idle")
  /\ Goto(r, "idle")
  /\ UNCHANGED <<dataVars, appVars, dir, started, present, restore, intact,
                 ghostVars>>

(***************************************************************************)
(* restore.py                                                              *)
(***************************************************************************)
RestoreAt(pc) == restore.pc = pc
RestoreGoto(pc) == restore' = [restore EXCEPT !.pc = pc]

\* The directories d, in which those of the backups in progress are torn: a
\* destructive restore step has overtaken them, and they are not a picture of
\* one state any more.
Torn(d) == [r \in Run |-> IF At(r, "idle") THEN d[r]
                         ELSE [d[r] EXCEPT !.steady = FALSE]]

\* Mutant: the files are not looked for.
BugRestoreUnchecked(r) ==
  /\ RestoreAt("idle")
  /\ restore' = [pc |-> "stop", run |-> r]
  /\ UNCHANGED <<dataVars, appVars, dir, started, present, backup, intact,
                 ghostVars>>

\* Both files must exist, whatever they hold; the operator has confirmed.
RestoreStart(r) ==
  /\ RestoreAt("idle")
  /\ r \in present
  /\ dir[r].dump # "absent"
  /\ dir[r].archive # "absent"
  /\ restore' = [pc |-> "stop", run |-> r]
  /\ UNCHANGED <<dataVars, appVars, dir, started, present, backup, intact,
                 ghostVars>>

\* stir and seven others are stopped; governed-verifier is not one of them.
RestoreStop ==
  /\ RestoreAt("stop")
  /\ up' = up \ {Target}
  /\ pending' = [pending EXCEPT ![Target] = {}]
  /\ RestoreGoto("drop")
  /\ UNCHANGED <<dataVars, used, dir, started, present, backup, intact,
                 ghostVars>>

\* The five schemas go; stir_audit is not one of them.
RestoreDrop ==
  /\ RestoreAt("drop")
  /\ rows' = [rows EXCEPT ![Target] = {}]
  /\ laid' = laid \ {Target}
  /\ intact' = FALSE
  /\ dir' = Torn(dir)
  /\ RestoreGoto("load")
  /\ UNCHANGED <<audit, objects, appVars, started, present, backup, ghostVars>>

\* psql runs without ON_ERROR_STOP: the COPY into the audit table, which is
\* still there, is rejected as a whole on the first duplicate key, and the
\* script goes on.
Copied(table, dumped) ==
  IF table \cap dumped = {} THEN table \cup dumped ELSE table

\* The dump is opened: it may have been pruned meanwhile.
DumpOpens == restore.run \in present /\ dir[restore.run].dump # "absent"

\* Mutant: the audit schema is recreated too, and left empty.
BugAuditReset ==
  /\ RestoreAt("load")
  /\ DumpOpens
  /\ rows' = [rows EXCEPT ![Target] = @ \cup dir[restore.run].rows]
  /\ audit' = [audit EXCEPT ![Target] = {}]
  /\ laid' = laid \cup {Target}
  /\ dir' = Torn(dir)
  /\ RestoreGoto("clear")
  /\ UNCHANGED <<objects, appVars, started, present, backup, intact, ghostVars>>

\* Into dropped schemas the whole dump is loaded.  Where a `compose up` has had
\* them migrated meanwhile, each COPY may be rejected.
RestoreLoad ==
  /\ RestoreAt("load")
  /\ DumpOpens
  /\ \E loaded \in SUBSET dir[restore.run].rows :
       /\ Target \notin laid => loaded = dir[restore.run].rows
       /\ rows' = [rows EXCEPT ![Target] = @ \cup loaded]
  /\ audit' = [audit EXCEPT ![Target] = Copied(@, dir[restore.run].audit)]
  /\ laid' = laid \cup {Target}
  /\ dir' = Torn(dir)
  /\ RestoreGoto("clear")
  /\ UNCHANGED <<objects, appVars, started, present, backup, intact, ghostVars>>

\* psql is cut off: the tables come in the order of their schemas, the audit
\* table last, each statement in a transaction of its own.  The grants come
\* after all tables, so that no service can use them yet.
RestoreLoadPart(part) ==
  /\ RestoreAt("load")
  /\ DumpOpens
  /\ part \subseteq dir[restore.run].rows
  /\ rows' = [rows EXCEPT ![Target] = @ \cup part]
  /\ dir' = Torn(dir)
  /\ restore' = [pc |-> "idle", run |-> 0]
  /\ UNCHANGED <<audit, objects, laid, appVars, started, present, backup, intact,
                 ghostVars>>

\* Mutant: the archive is unpacked over the objects that are there.
BugRestoreOverlays ==
  /\ RestoreAt("clear")
  /\ RestoreGoto("extract")
  /\ UNCHANGED <<dataVars, appVars, dir, started, present, backup, intact,
                 ghostVars>>

\* rm -rf /data/* in the alpine container.  `docker run -v` makes the backup's
\* directory, empty, if it was pruned.
RestoreClear ==
  /\ RestoreAt("clear")
  /\ objects' = [objects EXCEPT ![VolumeOwner] = {}]
  /\ dir' = Torn(IF restore.run \in present THEN dir
                 ELSE [dir EXCEPT ![restore.run].dump = "absent",
                                  ![restore.run].archive = "absent"])
  /\ present' = present \cup {restore.run}
  /\ RestoreGoto("extract")
  /\ UNCHANGED <<rows, audit, laid, appVars, started, backup, intact, ghostVars>>

\* tar xzf, of an archive that is there and whole.
RestoreExtract ==
  /\ RestoreAt("extract")
  /\ restore.run \in present
  /\ dir[restore.run].archive = "whole"
  /\ objects' = [objects EXCEPT ![VolumeOwner] = @ \cup dir[restore.run].objects]
  /\ dir' = Torn(dir)
  /\ RestoreGoto("up")
  /\ UNCHANGED <<rows, audit, laid, appVars, started, present, backup, intact,
                 ghostVars>>

\* tar xzf of a truncated archive unpacks a part of it and fails.
RestoreExtractPart(part) ==
  /\ RestoreAt("extract")
  /\ restore.run \in present
  /\ dir[restore.run].archive = "partial"
  /\ part \subseteq dir[restore.run].objects
  /\ objects' = [objects EXCEPT ![VolumeOwner] = @ \cup part]
  /\ dir' = Torn(dir)
  /\ restore' = [pc |-> "idle", run |-> 0]
  /\ UNCHANGED <<rows, audit, laid, appVars, started, present, backup, intact,
                 ghostVars>>

RestoreUp ==
  /\ RestoreAt("up")
  /\ up' = up \cup {Target}
  /\ intact' = (dir[restore.run].steady /\ Target \notin up)
  /\ RestoreGoto("minio")
  /\ UNCHANGED <<dataVars, pending, used, dir, started, present, backup,
                 ghostVars>>

RestoreMinio ==
  /\ RestoreAt("minio")
  /\ restore' = [pc |-> "idle", run |-> 0]
  /\ UNCHANGED <<dataVars, appVars, dir, started, present, backup, intact,
                 ghostVars>>

\* Any subprocess may fail; so does opening a dump that was pruned.
RestoreFail ==
  /\ restore.pc # "idle"
  /\ restore' = [pc |-> "idle", run |-> 0]
  /\ UNCHANGED <<dataVars, appVars, dir, started, present, backup, intact,
                 ghostVars>>

(***************************************************************************)
(* `docker compose up -d` (deploy.py, and update.py, which runs it): starts *)
(* what is stopped and runs the migrations, whatever a restore is at.      *)
(***************************************************************************)
ComposeUp ==
  /\ up' = up \cup {Target}
  /\ laid' = laid \cup {Target}
  /\ UNCHANGED <<rows, audit, objects, pending, used, dir, started, present,
                 backup, restore, intact, ghostVars>>

App ==
  \E p \in Project :
    \/ \E x \in Photo : PutObject(p, x) \/ InsertRow(p, x)
    \/ \E e \in Event : GovernedWrite(p, e)

Backup ==
  \/ BackupStart
  \/ \E r \in Run : \/ BackupDump(r) \/ BackupTar(r) \/ BackupTarDone(r)
                    \/ BackupPrune(r) \/ BackupFail(r)

Restore ==
  \/ \E r \in Run : RestoreStart(r)
  \/ RestoreStop \/ RestoreDrop \/ RestoreLoad \/ RestoreClear
  \/ \E part \in SUBSET Row : RestoreLoadPart(part)
  \/ RestoreExtract
  \/ \E part \in SUBSET Photo : RestoreExtractPart(part)
  \/ RestoreUp \/ RestoreMinio \/ RestoreFail

Next == App \/ Backup \/ Restore \/ ComposeUp

Spec == Init /\ [][Next]_vars
-----------------------------------------------------------------------------
(***************************************************************************)
(* Properties                                                              *)
(***************************************************************************)
\* Every variable has its type; a process that is not idle names a run that
\* was started.
TypeOK ==
  /\ rows \in [Project -> SUBSET Row]
  /\ audit \in [Project -> SUBSET Event]
  /\ objects \in [Project -> SUBSET Photo]
  /\ laid \in SUBSET Project
  /\ up \in SUBSET Project
  /\ pending \in [Project -> SUBSET Photo]
  /\ used \in SUBSET Row
  /\ dir \in [Run -> Directory]
  /\ started \in 0 .. MaxRuns
  /\ present \in SUBSET (1 .. started)
  /\ backup \in [Run -> {"idle", "dump", "tar", "tarring", "prune"}]
  /\ \A r \in Run : ~At(r, "idle") => r <= started
  /\ restore \in [pc : {"idle", "stop", "drop", "load", "clear", "extract",
                         "up", "minio"}, run : Nat]
  /\ restore.pc # "idle" => restore.run \in 1 .. started
  /\ intact \in BOOLEAN
  /\ completed \in BOOLEAN
  /\ overtaken \in BOOLEAN

Whole(r) == dir[r].dump = "whole" /\ dir[r].archive = "whole"

\* backup.py dumps the database before it archives the volume.  A finished
\* run therefore never holds an attachment row whose photo is missing from
\* its archive, however many uploads run meanwhile, as long as no restore
\* was half done when the run began and none overtook it.
BackupIsClosed ==
  \A r \in Run :
    Whole(r) /\ dir[r].steady => dir[r].rows \cap Photo \subseteq dir[r].objects

\* restore.py only asks whether postgres.sql and the archive exist.  Since
\* the archive is created after pg_dump has succeeded, a restore under way
\* never feeds psql a truncated dump, even of a run still in progress, or of
\* one whose directory was pruned under it and made again.
RestoresWholeDump ==
  restore.pc # "idle" => dir[restore.run].dump # "partial"

\* "replaces current data with the backup's" (restore.py:3): when restore.py
\* has put both halves back, and nobody has started the services it stopped,
\* rows and objects are exactly those of the chosen backup.  False:
\* governed-verifier is not stopped, and what it writes after the load stays.
RestoredIsBackup ==
  restore.pc = "up" /\ Target \notin up =>
    /\ rows[Target] = dir[restore.run].rows
    /\ objects[Target] = dir[restore.run].objects

\* What does hold at that moment: the services that were stopped have no part
\* in it.  Their rows and the objects are those of the backup, every governed
\* row of the backup is there, and the only others are governed ones.
StoppedServicesStayOut ==
  restore.pc = "up" /\ Target \notin up =>
    /\ rows[Target] \cap Photo = dir[restore.run].rows \cap Photo
    /\ dir[restore.run].rows \subseteq rows[Target]
    /\ objects[Target] = dir[restore.run].objects

\* prune keeps the newest directories, whole or not; but it only runs at the
\* end of a successful backup, so that once a backup has completed there is
\* always a whole one on disk, whatever fails afterwards and however many
\* runs overlap, as long as no run completes after --keep later ones have
\* been started: such a one removes its own directory.
WholeBackupSurvives ==
  completed /\ ~overtaken => \E r \in present : Whole(r)

\* A governed row is never without its audit event, across restores too:
\* stir_audit is not rolled back, so it holds every event a restored dump
\* relies on.
GovernedRowsAudited ==
  \A p \in Project : rows[p] \cap Event \subseteq audit[p]

\* Every docker command of the backup/restore rehearsal is "explicitly scoped
\* to STIR_COMPOSE_PROJECT" (backup_restore_e2e.py:16): no step deletes an
\* object of another project's store (applications only ever add objects).
OtherProjectsKeepObjects ==
  [][\A p \in Project \ {Target} : objects[p] \subseteq objects'[p]]_vars
=============================================================================
