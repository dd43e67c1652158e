----------------------------- MODULE Deployment -----------------------------
(***************************************************************************)
(* Deployments by scripts/deploy-production.sh: build, stop the two        *)
(* applications, back up (scripts/backup-postgres.sh), rehearse, migrate   *)
(* (Database._run_migrations), recreate the applications, check them.  Any *)
(* command may fail, which leaves it to the exit trap to bring the         *)
(* applications back, and the script may be killed, which leaves it to     *)
(* nobody.  Meanwhile the timer makes backups of its own.                  *)
(***************************************************************************)
EXTENDS Integers, FiniteSets

CONSTANTS
    Deployments,  \* runs of the script, numbered in the order they are started
    Commit,       \* the image that each of them builds, a number
    Services,     \* bot and webapp
    Timer,        \* the daily backup
    MaxRows,      \* how many rows may be written (a bound)
    None

Images == {0} \cup {Commit[d] : d \in Deployments}

\* An image has the migrations of the images before it, and its own.
Files(image) == 1 .. image

AllFiles == UNION {Files(i) : i \in Images}

ASSUME DeploymentAssumption ==
    /\ Deployments \subseteq Nat
    /\ Commit \in [Deployments -> Nat]
    /\ Services # {}
    /\ MaxRows \in Nat
    /\ Timer \notin Deployments
    /\ None \notin Deployments \cup {Timer}

VARIABLES
    lock,        \* the deployment that holds the lock of deployments
    script,      \* how far each deployment is
    local,       \* the image tagged school-planner:local
    rollback,    \* the image tagged school-planner:rollback
    app,         \* the container of each service: its image, and whether it runs
    healthy,     \* the images whose containers become healthy
    proven,      \* the images that were found healthy
    manual,      \* someone has to look after the applications
    backupLock,  \* who holds the lock of backups
    backup,      \* the backup of each deployment
    rows,        \* what has been written to the database
    migrator,    \* the migrations container of each deployment
    advisory,    \* the deployment whose migrations hold the advisory lock
    ledger,      \* the files in planner_migrations
    applied      \* how often each file has been executed

containers == <<local, rollback, app, healthy, proven>>
backups == <<backupLock, backup>>
database == <<migrator, advisory, ledger, applied>>
vars == <<lock, script, containers, manual, backups, rows, database>>

\* at: the command that is executed, todo: the services it still has to reach,
\* stopped and recreated: apps_stopped and apps_recreated of the script.
NotStarted == [at |-> "idle", todo |-> {}, stopped |-> FALSE, recreated |-> FALSE]

NoBackup == [at |-> "none", dump |-> 0, counts |-> 0]

Init ==
    /\ lock = None
    /\ script = [d \in Deployments |-> NotStarted]
    /\ local = 0 /\ rollback = 0
    /\ app = [s \in Services |-> [image |-> 0, up |-> TRUE]]
    /\ healthy \in {H \in SUBSET Images : 0 \in H}
    /\ proven = {0}
    /\ manual = FALSE
    /\ backupLock = None
    /\ backup = [d \in Deployments |-> NoBackup]
    /\ rows = 0
    /\ migrator = [d \in Deployments |-> [at |-> "none", missing |-> {}]]
    /\ advisory = None
    /\ ledger = {}
    /\ applied = [f \in AllFiles |-> 0]

-----------------------------------------------------------------------------
(* The script, command by command. *)

At(d, command) == script[d].at = command

Enter(d, command) == script' = [script EXCEPT ![d].at = command]

\* flock, the checks of the environment, and the tag for the way back.
Start(d) ==
    /\ At(d, "idle")
    /\ \A e \in Deployments : e < d => ~At(e, "idle")
    /\ lock = None
    /\ \A s \in Services : app[s].up
    /\ \E image \in Images :
          /\ \A s \in Services : app[s].image = image
          /\ rollback' = image
    /\ lock' = d
    /\ Enter(d, "build")
    /\ UNCHANGED <<local, app, healthy, proven, manual, backups, rows, database>>

\* Another deployment runs, or the applications do not run with one image.
Refuse(d) ==
    /\ At(d, "idle")
    /\ \A e \in Deployments : e < d => ~At(e, "idle")
    /\ \/ lock # None
       \/ ~ \E image \in Images : \A s \in Services : app[s] = [image |-> image, up |-> TRUE]
    /\ Enter(d, "refused")
    /\ UNCHANGED <<lock, containers, manual, backups, rows, database>>

Build(d) ==
    /\ At(d, "build")
    /\ local' = Commit[d]
    /\ script' = [script EXCEPT ![d] =
          [script[d] EXCEPT !.at = "stop", !.todo = Services, !.stopped = TRUE]]
    /\ UNCHANGED <<lock, rollback, app, healthy, proven, manual, backups, rows, database>>

Reached(d, s) == script' = [script EXCEPT ![d].todo = @ \ {s}]

Stop(d, s) ==
    /\ At(d, "stop")
    /\ s \in script[d].todo
    /\ app' = [app EXCEPT ![s].up = FALSE]
    /\ Reached(d, s)
    /\ UNCHANGED <<lock, local, rollback, healthy, proven, manual, backups, rows, database>>

\* Seeded fault: the backup begins while the services are being stopped.
StoppedEarly(d) ==
    /\ At(d, "stop")
    /\ Enter(d, "backup")
    /\ UNCHANGED <<lock, containers, manual, backups, rows, database>>

\* A command that has reached both services is followed by the next.
Stopped(d) ==
    /\ At(d, "stop") /\ script[d].todo = {}
    /\ Enter(d, "backup")
    /\ UNCHANGED <<lock, containers, manual, backups, rows, database>>

\* The restored dump has as many rows as were counted beside it.
Rehearse(d) ==
    /\ At(d, "backup")
    /\ backup[d].at = "verified"
    /\ backup[d].dump = backup[d].counts
    /\ Enter(d, "migrate")
    /\ migrator' = [migrator EXCEPT ![d].at = "waiting"]
    /\ UNCHANGED <<lock, containers, manual, backups, rows, advisory, ledger, applied>>

\* Seeded fault: the migrations run in the background.
MigratedDetached(d) ==
    /\ At(d, "migrate")
    /\ script' = [script EXCEPT ![d] =
          [script[d] EXCEPT !.at = "recreate", !.todo = Services, !.recreated = TRUE]]
    /\ UNCHANGED <<lock, containers, manual, backups, rows, database>>

\* Seeded fault: apps_recreated is set after the command.
MigratedUnmarked(d) ==
    /\ At(d, "migrate")
    /\ migrator[d].at = "done"
    /\ script' = [script EXCEPT ![d] = [script[d] EXCEPT !.at = "recreate", !.todo = Services]]
    /\ UNCHANGED <<lock, containers, manual, backups, rows, database>>

Migrated(d) ==
    /\ At(d, "migrate")
    /\ migrator[d].at = "done"
    /\ script' = [script EXCEPT ![d] =
          [script[d] EXCEPT !.at = "recreate", !.todo = Services, !.recreated = TRUE]]
    /\ UNCHANGED <<lock, containers, manual, backups, rows, database>>

\* A new container from the image that school-planner:local names.
Recreate(d, s) ==
    /\ At(d, "recreate")
    /\ s \in script[d].todo
    /\ app' = [app EXCEPT ![s] = [image |-> local, up |-> TRUE]]
    /\ Reached(d, s)
    /\ UNCHANGED <<lock, local, rollback, healthy, proven, manual, backups, rows, database>>

\* Both services are found healthy.
Complete(d) ==
    /\ At(d, "recreate") /\ script[d].todo = {}
    /\ \A s \in Services : app[s].up /\ app[s].image \in healthy
    /\ proven' = proven \cup {app[s].image : s \in Services}
    /\ Enter(d, "complete")
    /\ lock' = None
    /\ UNCHANGED <<local, rollback, app, healthy, manual, backups, rows, database>>

-----------------------------------------------------------------------------
(* Failures. *)

\* Seeded fault: the trap restores only what was recreated.
FailLeavesStopped(d) ==
    /\ script[d].at \in {"build", "stop", "backup", "migrate", "recreate"}
    /\ At(d, "migrate") => migrator[d].at \in {"done", "failed"}
    /\ script' = [script EXCEPT ![d] =
          [script[d] EXCEPT !.at = IF script[d].recreated THEN "restore" ELSE "failed",
                            !.todo = Services]]
    /\ lock' = IF script[d].recreated THEN lock ELSE None
    /\ backupLock' = IF backupLock = d THEN None ELSE backupLock
    /\ UNCHANGED <<local, rollback, app, healthy, proven, manual, backup, rows, database>>

\* A command fails, on its way or at its end: the trap looks how far the
\* script had come.  A failing backup gives its lock back.
Fail(d) ==
    /\ script[d].at \in {"build", "stop", "backup", "migrate", "recreate"}
    /\ At(d, "migrate") => migrator[d].at \in {"done", "failed"}
    /\ script' = [script EXCEPT ![d] =
          [script[d] EXCEPT !.at = IF script[d].stopped THEN "restore" ELSE "failed",
                            !.todo = Services]]
    /\ lock' = IF script[d].stopped THEN lock ELSE None
    /\ backupLock' = IF backupLock = d THEN None ELSE backupLock
    /\ local' \in IF At(d, "build") THEN {local, Commit[d]} ELSE {local}
    /\ UNCHANGED <<rollback, app, healthy, proven, manual, backup, rows, database>>

\* docker image tag school-planner:rollback school-planner:local
Retag(d) ==
    /\ At(d, "restore") /\ script[d].recreated
    /\ local' = rollback
    /\ Enter(d, "revive")
    /\ UNCHANGED <<lock, rollback, app, healthy, proven, manual, backups, rows, database>>

\* The containers are recreated, or the ones that were stopped are started.
Revive(d, s) ==
    /\ At(d, IF script[d].recreated THEN "revive" ELSE "restore")
    /\ s \in script[d].todo
    /\ app' = [app EXCEPT ![s] =
          [image |-> IF script[d].recreated THEN local ELSE @.image, up |-> TRUE]]
    /\ Reached(d, s)
    /\ UNCHANGED <<lock, local, rollback, healthy, proven, manual, backups, rows, database>>

Restored(d) ==
    /\ At(d, IF script[d].recreated THEN "revive" ELSE "restore")
    /\ script[d].todo = {}
    /\ Enter(d, "failed")
    /\ lock' = None
    /\ UNCHANGED <<containers, manual, backups, rows, database>>

\* "manual recovery is required"
GiveUp(d) ==
    /\ script[d].at \in {"restore", "revive"}
    /\ Enter(d, "failed")
    /\ manual' = TRUE
    /\ lock' = None
    /\ UNCHANGED <<containers, backups, rows, database>>

\* The script and the commands it is waiting for are gone, and its locks with
\* them; a migrations container belongs to the Docker daemon and goes on.
Kill(d) ==
    /\ script[d].at \notin {"idle", "refused", "complete", "failed", "killed"}
    /\ Enter(d, "killed")
    /\ manual' = (manual \/ script[d].stopped)
    /\ lock' = None
    /\ backupLock' = IF backupLock = d THEN None ELSE backupLock
    /\ UNCHANGED <<containers, backup, rows, database>>

\* Someone starts both applications with an image known to work.
Recover ==
    /\ manual /\ lock = None
    /\ \E image \in proven :
          /\ local' = image
          /\ app' = [s \in Services |-> [image |-> image, up |-> TRUE]]
    /\ manual' = FALSE
    /\ UNCHANGED <<lock, script, rollback, healthy, proven, backups, rows, database>>

-----------------------------------------------------------------------------
(* Backups, of a deployment and of the timer. *)

\* pg_dump, in one snapshot
Dump(d) ==
    /\ At(d, "backup") /\ backup[d].at = "none"
    /\ backupLock = None
    /\ backupLock' = d
    /\ backup' = [backup EXCEPT ![d].at = "dumped", ![d].dump = rows]
    /\ UNCHANGED <<lock, script, containers, manual, rows, database>>

\* The rows are counted afterwards, in a snapshot of their own.
CountRows(d) ==
    /\ At(d, "backup") /\ backup[d].at = "dumped"
    /\ backup' = [backup EXCEPT ![d].at = "counted", ![d].counts = rows]
    /\ UNCHANGED <<lock, script, containers, manual, backupLock, rows, database>>

\* The files get their names, a checksum, and a copy elsewhere.
Verify(d) ==
    /\ At(d, "backup") /\ backup[d].at = "counted"
    /\ backup' = [backup EXCEPT ![d].at = "verified"]
    /\ backupLock' = None
    /\ UNCHANGED <<lock, script, containers, manual, rows, database>>

\* A backup of the timer begins, and ends well or not.
TimerBegins ==
    /\ backupLock = None
    /\ backupLock' = Timer
    /\ UNCHANGED <<lock, script, containers, manual, backup, rows, database>>

TimerEnds ==
    /\ backupLock = Timer
    /\ backupLock' = None
    /\ UNCHANGED <<lock, script, containers, manual, backup, rows, database>>

-----------------------------------------------------------------------------
(* Migrations, in one transaction under an advisory lock. *)

\* Seeded fault: no advisory lock.
BeginMigrationUnlocked(d) ==
    /\ migrator[d].at = "waiting"
    /\ advisory' = d
    /\ migrator' = [migrator EXCEPT ![d] =
          [at |-> "applying", missing |-> Files(Commit[d]) \ ledger]]
    /\ UNCHANGED <<lock, script, containers, manual, backups, rows, ledger, applied>>

BeginMigration(d) ==
    /\ migrator[d].at = "waiting"
    /\ advisory = None
    /\ advisory' = d
    /\ migrator' = [migrator EXCEPT ![d] =
          [at |-> "applying", missing |-> Files(Commit[d]) \ ledger]]
    /\ UNCHANGED <<lock, script, containers, manual, backups, rows, ledger, applied>>

CommitMigration(d) ==
    /\ migrator[d].at = "applying"
    /\ applied' = [f \in AllFiles |->
                     applied[f] + (IF f \in migrator[d].missing THEN 1 ELSE 0)]
    /\ ledger' = ledger \cup migrator[d].missing
    /\ advisory' = None
    /\ migrator' = [migrator EXCEPT ![d].at = "done"]
    /\ UNCHANGED <<lock, script, containers, manual, backups, rows>>

\* An error of a statement, or no answer to it within command_timeout.
AbortMigration(d) ==
    /\ migrator[d].at \in {"waiting", "applying"}
    /\ advisory' = IF advisory = d THEN None ELSE advisory
    /\ migrator' = [migrator EXCEPT ![d].at = "failed"]
    /\ UNCHANGED <<lock, script, containers, manual, backups, rows, ledger, applied>>

-----------------------------------------------------------------------------

\* A request to an application that runs.
Write ==
    /\ rows < MaxRows
    /\ \E s \in Services : app[s].up
    /\ rows' = rows + 1
    /\ UNCHANGED <<lock, script, containers, manual, backups, database>>

\* What the script does by itself.
Progress(d) ==
    \/ Build(d) \/ Stopped(d) \/ Rehearse(d) \/ Migrated(d) \/ Complete(d)
    \/ Retag(d) \/ Restored(d) \/ Fail(d) \/ GiveUp(d)
    \/ Dump(d) \/ CountRows(d) \/ Verify(d)
    \/ \E s \in Services : Stop(d, s) \/ Recreate(d, s) \/ Revive(d, s)

Migrate(d) == BeginMigration(d) \/ CommitMigration(d) \/ AbortMigration(d)

Next ==
    \/ \E d \in Deployments :
          Start(d) \/ Refuse(d) \/ Progress(d) \/ Migrate(d) \/ Kill(d)
    \/ TimerBegins \/ TimerEnds
    \/ Recover
    \/ Write

\* Every command of the script returns, well or not (the wait for health has a
\* deadline of its own), and every statement of a migration.
Fairness == \A d \in Deployments : WF_vars(Progress(d)) /\ WF_vars(Migrate(d))

Spec == Init /\ [][Next]_vars /\ Fairness

-----------------------------------------------------------------------------
(* Properties. *)

TypeOK ==
    /\ lock \in Deployments \cup {None}
    /\ script \in [Deployments ->
          [at : {"idle", "refused", "build", "stop", "backup", "migrate", "recreate",
                 "restore", "revive", "complete", "failed", "killed"},
           todo : SUBSET Services, stopped : BOOLEAN, recreated : BOOLEAN]]
    /\ local \in Images /\ rollback \in Images
    /\ app \in [Services -> [image : Images, up : BOOLEAN]]
    /\ proven \subseteq healthy /\ healthy \subseteq Images
    /\ manual \in BOOLEAN
    /\ backupLock \in Deployments \cup {Timer, None}
    /\ backup \in [Deployments ->
          [at : {"none", "dumped", "counted", "verified"},
           dump : 0 .. MaxRows, counts : 0 .. MaxRows]]
    /\ rows \in 0 .. MaxRows
    /\ migrator \in [Deployments ->
          [at : {"none", "waiting", "applying", "done", "failed"}, missing : SUBSET AllFiles]]
    /\ advisory \in Deployments \cup {None}
    /\ \A d \in Deployments : advisory = d <=> migrator[d].at = "applying"
    /\ ledger \subseteq AllFiles
    /\ applied \in [AllFiles -> Nat]

\* However a deployment ends, both applications run with one image that has
\* been found healthy, the new one or the one before it; unless the script was
\* killed or has said that manual recovery is required.
SoundUnlessManual ==
    lock = None /\ ~manual =>
        \E image \in proven : \A s \in Services : app[s] = [image |-> image, up |-> TRUE]

\* When the script migrates, its backup has every row of the database, and the
\* counts beside it are those of the dump: nothing is written in between.
SavedBeforeMigrating ==
    \A d \in Deployments : At(d, "migrate") =>
        backup[d].dump = rows /\ backup[d].counts = rows

\* An application that runs finds the migrations it was written for.
MigratedBeforeRun == \A s \in Services : app[s].up => Files(app[s].image) \subseteq ledger

\* No file is executed twice, although a killed deployment's migrations may
\* still be running when the next deployment starts its own.
AppliedOnce == \A f \in AllFiles : applied[f] <= 1

\* The applications do not stay stopped, unless the script has asked for manual
\* recovery or was killed while they were stopped.  A killed script runs no trap
\* and tells nobody; it counts as manual, as only a person can go on from there.
AppsComeBack == (\E s \in Services : ~app[s].up) ~> (manual \/ \A s \in Services : app[s].up)
=============================================================================
