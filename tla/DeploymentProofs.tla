-------------------------- MODULE DeploymentProofs --------------------------
(***************************************************************************)
(* Proofs about Deployment, for any number of deployments, services and    *)
(* commits, in any order, and any number of writes.                        *)
(***************************************************************************)
EXTENDS Deployment, TLAPS

Active == {"build", "stop", "backup", "migrate", "recreate", "restore", "revive"}

\* The lock of deployments is held by the script that runs.
Exclusive == \A d \in Deployments : script[d].at \in Active <=> lock = d

\* The two variables of the script tell how far it came.
Marks(d) ==
    LET at == script[d].at
    IN  /\ at \in {"idle", "build"} => ~script[d].stopped
        /\ at \in Active \ {"build"} => script[d].stopped
        /\ at \in {"idle", "build", "stop", "backup", "migrate"} => ~script[d].recreated
        /\ at \in {"recreate", "revive"} => script[d].recreated
        /\ at \in {"idle", "build", "stop", "backup"} => migrator[d].at = "none"

Marked == \A d \in Deployments : Marks(d)

AllAre(image) == \A s \in Services : app[s].image = image

Running(S, image) == \A s \in S : app[s] = [image |-> image, up |-> TRUE]

Down(S) == \A s \in S : ~app[s].up

\* What the containers are like where the script of d stands.
Stage(d) ==
    LET at == script[d].at
        reached == Services \ script[d].todo
    IN  /\ at = "build" => Running(Services, rollback)
        /\ ~script[d].recreated => AllAre(rollback)
        /\ at \in {"stop", "backup", "migrate", "recreate"} => local = Commit[d]
        /\ at = "stop" => Down(reached)
        /\ at \in {"backup", "migrate"} => Down(Services)
        /\ at = "recreate" => Running(reached, local)
        /\ at = "restore" /\ ~script[d].recreated => Running(reached, rollback)
        /\ at = "restore" /\ script[d].recreated => reached = {}
        /\ at = "revive" => local = rollback /\ Running(reached, local)

Staged == \A d \in Deployments : lock = d => Stage(d)

\* There is a way back: the image that ran, unless it was somebody's choice after
\* a failure.
WayBack == proven # {} /\ (lock # None /\ ~manual => rollback \in proven)

SInv == TypeOK /\ Exclusive /\ Marked /\ Staged /\ WayBack /\ SoundUnlessManual

\* A dump and its counts have every row while nobody can write.
Saved ==
    \A d \in Deployments :
        /\ script[d].at \in {"idle", "build", "stop"} => backup[d].at = "none"
        /\ At(d, "backup") /\ backup[d].at # "none" => backup[d].dump = rows
        /\ At(d, "backup") /\ backup[d].at \in {"counted", "verified"} => backup[d].counts = rows
        /\ At(d, "migrate") => backup[d].dump = rows /\ backup[d].counts = rows

\* Migrations are executed under the advisory lock, so that what was missing
\* when they began is still missing when they commit.
Recorded ==
    /\ \A f \in AllFiles : applied[f] = IF f \in ledger THEN 1 ELSE 0
    /\ \A d \in Deployments :
          /\ migrator[d].at = "applying" => migrator[d].missing = Files(Commit[d]) \ ledger
          /\ migrator[d].at = "done" => Files(Commit[d]) \subseteq ledger
          /\ At(d, "recreate") => migrator[d].at = "done"

\* Every image that runs, or may be brought back, finds its migrations.
Prepared ==
    /\ Files(rollback) \subseteq ledger
    /\ \A image \in proven : Files(image) \subseteq ledger
    /\ \A s \in Services : Files(app[s].image) \subseteq ledger

IInv == SInv /\ Saved /\ Recorded /\ Prepared

-----------------------------------------------------------------------------
Place == {"idle", "refused", "build", "stop", "backup", "migrate", "recreate",
          "restore", "revive", "complete", "failed", "killed"}

Script == [at : Place, todo : SUBSET Services, stopped : BOOLEAN, recreated : BOOLEAN]

LEMMA Typing ==
    ASSUME TypeOK
    PROVE  /\ script \in [Deployments -> Script]
           /\ \A d \in Deployments : script[d] \in Script
           /\ app \in [Services -> [image : Images, up : BOOLEAN]]
           /\ \A d \in Deployments : Commit[d] \in Images /\ d # None
           /\ \A i \in Images : Files(i) \subseteq AllFiles
  BY DeploymentAssumption DEF TypeOK, Script, Place, Images, AllFiles

\* A script enters a command.
LEMMA Entered ==
    ASSUME TypeOK, NEW d \in Deployments, NEW c \in Place, Enter(d, c)
    PROVE  /\ script' \in [Deployments -> Script]
           /\ script'[d].at = c /\ script'[d].todo = script[d].todo
           /\ script'[d].stopped = script[d].stopped
           /\ script'[d].recreated = script[d].recreated
           /\ \A e \in Deployments \ {d} : script'[e] = script[e]
  BY Typing DEF Enter, Script

\* A command reaches a service.
LEMMA ReachedOne ==
    ASSUME TypeOK, NEW d \in Deployments, NEW s \in Services, Reached(d, s)
    PROVE  /\ script' \in [Deployments -> Script]
           /\ script'[d].at = script[d].at /\ script'[d].todo = script[d].todo \ {s}
           /\ script'[d].stopped = script[d].stopped
           /\ script'[d].recreated = script[d].recreated
           /\ \A e \in Deployments \ {d} : script'[e] = script[e]
  BY Typing DEF Reached, Script

\* A command starts that has both services to reach.
LEMMA Begun ==
    ASSUME TypeOK, NEW d \in Deployments, NEW r,
           r = script[d], NEW c \in Place,
           NEW p \in BOOLEAN, NEW q \in BOOLEAN,
           script' = [script EXCEPT ![d] = [at |-> c, todo |-> Services, stopped |-> p, recreated |-> q]]
    PROVE  /\ script' \in [Deployments -> Script]
           /\ script'[d].at = c /\ script'[d].todo = Services
           /\ script'[d].stopped = p /\ script'[d].recreated = q
           /\ \A e \in Deployments \ {d} : script'[e] = script[e]
  BY Typing DEF Script

\* A script that runs, or that ends.
LEMMA ScriptMoves ==
    ASSUME SInv, TypeOK', NEW d \in Deployments, lock \in {d, None},
           \A e \in Deployments \ {d} : script'[e] = script[e] /\ migrator'[e] = migrator[e],
           Marks(d)', proven' # {},
           \/ /\ lock' = d
              /\ script'[d].at \in Active
              /\ Stage(d)'
              /\ ~manual' => rollback' \in proven'
           \/ /\ lock' = None
              /\ script'[d].at \notin Active
              /\ SoundUnlessManual'
    PROVE  SInv'
<1>0. TypeOK /\ Exclusive /\ Marked /\ d # None /\ (\A e \in Deployments : e # None)
  BY Typing DEF SInv
<1>1. Exclusive'
  <2>1. \A e \in Deployments \ {d} : script[e].at \notin Active
    BY <1>0 DEF Exclusive
  <2> QED
    BY <1>0, <2>1 DEF Exclusive
<1>2. Marked'
  <2> SUFFICES ASSUME NEW e \in Deployments \ {d} PROVE Marks(e)'
    BY DEF Marked
  <2> QED
    BY <1>0 DEF Marked, Marks
<1>3. Staged'
  BY <1>0 DEF Staged
<1>4. WayBack' /\ SoundUnlessManual'
  BY <1>0 DEF WayBack, SoundUnlessManual
<1> QED
  BY <1>1, <1>2, <1>3, <1>4 DEF SInv

\* What is known of a deployment whose script runs.
LEMMA Held ==
    ASSUME SInv, NEW d \in Deployments, script[d].at \in Active
    PROVE  /\ TypeOK /\ lock = d /\ Marks(d) /\ Stage(d) /\ proven # {} /\ d # None
           /\ ~manual => rollback \in proven
  BY Typing DEF SInv, Exclusive, Marked, Staged, WayBack

-----------------------------------------------------------------------------
(* One lemma per step of the script. *)

LEMMA StartStep ==
    ASSUME SInv, NEW d \in Deployments, Start(d)
    PROVE  SInv'
<1>0. TypeOK /\ Marks(d) /\ SoundUnlessManual /\ proven # {}
  BY DEF SInv, Marked, WayBack
<1>1. /\ script' \in [Deployments -> Script]
      /\ script'[d].at = "build" /\ script'[d].todo = script[d].todo
      /\ script'[d].stopped = script[d].stopped
      /\ script'[d].recreated = script[d].recreated
      /\ \A e \in Deployments \ {d} : script'[e] = script[e]
  BY <1>0, Entered DEF Start, Place
<1>2. /\ At(d, "idle") /\ lock = None /\ lock' = d
      /\ \A s \in Services : app[s].up /\ app[s].image = rollback'
      /\ rollback' \in Images
      /\ UNCHANGED <<local, app, healthy, proven, manual, backups, rows, database>>
  BY DEF Start
<1>3. TypeOK'
  BY <1>0, <1>1, <1>2 DEF TypeOK, Script, Place, backups, database
<1>4. \A s \in Services : app[s] = [image |-> rollback', up |-> TRUE]
  BY <1>0, <1>2, Typing
<1>5. Marks(d)'
  BY <1>0, <1>1, <1>2 DEF Marks, At, Active, database
<1>6. Stage(d)'
  <2>1. Running(Services, rollback)' /\ AllAre(rollback)'
    BY <1>2, <1>4 DEF Running, AllAre
  <2> QED
    BY <1>1, <2>1 DEF Stage
<1>7. ASSUME ~manual' PROVE rollback' \in proven'
  <2>1. PICK image \in proven : \A s \in Services : app[s] = [image |-> image, up |-> TRUE]
    BY <1>0, <1>2, <1>7 DEF SoundUnlessManual
  <2>2. \A s \in Services : app[s].image = image
    BY <2>1
  <2> QED
    BY <1>2, <2>2, DeploymentAssumption
<1>8. /\ lock \in {d, None} /\ lock' = d /\ proven' # {} /\ script'[d].at \in Active
      /\ \A e \in Deployments \ {d} : script'[e] = script[e] /\ migrator'[e] = migrator[e]
  BY <1>0, <1>1, <1>2 DEF Active, database
<1> QED
  BY <1>3, <1>5, <1>6, <1>7, <1>8, ScriptMoves

LEMMA BuildStep ==
    ASSUME SInv, NEW d \in Deployments, Build(d)
    PROVE  SInv'
<1>0. /\ TypeOK /\ lock = d /\ Marks(d) /\ Stage(d) /\ proven # {} /\ d # None
      /\ ~manual => rollback \in proven
  BY Held DEF Build, At, Active
<1>1. /\ At(d, "build") /\ local' = Commit[d]
      /\ UNCHANGED <<lock, rollback, app, healthy, proven, manual, backups, rows, database>>
  BY DEF Build
<1>2. /\ script' \in [Deployments -> Script]
      /\ script'[d].at = "stop" /\ script'[d].todo = Services
      /\ script'[d].stopped = TRUE /\ script'[d].recreated = script[d].recreated
      /\ \A e \in Deployments \ {d} : script'[e] = script[e]
  BY <1>0, Typing DEF Build, Script, Place
<1>3. TypeOK'
  BY <1>0, <1>1, <1>2, Typing DEF TypeOK, Script, Place, backups, database
<1>4. Marks(d)'
  BY <1>0, <1>1, <1>2 DEF Marks, At, Active, database
<1>5. Stage(d)'
  BY <1>0, <1>1, <1>2, <1>4 DEF Stage, Running, AllAre, Marks, At, Down
<1> QED
  BY <1>0, <1>1, <1>2, <1>3, <1>4, <1>5, ScriptMoves DEF Active, database

LEMMA StopStep ==
    ASSUME SInv, NEW d \in Deployments, NEW s \in Services, Stop(d, s)
    PROVE  SInv'
<1>0. /\ TypeOK /\ lock = d /\ Marks(d) /\ Stage(d) /\ proven # {} /\ d # None
      /\ ~manual => rollback \in proven
  BY Held DEF Stop, At, Active
<1>1. /\ At(d, "stop") /\ app' = [app EXCEPT ![s].up = FALSE]
      /\ UNCHANGED <<lock, local, rollback, healthy, proven, manual, backups, rows, database>>
  BY DEF Stop
<1>2. /\ script' \in [Deployments -> Script]
      /\ script'[d].at = "stop" /\ script'[d].todo = script[d].todo \ {s}
      /\ script'[d].stopped = script[d].stopped
      /\ script'[d].recreated = script[d].recreated
      /\ \A e \in Deployments \ {d} : script'[e] = script[e]
  BY <1>0, <1>1, ReachedOne DEF Stop, At
<1>3. /\ app' \in [Services -> [image : Images, up : BOOLEAN]]
      /\ app'[s].image = app[s].image /\ ~app'[s].up
      /\ \A t \in Services \ {s} : app'[t] = app[t]
  BY <1>0, <1>1, Typing
<1>4. TypeOK'
  BY <1>0, <1>1, <1>2, <1>3 DEF TypeOK, Script, Place, backups, database
<1>5. Marks(d)'
  BY <1>0, <1>1, <1>2 DEF Marks, At, Active, database
<1>6. Stage(d)'
  BY <1>0, <1>1, <1>2, <1>3 DEF Stage, AllAre, At, Down
<1> QED
  BY <1>0, <1>1, <1>2, <1>4, <1>5, <1>6, ScriptMoves DEF Active, database

\* The steps that only enter the next command.
LEMMA EnterStep ==
    ASSUME SInv, NEW d \in Deployments, Stopped(d) \/ Rehearse(d) \/ Retag(d)
    PROVE  SInv'
<1>0. /\ TypeOK /\ lock = d /\ Marks(d) /\ Stage(d) /\ proven # {} /\ d # None
      /\ ~manual => rollback \in proven
  BY Held DEF Stopped, Rehearse, Retag, At, Active
<1>1. PICK c \in {"backup", "migrate", "revive"} :
      /\ Enter(d, c)
      /\ \/ c = "backup" /\ script[d].at = "stop" /\ script[d].todo = {}
         \/ c = "migrate" /\ script[d].at = "backup"
         \/ c = "revive" /\ script[d].at = "restore" /\ script[d].recreated /\ local' = rollback
      /\ c # "revive" => local' = local
  BY DEF Stopped, Rehearse, Retag, At, containers
<1>2. UNCHANGED <<lock, rollback, app, healthy, proven, manual, backups, rows,
                  advisory, ledger, applied>>
  BY DEF Stopped, Rehearse, Retag, containers, database
<1>3. /\ script' \in [Deployments -> Script]
      /\ script'[d].at = c /\ script'[d].todo = script[d].todo
      /\ script'[d].stopped = script[d].stopped
      /\ script'[d].recreated = script[d].recreated
      /\ \A e \in Deployments \ {d} : script'[e] = script[e]
  BY <1>0, <1>1, Entered DEF Place
<1>4. \/ migrator' = migrator
      \/ /\ migrator' = [migrator EXCEPT ![d].at = "waiting"]
         /\ Rehearse(d)
  BY DEF Stopped, Rehearse, Retag, database
<1>5. TypeOK'
  <2> SUFFICES /\ migrator' \in [Deployments ->
                     [at : {"none", "waiting", "applying", "done", "failed"},
                      missing : SUBSET AllFiles]]
               /\ \A e \in Deployments : advisory = e <=> migrator'[e].at = "applying"
    BY <1>0, <1>1, <1>2, <1>3 DEF TypeOK, Script, Place, backups
  <2>1. CASE migrator' = migrator
    BY <1>0, <1>2, <2>1 DEF TypeOK
  <2>2. CASE migrator' = [migrator EXCEPT ![d].at = "waiting"] /\ Rehearse(d)
    <3>1. migrator[d].at = "none"
      BY <1>0, <2>2 DEF Marks, Rehearse, At
    <3> QED
      BY <1>0, <1>2, <2>2, <3>1 DEF TypeOK
  <2> QED
    BY <1>4, <2>1, <2>2
<1>6. Marks(d)'
  BY <1>0, <1>1, <1>3, <1>4 DEF Marks, Active, Rehearse, At
<1>7. Stage(d)'
  <2>1. CASE c = "backup"
    BY <1>0, <1>1, <1>2, <1>3, <2>1 DEF Stage, AllAre, Down, Marks
  <2>2. CASE c = "migrate"
    BY <1>0, <1>1, <1>2, <1>3, <2>2 DEF Stage, AllAre, Down, Marks
  <2>3. CASE c = "revive"
    <3>1. script'[d].recreated /\ script'[d].todo = script[d].todo
      BY <1>1, <1>3, <2>3
    <3> QED
      BY <1>0, <1>1, <1>2, <1>3, <2>3, <3>1 DEF Stage, Running, Marks
  <2> QED
    BY <2>1, <2>2, <2>3
<1> QED
  <2>1. \A e \in Deployments \ {d} : migrator'[e] = migrator[e]
    BY <1>0, <1>4 DEF TypeOK
  <2> QED
    BY <1>0, <1>2, <1>3, <1>5, <1>6, <1>7, <2>1, ScriptMoves DEF Active

LEMMA MigratedStep ==
    ASSUME SInv, NEW d \in Deployments, Migrated(d)
    PROVE  SInv'
<1>0. /\ TypeOK /\ lock = d /\ Marks(d) /\ Stage(d) /\ proven # {} /\ d # None
      /\ ~manual => rollback \in proven
  BY Held DEF Migrated, At, Active
<1>1. /\ At(d, "migrate")
      /\ UNCHANGED <<lock, containers, manual, backups, rows, database>>
  BY DEF Migrated
<1>2. /\ script' \in [Deployments -> Script]
      /\ script'[d].at = "recreate" /\ script'[d].todo = Services
      /\ script'[d].stopped = script[d].stopped
      /\ script'[d].recreated = TRUE
      /\ \A e \in Deployments \ {d} : script'[e] = script[e]
  BY <1>0, Typing DEF Migrated, Script, Place
<1>3. TypeOK'
  BY <1>0, <1>1, <1>2 DEF TypeOK, Script, Place, containers, backups, database
<1>4. Marks(d)'
  BY <1>0, <1>1, <1>2 DEF Marks, At, Active, database
<1>5. Stage(d)'
  BY <1>0, <1>1, <1>2 DEF Stage, AllAre, Running, At, containers
<1> QED
  BY <1>0, <1>1, <1>2, <1>3, <1>4, <1>5, ScriptMoves DEF Active, containers, database

\* A container is recreated, or brought back.
LEMMA UpStep ==
    ASSUME SInv, NEW d \in Deployments, NEW s \in Services,
           Recreate(d, s) \/ Revive(d, s)
    PROVE  SInv'
<1>0. /\ TypeOK /\ lock = d /\ Marks(d) /\ Stage(d) /\ proven # {} /\ d # None
      /\ ~manual => rollback \in proven
  BY Held DEF Recreate, Revive, At, Active
<1>1. /\ UNCHANGED <<lock, local, rollback, healthy, proven, manual, backups, rows, database>>
      /\ Reached(d, s)
      /\ script[d].at \in {"recreate", "restore", "revive"}
      /\ script[d].at = "restore" => ~script[d].recreated
      /\ app' = [app EXCEPT ![s] =
            [image |-> IF script[d].at = "restore" THEN app[s].image ELSE local, up |-> TRUE]]
  BY <1>0 DEF Recreate, Revive, At, Marks
<1>2. /\ script' \in [Deployments -> Script]
      /\ script'[d].at = script[d].at /\ script'[d].todo = script[d].todo \ {s}
      /\ script'[d].stopped = script[d].stopped
      /\ script'[d].recreated = script[d].recreated
      /\ \A e \in Deployments \ {d} : script'[e] = script[e]
  BY <1>0, <1>1, ReachedOne
<1>3. /\ app' \in [Services -> [image : Images, up : BOOLEAN]]
      /\ app'[s] = [image |-> IF script[d].at = "restore" THEN app[s].image ELSE local,
                    up |-> TRUE]
      /\ \A t \in Services \ {s} : app'[t] = app[t]
  <2>1. app[s].image \in Images /\ local \in Images
    BY <1>0, Typing DEF TypeOK
  <2> QED
    BY <1>0, <1>1, <2>1, Typing
<1>4. TypeOK'
  BY <1>0, <1>1, <1>2, <1>3 DEF TypeOK, Script, Place, backups, database
<1>5. Marks(d)'
  BY <1>0, <1>1, <1>2 DEF Marks, database
<1>6. Stage(d)'
  BY <1>0, <1>1, <1>2, <1>3 DEF Stage, AllAre, Running, Marks
<1> QED
  BY <1>0, <1>1, <1>2, <1>4, <1>5, <1>6, ScriptMoves DEF Active, database

\* The end of a deployment that went well.
LEMMA CompleteStep ==
    ASSUME SInv, NEW d \in Deployments, Complete(d)
    PROVE  SInv'
<1>0. /\ TypeOK /\ lock = d /\ Marks(d) /\ Stage(d) /\ proven # {} /\ d # None
  BY Held DEF Complete, At, Active
<1>1. /\ At(d, "recreate") /\ script[d].todo = {} /\ lock' = None
      /\ \A s \in Services : app[s].up /\ app[s].image \in healthy
      /\ proven' = proven \cup {app[s].image : s \in Services}
      /\ UNCHANGED <<local, rollback, app, healthy, manual, backups, rows, database>>
  BY DEF Complete
<1>2. /\ script' \in [Deployments -> Script]
      /\ script'[d].at = "complete" /\ script'[d].todo = script[d].todo
      /\ script'[d].stopped = script[d].stopped
      /\ script'[d].recreated = script[d].recreated
      /\ \A e \in Deployments \ {d} : script'[e] = script[e]
  BY <1>0, Entered DEF Complete, Place
<1>3. TypeOK'
  BY <1>0, <1>1, <1>2 DEF TypeOK, Script, Place, backups, database
<1>4. Marks(d)'
  BY <1>0, <1>1, <1>2 DEF Marks, At, Active, database
<1>5. SoundUnlessManual'
  <2>1. \A s \in Services : app[s] = [image |-> local, up |-> TRUE]
    BY <1>0, <1>1 DEF Stage, Running, At
  <2>2. local \in proven'
    BY <1>1, <2>1, DeploymentAssumption
  <2> QED
    BY <1>1, <2>1, <2>2 DEF SoundUnlessManual
<1> QED
  BY <1>0, <1>1, <1>2, <1>3, <1>4, <1>5, ScriptMoves DEF Active, database

\* A failure leaves the rest to the exit trap, if the services were stopped.
LEMMA FailStep ==
    ASSUME SInv, NEW d \in Deployments, Fail(d)
    PROVE  SInv'
<1>0. /\ TypeOK /\ lock = d /\ Marks(d) /\ Stage(d) /\ proven # {} /\ d # None
      /\ ~manual => rollback \in proven
  BY Held DEF Fail, Active
<1> DEFINE c == IF script[d].stopped THEN "restore" ELSE "failed"
<1>1. /\ script[d].at \in {"build", "stop", "backup", "migrate", "recreate"}
      /\ lock' = IF script[d].stopped THEN lock ELSE None
      /\ backupLock' \in {backupLock, None}
      /\ local' \in {local, Commit[d]}
      /\ UNCHANGED <<rollback, app, healthy, proven, manual, backup, rows, database>>
  BY DEF Fail
<1>2. /\ script' \in [Deployments -> Script]
      /\ script'[d].at = c /\ script'[d].todo = Services
      /\ script'[d].stopped = script[d].stopped
      /\ script'[d].recreated = script[d].recreated
      /\ \A e \in Deployments \ {d} : script'[e] = script[e]
  BY <1>0, Typing DEF Fail, Script, Place
<1>3. TypeOK'
  <2>1. local' \in Images /\ backupLock' \in Deployments \cup {Timer, None}
    BY <1>0, <1>1, Typing DEF TypeOK
  <2> QED
    BY <1>0, <1>1, <1>2, <2>1 DEF TypeOK, Script, Place, database
<1>4. Marks(d)'
  BY <1>0, <1>1, <1>2 DEF Marks, Active, database
<1>5. CASE script[d].stopped
  <2>1. c = "restore"
    BY <1>5
  <2> HIDE DEF c
  <2>2. Stage(d)'
    BY <1>0, <1>1, <1>2, <2>1 DEF Stage, AllAre, Running
  <2> QED
    BY <1>0, <1>1, <1>2, <1>3, <1>4, <1>5, <2>1, <2>2, ScriptMoves DEF Active, database
<1>6. CASE ~script[d].stopped
  <2>1. c = "failed" /\ script[d].at = "build"
    BY <1>0, <1>1, <1>6 DEF Marks, Active
  <2> HIDE DEF c
  <2>2. SoundUnlessManual'
    BY <1>0, <1>1, <2>1 DEF Stage, Running, SoundUnlessManual
  <2> QED
    BY <1>0, <1>1, <1>2, <1>3, <1>4, <1>6, <2>1, <2>2, ScriptMoves DEF Active, database
<1> QED
  BY <1>5, <1>6

\* The end of a deployment that went wrong: restored, given up, or killed.
LEMMA EndStep ==
    ASSUME SInv, NEW d \in Deployments, Restored(d) \/ GiveUp(d) \/ Kill(d)
    PROVE  SInv'
<1>0. /\ TypeOK /\ lock = d /\ Marks(d) /\ Stage(d) /\ proven # {} /\ d # None
      /\ ~manual => rollback \in proven
  <2>1. script[d].at \in Active
    BY Typing DEF Restored, GiveUp, Kill, At, Active, SInv, Script, Place
  <2> QED
    BY <2>1, Held
<1>1. PICK c \in {"failed", "killed"} : Enter(d, c)
  BY DEF Restored, GiveUp, Kill
<1>2. /\ lock' = None /\ backupLock' \in {backupLock, None}
      /\ UNCHANGED <<containers, backup, rows, database>>
      /\ manual' \in BOOLEAN /\ (manual => manual')
  <2>1. manual \in BOOLEAN /\ script[d].stopped \in BOOLEAN
    BY <1>0, Typing DEF TypeOK, Script
  <2> QED
    BY <2>1 DEF Restored, GiveUp, Kill, backups
<1>3. /\ script' \in [Deployments -> Script]
      /\ script'[d].at = c /\ script'[d].todo = script[d].todo
      /\ script'[d].stopped = script[d].stopped
      /\ script'[d].recreated = script[d].recreated
      /\ \A e \in Deployments \ {d} : script'[e] = script[e]
  BY <1>0, <1>1, Entered DEF Place
<1>4. TypeOK'
  BY <1>0, <1>2, <1>3 DEF TypeOK, Script, Place, containers, database
<1>5. Marks(d)'
  BY <1>0, <1>2, <1>3 DEF Marks, Active
<1>6. SoundUnlessManual'
  <2>1. CASE Restored(d)
    <3>1. \E image \in {local, rollback} : Running(Services, image)
                                           /\ (~script[d].recreated => image = rollback)
                                           /\ (script[d].recreated => local = rollback /\ image = local)
      BY <1>0, <2>1 DEF Restored, Stage, At
    <3> QED
      BY <1>0, <1>2, <2>1, <3>1 DEF Restored, Running, SoundUnlessManual, containers
  <2>2. CASE GiveUp(d)
    BY <2>2 DEF GiveUp, SoundUnlessManual
  <2>3. CASE Kill(d) /\ script[d].stopped
    BY <2>3 DEF Kill, SoundUnlessManual
  <2>4. CASE Kill(d) /\ ~script[d].stopped
    <3>1. script[d].at = "build"
      BY <1>0, <2>4, Typing DEF Kill, Marks, Active, Script, Place
    <3> QED
      BY <1>0, <1>2, <3>1 DEF Stage, Running, SoundUnlessManual, containers
  <2> QED
    BY <2>1, <2>2, <2>3, <2>4
<1> QED
  BY <1>0, <1>2, <1>3, <1>4, <1>5, <1>6, ScriptMoves DEF Active, containers, database

-----------------------------------------------------------------------------
(* The other steps. *)

LEMMA RefuseStep ==
    ASSUME SInv, NEW d \in Deployments, Refuse(d)
    PROVE  SInv'
<1>0. TypeOK /\ Exclusive /\ Marked /\ Staged /\ WayBack /\ SoundUnlessManual
  BY DEF SInv
<1>1. /\ At(d, "idle") /\ UNCHANGED <<lock, containers, manual, backups, rows, database>>
  BY DEF Refuse
<1>2. /\ script' \in [Deployments -> Script]
      /\ script'[d].at = "refused" /\ script'[d].todo = script[d].todo
      /\ script'[d].stopped = script[d].stopped
      /\ script'[d].recreated = script[d].recreated
      /\ \A e \in Deployments \ {d} : script'[e] = script[e]
  BY <1>0, Entered DEF Refuse, Place
<1>3. TypeOK'
  BY <1>0, <1>1, <1>2 DEF TypeOK, Script, Place, containers, backups, database
<1>4. Exclusive'
  BY <1>0, <1>1, <1>2 DEF Exclusive, At, Active
<1>5. Marked'
  <2> SUFFICES ASSUME NEW e \in Deployments PROVE Marks(e)'
    BY DEF Marked
  <2>1. Marks(e) /\ migrator' = migrator
    BY <1>0, <1>1 DEF Marked, database
  <2>2. CASE e = d
    BY <1>1, <1>2, <2>1, <2>2 DEF Marks, At, Active
  <2>3. CASE e # d
    BY <1>2, <2>1, <2>3 DEF Marks
  <2> QED
    BY <2>2, <2>3
<1>6. Staged'
  <2> SUFFICES ASSUME NEW e \in Deployments, lock' = e PROVE Stage(e)'
    BY DEF Staged
  <2>1. e # d /\ Stage(e)
    BY <1>0, <1>1 DEF Exclusive, At, Active, Staged
  <2> QED
    BY <1>1, <1>2, <2>1 DEF Stage, Running, AllAre, Down, containers
<1>7. WayBack' /\ SoundUnlessManual'
  BY <1>0, <1>1 DEF WayBack, SoundUnlessManual, containers
<1> QED
  BY <1>3, <1>4, <1>5, <1>6, <1>7 DEF SInv

\* Steps that concern neither a script nor a container.
LEMMA AsideStep ==
    ASSUME SInv, TypeOK', UNCHANGED <<lock, script, containers, manual>>,
           \A d \in Deployments : migrator[d].at = "none" => migrator'[d].at = "none"
    PROVE  SInv'
  BY DEF SInv, Exclusive, Marked, Marks, Staged, Stage, Running, AllAre, Down, WayBack,
         SoundUnlessManual, containers

LEMMA RecoverStep ==
    ASSUME SInv, Recover
    PROVE  SInv'
<1>0. TypeOK /\ Exclusive /\ Marked /\ Staged /\ WayBack /\ SoundUnlessManual
  BY DEF SInv
<1>1. PICK image \in proven :
         /\ local' = image
         /\ app' = [s \in Services |-> [image |-> image, up |-> TRUE]]
  BY DEF Recover
<1>2. /\ lock = None
      /\ UNCHANGED <<lock, script, rollback, healthy, proven, backups, rows, database>>
  BY DEF Recover
<1>3. TypeOK'
  <2>1. manual' \in BOOLEAN
    BY DEF Recover
  <2>2. local' \in Images /\ app' \in [Services -> [image : Images, up : BOOLEAN]]
    BY <1>0, <1>1 DEF TypeOK
  <2> QED
    BY <1>0, <1>2, <2>1, <2>2 DEF TypeOK, backups, database
<1>4. Exclusive' /\ Marked' /\ WayBack'
  BY <1>0, <1>2 DEF Exclusive, Marked, Marks, WayBack, database
<1>5. Staged'
  BY <1>2, Typing, <1>0 DEF Staged
<1>6. SoundUnlessManual'
  BY <1>1, <1>2 DEF SoundUnlessManual
<1> QED
  BY <1>3, <1>4, <1>5, <1>6 DEF SInv

LEMMA BackupStep ==
    ASSUME SInv, NEW d \in Deployments, Dump(d) \/ CountRows(d) \/ Verify(d)
    PROVE  SInv'
<1>0. TypeOK
  BY DEF SInv
<1>1. UNCHANGED <<lock, script, containers, manual, rows, database>>
  BY DEF Dump, CountRows, Verify
<1>2. backupLock' \in Deployments \cup {Timer, None}
  BY <1>0 DEF TypeOK, Dump, CountRows, Verify
<1>3. backup' \in [Deployments ->
          [at : {"none", "dumped", "counted", "verified"},
           dump : 0 .. MaxRows, counts : 0 .. MaxRows]]
  <2> DEFINE N == 0 .. MaxRows
             B == [at : {"none", "dumped", "counted", "verified"}, dump : N, counts : N]
  <2>1. backup \in [Deployments -> B] /\ rows \in N
    BY <1>0 DEF TypeOK
  <2>2. \/ backup' = [backup EXCEPT ![d].at = "dumped", ![d].dump = rows]
        \/ backup' = [backup EXCEPT ![d].at = "counted", ![d].counts = rows]
        \/ backup' = [backup EXCEPT ![d].at = "verified"]
    BY DEF Dump, CountRows, Verify
  <2> HIDE DEF N
  <2>3. backup' \in [Deployments -> B]
    BY <2>1, <2>2
  <2> QED
    BY <2>3 DEF N
<1>4. TypeOK'
  BY <1>0, <1>1, <1>2, <1>3 DEF TypeOK, containers, database
<1> QED
  BY <1>1, <1>4, AsideStep DEF database

LEMMA MigrateStep ==
    ASSUME SInv, NEW d \in Deployments, Migrate(d)
    PROVE  SInv'
<1>0. TypeOK
  BY DEF SInv
<1>1. UNCHANGED <<lock, script, containers, manual, backups, rows>>
  BY DEF Migrate, BeginMigration, CommitMigration, AbortMigration
<1>2. /\ ledger' \subseteq AllFiles /\ applied' \in [AllFiles -> Nat]
      /\ migrator' \in [Deployments ->
            [at : {"none", "waiting", "applying", "done", "failed"}, missing : SUBSET AllFiles]]
      /\ advisory' \in Deployments \cup {None}
      /\ \A e \in Deployments : advisory' = e <=> migrator'[e].at = "applying"
      /\ \A e \in Deployments : migrator[e].at = "none" => migrator'[e].at = "none"
  <2>1. CASE BeginMigration(d)
    BY <1>0, <2>1, Typing DEF BeginMigration, TypeOK
  <2>2. CASE CommitMigration(d)
    <3>1. /\ ledger' \subseteq AllFiles
          /\ advisory = d /\ advisory' = None
          /\ migrator' = [migrator EXCEPT ![d].at = "done"]
          /\ migrator[d].at = "applying"
      BY <1>0, <2>2 DEF CommitMigration, TypeOK
    <3>2. applied' \in [AllFiles -> Nat]
      BY <1>0, <2>2 DEF CommitMigration, TypeOK
    <3> QED
      BY <1>0, <3>1, <3>2, Typing DEF TypeOK
  <2>3. CASE AbortMigration(d)
    BY <1>0, <2>3, Typing DEF AbortMigration, TypeOK
  <2> QED
    BY <2>1, <2>2, <2>3 DEF Migrate
<1>3. TypeOK'
  BY <1>0, <1>1, <1>2 DEF TypeOK, containers, backups
<1> QED
  BY <1>1, <1>2, <1>3, AsideStep

LEMMA RestStep ==
    ASSUME SInv, TimerBegins \/ TimerEnds \/ Write \/ UNCHANGED vars
    PROVE  SInv'
<1>0. TypeOK
  BY DEF SInv
<1>1. UNCHANGED <<lock, script, containers, manual, backup, database>>
  BY DEF TimerBegins, TimerEnds, Write, vars, backups
<1>2. rows' \in 0 .. MaxRows /\ backupLock' \in Deployments \cup {Timer, None}
  BY <1>0, DeploymentAssumption DEF TypeOK, TimerBegins, TimerEnds, Write, vars, backups
<1>3. TypeOK'
  BY <1>0, <1>1, <1>2 DEF TypeOK, containers, database
<1> QED
  BY <1>1, <1>3, AsideStep DEF database

LEMMA ProgressStep ==
    ASSUME SInv, NEW d \in Deployments, Progress(d)
    PROVE  SInv'
<1>1. CASE \E s \in Services : Stop(d, s) \/ Recreate(d, s) \/ Revive(d, s)
  BY <1>1, StopStep, UpStep
<1>2. CASE Stopped(d) \/ Rehearse(d) \/ Retag(d)
  BY <1>2, EnterStep
<1>3. CASE Build(d) \/ Migrated(d) \/ Complete(d) \/ Fail(d)
  BY <1>3, BuildStep, MigratedStep, CompleteStep, FailStep
<1>4. CASE Restored(d) \/ GiveUp(d)
  BY <1>4, EndStep
<1>5. CASE Dump(d) \/ CountRows(d) \/ Verify(d)
  BY <1>5, BackupStep
<1> QED
  BY <1>1, <1>2, <1>3, <1>4, <1>5 DEF Progress

LEMMA NextSInv == SInv /\ [Next]_vars => SInv'
<1> SUFFICES ASSUME SInv, [Next]_vars PROVE SInv'
  OBVIOUS
<1>1. ASSUME NEW d \in Deployments,
             Start(d) \/ Refuse(d) \/ Progress(d) \/ Migrate(d) \/ Kill(d)
      PROVE  SInv'
  BY <1>1, StartStep, RefuseStep, ProgressStep, MigrateStep, EndStep
<1>2. CASE Recover
  BY <1>2, RecoverStep
<1>3. CASE TimerBegins \/ TimerEnds \/ Write \/ UNCHANGED vars
  BY <1>3, RestStep
<1> QED
  BY <1>1, <1>2, <1>3 DEF Next

LEMMA InitSInv == Init => SInv
<1> SUFFICES ASSUME Init PROVE SInv
  OBVIOUS
<1>1. TypeOK
  <2>1. /\ 0 \in Images /\ healthy \subseteq Images /\ proven \subseteq healthy
        /\ local \in Images /\ rollback \in Images
        /\ app \in [Services -> [image : Images, up : BOOLEAN]]
    BY DEF Init, Images
  <2>2. /\ script \in [Deployments -> Script]
        /\ backup \in [Deployments ->
              [at : {"none", "dumped", "counted", "verified"},
               dump : 0 .. MaxRows, counts : 0 .. MaxRows]]
        /\ rows \in 0 .. MaxRows
    BY DeploymentAssumption DEF Init, NotStarted, NoBackup, Script, Place
  <2>3. /\ migrator \in [Deployments ->
              [at : {"none", "waiting", "applying", "done", "failed"},
               missing : SUBSET AllFiles]]
        /\ \A d \in Deployments : advisory = d <=> migrator[d].at = "applying"
        /\ applied \in [AllFiles -> Nat] /\ ledger \subseteq AllFiles
    BY DeploymentAssumption DEF Init
  <2> QED
    BY <2>1, <2>2, <2>3 DEF Init, TypeOK, Script, Place
<1>2. Exclusive /\ Marked /\ Staged
  BY DeploymentAssumption
     DEF Init, NotStarted, Exclusive, Marked, Marks, Staged, Active
<1>3. WayBack /\ SoundUnlessManual
  BY DEF Init, WayBack, SoundUnlessManual
<1> QED
  BY <1>1, <1>2, <1>3 DEF SInv

-----------------------------------------------------------------------------
(* The data. *)

\* How the script of a deployment gets from one command to the next.
LEMMA ScriptPath ==
    ASSUME SInv, NEW e \in Deployments,
           Start(e) \/ Refuse(e) \/ Progress(e) \/ Kill(e),
           ~(Dump(e) \/ CountRows(e) \/ Verify(e))
    PROVE  /\ UNCHANGED <<backup, rows, advisory, ledger, applied>>
           /\ \A d \in Deployments \ {e} : script'[d] = script[d]
           /\ \/ script'[e].at \notin {"idle", "build", "stop", "backup", "migrate", "recreate"}
              \/ script'[e].at = "build" /\ script[e].at = "idle"
              \/ script'[e].at = "stop" /\ script[e].at \in {"build", "stop"}
              \/ script'[e].at = "backup" /\ script[e].at = "stop"
              \/ /\ script'[e].at = "migrate" /\ script[e].at = "backup"
                 /\ backup[e].at = "verified" /\ backup[e].dump = backup[e].counts
              \/ script'[e].at = "recreate" /\ script[e].at = "recreate"
              \/ /\ script'[e].at = "recreate" /\ script[e].at = "migrate"
                 /\ migrator[e].at = "done"
           /\ \/ migrator' = migrator
              \/ Rehearse(e)
<1>0. TypeOK
  BY DEF SInv
<1>1. CASE Start(e)
  BY <1>0, <1>1, Entered DEF Start, Place, At, backups, database
<1>2. CASE Refuse(e)
  BY <1>0, <1>2, Entered DEF Refuse, Place, At, backups, database
<1>3. CASE Build(e)
  BY <1>0, <1>3, Typing DEF Build, Script, At, backups, database
<1>4. CASE Stopped(e)
  BY <1>0, <1>4, Entered DEF Stopped, Place, At, backups, database
<1>5. CASE Rehearse(e)
  BY <1>0, <1>5, Entered DEF Rehearse, Place, At, backups
<1>6. CASE Migrated(e)
  BY <1>0, <1>6, Typing DEF Migrated, Script, At, backups, database
<1>7. CASE Complete(e)
  BY <1>0, <1>7, Entered DEF Complete, Place, backups, database
<1>8. CASE Retag(e)
  BY <1>0, <1>8, Entered DEF Retag, Place, backups, database
<1>9. CASE Restored(e)
  BY <1>0, <1>9, Entered DEF Restored, Place, backups, database
<1>10. CASE GiveUp(e)
  BY <1>0, <1>10, Entered DEF GiveUp, Place, backups, database
<1>11. CASE Kill(e)
  BY <1>0, <1>11, Entered DEF Kill, Place, database
<1>12. CASE Fail(e)
  BY <1>0, <1>12, Typing DEF Fail, Script, database
<1>13. ASSUME NEW s \in Services, Stop(e, s) PROVE script'[e].at = "stop" /\ script[e].at = "stop"
          /\ UNCHANGED <<backup, rows, database>>
          /\ \A d \in Deployments \ {e} : script'[d] = script[d]
  BY <1>0, <1>13, ReachedOne DEF Stop, At, backups
<1>14. ASSUME NEW s \in Services, Recreate(e, s)
       PROVE  script'[e].at = "recreate" /\ script[e].at = "recreate"
          /\ UNCHANGED <<backup, rows, database>>
          /\ \A d \in Deployments \ {e} : script'[d] = script[d]
  BY <1>0, <1>14, ReachedOne DEF Recreate, At, backups
<1>15. ASSUME NEW s \in Services, Revive(e, s)
       PROVE  script'[e].at \in {"restore", "revive"}
          /\ UNCHANGED <<backup, rows, database>>
          /\ \A d \in Deployments \ {e} : script'[d] = script[d]
  BY <1>0, <1>15, ReachedOne DEF Revive, At, backups
<1>16. CASE \E s \in Services : Stop(e, s) \/ Recreate(e, s) \/ Revive(e, s)
  BY <1>13, <1>14, <1>15, <1>16 DEF database
<1> QED
  BY <1>1, <1>2, <1>3, <1>4, <1>5, <1>6, <1>7, <1>8, <1>9, <1>10, <1>11, <1>12, <1>16
     DEF Progress

\* While a deployment is between its stop and its migrations, nothing runs that
\* could write, and nobody else has a step that concerns its backup.
LEMMA NextSaved == SInv /\ Saved /\ [Next]_vars => Saved'
<1> SUFFICES ASSUME SInv, Saved, [Next]_vars, NEW d \in Deployments
             PROVE  /\ script'[d].at \in {"idle", "build", "stop"} => backup'[d].at = "none"
                    /\ script'[d].at = "backup" /\ backup'[d].at # "none"
                          => backup'[d].dump = rows'
                    /\ script'[d].at = "backup" /\ backup'[d].at \in {"counted", "verified"}
                          => backup'[d].counts = rows'
                    /\ script'[d].at = "migrate"
                          => backup'[d].dump = rows' /\ backup'[d].counts = rows'
  BY DEF Saved, At
<1>0. /\ TypeOK /\ Exclusive
      /\ script[d].at \in {"idle", "build", "stop"} => backup[d].at = "none"
      /\ script[d].at = "backup" /\ backup[d].at # "none" => backup[d].dump = rows
      /\ script[d].at = "backup" /\ backup[d].at \in {"counted", "verified"}
            => backup[d].counts = rows
      /\ script[d].at = "migrate" => backup[d].dump = rows /\ backup[d].counts = rows
  BY DEF SInv, Saved, At
<1>1. CASE script' = script /\ backup' = backup /\ rows' = rows
  BY <1>0, <1>1
<1>2. CASE Write
  <2>1. ASSUME script[d].at \in {"backup", "migrate"} PROVE FALSE
    <3>1. Down(Services)
      BY <2>1, Held DEF Stage, Active
    <3> QED
      BY <1>2, <3>1 DEF Write, Down
  <2> QED
    BY <1>0, <1>2, <2>1 DEF Write, backups
<1>3. ASSUME NEW e \in Deployments, Dump(e) \/ CountRows(e) \/ Verify(e)
      PROVE  /\ script' = script /\ rows' = rows
             /\ e # d => backup'[d] = backup[d]
             /\ e = d => /\ script[d].at = "backup"
                         /\ \/ /\ backup[d].at = "none" /\ backup'[d].at = "dumped"
                               /\ backup'[d].dump = rows
                            \/ /\ backup[d].at = "dumped" /\ backup'[d].at = "counted"
                               /\ backup'[d].dump = backup[d].dump /\ backup'[d].counts = rows
                            \/ /\ backup[d].at = "counted" /\ backup'[d].at = "verified"
                               /\ backup'[d].dump = backup[d].dump
                               /\ backup'[d].counts = backup[d].counts
  BY <1>0, <1>3 DEF TypeOK, Dump, CountRows, Verify, At
<1>4. ASSUME NEW e \in Deployments,
             Start(e) \/ Refuse(e) \/ Progress(e) \/ Kill(e),
             ~(Dump(e) \/ CountRows(e) \/ Verify(e))
      PROVE  /\ script'[d].at \in {"idle", "build", "stop"} => backup'[d].at = "none"
             /\ script'[d].at = "backup" /\ backup'[d].at # "none"
                   => backup'[d].dump = rows'
             /\ script'[d].at = "backup" /\ backup'[d].at \in {"counted", "verified"}
                   => backup'[d].counts = rows'
             /\ script'[d].at = "migrate"
                   => backup'[d].dump = rows' /\ backup'[d].counts = rows'
  BY <1>0, <1>4, ScriptPath
<1>5. CASE TimerBegins \/ TimerEnds \/ Recover \/ UNCHANGED vars
           \/ \E e \in Deployments : Migrate(e)
  BY <1>1, <1>5 DEF TimerBegins, TimerEnds, Recover, vars, backups, Migrate,
                    BeginMigration, CommitMigration, AbortMigration
<1>6. ASSUME NEW e \in Deployments, Dump(e) \/ CountRows(e) \/ Verify(e)
      PROVE  /\ script'[d].at \in {"idle", "build", "stop"} => backup'[d].at = "none"
             /\ script'[d].at = "backup" /\ backup'[d].at # "none"
                   => backup'[d].dump = rows'
             /\ script'[d].at = "backup" /\ backup'[d].at \in {"counted", "verified"}
                   => backup'[d].counts = rows'
             /\ script'[d].at = "migrate"
                   => backup'[d].dump = rows' /\ backup'[d].counts = rows'
  BY <1>0, <1>3, <1>6
<1> QED
  BY <1>2, <1>4, <1>5, <1>6 DEF Next

\* A migration changes the ledger only while it holds the advisory lock, and a
\* script goes on only when its own is done.
LEMMA NextRecorded == SInv /\ Recorded /\ [Next]_vars => Recorded' /\ ledger \subseteq ledger'
<1> SUFFICES ASSUME SInv, Recorded, [Next]_vars PROVE Recorded' /\ ledger \subseteq ledger'
  OBVIOUS
<1>0. TypeOK
  BY DEF SInv
<1>1. CASE /\ UNCHANGED <<ledger, applied, migrator>>
           /\ \A d \in Deployments :
                 At(d, "recreate")' => At(d, "recreate") \/ migrator[d].at = "done"
  BY <1>1 DEF Recorded
<1>2. CASE UNCHANGED <<ledger, applied, migrator, script>>
  BY <1>1, <1>2 DEF At
<1>3. ASSUME NEW e \in Deployments,
             Start(e) \/ Refuse(e) \/ Progress(e) \/ Kill(e),
             ~(Dump(e) \/ CountRows(e) \/ Verify(e)), ~Rehearse(e)
      PROVE  Recorded' /\ ledger \subseteq ledger'
  <2>1. \A d \in Deployments :
           At(d, "recreate")' => At(d, "recreate") \/ migrator[d].at = "done"
    BY <1>3, ScriptPath DEF At
  <2> QED
    BY <1>1, <1>3, <2>1, ScriptPath
<1>4. ASSUME NEW e \in Deployments, Rehearse(e)
      PROVE  Recorded' /\ ledger \subseteq ledger'
  <2>1. /\ migrator' = [migrator EXCEPT ![e].at = "waiting"]
        /\ UNCHANGED <<ledger, applied>>
    BY <1>4 DEF Rehearse
  <2>2. \A d \in Deployments : At(d, "recreate")' => d # e /\ At(d, "recreate")
    BY <1>0, <1>4, Entered DEF Rehearse, Place, At
  <2>3. /\ migrator'[e].at = "waiting"
        /\ \A d \in Deployments \ {e} : migrator'[d] = migrator[d]
    BY <1>0, <2>1 DEF TypeOK
  <2> QED
    BY <2>1, <2>2, <2>3 DEF Recorded
<1>5. ASSUME NEW e \in Deployments, BeginMigration(e)
      PROVE  Recorded' /\ ledger \subseteq ledger'
  <2>1. /\ migrator[e].at = "waiting"
        /\ migrator' = [migrator EXCEPT ![e] =
              [at |-> "applying", missing |-> Files(Commit[e]) \ ledger]]
        /\ UNCHANGED <<ledger, applied, script>>
    BY <1>5 DEF BeginMigration
  <2>2. /\ migrator'[e].at = "applying"
        /\ migrator'[e].missing = Files(Commit[e]) \ ledger
        /\ \A d \in Deployments \ {e} : migrator'[d] = migrator[d]
    BY <1>0, <2>1 DEF TypeOK
  <2> QED
    BY <2>1, <2>2 DEF Recorded, At
<1>6. ASSUME NEW e \in Deployments, CommitMigration(e)
      PROVE  Recorded' /\ ledger \subseteq ledger'
  <2>1. /\ migrator[e].at = "applying"
        /\ applied' = [f \in AllFiles |->
                         applied[f] + (IF f \in migrator[e].missing THEN 1 ELSE 0)]
        /\ ledger' = ledger \cup migrator[e].missing
        /\ migrator' = [migrator EXCEPT ![e].at = "done"]
        /\ UNCHANGED script
    BY <1>6 DEF CommitMigration
  <2>2. /\ migrator'[e].at = "done"
        /\ \A d \in Deployments \ {e} :
              migrator'[d] = migrator[d] /\ migrator[d].at # "applying"
    BY <1>0, <2>1 DEF TypeOK
  <2>3. migrator[e].missing = Files(Commit[e]) \ ledger
    BY <2>1 DEF Recorded
  <2>4. \A f \in AllFiles : applied'[f] = IF f \in ledger' THEN 1 ELSE 0
    BY <2>1, <2>3 DEF Recorded
  <2> QED
    BY <2>1, <2>2, <2>3, <2>4 DEF Recorded, At
<1>7. ASSUME NEW e \in Deployments, AbortMigration(e)
      PROVE  Recorded' /\ ledger \subseteq ledger'
  <2>1. /\ migrator[e].at \in {"waiting", "applying"}
        /\ migrator' = [migrator EXCEPT ![e].at = "failed"]
        /\ UNCHANGED <<ledger, applied, script>>
    BY <1>7 DEF AbortMigration
  <2>2. /\ migrator'[e].at = "failed"
        /\ \A d \in Deployments \ {e} : migrator'[d] = migrator[d]
    BY <1>0, <2>1 DEF TypeOK
  <2> QED
    BY <2>1, <2>2 DEF Recorded, At
<1>8. CASE TimerBegins \/ TimerEnds \/ Recover \/ Write \/ UNCHANGED vars
           \/ \E e \in Deployments : Dump(e) \/ CountRows(e) \/ Verify(e)
  BY <1>2, <1>8 DEF TimerBegins, TimerEnds, Recover, Write, vars, database,
                    Dump, CountRows, Verify
<1> QED
  BY <1>3, <1>4, <1>5, <1>6, <1>7, <1>8 DEF Next, Migrate

\* Only images whose migrations are recorded are started.
LEMMA NextPrepared ==
    SInv /\ Recorded /\ Prepared /\ ledger \subseteq ledger' /\ [Next]_vars => Prepared'
<1> SUFFICES ASSUME SInv, Recorded, Prepared, ledger \subseteq ledger', [Next]_vars
             PROVE  Prepared'
  OBVIOUS
<1>0. TypeOK
  BY DEF SInv
<1>1. CASE UNCHANGED <<rollback, proven, app>>
  BY <1>1 DEF Prepared
<1>2. ASSUME NEW e \in Deployments, Start(e)
      PROVE  Prepared'
  <2>1. \A s \in Services : app[s].image = rollback'
    BY <1>2 DEF Start
  <2>2. UNCHANGED <<app, proven>>
    BY <1>2 DEF Start
  <2> QED
    BY <2>1, <2>2, DeploymentAssumption DEF Prepared
<1>3. ASSUME NEW e \in Deployments, NEW s \in Services, Stop(e, s)
      PROVE  Prepared'
  <2>1. /\ \A t \in Services : app'[t].image = app[t].image
        /\ UNCHANGED <<rollback, proven>>
    BY <1>0, <1>3, Typing DEF Stop
  <2> QED
    BY <2>1 DEF Prepared
<1>4. ASSUME NEW e \in Deployments, NEW s \in Services, Recreate(e, s) \/ Revive(e, s)
      PROVE  Prepared'
  <2>1. /\ script[e].at \in {"recreate", "restore", "revive"}
        /\ Stage(e) /\ Marks(e)
    BY <1>4, Held DEF Recreate, Revive, At, Active
  <2>2. Files(app'[s].image) \subseteq ledger
    <3>1. CASE script[e].at = "recreate"
      <4>1. local = Commit[e] /\ Files(Commit[e]) \subseteq ledger
        BY <2>1, <3>1 DEF Stage, Recorded, At
      <4>2. app'[s].image = local
        BY <1>0, <1>4, <3>1, Typing DEF Recreate, Revive, At
      <4> QED
        BY <4>1, <4>2
    <3>2. CASE script[e].at = "revive"
      <4>1. local = rollback
        BY <2>1, <3>2 DEF Stage
      <4>2. app'[s].image = local
        BY <1>0, <1>4, <2>1, <3>2, Typing DEF Recreate, Revive, At, Marks
      <4> QED
        BY <4>1, <4>2 DEF Prepared
    <3>3. CASE script[e].at = "restore"
      <4>1. app'[s].image = app[s].image
        BY <1>0, <1>4, <2>1, <3>3, Typing DEF Recreate, Revive, At, Marks
      <4> QED
        BY <4>1 DEF Prepared
    <3> QED
      BY <2>1, <3>1, <3>2, <3>3
  <2>3. /\ \A t \in Services \ {s} : app'[t] = app[t]
        /\ UNCHANGED <<rollback, proven>>
    BY <1>0, <1>4, Typing DEF Recreate, Revive
  <2> QED
    BY <2>2, <2>3 DEF Prepared
<1>5. ASSUME NEW e \in Deployments, Complete(e)
      PROVE  Prepared'
  BY <1>5 DEF Complete, Prepared
<1>6. CASE Recover
  BY <1>6 DEF Recover, Prepared
<1>7. ASSUME NEW e \in Deployments,
             Refuse(e) \/ Migrate(e) \/ Kill(e) \/ Build(e) \/ Stopped(e) \/ Rehearse(e)
             \/ Migrated(e) \/ Retag(e) \/ Restored(e) \/ Fail(e) \/ GiveUp(e)
             \/ Dump(e) \/ CountRows(e) \/ Verify(e)
      PROVE  Prepared'
  BY <1>1, <1>7 DEF Refuse, Migrate, BeginMigration, CommitMigration, AbortMigration, Kill,
                    Build, Stopped, Rehearse, Migrated, Retag, Restored, Fail, GiveUp,
                    Dump, CountRows, Verify, containers
<1>8. CASE TimerBegins \/ TimerEnds \/ Write \/ UNCHANGED vars
  BY <1>1, <1>8 DEF TimerBegins, TimerEnds, Write, vars, containers
<1> QED
  BY <1>2, <1>3, <1>4, <1>5, <1>6, <1>7, <1>8 DEF Next, Progress

LEMMA InitData == Init => Saved /\ Recorded /\ Prepared
<1> SUFFICES ASSUME Init PROVE Saved /\ Recorded /\ Prepared
  OBVIOUS
<1>1. Saved
  BY DEF Init, NotStarted, NoBackup, Saved, At
<1>2. Recorded
  BY DEF Init, NotStarted, Recorded, At
<1>3. Prepared
  <2>1. Files(0) = {}
    BY DEF Files
  <2> QED
    BY <2>1 DEF Init, Prepared
<1> QED
  BY <1>1, <1>2, <1>3

LEMMA Invariance == Spec => []IInv
<1>1. Init => IInv
  BY InitSInv, InitData DEF IInv
<1>2. IInv /\ [Next]_vars => IInv'
  BY NextSInv, NextSaved, NextRecorded, NextPrepared DEF IInv
<1> QED
  BY <1>1, <1>2, PTL DEF Spec

-----------------------------------------------------------------------------
\* The variables keep their types, whatever fails and whoever is killed.
THEOREM TypeCorrect == Spec => []TypeOK
<1>1. IInv => TypeOK
  BY DEF IInv, SInv
<1> QED
  BY <1>1, Invariance, PTL

\* When no script runs, both applications run with one image that was found
\* healthy, unless the script has asked for manual recovery (on_exit) or was
\* killed while they were stopped.
THEOREM EndsSound == Spec => []SoundUnlessManual
<1>1. IInv => SoundUnlessManual
  BY DEF IInv, SInv
<1> QED
  BY <1>1, Invariance, PTL

\* What is migrated has been saved to the last row.
THEOREM SavesFirst == Spec => []SavedBeforeMigrating
<1>1. IInv => SavedBeforeMigrating
  BY DEF IInv, Saved, SavedBeforeMigrating
<1> QED
  BY <1>1, Invariance, PTL

\* No application runs before its migrations, also when it is brought back.
THEOREM MigratesFirst == Spec => []MigratedBeforeRun
<1>1. IInv => MigratedBeforeRun
  BY DEF IInv, Prepared, MigratedBeforeRun
<1> QED
  BY <1>1, Invariance, PTL

\* No migration is executed twice (pg_advisory_xact_lock, planner_migrations).
THEOREM AppliesOnce == Spec => []AppliedOnce
<1>1. IInv => AppliedOnce
  BY DEF IInv, Recorded, AppliedOnce
<1> QED
  BY <1>1, Invariance, PTL
=============================================================================
