--------------------------- MODULE UpgradeJournal ---------------------------
(***************************************************************************)
(* `wavemind upgrade` (src/wavemind/upgrade.py): one operation over a      *)
(* package or a container, two databases and an environment file, none of  *)
(* which change together.  A lock file keeps other commands out, a journal *)
(* says how far the operation came, a backup and the old package or image  *)
(* undo it: at once when a step raises, or from the journal by the next    *)
(* command when the process died.                                          *)
(*                                                                         *)
(* A run is a process of the command, with a pid of its own each time.  A  *)
(* database is the set of writes it holds: migration of the staged copies  *)
(* keeps every row or the step raises.  Object manifests, other            *)
(* configuration files and disk space are left out; a command (pip,        *)
(* docker) that raises may have had its effect or not.                     *)
(***************************************************************************)
EXTENDS Integers, Sequences, FiniteSets

CONSTANTS
    Runs,
    Versions,
    Modes,         \* "python" or "docker-compose"
    Quiet,         \* no client writes while a command is inside the lock, or
                   \* an operation that a crash cut short is unfinished
    MaxWrites,     \* bound: client writes
    MaxFaults      \* bound: crashes and errors

ASSUME UpgradeAssumption ==
    /\ Versions \subseteq Nat \ {0} /\ 1 \in Versions
    /\ Modes \subseteq {"python", "docker-compose"}
    /\ Runs \cap {"nobody", "dead"} = {}
    /\ Quiet \in BOOLEAN
    /\ MaxWrites \in Nat /\ MaxFaults \in Nat

VARIABLES
    mode,
    lock,       \* upgrade.lock: whose file it is, and whether its pid is in it
    journal,    \* journal.json
    package,    \* the installed version; 0 while pip has removed the old one
    service,    \* the version of the container; 0 when it is stopped
    files,      \* core_db, experience_db and WAVEMIND_IMAGE in the env file
    pin,        \* whether the rollback image of the journal exists
    op,         \* each run: where it stands, its journal in memory, its locals
    written,    \* history: writes acknowledged by each database
    raced,      \* history: a lock was taken that another command is about to
                \* remove, or was found before its owner's pid was in it
    faults      \* crashes and errors so far

vars == <<mode, lock, journal, package, service, files, pin, op, written, raced,
          faults>>

None == << >>
Parts == <<"core", "experience", "env">>     \* in backup order
Databases == {"core", "experience"}
Files == [core : SUBSET (1..MaxWrites), experience : SUBSET (1..MaxWrites), env : Versions]

Terminal == {"complete", "rolled_back", "recovered"}     \* TERMINAL_STATUSES
Journals ==
    [status : {"none", "started", "rolling_back", "rollback_failed"} \cup Terminal,
     from : Versions, to : Versions,
     dry : BOOLEAN,                \* dry_run
     source : BOOLEAN,             \* source_artifact is recorded
     pinned : BOOLEAN,             \* rollback_image is recorded
     backup : Files \cup {None}]   \* the archive at backup_path

NoJournal ==
    [status |-> "none", from |-> 1, to |-> 1, dry |-> FALSE, source |-> FALSE,
     pinned |-> FALSE, backup |-> None]

Locking == {"read", "unlink", "create", "note_pid"}
Recovering == {"load", "restore", "revert", "reinstall", "unpin", "settle"}
Forward == {"preflight", "stop", "backup", "note", "stage", "install",
            "installing", "activate", "start", "check", "complete"}

Ops ==
    [pc : {"idle", "begin", "parity", "discard"} \cup Locking \cup Recovering \cup Forward,
     payload : Journals,
     recovering : BOOLEAN,         \* inside _recover_interrupted
     activated : BOOLEAN, stopped : BOOLEAN,
     before : Files \cup {None},   \* state_before and config_before
     archive : Files \cup {None},  \* the file at the local backup_path
     staged : Files \cup {None},   \* the migrated copies
     left : 0..3,                  \* files still to restore or activate
     failed : BOOLEAN]             \* rollback_errors

Idle ==
    [pc |-> "idle", payload |-> NoJournal, recovering |-> FALSE, activated |-> FALSE,
     stopped |-> FALSE, before |-> None, archive |-> None, staged |-> None,
     left |-> 0, failed |-> FALSE]

Free == [by |-> "nobody", noted |-> FALSE]

TypeOK ==
    /\ mode \in Modes
    /\ lock \in [by : Runs \cup {"nobody", "dead"}, noted : BOOLEAN]
    /\ journal \in Journals
    /\ package \in Versions \cup {0}
    /\ service \in Versions \cup {0}
    /\ files \in Files
    /\ pin \in BOOLEAN
    /\ op \in [Runs -> Ops]
    /\ written \in [Databases -> SUBSET (1..MaxWrites)]
    /\ raced \in BOOLEAN
    /\ faults \in 0..MaxFaults

Init ==
    /\ mode \in Modes
    /\ lock = Free
    /\ journal = NoJournal
    /\ package = 1
    /\ service = IF mode = "python" THEN 0 ELSE 1
    /\ files = [core |-> {}, experience |-> {}, env |-> 1]
    /\ pin = FALSE
    /\ op = [r \in Runs |-> Idle]
    /\ written = [d \in Databases |-> {}]
    /\ raced = FALSE
    /\ faults = 0

Python == mode = "python"
At(r, pc) == op[r].pc = pc

(* Run r goes on at pc; with other locals; or ends.                        *)
Moved(r, locals) == [op EXCEPT ![r] = locals]
Goto(r, pc) == op' = Moved(r, [op[r] EXCEPT !.pc = pc])
End(r) == op' = Moved(r, Idle)

(* The body of upgrade_lock: past its acquisition.                         *)
Inside == {r \in Runs : op[r].pc \notin Locking \cup {"idle"}}
Settled == journal.status \in Terminal \cup {"none"}

(* The block is left: `finally` unlinks whatever file has the lock's name. *)
Leave(r) == End(r) /\ lock' = Free

-----------------------------------------------------------------------------
(* upgrade_lock.                                                           *)

(* The file is created, if there is none; another command that has read an *)
(* older one goes on to remove this one.                                   *)
Takes(r) ==
    /\ lock.by = "nobody"
    /\ lock' = [by |-> r, noted |-> FALSE]
    /\ raced' = (raced \/ \E s \in Runs : At(s, "unlink"))
    /\ Goto(r, "note_pid")

(* The command starts (with a package to start from) and tries to create   *)
(* the file.                                                               *)
OpenLock(r) ==
    /\ At(r, "idle")
    /\ Python => package # 0
    /\ \/ Takes(r)
       \/ lock.by # "nobody" /\ Goto(r, "read") /\ UNCHANGED <<lock, raced>>
    /\ UNCHANGED <<mode, journal, package, service, files, pin, written, faults>>

(* The lock r reads is there, but the pid of its owner is not yet.         *)
Unnoted == lock.by \in Runs /\ ~lock.noted

(* Mistake: a lock that exists is never taken over.                        *)
ReadAsLive(r) ==
    /\ At(r, "read")
    /\ IF lock.by # "nobody" THEN End(r) ELSE Goto(r, "unlink")
    /\ UNCHANGED <<mode, lock, journal, package, service, files, pin, written,
                   raced, faults>>

(* Mistake: the owner's life is not looked at.                             *)
ReadAsDead(r) ==
    /\ At(r, "read")
    /\ Goto(r, "unlink")
    /\ raced' = (raced \/ Unnoted)
    /\ UNCHANGED <<mode, lock, journal, package, service, files, pin, written, faults>>

(* A lock whose pid is alive blocks; one that is gone, dead or without a   *)
(* pid is taken over.                                                      *)
ReadLock(r) ==
    /\ At(r, "read")
    /\ IF lock.by \in Runs /\ lock.noted THEN End(r) ELSE Goto(r, "unlink")
    /\ raced' = (raced \/ Unnoted)
    /\ UNCHANGED <<mode, lock, journal, package, service, files, pin, written, faults>>

UnlinkLock(r) ==
    /\ At(r, "unlink")
    /\ lock' = Free
    /\ Goto(r, "create")
    /\ UNCHANGED <<mode, journal, package, service, files, pin, written, raced, faults>>

CreateLock(r) ==
    /\ At(r, "create")
    /\ \/ Takes(r)
       \/ lock.by # "nobody" /\ End(r) /\ UNCHANGED <<lock, raced>>
    /\ UNCHANGED <<mode, journal, package, service, files, pin, written, faults>>

(* A file that was unlinked meanwhile takes the pid with it.               *)
NotePid(r) ==
    /\ At(r, "note_pid")
    /\ lock' = IF lock.by = r THEN [lock EXCEPT !.noted = TRUE] ELSE lock
    /\ Goto(r, "load")
    /\ UNCHANGED <<mode, journal, package, service, files, pin, written, raced, faults>>

-----------------------------------------------------------------------------
(* _recover_interrupted, and the except block of run_upgrade: both restore *)
(* the backup, then bring back the package or the container, then say so.  *)

Undo(r) == IF op[r].archive # None THEN "restore" ELSE "revert"

LoadJournal(r) ==
    /\ At(r, "load")
    /\ IF Settled THEN Goto(r, "begin")
       ELSE op' = Moved(r, [op[r] EXCEPT
               !.payload = journal, !.recovering = TRUE, !.left = Len(Parts),
               !.archive = journal.backup,
               !.pc = IF journal.backup # None THEN "restore" ELSE "revert"])
    /\ UNCHANGED <<mode, lock, journal, package, service, files, pin, written, raced, faults>>

(* restore_upgrade_backup: one os.replace after the other.                 *)
Restore(r) ==
    LET p == Parts[1 + Len(Parts) - op[r].left]
    IN  /\ At(r, "restore")
        /\ files' = [files EXCEPT ![p] = op[r].archive[p]]
        /\ op' = Moved(r, [op[r] EXCEPT
              !.left = @ - 1, !.pc = IF op[r].left = 1 THEN "revert" ELSE "restore"])
        /\ UNCHANGED <<mode, lock, journal, package, service, pin, written, raced, faults>>

(* Whether the run has a package to reinstall or a container to recreate.  *)
Reverts(r) ==
    IF Python THEN op[r].payload.source /\ (op[r].recovering \/ op[r].activated)
    ELSE op[r].payload.pinned
         /\ (op[r].recovering \/ op[r].activated \/ op[r].stopped)

Closing(r) == IF op[r].recovering THEN "settle" ELSE "parity"

(* What a failure of an undoing step means: recovery is given up, the      *)
(* journal staying as it is; rollback notes it and goes on with `next`.    *)
Fails(r, next) ==
    IF op[r].recovering THEN Leave(r)
    ELSE /\ op' = Moved(r, [op[r] EXCEPT !.failed = TRUE, !.pc = next])
         /\ UNCHANGED lock

(* _rollback_compose tags the rollback image, recreates the container from *)
(* the env file and verifies its version; _install_wheel begins.           *)
Revert(r) ==
    /\ At(r, "revert")
    /\ CASE ~Reverts(r) ->
              /\ Goto(r, IF op[r].payload.pinned /\ ~op[r].recovering THEN "unpin" ELSE Closing(r))
              /\ UNCHANGED <<lock, package, service>>
         [] Reverts(r) /\ Python ->
              /\ package' = 0
              /\ Goto(r, "reinstall")
              /\ UNCHANGED <<lock, service>>
         [] Reverts(r) /\ ~Python /\ pin ->
              /\ service' = files.env
              /\ IF files.env = op[r].payload.from
                 THEN Goto(r, "unpin") /\ UNCHANGED lock
                 ELSE Fails(r, "parity")
              /\ UNCHANGED package
         [] OTHER -> Fails(r, "parity") /\ UNCHANGED <<package, service>>
    /\ UNCHANGED <<mode, journal, files, pin, written, raced, faults>>

Reinstall(r) ==
    /\ At(r, "reinstall")
    /\ package' = op[r].payload.from
    /\ Goto(r, Closing(r))
    /\ UNCHANGED <<mode, lock, journal, service, files, pin, written, raced, faults>>

(* docker image rm, before the outcome is recorded.                        *)
Unpin(r) ==
    /\ At(r, "unpin")
    /\ pin' = FALSE
    /\ Goto(r, Closing(r))
    /\ UNCHANGED <<mode, lock, journal, package, service, files, written, raced, faults>>

(* Rollback compares the files with what they were.                        *)
Parity(r) ==
    /\ At(r, "parity")
    /\ op' = Moved(r, [op[r] EXCEPT !.pc = "settle",
          !.failed = @ \/ (op[r].before # None /\ files # op[r].before)])
    /\ UNCHANGED <<mode, lock, journal, package, service, files, pin, written, raced, faults>>

Outcome(r) ==
    IF op[r].recovering THEN "recovered"
    ELSE IF op[r].failed THEN "rollback_failed" ELSE "rolled_back"

Settle(r) ==
    /\ At(r, "settle")
    /\ journal' = [op[r].payload EXCEPT !.status = Outcome(r)]
    /\ IF op[r].recovering
       THEN op' = Moved(r, [Idle EXCEPT !.pc = "begin"]) /\ UNCHANGED lock
       ELSE Leave(r)
    /\ UNCHANGED <<mode, package, service, files, pin, written, raced, faults>>

-----------------------------------------------------------------------------
(* run_upgrade.                                                            *)

(* While pip has removed the package, what a process finds is the version   *)
(* of its own code.                                                        *)
InstalledVersions ==
    IF Python THEN IF package # 0 THEN {package} ELSE Versions
    ELSE IF service # 0 THEN {service} ELSE {files.env}

(* The command refuses (a downgrade without --allow-downgrade), or a new   *)
(* journal replaces the old one.                                           *)
Begin(r) ==
    /\ At(r, "begin")
    /\ \/ Leave(r) /\ UNCHANGED journal
       \/ \E from \in InstalledVersions, to \in Versions :
             /\ journal' = [NoJournal EXCEPT
                    !.status = "started", !.from = from, !.to = to]
             /\ op' = Moved(r, [Idle EXCEPT !.pc = "preflight", !.payload = journal'])
             /\ UNCHANGED lock
    /\ UNCHANGED <<mode, package, service, files, pin, written, raced, faults>>

(* Process and writer checks, artifacts; in Compose mode the current image *)
(* is tagged for rollback, the target pulled, and both noted.              *)
Preflight(r) ==
    LET j == op[r].payload
        payload == [j EXCEPT !.source = Python /\ j.from # j.to, !.pinned = ~Python]
    IN  /\ At(r, "preflight")
        /\ journal' = payload
        /\ pin' = ~Python
        /\ op' = Moved(r, [op[r] EXCEPT !.payload = payload, !.pc = "stop"])
        /\ UNCHANGED <<mode, lock, package, service, files, written, raced, faults>>

DryRun(r) ==
    /\ At(r, "stop")
    /\ journal' = [op[r].payload EXCEPT !.status = "complete", !.dry = TRUE]
    /\ Goto(r, "discard")
    /\ UNCHANGED <<mode, lock, package, service, files, pin, written, raced, faults>>

(* docker compose stop, the checks again, and the state the operation      *)
(* starts from.                                                            *)
Stop(r) ==
    /\ At(r, "stop")
    /\ service' = 0
    /\ op' = Moved(r, [op[r] EXCEPT !.stopped = ~Python, !.before = files, !.pc = "backup"])
    /\ UNCHANGED <<mode, lock, journal, package, files, pin, written, raced, faults>>

CreateBackup(r) ==
    /\ At(r, "backup")
    /\ op' = Moved(r, [op[r] EXCEPT !.archive = files, !.pc = "note"])
    /\ UNCHANGED <<mode, lock, journal, package, service, files, pin, written, raced, faults>>

NoteBackup(r) ==
    LET payload == [op[r].payload EXCEPT !.backup = op[r].archive]
    IN  /\ At(r, "note")
        /\ journal' = payload
        /\ op' = Moved(r, [op[r] EXCEPT !.payload = payload, !.pc = "stage"])
        /\ UNCHANGED <<mode, lock, package, service, files, pin, written, raced, faults>>

Stage(r) ==
    /\ At(r, "stage")
    /\ op' = Moved(r, [op[r] EXCEPT !.staged = files, !.pc = "install"])
    /\ UNCHANGED <<mode, lock, journal, package, service, files, pin, written, raced, faults>>

(* Mistake: pip at work does not count as a change of the package.         *)
InstallUnmarked(r) ==
    /\ At(r, "install")
    /\ LET next == IF Python /\ op[r].payload.source THEN "installing" ELSE "activate"
       IN  op' = Moved(r, [op[r] EXCEPT !.left = 2, !.activated = ~Python, !.pc = next])
    /\ package' = IF Python /\ op[r].payload.source THEN 0 ELSE package
    /\ files' = IF Python THEN files ELSE [files EXCEPT !.env = op[r].payload.to]
    /\ UNCHANGED <<mode, lock, journal, service, pin, written, raced, faults>>

(* pip removes the old package first; the env file is replaced at once.    *)
Install(r) ==
    LET noted == [op[r] EXCEPT !.left = Len(Parts) - 1]
    IN  /\ At(r, "install")
        /\ CASE Python /\ op[r].payload.source ->
                  /\ package' = 0
                  /\ op' = Moved(r, [noted EXCEPT !.activated = TRUE, !.pc = "installing"])
                  /\ UNCHANGED files
             [] Python /\ ~op[r].payload.source ->
                  /\ op' = Moved(r, [noted EXCEPT !.pc = "activate"])
                  /\ UNCHANGED <<package, files>>
             [] OTHER ->
                  /\ files' = [files EXCEPT !.env = op[r].payload.to]
                  /\ op' = Moved(r, [noted EXCEPT !.activated = TRUE, !.pc = "activate"])
                  /\ UNCHANGED package
        /\ UNCHANGED <<mode, lock, journal, service, pin, written, raced, faults>>

Installed(r) ==
    /\ At(r, "installing")
    /\ package' = op[r].payload.to
    /\ Goto(r, "activate")
    /\ UNCHANGED <<mode, lock, journal, service, files, pin, written, raced, faults>>

(* _activate_databases: the core database, then the experience database.   *)
Activate(r) ==
    LET p == Parts[3 - op[r].left]
    IN  /\ At(r, "activate")
        /\ files' = [files EXCEPT ![p] = op[r].staged[p]]
        /\ op' = Moved(r, [op[r] EXCEPT
              !.left = @ - 1, !.pc = IF op[r].left = 1 THEN "start" ELSE "activate"])
        /\ UNCHANGED <<mode, lock, journal, package, service, pin, written, raced, faults>>

StartContainer(r) ==
    /\ At(r, "start")
    /\ service' = IF Python THEN 0 ELSE files.env
    /\ op' = Moved(r, [op[r] EXCEPT !.stopped = FALSE, !.pc = "check"])
    /\ UNCHANGED <<mode, lock, journal, package, files, pin, written, raced, faults>>

(* The except block is entered: its first act is to say so in the journal. *)
RollBack(r, stopped) ==
    LET payload == [op[r].payload EXCEPT !.status = "rolling_back"]
    IN  /\ journal' = payload
        /\ op' = Moved(r, [op[r] EXCEPT
              !.payload = payload, !.stopped = stopped, !.left = Len(Parts), !.pc = Undo(r)])

(* The live state is compared with the staged one, and asked for its       *)
(* version.                                                                *)
Healthy(r) ==
    /\ \A d \in Databases : files[d] = op[r].staged[d]
    /\ op[r].payload.to = IF Python THEN package ELSE service

Check(r) ==
    /\ At(r, "check")
    /\ IF Healthy(r) THEN Goto(r, "complete") /\ UNCHANGED journal ELSE RollBack(r, op[r].stopped)
    /\ UNCHANGED <<mode, lock, package, service, files, pin, written, raced, faults>>

Complete(r) ==
    /\ At(r, "complete")
    /\ journal' = [op[r].payload EXCEPT !.status = "complete"]
    /\ Goto(r, "discard")
    /\ UNCHANGED <<mode, lock, package, service, files, pin, written, raced, faults>>

Discard(r) ==
    /\ At(r, "discard")
    /\ pin' = FALSE
    /\ Leave(r)
    /\ UNCHANGED <<mode, journal, package, service, files, written, raced, faults>>

-----------------------------------------------------------------------------
(* What goes wrong.                                                        *)

Fault == faults < MaxFaults /\ faults' = faults + 1

(* A step of the operation raises, and the except block is entered.        *)
StepRaises(r) ==
    /\ Fault
    /\ op[r].pc \in Forward
    /\ RollBack(r, op[r].stopped)
    /\ UNCHANGED <<mode, lock, package, service, files, pin, written, raced>>

(* A stop that times out may have stopped the container all the same.      *)
StopTimesOut(r) ==
    /\ Fault
    /\ At(r, "stop") /\ ~Python
    /\ service' \in {service, 0}
    /\ RollBack(r, TRUE)
    /\ UNCHANGED <<mode, lock, package, files, pin, written, raced>>

(* A step of recovery or rollback raises; a restore that raises puts back  *)
(* what it had replaced, docker may have recreated the container or only   *)
(* removed the old one.                                                    *)
UndoRaises(r) ==
    /\ Fault
    /\ \/ /\ At(r, "restore") /\ op[r].left = Len(Parts)
          /\ Fails(r, "revert")
          /\ UNCHANGED service
       \/ /\ At(r, "revert") /\ Reverts(r)
          /\ Fails(r, "parity")
          /\ service' \in IF Python THEN {service} ELSE {service, 0, files.env}
       \/ /\ At(r, "reinstall")
          /\ Fails(r, "parity")
          /\ UNCHANGED service
    /\ UNCHANGED <<mode, journal, package, files, pin, written, raced>>

Crash(r) ==
    /\ Fault
    /\ ~At(r, "idle")
    /\ End(r)
    /\ lock' = IF lock.by = r THEN [lock EXCEPT !.by = "dead"] ELSE lock
    /\ UNCHANGED <<mode, journal, package, service, files, pin, written, raced>>

(* A pip that died left no `wavemind` command: the user installs one.      *)
ReinstallByHand ==
    /\ Python /\ package = 0
    /\ \A r \in Runs : At(r, "idle")
    /\ package' \in Versions
    /\ UNCHANGED <<mode, lock, journal, service, files, pin, op, written, raced, faults>>

(* A client writes to a database through the running program.              *)
Write(d) ==
    LET n == 1 + Cardinality(UNION {written[e] : e \in Databases})
    IN  /\ n <= MaxWrites
        /\ IF Python THEN package # 0 ELSE service # 0
        /\ Quiet => Settled /\ Inside = {}
        /\ files' = [files EXCEPT ![d] = @ \cup {n}]
        /\ written' = [written EXCEPT ![d] = @ \cup {n}]
        /\ UNCHANGED <<mode, lock, journal, package, service, pin, op, raced, faults>>

Step(r) ==
    \/ OpenLock(r) \/ ReadLock(r) \/ UnlinkLock(r) \/ CreateLock(r) \/ NotePid(r)
    \/ LoadJournal(r) \/ Restore(r) \/ Revert(r) \/ Reinstall(r) \/ Unpin(r)
    \/ Parity(r) \/ Settle(r)
    \/ Begin(r) \/ Preflight(r) \/ DryRun(r) \/ Stop(r) \/ CreateBackup(r)
    \/ NoteBackup(r) \/ Stage(r) \/ Install(r) \/ Installed(r) \/ Activate(r)
    \/ StartContainer(r) \/ Check(r) \/ Complete(r) \/ Discard(r)

Next ==
    \/ \E r \in Runs : Step(r) \/ StepRaises(r) \/ StopTimesOut(r) \/ UndoRaises(r) \/ Crash(r)
    \/ ReinstallByHand
    \/ \E d \in Databases : Write(d)

Spec == Init /\ [][Next]_vars

(* A process that can go on does, and whoever upgrades runs the command    *)
(* again after a crash, with a package to run it from.                     *)
FairSpec ==
    /\ Spec
    /\ \A r \in Runs : WF_vars(Step(r))
    /\ WF_vars(ReinstallByHand)

-----------------------------------------------------------------------------
(* One upgrade at a time ("another WaveMind upgrade is running"), as long  *)
(* as no command took a lock in the midst of another's take-over.          *)
OneUpgrade == raced \/ \A r, s \in Inside : r = s

(* The same without the exception, as the upgrade guide has it.            *)
AlwaysOne == \A r, s \in Inside : r = s

(* The runs of TLC go no further than a race, of which nothing is claimed. *)
Unraced == ~raced

(* The version the journal says the installation has.                      *)
Promised == IF journal.status = "complete" /\ ~journal.dry THEN journal.to ELSE journal.from

(* When the journal says the last operation is over, and none is under     *)
(* way, the package (or the container, and the image its env file names)   *)
(* is the version the journal says, complete and running, and neither      *)
(* database has lost a write: whatever raised or died, and in recovery and *)
(* rollback too, unless two commands were inside the lock at once.         *)
Whole ==
    ~raced /\ Settled /\ Inside = {} =>
        /\ \A d \in Databases : files[d] = written[d]
        /\ IF Python THEN package = Promised
           ELSE service = Promised /\ files.env = Promised

(* The rollback image was removed before the outcome was recorded: docker  *)
(* tag fails in every recovery from then on.                               *)
Stranded == ~Python /\ journal.pinned /\ ~pin /\ ~Settled

(* Running the command again brings an interrupted operation to an end.    *)
Settles == []<>(Settled \/ Stranded \/ raced)

(* The same without the exceptions, as the upgrade guide has it.           *)
AlwaysSettles == []<>(Settled \/ raced)
=============================================================================
