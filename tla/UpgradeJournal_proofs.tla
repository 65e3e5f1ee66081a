----------------------- MODULE UpgradeJournal_proofs -----------------------
(* Machine-checked safety of `wavemind upgrade`, for any number of         *)
(* processes, versions, client writes, crashes and errors.                 *)
EXTENDS UpgradeJournal, FiniteSetTheorems, TLAPS

(* A restore, an activation and an installation have something to copy.    *)
Ready(o) ==
    /\ o.pc = "restore" => o.archive # None /\ o.left \in 1..3
    /\ o.pc = "activate" => o.staged # None /\ o.left \in 1..2
    /\ o.pc = "install" => o.staged # None
    /\ o.pc = "installing" => o.staged # None /\ o.left \in 1..2

TypeInv == TypeOK /\ \A r \in Runs : Ready(op[r])

-----------------------------------------------------------------------------
(* Copying one part of the files.                                          *)
LEMMA CopyEffect ==
    ASSUME NEW f \in Files, NEW g \in Files, NEW k \in 1..3
    PROVE  LET h == [f EXCEPT ![Parts[k]] = g[Parts[k]]] IN
           /\ h \in Files
           /\ h.core = IF k = 1 THEN g.core ELSE f.core
           /\ h.experience = IF k = 2 THEN g.experience ELSE f.experience
           /\ h.env = IF k = 3 THEN g.env ELSE f.env
<1>1. CASE k = 1  BY <1>1 DEF Parts, Files
<1>2. CASE k = 2  BY <1>2 DEF Parts, Files
<1>3. CASE k = 3  BY <1>3 DEF Parts, Files
<1>4. QED  BY <1>1, <1>2, <1>3

LEMMA PartsCount == Len(Parts) = 3
  BY DEF Parts

LEMMA MovedEffect ==
    ASSUME op \in [Runs -> Ops], NEW r \in Runs, NEW x \in Ops
    PROVE  /\ Moved(r, x) \in [Runs -> Ops]
           /\ Moved(r, x)[r] = x
           /\ \A s \in Runs \ {r} : Moved(r, x)[s] = op[s]
  BY DEF Moved

LEMMA IdleIsOp == Idle \in Ops /\ NoJournal \in Journals
<1>1. NoJournal \in Journals
  BY UpgradeAssumption DEF NoJournal, Journals, Terminal, None
<1>2. QED
  BY <1>1 DEF Idle, Ops

(* A run that moves to well-formed locals keeps all runs well formed.      *)
LEMMA MoveType ==
    ASSUME TypeInv, NEW r \in Runs, NEW x \in Ops, Ready(x), op' = Moved(r, x)
    PROVE  op' \in [Runs -> Ops] /\ \A s \in Runs : Ready(op'[s])
<1>1. op \in [Runs -> Ops] /\ \A s \in Runs : Ready(op[s])
  BY DEF TypeInv, TypeOK
<1>2. op' \in [Runs -> Ops] /\ op'[r] = x /\ \A s \in Runs \ {r} : op'[s] = op[s]
  BY <1>1, MovedEffect
<1>3. ASSUME NEW s \in Runs
      PROVE  Ready(op'[s])
  <2>1. CASE s = r  BY <1>2, <2>1
  <2>2. CASE s # r  BY <1>1, <1>2, <2>2
  <2>3. QED  BY <2>1, <2>2
<1>4. QED  BY <1>2, <1>3

LEMMA EndType ==
    ASSUME TypeInv, NEW r \in Runs, End(r)
    PROVE  op' \in [Runs -> Ops] /\ \A s \in Runs : Ready(op'[s])
<1>1. Ready(Idle)
  BY DEF Ready, Idle
<1>2. op' = Moved(r, Idle)
  BY DEF End
<1>3. QED
  BY <1>1, <1>2, MoveType, IdleIsOp

(* A run that only goes on to a step that copies nothing.                  *)
LEMMA GotoType ==
    ASSUME TypeInv, NEW r \in Runs, NEW pc, Goto(r, pc),
           [op[r] EXCEPT !.pc = pc] \in Ops,
           pc \notin {"restore", "activate", "install", "installing"}
    PROVE  op' \in [Runs -> Ops] /\ \A s \in Runs : Ready(op'[s])
<1>1. Ready([op[r] EXCEPT !.pc = pc])
  BY DEF Ready, Ops, TypeInv, TypeOK
<1>2. op' = Moved(r, [op[r] EXCEPT !.pc = pc])
  BY DEF Goto
<1>3. QED
  BY <1>1, <1>2, MoveType

LockFiles == [by : Runs \cup {"nobody", "dead"}, noted : BOOLEAN]

LEMMA LockType ==
    ASSUME NEW r \in Runs
    PROVE  [by |-> r, noted |-> FALSE] \in LockFiles /\ Free \in LockFiles
  BY DEF Free, LockFiles

-----------------------------------------------------------------------------
LEMMA LockingType ==
    ASSUME TypeInv, NEW r \in Runs,
           OpenLock(r) \/ ReadLock(r) \/ UnlinkLock(r) \/ CreateLock(r) \/ NotePid(r)
    PROVE  TypeInv'
<1> USE DEF TypeInv
<1>1. \A pc \in Locking \cup {"load"} : [op[r] EXCEPT !.pc = pc] \in Ops
  BY DEF TypeOK, Ops, Locking, Recovering
<1> DEFINE Rest == UNCHANGED <<mode, journal, package, service, files, pin, written, faults>>
           Moves == \/ End(r)
                    \/ Goto(r, "read") \/ Goto(r, "unlink") \/ Goto(r, "create")
                    \/ Goto(r, "note_pid") \/ Goto(r, "load")
<1>2. Moves /\ lock' \in LockFiles /\ raced' \in BOOLEAN /\ Rest
  <2>1. CASE OpenLock(r)
    <3>1. CASE lock.by = "nobody"
      BY <2>1, <3>1, LockType DEF OpenLock, Takes
    <3>2. CASE lock.by # "nobody"
      BY <2>1, <3>2 DEF OpenLock, Takes, TypeOK, LockFiles
    <3>3. QED  BY <3>1, <3>2
  <2>2. CASE ReadLock(r)
    BY <2>2 DEF ReadLock, TypeOK, LockFiles
  <2>3. CASE UnlinkLock(r)
    BY <2>3, LockType DEF UnlinkLock, TypeOK
  <2>4. CASE CreateLock(r)
    <3>1. CASE lock.by = "nobody"
      BY <2>4, <3>1, LockType DEF CreateLock, Takes
    <3>2. CASE lock.by # "nobody"
      BY <2>4, <3>2 DEF CreateLock, Takes, TypeOK, LockFiles
    <3>3. QED  BY <3>1, <3>2
  <2>5. CASE NotePid(r)
    BY <2>5 DEF NotePid, TypeOK, LockFiles
  <2>6. QED  BY <2>1, <2>2, <2>3, <2>4, <2>5
<1>3. op' \in [Runs -> Ops] /\ \A s \in Runs : Ready(op'[s])
  BY <1>1, <1>2, GotoType, EndType DEF Locking
<1>4. QED
  BY <1>2, <1>3 DEF TypeOK, LockFiles

Pcs == {"idle", "begin", "parity", "discard"} \cup Locking \cup Recovering \cup Forward

LEMMA OpType == ASSUME TypeInv, NEW r \in Runs PROVE op[r] \in Ops
  BY DEF TypeInv, TypeOK

LEMMA OtherPc ==
    ASSUME TypeInv, NEW r \in Runs, NEW pc \in Pcs
    PROVE  [op[r] EXCEPT !.pc = pc] \in Ops
  BY OpType, Zenon DEF Ops, Pcs

LEMMA LeaveType ==
    ASSUME TypeInv, NEW r \in Runs, Leave(r)
    PROVE  /\ op' \in [Runs -> Ops] /\ \A s \in Runs : Ready(op'[s])
           /\ lock' \in LockFiles
  BY EndType, LockType DEF Leave

LEMMA FailsType ==
    ASSUME TypeInv, NEW r \in Runs, NEW pc \in {"revert", "parity"}, Fails(r, pc)
    PROVE  /\ op' \in [Runs -> Ops] /\ \A s \in Runs : Ready(op'[s])
           /\ lock' \in LockFiles
<1>1. CASE op[r].recovering
  BY <1>1, LeaveType DEF Fails
<1>2. CASE ~op[r].recovering
  <2> DEFINE x == [op[r] EXCEPT !.failed = TRUE, !.pc = pc]
  <2>1. x \in Ops
    <3>1. pc \in Pcs  BY DEF Pcs, Recovering
    <3>2. QED  BY <3>1, OpType, Zenon DEF Ops, Pcs
  <2>a. Ready(x)
    BY OpType DEF Ops, Ready
  <2>2. op' = Moved(r, x) /\ lock' = lock
    BY <1>2 DEF Fails
  <2>3. QED
    BY <2>1, <2>a, <2>2, MoveType DEF TypeInv, TypeOK, LockFiles
<1>3. QED  BY <1>1, <1>2

LEMMA RollBackType ==
    ASSUME TypeInv, NEW r \in Runs, NEW stopped \in BOOLEAN, RollBack(r, stopped)
    PROVE  /\ op' \in [Runs -> Ops] /\ \A s \in Runs : Ready(op'[s])
           /\ journal' \in Journals
<1> DEFINE payload == [op[r].payload EXCEPT !.status = "rolling_back"]
           x == [op[r] EXCEPT
                    !.payload = payload, !.stopped = stopped, !.left = Len(Parts), !.pc = Undo(r)]
<1>1. payload \in Journals
  BY DEF TypeInv, TypeOK, Ops, Journals
<1>2. x \in Ops
  <2>1. Len(Parts) \in 0..3 /\ Undo(r) \in Pcs
    BY PartsCount DEF Undo, Pcs, Recovering
  <2>2. QED  BY <1>1, <2>1, OpType, Zenon DEF Ops, Pcs
<1>3. Ready(x)
  BY PartsCount DEF Ready, Undo, TypeInv, TypeOK, Ops
<1>4. op' = Moved(r, x) /\ journal' = payload
  BY DEF RollBack
<1>5. QED
  BY <1>1, <1>2, <1>3, <1>4, MoveType

-----------------------------------------------------------------------------
LEMMA LoadType ==
    ASSUME TypeInv, NEW r \in Runs, LoadJournal(r)
    PROVE  TypeInv'
<1> DEFINE x == [op[r] EXCEPT
               !.payload = journal, !.recovering = TRUE, !.left = Len(Parts),
               !.archive = journal.backup,
               !.pc = IF journal.backup # None THEN "restore" ELSE "revert"]
<1>1. x \in Ops
  <2> DEFINE pc == IF journal.backup # None THEN "restore" ELSE "revert"
  <2>1. /\ Len(Parts) \in 0..3 /\ pc \in Pcs /\ TRUE \in BOOLEAN
        /\ journal \in Journals /\ journal.backup \in Files \cup {None}
    BY PartsCount DEF Pcs, Recovering, TypeInv, TypeOK, Journals
  <2>2. QED  BY <2>1, OpType, Zenon DEF Ops, Pcs
<1>2. Ready(x)
  BY PartsCount DEF TypeInv, TypeOK, Ops, Ready
<1>3. op' \in [Runs -> Ops] /\ \A s \in Runs : Ready(op'[s])
  <2>1. CASE Settled
    BY <2>1, GotoType, OtherPc DEF LoadJournal, Pcs
  <2>2. CASE ~Settled
    BY <2>2, <1>1, <1>2, MoveType DEF LoadJournal
  <2>3. QED  BY <2>1, <2>2
<1>4. QED
  BY <1>3 DEF LoadJournal, TypeInv, TypeOK

LEMMA RestoreType ==
    ASSUME TypeInv, NEW r \in Runs, Restore(r)
    PROVE  TypeInv'
<1> DEFINE k == 1 + Len(Parts) - op[r].left
           x == [op[r] EXCEPT
                    !.left = @ - 1, !.pc = IF op[r].left = 1 THEN "revert" ELSE "restore"]
<1>1. op[r] \in Ops /\ op[r].archive \in Files /\ op[r].left \in 1..3
  BY DEF TypeInv, TypeOK, Ready, Restore, At, Ops
<1>2. k \in 1..3
  BY <1>1, PartsCount
<1>3. files' \in Files
  BY <1>1, <1>2, CopyEffect DEF Restore, TypeInv, TypeOK
<1>4. x \in Ops
  <2>1. op[r].left - 1 \in 0..3 /\ (IF op[r].left = 1 THEN "revert" ELSE "restore") \in Pcs
    BY <1>1 DEF Pcs, Recovering
  <2>2. QED  BY <1>1, <2>1, Zenon DEF Ops, Pcs
<1>4a. Ready(x)
  BY <1>1 DEF Ops, Ready, TypeInv, Restore, At
<1>5. op' \in [Runs -> Ops] /\ \A s \in Runs : Ready(op'[s])
  BY <1>4, <1>4a, MoveType DEF Restore
<1>6. QED
  BY <1>3, <1>5 DEF Restore, TypeInv, TypeOK

LEMMA RevertType ==
    ASSUME TypeInv, NEW r \in Runs, Revert(r)
    PROVE  TypeInv'
<1>1. /\ op' \in [Runs -> Ops] /\ \A s \in Runs : Ready(op'[s])
      /\ lock' \in LockFiles
      /\ package' \in Versions \cup {0} /\ service' \in Versions \cup {0}
  <2>0. /\ lock \in LockFiles /\ files.env \in Versions
        /\ package \in Versions \cup {0} /\ service \in Versions \cup {0}
    BY DEF TypeInv, TypeOK, LockFiles, Files
  <2>1. CASE ~Reverts(r)
    <3> DEFINE pc == IF op[r].payload.pinned /\ ~op[r].recovering THEN "unpin" ELSE Closing(r)
    <3>1. pc \in {"unpin", "settle", "parity"}
      BY DEF Closing
    <3>2. Goto(r, pc) /\ UNCHANGED <<lock, package, service>>
      BY <2>1 DEF Revert
    <3>3. op' \in [Runs -> Ops] /\ \A s \in Runs : Ready(op'[s])
      BY <3>1, <3>2, GotoType, OtherPc DEF Recovering, Pcs
    <3>4. QED  BY <2>0, <3>2, <3>3
  <2>2. CASE Reverts(r) /\ Python
    <3>1. Goto(r, "reinstall") /\ package' = 0 /\ UNCHANGED <<lock, service>>
      BY <2>2 DEF Revert
    <3>2. op' \in [Runs -> Ops] /\ \A s \in Runs : Ready(op'[s])
      BY <3>1, GotoType, OtherPc DEF Recovering, Pcs
    <3>3. QED  BY <2>0, <3>1, <3>2
  <2>3. CASE Reverts(r) /\ ~Python /\ pin
    <3>1. CASE files.env = op[r].payload.from
      <4>1. Goto(r, "unpin") /\ service' = files.env /\ UNCHANGED <<lock, package>>
        BY <2>3, <3>1 DEF Revert
      <4>2. op' \in [Runs -> Ops] /\ \A s \in Runs : Ready(op'[s])
        BY <4>1, GotoType, OtherPc DEF Recovering, Pcs
      <4>3. QED  BY <2>0, <4>1, <4>2
    <3>2. CASE files.env # op[r].payload.from
      <4>1. Fails(r, "parity") /\ service' = files.env /\ UNCHANGED package
        BY <2>3, <3>2 DEF Revert
      <4>2. QED  BY <2>0, <4>1, FailsType
    <3>3. QED  BY <3>1, <3>2
  <2>4. CASE Reverts(r) /\ ~Python /\ ~pin
    <3>1. Fails(r, "parity") /\ UNCHANGED <<package, service>>
      BY <2>4 DEF Revert
    <3>2. QED  BY <2>0, <3>1, FailsType
  <2>5. QED
    BY <2>1, <2>2, <2>3, <2>4
<1>2. QED
  BY <1>1 DEF Revert, TypeInv, TypeOK, LockFiles

LEMMA ReplaceType ==
    ASSUME TypeInv, NEW r \in Runs, NEW x \in Ops, op' = Moved(r, x),
           x.pc \notin {"restore", "activate", "install", "installing"}
    PROVE  op' \in [Runs -> Ops] /\ \A s \in Runs : Ready(op'[s])
<1>1. Ready(x)
  BY DEF Ready
<1>2. QED  BY <1>1, MoveType

LEMMA ReinstallType ==
    ASSUME TypeInv, NEW r \in Runs, Reinstall(r)
    PROVE  TypeInv'
<1>1. Closing(r) \in {"settle", "parity"} \cap Pcs
  BY DEF Closing, Pcs, Recovering
<1>2. op' \in [Runs -> Ops] /\ \A s \in Runs : Ready(op'[s])
  BY <1>1, GotoType, OtherPc DEF Reinstall
<1>3. package' \in Versions \cup {0}
  BY OpType DEF Reinstall, Ops, Journals
<1>4. QED
  BY <1>2, <1>3 DEF Reinstall, TypeInv, TypeOK

LEMMA UnpinType ==
    ASSUME TypeInv, NEW r \in Runs, Unpin(r)
    PROVE  TypeInv'
<1>1. Closing(r) \in {"settle", "parity"} \cap Pcs
  BY DEF Closing, Pcs, Recovering
<1>2. op' \in [Runs -> Ops] /\ \A s \in Runs : Ready(op'[s])
  BY <1>1, GotoType, OtherPc DEF Unpin
<1>3. QED
  BY <1>2 DEF Unpin, TypeInv, TypeOK

LEMMA ParityType ==
    ASSUME TypeInv, NEW r \in Runs, Parity(r)
    PROVE  TypeInv'
<1> DEFINE bad == op[r].failed \/ (op[r].before # None /\ files # op[r].before)
           x == [op[r] EXCEPT !.pc = "settle", !.failed = bad]
<1>1. bad \in BOOLEAN /\ "settle" \in Pcs
  BY DEF Pcs, Recovering
<1>2. x \in Ops
  BY <1>1, OpType, Zenon DEF Ops, Pcs
<1>3. x.pc = "settle"
  BY OpType DEF Ops
<1>4. op' = Moved(r, x)
  BY DEF Parity
<1>5. op' \in [Runs -> Ops] /\ \A s \in Runs : Ready(op'[s])
  BY <1>2, <1>3, <1>4, ReplaceType
<1>6. QED
  BY <1>5 DEF Parity, TypeInv, TypeOK

LEMMA BeginningIsOp == [Idle EXCEPT !.pc = "begin"] \in Ops
<1>1. "begin" \in Pcs
  BY DEF Pcs
<1>2. QED  BY <1>1, IdleIsOp, Zenon DEF Ops, Pcs

LEMMA SettleType ==
    ASSUME TypeInv, NEW r \in Runs, Settle(r)
    PROVE  TypeInv'
<1>1. journal' \in Journals
  BY OpType DEF Settle, Outcome, Ops, Journals, Terminal
<1>2. op' \in [Runs -> Ops] /\ (\A s \in Runs : Ready(op'[s])) /\ lock' \in LockFiles
  <2>1. CASE op[r].recovering
    <3> DEFINE x == [Idle EXCEPT !.pc = "begin"]
    <3>1. x.pc = "begin"
      BY DEF Idle
    <3>2. op' = Moved(r, x) /\ lock' = lock
      BY <2>1 DEF Settle
    <3>3. QED
      BY <3>1, <3>2, BeginningIsOp, ReplaceType DEF TypeInv, TypeOK, LockFiles
  <2>2. CASE ~op[r].recovering
    BY <2>2, LeaveType DEF Settle
  <2>3. QED  BY <2>1, <2>2
<1>3. QED
  BY <1>1, <1>2 DEF Settle, TypeInv, TypeOK, LockFiles

LEMMA BeginType ==
    ASSUME TypeInv, NEW r \in Runs, Begin(r)
    PROVE  TypeInv'
<1>1. journal' \in Journals /\ lock' \in LockFiles
      /\ op' \in [Runs -> Ops] /\ \A s \in Runs : Ready(op'[s])
  <2>1. CASE Leave(r) /\ UNCHANGED journal
    BY <2>1, LeaveType DEF TypeInv, TypeOK
  <2>2. ASSUME NEW from \in InstalledVersions, NEW to \in Versions,
               journal' = [NoJournal EXCEPT !.status = "started", !.from = from, !.to = to],
               op' = Moved(r, [Idle EXCEPT !.pc = "preflight", !.payload = journal']),
               UNCHANGED lock
        PROVE  /\ journal' \in Journals /\ lock' \in LockFiles
               /\ op' \in [Runs -> Ops] /\ \A s \in Runs : Ready(op'[s])
    <3> DEFINE x == [Idle EXCEPT !.pc = "preflight", !.payload = journal']
    <3>1. from \in Versions
      BY DEF InstalledVersions, TypeInv, TypeOK, Files
    <3>2. journal' \in Journals
      BY <2>2, <3>1, IdleIsOp DEF Journals
    <3>3. "preflight" \in Pcs
      BY DEF Pcs, Forward
    <3>4. x \in Ops
      BY <3>2, <3>3, IdleIsOp, Zenon DEF Ops, Pcs
    <3>5. x.pc = "preflight"
      BY DEF Idle
    <3>6. op' \in [Runs -> Ops] /\ \A s \in Runs : Ready(op'[s])
      BY <2>2, <3>4, <3>5, ReplaceType
    <3>7. QED
      BY <2>2, <3>2, <3>6 DEF TypeInv, TypeOK, LockFiles
  <2>3. QED  BY <2>1, <2>2 DEF Begin
<1>2. QED
  BY <1>1 DEF Begin, TypeInv, TypeOK, LockFiles

LEMMA PreflightType ==
    ASSUME TypeInv, NEW r \in Runs, Preflight(r)
    PROVE  TypeInv'
<1> DEFINE j == op[r].payload
           source == Python /\ j.from # j.to
           pinned == ~Python
           payload == [j EXCEPT !.source = source, !.pinned = pinned]
           x == [op[r] EXCEPT !.payload = payload, !.pc = "stop"]
<1>1. j \in Journals /\ source \in BOOLEAN /\ pinned \in BOOLEAN /\ "stop" \in Pcs
  BY OpType DEF Ops, Pcs, Forward
<1>2. payload \in Journals
  BY <1>1, Zenon DEF Journals
<1>3. x \in Ops
  BY <1>1, <1>2, OpType, Zenon DEF Ops, Pcs
<1>4. x.pc = "stop"
  BY OpType DEF Ops
<1>5. op' = Moved(r, x) /\ journal' = payload /\ pin' = pinned
  BY DEF Preflight
<1>6. op' \in [Runs -> Ops] /\ \A s \in Runs : Ready(op'[s])
  BY <1>3, <1>4, <1>5, ReplaceType
<1>7. QED
  BY <1>1, <1>2, <1>5, <1>6 DEF Preflight, TypeInv, TypeOK

LEMMA DryRunType ==
    ASSUME TypeInv, NEW r \in Runs, DryRun(r)
    PROVE  TypeInv'
<1> DEFINE payload == [op[r].payload EXCEPT !.status = "complete", !.dry = TRUE]
<1>1. op[r].payload \in Journals
  BY OpType DEF Ops
<1>2. payload \in Journals
  BY <1>1 DEF Journals, Terminal
<1>3. op' \in [Runs -> Ops] /\ \A s \in Runs : Ready(op'[s])
  BY GotoType, OtherPc DEF DryRun, Pcs
<1>4. QED
  BY <1>2, <1>3 DEF DryRun, TypeInv, TypeOK

LEMMA StopType ==
    ASSUME TypeInv, NEW r \in Runs, Stop(r)
    PROVE  TypeInv'
<1> DEFINE stopped == ~Python
           x == [op[r] EXCEPT !.stopped = stopped, !.before = files, !.pc = "backup"]
<1>1. stopped \in BOOLEAN /\ files \in Files \cup {None} /\ "backup" \in Pcs
  BY DEF Pcs, Forward, TypeInv, TypeOK
<1>2. x \in Ops
  BY <1>1, OpType, Zenon DEF Ops, Pcs
<1>3. x.pc = "backup"
  BY OpType DEF Ops
<1>4. op' = Moved(r, x)
  BY DEF Stop
<1>5. op' \in [Runs -> Ops] /\ \A s \in Runs : Ready(op'[s])
  BY <1>2, <1>3, <1>4, ReplaceType
<1>6. QED
  BY <1>5 DEF Stop, TypeInv, TypeOK

LEMMA CreateBackupType ==
    ASSUME TypeInv, NEW r \in Runs, CreateBackup(r)
    PROVE  TypeInv'
<1> DEFINE x == [op[r] EXCEPT !.archive = files, !.pc = "note"]
<1>1. files \in Files \cup {None} /\ "note" \in Pcs
  BY DEF Pcs, Forward, TypeInv, TypeOK
<1>2. x \in Ops
  BY <1>1, OpType, Zenon DEF Ops, Pcs
<1>3. x.pc = "note"
  BY OpType DEF Ops
<1>4. op' \in [Runs -> Ops] /\ \A s \in Runs : Ready(op'[s])
  BY <1>2, <1>3, ReplaceType DEF CreateBackup
<1>5. QED
  BY <1>4 DEF CreateBackup, TypeInv, TypeOK

LEMMA NoteBackupType ==
    ASSUME TypeInv, NEW r \in Runs, NoteBackup(r)
    PROVE  TypeInv'
<1> DEFINE payload == [op[r].payload EXCEPT !.backup = op[r].archive]
           x == [op[r] EXCEPT !.payload = payload, !.pc = "stage"]
<1>1. /\ op[r].payload \in Journals /\ op[r].archive \in Files \cup {None}
      /\ "stage" \in Pcs
  BY OpType DEF Ops, Pcs, Forward
<1>2. payload \in Journals
  BY <1>1, Zenon DEF Journals
<1>3. x \in Ops
  BY <1>1, <1>2, OpType, Zenon DEF Ops, Pcs
<1>4. x.pc = "stage"
  BY OpType DEF Ops
<1>5. op' = Moved(r, x) /\ journal' = payload
  BY DEF NoteBackup
<1>6. op' \in [Runs -> Ops] /\ \A s \in Runs : Ready(op'[s])
  BY <1>3, <1>4, <1>5, ReplaceType
<1>7. QED
  BY <1>2, <1>5, <1>6 DEF NoteBackup, TypeInv, TypeOK

LEMMA StageType ==
    ASSUME TypeInv, NEW r \in Runs, Stage(r)
    PROVE  TypeInv'
<1> DEFINE x == [op[r] EXCEPT !.staged = files, !.pc = "install"]
<1>1. files \in Files /\ "install" \in Pcs
  BY DEF Pcs, Forward, TypeInv, TypeOK
<1>2. files \in Files \cup {None} /\ files # None
  BY <1>1 DEF Files, None
<1>3. x \in Ops
  BY <1>1, <1>2, OpType, Zenon DEF Ops, Pcs
<1>4. Ready(x)
  BY <1>2, OpType DEF Ops, Ready
<1>5. op' \in [Runs -> Ops] /\ \A s \in Runs : Ready(op'[s])
  BY <1>3, <1>4, MoveType DEF Stage
<1>6. QED
  BY <1>5 DEF Stage, TypeInv, TypeOK

(* The env file is given another version.                                  *)
LEMMA EnvEffect ==
    ASSUME NEW f \in Files, NEW v \in Versions
    PROVE  LET h == [f EXCEPT !.env = v] IN
           h \in Files /\ h.core = f.core /\ h.experience = f.experience /\ h.env = v
  BY DEF Files

LEMMA InstallType ==
    ASSUME TypeInv, NEW r \in Runs, Install(r)
    PROVE  TypeInv'
<1> DEFINE noted == [op[r] EXCEPT !.left = Len(Parts) - 1]
           x == [noted EXCEPT !.activated = TRUE, !.pc = "installing"]
           y == [noted EXCEPT !.pc = "activate"]
           z == [noted EXCEPT !.activated = TRUE, !.pc = "activate"]
<1>1. /\ Len(Parts) - 1 = 2 /\ 2 \in 0..3 /\ TRUE \in BOOLEAN
      /\ "installing" \in Pcs /\ "activate" \in Pcs
  BY PartsCount DEF Pcs, Forward
<1>2. noted \in Ops
  BY <1>1, OpType, Zenon DEF Ops
<1>3. x \in Ops /\ y \in Ops /\ z \in Ops
  BY <1>1, <1>2, Zenon DEF Ops, Pcs
<1>4. op[r].staged # None
  BY DEF TypeInv, Ready, Install, At
<1>5. noted.staged = op[r].staged /\ noted.left = 2
  BY <1>1, OpType DEF Ops
<1>6. Ready(x) /\ Ready(y) /\ Ready(z)
  BY <1>2, <1>4, <1>5 DEF Ready, Ops
<1>7. files.env \in Versions /\ files \in Files /\ op[r].payload.to \in Versions
  BY OpType DEF TypeInv, TypeOK, Files, Ops, Journals
<1>8. CASE Python /\ op[r].payload.source
  <2>1. op' \in [Runs -> Ops] /\ \A s \in Runs : Ready(op'[s])
    BY <1>3, <1>6, <1>8, MoveType DEF Install
  <2>2. QED
    BY <1>8, <2>1 DEF Install, TypeInv, TypeOK
<1>9. CASE Python /\ ~op[r].payload.source
  <2>1. op' \in [Runs -> Ops] /\ \A s \in Runs : Ready(op'[s])
    BY <1>3, <1>6, <1>9, MoveType DEF Install
  <2>2. QED
    BY <1>9, <2>1 DEF Install, TypeInv, TypeOK
<1>10. CASE ~Python
  <2>1. op' \in [Runs -> Ops] /\ \A s \in Runs : Ready(op'[s])
    BY <1>3, <1>6, <1>10, MoveType DEF Install
  <2>2. files' \in Files
    BY <1>7, <1>10, EnvEffect DEF Install
  <2>3. QED
    BY <1>10, <2>1, <2>2 DEF Install, TypeInv, TypeOK
<1>11. QED  BY <1>8, <1>9, <1>10

LEMMA InstalledType ==
    ASSUME TypeInv, NEW r \in Runs, Installed(r)
    PROVE  TypeInv'
<1> DEFINE x == [op[r] EXCEPT !.pc = "activate"]
<1>1. x \in Ops
  BY OtherPc DEF Pcs, Forward
<1>2. Ready(x)
  BY OpType DEF Ops, Ready, TypeInv, Installed, At
<1>3. op' = Moved(r, x)
  BY DEF Installed, Goto
<1>4. op' \in [Runs -> Ops] /\ \A s \in Runs : Ready(op'[s])
  BY <1>1, <1>2, <1>3, MoveType
<1>5. package' \in Versions \cup {0}
  BY OpType DEF Installed, Ops, Journals
<1>6. QED
  BY <1>4, <1>5 DEF Installed, TypeInv, TypeOK

LEMMA ActivateType ==
    ASSUME TypeInv, NEW r \in Runs, Activate(r)
    PROVE  TypeInv'
<1> DEFINE k == 3 - op[r].left
           pc == IF op[r].left = 1 THEN "start" ELSE "activate"
           x == [op[r] EXCEPT !.left = @ - 1, !.pc = pc]
<1>1. op[r] \in Ops /\ op[r].staged \in Files /\ op[r].left \in 1..2
  BY DEF TypeInv, TypeOK, Ready, Activate, At, Ops
<1>2. k \in 1..3
  BY <1>1
<1>3. files' \in Files
  BY <1>1, <1>2, CopyEffect DEF Activate, TypeInv, TypeOK
<1>4. x \in Ops
  <2>1. op[r].left - 1 \in 0..3 /\ pc \in Pcs
    BY <1>1 DEF Pcs, Forward
  <2>2. QED  BY <1>1, <2>1, Zenon DEF Ops, Pcs
<1>5. Ready(x)
  BY <1>1 DEF Ops, Ready, TypeInv, Activate, At
<1>6. op' \in [Runs -> Ops] /\ \A s \in Runs : Ready(op'[s])
  BY <1>4, <1>5, MoveType DEF Activate
<1>7. QED
  BY <1>3, <1>6 DEF Activate, TypeInv, TypeOK

LEMMA ClosingStepType ==
    ASSUME TypeInv, NEW r \in Runs,
           StartContainer(r) \/ Check(r) \/ Complete(r) \/ Discard(r)
    PROVE  TypeInv'
<1>0. {"check", "complete", "discard"} \subseteq Pcs
  BY DEF Pcs, Forward
<1>1. CASE StartContainer(r)
  <2> DEFINE x == [op[r] EXCEPT !.stopped = FALSE, !.pc = "check"]
  <2>1. op' \in [Runs -> Ops] /\ \A s \in Runs : Ready(op'[s])
    <3>1. x \in Ops
      BY <1>0, OpType, Zenon DEF Ops, Pcs
    <3>2. x.pc = "check"
      BY OpType DEF Ops
    <3>3. QED  BY <1>1, <3>1, <3>2, ReplaceType DEF StartContainer
  <2>2. service' \in Versions \cup {0}
    BY <1>1 DEF StartContainer, TypeInv, TypeOK, Files
  <2>3. QED  BY <1>1, <2>1, <2>2 DEF StartContainer, TypeInv, TypeOK
<1>2. CASE Check(r)
  <2>1. op' \in [Runs -> Ops] /\ (\A s \in Runs : Ready(op'[s])) /\ journal' \in Journals
    <3>1. CASE Healthy(r)
      BY <1>0, <1>2, <3>1, GotoType, OtherPc DEF Check, TypeInv, TypeOK
    <3>2. CASE ~Healthy(r)
      <4>1. op[r].stopped \in BOOLEAN
        BY OpType DEF Ops
      <4>2. QED  BY <1>2, <3>2, <4>1, RollBackType DEF Check
    <3>3. QED  BY <3>1, <3>2
  <2>2. QED  BY <1>2, <2>1 DEF Check, TypeInv, TypeOK
<1>3. CASE Complete(r)
  <2>1. op' \in [Runs -> Ops] /\ \A s \in Runs : Ready(op'[s])
    BY <1>0, <1>3, GotoType, OtherPc DEF Complete
  <2>2. journal' \in Journals
    BY <1>3, OpType DEF Complete, Ops, Journals, Terminal
  <2>3. QED  BY <1>3, <2>1, <2>2 DEF Complete, TypeInv, TypeOK
<1>4. CASE Discard(r)
  <2>1. op' \in [Runs -> Ops] /\ (\A s \in Runs : Ready(op'[s])) /\ lock' \in LockFiles
    BY <1>4, LeaveType DEF Discard
  <2>2. QED  BY <1>4, <2>1 DEF Discard, TypeInv, TypeOK, LockFiles
<1>5. QED  BY <1>1, <1>2, <1>3, <1>4

LEMMA FaultType == ASSUME TypeInv, Fault PROVE faults' \in 0..MaxFaults
  BY UpgradeAssumption DEF Fault, TypeInv, TypeOK

LEMMA FaultsType ==
    ASSUME TypeInv, NEW r \in Runs,
           StepRaises(r) \/ StopTimesOut(r) \/ UndoRaises(r) \/ Crash(r)
    PROVE  TypeInv'
<1>1. CASE StepRaises(r)
  <2>1. op[r].stopped \in BOOLEAN
    BY OpType DEF Ops
  <2>2. op' \in [Runs -> Ops] /\ (\A s \in Runs : Ready(op'[s])) /\ journal' \in Journals
    BY <1>1, <2>1, RollBackType DEF StepRaises
  <2>3. faults' \in 0..MaxFaults
    BY <1>1, FaultType DEF StepRaises
  <2>4. QED  BY <1>1, <2>2, <2>3 DEF StepRaises, TypeInv, TypeOK
<1>2. CASE StopTimesOut(r)
  <2>1. op' \in [Runs -> Ops] /\ (\A s \in Runs : Ready(op'[s])) /\ journal' \in Journals
    BY <1>2, RollBackType DEF StopTimesOut
  <2>2. faults' \in 0..MaxFaults
    BY <1>2, FaultType DEF StopTimesOut
  <2>3. QED  BY <1>2, <2>1, <2>2 DEF StopTimesOut, TypeInv, TypeOK
<1>3. CASE UndoRaises(r)
  <2>1. \/ Fails(r, "revert") /\ UNCHANGED service
        \/ Fails(r, "parity") /\ service' \in {service, 0, files.env}
    <3>1. CASE Python  BY <1>3, <3>1 DEF UndoRaises
    <3>2. CASE ~Python  BY <1>3, <3>2 DEF UndoRaises
    <3>3. QED  BY <3>1, <3>2
  <2>2. op' \in [Runs -> Ops] /\ (\A s \in Runs : Ready(op'[s])) /\ lock' \in LockFiles
    BY <2>1, FailsType
  <2>3. service' \in Versions \cup {0}
    BY <2>1 DEF TypeInv, TypeOK, Files
  <2>4. faults' \in 0..MaxFaults
    BY <1>3, FaultType DEF UndoRaises
  <2>5. QED  BY <1>3, <2>2, <2>3, <2>4 DEF UndoRaises, TypeInv, TypeOK, LockFiles
<1>4. CASE Crash(r)
  <2>1. op' \in [Runs -> Ops] /\ \A s \in Runs : Ready(op'[s])
    BY <1>4, EndType DEF Crash
  <2>2. lock' \in LockFiles
    BY <1>4 DEF Crash, TypeInv, TypeOK, LockFiles
  <2>3. faults' \in 0..MaxFaults
    BY <1>4, FaultType DEF Crash
  <2>4. QED  BY <1>4, <2>1, <2>2, <2>3 DEF Crash, TypeInv, TypeOK, LockFiles
<1>5. QED  BY <1>1, <1>2, <1>3, <1>4

(* A client's write: a row that neither database has.                      *)
LEMMA WriteEffect ==
    ASSUME TypeInv, NEW d \in Databases, Write(d)
    PROVE  \E n \in 1..MaxWrites :
              /\ files' = [files EXCEPT ![d] = @ \cup {n}]
              /\ written' = [written EXCEPT ![d] = @ \cup {n}]
<1> DEFINE all == UNION {written[e] : e \in Databases}
           n == 1 + Cardinality(all)
<1>1. all \subseteq 1..MaxWrites
  BY DEF TypeInv, TypeOK
<1>2. IsFiniteSet(all)
  <2>1. IsFiniteSet(1..MaxWrites)
    BY FS_Interval, UpgradeAssumption
  <2>2. QED  BY <1>1, <2>1, FS_Subset
<1>3. Cardinality(all) \in Nat
  BY <1>2, FS_CardinalityType
<1>4. n \in 1..MaxWrites
  BY <1>3, UpgradeAssumption DEF Write
<1>5. QED
  BY <1>4 DEF Write

LEMMA WriteType ==
    ASSUME TypeInv, NEW d \in Databases, Write(d)
    PROVE  TypeInv'
<1>1. PICK n \in 1..MaxWrites :
              /\ files' = [files EXCEPT ![d] = @ \cup {n}]
              /\ written' = [written EXCEPT ![d] = @ \cup {n}]
  BY WriteEffect
<1>2. files' \in Files
  BY <1>1 DEF TypeInv, TypeOK, Files, Databases
<1>3. written' \in [Databases -> SUBSET (1..MaxWrites)]
  BY <1>1 DEF TypeInv, TypeOK
<1>4. QED
  BY <1>2, <1>3 DEF Write, TypeInv, TypeOK

LEMMA StutterType == ASSUME TypeInv, UNCHANGED vars PROVE TypeInv'
  BY DEF TypeInv, TypeOK, vars

LEMMA NextType == ASSUME TypeInv, [Next]_vars PROVE TypeInv'
<1>1. ASSUME NEW r \in Runs, Step(r) PROVE TypeInv'
  BY <1>1, LockingType, LoadType, RestoreType, RevertType, ReinstallType, UnpinType,
     ParityType, SettleType, BeginType, PreflightType, DryRunType, StopType,
     CreateBackupType, NoteBackupType, StageType, InstallType, InstalledType,
     ActivateType, ClosingStepType DEF Step
<1>2. ASSUME NEW r \in Runs,
             StepRaises(r) \/ StopTimesOut(r) \/ UndoRaises(r) \/ Crash(r)
      PROVE  TypeInv'
  BY <1>2, FaultsType
<1>3. CASE ReinstallByHand
  BY <1>3 DEF ReinstallByHand, TypeInv, TypeOK
<1>4. ASSUME NEW d \in Databases, Write(d) PROVE TypeInv'
  BY <1>4, WriteType
<1>5. QED
  BY <1>1, <1>2, <1>3, <1>4, StutterType DEF Next

LEMMA InitType == Init => TypeInv
<1> SUFFICES ASSUME Init PROVE TypeInv
  OBVIOUS
<1>1. op \in [Runs -> Ops] /\ \A r \in Runs : Ready(op[r])
  BY IdleIsOp DEF Init, Ready, Idle
<1>2. files \in Files
  BY UpgradeAssumption DEF Init, Files
<1>3. /\ written \in [Databases -> SUBSET (1..MaxWrites)]
      /\ faults \in 0..MaxFaults /\ raced \in BOOLEAN
  <2>1. written \in [Databases -> SUBSET (1..MaxWrites)] /\ raced \in BOOLEAN
    BY DEF Init
  <2>2. faults \in 0..MaxFaults
    BY UpgradeAssumption DEF Init
  <2>3. QED  BY <2>1, <2>2
<1>4. lock \in LockFiles /\ journal \in Journals
  BY IdleIsOp DEF Init, LockFiles, Free
<1>5. mode \in Modes /\ package \in Versions \cup {0} /\ service \in Versions \cup {0} /\ pin \in BOOLEAN
  BY UpgradeAssumption DEF Init
<1>6. QED
  BY <1>1, <1>2, <1>3, <1>4, <1>5, Zenon DEF TypeInv, TypeOK, LockFiles

LEMMA TypeAlways == Spec => []TypeInv
  BY InitType, NextType, PTL DEF Spec

(* Every value stays of its type: the journal, the lock file and the       *)
(* locals of each process, whatever raised or died.                        *)
THEOREM TypeCorrect == Spec => []TypeOK
  BY TypeAlways, PTL DEF TypeInv
-----------------------------------------------------------------------------
(* One upgrade at a time.  Before any race, a process inside has its pid   *)
(* in the file, one about to write it has the file, and a command that is  *)
(* about to unlink a lock will not unlink that of a living one.            *)
Held == \A r \in Inside : lock = [by |-> r, noted |-> TRUE]
Noting == \A r \in Runs : At(r, "note_pid") => lock = [by |-> r, noted |-> FALSE]
Taking == \A r \in Runs : At(r, "unlink") => lock.by \notin Runs
Locked == Held /\ Noting /\ Taking

Others(r) == \A s \in Runs \ {r} : op'[s] = op[s]

(* A step past the lock stays past it, with the lock as it was, or gives   *)
(* it up.                                                                  *)
Within(r) ==
    /\ r \in Inside /\ Others(r)
    /\ op'[r].pc \notin Locking
    /\ \/ op'[r].pc # "idle" /\ lock' = lock
       \/ op'[r].pc = "idle" /\ lock' = Free

LEMMA GotoWithin ==
    ASSUME TypeInv, NEW r \in Runs, r \in Inside, NEW x, op' = Moved(r, x),
           x.pc \notin Locking \cup {"idle"}, lock' = lock
    PROVE  Within(r)
  BY DEF TypeInv, TypeOK, Within, Others, Moved

LEMMA LeaveWithin ==
    ASSUME TypeInv, NEW r \in Runs, r \in Inside, Leave(r)
    PROVE  Within(r)
  BY DEF TypeInv, TypeOK, Within, Others, Leave, End, Moved, Idle, Locking

LEMMA FailsWithin ==
    ASSUME TypeInv, NEW r \in Runs, r \in Inside, NEW pc \in {"revert", "parity"}, Fails(r, pc)
    PROVE  Within(r)
<1>1. CASE op[r].recovering
  BY <1>1, LeaveWithin DEF Fails
<1>2. CASE ~op[r].recovering
  <2>1. op' = Moved(r, [op[r] EXCEPT !.failed = TRUE, !.pc = pc]) /\ lock' = lock
    BY <1>2 DEF Fails
  <2>2. [op[r] EXCEPT !.failed = TRUE, !.pc = pc].pc \notin Locking \cup {"idle"}
    BY OpType DEF Ops, Locking
  <2>3. QED  BY <2>1, <2>2, GotoWithin
<1>3. QED  BY <1>1, <1>2

LEMMA RollBackWithin ==
    ASSUME TypeInv, NEW r \in Runs, r \in Inside, NEW stopped, RollBack(r, stopped), lock' = lock
    PROVE  Within(r)
<1> DEFINE x == [op[r] EXCEPT
                    !.payload = [op[r].payload EXCEPT !.status = "rolling_back"],
                    !.stopped = stopped, !.left = Len(Parts), !.pc = Undo(r)]
<1>1. op' = Moved(r, x)
  BY DEF RollBack
<1>2. x.pc \notin Locking \cup {"idle"}
  <2>1. Undo(r) \in {"restore", "revert"}
    BY DEF Undo
  <2>2. x.pc = Undo(r)
    BY OpType DEF Ops
  <2>3. QED  BY <2>1, <2>2 DEF Locking
<1>3. QED  BY <1>1, <1>2, GotoWithin

Body(r) ==
    \/ LoadJournal(r) \/ Restore(r) \/ Revert(r) \/ Reinstall(r) \/ Unpin(r)
    \/ Parity(r) \/ Settle(r)
    \/ Begin(r) \/ Preflight(r) \/ DryRun(r) \/ Stop(r) \/ CreateBackup(r)
    \/ NoteBackup(r) \/ Stage(r) \/ Install(r) \/ Installed(r) \/ Activate(r)
    \/ StartContainer(r) \/ Check(r) \/ Complete(r) \/ Discard(r)
    \/ StepRaises(r) \/ StopTimesOut(r) \/ UndoRaises(r)

LEMMA BodyWithin == ASSUME TypeInv, NEW r \in Runs, Body(r) PROVE Within(r)
<1>0. op[r] \in Ops
  BY OpType
<1>1. r \in Inside
  BY DEF Body, Inside, At, Locking, Forward, LoadJournal, Restore, Revert, Reinstall,
     Unpin, Parity, Settle, Begin, Preflight, DryRun, Stop, CreateBackup, NoteBackup,
     Stage, Install, Installed, Activate, StartContainer, Check, Complete, Discard,
     StepRaises, StopTimesOut, UndoRaises
<1>2. \A pc : pc \notin Locking \cup {"idle"} /\ Goto(r, pc) /\ lock' = lock => Within(r)
  BY <1>0, <1>1, GotoWithin DEF Goto, Ops
<1>3. \A pc \in {"begin", "restore", "revert", "reinstall", "unpin", "parity", "settle",
                 "preflight", "stop", "backup", "note", "stage", "install", "installing",
                 "activate", "start", "check", "complete", "discard"} :
         pc \notin Locking \cup {"idle"}
  BY DEF Locking
<1>4. CASE LoadJournal(r)
  <2>1. CASE Settled
    BY <2>1, <1>2, <1>3, <1>4 DEF LoadJournal
  <2>2. CASE ~Settled
    <3> DEFINE x == [op[r] EXCEPT
               !.payload = journal, !.recovering = TRUE, !.left = Len(Parts),
               !.archive = journal.backup,
               !.pc = IF journal.backup # None THEN "restore" ELSE "revert"]
    <3>1. x.pc \in {"restore", "revert"}
      BY <1>0 DEF Ops
    <3>2. op' = Moved(r, x) /\ lock' = lock
      BY <1>4, <2>2 DEF LoadJournal
    <3>3. QED  BY <1>1, <1>3, <3>1, <3>2, GotoWithin
  <2>3. QED  BY <2>1, <2>2
<1>5. CASE Restore(r)
  <2> DEFINE x == [op[r] EXCEPT
              !.left = @ - 1, !.pc = IF op[r].left = 1 THEN "revert" ELSE "restore"]
  <2>1. x.pc \in {"restore", "revert"}
    BY <1>0 DEF Ops
  <2>2. op' = Moved(r, x) /\ lock' = lock
    BY <1>5 DEF Restore
  <2>3. QED  BY <1>1, <1>3, <2>1, <2>2, GotoWithin
<1>6. CASE Revert(r)
  <2>1. \/ lock' = lock /\ \E pc \in {"unpin", "settle", "parity", "reinstall"} : Goto(r, pc)
        \/ Fails(r, "parity")
    <3>1. CASE ~Reverts(r)
      BY <1>6, <3>1 DEF Revert, Closing
    <3>2. CASE Reverts(r) /\ Python
      BY <1>6, <3>2 DEF Revert
    <3>3. CASE Reverts(r) /\ ~Python /\ pin
      BY <1>6, <3>3 DEF Revert
    <3>4. CASE Reverts(r) /\ ~Python /\ ~pin
      BY <1>6, <3>4 DEF Revert
    <3>5. QED  BY <3>1, <3>2, <3>3, <3>4
  <2>2. QED
    BY <2>1, <1>1, <1>2, <1>3, FailsWithin
<1>7. CASE Reinstall(r) \/ Unpin(r)
  <2>1. lock' = lock /\ Goto(r, Closing(r)) /\ Closing(r) \in {"settle", "parity"}
    BY <1>7 DEF Reinstall, Unpin, Closing
  <2>2. QED  BY <2>1, <1>2, <1>3
<1>8. CASE Parity(r)
  <2> DEFINE x == [op[r] EXCEPT !.pc = "settle",
                     !.failed = @ \/ (op[r].before # None /\ files # op[r].before)]
  <2>1. x.pc = "settle"
    BY <1>0 DEF Ops
  <2>2. op' = Moved(r, x) /\ lock' = lock
    BY <1>8 DEF Parity
  <2>3. QED  BY <1>1, <1>3, <2>1, <2>2, GotoWithin
<1>9. CASE Settle(r)
  <2>1. CASE op[r].recovering
    <3> DEFINE x == [Idle EXCEPT !.pc = "begin"]
    <3>1. x.pc = "begin"
      BY DEF Idle
    <3>2. op' = Moved(r, x) /\ lock' = lock
      BY <1>9, <2>1 DEF Settle
    <3>3. QED  BY <1>1, <1>3, <3>1, <3>2, GotoWithin
  <2>2. CASE ~op[r].recovering
    BY <1>1, <1>9, <2>2, LeaveWithin DEF Settle
  <2>3. QED  BY <2>1, <2>2
<1>10. CASE Begin(r)
  <2>1. CASE Leave(r)
    BY <1>1, <2>1, LeaveWithin
  <2>2. ASSUME NEW j, op' = Moved(r, [Idle EXCEPT !.pc = "preflight", !.payload = j]),
               lock' = lock
        PROVE  Within(r)
    <3> DEFINE x == [Idle EXCEPT !.pc = "preflight", !.payload = j]
    <3>1. x.pc = "preflight"
      BY DEF Idle
    <3>2. QED  BY <1>1, <1>3, <2>2, <3>1, GotoWithin
  <2>3. QED  BY <1>10, <2>1, <2>2 DEF Begin
<1>11. CASE Preflight(r)
  <2>1. \E p : op' = Moved(r, [op[r] EXCEPT !.payload = p, !.pc = "stop"]) /\ lock' = lock
    BY <1>11 DEF Preflight
  <2>2. \A p : [op[r] EXCEPT !.payload = p, !.pc = "stop"].pc = "stop"
    BY <1>0 DEF Ops
  <2>3. QED  BY <1>1, <1>3, <2>1, <2>2, GotoWithin
<1>12. CASE Stop(r)
  <2>1. \E b : op' = Moved(r, [op[r] EXCEPT !.stopped = b, !.before = files, !.pc = "backup"])
               /\ lock' = lock
    BY <1>12 DEF Stop
  <2>2. \A b : [op[r] EXCEPT !.stopped = b, !.before = files, !.pc = "backup"].pc = "backup"
    BY <1>0 DEF Ops
  <2>3. QED  BY <1>1, <1>3, <2>1, <2>2, GotoWithin
<1>13. CASE CreateBackup(r)
  <2>1. [op[r] EXCEPT !.archive = files, !.pc = "note"].pc = "note"
    BY <1>0 DEF Ops
  <2>2. QED  BY <1>1, <1>3, <1>13, <2>1, GotoWithin DEF CreateBackup
<1>14. CASE NoteBackup(r)
  <2>1. \E p : op' = Moved(r, [op[r] EXCEPT !.payload = p, !.pc = "stage"]) /\ lock' = lock
    BY <1>14 DEF NoteBackup
  <2>2. \A p : [op[r] EXCEPT !.payload = p, !.pc = "stage"].pc = "stage"
    BY <1>0 DEF Ops
  <2>3. QED  BY <1>1, <1>3, <2>1, <2>2, GotoWithin
<1>15. CASE Stage(r)
  <2>1. [op[r] EXCEPT !.staged = files, !.pc = "install"].pc = "install"
    BY <1>0 DEF Ops
  <2>2. QED  BY <1>1, <1>3, <1>15, <2>1, GotoWithin DEF Stage
<1>16. CASE Install(r)
  <2> DEFINE noted == [op[r] EXCEPT !.left = Len(Parts) - 1]
  <2>1. \E x \in {[noted EXCEPT !.activated = TRUE, !.pc = "installing"],
                  [noted EXCEPT !.pc = "activate"],
                  [noted EXCEPT !.activated = TRUE, !.pc = "activate"]} : op' = Moved(r, x)
    <3>1. CASE Python /\ op[r].payload.source   BY <1>16, <3>1 DEF Install
    <3>2. CASE Python /\ ~op[r].payload.source  BY <1>16, <3>2 DEF Install
    <3>3. CASE ~Python                          BY <1>16, <3>3 DEF Install
    <3>4. QED  BY <3>1, <3>2, <3>3
  <2>2. \A x \in {[noted EXCEPT !.activated = TRUE, !.pc = "installing"],
                  [noted EXCEPT !.pc = "activate"],
                  [noted EXCEPT !.activated = TRUE, !.pc = "activate"]} :
           x.pc \in {"installing", "activate"}
    BY <1>0 DEF Ops
  <2>3. lock' = lock
    BY <1>16 DEF Install
  <2>4. QED  BY <1>1, <1>3, <2>1, <2>2, <2>3, GotoWithin
<1>17. CASE Activate(r)
  <2> DEFINE x == [op[r] EXCEPT
              !.left = @ - 1, !.pc = IF op[r].left = 1 THEN "start" ELSE "activate"]
  <2>1. x.pc \in {"start", "activate"}
    BY <1>0 DEF Ops
  <2>2. op' = Moved(r, x) /\ lock' = lock
    BY <1>17 DEF Activate
  <2>3. QED  BY <1>1, <1>3, <2>1, <2>2, GotoWithin
<1>18. CASE DryRun(r) \/ Installed(r) \/ Complete(r)
  BY <1>2, <1>3, <1>18 DEF DryRun, Installed, Complete
<1>19. CASE Check(r)
  <2>1. lock' = lock /\ (Goto(r, "complete") \/ RollBack(r, op[r].stopped))
    BY <1>19 DEF Check
  <2>2. QED  BY <1>1, <1>2, <1>3, <2>1, RollBackWithin
<1>20. CASE Discard(r)
  BY <1>1, <1>20, LeaveWithin DEF Discard
<1>21. CASE StepRaises(r) \/ StopTimesOut(r)
  BY <1>1, <1>21, RollBackWithin DEF StepRaises, StopTimesOut
<1>22. CASE UndoRaises(r)
  BY <1>1, <1>22, FailsWithin DEF UndoRaises
<1>23. CASE StartContainer(r)
  <2>1. [op[r] EXCEPT !.stopped = FALSE, !.pc = "check"].pc = "check"
    BY <1>0 DEF Ops
  <2>2. QED  BY <1>1, <1>3, <1>23, <2>1, GotoWithin DEF StartContainer
<1>24. QED
  BY <1>4, <1>5, <1>6, <1>7, <1>8, <1>9, <1>10, <1>11, <1>12, <1>13, <1>14, <1>15,
     <1>16, <1>17, <1>18, <1>19, <1>20, <1>21, <1>22, <1>23 DEF Body

LEMMA WithinLocked ==
    ASSUME TypeInv, Locked, NEW r \in Runs, Within(r)
    PROVE  Locked'
<1>1. lock = [by |-> r, noted |-> TRUE]
  BY DEF Locked, Held, Within
<1>2. \A s \in Inside : s = r
  BY <1>1 DEF Locked, Held
<1>3. \A s \in Runs : ~At(s, "note_pid") /\ ~At(s, "unlink")
  BY <1>1 DEF Locked, Noting, Taking
<1>4. Inside' \subseteq {r} /\ (op'[r].pc = "idle" => Inside' = {})
  BY <1>2 DEF Within, Others, Inside
<1>5. Held'
  BY <1>1, <1>4 DEF Held, Within
<1>6. Noting' /\ Taking'
  BY <1>3 DEF Noting, Taking, Within, Others, At, Locking
<1>7. QED  BY <1>5, <1>6 DEF Locked

LEMMA LockingLocked ==
    ASSUME TypeInv, Locked, ~raced', NEW r \in Runs,
           OpenLock(r) \/ ReadLock(r) \/ UnlinkLock(r) \/ CreateLock(r) \/ NotePid(r)
    PROVE  Locked'
<1>0. r \notin Inside
  BY DEF OpenLock, ReadLock, UnlinkLock, CreateLock, NotePid, At, Inside, Locking
<1>1. \A pc, s : Goto(r, pc) => op'[r].pc = pc /\ Others(r)
  BY OpType DEF Goto, Moved, Others, Ops, TypeInv, TypeOK
<1>2. End(r) => op'[r].pc = "idle" /\ Others(r)
  BY DEF End, Moved, Others, Idle, TypeInv, TypeOK
<1>3. ASSUME Others(r), op'[r].pc \in Locking \cup {"idle"}
      PROVE  Inside' = Inside
  BY <1>0, <1>3 DEF Inside, Others
<1>4. ASSUME Others(r), op'[r].pc \in {"idle", "read"}, lock' = lock
      PROVE  Locked'
  <2>1. Inside' = Inside
    BY <1>3, <1>4 DEF Locking
  <2>2. Held' /\ Noting' /\ Taking'
    BY <1>4, <2>1 DEF Locked, Held, Noting, Taking, At, Others
  <2>3. QED  BY <2>2 DEF Locked
<1>5. lock.by \notin Runs =>
         Inside = {} /\ \A s \in Runs : ~At(s, "note_pid")
  BY DEF Locked, Held, Noting, Inside
<1>6. ASSUME Takes(r) PROVE Locked'
  <2>1. Inside = {} /\ \A s \in Runs : ~At(s, "note_pid") /\ ~At(s, "unlink")
    BY <1>5, <1>6, UpgradeAssumption DEF Takes
  <2>2. /\ lock' = [by |-> r, noted |-> FALSE]
        /\ op'[r].pc = "note_pid" /\ Others(r)
    BY <1>1, <1>6 DEF Takes
  <2>3. Inside' = {}
    BY <1>3, <2>1, <2>2 DEF Locking
  <2>4. Held' /\ Noting' /\ Taking'
    BY <2>1, <2>2, <2>3 DEF Held, Noting, Taking, At, Others
  <2>5. QED  BY <2>4 DEF Locked
<1>7. CASE OpenLock(r)
  BY <1>1, <1>4, <1>6, <1>7 DEF OpenLock
<1>8. CASE ReadLock(r)
  <2>1. CASE lock.by \in Runs /\ lock.noted
    BY <1>2, <1>4, <1>8, <2>1 DEF ReadLock
  <2>2. CASE ~(lock.by \in Runs /\ lock.noted)
    <3>1. lock.by \notin Runs
      BY <1>8, <2>2 DEF ReadLock, Unnoted
    <3>2. Others(r) /\ op'[r].pc = "unlink" /\ lock' = lock
      BY <1>1, <1>8, <2>2 DEF ReadLock
    <3>3. Inside' = {}
      BY <1>3, <1>5, <3>1, <3>2 DEF Locking
    <3>4. Held' /\ Noting' /\ Taking'
      BY <1>5, <3>1, <3>2, <3>3 DEF Held, Noting, Taking, At, Others
    <3>5. QED  BY <3>4 DEF Locked
  <2>3. QED  BY <2>1, <2>2
<1>9. CASE UnlinkLock(r)
  <2>1. lock.by \notin Runs
    BY <1>9 DEF UnlinkLock, Locked, Taking
  <2>2. Others(r) /\ op'[r].pc = "create" /\ lock' = Free
    BY <1>1, <1>9 DEF UnlinkLock
  <2>3. Inside' = {}
    BY <1>3, <1>5, <2>1, <2>2 DEF Locking
  <2>4. Held' /\ Noting' /\ Taking'
    BY <1>5, <2>1, <2>2, <2>3, UpgradeAssumption
       DEF Held, Noting, Taking, At, Others, Free
  <2>5. QED  BY <2>4 DEF Locked
<1>10. CASE CreateLock(r)
  BY <1>2, <1>4, <1>6, <1>10 DEF CreateLock
<1>11. CASE NotePid(r)
  <2>1. lock = [by |-> r, noted |-> FALSE]
    BY <1>11 DEF NotePid, Locked, Noting
  <2>2. Inside = {}
    BY <2>1 DEF Locked, Held
  <2>3. lock' = [by |-> r, noted |-> TRUE] /\ Others(r) /\ op'[r].pc = "load"
    BY <1>1, <1>11, <2>1 DEF NotePid
  <2>4. Inside' \subseteq {r}
    BY <2>2, <2>3 DEF Inside, Others
  <2>5. \A s \in Runs : ~At(s, "unlink") /\ (At(s, "note_pid") => s = r)
    BY <2>1 DEF Locked, Taking, Noting
  <2>6. Held' /\ Noting' /\ Taking'
    BY <2>3, <2>4, <2>5 DEF Held, Noting, Taking, At, Others
  <2>7. QED  BY <2>6 DEF Locked
<1>12. QED  BY <1>7, <1>8, <1>9, <1>10, <1>11

LEMMA CrashLocked ==
    ASSUME TypeInv, Locked, NEW r \in Runs, Crash(r)
    PROVE  Locked'
<1>1. op'[r].pc = "idle" /\ Others(r)
  BY DEF Crash, End, Moved, Others, Idle, TypeInv, TypeOK
<1>2. Inside' = Inside \ {r}
  BY <1>1 DEF Inside, Others
<1>3. /\ \A s \in Runs \ {r} : lock.by = s => lock' = lock
      /\ lock.by \notin Runs => lock'.by \notin Runs
  BY UpgradeAssumption DEF Crash
<1>4. Held' /\ Noting'
  BY <1>1, <1>2, <1>3 DEF Locked, Held, Noting, At, Others, Inside
<1>5. Taking'
  BY <1>1, <1>3 DEF Locked, Taking, At, Others
<1>6. QED  BY <1>4, <1>5 DEF Locked

(* A race is never forgotten.                                              *)
LEMMA RacedStays == ASSUME [Next]_vars, raced, TypeInv PROVE raced'
<1>1. ASSUME NEW r \in Runs, OpenLock(r) \/ CreateLock(r) \/ ReadLock(r) PROVE raced'
  BY <1>1 DEF OpenLock, CreateLock, ReadLock, Takes
<1>2. QED
  BY <1>1 DEF Next, Step, UnlinkLock, NotePid, LoadJournal, Restore, Revert, Reinstall,
     Unpin, Parity, Settle, Begin, Preflight, DryRun, Stop, CreateBackup, NoteBackup,
     Stage, Install, Installed, Activate, StartContainer, Check, Complete, Discard,
     StepRaises, StopTimesOut, UndoRaises, Crash, ReinstallByHand, Write, vars

LEMMA LockedStep == ASSUME TypeInv, Locked, ~raced', [Next]_vars PROVE Locked'
<1>1. ASSUME NEW r \in Runs, Step(r) PROVE Locked'
  BY <1>1, LockingLocked, BodyWithin, WithinLocked DEF Step, Body
<1>2. ASSUME NEW r \in Runs, StepRaises(r) \/ StopTimesOut(r) \/ UndoRaises(r)
      PROVE  Locked'
  BY <1>2, BodyWithin, WithinLocked DEF Body
<1>3. ASSUME NEW r \in Runs, Crash(r) PROVE Locked'
  BY <1>3, CrashLocked
<1>4. CASE UNCHANGED <<op, lock>>
  BY <1>4 DEF Locked, Held, Noting, Taking, Inside, At
<1>5. QED
  BY <1>1, <1>2, <1>3, <1>4 DEF Next, ReinstallByHand, Write, vars

LEMMA LockedAlways == Spec => [](raced \/ Locked)
<1>1. Init => Locked
  BY DEF Init, Locked, Held, Noting, Taking, Inside, At, Idle
<1>2. TypeInv /\ (raced \/ Locked) /\ [Next]_vars => (raced \/ Locked)'
  BY LockedStep, RacedStays
<1>3. QED
  BY <1>1, <1>2, TypeAlways, PTL DEF Spec

LEMMA LockedOne == (raced \/ Locked) => OneUpgrade
  BY DEF Locked, Held, OneUpgrade

(* At most one process is past the lock, whichever died and however long   *)
(* ago, in every run in which no lock was taken that another command was   *)
(* about to remove, or found before its owner's pid was in it.             *)
THEOREM UpgradesExclusive == Spec => []OneUpgrade
  BY LockedAlways, LockedOne, PTL
-----------------------------------------------------------------------------
(* What the journal says is finished is whole.                             *)
Kept(f) == f.core = written["core"] /\ f.experience = written["experience"]
Docked(f, v) == Python \/ f.env = v
On(v) == IF Python THEN package = v ELSE service = v
CanRevert(j) == IF Python THEN j.source ELSE j.pinned

(* Between operations: the version the journal names runs.                 *)
Calm == Settled => On(Promised) /\ Docked(files, Promised)

(* An unfinished operation can be undone from its journal alone.           *)
Recoverable ==
    ~Settled =>
        /\ ~journal.dry
        /\ journal.pinned => ~Python
        /\ On(journal.from) \/ CanRevert(journal)
        /\ IF journal.backup = None THEN Docked(files, journal.from)
           ELSE Kept(journal.backup) /\ Docked(journal.backup, journal.from)

(* Reverts, of the locals of a run.                                        *)
Undoes(o) ==
    IF Python THEN o.payload.source /\ (o.recovering \/ o.activated)
    ELSE o.payload.pinned /\ (o.recovering \/ o.activated \/ o.stopped)

Safe(o) ==
    IF o.archive = None THEN Docked(files, o.payload.from)
    ELSE Kept(o.archive) /\ Docked(o.archive, o.payload.from)
Back(o) == On(o.payload.from) \/ Undoes(o)
Home(o) == On(o.payload.from) /\ Docked(files, o.payload.from)
Arrived(o) == IF Python THEN package = o.payload.to ELSE files.env = o.payload.to /\ o.activated

Undoing == {"restore", "revert", "reinstall", "unpin", "parity", "settle"}

Outside(o) == o.pc \in Locking \cup {"idle", "load"} => ~o.failed
Closed(o) == o.pc \in {"begin", "discard"} => Settled
Working(o) == o.pc \in Forward \cup Undoing => ~Settled /\ o.payload = journal /\ Safe(o)
Advancing(o) ==
    /\ o.pc \in Forward => ~o.failed /\ ~o.recovering /\ Back(o)
    /\ o.pc \in Forward \ {"preflight"} =>
          /\ o.payload.source = (Python /\ o.payload.from # o.payload.to)
          /\ o.payload.pinned = ~Python
    /\ o.pc \in {"preflight", "stop"} => On(o.payload.from)
    /\ o.pc \in {"preflight", "stop", "backup"} => o.archive = None
    /\ o.pc \in Forward \ {"preflight", "stop", "backup"} => o.archive # None
    /\ o.pc \in Forward \ {"preflight", "stop", "backup", "note"} => o.payload.backup # None
    /\ o.pc \in {"install", "installing", "activate"} => Kept(o.staged)
    /\ o.pc = "installing" => Python /\ Undoes(o)
    /\ o.pc \in {"activate", "start", "check", "complete"} => Arrived(o)
    /\ o.pc \in {"check", "complete"} => On(o.payload.to)
Retreating(o) ==
    /\ o.pc \in {"restore", "revert"} => Back(o)
    /\ o.pc = "restore" => ~o.failed
    /\ o.pc = "revert" => o.failed \/ Docked(files, o.payload.from)
    /\ o.pc = "reinstall" => Python /\ Undoes(o)
    /\ o.pc = "unpin" => ~Python
    /\ o.pc \in {"unpin", "parity", "settle"} => o.failed \/ Home(o)
    /\ o.pc \in Undoing /\ o.recovering => ~o.failed
    /\ o.pc = "parity" => ~o.recovering
Doing(o) == Outside(o) /\ Closed(o) /\ Working(o) /\ Advancing(o) /\ Retreating(o)

World == Kept(files) /\ Calm /\ Recoverable
WholeInv == World /\ \A r \in Runs : Doing(op[r])

(* Steps that change neither the files, the journal nor what runs.         *)
LEMMA SameWorld ==
    ASSUME World, UNCHANGED <<mode, journal, package, service, files, written>>
    PROVE  World'
  BY DEF World, Kept, Calm, Recoverable, Settled, Promised, On, Docked,
     CanRevert, Python

LEMMA RunAt ==
    ASSUME TypeInv, WholeInv, NEW r \in Runs
    PROVE  /\ op[r] \in Ops /\ op[r].payload \in Journals
           /\ op[r].archive \in Files \cup {None} /\ op[r].staged \in Files \cup {None}
           /\ journal \in Journals /\ files \in Files
           /\ World /\ Doing(op[r])
  BY OpType DEF TypeInv, TypeOK, Ops, WholeInv

(* A run that has left.                                                    *)
LEMMA IdleWhole ==
    ASSUME TypeInv, NEW r \in Runs, End(r)
    PROVE  Doing(op[r])'
<1>1. op'[r].pc = "idle" /\ ~op'[r].failed
  BY DEF End, Moved, Idle, TypeInv, TypeOK
<1>2. QED  BY <1>1 DEF Doing, Outside, Closed, Working, Advancing, Retreating, Undoing, Forward

LEMMA MovedTo ==
    ASSUME TypeInv, NEW r \in Runs, NEW y, op' = Moved(r, y)
    PROVE  op'[r] = y
  BY DEF Moved, TypeInv, TypeOK

LEMMA LoadWhole ==
    ASSUME TypeInv, WholeInv, NEW r \in Runs, LoadJournal(r)
    PROVE  World' /\ Doing(op[r])'
<1> DEFINE o == op[r]
           x == op'[r]
<1>1. o \in Ops /\ journal \in Journals /\ World /\ ~o.failed
  BY RunAt DEF LoadJournal, At, Doing, Outside
<1>2. World'
  BY <1>1, SameWorld DEF LoadJournal
<1>3. CASE Settled
  <2>1. x.pc = "begin"
    BY <1>1, <1>3 DEF LoadJournal, Goto, Moved, Ops, TypeInv, TypeOK
  <2>2. Doing(op[r])'
    BY <1>3, <2>1 DEF LoadJournal, Doing, Outside, Closed, Working, Advancing, Retreating,
       Undoing, Forward, Locking, Settled
  <2>3. QED  BY <1>2, <2>2
<1>4. CASE ~Settled
  <2>1. /\ x.pc = IF journal.backup # None THEN "restore" ELSE "revert"
        /\ x.payload = journal /\ x.recovering = TRUE /\ x.archive = journal.backup
        /\ x.failed = o.failed
    <3> DEFINE y == [o EXCEPT
               !.payload = journal, !.recovering = TRUE, !.left = Len(Parts),
               !.archive = journal.backup,
               !.pc = IF journal.backup # None THEN "restore" ELSE "revert"]
    <3>1. x = y
      BY <1>4, MovedTo DEF LoadJournal
    <3>2. QED  BY <1>1, <3>1 DEF Ops
  <2>2. Doing(op[r])'
    BY <1>1, <1>4, <2>1 DEF LoadJournal, World, Recoverable, CanRevert,
       Doing, Outside, Closed, Working, Advancing, Retreating, Undoing, Forward,
     Locking, Safe, Back, Undoes, On, Docked, Kept, Home, Arrived, Settled, Python
  <2>3. QED  BY <1>2, <2>2
<1>5. QED  BY <1>3, <1>4

LEMMA RestoreWhole ==
    ASSUME TypeInv, WholeInv, NEW r \in Runs, Restore(r)
    PROVE  World' /\ Doing(op[r])'
<1> DEFINE o == op[r]
           x == op'[r]
           k == 1 + Len(Parts) - o.left
<1>1. /\ o \in Ops /\ journal \in Journals /\ files \in Files /\ World
      /\ o.archive \in Files /\ o.archive # None /\ o.left \in 1..3
  BY RunAt DEF Restore, At, TypeInv, Ready
<1>2. k \in 1..3 /\ (o.left = 1 => k = 3)
  BY <1>1, PartsCount
<1>3. /\ x.pc = IF o.left = 1 THEN "revert" ELSE "restore"
      /\ x.payload = o.payload /\ x.archive = o.archive /\ x.failed = o.failed
      /\ x.recovering = o.recovering /\ x.activated = o.activated /\ x.stopped = o.stopped
  BY <1>1 DEF Restore, Moved, Ops, TypeInv, TypeOK
<1>4. /\ ~Settled /\ o.payload = journal /\ ~o.failed /\ Back(o)
      /\ Kept(o.archive) /\ Docked(o.archive, o.payload.from)
  BY <1>1, RunAt DEF Restore, At, Doing, Working, Retreating, Undoing, Safe
<1>5. /\ files'.core = IF k = 1 THEN o.archive.core ELSE files.core
      /\ files'.experience = IF k = 2 THEN o.archive.experience ELSE files.experience
      /\ files'.env = IF k = 3 THEN o.archive.env ELSE files.env
  <2> DEFINE h == [files EXCEPT ![Parts[k]] = o.archive[Parts[k]]]
  <2>1. files' = h
    BY DEF Restore
  <2>2. /\ h.core = IF k = 1 THEN o.archive.core ELSE files.core
        /\ h.experience = IF k = 2 THEN o.archive.experience ELSE files.experience
        /\ h.env = IF k = 3 THEN o.archive.env ELSE files.env
    <3> HIDE DEF k
    <3>1. files \in Files /\ o.archive \in Files /\ k \in 1..3
      BY <1>1, <1>2
    <3> HIDE DEF o
    <3>2. QED  BY <3>1, CopyEffect
  <2>3. QED  BY <2>1, <2>2
<1>6. World'
  BY <1>1, <1>4, <1>5 DEF Restore, World, Kept, Calm, Recoverable, Settled, Promised, On, Docked,
     CanRevert, Python
<1>7. Doing(op[r])'
  BY <1>1, <1>2, <1>3, <1>4, <1>5 DEF Restore,
     Doing, Outside, Closed, Working, Advancing, Retreating, Undoing, Forward,
     Locking, Safe, Back, Undoes, On, Docked, Kept, Home, Arrived, Settled, Python
<1>8. QED  BY <1>6, <1>7

(* A run that notes a failure of an undoing step, or gives up.             *)
LEMMA FailsWhole ==
    ASSUME TypeInv, WholeInv, NEW r \in Runs, NEW pc \in {"revert", "parity"}, Fails(r, pc),
           op[r].pc \in {"restore", "revert", "reinstall"},
           UNCHANGED <<mode, journal, package, files, written>>,
           \/ service' = service
           \/ ~Python /\ op[r].pc = "revert" /\ pc = "parity" /\ Undoes(op[r])
    PROVE  World' /\ Doing(op[r])'
<1> DEFINE o == op[r]
           x == op'[r]
<1>1. /\ o \in Ops /\ journal \in Journals /\ World
      /\ ~Settled /\ o.payload = journal /\ Safe(o)
  BY RunAt DEF Doing, Working, Undoing
<1>2. World'
  BY <1>1 DEF Undoes, World, Kept, Calm, Recoverable, Settled, Promised, On, Docked,
     CanRevert, Python
<1>3. CASE o.recovering
  <2>1. End(r)
    BY <1>3 DEF Fails, Leave
  <2>2. QED  BY <1>2, <2>1, IdleWhole
<1>4. CASE ~o.recovering
  <2>1. /\ x.pc = pc /\ x.failed = TRUE /\ x.payload = o.payload /\ x.archive = o.archive
        /\ x.recovering = o.recovering /\ x.activated = o.activated /\ x.stopped = o.stopped
    <3>1. x = [o EXCEPT !.failed = TRUE, !.pc = pc]
      BY <1>4, MovedTo DEF Fails
    <3>2. QED  BY <1>1, <3>1 DEF Ops
  <2>2. pc = "revert" => service' = service /\ Back(o)
    BY RunAt DEF Doing, Retreating, Back
  <2>3. Doing(op[r])'
    BY <1>1, <1>4, <2>1, <2>2
       DEF Doing, Outside, Closed, Working, Advancing, Retreating, Undoing, Forward,
     Locking, Safe, Back, Undoes, On, Docked, Kept, Home, Arrived, Settled, Python
  <2>4. QED  BY <1>2, <2>3
<1>5. QED  BY <1>3, <1>4
(* A run that only goes on.                                                *)
LEMMA GoneTo ==
    ASSUME TypeInv, NEW r \in Runs, NEW pc, Goto(r, pc)
    PROVE  /\ op'[r].pc = pc /\ op'[r].payload = op[r].payload
           /\ op'[r].archive = op[r].archive /\ op'[r].staged = op[r].staged
           /\ op'[r].failed = op[r].failed /\ op'[r].recovering = op[r].recovering
           /\ op'[r].activated = op[r].activated /\ op'[r].stopped = op[r].stopped
<1>1. op'[r] = [op[r] EXCEPT !.pc = pc]
  BY MovedTo DEF Goto
<1>2. QED  BY <1>1, OpType DEF Ops

LEMMA RevertWhole ==
    ASSUME TypeInv, WholeInv, NEW r \in Runs, Revert(r)
    PROVE  World' /\ Doing(op[r])'
<1> DEFINE o == op[r]
           x == op'[r]
<1>1. o \in Ops /\ o.payload \in Journals /\ journal \in Journals /\ World
  BY RunAt
<1>2. /\ ~Settled /\ o.payload = journal /\ Safe(o) /\ Back(o)
      /\ o.failed \/ Docked(files, o.payload.from)
      /\ o.recovering => ~o.failed
      /\ o.pc = "revert"
  BY RunAt DEF Revert, At, Doing, Working, Retreating, Undoing
<1>3. Reverts(r) <=> Undoes(o)
  BY DEF Reverts, Undoes
<1>4. CASE ~Reverts(r)
  <2> DEFINE pc == IF o.payload.pinned /\ ~o.recovering THEN "unpin" ELSE Closing(r)
  <2>1. UNCHANGED <<mode, journal, package, service, files, written>> /\ Goto(r, pc)
    BY <1>4 DEF Revert
  <2>2. World'
    BY <1>1, <2>1, SameWorld
  <2>3. Home(o) \/ o.failed
    BY <1>2, <1>3, <1>4 DEF Back, Home
  <2>4. /\ pc \in {"unpin", "settle", "parity"}
        /\ pc = "unpin" => o.payload.pinned /\ ~o.recovering
        /\ pc = "parity" => ~o.recovering
    BY DEF Closing
  <2>5. pc = "unpin" => ~Python
    BY <1>1, <1>2, <2>4 DEF World, Recoverable
  <2> HIDE DEF pc
  <2>6. Doing(op[r])'
    BY <1>1, <1>2, <2>1, <2>3, <2>4, <2>5, GoneTo DEF Doing, Outside, Closed, Working, Advancing, Retreating, Undoing, Forward,
     Locking, Safe, Back, Undoes, On, Docked, Kept, Home, Arrived, Settled, Python
  <2>7. QED  BY <2>2, <2>6
<1>5. CASE Reverts(r) /\ Python
  <2>1. UNCHANGED <<mode, journal, files, written>> /\ package' = 0 /\ Goto(r, "reinstall")
    BY <1>5 DEF Revert
  <2>2. World'
    BY <1>1, <1>2, <1>3, <1>5, <2>1 DEF Undoes, World, Kept, Calm, Recoverable, Settled, Promised, On, Docked,
     CanRevert, Python
  <2>3. Doing(op[r])'
    BY <1>1, <1>2, <1>3, <1>5, <2>1, GoneTo DEF Doing, Outside, Closed, Working, Advancing, Retreating, Undoing, Forward,
     Locking, Safe, Back, Undoes, On, Docked, Kept, Home, Arrived, Settled, Python
  <2>4. QED  BY <2>2, <2>3
<1>6. CASE Reverts(r) /\ ~Python /\ pin
  <2>1. /\ UNCHANGED <<mode, journal, package, files, written>> /\ service' = files.env
        /\ IF files.env = o.payload.from THEN Goto(r, "unpin") ELSE Fails(r, "parity")
    BY <1>6 DEF Revert
  <2>2. CASE files.env = o.payload.from
    <3>1. World'
      BY <1>1, <1>2, <1>3, <1>6, <2>1, <2>2 DEF Undoes, World, Kept, Calm, Recoverable, Settled, Promised, On, Docked,
     CanRevert, Python
    <3>2. Doing(op[r])'
      BY <1>1, <1>2, <1>3, <1>6, <2>1, <2>2, GoneTo DEF Doing, Outside, Closed, Working, Advancing, Retreating, Undoing, Forward,
     Locking, Safe, Back, Undoes, On, Docked, Kept, Home, Arrived, Settled, Python
    <3>3. QED  BY <3>1, <3>2
  <2>3. CASE files.env # o.payload.from
    BY <1>2, <1>3, <1>6, <2>1, <2>3, FailsWhole
  <2>4. QED  BY <2>2, <2>3
<1>7. CASE Reverts(r) /\ ~Python /\ ~pin
  <2>1. UNCHANGED <<mode, journal, package, service, files, written>> /\ Fails(r, "parity")
    BY <1>7 DEF Revert
  <2>2. QED  BY <1>2, <2>1, FailsWhole
<1>8. QED  BY <1>4, <1>5, <1>6, <1>7

LEMMA ReinstallWhole ==
    ASSUME TypeInv, WholeInv, NEW r \in Runs, Reinstall(r)
    PROVE  World' /\ Doing(op[r])'
<1> DEFINE o == op[r]
           pc == Closing(r)
<1>1. o \in Ops /\ o.payload \in Journals /\ journal \in Journals /\ World
  BY RunAt
<1>2. /\ ~Settled /\ o.payload = journal /\ Safe(o) /\ Python /\ Undoes(o)
      /\ o.recovering => ~o.failed
  BY RunAt DEF Reinstall, At, Doing, Working, Retreating, Undoing
<1>3. /\ UNCHANGED <<mode, journal, service, files, written>>
      /\ package' = o.payload.from /\ Goto(r, pc)
  BY DEF Reinstall
<1>4. pc = IF o.recovering THEN "settle" ELSE "parity"
  BY DEF Closing
<1> HIDE DEF pc
<1>5. World'
  BY <1>1, <1>2, <1>3 DEF World, Kept, Calm, Recoverable, Settled, Promised, On, Docked,
     CanRevert, Python
<1>6. Doing(op[r])'
  BY <1>1, <1>2, <1>3, <1>4, GoneTo DEF Doing, Outside, Closed, Working, Advancing, Retreating, Undoing, Forward,
     Locking, Safe, Back, Undoes, On, Docked, Kept, Home, Arrived, Settled, Python
<1>7. QED  BY <1>5, <1>6

LEMMA UnpinWhole ==
    ASSUME TypeInv, WholeInv, NEW r \in Runs, Unpin(r)
    PROVE  World' /\ Doing(op[r])'
<1> DEFINE o == op[r]
           pc == Closing(r)
<1>1. o \in Ops /\ o.payload \in Journals /\ journal \in Journals /\ World
  BY RunAt
<1>2. /\ ~Settled /\ o.payload = journal /\ Safe(o) /\ ~Python
      /\ o.failed \/ Home(o)
      /\ o.recovering => ~o.failed
  BY RunAt DEF Unpin, At, Doing, Working, Retreating, Undoing
<1>3. UNCHANGED <<mode, journal, package, service, files, written>> /\ Goto(r, pc)
  BY DEF Unpin
<1>4. pc = IF o.recovering THEN "settle" ELSE "parity"
  BY DEF Closing
<1> HIDE DEF pc
<1>5. World'
  BY <1>1, <1>3, SameWorld
<1>6. Doing(op[r])'
  BY <1>1, <1>2, <1>3, <1>4, GoneTo DEF Doing, Outside, Closed, Working, Advancing, Retreating, Undoing, Forward,
     Locking, Safe, Back, Undoes, On, Docked, Kept, Home, Arrived, Settled, Python
<1>7. QED  BY <1>5, <1>6

LEMMA ParityWhole ==
    ASSUME TypeInv, WholeInv, NEW r \in Runs, Parity(r)
    PROVE  World' /\ Doing(op[r])'
<1> DEFINE o == op[r]
           x == op'[r]
           bad == o.failed \/ (o.before # None /\ files # o.before)
<1>1. o \in Ops /\ o.payload \in Journals /\ journal \in Journals /\ World
  BY RunAt
<1>2. /\ ~Settled /\ o.payload = journal /\ Safe(o)
      /\ o.failed \/ Home(o)
      /\ ~o.recovering
  BY RunAt DEF Parity, At, Doing, Working, Retreating, Undoing
<1>3. UNCHANGED <<mode, journal, package, service, files, written>>
  BY DEF Parity
<1>4. /\ x.pc = "settle" /\ x.payload = o.payload /\ x.archive = o.archive
      /\ x.recovering = o.recovering /\ x.failed = bad
  <2>1. x = [o EXCEPT !.pc = "settle", !.failed = bad]
    BY MovedTo DEF Parity
  <2> HIDE DEF bad
  <2>2. QED  BY <1>1, <2>1 DEF Ops
<1>5. World'
  BY <1>1, <1>3, SameWorld
<1>6. Doing(op[r])'
  <2>1. o.failed => x.failed
    BY <1>4
  <2>2. QED
    BY <1>1, <1>2, <1>3, <1>4, <2>1 DEF Doing, Outside, Closed, Working, Advancing, Retreating, Undoing, Forward,
     Locking, Safe, Back, Undoes, On, Docked, Kept, Home, Arrived, Settled, Python
<1>7. QED  BY <1>5, <1>6

LEMMA SettleWhole ==
    ASSUME TypeInv, WholeInv, NEW r \in Runs, Settle(r)
    PROVE  World' /\ Doing(op[r])'
<1> DEFINE o == op[r]
           x == op'[r]
<1>1. o \in Ops /\ o.payload \in Journals /\ journal \in Journals /\ World
  BY RunAt
<1>2. /\ ~Settled /\ o.payload = journal
      /\ o.failed \/ Home(o)
      /\ o.recovering => ~o.failed
  BY RunAt DEF Settle, At, Doing, Working, Retreating, Undoing
<1>3. UNCHANGED <<mode, package, service, files, written>>
      /\ journal' = [o.payload EXCEPT !.status = Outcome(r)]
  BY DEF Settle
<1>4. /\ journal'.status = Outcome(r) /\ journal'.from = journal.from
      /\ journal'.to = journal.to /\ journal'.dry = journal.dry
      /\ journal'.source = journal.source /\ journal'.pinned = journal.pinned
      /\ journal'.backup = journal.backup
  BY <1>1, <1>2, <1>3 DEF Journals
<1>5. /\ Outcome(r) \in {"recovered", "rollback_failed", "rolled_back"}
      /\ Outcome(r) = "rollback_failed" \/ Home(o)
      /\ o.recovering => Outcome(r) = "recovered"
  BY <1>2 DEF Outcome
<1>6. World'
  BY <1>1, <1>2, <1>3, <1>4, <1>5 DEF Terminal, Home, World, Kept, Calm, Recoverable, Settled, Promised, On, Docked,
     CanRevert, Python
<1>7. Doing(op[r])'
  <2>1. CASE o.recovering
    <3>1. x.pc = "begin"
      <4>1. x = [Idle EXCEPT !.pc = "begin"]
        BY <2>1, MovedTo DEF Settle
      <4>2. QED  BY <4>1 DEF Idle
    <3>2. Settled'
      BY <1>4, <1>5, <2>1 DEF Settled, Terminal
    <3>3. QED
      BY <3>1, <3>2 DEF Doing, Outside, Closed, Working, Advancing, Retreating, Undoing,
         Forward, Locking
  <2>2. CASE ~o.recovering
    BY <2>2, IdleWhole DEF Settle, Leave
  <2>3. QED  BY <2>1, <2>2
<1>8. QED  BY <1>6, <1>7

LEMMA BeginWhole ==
    ASSUME TypeInv, WholeInv, NEW r \in Runs, Begin(r)
    PROVE  World' /\ Doing(op[r])'
<1>1. journal \in Journals /\ files \in Files /\ World /\ Settled
  BY RunAt DEF Begin, At, Doing, Closed
<1>2. UNCHANGED <<mode, package, service, files, written>>
  BY DEF Begin
<1>3. CASE Leave(r) /\ UNCHANGED journal
  BY <1>1, <1>2, <1>3, SameWorld, IdleWhole DEF Leave
<1>4. ASSUME NEW from \in InstalledVersions, NEW to \in Versions,
             journal' = [NoJournal EXCEPT !.status = "started", !.from = from, !.to = to],
             op' = Moved(r, [Idle EXCEPT !.pc = "preflight", !.payload = journal'])
      PROVE  World' /\ Doing(op[r])'
  <2>1. from = Promised
    <3>1. On(Promised) /\ Docked(files, Promised) /\ Promised \in Versions
      BY <1>1 DEF World, Calm, Promised, Journals
    <3>2. Promised # 0
      BY <3>1, UpgradeAssumption
    <3>3. QED
      BY <1>4, <3>1, <3>2 DEF InstalledVersions, On, Docked
  <2>2. On(from) /\ Docked(files, from)
    BY <1>1, <2>1 DEF World, Calm
  <2>3. /\ journal'.status = "started" /\ journal'.from = from /\ journal'.to = to
        /\ ~journal'.dry /\ ~journal'.source /\ ~journal'.pinned /\ journal'.backup = None
    BY <1>4 DEF NoJournal
  <2>4. World'
    BY <1>1, <1>2, <2>2, <2>3 DEF Terminal, World, Kept, Calm, Recoverable, Settled, Promised, On, Docked,
     CanRevert, Python
  <2>5. /\ op'[r].pc = "preflight" /\ op'[r].payload = journal' /\ op'[r].archive = None
        /\ ~op'[r].failed /\ ~op'[r].recovering
    <3>1. op'[r] = [Idle EXCEPT !.pc = "preflight", !.payload = journal']
      BY <1>4, MovedTo
    <3>2. QED  BY <3>1 DEF Idle
  <2>6. Doing(op[r])'
    BY <1>2, <2>2, <2>3, <2>5 DEF Terminal, Doing, Outside, Closed, Working, Advancing, Retreating, Undoing, Forward,
     Locking, Safe, Back, Undoes, On, Docked, Kept, Home, Arrived, Settled, Python
  <2>7. QED  BY <2>4, <2>6
<1>5. QED  BY <1>3, <1>4 DEF Begin

(* The journal and the locals of a run that is going forward.              *)
LEMMA ForwardAt ==
    ASSUME TypeInv, WholeInv, NEW r \in Runs, op[r].pc \in Forward
    PROVE  /\ op[r] \in Ops /\ op[r].payload \in Journals /\ journal \in Journals
           /\ files \in Files /\ World
           /\ ~Settled /\ op[r].payload = journal /\ Safe(op[r])
           /\ ~op[r].failed /\ ~op[r].recovering /\ Back(op[r])
  BY RunAt DEF Doing, Working, Advancing

(* From here on the backup can bring back what the operation changes.      *)
LEMMA PreparedAt ==
    ASSUME TypeInv, WholeInv, NEW r \in Runs,
           op[r].pc \in {"stage", "install", "installing", "activate", "start", "check", "complete"}
    PROVE  /\ op[r].archive # None /\ op[r].payload.backup # None
           /\ op[r].payload.source = (Python /\ op[r].payload.from # op[r].payload.to)
           /\ op[r].payload.pinned = ~Python
  BY RunAt DEF Doing, Advancing, Forward

LEMMA RollBackWhole ==
    ASSUME TypeInv, WholeInv, NEW r \in Runs, NEW stopped \in BOOLEAN, RollBack(r, stopped),
           op[r].pc \in Forward,
           UNCHANGED <<mode, package, files, written>>,
           \/ service' = service /\ stopped = op[r].stopped
           \/ ~Python /\ stopped /\ op[r].payload.pinned
    PROVE  World' /\ Doing(op[r])'
<1> DEFINE o == op[r]
           x == op'[r]
           pc == Undo(r)
<1>1. /\ o \in Ops /\ o.payload \in Journals /\ journal \in Journals /\ World
      /\ ~Settled /\ o.payload = journal /\ Safe(o)
      /\ ~o.failed /\ ~o.recovering /\ Back(o)
  BY ForwardAt
<1>2. journal' = [o.payload EXCEPT !.status = "rolling_back"]
  BY DEF RollBack
<1>3. /\ journal'.status = "rolling_back" /\ journal'.from = journal.from
      /\ journal'.to = journal.to /\ journal'.dry = journal.dry
      /\ journal'.source = journal.source /\ journal'.pinned = journal.pinned
      /\ journal'.backup = journal.backup
  BY <1>1, <1>2 DEF Journals
<1>4. /\ x.pc = pc /\ x.payload = journal' /\ x.archive = o.archive
      /\ x.failed = o.failed /\ x.recovering = o.recovering
      /\ x.activated = o.activated /\ x.stopped = stopped
  <2> DEFINE y == [o EXCEPT !.payload = [o.payload EXCEPT !.status = "rolling_back"],
                            !.stopped = stopped, !.left = Len(Parts), !.pc = pc]
  <2>1. x = y
    BY MovedTo DEF RollBack
  <2> HIDE DEF pc
  <2>2. QED  BY <1>1, <1>2, <2>1 DEF Ops
<1>5. pc = IF o.archive # None THEN "restore" ELSE "revert"
  BY DEF Undo
<1> HIDE DEF pc
<1>6. World'
  BY <1>1, <1>3 DEF Terminal, Back, Undoes, World, Kept, Calm, Recoverable, Settled, Promised, On, Docked,
     CanRevert, Python
<1>7. Doing(op[r])'
  BY <1>1, <1>3, <1>4, <1>5 DEF Terminal, Doing, Outside, Closed, Working, Advancing, Retreating, Undoing, Forward,
     Locking, Safe, Back, Undoes, On, Docked, Kept, Home, Arrived, Settled, Python
<1>8. QED  BY <1>6, <1>7

LEMMA PreflightWhole ==
    ASSUME TypeInv, WholeInv, NEW r \in Runs, Preflight(r)
    PROVE  World' /\ Doing(op[r])'
<1> DEFINE o == op[r]
           x == op'[r]
           source == Python /\ o.payload.from # o.payload.to
           pinned == ~Python
<1>0. o.pc = "preflight"
  BY DEF Preflight, At
<1>1. /\ o \in Ops /\ o.payload \in Journals /\ journal \in Journals /\ World
      /\ ~Settled /\ o.payload = journal /\ Safe(o) /\ ~o.failed /\ ~o.recovering
  BY <1>0, ForwardAt DEF Forward
<1>2. On(o.payload.from) /\ o.archive = None
  BY <1>0, RunAt DEF Doing, Advancing
<1>3. UNCHANGED <<mode, package, service, files, written>>
      /\ journal' = [o.payload EXCEPT !.source = source, !.pinned = pinned]
  BY DEF Preflight
<1>4. x = [o EXCEPT !.payload = journal', !.pc = "stop"]
  BY <1>3, MovedTo DEF Preflight
<1>5. source \in BOOLEAN /\ pinned \in BOOLEAN /\ pinned = ~Python
      /\ source = (Python /\ journal.from # journal.to)
  BY <1>1
<1> HIDE DEF source, pinned
<1>6. /\ journal'.status = journal.status /\ journal'.from = journal.from
      /\ journal'.to = journal.to /\ journal'.dry = journal.dry
      /\ journal'.source = source /\ journal'.pinned = pinned
      /\ journal'.backup = journal.backup
  BY <1>1, <1>3 DEF Journals
<1>7. /\ x.pc = "stop" /\ x.payload = journal' /\ x.archive = o.archive
      /\ x.failed = o.failed /\ x.recovering = o.recovering
  BY <1>1, <1>4 DEF Ops
<1>8. World'
  BY <1>1, <1>2, <1>3, <1>5, <1>6 DEF World, Kept, Calm, Recoverable, Settled, Promised, On, Docked,
     CanRevert, Python
<1>9. Doing(op[r])'
  BY <1>1, <1>2, <1>3, <1>5, <1>6, <1>7 DEF Doing, Outside, Closed, Working, Advancing, Retreating, Undoing, Forward,
     Locking, Safe, Back, Undoes, On, Docked, Kept, Home, Arrived, Settled, Python
<1>10. QED  BY <1>8, <1>9

LEMMA StopWhole ==
    ASSUME TypeInv, WholeInv, NEW r \in Runs, Stop(r) \/ DryRun(r)
    PROVE  World' /\ Doing(op[r])'
<1> DEFINE o == op[r]
           x == op'[r]
           stopped == ~Python
<1>0. o.pc = "stop"
  BY DEF Stop, DryRun, At
<1>1. /\ o \in Ops /\ o.payload \in Journals /\ journal \in Journals /\ World
      /\ ~Settled /\ o.payload = journal /\ Safe(o) /\ ~o.failed /\ ~o.recovering
  BY <1>0, ForwardAt DEF Forward
<1>2. /\ On(o.payload.from) /\ o.archive = None
      /\ o.payload.source = (Python /\ o.payload.from # o.payload.to)
      /\ o.payload.pinned = ~Python
  BY <1>0, RunAt DEF Doing, Advancing, Forward
<1>3. CASE Stop(r)
  <2>1. UNCHANGED <<mode, journal, package, files, written>> /\ service' = 0
    BY <1>3 DEF Stop
  <2>2. /\ x.pc = "backup" /\ x.stopped = stopped /\ x.payload = o.payload
        /\ x.archive = o.archive /\ x.failed = o.failed /\ x.recovering = o.recovering
    <3>1. x = [o EXCEPT !.stopped = stopped, !.before = files, !.pc = "backup"]
      BY <1>3, MovedTo DEF Stop
    <3> HIDE DEF stopped
    <3>2. QED  BY <1>1, <3>1 DEF Ops
  <2>3. World'
    BY <1>1, <1>2, <2>1 DEF World, Kept, Calm, Recoverable, Settled, Promised, On, Docked,
     CanRevert, Python
  <2>4. Doing(op[r])'
    BY <1>1, <1>2, <2>1, <2>2 DEF Doing, Outside, Closed, Working, Advancing, Retreating, Undoing, Forward,
     Locking, Safe, Back, Undoes, On, Docked, Kept, Home, Arrived, Settled, Python
  <2>5. QED  BY <2>3, <2>4
<1>4. CASE DryRun(r)
  <2>1. UNCHANGED <<mode, package, service, files, written>> /\ Goto(r, "discard")
        /\ journal' = [o.payload EXCEPT !.status = "complete", !.dry = TRUE]
    BY <1>4 DEF DryRun
  <2>2. journal'.status = "complete" /\ journal'.dry = TRUE /\ journal'.from = journal.from
    BY <1>1, <2>1 DEF Journals
  <2>3. World'
    BY <1>1, <1>2, <2>1, <2>2 DEF Safe, Terminal, World, Kept, Calm, Recoverable, Settled, Promised, On, Docked,
     CanRevert, Python
  <2>4. Doing(op[r])'
    BY <2>1, <2>2, GoneTo DEF Terminal, Doing, Outside, Closed, Working, Advancing, Retreating, Undoing, Forward,
     Locking, Safe, Back, Undoes, On, Docked, Kept, Home, Arrived, Settled, Python
  <2>5. QED  BY <2>3, <2>4
<1>5. QED  BY <1>3, <1>4

LEMMA BackupWhole ==
    ASSUME TypeInv, WholeInv, NEW r \in Runs, CreateBackup(r) \/ NoteBackup(r) \/ Stage(r)
    PROVE  World' /\ Doing(op[r])'
<1> DEFINE o == op[r]
           x == op'[r]
<1>0. o.pc \in {"backup", "note", "stage"}
  BY DEF CreateBackup, NoteBackup, Stage, At
<1>1. /\ o \in Ops /\ o.payload \in Journals /\ journal \in Journals /\ files \in Files /\ World
      /\ ~Settled /\ o.payload = journal /\ Safe(o)
      /\ ~o.failed /\ ~o.recovering /\ Back(o)
  BY <1>0, ForwardAt DEF Forward
<1>2. /\ o.payload.source = (Python /\ o.payload.from # o.payload.to)
      /\ o.payload.pinned = ~Python
  BY <1>0, RunAt DEF Doing, Advancing, Forward
<1>3. UNCHANGED <<mode, package, service, files, written>> /\ files # None
  BY <1>1 DEF CreateBackup, NoteBackup, Stage, Files, None
<1>4. CASE CreateBackup(r)
  <2>1. o.archive = None
    BY <1>4, RunAt DEF CreateBackup, At, Doing, Advancing
  <2>2. UNCHANGED journal /\ x = [o EXCEPT !.archive = files, !.pc = "note"]
    BY <1>4, MovedTo DEF CreateBackup
  <2>3. /\ x.pc = "note" /\ x.archive = files /\ x.payload = o.payload
        /\ x.failed = o.failed /\ x.recovering = o.recovering
        /\ x.activated = o.activated /\ x.stopped = o.stopped
    BY <1>1, <2>2 DEF Ops
  <2>4. World'
    BY <1>1, <1>3, <2>2, SameWorld
  <2>5. Doing(op[r])'
    BY <1>1, <1>2, <1>3, <2>1, <2>2, <2>3 DEF World, Doing, Outside, Closed, Working, Advancing, Retreating, Undoing, Forward,
     Locking, Safe, Back, Undoes, On, Docked, Kept, Home, Arrived, Settled, Python
  <2>6. QED  BY <2>4, <2>5
<1>5. CASE NoteBackup(r)
  <2>1. o.archive # None
    BY <1>5, RunAt DEF NoteBackup, At, Doing, Advancing, Forward
  <2>2. journal' = [o.payload EXCEPT !.backup = o.archive]
        /\ x = [o EXCEPT !.payload = journal', !.pc = "stage"]
    BY <1>5, MovedTo DEF NoteBackup
  <2>3. /\ journal'.status = journal.status /\ journal'.from = journal.from
        /\ journal'.to = journal.to /\ journal'.dry = journal.dry
        /\ journal'.source = journal.source /\ journal'.pinned = journal.pinned
        /\ journal'.backup = o.archive
    BY <1>1, <2>2 DEF Journals
  <2>4. /\ x.pc = "stage" /\ x.archive = o.archive /\ x.payload = journal'
        /\ x.failed = o.failed /\ x.recovering = o.recovering
        /\ x.activated = o.activated /\ x.stopped = o.stopped
    BY <1>1, <2>2 DEF Ops
  <2>5. World'
    BY <1>1, <1>3, <2>1, <2>3 DEF Safe, World, Kept, Calm, Recoverable, Settled, Promised, On, Docked,
     CanRevert, Python
  <2>6. Doing(op[r])'
    BY <1>1, <1>2, <1>3, <2>1, <2>3, <2>4 DEF Doing, Outside, Closed, Working, Advancing, Retreating, Undoing, Forward,
     Locking, Safe, Back, Undoes, On, Docked, Kept, Home, Arrived, Settled, Python
  <2>7. QED  BY <2>5, <2>6
<1>6. CASE Stage(r)
  <2>1. o.archive # None /\ o.payload.backup # None
    BY <1>6, PreparedAt DEF Stage, At
  <2>2. UNCHANGED journal /\ x = [o EXCEPT !.staged = files, !.pc = "install"]
    BY <1>6, MovedTo DEF Stage
  <2>3. /\ x.pc = "install" /\ x.staged = files /\ x.archive = o.archive
        /\ x.payload = o.payload
        /\ x.failed = o.failed /\ x.recovering = o.recovering
        /\ x.activated = o.activated /\ x.stopped = o.stopped
    BY <1>1, <2>2 DEF Ops
  <2>4. World'
    BY <1>1, <1>3, <2>2, SameWorld
  <2>5. Doing(op[r])'
    BY <1>1, <1>2, <1>3, <2>1, <2>2, <2>3 DEF World, Doing, Outside, Closed, Working, Advancing, Retreating, Undoing, Forward,
     Locking, Safe, Back, Undoes, On, Docked, Kept, Home, Arrived, Settled, Python
  <2>6. QED  BY <2>4, <2>5
<1>7. QED  BY <1>4, <1>5, <1>6

LEMMA InstallWhole ==
    ASSUME TypeInv, WholeInv, NEW r \in Runs, Install(r) \/ Installed(r)
    PROVE  World' /\ Doing(op[r])'
<1> DEFINE o == op[r]
           x == op'[r]
           noted == [o EXCEPT !.left = Len(Parts) - 1]
<1>0. o.pc \in {"install", "installing"}
  BY DEF Install, Installed, At
<1>1. /\ o \in Ops /\ o.payload \in Journals /\ journal \in Journals /\ files \in Files /\ World
      /\ ~Settled /\ o.payload = journal /\ Safe(o)
      /\ ~o.failed /\ ~o.recovering /\ Back(o)
  BY <1>0, ForwardAt DEF Forward
<1>2. /\ o.archive # None /\ o.payload.backup # None
      /\ o.payload.source = (Python /\ o.payload.from # o.payload.to)
      /\ o.payload.pinned = ~Python
  BY <1>0, PreparedAt
<1>3. Kept(o.staged)
  BY <1>0, RunAt DEF Doing, Advancing
<1>4. UNCHANGED <<mode, journal, service, written>>
  BY DEF Install, Installed
<1>5. noted \in Ops /\ noted.payload = o.payload /\ noted.archive = o.archive
      /\ noted.staged = o.staged /\ noted.failed = o.failed
      /\ noted.recovering = o.recovering /\ noted.activated = o.activated
      /\ noted.stopped = o.stopped
  <2>1. Len(Parts) - 1 \in 0..3
    BY PartsCount
  <2>2. noted \in Ops
    BY <1>1, <2>1, Zenon DEF Ops
  <2>3. QED  BY <1>1, <2>2 DEF Ops
<1>6. CASE Install(r) /\ Python /\ o.payload.source
  <2>1. /\ package' = 0 /\ UNCHANGED files
        /\ x = [noted EXCEPT !.activated = TRUE, !.pc = "installing"]
    BY <1>6, MovedTo DEF Install
  <2> HIDE DEF noted
  <2>2. /\ x.pc = "installing" /\ x.payload = o.payload /\ x.archive = o.archive
        /\ x.staged = o.staged /\ x.failed = o.failed /\ x.recovering = o.recovering
        /\ x.activated = TRUE
    BY <1>5, <2>1 DEF Ops
  <2>3. World'
    BY <1>1, <1>4, <1>6, <2>1 DEF World, Kept, Calm, Recoverable, Settled, Promised, On, Docked,
     CanRevert, Python
  <2>4. Doing(op[r])'
    BY <1>1, <1>2, <1>3, <1>4, <1>6, <2>1, <2>2 DEF Doing, Outside, Closed, Working, Advancing, Retreating, Undoing, Forward,
     Locking, Safe, Back, Undoes, On, Docked, Kept, Home, Arrived, Settled, Python
  <2>5. QED  BY <2>3, <2>4
<1>7. CASE Install(r) /\ Python /\ ~o.payload.source
  <2>1. UNCHANGED <<package, files>> /\ x = [noted EXCEPT !.pc = "activate"]
    BY <1>7, MovedTo DEF Install
  <2> HIDE DEF noted
  <2>2. /\ x.pc = "activate" /\ x.payload = o.payload /\ x.archive = o.archive
        /\ x.staged = o.staged /\ x.failed = o.failed /\ x.recovering = o.recovering
        /\ x.activated = o.activated /\ x.stopped = o.stopped
    BY <1>5, <2>1 DEF Ops
  <2>3. World'
    BY <1>1, <1>4, <2>1, SameWorld
  <2>4. package = o.payload.to
    BY <1>1, <1>2, <1>7 DEF Back, On, Undoes
  <2>5. Doing(op[r])'
    BY <1>1, <1>2, <1>3, <1>4, <1>7, <2>1, <2>2, <2>4 DEF Doing, Outside, Closed, Working, Advancing, Retreating, Undoing, Forward,
     Locking, Safe, Back, Undoes, On, Docked, Kept, Home, Arrived, Settled, Python
  <2>6. QED  BY <2>3, <2>5
<1>8. CASE Install(r) /\ ~Python
  <2>1. /\ UNCHANGED package /\ files' = [files EXCEPT !.env = o.payload.to]
        /\ x = [noted EXCEPT !.activated = TRUE, !.pc = "activate"]
    BY <1>8, MovedTo DEF Install
  <2> HIDE DEF noted
  <2>2. /\ x.pc = "activate" /\ x.payload = o.payload /\ x.archive = o.archive
        /\ x.staged = o.staged /\ x.failed = o.failed /\ x.recovering = o.recovering
        /\ x.activated = TRUE /\ x.stopped = o.stopped
    BY <1>5, <2>1 DEF Ops
  <2>3. /\ files'.core = files.core /\ files'.experience = files.experience
        /\ files'.env = o.payload.to
    BY <1>1, <2>1 DEF Files
  <2>4. World'
    BY <1>1, <1>2, <1>4, <1>8, <2>1, <2>3 DEF World, Kept, Calm, Recoverable, Settled, Promised, On, Docked,
     CanRevert, Python
  <2>5. Doing(op[r])'
    BY <1>1, <1>2, <1>3, <1>4, <1>8, <2>1, <2>2, <2>3 DEF Doing, Outside, Closed, Working, Advancing, Retreating, Undoing, Forward,
     Locking, Safe, Back, Undoes, On, Docked, Kept, Home, Arrived, Settled, Python
  <2>6. QED  BY <2>4, <2>5
<1>9. CASE Installed(r)
  <2>1. package' = o.payload.to /\ UNCHANGED files /\ Goto(r, "activate") /\ Python /\ Undoes(o)
    BY <1>9, RunAt DEF Installed, At, Doing, Advancing
  <2>2. World'
    BY <1>1, <1>2, <1>4, <2>1 DEF World, Kept, Calm, Recoverable, Settled, Promised, On, Docked,
     CanRevert, Python
  <2>3. Doing(op[r])'
    BY <1>1, <1>2, <1>3, <1>4, <2>1, GoneTo DEF Doing, Outside, Closed, Working, Advancing, Retreating, Undoing, Forward,
     Locking, Safe, Back, Undoes, On, Docked, Kept, Home, Arrived, Settled, Python
  <2>4. QED  BY <2>2, <2>3
<1>10. QED  BY <1>6, <1>7, <1>8, <1>9

LEMMA ActivateWhole ==
    ASSUME TypeInv, WholeInv, NEW r \in Runs, Activate(r)
    PROVE  World' /\ Doing(op[r])'
<1> DEFINE o == op[r]
           x == op'[r]
           k == 3 - o.left
           pc == IF o.left = 1 THEN "start" ELSE "activate"
<1>0. o.pc = "activate"
  BY DEF Activate, At
<1>1. /\ o \in Ops /\ o.payload \in Journals /\ journal \in Journals /\ files \in Files /\ World
      /\ ~Settled /\ o.payload = journal /\ Safe(o)
      /\ ~o.failed /\ ~o.recovering /\ Back(o)
  BY <1>0, ForwardAt DEF Forward
<1>2. /\ o.archive # None /\ o.payload.backup # None
      /\ o.payload.source = (Python /\ o.payload.from # o.payload.to)
      /\ o.payload.pinned = ~Python
  BY <1>0, PreparedAt
<1>3. /\ Kept(o.staged) /\ Arrived(o)
      /\ o.staged \in Files /\ o.left \in 1..2
  BY <1>0, RunAt DEF Doing, Advancing, TypeInv, Ready
<1>4. k \in 1..2 /\ pc \in {"start", "activate"}
  BY <1>3
<1>5. UNCHANGED <<mode, journal, package, service, written>>
  BY DEF Activate
<1>6. /\ files'.core = IF k = 1 THEN o.staged.core ELSE files.core
      /\ files'.experience = IF k = 2 THEN o.staged.experience ELSE files.experience
      /\ files'.env = files.env
  <2> DEFINE h == [files EXCEPT ![Parts[k]] = o.staged[Parts[k]]]
  <2>1. files' = h
    BY DEF Activate
  <2>2. /\ h.core = IF k = 1 THEN o.staged.core ELSE files.core
        /\ h.experience = IF k = 2 THEN o.staged.experience ELSE files.experience
        /\ h.env = files.env
    <3> HIDE DEF k
    <3>1. files \in Files /\ o.staged \in Files /\ k \in 1..3 /\ k # 3
      BY <1>1, <1>3, <1>4
    <3> HIDE DEF o
    <3>2. h.env = IF k = 3 THEN o.staged.env ELSE files.env
      BY <3>1, CopyEffect
    <3>3. /\ h.core = IF k = 1 THEN o.staged.core ELSE files.core
          /\ h.experience = IF k = 2 THEN o.staged.experience ELSE files.experience
      BY <3>1, CopyEffect
    <3> HIDE DEF h
    <3>4. QED  BY <3>1, <3>2, <3>3
  <2>3. QED  BY <2>1, <2>2
<1>7. /\ x.pc = pc /\ x.payload = o.payload /\ x.archive = o.archive
      /\ x.staged = o.staged /\ x.failed = o.failed /\ x.recovering = o.recovering
      /\ x.activated = o.activated /\ x.stopped = o.stopped
  <2>1. x = [o EXCEPT !.left = @ - 1, !.pc = pc]
    BY MovedTo DEF Activate
  <2> HIDE DEF pc
  <2>2. QED  BY <1>1, <2>1 DEF Ops
<1> HIDE DEF pc, k
<1>8. World'
  BY <1>1, <1>3, <1>5, <1>6 DEF World, Kept, Calm, Recoverable, Settled, Promised, On, Docked,
     CanRevert, Python
<1>9. Doing(op[r])'
  BY <1>1, <1>2, <1>3, <1>4, <1>5, <1>6, <1>7 DEF Doing, Outside, Closed, Working, Advancing, Retreating, Undoing, Forward,
     Locking, Safe, Back, Undoes, On, Docked, Kept, Home, Arrived, Settled, Python
<1>10. QED  BY <1>8, <1>9

LEMMA EndingWhole ==
    ASSUME TypeInv, WholeInv, NEW r \in Runs, StartContainer(r) \/ Check(r) \/ Complete(r)
    PROVE  World' /\ Doing(op[r])'
<1> DEFINE o == op[r]
<1>0. o.pc \in {"start", "check", "complete"}
  BY DEF StartContainer, Check, Complete, At
<1>1. /\ o \in Ops /\ o.payload \in Journals /\ journal \in Journals /\ files \in Files /\ World
      /\ ~Settled /\ o.payload = journal /\ Safe(o)
      /\ ~o.failed /\ ~o.recovering /\ Back(o)
  BY <1>0, ForwardAt DEF Forward
<1>2. /\ o.archive # None /\ o.payload.backup # None
      /\ o.payload.source = (Python /\ o.payload.from # o.payload.to)
      /\ o.payload.pinned = ~Python
  BY <1>0, PreparedAt
<1>3. Arrived(o) /\ (o.pc \in {"check", "complete"} => On(o.payload.to))
  BY <1>0, RunAt DEF Doing, Advancing
<1>4. UNCHANGED <<mode, package, files, written>>
  BY DEF StartContainer, Check, Complete
<1>5. CASE StartContainer(r)
  <2> DEFINE x == op'[r]
  <2>1. /\ UNCHANGED journal /\ service' = IF Python THEN 0 ELSE files.env
        /\ x = [o EXCEPT !.stopped = FALSE, !.pc = "check"]
    BY <1>5, MovedTo DEF StartContainer
  <2>2. /\ x.pc = "check" /\ x.payload = o.payload /\ x.archive = o.archive
        /\ x.failed = o.failed /\ x.recovering = o.recovering
        /\ x.activated = o.activated /\ x.stopped = FALSE
    BY <1>1, <2>1 DEF Ops
  <2>3. World'
    BY <1>1, <1>2, <1>4, <2>1 DEF World, Kept, Calm, Recoverable, Settled, Promised, On, Docked,
     CanRevert, Python
  <2>4. /\ (On(o.payload.to) /\ Arrived(o))'
        /\ (Python \/ Undoes(o))' /\ (Python => Back(o))'
    BY <1>1, <1>2, <1>3, <1>4, <2>1, <2>2 DEF Back, Undoes, On, Arrived, Python
  <2>5. (Undoes(o) => Back(o))'
    BY DEF Back
  <2>6. Doing(op[r])'
    BY <1>1, <1>2, <1>4, <2>1, <2>2, <2>4, <2>5 DEF Doing, Outside, Closed, Working, Advancing, Retreating, Undoing, Forward,
     Locking, Safe, Back, Undoes, On, Docked, Kept, Home, Arrived, Settled, Python
  <2>7. QED  BY <2>3, <2>6
<1>6. CASE Check(r)
  <2>1. CASE Healthy(r)
    <3>1. UNCHANGED <<journal, service>> /\ Goto(r, "complete") /\ On(o.payload.to)
      BY <1>3, <1>6, <2>1 DEF Check, At
    <3>2. World'
      BY <1>1, <1>4, <3>1, SameWorld
    <3>3. Doing(op[r])'
      BY <1>1, <1>2, <1>3, <1>4, <3>1, GoneTo DEF Doing, Outside, Closed, Working, Advancing, Retreating, Undoing, Forward,
     Locking, Safe, Back, Undoes, On, Docked, Kept, Home, Arrived, Settled, Python
    <3>4. QED  BY <3>2, <3>3
  <2>2. CASE ~Healthy(r)
    <3>1. RollBack(r, o.stopped) /\ UNCHANGED service /\ o.stopped \in BOOLEAN
      BY <1>1, <1>6, <2>2 DEF Check, Ops
    <3>2. o.pc \in Forward
      BY <1>0 DEF Forward
    <3>3. QED  BY <1>4, <3>1, <3>2, RollBackWhole
  <2>3. QED  BY <2>1, <2>2
<1>7. CASE Complete(r)
  <2>1. UNCHANGED service /\ Goto(r, "discard") /\ On(o.payload.to)
        /\ journal' = [o.payload EXCEPT !.status = "complete"]
    BY <1>3, <1>7 DEF Complete, At
  <2>2. /\ journal'.status = "complete" /\ journal'.to = journal.to
        /\ journal'.dry = journal.dry
    BY <1>1, <2>1 DEF Journals
  <2>3. World'
    BY <1>1, <1>3, <1>4, <2>1, <2>2 DEF Arrived, Terminal, World, Kept, Calm, Recoverable, Settled, Promised, On, Docked,
     CanRevert, Python
  <2>4. Doing(op[r])'
    BY <2>1, <2>2, GoneTo DEF Terminal, Doing, Outside, Closed, Working, Advancing, Retreating, Undoing, Forward,
     Locking, Safe, Back, Undoes, On, Docked, Kept, Home, Arrived, Settled, Python
  <2>5. QED  BY <2>3, <2>4
<1>8. QED  BY <1>5, <1>6, <1>7

LEMMA DiscardWhole ==
    ASSUME TypeInv, WholeInv, NEW r \in Runs, Discard(r)
    PROVE  World' /\ Doing(op[r])'
  BY RunAt, SameWorld, IdleWhole DEF Discard, Leave

LEMMA RaisesWhole ==
    ASSUME TypeInv, WholeInv, NEW r \in Runs,
           StepRaises(r) \/ StopTimesOut(r) \/ UndoRaises(r)
    PROVE  World' /\ Doing(op[r])'
<1>1. CASE StepRaises(r)
  <2>1. op[r].stopped \in BOOLEAN
    BY RunAt DEF Ops
  <2>2. QED  BY <1>1, <2>1, RollBackWhole DEF StepRaises
<1>2. CASE StopTimesOut(r)
  <2>1. op[r].pc \in Forward \ {"preflight"}
    BY <1>2 DEF StopTimesOut, At, Forward
  <2>2. ~Python /\ op[r].payload.pinned = ~Python
    BY <1>2, <2>1, RunAt DEF StopTimesOut, Doing, Advancing
  <2>3. op[r].payload.pinned
    BY <2>2
  <2>4. QED  BY <1>2, <2>1, <2>2, <2>3, RollBackWhole DEF StopTimesOut
<1>3. CASE UndoRaises(r)
  <2>1. UNCHANGED <<mode, journal, package, files, written>>
    BY <1>3 DEF UndoRaises
  <2>2. CASE At(r, "restore") /\ Fails(r, "revert") /\ UNCHANGED service
    BY <2>1, <2>2, FailsWhole DEF At
  <2>3. CASE At(r, "revert") /\ Reverts(r) /\ Fails(r, "parity") /\ (Python => UNCHANGED service)
    <3>1. Undoes(op[r])
      BY <2>3 DEF Reverts, Undoes
    <3>2. QED  BY <2>1, <2>3, <3>1, FailsWhole DEF At
  <2>4. CASE At(r, "reinstall") /\ Fails(r, "parity") /\ UNCHANGED service
    BY <2>1, <2>4, FailsWhole DEF At
  <2>5. QED  BY <1>3, <2>2, <2>3, <2>4 DEF UndoRaises
<1>4. QED  BY <1>1, <1>2, <1>3

LEMMA BodyWhole == ASSUME TypeInv, WholeInv, NEW r \in Runs, Body(r) PROVE World' /\ Doing(op[r])'
  BY LoadWhole, RestoreWhole, RevertWhole, ReinstallWhole, UnpinWhole, ParityWhole,
     SettleWhole, BeginWhole, PreflightWhole, StopWhole, BackupWhole, InstallWhole,
     ActivateWhole, EndingWhole, DiscardWhole, RaisesWhole DEF Body

(* The steps of a run past the lock are its own business.                  *)
LEMMA AloneWhole ==
    ASSUME TypeInv, Locked, WholeInv, NEW r \in Runs, Within(r), World', Doing(op[r])'
    PROVE  WholeInv'
<1>1. ASSUME NEW s \in Runs \ {r} PROVE Doing(op[s])'
  <2>1. op'[s] = op[s] /\ op[s].pc \in Locking \cup {"idle"} /\ ~op[s].failed
    <3>1. op'[s] = op[s]
      BY DEF Within, Others
    <3>2. s \notin Inside
      BY DEF Within, Locked, Held
    <3>3. Doing(op[s])
      BY DEF WholeInv
    <3>4. QED  BY <3>1, <3>2, <3>3 DEF Inside, Doing, Outside
  <2>2. QED
    BY <2>1 DEF Doing, Outside, Closed, Working, Advancing, Retreating, Undoing, Forward, Locking
<1>2. QED  BY <1>1 DEF WholeInv

(* Steps that take the lock, and a crash, only move a run out of the way.  *)
LEMMA ApartWhole ==
    ASSUME TypeInv, WholeInv, NEW r \in Runs, Others(r),
           op'[r].pc \in Locking \cup {"idle", "load"}, ~op'[r].failed,
           UNCHANGED <<mode, journal, package, service, files, written>>
    PROVE  WholeInv'
<1>1. World'
  BY SameWorld DEF WholeInv
<1>2. Doing(op[r])'
  BY DEF Doing, Outside, Closed, Working, Advancing, Retreating, Undoing, Forward, Locking
<1>3. ASSUME NEW s \in Runs \ {r} PROVE Doing(op[s])'
  <2>1. op'[s] = op[s] /\ Doing(op[s])
    BY DEF Others, WholeInv
  <2>2. QED
    BY <2>1 DEF Doing, Outside, Closed, Working, Advancing, Retreating, Undoing, Forward,
     Locking, Safe, Back, Undoes, On, Docked, Kept, Home, Arrived, Settled, Python
<1>4. QED  BY <1>1, <1>2, <1>3 DEF WholeInv

LEMMA LockingWhole ==
    ASSUME TypeInv, WholeInv, NEW r \in Runs,
           OpenLock(r) \/ ReadLock(r) \/ UnlinkLock(r) \/ CreateLock(r) \/ NotePid(r)
    PROVE  WholeInv'
<1>0. ~op[r].failed
  BY RunAt DEF OpenLock, ReadLock, UnlinkLock, CreateLock, NotePid, At, Locking, Doing, Outside
<1>1. UNCHANGED <<mode, journal, package, service, files, written>>
  BY DEF OpenLock, ReadLock, UnlinkLock, CreateLock, NotePid
<1>2. \/ End(r)
      \/ \E pc \in Locking \cup {"load"} : Goto(r, pc)
  <2>1. CASE OpenLock(r)
    BY <2>1 DEF OpenLock, Takes, Locking
  <2>2. CASE ReadLock(r)
    BY <2>2 DEF ReadLock, Locking
  <2>3. CASE UnlinkLock(r) \/ NotePid(r)
    BY <2>3 DEF UnlinkLock, NotePid, Locking
  <2>4. CASE CreateLock(r)
    BY <2>4 DEF CreateLock, Takes, Locking
  <2>5. QED  BY <2>1, <2>2, <2>3, <2>4
<1>3. CASE End(r)
  <2>1. Others(r) /\ op'[r].pc = "idle" /\ ~op'[r].failed
    BY <1>3 DEF End, Moved, Others, Idle, TypeInv, TypeOK
  <2>2. QED  BY <1>1, <2>1, ApartWhole
<1>4. ASSUME NEW pc \in Locking \cup {"load"}, Goto(r, pc)
      PROVE  WholeInv'
  <2>1. Others(r)
    BY <1>4 DEF Goto, Moved, Others, TypeInv, TypeOK
  <2>2. QED  BY <1>0, <1>1, <1>4, <2>1, GoneTo, ApartWhole
<1>5. QED  BY <1>2, <1>3, <1>4

LEMMA CrashWhole == ASSUME TypeInv, WholeInv, NEW r \in Runs, Crash(r) PROVE WholeInv'
<1>1. Others(r) /\ op'[r].pc = "idle" /\ ~op'[r].failed
  BY DEF Crash, End, Moved, Others, Idle, TypeInv, TypeOK
<1>2. QED  BY <1>1, ApartWhole DEF Crash

(* Runs that are not past the lock depend on nothing that changes.         *)
LEMMA RestingWhole ==
    ASSUME TypeInv, WholeInv, Inside = {}, UNCHANGED op, World'
    PROVE  WholeInv'
<1>1. ASSUME NEW s \in Runs PROVE Doing(op[s])'
  <2>1. op'[s] = op[s] /\ op[s].pc \in Locking \cup {"idle"} /\ ~op[s].failed
    BY DEF Inside, WholeInv, Doing, Outside
  <2>2. QED
    BY <2>1 DEF Doing, Outside, Closed, Working, Advancing, Retreating, Undoing, Forward, Locking
<1>2. QED  BY <1>1 DEF WholeInv

LEMMA ByHandWhole == ASSUME TypeInv, WholeInv, ReinstallByHand PROVE WholeInv'
<1>1. Inside = {} /\ UNCHANGED op
  BY DEF ReinstallByHand, Inside, At
<1>2. journal \in Journals /\ journal.from # 0 /\ journal.to # 0
  BY UpgradeAssumption DEF TypeInv, TypeOK, Journals
<1>3. World'
  BY <1>2 DEF ReinstallByHand, WholeInv, World, Kept, Calm, Recoverable, Settled, Promised, On, Docked,
     CanRevert, Python
<1>4. QED  BY <1>1, <1>3, RestingWhole

LEMMA WriteWhole ==
    ASSUME Quiet, TypeInv, WholeInv, NEW d \in Databases, Write(d)
    PROVE  WholeInv'
<1>1. PICK n \in 1..MaxWrites :
              /\ files' = [files EXCEPT ![d] = @ \cup {n}]
              /\ written' = [written EXCEPT ![d] = @ \cup {n}]
  BY WriteEffect
<1>2. Settled /\ Inside = {} /\ UNCHANGED <<mode, journal, package, service, op>>
  BY DEF Write
<1>3. files'.env = files.env /\ Kept(files)'
  <2>1. files \in Files /\ Kept(files) /\ written \in [Databases -> SUBSET (1..MaxWrites)]
    BY DEF WholeInv, World, TypeInv, TypeOK
  <2>2. CASE d = "core"
    BY <1>1, <2>1, <2>2 DEF Kept, Files, Databases
  <2>3. CASE d = "experience"
    BY <1>1, <2>1, <2>3 DEF Kept, Files, Databases
  <2>4. QED  BY <2>2, <2>3 DEF Databases
<1>4. World'
  BY <1>2, <1>3 DEF WholeInv, World, Calm, Recoverable, Settled, Promised, On, Docked, Python
<1>5. QED  BY <1>2, <1>4, RestingWhole

LEMMA WholeStep ==
    ASSUME Quiet, TypeInv, Locked, WholeInv, [Next]_vars
    PROVE  WholeInv'
<1>1. ASSUME NEW r \in Runs, Body(r) PROVE WholeInv'
  BY <1>1, BodyWhole, BodyWithin, AloneWhole
<1>2. ASSUME NEW r \in Runs, Step(r) PROVE WholeInv'
  BY <1>1, <1>2, LockingWhole DEF Step, Body
<1>3. ASSUME NEW r \in Runs, StepRaises(r) \/ StopTimesOut(r) \/ UndoRaises(r)
      PROVE  WholeInv'
  BY <1>1, <1>3 DEF Body
<1>4. ASSUME NEW r \in Runs, Crash(r) PROVE WholeInv'
  BY <1>4, CrashWhole
<1>5. CASE ReinstallByHand
  BY <1>5, ByHandWhole
<1>6. ASSUME NEW d \in Databases, Write(d) PROVE WholeInv'
  BY <1>6, WriteWhole
<1>7. CASE UNCHANGED vars
  <2>1. World'
    BY <1>7, SameWorld DEF vars, WholeInv
  <2>2. ASSUME NEW s \in Runs PROVE Doing(op[s])'
    <3>1. Doing(op[s]) /\ op'[s] = op[s]
      BY <1>7 DEF vars, WholeInv
    <3>2. QED
      BY <1>7, <3>1 DEF vars, Doing, Outside, Closed, Working, Advancing, Retreating, Undoing, Forward,
     Locking, Safe, Back, Undoes, On, Docked, Kept, Home, Arrived, Settled, Python
  <2>3. QED  BY <2>1, <2>2 DEF WholeInv
<1>8. QED
  BY <1>2, <1>3, <1>4, <1>5, <1>6, <1>7 DEF Next

LEMMA WholeInit == Init => WholeInv
<1> SUFFICES ASSUME Init PROVE WholeInv
  OBVIOUS
<1>1. World
  BY DEF Init, World, Kept, Calm, Recoverable, Settled, Terminal, Promised, NoJournal, On,
     Docked, Python, Databases
<1>2. \A r \in Runs : Doing(op[r])
  BY DEF Init, Idle, Doing, Outside, Closed, Working, Advancing, Retreating, Undoing, Forward,
     Locking
<1>3. QED  BY <1>1, <1>2 DEF WholeInv

LEMMA WholeHolds == (raced \/ WholeInv) => Whole
  BY DEF WholeInv, World, Kept, Calm, On, Docked, Whole, Databases, Python

(* Whatever raised or died, what the journal calls finished is one version *)
(* with every acknowledged write, in every run without a race for the lock *)
(* whose clients wait for commands and for unfinished operations.          *)
THEOREM FinishedIsWhole ==
    ASSUME Quiet
    PROVE  Spec => []Whole
<1>1. /\ TypeInv /\ (raced \/ Locked) /\ (raced \/ WholeInv) /\ [Next]_vars
      => (raced \/ WholeInv)'
  BY WholeStep, RacedStays
<1>2. QED
  BY <1>1, WholeInit, WholeHolds, TypeAlways, LockedAlways, PTL DEF Spec
=============================================================================
