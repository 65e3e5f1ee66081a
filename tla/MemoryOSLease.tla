---------------------------- MODULE MemoryOSLease ----------------------------
(***************************************************************************)
(* Runs of the Memory OS worker that share one Redis (src/wavemind/jobs.py): *)
(* RedisMemoryOSLock, a lease with a heartbeat per namespace,              *)
(* RedisMemoryOSJobGuard, a receipt per job, and what MemoryOSWorker's     *)
(* run_once does with both around the maintenance work.                    *)
(*                                                                         *)
(* Every run has an owner of its own (a fresh uuid); a retry is another    *)
(* run of the same job, and a run without an idempotency key is the only   *)
(* run of its job.  The Redis scripts and SET NX are atomic.  Time is not  *)
(* counted: a lease whose holder does not beat may run out at any moment,  *)
(* one whose holder beats only when its beats come late; a beat that finds *)
(* its lease renews it and changes nothing else here.                      *)
(***************************************************************************)
EXTENDS Naturals

CONSTANTS
    Runs, Jobs, Namespaces,
    All,           \* the namespace of a run over all namespaces
    JobOf, NamespaceOf,
    Late,          \* runs whose lease may run out although they beat
    Faulty,        \* runs whose calls to Redis may raise
    Nobody, Done

LockKeys == Namespaces \cup {All}

ASSUME RunsAssumption ==
    /\ JobOf \in [Runs -> Jobs]
    /\ NamespaceOf \in [Runs -> LockKeys]
    /\ Late \subseteq Runs /\ Faulty \subseteq Runs
    /\ Nobody \notin Runs \cup {Done} /\ Done \notin Runs

VARIABLES
    pc,            \* where run_once stands
    acquired,      \* RedisMemoryOSLock.acquired
    beating,       \* the heartbeat thread is alive
    lock,          \* Redis: the owner of each lock key
    receipt,       \* Redis: who claimed each job, or Done
    finished       \* runs that did all the work, while the receipt lives

leaseVars == <<pc, acquired, beating, lock, receipt, finished>>

(* Between claim and release; the work is done in "working".               *)
Claimed == {"working", "worked", "failing"}

LeaseTypeOK ==
    /\ pc \in [Runs -> Claimed \cup
                  {"ready", "locked", "releasing", "ended", "raised", "dead"}]
    /\ acquired \in [Runs -> BOOLEAN]
    /\ beating \in [Runs -> BOOLEAN]
    /\ lock \in [LockKeys -> Runs \cup {Nobody}]
    /\ receipt \in [Jobs -> Runs \cup {Nobody, Done}]
    /\ finished \subseteq Runs

Goto(r, place) == pc' = [pc EXCEPT ![r] = place]

Holds(r) == lock[NamespaceOf[r]] = r

SetLock(r, owner) == lock' = [lock EXCEPT ![NamespaceOf[r]] = owner]

SetReceipt(r, value) == receipt' = [receipt EXCEPT ![JobOf[r]] = value]

-----------------------------------------------------------------------------
LeaseInit ==
    /\ pc = [r \in Runs |-> "ready"]
    /\ acquired = [r \in Runs |-> FALSE]
    /\ beating = [r \in Runs |-> FALSE]
    /\ lock = [n \in LockKeys |-> Nobody]
    /\ receipt = [j \in Jobs |-> Nobody]
    /\ finished = {}

(* Mistake: without NX, an acquire takes the key from whoever has it.      *)
AcquireAnyway(r) ==
    /\ pc[r] = "ready"
    /\ SetLock(r, r)
    /\ acquired' = [acquired EXCEPT ![r] = TRUE]
    /\ beating' = [beating EXCEPT ![r] = TRUE]
    /\ Goto(r, "locked")
    /\ UNCHANGED <<receipt, finished>>

(* acquire and start_heartbeat.                                            *)
Acquire(r) ==
    /\ pc[r] = "ready"
    /\ lock[NamespaceOf[r]] = Nobody
    /\ SetLock(r, r)
    /\ acquired' = [acquired EXCEPT ![r] = TRUE]
    /\ beating' = [beating EXCEPT ![r] = TRUE]
    /\ Goto(r, "locked")
    /\ UNCHANGED <<receipt, finished>>

(* "lock_already_held": the run ends without touching anything.            *)
SkipLocked(r) ==
    /\ pc[r] = "ready"
    /\ lock[NamespaceOf[r]] # Nobody
    /\ Goto(r, "ended")
    /\ UNCHANGED <<acquired, beating, lock, receipt, finished>>

(* Redis raises in acquire, before or after it set the key.                *)
AcquireRaises(r) ==
    /\ r \in Faulty
    /\ pc[r] = "ready"
    /\ \/ lock' = lock
       \/ lock[NamespaceOf[r]] = Nobody /\ SetLock(r, r)
    /\ Goto(r, "raised")
    /\ UNCHANGED <<acquired, beating, receipt, finished>>

(* Mistake: a receipt that is not completed is claimed again.              *)
ClaimRunning(r) ==
    /\ pc[r] = "locked"
    /\ receipt[JobOf[r]] # Done
    /\ SetReceipt(r, r)
    /\ Goto(r, "working")
    /\ UNCHANGED <<acquired, beating, lock, finished>>

(* Mistake: whoever claims gets the receipt, completed or not.             *)
ClaimAnyway(r) ==
    /\ pc[r] = "locked"
    /\ SetReceipt(r, r)
    /\ Goto(r, "working")
    /\ UNCHANGED <<acquired, beating, lock, finished>>

Claim(r) ==
    /\ pc[r] = "locked"
    /\ receipt[JobOf[r]] = Nobody
    /\ SetReceipt(r, r)
    /\ Goto(r, "working")
    /\ UNCHANGED <<acquired, beating, lock, finished>>

(* The job is running or completed: "duplicate_job_skipped".               *)
SkipDuplicate(r) ==
    /\ pc[r] = "locked"
    /\ receipt[JobOf[r]] # Nobody
    /\ Goto(r, "releasing")
    /\ UNCHANGED <<acquired, beating, lock, receipt, finished>>

(* Redis raises in claim, outside the try block: nothing is released and   *)
(* the heartbeat thread beats on.                                          *)
ClaimRaises(r) ==
    /\ r \in Faulty
    /\ pc[r] = "locked"
    /\ \/ receipt' = receipt
       \/ receipt[JobOf[r]] = Nobody /\ SetReceipt(r, r)
    /\ Goto(r, "raised")
    /\ UNCHANGED <<acquired, beating, lock, finished>>

-----------------------------------------------------------------------------
(* _run_once_locked returns.                                               *)
Work(r) ==
    /\ pc[r] = "working"
    /\ finished' = finished \cup {r}
    /\ Goto(r, "worked")
    /\ UNCHANGED <<acquired, beating, lock, receipt>>

(* _run_once_locked raises, with some of the work done.                    *)
WorkRaises(r) ==
    /\ pc[r] = "working"
    /\ Goto(r, "failing")
    /\ UNCHANGED <<acquired, beating, lock, receipt, finished>>

(* complete marks an own receipt as completed.                             *)
Complete(r) ==
    /\ pc[r] = "worked"
    /\ SetReceipt(r, IF receipt[JobOf[r]] = r THEN Done ELSE receipt[JobOf[r]])
    /\ Goto(r, "releasing")
    /\ UNCHANGED <<acquired, beating, lock, finished>>

(* Redis raises in complete, before or after the receipt was changed.      *)
CompleteRaises(r) ==
    /\ r \in Faulty
    /\ pc[r] = "worked"
    /\ \/ receipt' = receipt
       \/ receipt[JobOf[r]] = r /\ SetReceipt(r, Done)
    /\ Goto(r, "failing")
    /\ UNCHANGED <<acquired, beating, lock, finished>>

(* The except branch: fail takes an own receipt back, then release.        *)
Fail(r) ==
    /\ pc[r] = "failing"
    /\ SetReceipt(r, IF receipt[JobOf[r]] = r THEN Nobody ELSE receipt[JobOf[r]])
    /\ Goto(r, "releasing")
    /\ UNCHANGED <<acquired, beating, lock, finished>>

(* Redis raises in fail: release is never reached.                         *)
FailRaises(r) ==
    /\ r \in Faulty
    /\ pc[r] = "failing"
    /\ \/ receipt' = receipt
       \/ receipt[JobOf[r]] = r /\ SetReceipt(r, Nobody)
    /\ Goto(r, "raised")
    /\ UNCHANGED <<acquired, beating, lock, finished>>

(* Mistake: the key is deleted whoever owns it.                            *)
ReleaseUnchecked(r) ==
    /\ pc[r] = "releasing"
    /\ beating' = [beating EXCEPT ![r] = FALSE]
    /\ acquired' = [acquired EXCEPT ![r] = FALSE]
    /\ SetLock(r, IF acquired[r] THEN Nobody ELSE lock[NamespaceOf[r]])
    /\ Goto(r, "ended")
    /\ UNCHANGED <<receipt, finished>>

(* Mistake: the run ends without its release.                              *)
ReleaseForgotten(r) ==
    /\ pc[r] = "releasing"
    /\ Goto(r, "ended")
    /\ UNCHANGED <<acquired, beating, lock, receipt, finished>>

(* release: the heartbeat is stopped first, the key deleted if still owned. *)
Release(r) ==
    /\ pc[r] = "releasing"
    /\ beating' = [beating EXCEPT ![r] = FALSE]
    /\ acquired' = [acquired EXCEPT ![r] = FALSE]
    /\ SetLock(r, IF acquired[r] /\ Holds(r) THEN Nobody ELSE lock[NamespaceOf[r]])
    /\ Goto(r, "ended")
    /\ UNCHANGED <<receipt, finished>>

ReleaseRaises(r) ==
    /\ r \in Faulty
    /\ pc[r] = "releasing"
    /\ acquired[r]
    /\ beating' = [beating EXCEPT ![r] = FALSE]
    /\ \/ lock' = lock
       \/ Holds(r) /\ SetLock(r, Nobody)
    /\ Goto(r, "raised")
    /\ UNCHANGED <<acquired, receipt, finished>>

-----------------------------------------------------------------------------
(* A beat that no longer finds its lease ends the heartbeat; the run is    *)
(* not told.                                                               *)
RefreshLost(r) ==
    /\ beating[r]
    /\ ~Holds(r)
    /\ acquired' = [acquired EXCEPT ![r] = FALSE]
    /\ beating' = [beating EXCEPT ![r] = FALSE]
    /\ UNCHANGED <<pc, lock, receipt, finished>>

(* Redis raises in a beat: the thread dies and nobody is told.             *)
RefreshRaises(r) ==
    /\ r \in Faulty
    /\ beating[r]
    /\ beating' = [beating EXCEPT ![r] = FALSE]
    /\ UNCHANGED <<pc, acquired, lock, receipt, finished>>

(* The process of the run dies.                                            *)
RunDies(r) ==
    /\ pc[r] \notin {"ready", "ended", "dead"}
    /\ Goto(r, "dead")
    /\ beating' = [beating EXCEPT ![r] = FALSE]
    /\ UNCHANGED <<acquired, lock, receipt, finished>>

(* Redis drops a lease that was not renewed in time.                       *)
LockExpires(n) ==
    /\ lock[n] # Nobody
    /\ beating[lock[n]] => lock[n] \in Late
    /\ lock' = [lock EXCEPT ![n] = Nobody]
    /\ UNCHANGED <<pc, acquired, beating, receipt, finished>>

(* Redis drops a receipt, a day old by default; no run takes that long.    *)
ReceiptExpires(j) ==
    /\ receipt[j] # Nobody
    /\ receipt[j] \in Runs => pc[receipt[j]] \notin Claimed
    /\ receipt' = [receipt EXCEPT ![j] = Nobody]
    /\ finished' = {r \in finished : JobOf[r] # j}
    /\ UNCHANGED <<pc, acquired, beating, lock>>

RunStep(r) ==
    \/ Acquire(r) \/ SkipLocked(r) \/ Claim(r) \/ SkipDuplicate(r)
    \/ Work(r) \/ Complete(r) \/ Fail(r) \/ Release(r)

Mishap(r) ==
    \/ AcquireRaises(r) \/ ClaimRaises(r) \/ WorkRaises(r) \/ CompleteRaises(r)
    \/ FailRaises(r) \/ ReleaseRaises(r) \/ RefreshLost(r) \/ RefreshRaises(r)
    \/ RunDies(r)

LeaseNext ==
    \/ \E r \in Runs : RunStep(r) \/ Mishap(r)
    \/ \E n \in LockKeys : LockExpires(n)
    \/ \E j \in Jobs : ReceiptExpires(j)

LeaseSpec == LeaseInit /\ [][LeaseNext]_leaseVars

(* The run-out of a lease that nobody renews.                              *)
LeaseRunsOut(n) ==
    /\ lock[n] # Nobody
    /\ ~beating[lock[n]]
    /\ LockExpires(n)

(* Running threads go on, and Redis drops a lease nobody renews.           *)
LeaseFairSpec ==
    /\ LeaseSpec
    /\ \A r \in Runs : WF_leaseVars(RunStep(r))
    /\ \A n \in LockKeys : WF_leaseVars(LeaseRunsOut(n))

-----------------------------------------------------------------------------
Overlap(r, s) ==
    \/ NamespaceOf[r] = NamespaceOf[s]
    \/ All \in {NamespaceOf[r], NamespaceOf[s]}

(* Runs Redis answers and whose heartbeats are in time.                    *)
Sound == Runs \ (Late \cup Faulty)

(* No two of them do maintenance work on the same namespace at a time,     *)
(* whatever other runs do to the lease.                                    *)
OneMutator ==
    \A r, s \in Sound :
        pc[r] = "working" /\ pc[s] = "working" /\ Overlap(r, s) => r = s

(* Whatever happens to leases, two runs of one job never work at a time.   *)
OneRunOfJob ==
    \A r, s \in Runs :
        pc[r] = "working" /\ pc[s] = "working" /\ JobOf[r] = JobOf[s] => r = s

(* As long as its receipt lives, the work of a job is finished once by the *)
(* runs Redis answers, however late they beat.                             *)
DoneOnce ==
    \A r, s \in finished \ Faulty : JobOf[r] = JobOf[s] => r = s

(* Only its holder's own step, or the clock, ends a lease: a late run that *)
(* refreshes, releases or acquires never takes the next holder's away.     *)
LeaseKept ==
    [][\A n \in LockKeys, r \in Runs :
          lock[n] = r /\ lock'[n] # r => \A s \in Runs \ {r} : pc'[s] = pc[s]]_leaseVars

(* A held lease is given back or runs out, so the next run gets its turn:  *)
(* that of any run, and that of a run Redis answers.                       *)
Freed(r) == \A n \in LockKeys : lock[n] = r ~> lock[n] # r
AlwaysFreed == \A r \in Runs : Freed(r)
LockFreed == \A r \in Runs \ Faulty : Freed(r)

=============================================================================
