---------------------------- MODULE BrainOutcomes ----------------------------
(***************************************************************************)
(* Verified outcomes of one Brain and their copies in the private          *)
(* experience database (src/wavemind/brain/experience_bridge.py).          *)
(*                                                                         *)
(* The Brain database and the private one are two SQLite files.  An        *)
(* outcome that is verified is queued in the outbox; drain_outbox works    *)
(* off a batch of the queue inside one write transaction of the Brain      *)
(* database, while what it does to the private database is committed at    *)
(* once.  So a crash, or an error of one operation, undoes the first and   *)
(* leaves the second, and another process reads the old Brain next to the  *)
(* new private data.                                                       *)
(*                                                                         *)
(* A scope is a private namespace: one procedure on one basis, shared by   *)
(* all outcomes that report it.  Private data are removed by scope.  Every *)
(* outcome here is of a run of its own, has a procedure and cites one      *)
(* source as evidence; so none is a replay or incomplete.                  *)
(***************************************************************************)
EXTENDS Naturals, FiniteSets

CONSTANTS
    Outcomes, Scopes, Sources,
    ScopeOf,       \* private_scope: the namespace of an outcome
    GroundOf,      \* the source the basis of a scope rests on
    CitedBy,       \* the source an outcome cites as its evidence
    Limit,         \* most operations of one drain
    MaxChanges,    \* bounds changes of sources, claims, members and the gate
    MaxFaults      \* bounds crashes and errors of the private database

ASSUME OutcomesAssumption ==
    /\ IsFiniteSet(Outcomes)
    /\ ScopeOf \in [Outcomes -> Scopes]
    /\ GroundOf \in [Scopes -> Sources]
    /\ CitedBy \in [Outcomes -> Sources]
    /\ Limit \in Nat \ {0} /\ MaxChanges \in Nat /\ MaxFaults \in Nat

(* What happens to a source: the kinds of its operations in the outbox.    *)
Events == {"deleted", "revoked", "updated", "access_changed"}

(* When the claims of a basis apply: they are still to come, or are over.  *)
Eras == {"ahead", "current", "over"}

VARIABLES
    source,        \* Brain: status of each source
    ground,        \* Brain: the claims of each basis: approved as they were,
                   \* rejected, or replaced for good
    era,           \* the time, against the validity of each basis
    packet,        \* Brain: the context packet each outcome reports on
    status,        \* Brain: the outcomes
    attested,      \* Brain: outcomes whose verification is recorded
    barred,        \* Brain: outcomes whose verifier lost the right to verify
    gated,         \* Brain: context verification is pending
    db,            \* Brain: what a drain changes, as committed
    draft,         \* the same in the transaction of the drain
    draining,      \* a drain holds the write lock of the Brain
    batch,         \* its operations still to do
    verdict,       \* whether the outcome to integrate at hand is eligible
    private,       \* the private database: how much of each outcome's run
    torn,          \* history: outcomes whose run a drain has purged that did
                   \* not commit their retirement, until it is whole again
    changes, faults

brain == <<source, ground, packet, status, attested, barred, gated>>
drain == <<draining, batch, verdict>>
vars == <<brain, era, db, draft, drain, private, torn, changes, faults>>

Operations == [kind : Events \cup {"integrate"}, of : Sources \cup Outcomes,
               at : Nat]

Ledgers == [integration : [Outcomes -> {"unverified", "pending", "completed",
                                        "blocked", "purged"}],
            linked : SUBSET Outcomes,
            outbox : SUBSET Operations]

(* Between two drains nothing of a drain is left open.                     *)
TypeOK ==
    /\ source \in [Sources -> {"active", "revoked", "deleted"}]
    /\ ground \in [Scopes -> {"approved", "rejected", "replaced"}]
    /\ era \in [Scopes -> Eras]
    /\ packet \in [Outcomes -> {"none", "active", "revoked", "erased"}]
    /\ status \in [Outcomes ->
                      {"none", "unverified", "verified", "revoked", "erased"}]
    /\ attested \subseteq Outcomes /\ barred \subseteq Outcomes
    /\ gated \in BOOLEAN /\ draining \in BOOLEAN
    /\ db \in Ledgers /\ draft \in Ledgers
    /\ batch \subseteq db.outbox
    /\ verdict \in {"open", "eligible", "ineligible"}
    /\ ~draining => batch = {} /\ draft = db
    /\ batch = {} => verdict = "open"
    /\ private \in [Outcomes -> {"none", "partial", "whole"}]
    /\ torn \subseteq Outcomes
    /\ changes \in 0..MaxChanges /\ faults \in 0..MaxFaults

Init ==
    /\ source = [s \in Sources |-> "active"]
    /\ ground = [n \in Scopes |-> "approved"]
    /\ era \in [Scopes -> Eras]
    /\ packet = [o \in Outcomes |-> "none"]
    /\ status = [o \in Outcomes |-> "none"]
    /\ attested = {} /\ barred = {} /\ gated = FALSE
    /\ db = [integration |-> [o \in Outcomes |-> "unverified"],
             linked |-> {}, outbox |-> {}]
    /\ draft = db
    /\ draining = FALSE /\ batch = {} /\ verdict = "open"
    /\ private = [o \in Outcomes |-> "none"]
    /\ torn = {}
    /\ changes = 0 /\ faults = 0

Within(n) == {o \in Outcomes : ScopeOf[o] = n}

Bad == {"revoked", "erased"}

(* _scope_dirty: scopes with a contributor that was revoked or erased.     *)
Dirty(d) == {ScopeOf[o] : o \in {p \in d.linked : status[p] \in Bad}}

(* The sources an outcome is registered to depend on.                      *)
Origins(o) == {CitedBy[o], GroundOf[ScopeOf[o]]}

(* authorize_record and resolve_citation.                                  *)
Readable(o) == \A s \in Origins(o) : source[s] = "active"

(* created_at of the next operation: later than all that wait.             *)
Now == changes + Cardinality(attested)

(* A write transaction of the Brain, which waits for a drain to end.       *)
Write == ~draining /\ UNCHANGED <<era, drain, private, torn, faults>>

Change == /\ Write /\ changes < MaxChanges
          /\ changes' = changes + 1

-----------------------------------------------------------------------------
(* build_context and begin_action: a context may be asked for a moment at  *)
(* which its claims apply, whatever the time is.                           *)
BeginAction(o) ==
    /\ Write
    /\ packet[o] = "none" /\ ground[ScopeOf[o]] = "approved" /\ ~gated
    /\ packet' = [packet EXCEPT ![o] = "active"]
    /\ UNCHANGED <<source, ground, status, attested, barred, gated, db, draft,
                   changes>>

(* A report is taken on an old packet too, as history.                     *)
RecordOutcome(o) ==
    /\ Write
    /\ packet[o] \in {"active", "revoked"} /\ status[o] = "none"
    /\ Readable(o)
    /\ status' = [status EXCEPT ![o] = "unverified"]
    /\ UNCHANGED <<source, ground, packet, attested, barred, gated, db, draft,
                   changes>>

(* The outcome waits for integration and is mapped to its scope already,   *)
(* so that whatever a drain will have written there can be found again.    *)
Queue(o) ==
    [db EXCEPT !.integration[o] = "pending",
               !.linked = @ \cup {o},
               !.outbox = @ \cup {[kind |-> "integrate", of |-> o, at |-> Now]}]

(* _verify: given once, also to an outcome that was revoked before it, and *)
(* refused ("cleanup_pending") while the scope waits to be cleaned.        *)
VerifyOutcome(o) ==
    /\ Write
    /\ status[o] \in {"unverified", "revoked"} /\ o \notin attested
    /\ Readable(o)
    /\ ScopeOf[o] \notin Dirty(db)
    /\ status' = [status EXCEPT ![o] = "verified"]
    /\ attested' = attested \cup {o}
    /\ db' = Queue(o) /\ draft' = db'
    /\ UNCHANGED <<source, ground, packet, barred, gated, changes>>

-----------------------------------------------------------------------------
(* The invalidation of everything that rests on a set of outcomes' packets *)
(* or on their evidence.                                                   *)
Invalidate(packets, outcomes, mark) ==
    /\ packet' = [o \in Outcomes |->
                     IF o \in packets /\ packet[o] \notin {"none", "erased"}
                     THEN mark ELSE packet[o]]
    /\ status' = [o \in Outcomes |->
                     IF o \in outcomes /\ status[o] \notin {"none", "erased"}
                     THEN mark ELSE status[o]]

(* change_source, set_source_access and the import of a new version, with  *)
(* invalidate_source: a deletion erases what rests on the source, anything *)
(* else revokes it, and the outbox is told.  A change of access leaves the *)
(* claims as they were, so the same basis may be used again.               *)
ChangeSource(s, event) ==
    /\ Change
    /\ \/ source[s] = "active"
       \/ source[s] = "revoked" /\ event = "deleted"
    /\ source' = IF event \in {"deleted", "revoked"}
                 THEN [source EXCEPT ![s] = event] ELSE source
    /\ ground' = [n \in Scopes |->
                     IF GroundOf[n] = s /\ event # "access_changed"
                     THEN "replaced" ELSE ground[n]]
    /\ Invalidate({o \in Outcomes : GroundOf[ScopeOf[o]] = s},
                  {o \in Outcomes : s \in Origins(o)},
                  IF event = "deleted" THEN "erased" ELSE "revoked")
    /\ db' = [db EXCEPT !.outbox =
                 @ \cup {[kind |-> event, of |-> s, at |-> Now]}]
    /\ draft' = db'
    /\ UNCHANGED <<attested, barred, gated>>

(* review_claims(reject), with invalidate_dependents: what rests on the    *)
(* claim is revoked, and the outbox is not told.                           *)
RejectClaim(n) ==
    /\ Change
    /\ ground[n] = "approved"
    /\ ground' = [ground EXCEPT ![n] = "rejected"]
    /\ Invalidate(Within(n), Within(n), "revoked")
    /\ UNCHANGED <<source, attested, barred, gated, db, draft>>

(* review_claims(approve) of the same claims: the basis is what it was.    *)
ApproveClaim(n) ==
    /\ Change
    /\ ground[n] = "rejected"
    /\ ground' = [ground EXCEPT ![n] = "approved"]
    /\ UNCHANGED <<source, packet, status, attested, barred, gated, db, draft>>

(* set_member: the verifier of an outcome is no owner any more.            *)
BarVerifier(o) ==
    /\ Change
    /\ o \in attested \ barred
    /\ barred' = barred \cup {o}
    /\ UNCHANGED <<source, ground, packet, status, attested, gated, db, draft>>

(* mark_context_pending: a graph over the dependency limit was met.        *)
CloseGate ==
    /\ Change
    /\ ~gated /\ gated' = TRUE
    /\ UNCHANGED <<source, ground, packet, status, attested, barred, db, draft>>

(* recheck_dependencies finds the graph within the limit.                  *)
LiftGate ==
    /\ Write /\ UNCHANGED changes
    /\ gated /\ gated' = FALSE
    /\ UNCHANGED <<source, ground, packet, status, attested, barred, db, draft>>

(* Time passes, also while a drain is at work.                             *)
Tick(n) ==
    /\ \/ era[n] = "ahead" /\ era' = [era EXCEPT ![n] = "current"]
       \/ era[n] = "current" /\ era' = [era EXCEPT ![n] = "over"]
    /\ UNCHANGED <<brain, db, draft, drain, private, torn, changes, faults>>

-----------------------------------------------------------------------------
(* Mistake: operations in the order of their creation only.                *)
BeforeByTime(p, q) == p.at < q.at

(* The order of the queue: what happened to sources comes first.           *)
Before(p, q) ==
    \/ p.kind # "integrate" /\ q.kind = "integrate"
    \/ (p.kind = "integrate") = (q.kind = "integrate") /\ p.at < q.at

(* The first operations of the queue, as many as a drain asks for.         *)
Batch(limit) == {p \in db.outbox :
                    Cardinality({q \in db.outbox : Before(q, p)}) < limit}

StartDrain ==
    /\ ~draining /\ db.outbox # {}
    /\ draining' = TRUE /\ \E limit \in 1..Limit : batch' = Batch(limit)
    /\ UNCHANGED <<brain, era, db, draft, verdict, private, torn, changes, faults>>

IsNext(op) == /\ draining /\ op \in batch
              /\ \A q \in batch \ {op} : Before(op, q)

Leave(op) == batch' = batch \ {op} /\ verdict' = "open"

(* live_basis at this moment: the packet is active, its basis unchanged    *)
(* and valid, no gate.                                                     *)
Live(o) == /\ packet[o] = "active" /\ ground[ScopeOf[o]] = "approved"
           /\ era[ScopeOf[o]] = "current"
           /\ ~gated

Eligible(d, o) == status[o] = "verified" /\ Live(o) /\ o \in d.linked

(* The scopes an operation empties: an event cleans all dirty ones, an     *)
(* outcome that may not be integrated its own.                             *)
ToPurge(d, op) ==
    IF op.kind # "integrate" THEN Dirty(d)
    ELSE {ScopeOf[o] : o \in {op.of} \cap d.linked}

(* require_access of the verifier fails, or the scope is to be cleaned.    *)
Refused(op) ==
    /\ op.kind = "integrate" /\ status[op.of] = "verified"
    /\ op.of \in barred \/ ScopeOf[op.of] \in Dirty(draft)

Handles(op) == IsNext(op) /\ op \in draft.outbox /\ ~Refused(op)

(* An outcome is found eligible or not before anything is done about it.   *)
Judge(op) ==
    /\ Handles(op) /\ op.kind = "integrate" /\ verdict = "open"
    /\ verdict' = IF Eligible(draft, op.of) THEN "eligible" ELSE "ineligible"
    /\ UNCHANGED <<brain, era, db, draft, draining, batch, private, torn, changes,
                   faults>>

(* What it is about is to be purged: an event, or an ineligible outcome.   *)
Purges(op) == /\ Handles(op)
              /\ op.kind = "integrate" => verdict = "ineligible"

(* An operation that an earlier purge of the batch has retired.            *)
SkipRetired(op) ==
    /\ IsNext(op) /\ op \notin draft.outbox
    /\ Leave(op)
    /\ UNCHANGED <<brain, era, db, draft, draining, private, torn, changes, faults>>

(* PrivateRuntime.purge: one transaction of the private database.          *)
PurgePrivate(op, n) ==
    /\ Purges(op) /\ n \in ToPurge(draft, op)
    /\ \E o \in Within(n) : private[o] # "none"
    /\ private' = [o \in Outcomes |->
                      IF ScopeOf[o] = n THEN "none" ELSE private[o]]
    /\ torn' = torn \cup {o \in Within(n) : private[o] # "none"}
    /\ UNCHANGED <<brain, era, db, draft, drain, changes, faults>>

(* _retire_scope: the outcomes mapped to these scopes are purged, their    *)
(* operations done and the mappings forgotten.                             *)
Retire(N) ==
    LET gone == {o \in draft.linked : ScopeOf[o] \in N} IN
    [integration |-> [o \in Outcomes |->
                         IF o \in gone /\ status[o] # "erased"
                         THEN "purged" ELSE draft.integration[o]],
     linked |-> draft.linked \ gone,
     outbox |-> {q \in draft.outbox :
                    ~(q.kind = "integrate" /\ q.of \in gone)}]

(* Mistake: an error of the private database counts as a purge.            *)
FinishPurgeAnyway(op) ==
    /\ Purges(op)
    /\ LET done == Retire(ToPurge(draft, op)) IN
       draft' = [done EXCEPT
          !.outbox = @ \ {op},
          !.integration =
             IF op.kind = "integrate" /\ status[op.of] # "erased"
             THEN [@ EXCEPT ![op.of] = "blocked"] ELSE @]
    /\ Leave(op)
    /\ UNCHANGED <<brain, era, db, draining, private, torn, changes, faults>>

(* The scopes are empty: an event is done, an outcome is blocked.          *)
FinishPurge(op) ==
    /\ Purges(op)
    /\ \A o \in Outcomes :
          ScopeOf[o] \in ToPurge(draft, op) => private[o] = "none"
    /\ LET done == Retire(ToPurge(draft, op)) IN
       draft' = [done EXCEPT
          !.outbox = @ \ {op},
          !.integration =
             IF op.kind = "integrate" /\ status[op.of] # "erased"
             THEN [@ EXCEPT ![op.of] = "blocked"] ELSE @]
    /\ Leave(op)
    /\ UNCHANGED <<brain, era, db, draining, private, torn, changes, faults>>

(* PrivateRuntime.integrate: events first, then the run is finalized, each *)
(* a commit; what an earlier attempt wrote is found by its id and kept.    *)
Integrate(op) ==
    /\ Handles(op) /\ verdict = "eligible"
    /\ private[op.of] # "whole"
    /\ private' = [private EXCEPT ![op.of] =
                      IF @ = "none" THEN "partial" ELSE "whole"]
    /\ torn' = IF private'[op.of] = "whole" THEN torn \ {op.of} ELSE torn
    /\ UNCHANGED <<brain, era, db, draft, drain, changes, faults>>

(* Mistake: events found from an earlier attempt count as its integration. *)
AcknowledgePartial(op) ==
    /\ Handles(op) /\ verdict = "eligible"
    /\ private[op.of] # "none"
    /\ draft' = [draft EXCEPT !.integration[op.of] = "completed",
                              !.outbox = @ \ {op}]
    /\ Leave(op)
    /\ UNCHANGED <<brain, era, db, draining, private, torn, changes, faults>>

(* _acknowledge.                                                           *)
Acknowledge(op) ==
    /\ Handles(op) /\ verdict = "eligible"
    /\ private[op.of] = "whole"
    /\ draft' = [draft EXCEPT !.integration[op.of] = "completed",
                              !.outbox = @ \ {op}]
    /\ Leave(op)
    /\ UNCHANGED <<brain, era, db, draining, private, torn, changes, faults>>

(* The operation is refused, or the private database raises at any point:  *)
(* back to the savepoint, and the operation stays in the queue.            *)
Raise(op) ==
    /\ IsNext(op) /\ op \in draft.outbox
    /\ \/ Refused(op) /\ UNCHANGED faults
       \/ ~Refused(op) /\ faults < MaxFaults /\ faults' = faults + 1
    /\ Leave(op)
    /\ UNCHANGED <<brain, era, db, draft, draining, private, torn, changes>>

Commit ==
    /\ draining /\ batch = {}
    /\ db' = draft /\ draining' = FALSE
    /\ torn' = torn \cap draft.linked
    /\ UNCHANGED <<brain, era, draft, batch, verdict, private, changes, faults>>

(* The process dies in a drain, or its commit fails.                       *)
Crash ==
    /\ draining /\ faults < MaxFaults
    /\ draft' = db /\ draining' = FALSE /\ batch' = {} /\ verdict' = "open"
    /\ faults' = faults + 1
    /\ UNCHANGED <<brain, era, db, private, torn, changes>>

Drain(op) ==
    \/ SkipRetired(op) \/ Judge(op) \/ FinishPurge(op) \/ Integrate(op)
    \/ Acknowledge(op) \/ Raise(op)
    \/ \E n \in Scopes : PurgePrivate(op, n)

Next ==
    \/ \E o \in Outcomes : \/ BeginAction(o) \/ RecordOutcome(o)
                           \/ VerifyOutcome(o) \/ BarVerifier(o)
    \/ \E s \in Sources, event \in Events : ChangeSource(s, event)
    \/ \E n \in Scopes : RejectClaim(n) \/ ApproveClaim(n) \/ Tick(n)
    \/ CloseGate \/ LiftGate
    \/ StartDrain \/ Commit \/ Crash
    \/ \E op \in batch : Drain(op)

Spec == Init /\ [][Next]_vars

(* BrainMaintenance drains every second, and a drain goes on by itself.    *)
FairSpec ==
    /\ Spec
    /\ WF_vars(StartDrain) /\ WF_vars(Commit)
    /\ WF_vars(\E op \in batch : Drain(op))

-----------------------------------------------------------------------------
(* An erased outcome has private data only as long as the deletion of a    *)
(* source it rests on waits in the outbox: the cleanup that delete reports *)
(* completed is complete, whatever crashes and errors came before, and     *)
(* nothing of the outcome comes back ("Inspect cleanup_pending until       *)
(* actual cleanup reports purged", docs/brain/personal.md).                *)
ErasureHonest ==
    \A o \in Outcomes : status[o] = "erased" /\ private[o] # "none" =>
        \E op \in db.outbox : op.kind = "deleted" /\ op.of \in Origins(o)

(* Mistake: only the outcomes whose integration is acknowledged are asked.  *)
ServedByNamed(n) ==
    LET links == {o \in db.linked : ScopeOf[o] = n
                                     /\ db.integration[o] = "completed"} IN
    /\ links # {}
    /\ \A o \in links : status[o] = "verified" /\ Live(o)
    /\ \E o \in Within(n) : private[o] = "whole"

(* What _procedures serves to another process, which reads the committed   *)
(* Brain and the private database as it is now.                            *)
Served(n) ==
    LET links == {o \in db.linked : ScopeOf[o] = n} IN
    /\ \E o \in links : db.integration[o] = "completed"
    /\ \A o \in links : /\ status[o] = "verified" /\ Live(o)
                        /\ db.integration[o] = "completed"
    /\ \E o \in Within(n) : private[o] = "whole"

(* A procedure that is served owes its standing to verified, acknowledged  *)
(* outcomes only: no run that is still in the hands of a drain, was left   *)
(* by a crash, or was revoked adds to it.                                  *)
ServedBacked ==
    \A n \in Scopes : Served(n) =>
        \A o \in Within(n) : private[o] # "none" =>
            /\ o \in db.linked /\ status[o] = "verified"
            /\ db.integration[o] = "completed"

(* What an outcome says of its integration is so: purged data are gone for *)
(* ever, and the run of what was completed is there, unless a drain purged *)
(* it and did not come to commit that (a crash undoes the ledger and not   *)
(* the purge, and the next drain may find the outcomes eligible again).    *)
IntegrationTrue ==
    \A o \in Outcomes :
        /\ db.integration[o] = "purged" => private[o] = "none"
        /\ db.integration[o] = "completed" /\ status[o] = "verified" =>
              private[o] = "whole" \/ o \in torn

(* The same without the exception: between drains, what was completed is   *)
(* there while the outbox has nothing left to do.                          *)
CompletedIsThere ==
    \A o \in Outcomes :
        /\ ~draining /\ db.outbox = {}
        /\ db.integration[o] = "completed" /\ status[o] = "verified"
        => private[o] = "whole"

(* A deletion is carried out in the end, behind any number of operations   *)
(* that always fail.                                                       *)
ErasureCompletes ==
    \A s \in Sources :
        (\E op \in db.outbox : op.kind = "deleted" /\ op.of = s)
        ~> ~(\E op \in db.outbox : op.kind = "deleted" /\ op.of = s)

(* A scope that is to be cleaned is cleaned in the end, so that an outcome *)
(* refused with cleanup_pending can be verified later.                     *)
DirtyCleaned ==
    \A n \in Scopes : n \in Dirty(db) ~> n \notin Dirty(db)

(* An outcome that is verified does not wait for integration for ever.     *)
Settled ==
    \A o \in Outcomes :
        (\E op \in db.outbox : op.kind = "integrate" /\ op.of = o) ~>
            \/ o \in barred
            \/ ~(\E op \in db.outbox : op.kind = "integrate" /\ op.of = o)
=============================================================================
