-------------------------- MODULE ActiveActiveSync --------------------------
(***************************************************************************)
(* Active-active sync of one namespace between regions: each region is a   *)
(* ReplicatedWaveMind of its own, and ActiveActiveSyncWorker               *)
(* (src/wavemind/jobs.py) copies deltas pair by pair, from the cursor the  *)
(* last delta of the pair returned (export_namespace_delta and             *)
(* import_namespace_delta of src/wavemind/replication.py).                 *)
(*                                                                         *)
(* Export and import each run under the lock of their region, so they are  *)
(* two steps and everything else may happen in between.  The page may be   *)
(* lost, the answer to an import may be lost, and the worker may start     *)
(* again without its cursors.                                              *)
(*                                                                         *)
(* A key stands for a memory and its text.  The field state of a region is *)
(* the set of signals it has heard (FieldStateCRDT shows that counters and *)
(* merge keep exactly that while no region restarts).  Processes of the    *)
(* regions do not restart here, stores do not raise, and local repair is   *)
(* ReplicatedNamespace's.                                                  *)
(***************************************************************************)
EXTENDS Integers, FiniteSets, FiniteSetsExt

CONSTANTS
    Regions, Keys,
    ReplicationFactor, WriteQuorum,
    Limit,         \* page size of a delta
    Offset,        \* how far the clock of a region is ahead
    MinUp,         \* an outage leaves this many replicas of a region
    Losses,        \* whether pages, answers and cursors are lost
    MaxOps,        \* bound: remember, forget and query calls
    NoPage

Replicas == 1..ReplicationFactor
Pairs == {p \in Regions \X Regions : p[1] # p[2]}

ASSUME RegionAssumption ==
    /\ ReplicationFactor \in Nat \ {0}
    /\ WriteQuorum \in 1..ReplicationFactor
    /\ Limit \in Nat /\ MaxOps \in Nat
    /\ Offset \in [Regions -> Nat]
    /\ MinUp \in 0..ReplicationFactor
    /\ Losses \in BOOLEAN

(* The region and instant of its origin travel with whatever is copied.    *)
Record == [key: Keys, at: Nat, from: Regions]
Event == [key: Keys, at: Nat, from: Regions]
Signal == [key: Keys, at: Nat, from: Regions, dead: BOOLEAN]

Page ==
    [pair: Pairs, records: SUBSET Record, events: SUBSET Event,
     signals: SUBSET Signal, cursor: Nat]

VARIABLES
    available,    \* per region and replica
    store,        \* live and forgotten rows
    log,          \* tombstone events
    field,        \* signals in the region's field state
    changedAt,    \* _field_state_updated_at
    cursors,      \* the worker's cursor per pair, 0 when there is none
    page,         \* the delta between export and import
    now,          \* true time: every change has an instant of its own
    ops

vars == <<available, store, log, field, changedAt, cursors, page, now, ops>>

TypeOK ==
    /\ available \in [Regions -> [Replicas -> BOOLEAN]]
    /\ store \in [Regions -> [Replicas -> SUBSET Record]]
    /\ log \in [Regions -> [Replicas -> SUBSET Event]]
    /\ field \in [Regions -> SUBSET Signal]
    /\ changedAt \in [Regions -> [Keys -> Nat]]
    /\ cursors \in [Pairs -> Nat]
    /\ page \in Page \cup {NoPage}
    /\ now \in Nat
    /\ ops \in Nat

-----------------------------------------------------------------------------
Available(r) == {n \in Replicas : available[r][n]}

Rows(r, nodes) == UNION {store[r][n] : n \in nodes}

Events(r, nodes) == UNION {log[r][n] : n \in nodes}

KeysOf(things) == {x.key : x \in things}

Dead(r) == KeysOf({x \in field[r] : x.dead})

(* What a query of region r can answer with.                               *)
Answer(r) ==
    KeysOf(Rows(r, Available(r))) \ (KeysOf(Events(r, Available(r))) \cup Dead(r))

(* _source_records: the newest copy of each live key.                      *)
SourceRecords(r) ==
    LET live == {x \in Rows(r, Available(r)) :
                    x.key \notin KeysOf(Events(r, Available(r)))}
    IN  {x \in live : \A y \in live : y.key = x.key => y.at <= x.at}

(* The clock of region r at the true time `time`.                          *)
ClockAt(r, time) == time + Offset[r]

(* A region changes its field state of some keys now.                      *)
MarkChanged(r, keys) ==
    changedAt' = [changedAt EXCEPT ![r] = [k \in Keys |->
        IF k \in keys THEN Max({changedAt[r][k], ClockAt(r, now')})
        ELSE changedAt[r][k]]]

-----------------------------------------------------------------------------
Init ==
    /\ available = [r \in Regions |-> [n \in Replicas |-> TRUE]]
    /\ store = [r \in Regions |-> [n \in Replicas |-> {}]]
    /\ log = [r \in Regions |-> [n \in Replicas |-> {}]]
    /\ field = [r \in Regions |-> {}]
    /\ changedAt = [r \in Regions |-> [k \in Keys |-> 0]]
    /\ cursors = [p \in Pairs |-> 0]
    /\ page = NoPage
    /\ now = 0
    /\ ops = 0

SetNodeAvailable(r, n, up) ==
    /\ available[r][n] # up
    /\ up \/ Cardinality(Available(r)) > MinUp
    /\ available' = [available EXCEPT ![r][n] = up]
    /\ UNCHANGED <<store, log, field, changedAt, cursors, page, now, ops>>

(* A call that changes region r: the clock moves, the field state of the   *)
(* keys gets a signal each.                                                *)
Call(r, keys, dead) ==
    /\ ops < MaxOps
    /\ ops' = ops + 1
    /\ now' = now + 1
    /\ field' = [field EXCEPT ![r] = @ \cup
          {[key |-> k, at |-> ClockAt(r, now'), from |-> r, dead |-> dead] : k \in keys}]
    /\ MarkChanged(r, keys)
    /\ UNCHANGED <<available, cursors, page>>

Remember(r, k) ==
    /\ Cardinality(Available(r)) >= WriteQuorum
    /\ Call(r, {k}, FALSE)
    /\ store' = [store EXCEPT ![r] = [n \in Replicas |-> store[r][n] \cup
          IF n \in Available(r)
          THEN {[key |-> k, at |-> ClockAt(r, now'), from |-> r]} ELSE {}]]
    /\ UNCHANGED log

Forget(r, k) ==
    /\ Cardinality(Available(r)) >= WriteQuorum
    /\ Call(r, {k} \cap KeysOf(Rows(r, Available(r))), TRUE)
    /\ store' = [store EXCEPT ![r] = [n \in Replicas |->
          IF n \in Available(r) THEN {x \in store[r][n] : x.key # k} ELSE store[r][n]]]
    /\ log' = [log EXCEPT ![r] = [n \in Replicas |-> log[r][n] \cup
          IF n \in Available(r)
          THEN {[key |-> k, at |-> ClockAt(r, now'), from |-> r]} ELSE {}]]

(* A query that answers with k makes it a little hotter.                   *)
Recall(r, k) ==
    /\ k \in Answer(r)
    /\ Call(r, {k}, FALSE)
    /\ UNCHANGED <<store, log>>

-----------------------------------------------------------------------------
(* The first of `all`, by instant, as many as fit.                         *)
IsPageOf(some, all, size) ==
    /\ some \subseteq all
    /\ Cardinality(some) = Min({size, Cardinality(all)})
    /\ \A x \in some, y \in all \ some : x.at <= y.at

(* Mistake: only what is older than the cursor counts as new.              *)
OlderThan(things, since) == {x \in things : x.at < since}

NewerThan(things, since) == {x \in things : x.at > since}

(* export_namespace_delta: changed field keys are sent whatever the page   *)
(* size, and their instants count for the cursor.  No quorum is asked for. *)
Export(s, t) ==
    LET since   == cursors[<<s, t>>]
        changed == NewerThan(SourceRecords(s), since)
        deleted == NewerThan(Events(s, Available(s)), since)
        more    == Cardinality(changed) + Cardinality(deleted) > Limit
    IN  /\ page = NoPage
        /\ \E records \in SUBSET changed, events \in SUBSET deleted :
             /\ IsPageOf(records, changed, Limit)
             /\ IsPageOf(events, deleted, Limit - Cardinality(records))
             /\ LET keys == {k \in Keys : changedAt[s][k] > since}
                               \cup KeysOf(records) \cup KeysOf(events)
                    instants == {since} \cup {x.at : x \in records \cup events}
                                  \cup {changedAt[s][k] : k \in keys}
                                  \cup IF more THEN {} ELSE {ClockAt(s, now)}
                IN  page' = [pair |-> <<s, t>>, records |-> records, events |-> events,
                             signals |-> {x \in field[s] : x.key \in keys},
                             cursor |-> Max(instants)]
        /\ UNCHANGED <<available, store, log, field, changedAt, cursors, now, ops>>

(* Mistake: one replica is enough, as for a read.                          *)
MayImportAnywhere(t) == Available(t) # {}

(* Whether the target takes the page: only with a write quorum.            *)
MayImport(t) == Cardinality(Available(t)) >= WriteQuorum

(* import_namespace_delta; the cursor is kept when the answer arrives.     *)
Import(saved) ==
    LET t       == page.pair[2]
        gone    == KeysOf(Events(t, Available(t))) \cup KeysOf(page.events)
        kept(n) == {x \in store[t][n] : x.key \notin KeysOf(page.events)}
        news    == page.signals \ field[t]
    IN  /\ page # NoPage
        /\ MayImport(t)
        /\ saved \/ Losses
        /\ now' = IF news = {} THEN now ELSE now + 1
        /\ field' = [field EXCEPT ![t] = @ \cup news]
        /\ MarkChanged(t, IF news = {} THEN {} ELSE KeysOf(page.signals))
        /\ log' = [log EXCEPT ![t] = [n \in Replicas |-> log[t][n] \cup
              IF n \in Available(t) THEN page.events ELSE {}]]
        /\ store' = [store EXCEPT ![t] = [n \in Replicas |->
              IF n \in Available(t)
              THEN kept(n) \cup {x \in page.records :
                                   x.key \notin gone \cup KeysOf(kept(n))}
              ELSE store[t][n]]]
        /\ cursors' = [cursors EXCEPT ![page.pair] = IF saved THEN page.cursor ELSE @]
        /\ page' = NoPage
        /\ UNCHANGED <<available, ops>>

(* Mistake: the cursor is kept although the import failed.                 *)
LosePageKeepCursor ==
    /\ page # NoPage
    /\ Losses
    /\ page' = NoPage
    /\ cursors' = [cursors EXCEPT ![page.pair] = page.cursor]
    /\ UNCHANGED <<available, store, log, field, changedAt, now, ops>>

(* Mistake: the report of a failure is kept like any other, without a      *)
(* cursor (its to_cursor is None).                                         *)
LosePageNoCursor ==
    /\ page # NoPage
    /\ Losses \/ ~MayImport(page.pair[2])
    /\ page' = NoPage
    /\ cursors' = [cursors EXCEPT ![page.pair] = NoPage]
    /\ UNCHANGED <<available, store, log, field, changedAt, now, ops>>

(* The sync of the pair failed: no quorum at the target, or no connection. *)
LosePage ==
    /\ page # NoPage
    /\ \/ Losses
       \/ ~MayImport(page.pair[2])
    /\ page' = NoPage
    /\ UNCHANGED <<available, store, log, field, changedAt, cursors, now, ops>>

(* A new worker that is given no cursors.                                  *)
WorkerRestart ==
    /\ Losses
    /\ cursors' = [p \in Pairs |-> 0]
    /\ page' = NoPage
    /\ UNCHANGED <<available, store, log, field, changedAt, now, ops>>

Next ==
    \/ \E r \in Regions, n \in Replicas, up \in BOOLEAN : SetNodeAvailable(r, n, up)
    \/ \E r \in Regions, k \in Keys : Remember(r, k) \/ Forget(r, k) \/ Recall(r, k)
    \/ \E p \in Pairs : Export(p[1], p[2])
    \/ \E saved \in BOOLEAN : Import(saved)
    \/ LosePage
    \/ WorkerRestart

Spec == Init /\ [][Next]_vars

(* run_once visits every pair; a pair that fails is visited again, and not *)
(* every visit fails.                                                      *)
SyncPair(p) == Import(TRUE) /\ page.pair = p

FairSpec ==
    Spec /\ \A p \in Pairs : SF_vars(Export(p[1], p[2])) /\ SF_vars(SyncPair(p))

-----------------------------------------------------------------------------
(* What a cursor is behind has arrived: a memory, a delete or a signal of  *)
(* region s that is not newer than the pair's cursor is known at t, so the *)
(* next delta may leave it out.                                            *)
CursorCovers ==
    \A p \in Pairs :
        LET s == p[1]
            t == p[2]
            due(things) == {x \in things : x.from = s /\ x.at <= cursors[p]}
        IN  /\ KeysOf(due(Rows(s, Replicas)))
                  \subseteq KeysOf(Rows(t, Replicas)) \cup KeysOf(Events(t, Replicas))
                            \cup KeysOf(Events(s, Replicas))
            /\ due(Events(s, Replicas)) \subseteq Events(t, Replicas)
            /\ due(field[s]) \subseteq field[t]

(* A delete that reached a region, by a call or in a page, is final there: *)
(* no answer of replicas that overlap every write quorum has the memory,   *)
(* whatever delta is still on the way and whatever is remembered.          *)
DeletesFinal ==
    \A r \in Regions :
        Cardinality(Available(r)) + WriteQuorum > ReplicationFactor =>
            KeysOf(Events(r, Replicas)) \cap Answer(r) = {}

Converged ==
    \A r, s \in Regions :
        /\ Answer(r) = Answer(s)
        /\ field[r] = field[s]
        /\ KeysOf(Events(r, Replicas)) = KeysOf(Events(s, Replicas))

(* When calls stop and the replicas come back, the regions come to the     *)
(* same memories, deletes and field state, however often pages, answers    *)
(* and cursors are lost.                                                   *)
Convergence ==
    (<>[]\A r \in Regions : Available(r) = Replicas) => <>[]Converged

=============================================================================
