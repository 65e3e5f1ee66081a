------------------------ MODULE ReplicatedNamespace ------------------------
(***************************************************************************)
(* One namespace of ReplicatedWaveMind (src/wavemind/replication.py): its  *)
(* replicas each own a durable store, remember and forget need a write     *)
(* quorum, query merges every replica that answers, and repair copies what *)
(* a recovered replica missed.  Deletion is by tombstone: an event in the  *)
(* audit log of each replica, plus an in-memory CRDT entry (`hidden`) that *)
(* does not survive the process.                                           *)
(*                                                                         *)
(* Every public operation runs under one re-entrant lock                   *)
(* (_synchronized_operation), so an operation is one step; what interleaves*)
(* is outages, store errors inside an operation, and process restarts.     *)
(*                                                                         *)
(* A memory is its replica key; TextOf gives the text of a key (two keys   *)
(* may share one: same text, other tags).  A key in a tombstone is always  *)
(* logged with its text, and readers compare both, so an event is the set  *)
(* of texts it names.  Ranking, top_k, TTLs and priorities are left out.   *)
(***************************************************************************)
EXTENDS Integers, Sequences, FiniteSets

CONSTANTS
    ReplicationFactor, WriteQuorum, ReadQuorum,
    Keys, Texts, TextOf,
    AuditLimit,      \* tombstone events a store reads back (10_000)
    Faults,          \* store errors explored: "raised", "unlogged"
    MaxOps,          \* bound: remember and forget calls in a behaviour
    MaxRows          \* bound: rows ever inserted in one store

Replicas == 1..ReplicationFactor     \* placement.replicas, in placement order

ASSUME QuorumAssumption ==
    /\ ReplicationFactor \in Nat \ {0}
    /\ WriteQuorum \in 1..ReplicationFactor
    /\ ReadQuorum \in 1..ReplicationFactor
ASSUME MemoryAssumption ==
    /\ IsFiniteSet(Keys)
    /\ TextOf \in [Keys -> Texts]
    /\ AuditLimit \in Nat
    /\ Faults \subseteq {"raised", "unlogged"}
    /\ MaxOps \in Nat /\ MaxRows \in Nat

VARIABLES
    available,    \* _available
    store,        \* the memories table of each replica
    nextId,       \* its AUTOINCREMENT
    log,          \* its tombstone events, oldest first
    hidden,       \* keys tombstoned in _field_states (memory only)
    clock,        \* remember and forget calls so far; dates the records
    acked,        \* history: keys of acknowledged remembers
    asked,        \* history: texts some caller wanted forgotten
    named,        \* history: texts some forget put in a tombstone
    forgotten     \* history: texts of acknowledged forgets, not stored since

history == <<acked, asked, named, forgotten>>
vars == <<available, store, nextId, log, hidden, clock, history>>

Record == [key: Keys, id: Nat, at: Nat]

TypeOK ==
    /\ available \in [Replicas -> BOOLEAN]
    /\ store \in [Replicas -> SUBSET Record]
    /\ nextId \in [Replicas -> Nat]
    /\ log \in [Replicas -> Seq(SUBSET Texts)]
    /\ hidden \in SUBSET Keys
    /\ clock \in Nat
    /\ acked \in SUBSET Keys
    /\ asked \in SUBSET Texts
    /\ named \in SUBSET Texts
    /\ forgotten \in SUBSET Texts

Available == {n \in Replicas : available[n]}

-----------------------------------------------------------------------------
(* What the replicas hold.                                                 *)

Holds(n, k) == \E r \in store[n] : r.key = k

Holders(k) == {n \in Replicas : Holds(n, k)}

(* Mistake: one replica's log is taken for the namespace's.                *)
FirstTombstoned ==
    {t \in Texts : \E n \in Available : (\A m \in Available : n <= m) /\
        \E i \in DOMAIN log[n] : t \in log[n][i]}

(* _tombstone_state: only the newest AuditLimit events of each available   *)
(* replica are read.                                                       *)
Tombstoned ==
    {t \in Texts : \E n \in Available : \E i \in DOMAIN log[n] :
        t \in log[n][i] /\ i + AuditLimit > Len(log[n])}

(* query, when the replicas S answer and the other available ones fail.    *)
Answer(S) ==
    LET gone == Tombstoned
    IN  {k \in Keys \ hidden : TextOf[k] \notin gone /\ \E n \in S : Holds(n, k)}

ReadSets == {S \in SUBSET Available : Cardinality(S) >= ReadQuorum}

(* The replicas, of those an operation turns to, whose store does not      *)
(* raise; and those that also log the tombstone of a forget.               *)
Reached(nodes) == IF "raised" \in Faults THEN SUBSET nodes ELSE {nodes}
Logged(nodes) == IF "unlogged" \in Faults THEN SUBSET nodes ELSE {nodes}

-----------------------------------------------------------------------------
Init ==
    /\ available = [n \in Replicas |-> TRUE]
    /\ store = [n \in Replicas |-> {}]
    /\ nextId = [n \in Replicas |-> 1]
    /\ log = [n \in Replicas |-> << >>]
    /\ hidden = {}
    /\ clock = 0
    /\ acked = {} /\ asked = {} /\ named = {} /\ forgotten = {}

SetNodeAvailable(n, up) ==
    /\ available[n] # up
    /\ available' = [available EXCEPT ![n] = up]
    /\ UNCHANGED <<store, nextId, log, hidden, clock, history>>

(* A new process over the same stores: availability and field states are   *)
(* rebuilt from nothing.                                                   *)
Restart ==
    /\ available' = [n \in Replicas |-> TRUE]
    /\ hidden' = {}
    /\ UNCHANGED <<store, nextId, log, clock, history>>

(* Mistake: any replica that is up will do.                                *)
RememberAnywhere(k, kept, ok) ==
    /\ clock < MaxOps
    /\ kept \in Reached(Available) /\ ok \in Reached(kept)
    /\ clock' = clock + 1
    /\ store' = [n \in Replicas |->
          store[n] \cup IF n \in kept
                        THEN {[key |-> k, id |-> nextId[n], at |-> clock']}
                        ELSE {}]
    /\ nextId' = [n \in Replicas |-> nextId[n] + IF n \in kept THEN 1 ELSE 0]
    /\ acked' = acked \cup {k}
    /\ forgotten' = IF kept = {} THEN forgotten ELSE forgotten \ {TextOf[k]}
    /\ UNCHANGED <<available, log, hidden, asked, named>>

(* remember: the replicas `kept` have inserted the record, `ok` of them    *)
(* also returned; without store errors both are the available ones.  The   *)
(* record stays where it was inserted even when the quorum is missed.      *)
Remember(k, kept, ok) ==
    /\ clock < MaxOps
    /\ Cardinality(Available) >= WriteQuorum
    /\ kept \in Reached(Available) /\ ok \in Reached(kept)
    /\ clock' = clock + 1
    /\ store' = [n \in Replicas |->
          store[n] \cup IF n \in kept
                        THEN {[key |-> k, id |-> nextId[n], at |-> clock']}
                        ELSE {}]
    /\ nextId' = [n \in Replicas |-> nextId[n] + IF n \in kept THEN 1 ELSE 0]
    /\ acked' = IF Cardinality(ok) >= WriteQuorum THEN acked \cup {k} ELSE acked
    /\ forgotten' = IF kept = {} THEN forgotten ELSE forgotten \ {TextOf[k]}
    /\ UNCHANGED <<available, log, hidden, asked, named>>

(* forget, once its targets are resolved to the keys `keys` and the texts  *)
(* `texts`.  The replicas `deleted` have removed their records and are     *)
(* counted as written; those in `logged` have also logged the tombstone.   *)
(* An available replica outside `deleted` raised while it was deleting,    *)
(* and lost only the records `lost`.                                       *)
Forget(keys, texts, wanted, deleted, logged, lost) ==
    LET doomed(n) == {r \in store[n] : TextOf[r.key] \in texts}
        done      == Cardinality(deleted) >= WriteQuorum
    IN  /\ Cardinality(Available) >= WriteQuorum
        /\ clock < MaxOps
        /\ clock' = clock + 1
        /\ deleted \in Reached(Available) /\ logged \in Logged(deleted)
        /\ store' = [n \in Replicas |->
              store[n] \ IF n \in deleted THEN doomed(n)
                         ELSE IF n \in Available THEN doomed(n) \cap lost
                         ELSE {}]
        /\ log' = [n \in Replicas |->
              IF n \in logged THEN Append(log[n], texts) ELSE log[n]]
        /\ hidden' = IF done THEN hidden \cup keys ELSE hidden
        /\ forgotten' = IF done THEN forgotten \cup texts ELSE forgotten
        /\ named' = named \cup texts
        /\ asked' = asked \cup wanted
        /\ UNCHANGED <<available, nextId, acked>>

ForgetText(t, deleted, logged, lost) ==
    LET keys == {k \in Keys : TextOf[k] = t /\ \E n \in Available : Holds(n, k)}
    IN  Forget(keys, {t}, {t}, deleted, logged, lost)

KeysWithId(i, nodes) ==
    {k \in Keys : \E n \in nodes : \E r \in store[n] : r.id = i /\ r.key = k}

(* forget(id=i): every available replica resolves i in its own table.  The *)
(* caller means the memory that is record i of the replica m it was told   *)
(* about (the primary_id of a write, the id of a query result).            *)
ForgetId(i, m, deleted, logged, lost) ==
    LET keys == KeysWithId(i, Available)
    IN  /\ KeysWithId(i, {m}) # {}
        /\ Forget(keys, {TextOf[k] : k \in keys},
                  {TextOf[k] : k \in KeysWithId(i, {m})}, deleted, logged, lost)

(* The records the replicas that raised may have lost before they did.     *)
Losses(deleted) == SUBSET UNION {store[n] : n \in Available \ deleted}

-----------------------------------------------------------------------------
(* repair_namespace.                                                       *)

LiveRecords(n) ==
    LET gone == Tombstoned IN {r \in store[n] : TextOf[r.key] \notin gone}

(* The replica that last improved the merged record set, in placement      *)
(* order (_source_records); it is skipped when records are copied.         *)
Contributes(n) ==
    \E r \in LiveRecords(n) : \A m \in Available : m < n =>
        \A s \in LiveRecords(m) : s.key = r.key => s.at < r.at

(* Mistake: the source is the first replica that has records.              *)
IsFirstSource(n) ==
    /\ n \in Available
    /\ store[n] # {}
    /\ \A m \in Available : store[m] # {} => n <= m

IsSource(n) ==
    /\ n \in Available
    /\ Contributes(n)
    /\ \A m \in Available : Contributes(m) => m <= n

(* The merged records: for each live key, its newest copies.               *)
SourceRecords ==
    LET live == UNION {LiveRecords(n) : n \in Available}
    IN  {r \in live : \A s \in live : s.key = r.key => s.at <= r.at}

Missing(n) ==
    IF IsSource(n) \/ n \notin Available THEN {}
    ELSE {r.key : r \in SourceRecords} \ {k \in Keys : Holds(n, k)}

(* Keys are copied in the order in which the merged list first saw them:   *)
(* by replica, then by row.                                                *)
FirstAt(k) ==
    LET hs == Holders(k) \cap Available IN CHOOSE n \in hs : \A m \in hs : n <= m

FirstRow(k) ==
    LET ids == {r.id : r \in {s \in store[FirstAt(k)] : s.key = k}}
    IN  CHOOSE i \in ids : \A j \in ids : i <= j

ListedBefore(j, k) ==
    \/ FirstAt(j) < FirstAt(k)
    \/ FirstAt(j) = FirstAt(k) /\ FirstRow(j) < FirstRow(k)

Place(n, k) == Cardinality({j \in Missing(n) : ListedBefore(j, k)})

(* The keys repair adds at n when it stops after `most` of them, and their *)
(* records.                                                                *)
CopiedKeys(n, most) == {k \in Missing(n) : Place(n, k) < most}

Copies(n, most) ==
    {[key |-> r.key, id |-> nextId[n] + Place(n, r.key), at |-> r.at] :
        r \in {s \in SourceRecords : s.key \in CopiedKeys(n, most)}}

(* The replicas `failed` raise: before anything changed when `most` is -1, *)
(* or once they had deleted and had copied `most` records.                 *)
RepairNamespace(failed, most) ==
    LET stop(n) == IF n \in failed THEN most ELSE Cardinality(Keys)
    IN  /\ Available \ failed \in Reached(Available)
        /\ store' = [n \in Replicas |->
              (IF n \in Available /\ stop(n) # -1 THEN LiveRecords(n) ELSE store[n])
              \cup Copies(n, stop(n))]
        /\ nextId' = [n \in Replicas |-> nextId[n] + Cardinality(CopiedKeys(n, stop(n)))]
        /\ \A n \in Replicas : nextId'[n] <= MaxRows + 1
        /\ UNCHANGED <<available, log, hidden, clock, history>>

-----------------------------------------------------------------------------
Ids == {r.id : r \in UNION {store[n] : n \in Replicas}}

Next ==
    \/ \E n \in Replicas, up \in BOOLEAN : SetNodeAvailable(n, up)
    \/ Restart
    \/ \E k \in Keys : \E kept \in Reached(Available) : \E ok \in Reached(kept) :
          Remember(k, kept, ok)
    \/ \E deleted \in Reached(Available) : \E logged \in Logged(deleted) :
          \E lost \in Losses(deleted) :
             \/ \E t \in Texts : ForgetText(t, deleted, logged, lost)
             \/ \E i \in Ids, m \in Replicas : ForgetId(i, m, deleted, logged, lost)
    \/ \E ok \in Reached(Available), most \in -1..Cardinality(Keys) :
          RepairNamespace(Available \ ok, most)

Spec == Init /\ [][Next]_vars

(* Whoever operates the replicas calls repair_namespace again and again,   *)
(* and some of its runs meet no store error.                               *)
FairSpec == Spec /\ WF_vars(RepairNamespace({}, -1))

-----------------------------------------------------------------------------
(* A memory whose remember was acknowledged, and that no forget ever       *)
(* named, is in the answer of every query that reaches its quorum: through *)
(* outages, restarts, failed operations and repair, as soon as read and    *)
(* write quorums overlap.                                                  *)
AckedReadable ==
    \A S \in ReadSets, k \in acked : TextOf[k] \notin named => k \in Answer(S)

(* A memory whose forget was acknowledged is in no answer again: a replica *)
(* that missed the delete, a repair or a restart does not bring it back.   *)
NoResurrection ==
    \A S \in ReadSets : \A k \in Answer(S) : TextOf[k] \notin forgotten

(* A forget by id only names the memory its caller was told that id for    *)
(* ("delete this record by primary id").                                   *)
ForgetsOnlyAsked == named \subseteq asked

InSync ==
    /\ \A n \in Replicas, r \in UNION {store[m] : m \in Replicas} :
          Holds(n, r.key)
    /\ \A k \in Keys : TextOf[k] \in Tombstoned => Holders(k) = {}

(* Once every replica stays available, repeated repair brings all replicas *)
(* to the same live memories and removes the forgotten ones everywhere     *)
(* ("recovered replicas can be repaired from healthy peers").              *)
RepairConverges == <>[](Available = Replicas) => <>[]InSync

WrittenOnce ==
    \A m, n \in Replicas : \A r \in store[m], s \in store[n] :
        r.key = s.key => r.at = s.at

(* The same, as long as no memory is remembered a second time: then repair *)
(* needs two rounds, because the replica it counts as its source is itself *)
(* left out of the first one.                                              *)
RepairConvergesOnce ==
    []WrittenOnce /\ <>[](Available = Replicas) => <>[]InSync

=============================================================================
