-------------------------- MODULE DistributedShards --------------------------
(***************************************************************************)
(* One namespace of DistributedShardedWaveMind (src/wavemind/sharding.py): *)
(* API nodes that know nothing of each other, clients that fan a call out  *)
(* to the namespace's replicas over HTTP and count who answered, and the   *)
(* anti-entropy repair that DistributedRepairWorker (jobs.py) runs.        *)
(*                                                                         *)
(* A step is one HTTP request as its node serves it.  A single remember or *)
(* forget sends its requests from a thread pool, in any order; a batch,    *)
(* a query and a repair go node by node in placement order.  Two writers,  *)
(* a query and a repair overlap freely: the client has no lock.  A request *)
(* that fails may have been served, may be served later, or never (`late`).*)
(*                                                                         *)
(* A memory is its text: a tombstone always names texts, and every reader  *)
(* compares them.  A node stores rows, each with an id of its own, and a   *)
(* forget by id sends the id: what it deletes is the row a node has under  *)
(* it when the request is served.  Ranking and tags are left out, and so   *)
(* are the limits of an export (1,000 rows for a repair, 10,000 to resolve *)
(* an id, the 10,000 newest tombstones): an instance has fewer of each.    *)
(***************************************************************************)
EXTENDS Integers, FiniteSets, Sequences

CONSTANTS
    ReplicationFactor, WriteQuorum, ReadQuorum, ReadFanout,
    Texts,
    Mortal,        \* the texts a remember may give a ttl_seconds
    Lifelong,      \* the texts a remember may give none
    Writers,       \* client calls of remember or forget under way at a time
    Reachable,     \* the sets of nodes a client may have marked available
    Batches,       \* the calls that also come in batches
    Ids,           \* the row ids that forgets ask for
    Numbering,     \* the ids each node gives the rows of this namespace, in
                   \* the order it stores them (see Store)
    MaxCalls,      \* bound: remember and forget calls in a behaviour
    MaxFaults      \* bound: HTTP requests that fail

Nodes == 1..ReplicationFactor        \* placement.replicas, in order

ASSUME QuorumAssumption ==
    /\ ReplicationFactor \in Nat \ {0}
    /\ WriteQuorum \in 1..ReplicationFactor
    /\ ReadQuorum \in 1..ReplicationFactor
    /\ ReadFanout \in ReadQuorum..ReplicationFactor
ASSUME CallAssumption ==
    /\ Mortal \subseteq Texts /\ Lifelong \subseteq Texts
    /\ Reachable \subseteq SUBSET Nodes
    /\ Batches \subseteq {"remember", "forget"}
    /\ Ids \subseteq Nat \ {0}
    /\ Numbering \in [Nodes -> Seq(Ids \cup {0})]
    /\ MaxCalls \in Nat /\ MaxFaults \in Nat

VARIABLES
    rows,          \* the rows of the namespace at each node
    stored,        \* how many rows each node has stored so far, counted up
                   \* to the length of its numbering
    tombs,         \* the texts in each node's distributed_tombstone events
    late,          \* requests that failed for the client and may yet be served
    call,          \* what each writer is doing
    query,         \* the query under way
    repair,        \* the repair_namespace under way
    calls, faults, \* so far
    acked,         \* history: lasting texts whose remember returned
    named,         \* history: texts a forget set out to delete, or of which
                   \* a delete by id took the last lasting row of a node
    gone,          \* history: texts whose forget returned
    answer         \* what the last query returned, {} or {result}

nodes == <<rows, stored, tombs>>
history == <<acked, named, gone>>
vars == <<nodes, late, call, query, repair, calls, faults, history, answer>>

(* An id is 0 where there is none, and where it is one nobody asks for: a  *)
(* row that expired is `over`.                                             *)
AnyId == Ids \cup {0}

Row == [id: AnyId, text: Texts, life: {"lasts", "mortal", "over"}]

Request == [node: Nodes, kind: {"write", "delete", "log"},
            texts: SUBSET Texts, lasts: SUBSET Texts, id: AnyId]

(* `lasts` came without ttl_seconds; `resolve` has not been asked yet what *)
(* it has under the id; `todo` has not been asked for the write or delete, *)
(* `deleted` only lacks its tombstone, `ok` is counted.                    *)
Call == [op: {"none", "remember", "forget"}, batch: BOOLEAN, id: AnyId,
         texts: SUBSET Texts, lasts: SUBSET Texts, resolve: SUBSET Nodes,
         todo: SUBSET Nodes, deleted: SUBSET Nodes, ok: SUBSET Nodes]

(* Tombstones are read from `unheard`, then results from `unread`; `deaf`  *)
(* once the tombstones of a node were missed.                              *)
Query == [open: BOOLEAN, deaf: BOOLEAN, from: SUBSET Nodes,
          unheard: SUBSET Nodes, unread: SUBSET Nodes, tombs: SUBSET Texts, reads: SUBSET Nodes,
          seen: SUBSET Texts, must: SUBSET Texts, not: SUBSET Texts]

(* Exports are read from `todo`; `work` is then left to delete or to copy. *)
Repair == [todo: SUBSET Nodes, heard: SUBSET Nodes,
           exported: [Nodes -> SUBSET Texts], tombs: SUBSET Texts,
           work: SUBSET (Nodes \X {"delete", "copy"} \X Texts)]

TypeOK ==
    /\ rows \in [Nodes -> SUBSET Row]
    /\ stored \in [Nodes -> Nat]
    /\ tombs \in [Nodes -> SUBSET Texts]
    /\ late \subseteq Request
    /\ call \in [Writers -> Call]
    /\ query \in Query
    /\ repair \in Repair
    /\ calls \in Nat /\ faults \in Nat
    /\ acked \subseteq Texts /\ named \subseteq Texts /\ gone \subseteq Texts
    /\ answer \subseteq SUBSET Texts

Nothing == [n \in Nodes |-> {}]

NoCall == [op |-> "none", batch |-> FALSE, id |-> 0, texts |-> {}, lasts |-> {},
           resolve |-> {}, todo |-> {}, deleted |-> {}, ok |-> {}]

NoQuery == [open |-> FALSE, deaf |-> FALSE, from |-> {}, unheard |-> {}, unread |-> {},
            tombs |-> {}, reads |-> {}, seen |-> {}, must |-> {}, not |-> {}]

NoRepair == [todo |-> {}, heard |-> {}, exported |-> Nothing, tombs |-> {},
             work |-> {}]

First(n, S) == n \in S /\ \A m \in S : n <= m

-----------------------------------------------------------------------------
(* What a node has.                                                        *)

(* Queries and the exports of repair show no row that is over.             *)
Shown(n) == {r.text : r \in {q \in rows[n] : q.life # "over"}}

Lasting(n) == {r.text : r \in {q \in rows[n] : q.life = "lasts"}}

(* The export that resolves an id shows those too.                         *)
Under(n, i) == {r.text : r \in {q \in rows[n] : q.id = i}}

(* The texts of which the row with this id is the last that lasts.         *)
Taken(n, i) == Lasting(n) \ {r.text : r \in {q \in rows[n] : q.life = "lasts" /\ q.id # i}}

-----------------------------------------------------------------------------
(* A node serves a request.                                                *)

(* The id of the k-th row at node n, 0 when nobody asks for it.  The table *)
(* is shared by all namespaces and AUTOINCREMENT: an id is never given     *)
(* twice, and nodes need not agree on the id of a memory.                  *)
IdOf(n, k) == IF k \in DOMAIN Numbering[n] THEN Numbering[n][k] ELSE 0

(* /remember: a new row each time; it lasts unless it came with            *)
(* ttl_seconds.  A batch stores its texts in some order.                   *)
Store(n, X, lasts) ==
    \E at \in [X -> 1..Cardinality(X)] :
        /\ \A s, t \in X : at[s] = at[t] => s = t
        /\ rows' = [rows EXCEPT ![n] = @ \cup
              {[id |-> IdOf(n, stored[n] + at[t]), text |-> t,
                life |-> IF t \in lasts THEN "lasts" ELSE "mortal"] : t \in X}]
        /\ stored' = [stored EXCEPT ![n] =
              IF @ + Cardinality(X) \in DOMAIN Numbering[n]
              THEN @ + Cardinality(X) ELSE Len(Numbering[n])]
        /\ tombs' = tombs

(* /forget: the rows with one of these texts, or the one with this id.     *)
Delete(n, X, i) ==
    /\ rows' = [rows EXCEPT ![n] = {r \in @ : r.text \notin X /\ (i = 0 \/ r.id # i)}]
    /\ named' = named \cup IF i = 0 THEN {} ELSE Taken(n, i)
    /\ UNCHANGED <<stored, tombs>>

(* /memories/tombstone.                                                    *)
Log(n, X) ==
    /\ tombs' = [tombs EXCEPT ![n] = @ \cup X]
    /\ UNCHANGED <<rows, stored>>

(* The time of a row is over; from then on only its id finds it.           *)
Expire(n, r) ==
    /\ r \in rows[n] /\ r.life = "mortal"
    /\ rows' = [rows EXCEPT ![n] =
          (@ \ {r}) \cup IF r.id = 0 THEN {} ELSE {[r EXCEPT !.life = "over"]}]
    /\ UNCHANGED <<stored, tombs, late, call, query, repair, calls, faults,
                   history, answer>>

(* A request the client has given up on is served after all.               *)
Deliver(m) ==
    /\ m \in late
    /\ \/ m.kind = "write" /\ Store(m.node, m.texts, m.lasts) /\ named' = named
       \/ m.kind = "delete" /\ Delete(m.node, m.texts, m.id)
       \/ m.kind = "log" /\ Log(m.node, m.texts) /\ named' = named
    /\ late' = late \ {m}
    /\ UNCHANGED <<call, query, repair, calls, faults, acked, gone, answer>>

(* A request fails: what it asked for may still happen.                    *)
Fail(m) ==
    /\ faults < MaxFaults
    /\ faults' = faults + 1
    /\ late' = late \cup {m}
    /\ UNCHANGED nodes

-----------------------------------------------------------------------------
(* remember, forget and their batches.                                     *)

Begin(w, c) ==
    /\ call[w].op = "none"
    /\ calls < MaxCalls
    /\ calls' = calls + 1
    /\ c.batch => c.op \in Batches
    /\ call' = [call EXCEPT ![w] = c]
    /\ UNCHANGED <<nodes, late, query, repair, faults, acked, gone, answer>>

StartRemember(w, X, lasts, batch, up) ==
    /\ X # {} /\ (batch \/ Cardinality(X) = 1)
    /\ lasts \subseteq X \cap Lifelong /\ X \ lasts \subseteq Mortal
    /\ Begin(w, [NoCall EXCEPT !.op = "remember", !.batch = batch,
                               !.texts = X, !.lasts = lasts, !.todo = up])
    /\ UNCHANGED named

(* By text, the targets are what the caller gave.                          *)
StartForget(w, X, batch, up) ==
    /\ X # {} /\ (batch \/ Cardinality(X) = 1)
    /\ Begin(w, [NoCall EXCEPT !.op = "forget", !.batch = batch, !.texts = X, !.todo = up])
    /\ named' = named \cup X

(* By id: any id a caller may have been told, or make up.  Its targets are *)
(* still to be resolved.  A batch with ids is one with one of them.        *)
StartForgetId(w, i, batch, up) ==
    /\ Begin(w, [NoCall EXCEPT !.op = "forget", !.batch = batch, !.id = i,
                               !.resolve = up, !.todo = up])
    /\ named' = named

(* _resolve_tombstone_targets: the available nodes export one by one what  *)
(* they have now; the tombstone will name the texts they have under the id.*)
Resolve(w, n) ==
    /\ First(n, call[w].resolve)
    /\ call' = [call EXCEPT ![w].resolve = @ \ {n},
                            ![w].texts = @ \cup Under(n, call[w].id)]
    /\ named' = named \cup Under(n, call[w].id)
    /\ UNCHANGED <<nodes, late, query, repair, calls, faults, acked, gone, answer>>

(* A node whose export fails is passed over.                               *)
ResolveMisses(w, n) ==
    /\ faults < MaxFaults
    /\ First(n, call[w].resolve)
    /\ call' = [call EXCEPT ![w].resolve = @ \ {n}]
    /\ faults' = faults + 1
    /\ UNCHANGED <<nodes, late, query, repair, calls, history, answer>>

(* What the delete requests of writer w name: the texts, or the id alone.  *)
Doomed(w) == IF call[w].id = 0 THEN call[w].texts ELSE {}

(* The nodes writer w has a request at next.                               *)
Turn(w, n) ==
    LET open == call[w].todo \cup call[w].deleted
    IN  /\ call[w].resolve = {}
        /\ n \in open /\ (call[w].batch => First(n, open))

Ended(c) == c.resolve = {} /\ c.todo = {} /\ c.deleted = {}

(* Mistake: a call returns when one node fewer than the quorum answered.   *)
OnwardEarly(w, c) ==
    LET done == Ended(c) /\ Cardinality(c.ok) + 1 >= WriteQuorum
    IN  /\ call' = [call EXCEPT ![w] = IF Ended(c) THEN NoCall ELSE c]
        /\ acked' = acked \cup IF done THEN c.lasts ELSE {}
        /\ gone' = gone \cup IF done /\ c.op = "forget" THEN c.texts ELSE {}

(* The call goes on; when no answer is outstanding it returns with a       *)
(* quorum, and raises without.                                             *)
Onward(w, c) ==
    LET done == Ended(c) /\ Cardinality(c.ok) >= WriteQuorum
    IN  /\ call' = [call EXCEPT ![w] = IF Ended(c) THEN NoCall ELSE c]
        /\ acked' = acked \cup IF done THEN c.lasts ELSE {}
        /\ gone' = gone \cup IF done /\ c.op = "forget" THEN c.texts ELSE {}

WriteReplica(w, n) ==
    /\ call[w].op = "remember" /\ Turn(w, n)
    /\ Store(n, call[w].texts, call[w].lasts)
    /\ Onward(w, [call[w] EXCEPT !.todo = @ \ {n}, !.ok = @ \cup {n}])
    /\ UNCHANGED <<late, query, repair, calls, faults, named, answer>>

(* The delete of a batch is counted as soon as it is answered.  A batch    *)
(* with no targets logs no tombstone.                                      *)
DeleteReplica(w, n) ==
    /\ call[w].op = "forget" /\ Turn(w, n) /\ n \in call[w].todo
    /\ Delete(n, Doomed(w), call[w].id)
    /\ Onward(w, [call[w] EXCEPT
          !.todo = @ \ {n},
          !.deleted = IF call[w].batch /\ call[w].texts = {} THEN @ ELSE @ \cup {n},
          !.ok = IF call[w].batch THEN @ \cup {n} ELSE @])
    /\ UNCHANGED <<late, query, repair, calls, faults, answer>>

(* A tombstone of nothing is refused (HTTP 400), and the node not counted. *)
LogTombstone(w, n) ==
    /\ call[w].op = "forget" /\ Turn(w, n) /\ n \in call[w].deleted
    /\ Log(n, call[w].texts)
    /\ Onward(w, [call[w] EXCEPT
          !.deleted = @ \ {n},
          !.ok = IF call[w].texts = {} THEN @ ELSE @ \cup {n}])
    /\ UNCHANGED <<late, query, repair, calls, faults, named, answer>>

Pending(w, n) ==
    [node |-> n,
     kind |-> IF call[w].op = "remember" THEN "write"
              ELSE IF n \in call[w].deleted THEN "log" ELSE "delete",
     texts |-> IF call[w].op = "forget" /\ n \in call[w].todo
               THEN Doomed(w) ELSE call[w].texts,
     lasts |-> call[w].lasts,
     id |-> IF n \in call[w].todo THEN call[w].id ELSE 0]

RequestFails(w, n) ==
    /\ Turn(w, n)
    /\ Fail(Pending(w, n))
    /\ Onward(w, [call[w] EXCEPT !.todo = @ \ {n}, !.deleted = @ \ {n}])
    /\ UNCHANGED <<query, repair, calls, named, answer>>

-----------------------------------------------------------------------------
(* query and query_batch: the tombstones first, then the results.          *)

(* The first read_fanout of the available replicas (_read_node_ids).       *)
ReadNodes(up) == {n \in up : Cardinality({m \in up : m < n}) < ReadFanout}

Ask(up) ==
    /\ ~query.open /\ ReadNodes(up) # {}
    /\ query' = [NoQuery EXCEPT !.open = TRUE, !.from = ReadNodes(up),
                     !.unheard = ReadNodes(up), !.unread = ReadNodes(up),
                     !.must = acked \ named, !.not = gone]
    /\ answer' = {}
    /\ UNCHANGED <<nodes, late, call, repair, calls, faults, history>>

HearTombstones(n) ==
    /\ First(n, query.unheard)
    /\ query' = [query EXCEPT !.unheard = @ \ {n}, !.tombs = @ \cup tombs[n]]
    /\ UNCHANGED <<nodes, late, call, repair, calls, faults, history, answer>>

(* The exception is swallowed: the query goes on without this node's       *)
(* tombstones.                                                             *)
MissTombstones(n) ==
    /\ faults < MaxFaults
    /\ First(n, query.unheard)
    /\ query' = [query EXCEPT !.unheard = @ \ {n}, !.deaf = TRUE]
    /\ faults' = faults + 1
    /\ UNCHANGED <<nodes, late, call, repair, calls, history, answer>>

(* The query that has asked its last node answers, or raises.              *)
Reply(q) ==
    /\ query' = IF q.unread = {} THEN NoQuery ELSE q
    /\ answer' = IF q.unread = {} /\ Cardinality(q.reads) >= ReadQuorum
                 THEN {q.seen} ELSE answer
    /\ UNCHANGED <<nodes, late, call, repair, calls, history>>

ReadResults(n) ==
    /\ query.unheard = {}
    /\ First(n, query.unread)
    /\ Reply([query EXCEPT !.unread = @ \ {n}, !.reads = @ \cup {n},
                           !.seen = @ \cup (Shown(n) \ query.tombs)])
    /\ faults' = faults

MissResults(n) ==
    /\ faults < MaxFaults
    /\ query.unheard = {}
    /\ First(n, query.unread)
    /\ Reply([query EXCEPT !.unread = @ \ {n}])
    /\ faults' = faults + 1

-----------------------------------------------------------------------------
(* repair_namespace.                                                       *)

Resting == repair.todo = {} /\ repair.work = {}

StartRepair(up) ==
    /\ Resting
    /\ up # {}
    /\ repair' = [NoRepair EXCEPT !.todo = up]
    /\ UNCHANGED <<nodes, late, call, query, calls, faults, history, answer>>

(* Mistake: the tombstoned rows are not deleted, only not copied.          *)
WorkWithoutDeletes(r) ==
    LET live == (UNION {r.exported[n] : n \in Nodes}) \ r.tombs
    IN  UNION {{<<n, "copy", x>> : x \in live \ r.exported[n]} : n \in r.heard}

(* What the exports of all nodes add up to: each node loses the tombstoned *)
(* rows it exported and is sent the live ones it did not.                  *)
WorkOf(r) ==
    LET live == (UNION {r.exported[n] : n \in Nodes}) \ r.tombs
    IN  UNION {{<<n, "delete", x>> : x \in r.exported[n] \cap r.tombs} \cup
               {<<n, "copy", x>> : x \in live \ r.exported[n]} : n \in r.heard}

(* The work begins when no export is left to read, if enough were.         *)
Planned(r) ==
    IF r.todo # {} THEN r
    ELSE IF Cardinality(r.heard) < ReadQuorum THEN NoRepair
    ELSE [NoRepair EXCEPT !.work = WorkOf(r)]

RepairExport(n) ==
    /\ First(n, repair.todo)
    /\ repair' = Planned([repair EXCEPT
          !.todo = @ \ {n}, !.heard = @ \cup {n},
          !.exported[n] = Shown(n), !.tombs = @ \cup tombs[n]])
    /\ UNCHANGED <<nodes, late, call, query, calls, faults, history, answer>>

RepairMisses(n) ==
    /\ faults < MaxFaults
    /\ First(n, repair.todo)
    /\ repair' = Planned([repair EXCEPT !.todo = @ \ {n}])
    /\ faults' = faults + 1
    /\ UNCHANGED <<nodes, late, call, query, calls, history, answer>>

(* Node by node, and at each node the deletes before the copies.           *)
NextWork(n, kind, x) ==
    /\ <<n, kind, x>> \in repair.work
    /\ \A o \in repair.work :
          n <= o[1] /\ (n = o[1] /\ o[2] = "delete" => kind = "delete")

RepairDelete(n, x) ==
    /\ NextWork(n, "delete", x)
    /\ Delete(n, {x}, 0)
    /\ repair' = [repair EXCEPT !.work = @ \ {<<n, "delete", x>>}]
    /\ UNCHANGED <<late, call, query, calls, faults, acked, gone, answer>>

(* The copy has no ttl_seconds, whatever the copied row had.               *)
RepairCopy(n, x) ==
    /\ NextWork(n, "copy", x)
    /\ Store(n, {x}, {x})
    /\ repair' = [repair EXCEPT !.work = @ \ {<<n, "copy", x>>}]
    /\ UNCHANGED <<late, call, query, calls, faults, history, answer>>

(* A failed delete is passed over; a failed copy ends the node's copies.   *)
RepairFails(n, kind, x) ==
    /\ NextWork(n, kind, x)
    /\ Fail([node |-> n, kind |-> IF kind = "copy" THEN "write" ELSE "delete",
             texts |-> {x}, lasts |-> {x}, id |-> 0])
    /\ repair' = [repair EXCEPT !.work =
          {o \in @ : o # <<n, kind, x>> /\ ~(kind = "copy" /\ o[1] = n)}]
    /\ UNCHANGED <<call, query, calls, history, answer>>

-----------------------------------------------------------------------------
Init ==
    /\ rows = Nothing /\ stored = [n \in Nodes |-> 0] /\ tombs = Nothing
    /\ late = {}
    /\ call = [w \in Writers |-> NoCall]
    /\ query = NoQuery
    /\ repair = NoRepair
    /\ calls = 0 /\ faults = 0
    /\ acked = {} /\ named = {} /\ gone = {}
    /\ answer = {}

(* One client call under way takes its next step.                          *)
CallStep(w) ==
    \E n \in Nodes :
        \/ WriteReplica(w, n) \/ DeleteReplica(w, n) \/ LogTombstone(w, n)
        \/ RequestFails(w, n) \/ Resolve(w, n) \/ ResolveMisses(w, n)

RepairStep ==
    \E n \in Nodes :
        \/ RepairExport(n) \/ RepairMisses(n)
        \/ \E x \in Texts :
              \/ RepairDelete(n, x) \/ RepairCopy(n, x)
              \/ \E kind \in {"delete", "copy"} : RepairFails(n, kind, x)

Next ==
    \/ \E w \in Writers, batch \in BOOLEAN, up \in Reachable :
          \/ \E X, lasts \in SUBSET Texts : StartRemember(w, X, lasts, batch, up)
          \/ \E X \in SUBSET Texts : StartForget(w, X, batch, up)
          \/ \E i \in Ids : StartForgetId(w, i, batch, up)
    \/ \E w \in Writers : CallStep(w)
    \/ \E up \in Reachable : Ask(up) \/ StartRepair(up)
    \/ \E n \in Nodes :
          \/ HearTombstones(n) \/ MissTombstones(n)
          \/ ReadResults(n) \/ MissResults(n)
          \/ \E r \in rows[n] : Expire(n, r)
    \/ RepairStep
    \/ \E m \in late : Deliver(m)

Spec == Init /\ [][Next]_vars

(* The repair CronJob comes back for ever, finds all nodes available again *)
(* and again, and is let to finish; so are the calls under way.            *)
FairSpec ==
    /\ Spec
    /\ \A w \in Writers : WF_vars(CallStep(w))
    /\ WF_vars(RepairStep)
    /\ SF_vars(StartRepair(Nodes))

(* Time goes on.                                                           *)
TimedSpec == FairSpec /\ \A n \in Nodes : WF_vars(\E r \in rows[n] : Expire(n, r))

-----------------------------------------------------------------------------
(* A query that missed the tombstones of a node owes what was kept, but    *)
(* may show what was gone.                                                 *)
Question == [open |-> query.open, must |-> query.must,
             not |-> IF query.deaf THEN {} ELSE query.not]

Promise == INSTANCE MemoryService WITH kept <- acked, question <- Question, MayMiss <- TRUE

(* What clients are promised: a query that reaches its quorum answers every *)
(* memory kept before it was asked that no forget named and no delete by id *)
(* took, and, when it heard the tombstones of its nodes, none that was gone,*)
(* however calls, repairs and failures interleave.  Quorums must overlap    *)
(* and forgets not come in batches.                                         *)
KeepsPromise == Promise!Spec

(* Only what a forget set out to delete is ever taken: false of a delete by *)
(* id, which meets whatever row a node has under the id when it is served.  *)
TakesOnlyNamed ==
    [][\A x \in named' \ named : \E w \in Writers :
          call'[w].op = "forget" /\ x \in call'[w].texts]_vars

(* Repeated repair brings all nodes to the same texts and deletes what any  *)
(* of them has a tombstone for, though it works from stale exports while    *)
(* calls go on and its own requests fail.                                   *)
AllTombs == UNION {tombs[n] : n \in Nodes}

InSync == \A m, n \in Nodes : Shown(m) = Shown(n) /\ Shown(m) \cap AllTombs = {}

RepairConverges == <>[]InSync

(* A memory that was only ever remembered with a ttl_seconds is forgotten   *)
(* by itself: in the end no node has it.                                    *)
MortalsFade == <>[](\A n \in Nodes : Shown(n) \subseteq Lifelong)
=============================================================================
