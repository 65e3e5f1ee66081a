---------------------- MODULE DistributedShards_proofs ----------------------
(* Machine-checked: the shard client keeps its promise, for every number   *)
(* of nodes, of writers, of calls and of failures.                         *)
EXTENDS DistributedShards, FiniteSetTheorems, TLAPS

(* Only what a forget named is ever deleted by text or given a tombstone.  *)
NamedOnly ==
    /\ gone \subseteq named
    /\ \A n \in Nodes : tombs[n] \subseteq named
    /\ \A m \in late : m.kind # "write" => m.texts \subseteq named
    /\ \A w \in Writers : call[w].op = "forget" => call[w].texts \subseteq named
    /\ query.tombs \subseteq named
    /\ repair.tombs \subseteq named
    /\ \A n \in Nodes, t \in Texts :
          <<n, "delete", t>> \in repair.work => t \in named

(* Only a remember makes rows, and those it makes last are of its texts.   *)
Lasts ==
    /\ \A m \in late : m.lasts \subseteq m.texts
    /\ \A w \in Writers :
          /\ call[w].lasts \subseteq call[w].texts
          /\ call[w].op # "remember" => call[w].lasts = {}

(* A node that is counted did what the call asked of it.                   *)
Counted ==
    \A w \in Writers : \A n \in call[w].ok :
        /\ call[w].op = "remember" => call[w].lasts \ named \subseteq Lasting(n)
        /\ call[w].op = "forget" => call[w].texts \subseteq tombs[n]

Single == \A w \in Writers : call[w].op = "forget" => ~call[w].batch

(* While an id is resolved nothing is deleted yet.                         *)
Resolving ==
    \A w \in Writers : call[w].resolve # {} => call[w].op = "forget" /\ call[w].ok = {}

Idle == \A w \in Writers : call[w].op = "none" => call[w] = NoCall

Holds(t) == {n \in Nodes : t \in Lasting(n)}

Logs(t) == {n \in Nodes : t \in tombs[n]}

(* Nodes with a lasting row of t that were not read without showing it.    *)
Fresh(t) == {n \in Nodes : t \in Lasting(n) /\ (n \in query.reads => t \in query.seen)}

(* Nodes with a tombstone of t that the query knows or may still hear of.  *)
Told(t) == {n \in Nodes :
    t \in tombs[n] /\ (n \in query.from \ query.unheard => t \in query.tombs)}

Kept == \A t \in acked \ named : Cardinality(Holds(t)) >= WriteQuorum

Buried == \A t \in gone : Cardinality(Logs(t)) >= WriteQuorum

(* The query under way has read from its nodes only, tombstones first.     *)
Reading ==
    /\ ~query.open => query = NoQuery
    /\ query.must \subseteq acked /\ query.not \subseteq gone
    /\ query.reads \cup query.unread \cup query.unheard \subseteq query.from
    /\ query.unheard # {} => query.reads = {} /\ query.seen = {}
    /\ query.seen \cap query.tombs = {}

Bound ==
    /\ \A t \in query.must \ named : Cardinality(Fresh(t)) >= WriteQuorum
    /\ ~query.deaf => \A t \in query.not : Cardinality(Told(t)) >= WriteQuorum

IInv ==
    /\ TypeOK /\ NamedOnly /\ Lasts /\ Counted /\ Single /\ Idle /\ Resolving
    /\ Kept /\ Buried /\ Reading /\ Bound

(* The setting of the theorems: a read quorum meets a write quorum, and    *)
(* forgets come one by one.                                                *)
Setting ==
    /\ ReadQuorum + WriteQuorum > ReplicationFactor
    /\ "forget" \notin Batches

-----------------------------------------------------------------------------
(* Sets of nodes are finite, and a larger one has no fewer members.        *)
LEMMA NodeSets ==
    /\ IsFiniteSet(Nodes)
    /\ Cardinality(Nodes) = ReplicationFactor
    /\ \A S \in SUBSET Nodes : IsFiniteSet(S) /\ Cardinality(S) \in Nat
    /\ \A S, T \in SUBSET Nodes :
          S \subseteq T => Cardinality(S) <= Cardinality(T)
<1>1. IsFiniteSet(Nodes) /\ Cardinality(Nodes) = ReplicationFactor
  BY QuorumAssumption, FS_Interval DEF Nodes
<1>2. \A S \in SUBSET Nodes : IsFiniteSet(S)
  BY <1>1, FS_Subset
<1>3. \A S \in SUBSET Nodes : Cardinality(S) \in Nat
  BY <1>2, FS_CardinalityType
<1>4. \A S, T \in SUBSET Nodes :
          S \subseteq T => Cardinality(S) <= Cardinality(T)
  BY <1>2, FS_Subset
<1>5. QED
  BY <1>1, <1>2, <1>3, <1>4

LEMMA QuorumsMeet ==
    ASSUME Setting, NEW S \in SUBSET Nodes, NEW T \in SUBSET Nodes,
           Cardinality(S) >= ReadQuorum, Cardinality(T) >= WriteQuorum
    PROVE  \E n \in Nodes : n \in S /\ n \in T
<1>1. Cardinality(S) + Cardinality(T) > Cardinality(Nodes)
  BY NodeSets, QuorumAssumption DEF Setting
<1>2. S \cap T # {}
  BY <1>1, NodeSets, FS_MajoritiesIntersect
<1>3. QED
  BY <1>2

(* A set that is at least a write quorum stays one when it grows.          *)
LEMMA Grown ==
    ASSUME NEW S \in SUBSET Nodes, NEW T \in SUBSET Nodes, S \subseteq T,
           Cardinality(S) >= WriteQuorum
    PROVE  Cardinality(T) >= WriteQuorum
  BY NodeSets, QuorumAssumption

-----------------------------------------------------------------------------
(* The types of what the steps build.                                      *)

LEMMA Blank ==
    /\ Nothing \in [Nodes -> SUBSET Texts]
    /\ NoCall \in Call /\ NoQuery \in Query /\ NoRepair \in Repair
  BY DEF Nothing, NoCall, Call, NoQuery, Query, NoRepair, Repair, AnyId

LEMMA NumberType == ASSUME NEW n \in Nodes, NEW k PROVE IdOf(n, k) \in AnyId
<1>1. Numbering[n] \in Seq(Ids \cup {0})
  BY CallAssumption
<1>2. CASE k \in DOMAIN Numbering[n]
  BY <1>1, <1>2 DEF IdOf, AnyId
<1>3. CASE k \notin DOMAIN Numbering[n]
  BY <1>3 DEF IdOf, AnyId
<1>4. QED
  BY <1>2, <1>3

(* What a node's rows may become: only what is named or made to last       *)
(* changes which memories the node keeps.                                  *)
Tidy ==
    /\ rows' \in [Nodes -> SUBSET Row] /\ stored' \in [Nodes -> Nat]
    /\ tombs' \in [Nodes -> SUBSET Texts]
    /\ named' \subseteq Texts /\ named \subseteq named'
    /\ \A m \in Nodes : Lasting(m) \ Lasting(m)' \subseteq named'
    /\ \A m \in Nodes : tombs[m] \subseteq tombs'[m] /\ tombs'[m] \subseteq named'

LEMMA LastingType ==
    ASSUME TypeOK, NEW n \in Nodes
    PROVE  /\ Lasting(n) \subseteq Shown(n) /\ Shown(n) \subseteq Texts
           /\ \A i : Under(n, i) \subseteq Texts /\ Taken(n, i) \subseteq Texts
  BY DEF TypeOK, Lasting, Shown, Under, Taken, Row

LEMMA StoreTidy ==
    ASSUME IInv, NEW n \in Nodes, NEW X \in SUBSET Texts, NEW Y \in SUBSET X,
           Store(n, X, Y), named' = named
    PROVE  Tidy /\ Y \subseteq Lasting(n)' /\ tombs' = tombs
<1> DEFINE Made(at) == {[id |-> IdOf(n, stored[n] + at[t]), text |-> t,
                         life |-> IF t \in Y THEN "lasts" ELSE "mortal"] : t \in X}
<1>1. PICK at \in [X -> 1..Cardinality(X)] : rows' = [rows EXCEPT ![n] = @ \cup Made(at)]
  BY Zenon DEF Store
<1>2. Made(at) \subseteq Row
  BY NumberType DEF Row
<1>3. ASSUME NEW t \in Y PROVE \E r \in Made(at) : r.text = t /\ r.life = "lasts"
  <2> DEFINE made == [id |-> IdOf(n, stored[n] + at[t]), text |-> t,
                      life |-> IF t \in Y THEN "lasts" ELSE "mortal"]
  <2>1. made \in Made(at)
    BY Zenon
  <2>2. made.text = t /\ made.life = "lasts"
    OBVIOUS
  <2> HIDE DEF made, Made
  <2>3. QED
    BY <2>1, <2>2
<1> HIDE DEF Made
<1>4. rows' \in [Nodes -> SUBSET Row]
  BY <1>1, <1>2 DEF IInv, TypeOK
<1>5. /\ rows'[n] = rows[n] \cup Made(at)
      /\ \A m \in Nodes : rows[m] \subseteq rows'[m]
  BY <1>1 DEF IInv, TypeOK
<1>6. Y \subseteq Lasting(n)' /\ \A m \in Nodes : Lasting(m) \subseteq Lasting(m)'
  BY <1>3, <1>5 DEF Lasting
<1>7. stored' \in [Nodes -> Nat]
  <2>1. /\ Numbering[n] \in Seq(Ids \cup {0})
        /\ stored' = [stored EXCEPT ![n] =
              IF @ + Cardinality(X) \in DOMAIN Numbering[n]
              THEN @ + Cardinality(X) ELSE Len(Numbering[n])]
    BY CallAssumption DEF Store
  <2>2. Len(Numbering[n]) \in Nat /\ DOMAIN Numbering[n] = 1..Len(Numbering[n])
    BY <2>1
  <2>3. DOMAIN Numbering[n] \subseteq Nat
    BY <2>2
  <2> DEFINE k == stored[n] + Cardinality(X)
             v == IF k \in DOMAIN Numbering[n] THEN k ELSE Len(Numbering[n])
  <2>4. v \in Nat
    BY <2>2, <2>3
  <2>5. stored' = [stored EXCEPT ![n] = v]
    BY <2>1
  <2> HIDE DEF v
  <2>6. QED
    BY <2>4, <2>5 DEF IInv, TypeOK
<1>8. tombs' = tombs
  BY DEF Store
<1>9. QED
  BY <1>4, <1>6, <1>7, <1>8 DEF Tidy, IInv, TypeOK, NamedOnly

LEMMA DeleteTidy ==
    ASSUME IInv, NEW n \in Nodes, NEW X \in SUBSET Texts, NEW i,
           X \subseteq named, Delete(n, X, i)
    PROVE  Tidy /\ \E Y \in SUBSET Texts : named' = named \cup Y
<1> DEFINE D == IF i = 0 THEN {} ELSE Taken(n, i)
           R == {r \in rows[n] : r.text \notin X /\ (i = 0 \/ r.id # i)}
<1>1. /\ rows' = [rows EXCEPT ![n] = R] /\ named' = named \cup D
      /\ stored' = stored /\ tombs' = tombs
  BY DEF Delete
<1>2. D \in SUBSET Texts
  BY LastingType DEF IInv
<1>3. /\ rows' \in [Nodes -> SUBSET Row] /\ rows'[n] = R
      /\ \A m \in Nodes : m # n => rows'[m] = rows[m]
  BY <1>1 DEF IInv, TypeOK
<1>4. ASSUME NEW m \in Nodes, NEW t \in Lasting(m), t \notin Lasting(m)'
      PROVE  t \in X \cup D
  <2>1. m = n
    BY <1>3, <1>4 DEF Lasting
  <2>2. SUFFICES ASSUME t \notin X PROVE t \in D
    OBVIOUS
  <2>3. PICK q \in rows[n] : q.life = "lasts" /\ q.text = t
    BY <1>4, <2>1 DEF Lasting
  <2>4. \A r \in rows[n] : r.life = "lasts" /\ r.text = t => i # 0 /\ r.id = i
    BY <1>3, <1>4, <2>1, <2>2 DEF Lasting
  <2>5. i # 0 /\ t \notin {r.text : r \in {p \in rows[n] : p.life = "lasts" /\ p.id # i}}
    BY <2>3, <2>4
  <2>6. QED
    BY <1>4, <2>1, <2>5 DEF Taken
<1> HIDE DEF D
<1>5. \A m \in Nodes : Lasting(m) \ Lasting(m)' \subseteq named'
  BY <1>1, <1>4
<1>6. QED
  BY <1>1, <1>2, <1>3, <1>5 DEF Tidy, IInv, TypeOK, NamedOnly

LEMMA LogTidy ==
    ASSUME IInv, NEW n \in Nodes, NEW X \in SUBSET Texts, X \subseteq named,
           Log(n, X), named' = named
    PROVE  Tidy /\ X \subseteq tombs'[n]
<1>1. /\ rows' = rows /\ stored' = stored /\ tombs' = [tombs EXCEPT ![n] = @ \cup X]
  BY DEF Log
<1>2. \A m \in Nodes : Lasting(m)' = Lasting(m)
  BY <1>1 DEF Lasting
<1>3. QED
  BY <1>1, <1>2 DEF Tidy, IInv, TypeOK, NamedOnly

LEMMA SameTidy ==
    ASSUME IInv, nodes' = nodes, named \subseteq named', named' \subseteq Texts
    PROVE  Tidy
<1>1. rows' = rows /\ stored' = stored /\ tombs' = tombs
  BY DEF nodes
<1>2. \A m \in Nodes : Lasting(m)' = Lasting(m)
  BY <1>1 DEF Lasting
<1>3. QED
  BY <1>1, <1>2 DEF Tidy, IInv, TypeOK, NamedOnly

(* What is planned from the exports has its type, and deletes only what    *)
(* was exported as a tombstone or was to be deleted already.               *)
LEMMA PlannedType ==
    ASSUME NEW r \in Repair
    PROVE  /\ Planned(r) \in Repair
           /\ Planned(r).tombs \subseteq r.tombs
           /\ \A n \in Nodes, t \in Texts : <<n, "delete", t>> \in Planned(r).work =>
                 t \in r.tombs \/ <<n, "delete", t>> \in r.work
<1>1. /\ r.exported \in [Nodes -> SUBSET Texts] /\ r.heard \subseteq Nodes
      /\ r.tombs \subseteq Texts
  BY DEF Repair
<1>2. WorkOf(r) \subseteq Nodes \X {"delete", "copy"} \X Texts
  BY <1>1 DEF WorkOf
<1>3. \A n \in Nodes, t \in Texts : <<n, "delete", t>> \in WorkOf(r) => t \in r.tombs
  BY <1>1 DEF WorkOf
<1>4. CASE r.todo # {}
  BY <1>4 DEF Planned
<1>5. CASE r.todo = {} /\ Cardinality(r.heard) < ReadQuorum
  BY <1>5, Blank DEF Planned, NoRepair
<1>6. CASE r.todo = {} /\ ~(Cardinality(r.heard) < ReadQuorum)
  <2>1. Planned(r) = [NoRepair EXCEPT !.work = WorkOf(r)]
    BY <1>6 DEF Planned
  <2>2. Planned(r) \in Repair /\ Planned(r).work = WorkOf(r) /\ Planned(r).tombs = {}
    BY <1>2, <2>1, Blank DEF NoRepair, Repair
  <2>3. QED
    BY <1>3, <2>2
<1>7. QED
  BY <1>4, <1>5, <1>6

-----------------------------------------------------------------------------
LEMMA InitInv == Init => IInv
<1> SUFFICES ASSUME Init PROVE IInv
  OBVIOUS
<1>1. TypeOK
  BY Blank DEF Init, TypeOK, Nothing
<1>2. NamedOnly /\ Lasts /\ Counted /\ Single /\ Idle /\ Resolving
  BY DEF Init, NamedOnly, Lasts, Counted, Single, Idle, Resolving, NoCall, NoQuery, NoRepair, Nothing
<1>3. Kept /\ Buried /\ Reading /\ Bound
  BY DEF Init, Kept, Buried, Reading, Bound, NoQuery
<1>4. QED
  BY <1>1, <1>2, <1>3 DEF IInv

(* Quorums once reached stay, as long as nodes only lose what was named,   *)
(* or what was not to last.                                                *)
LEMMA NodesOnward ==
    ASSUME IInv, TypeOK', Tidy, query' = query,
           acked \subseteq acked', gone \subseteq gone',
           \A t \in acked' \ acked : t \in named' \/ Cardinality(Holds(t)') >= WriteQuorum,
           \A t \in gone' \ gone : Cardinality(Logs(t)') >= WriteQuorum
    PROVE  Kept' /\ Buried' /\ Reading' /\ Bound'
<1>0. /\ named \subseteq named'
      /\ \A n \in Nodes : Lasting(n) \ Lasting(n)' \subseteq named'
      /\ \A n \in Nodes : tombs[n] \subseteq tombs'[n]
  BY DEF Tidy
<1>1. Kept'
  <2> SUFFICES ASSUME NEW t \in acked', t \notin named'
               PROVE  Cardinality(Holds(t)') >= WriteQuorum
    BY DEF Kept, Holds
  <2>0. CASE t \notin acked
    BY <2>0
  <2>1. CASE t \in acked
    <3>1. Holds(t) \in SUBSET Nodes /\ Holds(t)' \in SUBSET Nodes
      BY DEF Holds
    <3>2. Holds(t) \subseteq Holds(t)'
      BY <1>0 DEF Holds
    <3>3. QED
      BY <1>0, <2>1, <3>1, <3>2, Grown DEF IInv, Kept
  <2>2. QED
    BY <2>0, <2>1
<1>2. Buried'
  <2> SUFFICES ASSUME NEW t \in gone'
               PROVE  Cardinality(Logs(t)') >= WriteQuorum
    BY DEF Buried, Logs
  <2>0. CASE t \notin gone
    BY <2>0
  <2>1. CASE t \in gone
    <3>1. Logs(t) \in SUBSET Nodes /\ Logs(t)' \in SUBSET Nodes
      BY DEF Logs
    <3>2. Logs(t) \subseteq Logs(t)'
      BY <1>0 DEF Logs
    <3>3. QED
      BY <2>1, <3>1, <3>2, Grown DEF IInv, Buried
  <2>2. QED
    BY <2>0, <2>1
<1>3. Reading'
  BY DEF IInv, Reading
<1>4. \A t \in query'.must \ named' : Cardinality(Fresh(t)') >= WriteQuorum
  <2> SUFFICES ASSUME NEW t \in query.must \ named'
               PROVE  Cardinality(Fresh(t)') >= WriteQuorum
    OBVIOUS
  <2>1. t \in query.must \ named
    BY <1>0
  <2>2. Fresh(t) \in SUBSET Nodes /\ Fresh(t)' \in SUBSET Nodes
    BY DEF Fresh
  <2>3. Fresh(t) \subseteq Fresh(t)'
    BY <1>0, <2>1 DEF Fresh
  <2>4. QED
    BY <2>1, <2>2, <2>3, Grown DEF IInv, Bound
<1>5. ~query'.deaf => \A t \in query'.not : Cardinality(Told(t)') >= WriteQuorum
  <2> SUFFICES ASSUME ~query.deaf, NEW t \in query.not
               PROVE  Cardinality(Told(t)') >= WriteQuorum
    OBVIOUS
  <2>1. Told(t) \in SUBSET Nodes /\ Told(t)' \in SUBSET Nodes
    BY DEF Told
  <2>2. Told(t) \subseteq Told(t)'
    BY <1>0 DEF Told
  <2>3. QED
    BY <2>1, <2>2, Grown DEF IInv, Bound
<1>6. QED
  BY <1>1, <1>2, <1>3, <1>4, <1>5 DEF Bound, Fresh, Told

(* A call begins: what it may delete is named from now on.                 *)
LEMMA BeginInv ==
    ASSUME IInv, Setting, NEW w \in Writers, NEW c \in Call, NEW X \in SUBSET Texts,
           Begin(w, c), c.op # "none", c.ok = {}, c.batch => c.op # "forget",
           named' = named \cup X, c.op = "forget" => c.texts \subseteq X,
           c.lasts \subseteq c.texts, c.op # "remember" => c.lasts = {},
           c.resolve # {} => c.op = "forget"
    PROVE  IInv'
<1>0. Tidy
  BY SameTidy DEF Begin, IInv, TypeOK
<1>1. TypeOK'
  BY <1>0 DEF IInv, TypeOK, Begin, Tidy
<1>2. NamedOnly'
  BY DEF IInv, TypeOK, NamedOnly, Begin, nodes
<1>3. Lasts' /\ Single' /\ Idle' /\ Resolving'
  BY DEF IInv, TypeOK, Lasts, Single, Idle, Resolving, Begin, nodes
<1>4. Counted'
  <2>1. \A m \in Nodes : Lasting(m)' = Lasting(m)
    BY DEF Begin, nodes, Lasting
  <2> SUFFICES ASSUME NEW u \in Writers, NEW m \in call'[u].ok
               PROVE  /\ call'[u].op = "remember" => call'[u].lasts \ named' \subseteq Lasting(m)'
                      /\ call'[u].op = "forget" => call'[u].texts \subseteq tombs'[m]
    BY DEF Counted
  <2>2. call'[u] = call[u] /\ m \in Nodes
    BY <1>1 DEF Begin, IInv, TypeOK, Call
  <2>3. QED
    BY <2>1, <2>2 DEF Begin, nodes, IInv, Counted
<1>5. Kept' /\ Buried' /\ Reading' /\ Bound'
  BY <1>0, <1>1, NodesOnward DEF Begin
<1>6. QED
  BY <1>1, <1>2, <1>3, <1>4, <1>5 DEF IInv

LEMMA StartInv ==
    ASSUME IInv, Setting, NEW w \in Writers, NEW batch \in BOOLEAN,
           NEW up \in Reachable
    PROVE  /\ \A X, lasts \in SUBSET Texts : StartRemember(w, X, lasts, batch, up) => IInv'
           /\ \A X \in SUBSET Texts : StartForget(w, X, batch, up) => IInv'
           /\ \A i \in Ids : StartForgetId(w, i, batch, up) => IInv'
<1>0. up \subseteq Nodes
  BY CallAssumption
<1>1. ASSUME NEW X \in SUBSET Texts, NEW lasts \in SUBSET Texts,
             StartRemember(w, X, lasts, batch, up)
      PROVE  IInv'
  <2> DEFINE c == [NoCall EXCEPT !.op = "remember", !.batch = batch,
                                 !.texts = X, !.lasts = lasts, !.todo = up]
  <2>1. /\ c \in Call /\ c.ok = {} /\ c.op = "remember"
        /\ c.texts = X /\ c.lasts = lasts /\ c.resolve = {}
    BY <1>0, Blank DEF NoCall, Call
  <2>2. Begin(w, c) /\ named' = named \cup {} /\ lasts \subseteq X
    BY <1>1 DEF StartRemember
  <2> HIDE DEF c
  <2>3. QED
    BY <2>1, <2>2, BeginInv
<1>2. ASSUME NEW X \in SUBSET Texts, StartForget(w, X, batch, up) PROVE IInv'
  <2> DEFINE c == [NoCall EXCEPT !.op = "forget", !.batch = batch, !.texts = X, !.todo = up]
  <2>1. c \in Call /\ c.ok = {} /\ c.op = "forget" /\ c.texts = X /\ c.lasts = {}
    BY <1>0, Blank DEF NoCall, Call
  <2>2. Begin(w, c) /\ named' = named \cup X
    BY <1>2 DEF StartForget
  <2>3. ~c.batch
    BY <2>1, <2>2 DEF Begin, Setting
  <2> HIDE DEF c
  <2>4. QED
    BY <2>1, <2>2, <2>3, BeginInv
<1>3. ASSUME NEW i \in Ids, StartForgetId(w, i, batch, up) PROVE IInv'
  <2> DEFINE c == [NoCall EXCEPT !.op = "forget", !.batch = batch, !.id = i,
                                 !.resolve = up, !.todo = up]
  <2>1. c \in Call /\ c.ok = {} /\ c.op = "forget" /\ c.texts = {} /\ c.lasts = {}
    BY <1>0, Blank DEF NoCall, Call, AnyId
  <2>2. Begin(w, c) /\ named' = named \cup {}
    BY <1>3 DEF StartForgetId
  <2>3. ~c.batch
    BY <2>1, <2>2 DEF Begin, Setting
  <2> HIDE DEF c
  <2>4. QED
    BY <2>1, <2>2, <2>3, BeginInv
<1>4. QED
  BY <1>1, <1>2, <1>3

-----------------------------------------------------------------------------
(* An id is resolved, a request of a call is served, or it fails.          *)

LEMMA ResolveInv ==
    ASSUME IInv, NEW w \in Writers, NEW n \in Nodes,
           Resolve(w, n) \/ ResolveMisses(w, n)
    PROVE  IInv'
<1> DEFINE X == Under(n, call[w].id)
           v == [call[w] EXCEPT !.resolve = @ \ {n}, !.texts = @ \cup X]
           u == [call[w] EXCEPT !.resolve = @ \ {n}]
<1>1. /\ X \in SUBSET Texts /\ call[w] \in Call /\ n \in call[w].resolve
      /\ \/ call' = [call EXCEPT ![w] = v] /\ named' = named \cup X
         \/ call' = [call EXCEPT ![w] = u] /\ named' = named
      /\ UNCHANGED <<nodes, late, query, repair, calls, acked, gone, answer>>
      /\ faults' \in Nat
  <2>1. X \in SUBSET Texts /\ call[w] \in Call /\ faults \in Nat
    BY LastingType DEF IInv, TypeOK
  <2>2. CASE Resolve(w, n)
    BY <2>1, <2>2 DEF Resolve, First
  <2>3. CASE ResolveMisses(w, n)
    BY <2>1, <2>3 DEF ResolveMisses, First, history
  <2>4. QED
    BY <2>2, <2>3
<1>2. PICK c \in Call :
        /\ call' = [call EXCEPT ![w] = c] /\ c.op = call[w].op /\ c.batch = call[w].batch
        /\ c.lasts = call[w].lasts /\ c.ok = call[w].ok /\ call[w].texts \subseteq c.texts
        /\ c.texts \subseteq call[w].texts \cup named'
        /\ c.texts = call[w].texts \/ c.texts = call[w].texts \cup X
  <2>1. v \in Call /\ u \in Call
    BY <1>1 DEF Call
  <2>2. CASE call' = [call EXCEPT ![w] = v] /\ named' = named \cup X
    <3>1. /\ v.op = call[w].op /\ v.batch = call[w].batch /\ v.lasts = call[w].lasts
          /\ v.ok = call[w].ok /\ v.texts = call[w].texts \cup X
      BY <1>1 DEF Call
    <3> HIDE DEF v
    <3>2. QED
      BY <2>1, <2>2, <3>1
  <2>3. CASE call' = [call EXCEPT ![w] = u] /\ named' = named
    <3>1. /\ u.op = call[w].op /\ u.batch = call[w].batch /\ u.lasts = call[w].lasts
          /\ u.ok = call[w].ok /\ u.texts = call[w].texts
      BY <1>1 DEF Call
    <3> HIDE DEF u
    <3>2. QED
      BY <2>1, <2>3, <3>1
  <2>4. QED
    BY <1>1, <2>2, <2>3
<1>3. call[w].op = "forget" /\ call[w].ok = {}
  BY <1>1 DEF IInv, Resolving
<1> HIDE DEF v, u, X
<1>4. Tidy
  BY <1>1, SameTidy DEF IInv, TypeOK
<1>5. TypeOK'
  BY <1>1, <1>2, <1>4 DEF IInv, TypeOK, Tidy
<1>6. NamedOnly'
  BY <1>1, <1>2 DEF IInv, TypeOK, NamedOnly, nodes
<1>7. Lasts' /\ Single' /\ Idle'
  BY <1>1, <1>2, <1>3 DEF IInv, TypeOK, Lasts, Single, Idle
<1>8. Counted' /\ Resolving'
  <2>1. \A m \in Nodes : Lasting(m)' = Lasting(m) /\ tombs'[m] = tombs[m]
    BY <1>1 DEF nodes, Lasting
  <2>2. ASSUME NEW z \in Writers
        PROVE  /\ call'[z].op = call[z].op /\ call'[z].lasts = call[z].lasts
               /\ call'[z].ok = call[z].ok /\ call'[z].ok \subseteq Nodes
               /\ z # w => call'[z] = call[z]
    BY <1>1, <1>2 DEF IInv, TypeOK, Call
  <2>3. Counted'
    <3> SUFFICES ASSUME NEW z \in Writers, NEW m \in call'[z].ok
                 PROVE  /\ call'[z].op = "remember" =>
                              call'[z].lasts \ named' \subseteq Lasting(m)'
                        /\ call'[z].op = "forget" => call'[z].texts \subseteq tombs'[m]
      BY DEF Counted
    <3>1. z # w /\ m \in Nodes
      BY <1>3, <2>2
    <3>2. named \subseteq named'
      BY <1>4 DEF Tidy
    <3>3. QED
      BY <2>1, <2>2, <3>1, <3>2 DEF IInv, Counted
  <2>4. Resolving'
    BY <1>3, <2>2 DEF IInv, Resolving
  <2>5. QED
    BY <2>3, <2>4
<1>9. Kept' /\ Buried' /\ Reading' /\ Bound'
  BY <1>1, <1>4, <1>5, NodesOnward
<1>10. QED
  BY <1>5, <1>6, <1>7, <1>8, <1>9 DEF IInv

(* What holds when writer w is answered by node n, or not: `v` is what its *)
(* record becomes if the call goes on; when it ends, what it promises is   *)
(* on a quorum.                                                            *)
LEMMA ServedInv ==
    ASSUME IInv, Setting, Tidy, NEW w \in Writers, NEW n \in Nodes, NEW v \in Call,
           Onward(w, v), call[w].op # "none",
           v.op = call[w].op, v.batch = call[w].batch, v.texts = call[w].texts,
           v.lasts = call[w].lasts, v.resolve = {}, v.ok \subseteq call[w].ok \cup {n},
           n \in v.ok => n \in call[w].ok \/
               /\ v.op = "remember" => v.lasts \subseteq Lasting(n)'
               /\ v.op = "forget" => v.texts \subseteq tombs'[n],
           UNCHANGED <<query, repair, calls, answer>>, faults' \in Nat,
           late' \subseteq Request,
           \A m \in late' : m \in late \/
              (m.lasts \subseteq m.texts /\ (m.kind # "write" => m.texts \subseteq named))
    PROVE  IInv'
<1> DEFINE u == IF Ended(v) THEN NoCall ELSE v
           done == Ended(v) /\ Cardinality(v.ok) >= WriteQuorum
<1>1. /\ call' = [call EXCEPT ![w] = u] /\ u \in Call
      /\ acked' = acked \cup IF done THEN v.lasts ELSE {}
      /\ gone' = gone \cup IF done /\ v.op = "forget" THEN v.texts ELSE {}
      /\ v.lasts \in SUBSET Texts /\ v.texts \in SUBSET Texts /\ v.ok \in SUBSET Nodes
      /\ v.op \in {"remember", "forget"}
      /\ named \subseteq named'
  BY Blank DEF Onward, Call, Tidy
<1>2. /\ v.op = "forget" => v.texts \subseteq named /\ v.lasts = {} /\ ~v.batch
      /\ v.lasts \subseteq v.texts
  BY DEF IInv, NamedOnly, Lasts, Single
<1>3. /\ u = NoCall \/ u = v
      /\ call'[w] = u /\ \A z \in Writers : z # w => call'[z] = call[z]
  BY <1>1 DEF IInv, TypeOK
<1> HIDE DEF u
<1>4. TypeOK'
  BY <1>1 DEF IInv, TypeOK, Tidy
<1>5. NamedOnly'
  <2>1. gone' \subseteq named'
    BY <1>1, <1>2 DEF IInv, NamedOnly
  <2>2. \A z \in Writers : call'[z].op = "forget" => call'[z].texts \subseteq named'
    BY <1>1, <1>2, <1>3 DEF IInv, NamedOnly, NoCall
  <2>3. \A m \in late' : m.kind # "write" => m.texts \subseteq named'
    BY <1>1 DEF IInv, NamedOnly
  <2>4. QED
    BY <1>1, <2>1, <2>2, <2>3 DEF IInv, NamedOnly, Tidy
<1>6. Lasts' /\ Single' /\ Idle' /\ Resolving'
  <2>1. ASSUME NEW z \in Writers
        PROVE  /\ call'[z].lasts \subseteq call'[z].texts
               /\ call'[z].op # "remember" => call'[z].lasts = {}
               /\ call'[z].op = "forget" => ~call'[z].batch
               /\ call'[z].op = "none" => call'[z] = NoCall
               /\ call'[z].resolve # {} => call'[z].op = "forget" /\ call'[z].ok = {}
    <3>1. CASE z # w
      BY <1>3, <3>1 DEF IInv, Lasts, Single, Idle, Resolving
    <3>2. CASE z = w /\ u = NoCall
      BY <1>3, <3>2 DEF NoCall
    <3>3. CASE z = w /\ u = v
      BY <1>1, <1>2, <1>3, <3>3
    <3>4. QED
      BY <1>3, <3>1, <3>2, <3>3
  <2>2. \A m \in late' : m.lasts \subseteq m.texts
    BY DEF IInv, Lasts
  <2>3. QED
    BY <2>1, <2>2 DEF Lasts, Single, Idle, Resolving
<1>7. \A m \in v.ok : /\ v.op = "remember" => v.lasts \ named' \subseteq Lasting(m)'
                      /\ v.op = "forget" => v.texts \subseteq tombs'[m]
  <2> SUFFICES ASSUME NEW m \in v.ok, m \in call[w].ok
               PROVE  /\ v.op = "remember" => v.lasts \ named' \subseteq Lasting(m)'
                      /\ v.op = "forget" => v.texts \subseteq tombs'[m]
    OBVIOUS
  <2>1. m \in Nodes
    BY <1>1
  <2>2. QED
    BY <1>1, <2>1 DEF IInv, Counted, Tidy
<1>8. Counted'
  <2> SUFFICES ASSUME NEW z \in Writers, NEW m \in call'[z].ok
               PROVE  /\ call'[z].op = "remember" => call'[z].lasts \ named' \subseteq Lasting(m)'
                      /\ call'[z].op = "forget" => call'[z].texts \subseteq tombs'[m]
    BY DEF Counted
  <2>1. CASE z = w
    BY <1>3, <1>7, <2>1 DEF NoCall
  <2>2. CASE z # w
    <3>1. call'[z] = call[z] /\ m \in Nodes
      BY <1>3, <1>4, <2>2 DEF TypeOK, Call
    <3>2. /\ call[z].op = "remember" => call[z].lasts \ named \subseteq Lasting(m)
          /\ call[z].op = "forget" => call[z].texts \subseteq tombs[m]
      BY <3>1 DEF IInv, Counted
    <3>3. QED
      BY <1>1, <3>1, <3>2 DEF Tidy
  <2>3. QED
    BY <2>1, <2>2
<1>9. \A t \in acked' \ acked : t \in named' \/ Cardinality(Holds(t)') >= WriteQuorum
  <2> SUFFICES ASSUME NEW t \in acked', t \notin acked, t \notin named'
               PROVE  Cardinality(Holds(t)') >= WriteQuorum
    OBVIOUS
  <2>1. done /\ t \in v.lasts /\ v.op = "remember"
    BY <1>1, <1>2
  <2>2. v.ok \subseteq Holds(t)' /\ Holds(t)' \in SUBSET Nodes
    BY <1>1, <1>7, <2>1 DEF Holds
  <2>3. QED
    BY <1>1, <2>1, <2>2, Grown
<1>10. \A t \in gone' \ gone : Cardinality(Logs(t)') >= WriteQuorum
  <2> SUFFICES ASSUME NEW t \in gone', t \notin gone
               PROVE  Cardinality(Logs(t)') >= WriteQuorum
    OBVIOUS
  <2>1. done /\ t \in v.texts /\ v.op = "forget"
    BY <1>1
  <2>2. v.ok \subseteq Logs(t)' /\ Logs(t)' \in SUBSET Nodes
    BY <1>1, <1>7, <2>1 DEF Logs
  <2>3. QED
    BY <1>1, <2>1, <2>2, Grown
<1>11. acked \subseteq acked' /\ gone \subseteq gone'
  BY <1>1
<1>12. Kept' /\ Buried' /\ Reading' /\ Bound'
  BY <1>4, <1>9, <1>10, <1>11, NodesOnward
<1>13. QED
  BY <1>4, <1>5, <1>6, <1>8, <1>12 DEF IInv

LEMMA WriteReplicaInv ==
    ASSUME IInv, Setting, NEW w \in Writers, NEW n \in Nodes, WriteReplica(w, n)
    PROVE  IInv'
<1> DEFINE v == [call[w] EXCEPT !.todo = @ \ {n}, !.ok = @ \cup {n}]
<1>1. /\ call[w] \in Call /\ call[w].op = "remember" /\ call[w].resolve = {}
      /\ call[w].texts \in SUBSET Texts /\ call[w].lasts \in SUBSET call[w].texts
      /\ Store(n, call[w].texts, call[w].lasts) /\ named' = named
      /\ UNCHANGED <<late, query, repair, calls, faults, answer>>
      /\ late \subseteq Request /\ faults \in Nat
  BY DEF WriteReplica, Turn, IInv, TypeOK, Call, Lasts
<1>2. /\ v \in Call /\ v.op = call[w].op /\ v.batch = call[w].batch
      /\ v.texts = call[w].texts /\ v.lasts = call[w].lasts /\ v.resolve = {}
      /\ v.ok = call[w].ok \cup {n}
  BY <1>1 DEF Call
<1>3. Onward(w, v)
  BY DEF WriteReplica
<1> HIDE DEF v
<1>4. Tidy /\ call[w].lasts \subseteq Lasting(n)'
  BY <1>1, StoreTidy
<1>5. QED
  BY <1>1, <1>2, <1>3, <1>4, ServedInv

LEMMA DeleteReplicaInv ==
    ASSUME IInv, Setting, NEW w \in Writers, NEW n \in Nodes, DeleteReplica(w, n)
    PROVE  IInv'
<1> DEFINE v == [call[w] EXCEPT !.todo = @ \ {n}, !.deleted = @ \cup {n}, !.ok = @]
<1>1. /\ call[w] \in Call /\ call[w].op = "forget" /\ ~call[w].batch
      /\ call[w].resolve = {} /\ Doomed(w) \in SUBSET Texts /\ Doomed(w) \subseteq named
      /\ Delete(n, Doomed(w), call[w].id)
      /\ UNCHANGED <<late, query, repair, calls, faults, answer>>
      /\ late \subseteq Request /\ faults \in Nat
  BY DEF DeleteReplica, Turn, Doomed, IInv, TypeOK, Call, Single, NamedOnly
<1>2. /\ v \in Call /\ v.op = call[w].op /\ v.batch = call[w].batch
      /\ v.texts = call[w].texts /\ v.lasts = call[w].lasts /\ v.resolve = {}
      /\ v.ok = call[w].ok
  BY <1>1 DEF Call
<1>3. Onward(w, v)
  BY <1>1 DEF DeleteReplica
<1> HIDE DEF v
<1>4. Tidy
  BY <1>1, DeleteTidy
<1>5. QED
  BY <1>1, <1>2, <1>3, <1>4, ServedInv

LEMMA LogTombstoneInv ==
    ASSUME IInv, Setting, NEW w \in Writers, NEW n \in Nodes, LogTombstone(w, n)
    PROVE  IInv'
<1> DEFINE v == [call[w] EXCEPT
                    !.deleted = @ \ {n},
                    !.ok = IF call[w].texts = {} THEN @ ELSE @ \cup {n}]
<1>1. /\ call[w] \in Call /\ call[w].op = "forget" /\ call[w].resolve = {}
      /\ call[w].texts \in SUBSET Texts /\ call[w].texts \subseteq named
      /\ Log(n, call[w].texts) /\ named' = named
      /\ UNCHANGED <<late, query, repair, calls, faults, answer>>
      /\ late \subseteq Request /\ faults \in Nat
  BY DEF LogTombstone, Turn, IInv, TypeOK, Call, NamedOnly
<1>2. /\ v \in Call /\ v.op = call[w].op /\ v.batch = call[w].batch
      /\ v.texts = call[w].texts /\ v.lasts = call[w].lasts /\ v.resolve = {}
      /\ v.ok \subseteq call[w].ok \cup {n}
  BY <1>1 DEF Call
<1>3. Onward(w, v)
  BY DEF LogTombstone
<1> HIDE DEF v
<1>4. Tidy /\ call[w].texts \subseteq tombs'[n]
  BY <1>1, LogTidy
<1>5. QED
  BY <1>1, <1>2, <1>3, <1>4, ServedInv

LEMMA RequestFailsInv ==
    ASSUME IInv, Setting, NEW w \in Writers, NEW n \in Nodes, RequestFails(w, n)
    PROVE  IInv'
<1> DEFINE v == [call[w] EXCEPT !.todo = @ \ {n}, !.deleted = @ \ {n}]
<1>1. /\ call[w] \in Call /\ n \in call[w].todo \cup call[w].deleted
      /\ call[w].texts \in SUBSET Texts /\ Doomed(w) \subseteq call[w].texts
      /\ call[w].lasts \in SUBSET call[w].texts /\ call[w].id \in AnyId /\ 0 \in AnyId
      /\ call[w].op # "remember" => call[w].lasts = {}
      /\ call[w].resolve = {} /\ named' = named /\ nodes' = nodes
      /\ UNCHANGED <<query, repair, calls, answer>>
      /\ faults' \in Nat /\ late' = late \cup {Pending(w, n)} /\ late \subseteq Request
  BY DEF RequestFails, Turn, Fail, Doomed, IInv, TypeOK, Call, Lasts, AnyId
<1>2. /\ v \in Call /\ v.op = call[w].op /\ v.batch = call[w].batch
      /\ v.texts = call[w].texts /\ v.lasts = call[w].lasts /\ v.resolve = {}
      /\ v.ok = call[w].ok
  BY <1>1 DEF Call
<1>3. Onward(w, v)
  BY DEF RequestFails
<1> HIDE DEF v
<1>4. Pending(w, n) \in Request
  BY <1>1 DEF Pending, Request
<1>5. call[w].op # "none"
  BY <1>1 DEF IInv, Idle, NoCall
<1>6. /\ Pending(w, n).lasts \subseteq Pending(w, n).texts
      /\ Pending(w, n).kind # "write" => Pending(w, n).texts \subseteq named
  <2>1. call[w].op = "forget" => call[w].texts \subseteq named
    BY DEF IInv, NamedOnly
  <2>2. Pending(w, n).kind # "write" => call[w].op = "forget"
    BY <1>1, <1>5 DEF Pending, Call
  <2>3. Pending(w, n).texts \subseteq call[w].texts
    BY <1>1 DEF Pending
  <2>4. Pending(w, n).lasts = call[w].lasts
    BY DEF Pending
  <2>5. call[w].op = "remember" => Pending(w, n).texts = call[w].texts
    BY DEF Pending
  <2>6. QED
    BY <1>1, <2>1, <2>2, <2>3, <2>4, <2>5
<1>7. Tidy
  BY <1>1, SameTidy DEF IInv, TypeOK
<1>8. late' \subseteq Request
  BY <1>1, <1>4
<1>9. QED
  BY <1>1, <1>2, <1>3, <1>5, <1>6, <1>7, <1>8, ServedInv

-----------------------------------------------------------------------------
(* The query reads.                                                        *)

(* Only the query changes.                                                 *)
LEMMA QueryStep ==
    ASSUME IInv, query' \in Query, query'.tombs \subseteq named,
           UNCHANGED <<nodes, late, call, repair, calls, history>>,
           faults' \in Nat, answer' \subseteq SUBSET Texts,
           Reading', Bound'
    PROVE  IInv'
<1>1. TypeOK'
  BY DEF IInv, TypeOK, nodes, history
<1>2. NamedOnly' /\ Lasts' /\ Single' /\ Idle' /\ Resolving'
  BY DEF IInv, NamedOnly, Lasts, Single, Idle, Resolving, nodes, history
<1>3. Kept' /\ Buried' /\ Counted'
  <2>1. \A m \in Nodes : Lasting(m)' = Lasting(m) /\ tombs'[m] = tombs[m]
    BY DEF nodes, Lasting
  <2>2. \A t : Holds(t)' = Holds(t) /\ Logs(t)' = Logs(t)
    BY <2>1 DEF Holds, Logs
  <2>3. \A w \in Writers : call[w].ok \subseteq Nodes
    BY DEF IInv, TypeOK, Call
  <2>4. QED
    BY <2>1, <2>2, <2>3 DEF IInv, Kept, Buried, Counted, history
<1>4. QED
  BY <1>1, <1>2, <1>3 DEF IInv

LEMMA AskInv ==
    ASSUME IInv, NEW up \in Reachable, Ask(up)
    PROVE  IInv'
<1>0. ReadNodes(up) \in SUBSET Nodes
  BY CallAssumption DEF ReadNodes
<1>1. /\ query'.open /\ query'.from = ReadNodes(up) /\ query'.unheard = ReadNodes(up)
      /\ query'.unread = ReadNodes(up) /\ query'.tombs = {} /\ query'.reads = {}
      /\ query'.seen = {} /\ query'.must = acked \ named /\ query'.not = gone
      /\ query' \in Query /\ ~query'.deaf /\ answer' = {}
      /\ UNCHANGED <<nodes, late, call, repair, calls, faults, history>>
  BY <1>0 DEF Ask, NoQuery, Query, IInv, TypeOK
<1>2. Reading'
  BY <1>1 DEF Reading, history
<1>3. \A t : Fresh(t)' = Holds(t) /\ Told(t)' = Logs(t)
  BY <1>1 DEF Fresh, Holds, Told, Logs, Lasting, nodes
<1>4. Bound'
  BY <1>1, <1>3 DEF Bound, IInv, Kept, Buried, history
<1>5. QED
  BY <1>1, <1>2, <1>4, QueryStep DEF IInv, TypeOK

LEMMA HearTombstonesInv ==
    ASSUME IInv, NEW n \in Nodes, HearTombstones(n)
    PROVE  IInv'
<1>1. /\ n \in query.unheard /\ query.unheard \subseteq Nodes
      /\ query' = [query EXCEPT !.unheard = @ \ {n}, !.tombs = @ \cup tombs[n]]
      /\ UNCHANGED <<nodes, late, call, repair, calls, faults, history, answer>>
  BY DEF HearTombstones, First, IInv, TypeOK, Query
<1>2. /\ query' \in Query /\ query'.open = query.open /\ query'.from = query.from
      /\ query'.unheard = query.unheard \ {n} /\ query'.unread = query.unread
      /\ query'.tombs = query.tombs \cup tombs[n] /\ query'.reads = query.reads
      /\ query'.seen = query.seen /\ query'.must = query.must /\ query'.not = query.not
      /\ query'.deaf = query.deaf
  BY <1>1 DEF IInv, TypeOK, Query
<1>3. query.open /\ query.reads = {} /\ query.seen = {}
  BY <1>1 DEF IInv, Reading, NoQuery
<1>4. Reading'
  BY <1>1, <1>2, <1>3 DEF IInv, Reading, history
<1>5. \A t : Fresh(t)' = Fresh(t) /\ Told(t) \subseteq Told(t)'
  BY <1>1, <1>2 DEF Fresh, Told, Lasting, nodes
<1>6. \A t : Told(t) \in SUBSET Nodes /\ Told(t)' \in SUBSET Nodes
  BY DEF Told
<1>7. ~query'.deaf => \A t \in query'.not : Cardinality(Told(t)') >= WriteQuorum
  BY <1>2, <1>5, <1>6, Grown DEF IInv, Bound
<1>8. Bound'
  BY <1>1, <1>2, <1>5, <1>7 DEF IInv, Bound, history
<1>9. query'.tombs \subseteq named
  BY <1>2 DEF IInv, NamedOnly
<1>10. QED
  BY <1>1, <1>2, <1>4, <1>8, <1>9, QueryStep DEF IInv, TypeOK

(* A query that misses the tombstones of a node is deaf.                   *)
LEMMA MissTombstonesInv ==
    ASSUME IInv, NEW n \in Nodes, MissTombstones(n)
    PROVE  IInv'
<1>1. /\ n \in query.unheard
      /\ query' = [query EXCEPT !.unheard = @ \ {n}, !.deaf = TRUE]
      /\ faults' = faults + 1
      /\ UNCHANGED <<nodes, late, call, repair, calls, history, answer>>
  BY DEF MissTombstones, First
<1>2. /\ query' \in Query /\ query'.deaf
      /\ query'.unheard = query.unheard \ {n}
      /\ query'.open = query.open /\ query'.from = query.from
      /\ query'.unread = query.unread /\ query'.tombs = query.tombs
      /\ query'.reads = query.reads /\ query'.seen = query.seen
      /\ query'.must = query.must /\ query'.not = query.not
  BY <1>1 DEF IInv, TypeOK, Query
<1>3. query.open /\ query.reads = {} /\ query.seen = {}
  BY <1>1 DEF IInv, Reading, NoQuery
<1>4. Reading'
  BY <1>1, <1>2, <1>3 DEF IInv, Reading, history
<1>5. \A t : Fresh(t)' = Fresh(t)
  BY <1>1, <1>2 DEF Fresh, Lasting, nodes
<1>6. Bound'
  BY <1>1, <1>2, <1>5 DEF IInv, Bound, history
<1>7. query'.tombs \subseteq named
  BY <1>2 DEF IInv, NamedOnly
<1>8. QED
  BY <1>1, <1>2, <1>4, <1>6, <1>7, QueryStep DEF IInv, TypeOK

(* What the query has once node n was asked for its results, or missed.    *)
Read(n) == [query EXCEPT !.unread = @ \ {n}, !.reads = @ \cup {n},
                         !.seen = @ \cup (Shown(n) \ query.tombs)]

Missed(n) == [query EXCEPT !.unread = @ \ {n}]

LEMMA ReadType ==
    ASSUME IInv, NEW n \in Nodes, query.unheard = {}, n \in query.unread,
           NEW q, q = Read(n) \/ q = Missed(n)
    PROVE  /\ q \in Query /\ q.open = query.open /\ q.from = query.from
           /\ q.unheard = {} /\ q.tombs = query.tombs /\ q.unread = query.unread \ {n}
           /\ q.must = query.must /\ q.not = query.not /\ q.deaf = query.deaf
           /\ \/ q.seen = query.seen /\ q.reads = query.reads
              \/ /\ q.seen = query.seen \cup (Shown(n) \ query.tombs)
                 /\ q.reads = query.reads \cup {n}
<1>1. query \in Query /\ Shown(n) \subseteq Texts
  BY LastingType DEF IInv, TypeOK
<1>2. CASE q = Read(n)
  BY <1>1, <1>2 DEF Read, Query
<1>3. CASE q = Missed(n)
  BY <1>1, <1>3 DEF Missed, Query
<1>4. QED
  BY <1>2, <1>3

(* What a node shows is all it holds and no tombstone names: a memory the  *)
(* query owes and that the node holds is seen from now on.                 *)
LEMMA ReadResultsInv ==
    ASSUME IInv, NEW n \in Nodes, ReadResults(n) \/ MissResults(n)
    PROVE  IInv'
<1>1. PICK q : /\ q = Read(n) \/ q = Missed(n)
               /\ Reply(q) /\ n \in query.unread /\ query.unheard = {} /\ faults' \in Nat
  BY DEF ReadResults, MissResults, First, Read, Missed, IInv, TypeOK
<1>2. /\ q \in Query /\ q.open = query.open /\ q.from = query.from
      /\ q.unheard = {} /\ q.tombs = query.tombs /\ q.unread = query.unread \ {n}
      /\ q.must = query.must /\ q.not = query.not /\ q.deaf = query.deaf
      /\ \/ q.seen = query.seen /\ q.reads = query.reads
         \/ /\ q.seen = query.seen \cup (Shown(n) \ query.tombs)
            /\ q.reads = query.reads \cup {n}
  BY <1>1, ReadType
<1>3. /\ UNCHANGED <<nodes, late, call, repair, calls, history>>
      /\ query' = NoQuery \/ query' = q
      /\ answer' \subseteq SUBSET Texts
  BY <1>1, <1>2 DEF Reply, IInv, TypeOK, Query
<1>4. CASE query' = NoQuery
  <2>1. query' \in Query /\ query'.tombs \subseteq named /\ Reading' /\ Bound'
    BY <1>4, Blank DEF NoQuery, Reading, Bound
  <2>2. QED
    BY <1>1, <1>3, <2>1, QueryStep
<1>5. CASE query' = q
  <2>1. query.open /\ n \in query.from
    BY <1>1 DEF IInv, Reading, NoQuery
  <2>2. Reading'
    BY <1>1, <1>2, <1>3, <1>5, <2>1 DEF IInv, Reading, history
  <2>3. \A t \in query.must \ named : Fresh(t) \subseteq Fresh(t)'
    <3> SUFFICES ASSUME NEW t \in query.must \ named, NEW m \in Fresh(t)
                 PROVE  m \in Fresh(t)'
      OBVIOUS
    <3>1. m \in Nodes /\ t \in Lasting(m) /\ (m \in query.reads => t \in query.seen)
      BY DEF Fresh
    <3>2. Lasting(m)' = Lasting(m)
      BY <1>3 DEF nodes, Lasting
    <3>3. t \notin query.tombs /\ Lasting(n) \subseteq Shown(n)
      BY LastingType DEF IInv, NamedOnly
    <3>4. m \in query'.reads => t \in query'.seen
      BY <1>2, <1>5, <3>1, <3>3
    <3>5. QED
      BY <3>1, <3>2, <3>4 DEF Fresh
  <2>4. \A t : Fresh(t) \in SUBSET Nodes /\ Fresh(t)' \in SUBSET Nodes
    BY DEF Fresh
  <2>5. \A t \in query'.must \ named' : Cardinality(Fresh(t)') >= WriteQuorum
    BY <1>2, <1>3, <1>5, <2>3, <2>4, Grown DEF IInv, Bound, history
  <2>6. \A t : Told(t)' = Told(t)
    BY <1>1, <1>2, <1>3, <1>5 DEF Told, nodes
  <2>7. Bound'
    BY <1>2, <1>5, <2>5, <2>6 DEF IInv, Bound
  <2>8. query' \in Query /\ query'.tombs \subseteq named
    BY <1>2, <1>5 DEF IInv, NamedOnly
  <2>9. QED
    BY <1>1, <1>3, <2>2, <2>7, <2>8, QueryStep
<1>6. QED
  BY <1>3, <1>4, <1>5

-----------------------------------------------------------------------------
(* Repair, and what arrives late or runs out.                              *)

(* Neither calls nor queries change.                                       *)
LEMMA OtherStep ==
    ASSUME IInv, Tidy, UNCHANGED <<call, query, calls, acked, gone, answer>>,
           repair' \in Repair, late' \subseteq Request, faults' \in Nat,
           repair'.tombs \subseteq named,
           \A n \in Nodes, t \in Texts : <<n, "delete", t>> \in repair'.work => t \in named,
           \A m \in late' : m \in late \/
              (m.lasts \subseteq m.texts /\ (m.kind # "write" => m.texts \subseteq named))
    PROVE  IInv'
<1>1. TypeOK'
  BY DEF IInv, TypeOK, Tidy
<1>2. NamedOnly'
  BY DEF IInv, NamedOnly, Tidy
<1>3. Lasts' /\ Single' /\ Idle' /\ Resolving'
  BY DEF IInv, Lasts, Single, Idle, Resolving
<1>4. Counted'
  <2> SUFFICES ASSUME NEW w \in Writers, NEW n \in call[w].ok
               PROVE  /\ call[w].op = "remember" => call[w].lasts \ named' \subseteq Lasting(n)'
                      /\ call[w].op = "forget" => call[w].texts \subseteq tombs'[n]
    BY DEF Counted
  <2>1. n \in Nodes
    BY DEF IInv, TypeOK, Call
  <2>2. /\ call[w].op = "remember" => call[w].lasts \ named \subseteq Lasting(n)
        /\ call[w].op = "forget" => call[w].texts \subseteq tombs[n]
    BY DEF IInv, Counted
  <2>3. QED
    BY <2>1, <2>2 DEF Tidy
<1>5. Kept' /\ Buried' /\ Reading' /\ Bound'
  BY <1>1, NodesOnward
<1>6. QED
  BY <1>1, <1>2, <1>3, <1>4, <1>5 DEF IInv

LEMMA DeliverTidy ==
    ASSUME IInv, NEW m \in late, Deliver(m)
    PROVE  Tidy /\ \E Y \in SUBSET Texts : named' = named \cup Y
<1>1. /\ m.node \in Nodes /\ m.kind \in {"write", "delete", "log"}
      /\ m.texts \in SUBSET Texts /\ m.lasts \in SUBSET m.texts
      /\ m.kind # "write" => m.texts \subseteq named
  BY DEF IInv, TypeOK, Request, Lasts, NamedOnly
<1>2. CASE m.kind = "write"
  <2>1. Store(m.node, m.texts, m.lasts) /\ named' = named
    BY <1>2 DEF Deliver
  <2>2. Tidy
    BY <1>1, <2>1, StoreTidy
  <2>3. named' = named \cup {}
    BY <2>1
  <2>4. QED
    BY <2>2, <2>3
<1>3. CASE m.kind = "delete"
  <2>1. Delete(m.node, m.texts, m.id) /\ m.texts \subseteq named
    BY <1>1, <1>3 DEF Deliver
  <2>2. QED
    BY <1>1, <2>1, DeleteTidy
<1>4. CASE m.kind = "log"
  <2>1. Log(m.node, m.texts) /\ named' = named /\ m.texts \subseteq named
    BY <1>1, <1>4 DEF Deliver
  <2>2. Tidy
    BY <1>1, <2>1, LogTidy
  <2>3. named' = named \cup {}
    BY <2>1
  <2>4. QED
    BY <2>2, <2>3
<1>5. QED
  BY <1>1, <1>2, <1>3, <1>4

LEMMA DeliverInv ==
    ASSUME IInv, NEW m \in late, Deliver(m)
    PROVE  IInv'
<1>1. /\ UNCHANGED <<call, query, calls, acked, gone, answer>>
      /\ late' = late \ {m} /\ repair' = repair /\ faults' = faults
  BY DEF Deliver
<1>2. /\ repair \in Repair /\ repair.tombs \subseteq named
      /\ \A n \in Nodes, t \in Texts : <<n, "delete", t>> \in repair.work => t \in named
      /\ late \subseteq Request /\ faults \in Nat
  BY DEF IInv, TypeOK, NamedOnly
<1>3. late' \subseteq Request /\ late' \subseteq late
  BY <1>1, <1>2
<1>4. QED
  BY <1>1, <1>2, <1>3, DeliverTidy, OtherStep

LEMMA ExpireInv ==
    ASSUME IInv, NEW n \in Nodes, NEW r \in rows[n], Expire(n, r)
    PROVE  IInv'
<1> DEFINE R == (rows[n] \ {r}) \cup IF r.id = 0 THEN {} ELSE {[r EXCEPT !.life = "over"]}
<1>1. /\ r.life = "mortal" /\ rows' = [rows EXCEPT ![n] = R]
      /\ UNCHANGED <<stored, tombs, late, call, query, repair, calls, faults, history, answer>>
  BY DEF Expire
<1>2. r \in Row /\ rows[n] \subseteq Row
  BY DEF IInv, TypeOK
<1>3. R \subseteq Row
  BY <1>2 DEF Row
<1>4. \A q \in rows[n] : q.life = "lasts" => q \in R
  BY <1>1
<1> HIDE DEF R
<1>5. rows' \in [Nodes -> SUBSET Row] /\ rows'[n] = R /\ \A m \in Nodes : m # n => rows'[m] = rows[m]
  BY <1>1, <1>3 DEF IInv, TypeOK
<1>6. \A m \in Nodes : Lasting(m) \subseteq Lasting(m)'
  BY <1>4, <1>5 DEF Lasting
<1>7. Tidy
  BY <1>1, <1>5, <1>6 DEF Tidy, IInv, TypeOK, NamedOnly, history
<1>8. /\ repair \in Repair /\ repair.tombs \subseteq named
      /\ \A m \in Nodes, x \in Texts : <<m, "delete", x>> \in repair.work => x \in named
      /\ late \subseteq Request /\ faults \in Nat
  BY DEF IInv, TypeOK, NamedOnly
<1>9. /\ late' = late /\ repair' = repair /\ faults' = faults
      /\ UNCHANGED <<call, query, calls, acked, gone, answer>>
  BY <1>1 DEF history
<1>10. QED
  BY <1>7, <1>8, <1>9, OtherStep

(* A repair that only plans: its nodes are untouched.                      *)
LEMMA PlanInv ==
    ASSUME IInv, UNCHANGED <<nodes, late, call, query, calls, history, answer>>,
           faults' \in Nat,
           NEW r \in Repair, repair' = Planned(r), r.tombs \subseteq named,
           \A n \in Nodes, t \in Texts : <<n, "delete", t>> \in r.work => t \in named
    PROVE  IInv'
<1>1. /\ Planned(r) \in Repair /\ Planned(r).tombs \subseteq named
      /\ \A n \in Nodes, t \in Texts : <<n, "delete", t>> \in Planned(r).work => t \in named
  BY PlannedType
<1>2. Tidy /\ late' \subseteq Request /\ late' = late
  BY SameTidy DEF IInv, TypeOK, history
<1>3. UNCHANGED <<call, query, calls, acked, gone, answer>>
  BY DEF history
<1>4. QED
  BY <1>1, <1>2, <1>3, OtherStep

LEMMA RepairReadsInv ==
    ASSUME IInv, NEW n \in Nodes, RepairExport(n) \/ RepairMisses(n)
    PROVE  IInv'
<1>0. /\ repair \in Repair /\ Shown(n) \subseteq Texts /\ tombs[n] \subseteq Texts
      /\ tombs[n] \subseteq named /\ repair.tombs \subseteq named
      /\ \A m \in Nodes, t \in Texts : <<m, "delete", t>> \in repair.work => t \in named
      /\ faults \in Nat
  BY LastingType DEF IInv, TypeOK, NamedOnly
<1>1. CASE RepairExport(n)
  <2> DEFINE r == [repair EXCEPT
          !.todo = @ \ {n}, !.heard = @ \cup {n},
          !.exported[n] = Shown(n), !.tombs = @ \cup tombs[n]]
  <2>1. r \in Repair /\ r.tombs = repair.tombs \cup tombs[n] /\ r.work = repair.work
    BY <1>0 DEF Repair
  <2>2. repair' = Planned(r) /\ faults' = faults
        /\ UNCHANGED <<nodes, late, call, query, calls, history, answer>>
    BY <1>1 DEF RepairExport
  <2> HIDE DEF r
  <2>3. QED
    BY <1>0, <2>1, <2>2, PlanInv
<1>2. CASE RepairMisses(n)
  <2> DEFINE r == [repair EXCEPT !.todo = @ \ {n}]
  <2>1. r \in Repair /\ r.tombs = repair.tombs /\ r.work = repair.work
    BY <1>0 DEF Repair
  <2>2. repair' = Planned(r) /\ faults' = faults + 1
        /\ UNCHANGED <<nodes, late, call, query, calls, history, answer>>
    BY <1>2 DEF RepairMisses
  <2> HIDE DEF r
  <2>3. QED
    BY <1>0, <2>1, <2>2, PlanInv
<1>3. QED
  BY <1>1, <1>2

LEMMA StartRepairInv ==
    ASSUME IInv, NEW up \in Reachable, StartRepair(up)
    PROVE  IInv'
<1> DEFINE r == [NoRepair EXCEPT !.todo = up]
<1>1. r \in Repair /\ r.tombs = {} /\ r.work = {} /\ r.todo # {}
  BY CallAssumption, Blank DEF NoRepair, Repair, StartRepair
<1>2. repair' = r /\ UNCHANGED <<nodes, late, call, query, calls, faults, history, answer>>
  BY DEF StartRepair
<1> HIDE DEF r
<1>3. repair' = Planned(r)
  BY <1>1, <1>2 DEF Planned
<1>4. QED
  BY <1>1, <1>2, <1>3, PlanInv DEF IInv, TypeOK

LEMMA RepairWorkInv ==
    ASSUME IInv, NEW n \in Nodes, NEW t \in Texts,
           RepairDelete(n, t) \/ RepairCopy(n, t)
             \/ \E kind \in {"delete", "copy"} : RepairFails(n, kind, t)
    PROVE  IInv'
<1>0. /\ repair \in Repair /\ repair.tombs \subseteq named
      /\ \A m \in Nodes, x \in Texts : <<m, "delete", x>> \in repair.work => x \in named
      /\ late \subseteq Request /\ faults \in Nat
  BY DEF IInv, TypeOK, NamedOnly
<1>1. /\ repair' \in Repair /\ repair'.tombs = repair.tombs
      /\ repair'.work \subseteq repair.work
      /\ UNCHANGED <<call, query, calls, acked, gone, answer>>
  <2>1. ASSUME NEW o, repair' = [repair EXCEPT !.work = @ \ {o}]
        PROVE  /\ repair' \in Repair /\ repair'.tombs = repair.tombs
               /\ repair'.work \subseteq repair.work
    BY <1>0, <2>1 DEF Repair
  <2>2. ASSUME NEW kind \in {"delete", "copy"}, RepairFails(n, kind, t)
        PROVE  /\ repair' \in Repair /\ repair'.tombs = repair.tombs
               /\ repair'.work \subseteq repair.work
    BY <1>0, <2>2 DEF RepairFails, Repair
  <2>3. QED
    BY <2>1, <2>2 DEF RepairDelete, RepairCopy, RepairFails, history
<1>2. CASE RepairDelete(n, t)
  <2>1. t \in named /\ Delete(n, {t}, 0) /\ late' = late /\ faults' = faults
    BY <1>0, <1>2 DEF RepairDelete, NextWork
  <2>2. Tidy
    BY <2>1, DeleteTidy
  <2>3. QED
    BY <1>0, <1>1, <2>1, <2>2, OtherStep
<1>3. CASE RepairCopy(n, t)
  <2>1. Store(n, {t}, {t}) /\ named' = named /\ late' = late /\ faults' = faults
    BY <1>3 DEF RepairCopy, history
  <2>2. Tidy
    BY <2>1, StoreTidy
  <2>3. QED
    BY <1>0, <1>1, <2>1, <2>2, OtherStep
<1>4. ASSUME NEW kind \in {"delete", "copy"}, RepairFails(n, kind, t)
      PROVE  IInv'
  <2> DEFINE m == [node |-> n, kind |-> IF kind = "copy" THEN "write" ELSE "delete",
                   texts |-> {t}, lasts |-> {t}, id |-> 0]
  <2>1. /\ m \in Request /\ late' = late \cup {m} /\ faults' = faults + 1
        /\ nodes' = nodes /\ named' = named /\ <<n, kind, t>> \in repair.work
    BY <1>4 DEF RepairFails, Fail, NextWork, Request, AnyId, history
  <2>2. m.lasts \subseteq m.texts /\ (m.kind # "write" => m.texts \subseteq named)
    BY <1>0, <2>1
  <2> HIDE DEF m
  <2>3. Tidy
    BY <2>1, SameTidy DEF IInv, TypeOK
  <2>4. QED
    BY <1>0, <1>1, <2>1, <2>2, <2>3, OtherStep
<1>5. QED
  BY <1>2, <1>3, <1>4

-----------------------------------------------------------------------------
LEMMA NextInv == ASSUME Setting PROVE IInv /\ [Next]_vars => IInv'
<1> SUFFICES ASSUME IInv, [Next]_vars PROVE IInv'
  OBVIOUS
<1>1. ASSUME NEW w \in Writers, NEW batch \in BOOLEAN, NEW up \in Reachable,
             \/ \E X, lasts \in SUBSET Texts : StartRemember(w, X, lasts, batch, up)
             \/ \E X \in SUBSET Texts : StartForget(w, X, batch, up)
             \/ \E i \in Ids : StartForgetId(w, i, batch, up)
      PROVE  IInv'
  BY <1>1, StartInv
<1>2. ASSUME NEW w \in Writers, CallStep(w) PROVE IInv'
  BY <1>2, WriteReplicaInv, DeleteReplicaInv, LogTombstoneInv, RequestFailsInv,
     ResolveInv DEF CallStep
<1>3. ASSUME NEW up \in Reachable, Ask(up) \/ StartRepair(up) PROVE IInv'
  BY <1>3, AskInv, StartRepairInv
<1>4. ASSUME NEW n \in Nodes,
             \/ HearTombstones(n) \/ MissTombstones(n)
             \/ ReadResults(n) \/ MissResults(n)
             \/ \E r \in rows[n] : Expire(n, r)
      PROVE  IInv'
  BY <1>4, HearTombstonesInv, MissTombstonesInv, ReadResultsInv, ExpireInv
<1>5. CASE RepairStep
  BY <1>5, RepairReadsInv, RepairWorkInv DEF RepairStep
<1>6. ASSUME NEW m \in late, Deliver(m) PROVE IInv'
  BY <1>6, DeliverInv
<1>7. CASE UNCHANGED vars
  <2>1. UNCHANGED <<nodes, late, call, query, repair, calls, faults, history, answer>>
    BY <1>7 DEF vars
  <2>2. Tidy /\ UNCHANGED <<acked, named, gone>>
    BY <2>1, SameTidy DEF IInv, TypeOK, history
  <2>3. /\ repair \in Repair /\ repair.tombs \subseteq named
        /\ \A m \in Nodes, x \in Texts : <<m, "delete", x>> \in repair.work => x \in named
        /\ late \subseteq Request /\ faults \in Nat
    BY DEF IInv, TypeOK, NamedOnly
  <2>4. late' = late /\ repair' = repair /\ faults' = faults
    BY <2>1
  <2>5. QED
    BY <2>1, <2>2, <2>3, <2>4, OtherStep
<1>8. QED
  BY <1>1, <1>2, <1>3, <1>4, <1>5, <1>6, <1>7 DEF Next

(* Every variable keeps its type, and so does all that is in progress.     *)
THEOREM TypeCorrect == ASSUME Setting PROVE Spec => []TypeOK
<1>1. IInv => TypeOK
  BY DEF IInv
<1>2. QED
  BY InitInv, NextInv, <1>1, PTL DEF Spec

(* What a query may return: a memory it owes is shown by one of the nodes  *)
(* it read, and a memory it must not show is in the tombstones it heard.   *)
LEMMA ReplyKeeps ==
    ASSUME Setting, IInv, NEW n \in Nodes, query.unheard = {}, n \in query.unread,
           NEW q, q = Read(n) \/ q = Missed(n), Cardinality(q.reads) >= ReadQuorum
    PROVE  /\ q.seen \in SUBSET Texts /\ query.must \ named \subseteq q.seen
           /\ ~query.deaf => q.seen \cap query.not = {}
<1>1. /\ q \in Query /\ q.tombs = query.tombs
      /\ \/ q.seen = query.seen /\ q.reads = query.reads
         \/ /\ q.seen = query.seen \cup (Shown(n) \ query.tombs)
            /\ q.reads = query.reads \cup {n}
  BY ReadType
<1>2. /\ q.reads \in SUBSET Nodes /\ q.reads \subseteq query.from
      /\ q.seen \in SUBSET Texts /\ q.seen \cap query.tombs = {}
  BY <1>1 DEF IInv, TypeOK, Query, Reading
<1>3. ASSUME NEW t \in query.must \ named PROVE t \in q.seen
  <2>1. Fresh(t) \in SUBSET Nodes /\ Cardinality(Fresh(t)) >= WriteQuorum
    BY <1>3 DEF Fresh, IInv, Bound
  <2>2. PICK m \in Nodes : m \in q.reads /\ m \in Fresh(t)
    BY <1>2, <2>1, QuorumsMeet
  <2>3. /\ t \in Lasting(m) /\ (m \in query.reads => t \in query.seen)
        /\ t \notin query.tombs /\ Lasting(n) \subseteq Shown(n)
    BY <2>2, LastingType DEF Fresh, IInv, NamedOnly
  <2>4. QED
    BY <1>1, <2>2, <2>3
<1>4. ASSUME ~query.deaf, NEW t \in query.not PROVE t \notin q.seen
  <2>1. Told(t) \in SUBSET Nodes /\ Cardinality(Told(t)) >= WriteQuorum
    BY <1>4 DEF Told, IInv, Bound
  <2>2. PICK m \in Nodes : m \in q.reads /\ m \in Told(t)
    BY <1>2, <2>1, QuorumsMeet
  <2>3. t \in query.tombs
    BY <1>2, <2>2 DEF Told
  <2>4. QED
    BY <1>2, <2>3
<1>5. QED
  BY <1>2, <1>3, <1>4

(* Every step of the nodes and their clients is a step of the promise, or  *)
(* none of its concern.                                                    *)
LEMMA StepKeeps ==
    ASSUME Setting, IInv, [Next]_vars
    PROVE  [Promise!Next]_(Promise!vars)
<1> DEFINE Same == UNCHANGED <<acked, named, gone, answer, Question>>
<1>0. query' = query => Question' = Question
  BY DEF Question
<1>1. Same => UNCHANGED Promise!vars
  BY DEF Promise!vars
<1>2. ASSUME NEW Y \in SUBSET Texts, named' = named \cup Y,
             UNCHANGED <<acked, gone, answer, query>>
      PROVE  Promise!Next
  <2>1. Promise!Name(Y)
    BY <1>0, <1>2 DEF Promise!Name
  <2>2. QED
    BY <2>1 DEF Promise!Next
<1>3. ASSUME NEW w \in Writers, NEW batch \in BOOLEAN, NEW up \in Reachable,
             \/ \E X, lasts \in SUBSET Texts : StartRemember(w, X, lasts, batch, up)
             \/ \E X \in SUBSET Texts : StartForget(w, X, batch, up)
             \/ \E i \in Ids : StartForgetId(w, i, batch, up)
      PROVE  Promise!Next \/ Same
  <2>1. CASE \E X, lasts \in SUBSET Texts : StartRemember(w, X, lasts, batch, up)
    BY <1>0, <2>1 DEF StartRemember, Begin
  <2>2. ASSUME NEW X \in SUBSET Texts, StartForget(w, X, batch, up) PROVE Promise!Next
    BY <1>2, <2>2 DEF StartForget, Begin
  <2>3. CASE \E i \in Ids : StartForgetId(w, i, batch, up)
    BY <1>0, <2>3 DEF StartForgetId, Begin
  <2>4. QED
    BY <1>3, <2>1, <2>2, <2>3
<1>4. ASSUME NEW w \in Writers, NEW c \in Call, Onward(w, c), named' = named,
             UNCHANGED <<answer, query>>, c.op = call[w].op, c.lasts = call[w].lasts,
             c.texts = call[w].texts
      PROVE  Promise!Next \/ Same
  <2>1. /\ c.texts \in SUBSET Texts /\ c.lasts \in SUBSET Texts
        /\ c.op # "remember" => c.lasts = {}
        /\ c.op = "forget" => c.texts \subseteq named
    BY <1>4 DEF IInv, Call, Lasts, NamedOnly
  <2>2. CASE c.op # "forget"
    <3>1. gone' = gone
      BY <1>4, <2>2 DEF Onward
    <3>2. PICK X \in SUBSET Texts : acked' = acked \cup X
      BY <1>4, <2>1 DEF Onward
    <3>3. Promise!Keep(X)
      BY <1>0, <1>4, <3>1, <3>2 DEF Promise!Keep
    <3>4. QED
      BY <3>3 DEF Promise!Next
  <2>3. CASE c.op = "forget"
    <3>1. acked' = acked
      BY <1>4, <2>1, <2>3 DEF Onward
    <3>2. PICK X \in SUBSET Texts : gone' = gone \cup X /\ X \subseteq named
      BY <1>4, <2>1, <2>3 DEF Onward
    <3>3. Promise!End(X)
      BY <1>0, <1>4, <3>1, <3>2 DEF Promise!End
    <3>4. QED
      BY <3>3 DEF Promise!Next
  <2>4. QED
    BY <2>2, <2>3
<1>5. ASSUME NEW w \in Writers, CallStep(w) PROVE Promise!Next \/ Same
  <2>0. call[w] \in Call
    BY DEF IInv, TypeOK
  <2>1. ASSUME NEW n \in Nodes, WriteReplica(w, n) PROVE Promise!Next \/ Same
    <3> DEFINE v == [call[w] EXCEPT !.todo = @ \ {n}, !.ok = @ \cup {n}]
    <3>1. /\ v \in Call /\ v.op = call[w].op /\ v.lasts = call[w].lasts
          /\ v.texts = call[w].texts
      BY <2>0 DEF Call
    <3>2. Onward(w, v) /\ named' = named /\ UNCHANGED <<answer, query>>
      BY <2>1 DEF WriteReplica
    <3> HIDE DEF v
    <3>3. QED
      BY <1>4, <3>1, <3>2
  <2>2. ASSUME NEW n \in Nodes, LogTombstone(w, n) PROVE Promise!Next \/ Same
    <3> DEFINE v == [call[w] EXCEPT
                        !.deleted = @ \ {n},
                        !.ok = IF call[w].texts = {} THEN @ ELSE @ \cup {n}]
    <3>1. /\ v \in Call /\ v.op = call[w].op /\ v.lasts = call[w].lasts
          /\ v.texts = call[w].texts
      BY <2>0 DEF Call
    <3>2. Onward(w, v) /\ named' = named /\ UNCHANGED <<answer, query>>
      BY <2>2 DEF LogTombstone
    <3> HIDE DEF v
    <3>3. QED
      BY <1>4, <3>1, <3>2
  <2>3. ASSUME NEW n \in Nodes, RequestFails(w, n) PROVE Promise!Next \/ Same
    <3> DEFINE v == [call[w] EXCEPT !.todo = @ \ {n}, !.deleted = @ \ {n}]
    <3>1. /\ v \in Call /\ v.op = call[w].op /\ v.lasts = call[w].lasts
          /\ v.texts = call[w].texts
      BY <2>0 DEF Call
    <3>2. Onward(w, v) /\ named' = named /\ UNCHANGED <<answer, query>>
      BY <2>3 DEF RequestFails
    <3> HIDE DEF v
    <3>3. QED
      BY <1>4, <3>1, <3>2
  <2>4. ASSUME NEW n \in Nodes, DeleteReplica(w, n) PROVE Promise!Next
    <3> DEFINE v == [call[w] EXCEPT !.todo = @ \ {n}, !.deleted = @ \cup {n}, !.ok = @]
    <3>1. /\ call[w].op = "forget" /\ ~call[w].batch
          /\ Doomed(w) \in SUBSET Texts /\ Doomed(w) \subseteq named
          /\ Delete(n, Doomed(w), call[w].id) /\ UNCHANGED <<answer, query>>
      BY <2>0, <2>4 DEF DeleteReplica, Doomed, IInv, Call, Single, NamedOnly
    <3>2. Onward(w, v)
      BY <2>4, <3>1 DEF DeleteReplica
    <3>3. ~Ended(v)
      BY <2>0 DEF Ended, Call
    <3> HIDE DEF v
    <3>4. acked' = acked /\ gone' = gone
      BY <3>2, <3>3 DEF Onward
    <3>5. PICK Y \in SUBSET Texts : named' = named \cup Y
      BY <3>1, DeleteTidy
    <3>6. QED
      BY <1>2, <3>1, <3>4, <3>5
  <2>5. ASSUME NEW n \in Nodes, Resolve(w, n) PROVE Promise!Next
    <3>1. Under(n, call[w].id) \in SUBSET Texts
      BY LastingType DEF IInv
    <3>2. QED
      BY <1>2, <2>5, <3>1 DEF Resolve
  <2>6. ASSUME NEW n \in Nodes, ResolveMisses(w, n) PROVE Same
    BY <1>0, <2>6 DEF ResolveMisses, history
  <2>7. QED
    BY <1>5, <2>1, <2>2, <2>3, <2>4, <2>5, <2>6 DEF CallStep
<1>6. ASSUME NEW up \in Reachable, Ask(up) PROVE Promise!Next
  <2>1. /\ ~query.open /\ query'.open /\ ~query'.deaf /\ query'.must = acked \ named
        /\ query'.not = gone /\ answer' = {} /\ UNCHANGED <<acked, named, gone>>
    BY <1>6 DEF Ask, NoQuery, history
  <2>2. Promise!Ask
    BY <2>1 DEF Promise!Ask, Question
  <2>3. QED
    BY <2>2 DEF Promise!Next
<1>7. ASSUME NEW up \in Reachable, StartRepair(up) PROVE Same
  BY <1>0, <1>7 DEF StartRepair, history
<1>8. ASSUME NEW n \in Nodes, HearTombstones(n) PROVE Same
  <2>1. /\ query'.open = query.open /\ query'.deaf = query.deaf
        /\ query'.must = query.must /\ query'.not = query.not
        /\ UNCHANGED <<acked, named, gone, answer>>
    BY <1>8 DEF HearTombstones, history, IInv, TypeOK, Query
  <2>2. Question' = Question
    BY <2>1 DEF Question
  <2>3. QED
    BY <2>1, <2>2
<1>9. ASSUME NEW n \in Nodes, MissTombstones(n) PROVE Promise!Next
  <2>1. /\ query'.open = query.open /\ query'.deaf /\ query'.must = query.must
        /\ UNCHANGED <<acked, named, gone, answer>> /\ query.unheard # {}
    BY <1>9 DEF MissTombstones, First, history, IInv, TypeOK, Query
  <2>2. query.open
    BY <2>1 DEF IInv, Reading, NoQuery
  <2>3. Question' = [open |-> query.open, must |-> query.must, not |-> {}]
    BY <2>1 DEF Question
  <2>4. [Question EXCEPT !.not = {}] = [open |-> query.open, must |-> query.must, not |-> {}]
    BY DEF Question
  <2>5. Question.open
    BY <2>2 DEF Question
  <2>6. Promise!Excuse
    BY <2>1, <2>3, <2>4, <2>5 DEF Promise!Excuse
  <2>7. QED
    BY <2>6 DEF Promise!Next
<1>10. ASSUME NEW n \in Nodes, ReadResults(n) \/ MissResults(n)
       PROVE  Promise!Next \/ Same
  <2>1. PICK q : /\ q = Read(n) \/ q = Missed(n)
                 /\ Reply(q) /\ n \in query.unread /\ query.unheard = {}
    BY <1>10 DEF ReadResults, MissResults, First, Read, Missed
  <2>2. /\ q.open = query.open /\ q.deaf = query.deaf
        /\ q.must = query.must /\ q.not = query.not
    BY <2>1, ReadType
  <2>3. query.open /\ UNCHANGED <<acked, named, gone>>
    BY <2>1 DEF IInv, Reading, NoQuery, Reply, history
  <2>4. CASE q.unread # {}
    BY <2>1, <2>2, <2>3, <2>4 DEF Reply, Question
  <2>5. CASE q.unread = {}
    <3>1. Question.open /\ Question' = Promise!NoQuestion
      BY <2>1, <2>3, <2>5 DEF Reply, Question, NoQuery, Promise!NoQuestion
    <3>2. CASE Cardinality(q.reads) >= ReadQuorum
      <4>1. answer' = {q.seen}
        BY <2>1, <2>5, <3>2 DEF Reply
      <4>2. /\ q.seen \in SUBSET Texts /\ query.must \ named \subseteq q.seen
            /\ ~query.deaf => q.seen \cap query.not = {}
        BY <2>1, <3>2, ReplyKeeps
      <4>3. Promise!Give(q.seen)
        BY <2>3, <3>1, <4>1, <4>2 DEF Promise!Give, Question
      <4>4. QED
        BY <4>2, <4>3 DEF Promise!Next
    <3>3. CASE ~(Cardinality(q.reads) >= ReadQuorum)
      <4>1. answer' = answer
        BY <2>1, <3>3 DEF Reply
      <4>2. Promise!Refuse
        BY <2>3, <3>1, <4>1 DEF Promise!Refuse
      <4>3. QED
        BY <4>2 DEF Promise!Next
    <3>4. QED
      BY <3>2, <3>3
  <2>6. QED
    BY <2>4, <2>5
<1>11. ASSUME RepairStep PROVE Promise!Next \/ Same
  <2>1. ASSUME NEW n \in Nodes, NEW t \in Texts, RepairDelete(n, t) PROVE Promise!Next
    <3>1. /\ t \in named /\ Delete(n, {t}, 0)
          /\ UNCHANGED <<acked, gone, answer, query>>
      BY <2>1 DEF RepairDelete, NextWork, IInv, NamedOnly
    <3>2. PICK Y \in SUBSET Texts : named' = named \cup Y
      BY <3>1, DeleteTidy
    <3>3. QED
      BY <1>2, <3>1, <3>2
  <2>2. CASE \E n \in Nodes :
               \/ RepairExport(n) \/ RepairMisses(n)
               \/ \E t \in Texts : RepairCopy(n, t)
               \/ \E t \in Texts, kind \in {"delete", "copy"} : RepairFails(n, kind, t)
    BY <1>0, <2>2 DEF RepairExport, RepairMisses, RepairCopy, RepairFails, history
  <2>3. QED
    BY <1>11, <2>1, <2>2 DEF RepairStep
<1>12. ASSUME NEW m \in late, Deliver(m) PROVE Promise!Next
  <2>1. PICK Y \in SUBSET Texts : named' = named \cup Y
    BY <1>12, DeliverTidy
  <2>2. QED
    BY <1>2, <1>12, <2>1 DEF Deliver
<1>13. ASSUME NEW n \in Nodes, NEW r \in rows[n], Expire(n, r) PROVE Same
  BY <1>0, <1>13 DEF Expire, history
<1>14. ASSUME UNCHANGED vars PROVE Same
  BY <1>0, <1>14 DEF vars, history
<1> HIDE DEF Same
<1>15. Promise!Next \/ Same
  <2>1. CASE \E n \in Nodes :
               \/ HearTombstones(n) \/ MissTombstones(n)
               \/ ReadResults(n) \/ MissResults(n)
               \/ \E r \in rows[n] : Expire(n, r)
    BY <1>8, <1>9, <1>10, <1>13, <2>1
  <2>2. CASE \E up \in Reachable : Ask(up) \/ StartRepair(up)
    BY <1>6, <1>7, <2>2
  <2>3. QED
    BY <1>3, <1>5, <1>11, <1>12, <1>14, <2>1, <2>2 DEF Next
<1>16. QED
  BY <1>1, <1>15

LEMMA InitKeeps == Init => Promise!Init
  BY DEF Init, NoQuery, Question, Promise!Init, Promise!NoQuestion

(* The nodes and their clients implement the promise: with overlapping     *)
(* quorums and forgets that come one by one, by text or by id, a query     *)
(* never misses what was kept and neither named nor taken by a delete by   *)
(* id; nor does it show what was gone, unless it is deaf to a node's       *)
(* tombstones.                                                             *)
THEOREM PromiseKept == ASSUME Setting PROVE Spec => KeepsPromise
<1>1. IInv /\ [Next]_vars => [Promise!Next]_(Promise!vars)
  BY StepKeeps
<1>2. QED
  BY InitInv, NextInv, InitKeeps, <1>1, PTL DEF Spec, KeepsPromise, Promise!Spec
=============================================================================
