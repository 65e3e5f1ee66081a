--------------------- MODULE ReplicatedNamespace_proofs ---------------------
(* Machine-checked safety of a replicated namespace, for every number of   *)
(* replicas, every pair of quorums and every set of memories.              *)
EXTENDS ReplicatedNamespace, FiniteSetTheorems, TLAPS

(* No more than one tombstone event is logged per call.                    *)
LogBounded ==
    /\ clock <= MaxOps
    /\ \A n \in Replicas : Len(log[n]) <= clock

(* A text in a log, and the text of a key that the field state hides, was  *)
(* named by a forget.                                                      *)
NamedOnly ==
    /\ \A n \in Replicas : \A i \in DOMAIN log[n] : log[n][i] \subseteq named
    /\ \A k \in hidden : TextOf[k] \in named

(* An acknowledged memory that no forget named sits on a write quorum.     *)
AckedHeld ==
    \A k \in acked : TextOf[k] \notin named =>
        Cardinality(Holders(k)) >= WriteQuorum

IInv == TypeOK /\ LogBounded /\ NamedOnly /\ AckedHeld

(* Sets of replicas are finite, and a larger one has no fewer members.     *)
LEMMA ReplicaSets ==
    /\ IsFiniteSet(Replicas)
    /\ Cardinality(Replicas) = ReplicationFactor
    /\ \A S \in SUBSET Replicas : IsFiniteSet(S) /\ Cardinality(S) \in Nat
    /\ \A S, T \in SUBSET Replicas :
          S \subseteq T => Cardinality(S) <= Cardinality(T)
<1>1. IsFiniteSet(Replicas) /\ Cardinality(Replicas) = ReplicationFactor
  BY QuorumAssumption, FS_Interval DEF Replicas
<1>2. \A S \in SUBSET Replicas : IsFiniteSet(S)
  BY <1>1, FS_Subset
<1>3. \A S \in SUBSET Replicas : Cardinality(S) \in Nat
  BY <1>2, FS_CardinalityType
<1>4. \A S, T \in SUBSET Replicas :
          S \subseteq T => Cardinality(S) <= Cardinality(T)
  BY <1>2, FS_Subset
<1>5. QED
  BY <1>1, <1>2, <1>3, <1>4

(* A read quorum meets every write quorum.                                 *)
LEMMA QuorumsMeet ==
    ASSUME ReadQuorum + WriteQuorum > ReplicationFactor,
           NEW S \in SUBSET Replicas, NEW T \in SUBSET Replicas,
           Cardinality(S) >= ReadQuorum, Cardinality(T) >= WriteQuorum
    PROVE  S \cap T # {}
<1>1. Cardinality(S) + Cardinality(T) > Cardinality(Replicas)
  BY ReplicaSets, QuorumAssumption
<1>2. QED
  BY <1>1, ReplicaSets, FS_MajoritiesIntersect

(* Appending one event: what the longer log holds at every index.          *)
LEMMA AppendFacts ==
    ASSUME NEW S, NEW s \in Seq(S), NEW e \in S
    PROVE  /\ Append(s, e) \in Seq(S)
           /\ Len(Append(s, e)) = Len(s) + 1
           /\ DOMAIN Append(s, e) = 1..(Len(s) + 1)
           /\ DOMAIN s = 1..Len(s)
           /\ Len(s) \in Nat
           /\ \A i \in 1..Len(s) : Append(s, e)[i] = s[i]
           /\ Append(s, e)[Len(s) + 1] = e
  OBVIOUS

LEMMA ReachedReplicas ==
    ASSUME TypeOK
    PROVE  /\ Available \in SUBSET Replicas
           /\ \A S \in SUBSET Replicas :
                 Reached(S) \subseteq SUBSET S /\ Logged(S) \subseteq SUBSET S
  BY DEF TypeOK, Available, Reached, Logged

(* Nothing is held or logged at the start.                                 *)
LEMMA InitInv == Init => IInv
<1> SUFFICES ASSUME Init PROVE IInv
  OBVIOUS
<1>1. /\ << >> \in Seq(SUBSET Texts) /\ Len(<< >>) = 0 /\ DOMAIN << >> = {}
  OBVIOUS
<1>2. TypeOK
  BY <1>1 DEF Init, TypeOK
<1>3. QED
  BY <1>1, <1>2, MemoryAssumption DEF Init, IInv, LogBounded, NamedOnly, AckedHeld

(* An acknowledged memory stays held when no replica drops its key.        *)
LEMMA HeldOnward ==
    ASSUME IInv, TypeOK', acked' = acked, named \subseteq named',
           \A n \in Replicas, k \in Keys :
              TextOf[k] \notin named' /\ Holds(n, k) => Holds(n, k)'
    PROVE  AckedHeld'
<1> SUFFICES ASSUME NEW k \in acked, TextOf[k] \notin named'
             PROVE  Cardinality(Holders(k)') >= WriteQuorum
  BY DEF AckedHeld, Holders
<1>1. k \in Keys
  BY DEF IInv, TypeOK
<1>2. Holders(k) \subseteq Holders(k)' /\ Holders(k)' \in SUBSET Replicas
  BY <1>1 DEF Holders
<1>3. Cardinality(Holders(k)) >= WriteQuorum
  BY DEF IInv, AckedHeld
<1>4. Holders(k) \in SUBSET Replicas
  BY DEF Holders
<1>5. QED
  BY <1>2, <1>3, <1>4, ReplicaSets, QuorumAssumption

(* Writing a memory: the replicas that kept it are among its holders.      *)
LEMMA RememberInv ==
    ASSUME IInv, NEW k \in Keys,
           NEW kept \in Reached(Available), NEW ok \in Reached(kept),
           Remember(k, kept, ok)
    PROVE  IInv'
<1>1. /\ kept \in SUBSET Replicas /\ ok \in SUBSET kept
      /\ TextOf[k] \in Texts /\ clock \in Nat /\ clock < MaxOps
      /\ \A n \in Replicas : nextId[n] \in Nat
  BY ReachedReplicas, MemoryAssumption DEF IInv, TypeOK, Remember
<1>2. \A n \in Replicas : [key |-> k, id |-> nextId[n], at |-> clock'] \in Record
  BY <1>1 DEF Remember, Record
<1>3. store' \in [Replicas -> SUBSET Record]
  BY <1>2 DEF IInv, TypeOK, Remember
<1>4. nextId' \in [Replicas -> Nat]
  BY <1>1 DEF Remember
<1>5. TypeOK'
  BY <1>1, <1>3, <1>4 DEF IInv, TypeOK, Remember
<1>6. LogBounded' /\ NamedOnly'
  <2>1. \A n \in Replicas : Len(log[n]) \in Nat
    BY DEF IInv, TypeOK
  <2>2. log' = log /\ hidden' = hidden /\ named' = named /\ clock' = clock + 1
    BY DEF Remember
  <2>3. LogBounded'
    BY <1>1, <2>1, <2>2, MemoryAssumption DEF IInv, LogBounded
  <2>4. QED
    BY <2>2, <2>3 DEF IInv, NamedOnly
<1>7. \A n \in Replicas : store[n] \subseteq store'[n]
  BY DEF Remember
<1>8. AckedHeld'
  <2> SUFFICES ASSUME NEW j \in acked', TextOf[j] \notin named'
               PROVE  Cardinality(Holders(j)') >= WriteQuorum
    BY DEF AckedHeld, Holders
  <2>1. Holders(j)' \in SUBSET Replicas /\ Holders(j) \in SUBSET Replicas
    BY DEF Holders
  <2>2. CASE j \in acked
    <3>1. Holders(j) \subseteq Holders(j)'
      BY <1>7 DEF Holders, Holds
    <3>2. Cardinality(Holders(j)) >= WriteQuorum
      BY <2>2 DEF IInv, AckedHeld, Remember
    <3>3. QED
      BY <2>1, <3>1, <3>2, ReplicaSets, QuorumAssumption
  <2>3. CASE j \notin acked
    <3>1. j = k /\ Cardinality(ok) >= WriteQuorum
      BY <2>3 DEF Remember
    <3>2. ASSUME NEW n \in ok PROVE \E r \in store'[n] : r.key = k
      <4> DEFINE r == [key |-> k, id |-> nextId[n], at |-> clock']
      <4>1. n \in Replicas /\ n \in kept
        BY <1>1
      <4>2. r \in store'[n]
        BY <4>1 DEF Remember
      <4>3. r.key = k
        OBVIOUS
      <4>4. QED
        BY <4>2, <4>3
    <3>3. ok \subseteq Holders(j)'
      BY <1>1, <3>1, <3>2 DEF Holders, Holds
    <3>4. QED
      BY <1>1, <2>1, <3>1, <3>3, ReplicaSets, QuorumAssumption
  <2>4. QED
    BY <2>2, <2>3
<1>9. QED
  BY <1>5, <1>6, <1>8 DEF IInv

(* Forgetting: what is deleted, hidden and logged is named.                *)
LEMMA ForgetInv ==
    ASSUME IInv, NEW keys \in SUBSET Keys, NEW texts \in SUBSET Texts,
           NEW wanted \in SUBSET Texts, \A k \in keys : TextOf[k] \in texts,
           NEW deleted \in Reached(Available), NEW logged \in Logged(deleted),
           NEW lost, Forget(keys, texts, wanted, deleted, logged, lost)
    PROVE  IInv'
<1>1. /\ deleted \in SUBSET Replicas /\ logged \in SUBSET Replicas
      /\ clock \in Nat /\ clock < MaxOps /\ clock' = clock + 1
      /\ named' = named \cup texts
      /\ log' = [n \in Replicas |->
                   IF n \in logged THEN Append(log[n], texts) ELSE log[n]]
  <2>1. deleted \in SUBSET Replicas
    BY ReachedReplicas DEF IInv
  <2>2. QED
    BY <2>1, ReachedReplicas DEF IInv, TypeOK, Forget
<1>2. \A n \in Replicas : store'[n] \subseteq store[n]
  BY DEF Forget
<1>3. store' \in [Replicas -> SUBSET Record]
  BY <1>2 DEF IInv, TypeOK, Forget
<1>4. ASSUME NEW n \in Replicas
      PROVE  /\ log'[n] \in Seq(SUBSET Texts)
             /\ Len(log'[n]) <= clock'
             /\ \A i \in DOMAIN log'[n] : log'[n][i] \subseteq named'
  <2>1. /\ log[n] \in Seq(SUBSET Texts) /\ Len(log[n]) \in Nat
        /\ Len(log[n]) <= clock
        /\ \A i \in DOMAIN log[n] : log[n][i] \subseteq named
    BY DEF IInv, TypeOK, LogBounded, NamedOnly
  <2>2. CASE n \notin logged
    BY <1>1, <2>1, <2>2
  <2>3. CASE n \in logged
    <3>1. log'[n] = Append(log[n], texts)
      BY <1>1, <2>3
    <3>2. /\ log'[n] \in Seq(SUBSET Texts)
          /\ Len(log'[n]) = Len(log[n]) + 1
          /\ DOMAIN log'[n] = 1..(Len(log[n]) + 1) /\ DOMAIN log[n] = 1..Len(log[n])
          /\ \A i \in 1..Len(log[n]) : log'[n][i] = log[n][i]
          /\ log'[n][Len(log[n]) + 1] = texts
      BY <2>1, <3>1, AppendFacts
    <3>3. \A i \in DOMAIN log'[n] : log'[n][i] \subseteq named'
      BY <1>1, <2>1, <3>2
    <3>4. QED
      BY <1>1, <2>1, <3>2, <3>3
  <2>4. QED
    BY <2>2, <2>3
<1>5. log' \in [Replicas -> Seq(SUBSET Texts)]
  BY <1>1, <1>4
<1>6. TypeOK'
  BY <1>1, <1>3, <1>5 DEF IInv, TypeOK, Forget
<1>7. LogBounded'
  BY <1>1, <1>4, MemoryAssumption DEF LogBounded
<1>8. NamedOnly'
  <2>1. \A k \in hidden' : TextOf[k] \in named'
    BY <1>1 DEF IInv, NamedOnly, Forget
  <2>2. QED
    BY <1>4, <2>1 DEF NamedOnly
<1>9. ASSUME NEW n \in Replicas, NEW k \in Keys, TextOf[k] \notin named', Holds(n, k)
      PROVE  Holds(n, k)'
  <2>1. PICK r \in store[n] : r.key = k
    BY <1>9 DEF Holds
  <2>2. r \in store'[n]
    BY <1>1, <1>9, <2>1 DEF Forget
  <2>3. QED
    BY <2>1, <2>2 DEF Holds
<1>10. AckedHeld'
  <2>1. acked' = acked /\ named \subseteq named'
    BY <1>1 DEF Forget
  <2>2. QED
    BY <1>6, <1>9, <2>1, HeldOnward
<1>11. QED
  BY <1>6, <1>7, <1>8, <1>10 DEF IInv

(* A text in force in some log was named.                                  *)
LEMMA TombstonedNamed ==
    ASSUME IInv
    PROVE  Tombstoned \subseteq named
  BY DEF IInv, NamedOnly, Tombstoned, Available

(* Repair only drops what a tombstone names, and copies well-typed rows.   *)
LEMMA RepairInv ==
    ASSUME IInv, NEW failed, NEW most \in Int, RepairNamespace(failed, most)
    PROVE  IInv'
<1> DEFINE stop(n) == IF n \in failed THEN most ELSE Cardinality(Keys)
<1>1. /\ \A n \in Replicas : store'[n] =
           (IF n \in Available /\ stop(n) # -1 THEN LiveRecords(n) ELSE store[n])
           \cup Copies(n, stop(n))
      /\ \A n \in Replicas : nextId'[n] = nextId[n] + Cardinality(CopiedKeys(n, stop(n)))
      /\ store' = [n \in Replicas |-> store'[n]]
      /\ nextId' = [n \in Replicas |-> nextId'[n]]
      /\ UNCHANGED <<available, log, hidden, clock, history>>
  BY DEF RepairNamespace
<1>2. \A S \in SUBSET Keys : Cardinality(S) \in Nat
  BY MemoryAssumption, FS_Subset, FS_CardinalityType
<1>3. \A n, k : Place(n, k) \in Nat
  <2> SUFFICES ASSUME NEW n, NEW k PROVE Place(n, k) \in Nat
    OBVIOUS
  <2>1. {j \in Missing(n) : ListedBefore(j, k)} \in SUBSET Keys
    <3>1. SourceRecords \subseteq Record
      BY DEF IInv, TypeOK, SourceRecords, LiveRecords, Available
    <3>2. Missing(n) \subseteq Keys
      BY <3>1 DEF Missing, Record
    <3>3. QED
      BY <3>2
  <2>2. QED
    BY <1>2, <2>1 DEF Place
<1>4. SourceRecords \subseteq Record
  BY DEF IInv, TypeOK, SourceRecords, LiveRecords, Available
<1>5. ASSUME NEW n \in Replicas
      PROVE  store'[n] \in SUBSET Record /\ nextId'[n] \in Nat
  <2>1. LiveRecords(n) \subseteq Record /\ store[n] \subseteq Record /\ nextId[n] \in Nat
    BY DEF IInv, TypeOK, LiveRecords
  <2>2. ASSUME NEW r \in SourceRecords
        PROVE  [key |-> r.key, id |-> nextId[n] + Place(n, r.key), at |-> r.at] \in Record
    <3>1. r.key \in Keys /\ r.at \in Nat
      BY <1>4 DEF Record
    <3>2. nextId[n] + Place(n, r.key) \in Nat
      BY <1>3, <2>1
    <3>3. QED
      BY <3>1, <3>2 DEF Record
  <2>3. Copies(n, stop(n)) \subseteq Record
    BY <2>2 DEF Copies
  <2>4. CopiedKeys(n, stop(n)) \in SUBSET Keys
    BY <1>4 DEF CopiedKeys, Missing, Record
  <2>5. QED
    BY <1>1, <1>2, <2>1, <2>3, <2>4
<1>6. TypeOK'
  <2>1. store' \in [Replicas -> SUBSET Record]
    BY <1>1, <1>5
  <2>2. nextId' \in [Replicas -> Nat]
    BY <1>1, <1>5
  <2>3. QED
    BY <1>1, <2>1, <2>2 DEF IInv, TypeOK, history
<1>7. LogBounded' /\ NamedOnly'
  BY <1>1 DEF IInv, LogBounded, NamedOnly, history
<1>8. ASSUME NEW n \in Replicas, NEW k \in Keys, TextOf[k] \notin named', Holds(n, k)
      PROVE  Holds(n, k)'
  <2>1. PICK r \in store[n] : r.key = k
    BY <1>8 DEF Holds
  <2>2. TextOf[r.key] \notin Tombstoned
    BY <1>1, <1>8, <2>1, TombstonedNamed DEF history
  <2>3. r \in LiveRecords(n)
    BY <2>2 DEF LiveRecords
  <2>4. r \in store'[n]
    BY <1>1, <2>3
  <2>5. QED
    BY <2>1, <2>4 DEF Holds
<1>9. AckedHeld'
  <2>1. acked' = acked /\ named' = named
    BY <1>1 DEF history
  <2>2. QED
    BY <1>6, <1>8, <2>1, HeldOnward
<1>10. QED
  BY <1>6, <1>7, <1>9 DEF IInv

(* Every step of the namespace keeps the invariant.                        *)
LEMMA StepInv == IInv /\ [Next]_vars => IInv'
<1> SUFFICES ASSUME IInv, [Next]_vars PROVE IInv'
  OBVIOUS
<1>1. CASE UNCHANGED vars
  BY <1>1 DEF vars, history, IInv, TypeOK, LogBounded, NamedOnly, AckedHeld,
              Holders, Holds
<1>2. ASSUME NEW n \in Replicas, NEW up \in BOOLEAN, SetNodeAvailable(n, up)
      PROVE  IInv'
  BY <1>2 DEF SetNodeAvailable, history, IInv, TypeOK, LogBounded, NamedOnly,
              AckedHeld, Holders, Holds
<1>3. CASE Restart
  BY <1>3 DEF Restart, history, IInv, TypeOK, LogBounded, NamedOnly, AckedHeld,
              Holders, Holds
<1>4. ASSUME NEW k \in Keys, NEW kept \in Reached(Available), NEW ok \in Reached(kept),
             Remember(k, kept, ok)
      PROVE  IInv'
  BY <1>4, RememberInv
<1>5. ASSUME NEW deleted \in Reached(Available), NEW logged \in Logged(deleted),
             NEW lost \in Losses(deleted), NEW t \in Texts,
             ForgetText(t, deleted, logged, lost)
      PROVE  IInv'
  <2> DEFINE keys == {k \in Keys : TextOf[k] = t /\ \E n \in Available : Holds(n, k)}
  <2>1. Forget(keys, {t}, {t}, deleted, logged, lost)
    BY <1>5 DEF ForgetText
  <2>2. keys \in SUBSET Keys /\ {t} \in SUBSET Texts /\ \A k \in keys : TextOf[k] \in {t}
    OBVIOUS
  <2> HIDE DEF keys
  <2>3. QED
    BY <1>5, <2>1, <2>2, ForgetInv
<1>6. ASSUME NEW deleted \in Reached(Available), NEW logged \in Logged(deleted),
             NEW lost \in Losses(deleted), NEW i \in Ids, NEW m \in Replicas,
             ForgetId(i, m, deleted, logged, lost)
      PROVE  IInv'
  <2> DEFINE keys == KeysWithId(i, Available)
             texts == {TextOf[k] : k \in keys}
             wanted == {TextOf[k] : k \in KeysWithId(i, {m})}
  <2>1. Forget(keys, texts, wanted, deleted, logged, lost)
    BY <1>6 DEF ForgetId
  <2>2. /\ keys \in SUBSET Keys /\ texts \in SUBSET Texts /\ wanted \in SUBSET Texts
        /\ \A k \in keys : TextOf[k] \in texts
    BY MemoryAssumption DEF KeysWithId
  <2> HIDE DEF keys, texts, wanted
  <2>3. QED
    BY <1>6, <2>1, <2>2, ForgetInv
<1>7. ASSUME NEW ok \in Reached(Available), NEW most \in -1..Cardinality(Keys),
             RepairNamespace(Available \ ok, most)
      PROVE  IInv'
  <2>1. most \in Int
    OBVIOUS
  <2>2. QED
    BY <1>7, <2>1, RepairInv
<1>8. QED
  BY <1>1, <1>2, <1>3, <1>4, <1>5, <1>6, <1>7 DEF Next

LEMMA Invariance == Spec => []IInv
<1>1. QED
  BY InitInv, StepInv, PTL DEF Spec

(* The stores, logs and histories of a namespace are always well formed,   *)
(* for every number of replicas.                                           *)
THEOREM TypeCorrect == Spec => []TypeOK
<1>1. IInv => TypeOK
  BY DEF IInv
<1>2. QED
  BY <1>1, Invariance, PTL

(* With overlapping quorums every query that reaches its quorum answers    *)
(* with every acknowledged memory that no forget named, whatever outages,  *)
(* restarts, store errors and repairs came in between.                     *)
THEOREM AckedStayReadable ==
    ASSUME ReadQuorum + WriteQuorum > ReplicationFactor
    PROVE  Spec => []AckedReadable
<1>1. ASSUME IInv PROVE AckedReadable
  <2> SUFFICES ASSUME NEW S \in ReadSets, NEW k \in acked, TextOf[k] \notin named
               PROVE  k \in Answer(S)
    BY DEF AckedReadable
  <2>1. S \in SUBSET Replicas /\ Cardinality(S) >= ReadQuorum
    BY DEF ReadSets, Available
  <2>2. Holders(k) \in SUBSET Replicas /\ Cardinality(Holders(k)) >= WriteQuorum
    BY <1>1 DEF IInv, AckedHeld, Holders
  <2>3. S \cap Holders(k) # {}
    BY <2>1, <2>2, QuorumsMeet
  <2>4. k \in Keys \ hidden /\ TextOf[k] \notin Tombstoned
    BY <1>1, TombstonedNamed DEF IInv, TypeOK, NamedOnly
  <2>5. QED
    BY <2>3, <2>4 DEF Answer, Holders
<1>2. QED
  BY <1>1, Invariance, PTL

(* The tombstones of acknowledged forgets, when no store fails to log one. *)
Loggers(t) == {n \in Replicas : \E i \in DOMAIN log[n] : t \in log[n][i]}

ForgetLogged == \A t \in forgotten : Cardinality(Loggers(t)) >= WriteQuorum

LoggedInv == IInv /\ ForgetLogged

(* A log only grows, so a logged text stays logged.                        *)
LEMMA LoggedOnward ==
    ASSUME LoggedInv, TypeOK', forgotten' \subseteq forgotten,
           \A n \in Replicas : log'[n] = log[n]
    PROVE  ForgetLogged'
  BY DEF LoggedInv, ForgetLogged, Loggers

LEMMA ForgetLoggedInv ==
    ASSUME "unlogged" \notin Faults, LoggedInv,
           NEW keys \in SUBSET Keys, NEW texts \in SUBSET Texts, NEW wanted, NEW lost,
           NEW deleted \in Reached(Available), NEW logged \in Logged(deleted),
           Forget(keys, texts, wanted, deleted, logged, lost)
    PROVE  ForgetLogged'
<1>1. /\ deleted \in SUBSET Replicas /\ logged = deleted
      /\ log' = [n \in Replicas |->
                   IF n \in deleted THEN Append(log[n], texts) ELSE log[n]]
      /\ \A n \in Replicas : log[n] \in Seq(SUBSET Texts)
  <2>1. deleted \in SUBSET Replicas /\ logged = deleted
    BY ReachedReplicas DEF LoggedInv, IInv, Logged
  <2>2. QED
    BY <2>1 DEF LoggedInv, IInv, TypeOK, Forget
<1>2. ASSUME NEW n \in deleted
      PROVE  /\ DOMAIN log'[n] = 1..(Len(log[n]) + 1) /\ DOMAIN log[n] = 1..Len(log[n])
             /\ Len(log[n]) \in Nat
             /\ \A i \in 1..Len(log[n]) : log'[n][i] = log[n][i]
             /\ log'[n][Len(log[n]) + 1] = texts
  <2>1. n \in Replicas /\ log'[n] = Append(log[n], texts)
    BY <1>1
  <2>2. QED
    BY <1>1, <2>1, AppendFacts
<1>3. ASSUME NEW t \in texts PROVE deleted \subseteq Loggers(t)'
  <2> SUFFICES ASSUME NEW n \in deleted
               PROVE  n \in Replicas /\ \E i \in DOMAIN log'[n] : t \in log'[n][i]
    BY DEF Loggers
  <2>1. Len(log[n]) + 1 \in DOMAIN log'[n] /\ t \in log'[n][Len(log[n]) + 1]
    BY <1>2, <1>3
  <2>2. QED
    BY <1>1, <2>1
<1>4. ASSUME NEW t PROVE Loggers(t) \subseteq Loggers(t)'
  <2> SUFFICES ASSUME NEW n \in Replicas, NEW i \in DOMAIN log[n], t \in log[n][i]
               PROVE  \E j \in DOMAIN log'[n] : t \in log'[n][j]
    BY DEF Loggers
  <2>1. CASE n \in deleted
    BY <1>2, <2>1
  <2>2. CASE n \notin deleted
    BY <1>1, <2>2
  <2>3. QED
    BY <2>1, <2>2
<1>5. ASSUME NEW t \in forgotten' PROVE Cardinality(Loggers(t)') >= WriteQuorum
  <2>1. Loggers(t) \in SUBSET Replicas /\ Loggers(t)' \in SUBSET Replicas
    BY DEF Loggers
  <2>2. CASE t \in forgotten
    <3>1. Cardinality(Loggers(t)) >= WriteQuorum
      BY <2>2 DEF LoggedInv, ForgetLogged
    <3>2. QED
      BY <1>4, <2>1, <3>1, ReplicaSets, QuorumAssumption
  <2>3. CASE t \notin forgotten
    <3>1. t \in texts /\ Cardinality(deleted) >= WriteQuorum
      BY <2>3, <1>5 DEF Forget
    <3>2. QED
      BY <1>1, <1>3, <2>1, <3>1, ReplicaSets, QuorumAssumption
  <2>4. QED
    BY <2>2, <2>3
<1>6. QED
  BY <1>5 DEF ForgetLogged, Loggers

(* The tombstones of acknowledged forgets survive every step.              *)
LEMMA LoggedStep ==
    ASSUME "unlogged" \notin Faults
    PROVE  LoggedInv /\ [Next]_vars => LoggedInv'
<1> SUFFICES ASSUME LoggedInv, [Next]_vars PROVE LoggedInv'
  OBVIOUS
<1>1. IInv'
  BY StepInv DEF LoggedInv
<1>2. ASSUME UNCHANGED vars PROVE ForgetLogged'
  BY <1>1, <1>2, LoggedOnward DEF vars, history, IInv
<1>3. ASSUME NEW n \in Replicas, NEW up \in BOOLEAN, SetNodeAvailable(n, up)
      PROVE  ForgetLogged'
  BY <1>1, <1>3, LoggedOnward DEF SetNodeAvailable, history, IInv
<1>4. ASSUME Restart PROVE ForgetLogged'
  BY <1>1, <1>4, LoggedOnward DEF Restart, history, IInv
<1>5. ASSUME NEW k \in Keys, NEW kept, NEW ok, Remember(k, kept, ok)
      PROVE  ForgetLogged'
  BY <1>1, <1>5, LoggedOnward DEF Remember, IInv
<1>6. ASSUME NEW deleted \in Reached(Available), NEW logged \in Logged(deleted),
             NEW lost \in Losses(deleted), NEW t \in Texts,
             ForgetText(t, deleted, logged, lost)
      PROVE  ForgetLogged'
  <2> DEFINE keys == {k \in Keys : TextOf[k] = t /\ \E n \in Available : Holds(n, k)}
  <2>1. Forget(keys, {t}, {t}, deleted, logged, lost)
    BY <1>6 DEF ForgetText
  <2>2. keys \in SUBSET Keys /\ {t} \in SUBSET Texts
    OBVIOUS
  <2> HIDE DEF keys
  <2>3. QED
    BY <1>6, <2>1, <2>2, ForgetLoggedInv
<1>7. ASSUME NEW deleted \in Reached(Available), NEW logged \in Logged(deleted),
             NEW lost \in Losses(deleted), NEW i \in Ids, NEW m \in Replicas,
             ForgetId(i, m, deleted, logged, lost)
      PROVE  ForgetLogged'
  <2> DEFINE keys == KeysWithId(i, Available)
             texts == {TextOf[k] : k \in keys}
             wanted == {TextOf[k] : k \in KeysWithId(i, {m})}
  <2>1. Forget(keys, texts, wanted, deleted, logged, lost)
    BY <1>7 DEF ForgetId
  <2>2. keys \in SUBSET Keys /\ texts \in SUBSET Texts
    BY MemoryAssumption DEF KeysWithId
  <2> HIDE DEF keys, texts, wanted
  <2>3. QED
    BY <1>7, <2>1, <2>2, ForgetLoggedInv
<1>8. ASSUME NEW failed, NEW most, RepairNamespace(failed, most)
      PROVE  ForgetLogged'
  BY <1>1, <1>8, LoggedOnward DEF RepairNamespace, history, IInv
<1>9. ForgetLogged'
  BY <1>2, <1>3, <1>4, <1>5, <1>6, <1>7, <1>8 DEF Next
<1>10. QED
  BY <1>1, <1>9 DEF LoggedInv

LEMMA LoggedInvariance ==
    ASSUME "unlogged" \notin Faults
    PROVE  Spec => []LoggedInv
<1>1. Init => LoggedInv
  BY InitInv DEF Init, LoggedInv, ForgetLogged
<1>2. LoggedInv /\ [Next]_vars => LoggedInv'
  BY LoggedStep
<1>3. QED
  BY <1>1, <1>2, PTL DEF Spec

(* With overlapping quorums, tombstones that are always logged and no more *)
(* calls than a store reads events back, what was forgotten is in no       *)
(* answer again, whatever replicas come back and whatever repair copies.   *)
THEOREM ForgottenStayForgotten ==
    ASSUME ReadQuorum + WriteQuorum > ReplicationFactor,
           "unlogged" \notin Faults, MaxOps <= AuditLimit
    PROVE  Spec => []NoResurrection
<1>1. ASSUME LoggedInv PROVE NoResurrection
  <2> SUFFICES ASSUME NEW S \in ReadSets, NEW k \in Answer(S), TextOf[k] \in forgotten
               PROVE  FALSE
    BY DEF NoResurrection
  <2> DEFINE t == TextOf[k]
  <2>1. S \in SUBSET Replicas /\ Cardinality(S) >= ReadQuorum /\ S \subseteq Available
    BY DEF ReadSets, Available
  <2>2. Loggers(t) \in SUBSET Replicas /\ Cardinality(Loggers(t)) >= WriteQuorum
    BY <1>1 DEF LoggedInv, ForgetLogged, Loggers
  <2>3. PICK n \in S : n \in Loggers(t)
    BY <2>1, <2>2, QuorumsMeet
  <2>4. PICK i \in DOMAIN log[n] : t \in log[n][i]
    BY <2>3 DEF Loggers
  <2>5. i \in Nat /\ i > 0 /\ Len(log[n]) \in Nat /\ Len(log[n]) <= MaxOps
    BY <1>1, <2>1, <2>3, <2>4, MemoryAssumption DEF LoggedInv, IInv, TypeOK, LogBounded
  <2>6. i + AuditLimit > Len(log[n])
    BY <2>5, MemoryAssumption
  <2>7. t \in Tombstoned
    BY <1>1, <2>1, <2>3, <2>4, <2>6 DEF Tombstoned, LoggedInv, IInv, TypeOK
  <2>8. QED
    BY <2>7 DEF Answer
<1>2. QED
  BY <1>1, LoggedInvariance, PTL

=============================================================================
