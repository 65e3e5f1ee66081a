----------------------- MODULE ActiveActiveSync_proofs -----------------------
(* Machine-checked safety of active-active sync, for every number of       *)
(* regions, replicas and calls and any loss of pages, answers and cursors: *)
(* its types, and that deletes are final (any page size, any clocks), and  *)
(* that a cursor passes nothing that has not arrived (equal clocks, pages  *)
(* that do not fill).                                                      *)
EXTENDS ActiveActiveSync, FiniteSetTheorems, WellFoundedInduction, TLAPS

(* The part of the types that deletes depend on.                           *)
LogTyped ==
    /\ available \in [Regions -> [Replicas -> BOOLEAN]]
    /\ log \in [Regions -> [Replicas -> SUBSET Event]]
    /\ now \in Nat
    /\ page # NoPage => page.pair \in Pairs /\ page.events \in SUBSET Event

(* The replicas of region r that have logged the event e.                  *)
Loggers(r, e) == {n \in Replicas : e \in log[r][n]}

(* A delete that a region knows of is on a write quorum of its replicas.   *)
DeletesSpread ==
    \A r \in Regions : \A e \in Events(r, Replicas) :
        Cardinality(Loggers(r, e)) >= WriteQuorum

DInv == LogTyped /\ DeletesSpread

LEMMA ReplicaSets ==
    /\ IsFiniteSet(Replicas)
    /\ Cardinality(Replicas) = ReplicationFactor
    /\ \A S \in SUBSET Replicas : IsFiniteSet(S) /\ Cardinality(S) \in Nat
    /\ \A S, T \in SUBSET Replicas :
          S \subseteq T => Cardinality(S) <= Cardinality(T)
<1>1. IsFiniteSet(Replicas) /\ Cardinality(Replicas) = ReplicationFactor
  BY RegionAssumption, FS_Interval DEF Replicas
<1>2. \A S \in SUBSET Replicas : IsFiniteSet(S)
  BY <1>1, FS_Subset
<1>3. QED
  BY <1>1, <1>2, FS_CardinalityType, FS_Subset

LEMMA InitInv == Init => DInv
<1> SUFFICES ASSUME Init PROVE DInv
  OBVIOUS
<1>1. LogTyped
  BY DEF Init, LogTyped
<1>2. \A r \in Regions : Events(r, Replicas) = {}
  BY DEF Init, Events
<1>3. QED
  BY <1>1, <1>2 DEF DInv, DeletesSpread

(* When logs only grow, and what is new in a region's logs went to a write *)
(* quorum of it, deletes stay spread.                                      *)
LEMMA SpreadOnward ==
    ASSUME DInv, LogTyped',
           \A r \in Regions, n \in Replicas : log[r][n] \subseteq log'[r][n],
           \A r \in Regions, n \in Replicas : \A e \in log'[r][n] \ log[r][n] :
              /\ Cardinality(Available(r)) >= WriteQuorum
              /\ \A m \in Available(r) : e \in log'[r][m]
    PROVE  DeletesSpread'
<1> SUFFICES ASSUME NEW r \in Regions, NEW e, NEW n \in Replicas, e \in log'[r][n]
             PROVE  Cardinality(Loggers(r, e)') >= WriteQuorum
  BY DEF DeletesSpread, Events, Loggers
<1>1. /\ Loggers(r, e) \in SUBSET Replicas /\ Loggers(r, e)' \in SUBSET Replicas
      /\ Available(r) \in SUBSET Replicas
  BY DEF Loggers, Available
<1>2. CASE e \in log[r][n]
  <2>1. e \in Events(r, Replicas)
    BY <1>2 DEF Events
  <2>2. Cardinality(Loggers(r, e)) >= WriteQuorum
    BY <2>1 DEF DInv, DeletesSpread
  <2>3. Loggers(r, e) \subseteq Loggers(r, e)'
    BY DEF Loggers
  <2>4. QED
    BY <1>1, <2>2, <2>3, ReplicaSets, RegionAssumption
<1>3. CASE e \notin log[r][n]
  <2>1. Cardinality(Available(r)) >= WriteQuorum /\ Available(r) \subseteq Loggers(r, e)'
    BY <1>1, <1>3 DEF Loggers
  <2>2. QED
    BY <1>1, <2>1, ReplicaSets, RegionAssumption
<1>4. QED
  BY <1>2, <1>3

(* A step that leaves the logs alone keeps the invariant with the types.   *)
LEMMA SpreadUnchanged ==
    ASSUME DInv, LogTyped', UNCHANGED log
    PROVE  DInv'
  BY DEF DInv, DeletesSpread, Events, Loggers

(* An event made by region r at its present time is well formed.           *)
LEMMA EventTyped ==
    ASSUME DInv, NEW r \in Regions, NEW k \in Keys, NEW t \in Nat
    PROVE  [key |-> k, at |-> ClockAt(r, t), from |-> r] \in Event
  BY RegionAssumption DEF ClockAt, Event

LEMMA ForgetInv ==
    ASSUME DInv, NEW r \in Regions, NEW k \in Keys, Forget(r, k)
    PROVE  DInv'
<1> DEFINE e == [key |-> k, at |-> ClockAt(r, now'), from |-> r]
<1>1. /\ now' \in Nat /\ available' = available /\ page' = page
      /\ Cardinality(Available(r)) >= WriteQuorum
      /\ log' = [log EXCEPT ![r] = [n \in Replicas |-> log[r][n] \cup
            IF n \in Available(r) THEN {e} ELSE {}]]
  BY DEF Forget, Call, DInv, LogTyped
<1>2. e \in Event
  BY <1>1, EventTyped
<1> HIDE DEF e
<1>3. LogTyped'
  BY <1>1, <1>2 DEF DInv, LogTyped
<1>4. \A q \in Regions, n \in Replicas : log'[q][n] =
          log[q][n] \cup IF q = r /\ n \in Available(r) THEN {e} ELSE {}
  BY <1>1 DEF DInv, LogTyped
<1>5. Available(r) \subseteq Replicas
  BY DEF Available
<1>6. DeletesSpread'
  BY <1>1, <1>3, <1>4, <1>5, SpreadOnward
<1>7. QED
  BY <1>3, <1>6 DEF DInv

LEMMA ExportTyped ==
    ASSUME DInv, NEW p \in Pairs, Export(p[1], p[2])
    PROVE  DInv'
<1>1. p = <<p[1], p[2]>> /\ p[1] \in Regions
  BY DEF Pairs
<1>2. Events(p[1], Available(p[1])) \in SUBSET Event
  BY <1>1 DEF DInv, LogTyped, Events, Available
<1>3. page'.pair = <<p[1], p[2]>> /\ page'.events \subseteq Events(p[1], Available(p[1]))
  BY DEF Export, NewerThan
<1>4. available' = available /\ log' = log /\ now' = now
  BY DEF Export
<1>5. LogTyped'
  BY <1>1, <1>2, <1>3, <1>4 DEF DInv, LogTyped
<1>6. QED
  BY <1>4, <1>5, SpreadUnchanged

(* An import takes deletes over on a write quorum, or not at all.          *)
LEMMA ImportInv ==
    ASSUME DInv, NEW saved \in BOOLEAN, Import(saved)
    PROVE  DInv'
<1> DEFINE t == page.pair[2]
<1> DEFINE E == page.events
<1>1. t \in Regions /\ E \in SUBSET Event
  BY DEF Import, DInv, LogTyped, Pairs
<1>2. /\ now' \in Nat /\ available' = available /\ page' = NoPage
      /\ Cardinality(Available(t)) >= WriteQuorum
      /\ log' = [log EXCEPT ![t] = [n \in Replicas |-> log[t][n] \cup
            IF n \in Available(t) THEN E ELSE {}]]
  BY DEF Import, MayImport, DInv, LogTyped
<1> HIDE DEF t, E
<1>3. LogTyped'
  BY <1>1, <1>2 DEF DInv, LogTyped
<1>4. \A q \in Regions, n \in Replicas : log'[q][n] =
          log[q][n] \cup IF q = t /\ n \in Available(t) THEN E ELSE {}
  BY <1>1, <1>2 DEF DInv, LogTyped
<1>5. Available(t) \subseteq Replicas
  BY DEF Available
<1>6. DeletesSpread'
  BY <1>1, <1>2, <1>3, <1>4, <1>5, SpreadOnward
<1>7. QED
  BY <1>3, <1>6 DEF DInv

(* Every step keeps deletes spread over write quorums.                     *)
LEMMA StepInv ==
    ASSUME DInv, [Next]_vars
    PROVE  DInv'
<1>1. ASSUME NEW r \in Regions, NEW n \in Replicas, NEW up \in BOOLEAN,
             SetNodeAvailable(r, n, up)
      PROVE  DInv'
  <2>1. LogTyped' /\ UNCHANGED log
    BY <1>1 DEF SetNodeAvailable, DInv, LogTyped
  <2>2. QED
    BY <2>1, SpreadUnchanged
<1>2. ASSUME NEW r \in Regions, NEW k \in Keys, Remember(r, k) \/ Recall(r, k)
      PROVE  DInv'
  <2>1. LogTyped' /\ UNCHANGED log
    BY <1>2 DEF Remember, Recall, Call, DInv, LogTyped
  <2>2. QED
    BY <2>1, SpreadUnchanged
<1>3. ASSUME NEW r \in Regions, NEW k \in Keys, Forget(r, k) PROVE DInv'
  BY <1>3, ForgetInv
<1>4. ASSUME NEW p \in Pairs, Export(p[1], p[2]) PROVE DInv'
  BY <1>4, ExportTyped
<1>5. ASSUME NEW saved \in BOOLEAN, Import(saved) PROVE DInv'
  BY <1>5, ImportInv
<1>6. CASE LosePage \/ WorkerRestart \/ UNCHANGED vars
  <2>1. LogTyped' /\ UNCHANGED log
    BY <1>6 DEF LosePage, WorkerRestart, vars, DInv, LogTyped
  <2>2. QED
    BY <2>1, SpreadUnchanged
<1>7. QED
  BY <1>1, <1>2, <1>3, <1>4, <1>5, <1>6 DEF Next

(* Replicas that overlap every write quorum show each delete that a region *)
(* ever took over, so none of their answers has a deleted memory: whatever *)
(* old page arrives, and whatever is remembered, lost or exported again.   *)
THEOREM DeletesStayFinal == Spec => []DeletesFinal
<1>1. ASSUME DInv PROVE DeletesFinal
  <2> SUFFICES ASSUME NEW r \in Regions, NEW e \in Events(r, Replicas),
                      Cardinality(Available(r)) + WriteQuorum > ReplicationFactor
               PROVE  e.key \notin Answer(r)
    BY DEF DeletesFinal, KeysOf
  <2>1. Cardinality(Loggers(r, e)) >= WriteQuorum
    BY <1>1 DEF DInv, DeletesSpread
  <2>2. Loggers(r, e) \in SUBSET Replicas /\ Available(r) \in SUBSET Replicas
    BY DEF Loggers, Available
  <2>3. Cardinality(Available(r)) + Cardinality(Loggers(r, e)) > Cardinality(Replicas)
    BY <2>1, <2>2, ReplicaSets, RegionAssumption
  <2>4. PICK n \in Available(r) : n \in Loggers(r, e)
    BY <2>2, <2>3, ReplicaSets, FS_MajoritiesIntersect
  <2>5. e \in Events(r, Available(r))
    BY <2>4 DEF Events, Loggers
  <2>6. QED
    BY <2>5 DEF Answer, KeysOf
<1>2. QED
  BY <1>1, InitInv, StepInv, PTL DEF Spec

-----------------------------------------------------------------------------
(* The greatest of a bounded set of naturals: its least upper bound.       *)
LEMMA MaxOf ==
    ASSUME NEW S \in SUBSET Nat, S # {}, NEW B \in Nat, \A x \in S : x <= B
    PROVE  Max(S) \in S /\ \A x \in S : x <= Max(S)
<1> DEFINE Bounds == {n \in Nat : \A x \in S : x <= n}
<1> DEFINE R == OpToRel(<, Nat)
<1>1. IsWellFoundedOn(R, Nat)
  BY NatLessThanWellFounded
<1>2. \A m, n \in Nat : <<n, m>> \in R <=> n < m
  BY DEF OpToRel
<1>3. Bounds \subseteq Nat /\ Bounds # {}
  OBVIOUS
<1> HIDE DEF R
<1>4. PICK m \in Bounds : \A n \in Bounds : ~(n < m)
  <2> HIDE DEF Bounds
  <2>1. \E m \in Bounds : \A n \in Bounds : ~(<<n, m>> \in R)
    BY <1>1, <1>3, WFMin
  <2>2. QED
    BY <1>2, <1>3, <2>1
<1>5. m \in S
  <2>1. SUFFICES ASSUME m \notin S PROVE m - 1 \in Bounds
    BY <1>4
  <2>2. m \in Nat /\ \A x \in S : x \in Nat /\ x < m
    BY <2>1
  <2>3. PICK x : x \in S
    OBVIOUS
  <2>4. m - 1 \in Nat /\ \A y \in S : y <= m - 1
    BY <2>2, <2>3
  <2>5. QED
    BY <2>4
<1>6. \E y \in S : \A x \in S : y >= x
  BY <1>5
<1>7. Max(S) \in S /\ \A x \in S : Max(S) >= x
  BY <1>6 DEF Max
<1>8. QED
  BY <1>7

LEMMA LargerOf ==
    ASSUME NEW a \in Nat, NEW b \in Nat
    PROVE  /\ Max({a, b}) \in {a, b}
           /\ a <= Max({a, b}) /\ b <= Max({a, b})
<1>1. \E y \in {a, b} : \A x \in {a, b} : y >= x
  OBVIOUS
<1>2. Max({a, b}) \in {a, b} /\ \A x \in {a, b} : Max({a, b}) >= x
  BY <1>1 DEF Max
<1>3. QED
  BY <1>2

LEMMA SmallerOf ==
    ASSUME NEW a \in Nat, NEW b \in Nat
    PROVE  Min({a, b}) = IF a <= b THEN a ELSE b
<1>1. \E y \in {a, b} : \A x \in {a, b} : y <= x
  OBVIOUS
<1>2. Min({a, b}) \in {a, b} /\ \A x \in {a, b} : Min({a, b}) <= x
  BY <1>1 DEF Min
<1>3. QED
  BY <1>2

(* The field state of some keys of region r moves to the present, or stays *)
(* if it is ahead of it; everything else stays.                            *)
LEMMA MarkFacts ==
    ASSUME changedAt \in [Regions -> [Keys -> Nat]], now' \in Nat,
           NEW r \in Regions, NEW keys, MarkChanged(r, keys)
    PROVE  /\ changedAt' \in [Regions -> [Keys -> Nat]]
           /\ \A q \in Regions \ {r} : changedAt'[q] = changedAt[q]
           /\ \A k \in Keys : /\ changedAt[r][k] <= changedAt'[r][k]
                              /\ changedAt'[r][k] \in {changedAt[r][k], ClockAt(r, now')}
           /\ \A k \in Keys \cap keys : ClockAt(r, now') <= changedAt'[r][k]
<1> DEFINE new == [k \in Keys |-> IF k \in keys THEN Max({changedAt[r][k], ClockAt(r, now')})
                                  ELSE changedAt[r][k]]
<1>1. changedAt' = [changedAt EXCEPT ![r] = new]
  BY DEF MarkChanged
<1>2. ClockAt(r, now') \in Nat
  BY RegionAssumption DEF ClockAt
<1>3. \A k \in Keys : /\ changedAt[r][k] \in Nat
                      /\ Max({changedAt[r][k], ClockAt(r, now')})
                            \in {changedAt[r][k], ClockAt(r, now')}
                      /\ changedAt[r][k] <= Max({changedAt[r][k], ClockAt(r, now')})
                      /\ ClockAt(r, now') <= Max({changedAt[r][k], ClockAt(r, now')})
  BY <1>2, LargerOf
<1>4. /\ new \in [Keys -> Nat]
      /\ \A k \in Keys : /\ changedAt[r][k] <= new[k]
                         /\ new[k] \in {changedAt[r][k], ClockAt(r, now')}
      /\ \A k \in Keys \cap keys : ClockAt(r, now') <= new[k]
  BY <1>2, <1>3
<1> HIDE DEF new
<1>5. QED
  BY <1>1, <1>4

-----------------------------------------------------------------------------
(* Types.  A cursor is the greatest of a set of instants, so it is one only *)
(* because some number bounds all instants there are.                      *)
Below(B) ==
    /\ \A r \in Regions, n \in Replicas :
          /\ \A x \in store[r][n] : x.at <= B
          /\ \A e \in log[r][n] : e.at <= B
    /\ \A r \in Regions, k \in Keys : changedAt[r][k] <= B
    /\ \A p \in Pairs : cursors[p] <= B
    /\ page # NoPage => /\ page.cursor <= B
                        /\ \A x \in page.records : x.at <= B
                        /\ \A e \in page.events : e.at <= B

TInv == TypeOK /\ \E B \in Nat : Below(B)

LEMMA InitTyped == Init => TInv
<1> SUFFICES ASSUME Init PROVE TInv
  OBVIOUS
<1>1. TypeOK
  BY DEF Init, TypeOK
<1>2. Below(0)
  BY DEF Init, Below
<1>3. QED
  BY <1>1, <1>2 DEF TInv

(* The instant of a call, and what the call does to the field state.       *)
LEMMA CallFacts ==
    ASSUME TypeOK, NEW r \in Regions, NEW keys \in SUBSET Keys, NEW dead \in BOOLEAN,
           Call(r, keys, dead)
    PROVE  /\ now' = now + 1 /\ now' \in Nat /\ ops' = ops + 1 /\ ops' \in Nat
           /\ ClockAt(r, now') \in Nat
           /\ field' \in [Regions -> SUBSET Signal]
           /\ \A q \in Regions \ {r} : field'[q] = field[q]
           /\ field'[r] = field[r] \cup
                {[key |-> k, at |-> ClockAt(r, now'), from |-> r, dead |-> dead] : k \in keys}
           /\ MarkChanged(r, keys)
           /\ changedAt' \in [Regions -> [Keys -> Nat]]
           /\ available' = available /\ cursors' = cursors /\ page' = page
<1>1. /\ now' = now + 1 /\ ops' = ops + 1 /\ MarkChanged(r, keys)
      /\ available' = available /\ cursors' = cursors /\ page' = page
      /\ field' = [field EXCEPT ![r] = field[r] \cup
            {[key |-> k, at |-> ClockAt(r, now'), from |-> r, dead |-> dead] : k \in keys}]
  BY DEF Call
<1>2. now' \in Nat /\ ops' \in Nat
  BY <1>1 DEF TypeOK
<1>3. ClockAt(r, now') \in Nat
  BY <1>2, RegionAssumption DEF ClockAt
<1>4. {[key |-> k, at |-> ClockAt(r, now'), from |-> r, dead |-> dead] : k \in keys}
        \in SUBSET Signal
  BY <1>3 DEF Signal
<1>5. field' \in [Regions -> SUBSET Signal]
  BY <1>1, <1>4 DEF TypeOK
<1>6. changedAt' \in [Regions -> [Keys -> Nat]]
  BY <1>1, <1>2, MarkFacts DEF TypeOK
<1>7. QED
  BY <1>1, <1>2, <1>3, <1>5, <1>6 DEF TypeOK

(* A bound goes on to bound what a step leaves, once raised by the instant *)
(* the step works at.                                                      *)
LEMMA BelowOnward ==
    ASSUME TypeOK, NEW B \in Nat, Below(B), NEW T \in Nat,
           cursors' = cursors, page' = page,
           \A r \in Regions, n \in Replicas :
              /\ \A x \in store'[r][n] : x \in store[r][n] \/ x.at = T
              /\ \A e \in log'[r][n] : e \in log[r][n] \/ e.at = T,
           \A r \in Regions, k \in Keys : changedAt'[r][k] \in {changedAt[r][k], T}
    PROVE  Below(B + T)'
<1>1. \A r \in Regions, n \in Replicas :
         /\ \A x \in store[r][n] : x.at \in Nat
         /\ \A e \in log[r][n] : e.at \in Nat
  BY DEF TypeOK, Record, Event
<1>2. \A r \in Regions, n \in Replicas :
         /\ \A x \in store'[r][n] : x.at <= B + T
         /\ \A e \in log'[r][n] : e.at <= B + T
  BY <1>1 DEF Below
<1>3. \A r \in Regions, k \in Keys : changedAt'[r][k] <= B + T
  <2> SUFFICES ASSUME NEW r \in Regions, NEW k \in Keys PROVE changedAt'[r][k] <= B + T
    OBVIOUS
  <2>1. changedAt[r][k] \in Nat /\ changedAt[r][k] <= B
    BY DEF Below, TypeOK
  <2>2. QED
    BY <2>1
<1>4. \A p \in Pairs : cursors'[p] <= B + T
  BY DEF Below, TypeOK
<1>5. page' # NoPage => /\ page'.cursor <= B + T
                        /\ \A x \in page'.records : x.at <= B + T
                        /\ \A e \in page'.events : e.at <= B + T
  BY DEF Below, TypeOK, Page, Record, Event
<1>6. QED
  BY <1>2, <1>3, <1>4, <1>5 DEF Below

LEMMA CallTyped ==
    ASSUME TInv, NEW r \in Regions, NEW k \in Keys,
           Remember(r, k) \/ Forget(r, k) \/ Recall(r, k)
    PROVE  TInv'
<1>1. PICK keys \in SUBSET Keys, dead \in BOOLEAN : Call(r, keys, dead)
  <2>1. {k} \in SUBSET Keys /\ {k} \cap KeysOf(Rows(r, Available(r))) \in SUBSET Keys
    OBVIOUS
  <2>2. QED
    BY <2>1 DEF Remember, Forget, Recall
<1>2. TypeOK
  BY DEF TInv
<1>3. /\ now' \in Nat /\ ops' \in Nat /\ ClockAt(r, now') \in Nat
      /\ field' \in [Regions -> SUBSET Signal]
      /\ changedAt' \in [Regions -> [Keys -> Nat]]
      /\ available' = available /\ cursors' = cursors /\ page' = page
      /\ MarkChanged(r, keys)
  BY <1>1, <1>2, CallFacts
<1> PICK T \in Nat : T = ClockAt(r, now')
  BY <1>3
<1> DEFINE x == [key |-> k, at |-> T, from |-> r]
<1>4. x \in Record /\ x \in Event /\ x.at = T
  BY DEF Record, Event
<1>5. /\ store' \in [Regions -> [Replicas -> SUBSET Record]]
      /\ log' \in [Regions -> [Replicas -> SUBSET Event]]
      /\ \A q \in Regions, n \in Replicas :
            /\ \A y \in store'[q][n] : y \in store[q][n] \/ y = x
            /\ \A e \in log'[q][n] : e \in log[q][n] \/ e = x
  <2>1. CASE Remember(r, k)
    <3>1. /\ log' = log
          /\ store' = [store EXCEPT ![r] = [n \in Replicas |-> store[r][n] \cup
                          IF n \in Available(r) THEN {x} ELSE {}]]
      BY <2>1 DEF Remember
    <3> HIDE DEF x
    <3>2. QED
      BY <1>2, <1>4, <3>1 DEF TypeOK
  <2>2. CASE Forget(r, k)
    <3>1. /\ store' = [store EXCEPT ![r] = [n \in Replicas |->
                IF n \in Available(r) THEN {y \in store[r][n] : y.key # k} ELSE store[r][n]]]
          /\ log' = [log EXCEPT ![r] = [n \in Replicas |-> log[r][n] \cup
                IF n \in Available(r) THEN {x} ELSE {}]]
      BY <2>2 DEF Forget
    <3> HIDE DEF x
    <3>2. QED
      BY <1>2, <1>4, <3>1 DEF TypeOK
  <2>3. CASE Recall(r, k)
    BY <1>2, <2>3 DEF Recall, TypeOK
  <2>4. QED
    BY <2>1, <2>2, <2>3
<1> HIDE DEF x
<1>6. TypeOK'
  BY <1>2, <1>3, <1>5 DEF TypeOK
<1>7. \A q \in Regions, j \in Keys : changedAt'[q][j] \in {changedAt[q][j], T}
  BY <1>2, <1>3, MarkFacts DEF TypeOK
<1>8. PICK B \in Nat : Below(B)
  BY DEF TInv
<1>9. Below(B + T)'
  BY <1>2, <1>3, <1>4, <1>5, <1>7, <1>8, BelowOnward
<1>10. B + T \in Nat
  BY <1>8
<1>11. QED
  BY <1>6, <1>9, <1>10 DEF TInv

(* What an export sends: all changed keys and their signals, of records and *)
(* events as many as fit, and a cursor that is one of their instants, the  *)
(* old cursor, or (at the end of all pages) the present.                   *)
LEMMA ExportFacts ==
    ASSUME TInv, NEW p \in Pairs, Export(p[1], p[2])
    PROVE  \E records, events, keys, cursor :
              LET s == p[1]
                  changed == NewerThan(SourceRecords(s), cursors[p])
                  deleted == NewerThan(Events(s, Available(s)), cursors[p])
                  more == Cardinality(changed) + Cardinality(deleted) > Limit
              IN  /\ page' = [pair |-> p, records |-> records, events |-> events,
                              signals |-> {x \in field[s] : x.key \in keys},
                              cursor |-> cursor]
                  /\ page' \in Page
                  /\ IsPageOf(records, changed, Limit)
                  /\ IsPageOf(events, deleted, Limit - Cardinality(records))
                  /\ \A k \in Keys : changedAt[s][k] > cursors[p] => k \in keys
                  /\ \/ cursor = cursors[p]
                     \/ \E x \in records \cup events : cursor = x.at
                     \/ \E k \in Keys : cursor = changedAt[s][k]
                     \/ cursor = ClockAt(s, now)
<1> DEFINE s == p[1]
<1> DEFINE since == cursors[p]
<1> DEFINE changed == NewerThan(SourceRecords(s), since)
<1> DEFINE deleted == NewerThan(Events(s, Available(s)), since)
<1> DEFINE more == Cardinality(changed) + Cardinality(deleted) > Limit
<1> DEFINE Keyed(R, E) == {k \in Keys : changedAt[s][k] > since} \cup KeysOf(R) \cup KeysOf(E)
<1> DEFINE Instants(R, E) == {since} \cup {x.at : x \in R \cup E}
                               \cup {changedAt[s][k] : k \in Keyed(R, E)}
                               \cup IF more THEN {} ELSE {ClockAt(s, now)}
<1>1. p = <<p[1], p[2]>> /\ s \in Regions /\ TypeOK
  BY DEF Pairs, TInv
<1>2. PICK records \in SUBSET changed, events \in SUBSET deleted :
         /\ IsPageOf(records, changed, Limit)
         /\ IsPageOf(events, deleted, Limit - Cardinality(records))
         /\ page' = [pair |-> p, records |-> records, events |-> events,
                     signals |-> {x \in field[s] : x.key \in Keyed(records, events)},
                     cursor |-> Max(Instants(records, events))]
  BY <1>1 DEF Export
<1> DEFINE keys == Keyed(records, events)
<1> DEFINE cursor == Max(Instants(records, events))
<1>3. records \in SUBSET Record /\ events \in SUBSET Event
  <2>1. SourceRecords(s) \in SUBSET Record /\ Events(s, Available(s)) \in SUBSET Event
    BY <1>1 DEF TypeOK, SourceRecords, Rows, Events, Available
  <2>2. QED
    BY <1>2, <2>1 DEF NewerThan
<1>4. keys \in SUBSET Keys
  BY <1>3 DEF KeysOf, Record, Event
<1>5. PICK B \in Nat : Below(B)
  BY DEF TInv
<1>6. ClockAt(s, now) \in Nat
  BY <1>1, RegionAssumption DEF ClockAt, TypeOK
<1>7. /\ Instants(records, events) \in SUBSET Nat /\ Instants(records, events) # {}
      /\ \A i \in Instants(records, events) : i <= B + ClockAt(s, now)
  <2>1. since \in Nat /\ since <= B
    BY <1>1, <1>5 DEF TypeOK, Below
  <2>2. \A k \in keys : changedAt[s][k] \in Nat /\ changedAt[s][k] <= B
    BY <1>1, <1>4, <1>5 DEF TypeOK, Below
  <2>3. \A x \in records \cup events : x.at \in Nat /\ x.at <= B
    <3>1. \A x \in SourceRecords(s) : x.at <= B
      BY <1>1, <1>5 DEF Below, SourceRecords, Rows, Available
    <3>2. \A x \in Events(s, Available(s)) : x.at <= B
      BY <1>1, <1>5 DEF Below, Events, Available
    <3>3. QED
      BY <1>3, <1>2, <3>1, <3>2 DEF NewerThan, Record, Event
  <2> HIDE DEF since, keys, changed, deleted, more
  <2>4. QED
    BY <1>6, <2>1, <2>2, <2>3 DEF keys
<1>8. cursor \in Instants(records, events)
  <2> HIDE DEF Instants
  <2>1. B + ClockAt(s, now) \in Nat
    BY <1>5, <1>6
  <2>2. QED
    BY <1>7, <2>1, MaxOf
<1>9. cursor \in Nat
  BY <1>7, <1>8
<1>10. page' \in Page
  <2>1. {x \in field[s] : x.key \in keys} \in SUBSET Signal
    BY <1>1 DEF TypeOK
  <2> HIDE DEF keys, cursor
  <2>2. QED
    BY <1>2, <1>3, <1>9, <2>1 DEF Page, keys, cursor
<1>11. \/ cursor = since
       \/ \E x \in records \cup events : cursor = x.at
       \/ \E k \in Keys : cursor = changedAt[s][k]
       \/ cursor = ClockAt(s, now)
  BY <1>4, <1>8
<1>12. \A k \in Keys : changedAt[s][k] > since => k \in keys
  OBVIOUS
<1> HIDE DEF keys, cursor, Keyed, Instants
<1>13. QED
  BY <1>2, <1>10, <1>11, <1>12 DEF keys, cursor

LEMMA ExportKeepsTypes ==
    ASSUME TInv, NEW p \in Pairs, Export(p[1], p[2])
    PROVE  TInv'
<1>1. page' \in Page
  BY ExportFacts
<1>2. /\ available' = available /\ store' = store /\ log' = log /\ field' = field
      /\ changedAt' = changedAt /\ cursors' = cursors /\ now' = now /\ ops' = ops
  BY DEF Export
<1>3. PICK B \in Nat : Below(B)
  BY DEF TInv
<1>4. TypeOK'
  BY <1>1, <1>2 DEF TInv, TypeOK
<1>5. /\ page'.cursor \in Nat
      /\ page'.cursor <= B \/ page'.cursor = ClockAt(p[1], now)
      /\ \A x \in page'.records : x \in SourceRecords(p[1])
      /\ \A e \in page'.events : e \in Events(p[1], Available(p[1]))
  <2>1. PICK records, events, keys, cursor :
           /\ page' = [pair |-> p, records |-> records, events |-> events,
                       signals |-> {x \in field[p[1]] : x.key \in keys}, cursor |-> cursor]
           /\ records \subseteq SourceRecords(p[1])
           /\ events \subseteq Events(p[1], Available(p[1]))
           /\ \/ cursor = cursors[p]
              \/ \E x \in records \cup events : cursor = x.at
              \/ \E k \in Keys : cursor = changedAt[p[1]][k]
              \/ cursor = ClockAt(p[1], now)
    BY ExportFacts DEF IsPageOf, NewerThan
  <2>2. \A x \in SourceRecords(p[1]) \cup Events(p[1], Available(p[1])) : x.at <= B
    BY <1>3 DEF Below, SourceRecords, Rows, Events, Available, Pairs
  <2>3. cursor <= B \/ cursor = ClockAt(p[1], now)
    BY <1>3, <2>1, <2>2 DEF Below, Pairs
  <2>4. page'.cursor \in Nat
    BY <1>1 DEF Page
  <2>5. QED
    BY <2>1, <2>3, <2>4
<1>6. PICK T \in Nat : T = ClockAt(p[1], now)
  BY RegionAssumption DEF ClockAt, TInv, TypeOK, Pairs
<1>7. Below(B + T)'
  <2>1. /\ \A r \in Regions, n \in Replicas :
              /\ \A x \in store[r][n] : x.at \in Nat /\ x.at <= B + T
              /\ \A e \in log[r][n] : e.at \in Nat /\ e.at <= B + T
    BY <1>3 DEF TInv, TypeOK, Below, Record, Event
  <2>2. \A r \in Regions, k \in Keys : changedAt[r][k] <= B + T
    <3> SUFFICES ASSUME NEW r \in Regions, NEW k \in Keys PROVE changedAt[r][k] <= B + T
      OBVIOUS
    <3>1. changedAt[r][k] \in Nat /\ changedAt[r][k] <= B
      BY <1>3 DEF TInv, TypeOK, Below
    <3>2. QED
      BY <3>1
  <2>3. \A q \in Pairs : cursors[q] <= B + T
    BY <1>3 DEF TInv, TypeOK, Below
  <2>4. page'.cursor <= B + T
    BY <1>5, <1>6
  <2>5. /\ \A x \in page'.records : x.at <= B + T
        /\ \A e \in page'.events : e.at <= B + T
    <3>1. /\ \A x \in SourceRecords(p[1]) : \E n \in Replicas : x \in store[p[1]][n]
          /\ \A e \in Events(p[1], Available(p[1])) : \E n \in Replicas : e \in log[p[1]][n]
      BY DEF SourceRecords, Rows, Events, Available
    <3>2. p[1] \in Regions
      BY DEF Pairs
    <3>3. QED
      BY <1>5, <2>1, <3>1, <3>2
  <2>6. QED
    BY <1>2, <2>1, <2>2, <2>3, <2>4, <2>5 DEF Below
<1>8. B + T \in Nat
  OBVIOUS
<1>9. QED
  BY <1>4, <1>7, <1>8 DEF TInv

(* What an import leaves in the target, and that it moves one cursor only. *)
LEMMA ImportFacts ==
    ASSUME TypeOK, NEW saved \in BOOLEAN, Import(saved)
    PROVE  LET t == page.pair[2]
           IN  /\ page \in Page /\ page.pair \in Pairs /\ t \in Regions
               /\ page.cursor \in Nat
               /\ page.records \in SUBSET Record /\ page.events \in SUBSET Event
               /\ page.signals \in SUBSET Signal
               /\ Cardinality(Available(t)) >= WriteQuorum
               /\ now' \in {now, now + 1} /\ now' \in Nat
               /\ field' \in [Regions -> SUBSET Signal]
               /\ \A q \in Regions \ {t} : field'[q] = field[q]
               /\ field'[t] = field[t] \cup page.signals
               /\ \/ page.signals \subseteq field[t] /\ changedAt' = changedAt
                  \/ MarkChanged(t, KeysOf(page.signals))
               /\ changedAt' \in [Regions -> [Keys -> Nat]]
               /\ \A q \in Regions, n \in Replicas :
                     log'[q][n] = log[q][n] \cup
                        IF q = t /\ n \in Available(t) THEN page.events ELSE {}
               /\ log' \in [Regions -> [Replicas -> SUBSET Event]]
               /\ \A q \in Regions, n \in Replicas : q # t \/ n \notin Available(t)
                     => store'[q][n] = store[q][n]
               /\ \A n \in Available(t) :
                     LET kept == {x \in store[t][n] : x.key \notin KeysOf(page.events)}
                         gone == KeysOf(Events(t, Available(t))) \cup KeysOf(page.events)
                     IN  store'[t][n] = kept \cup
                            {x \in page.records : x.key \notin gone \cup KeysOf(kept)}
               /\ store' \in [Regions -> [Replicas -> SUBSET Record]]
               /\ cursors' = [cursors EXCEPT ![page.pair] = IF saved THEN page.cursor ELSE @]
               /\ page' = NoPage /\ available' = available /\ ops' = ops
<1> DEFINE t == page.pair[2]
<1> DEFINE kept(n) == {x \in store[t][n] : x.key \notin KeysOf(page.events)}
<1> DEFINE gone == KeysOf(Events(t, Available(t))) \cup KeysOf(page.events)
<1> DEFINE into(n) == kept(n) \cup {x \in page.records : x.key \notin gone \cup KeysOf(kept(n))}
<1>1. /\ page \in Page /\ page.pair \in Pairs /\ t \in Regions /\ page.cursor \in Nat
      /\ page.records \in SUBSET Record /\ page.events \in SUBSET Event
      /\ page.signals \in SUBSET Signal
  BY DEF Import, TypeOK, Page, Pairs
<1>2. /\ Cardinality(Available(t)) >= WriteQuorum /\ Available(t) \subseteq Replicas
      /\ page' = NoPage /\ available' = available /\ ops' = ops
      /\ cursors' = [cursors EXCEPT ![page.pair] = IF saved THEN page.cursor ELSE @]
  BY DEF Import, MayImport, Available
<1>3. /\ now' \in {now, now + 1} /\ now' \in Nat
      /\ field' = [field EXCEPT ![t] = field[t] \cup (page.signals \ field[t])]
      /\ now' = IF page.signals \ field[t] = {} THEN now ELSE now + 1
      /\ MarkChanged(t, IF page.signals \ field[t] = {} THEN {} ELSE KeysOf(page.signals))
  BY DEF Import, TypeOK
<1>4. changedAt' \in [Regions -> [Keys -> Nat]]
  BY <1>1, <1>3, MarkFacts DEF TypeOK
<1>5. \/ page.signals \subseteq field[t] /\ changedAt' = changedAt
      \/ MarkChanged(t, KeysOf(page.signals))
  <2>1. CASE page.signals \ field[t] = {}
    <3>1. MarkChanged(t, {})
      BY <1>3, <2>1
    <3>2. changedAt' = changedAt
      BY <1>1, <3>1 DEF MarkChanged, TypeOK
    <3>3. QED
      BY <2>1, <3>2
  <2>2. CASE page.signals \ field[t] # {}
    BY <1>3, <2>2
  <2>3. QED
    BY <2>1, <2>2
<1>6. /\ field' \in [Regions -> SUBSET Signal]
      /\ \A q \in Regions \ {t} : field'[q] = field[q]
      /\ field'[t] = field[t] \cup page.signals
  BY <1>1, <1>3 DEF TypeOK
<1>7. /\ log' = [log EXCEPT ![t] = [n \in Replicas |-> log[t][n] \cup
              IF n \in Available(t) THEN page.events ELSE {}]]
      /\ store' = [store EXCEPT ![t] = [n \in Replicas |->
              IF n \in Available(t) THEN into(n) ELSE store[t][n]]]
  BY DEF Import
<1>8. /\ \A q \in Regions, n \in Replicas :
            log'[q][n] = log[q][n] \cup
               IF q = t /\ n \in Available(t) THEN page.events ELSE {}
      /\ log' \in [Regions -> [Replicas -> SUBSET Event]]
  BY <1>1, <1>7 DEF TypeOK
<1>9. \A n \in Replicas : into(n) \in SUBSET Record
  BY <1>1 DEF TypeOK
<1> HIDE DEF into
<1>10. /\ store' \in [Regions -> [Replicas -> SUBSET Record]]
       /\ \A q \in Regions, n \in Replicas : q # t \/ n \notin Available(t)
             => store'[q][n] = store[q][n]
       /\ \A n \in Available(t) : store'[t][n] = into(n)
  BY <1>1, <1>2, <1>7, <1>9 DEF TypeOK
<1>11. QED
  BY <1>1, <1>2, <1>3, <1>4, <1>5, <1>6, <1>8, <1>10 DEF into

LEMMA ImportKeepsTypes ==
    ASSUME TInv, NEW saved \in BOOLEAN, Import(saved)
    PROVE  TInv'
<1> DEFINE t == page.pair[2]
<1> TypeOK
  BY DEF TInv
<1>1. /\ page \in Page /\ page.pair \in Pairs /\ t \in Regions /\ page.cursor \in Nat
      /\ now' \in Nat /\ page' = NoPage /\ available' = available /\ ops' = ops
      /\ cursors' = [cursors EXCEPT ![page.pair] = IF saved THEN page.cursor ELSE @]
      /\ changedAt' = changedAt \/ MarkChanged(t, KeysOf(page.signals))
      /\ changedAt' \in [Regions -> [Keys -> Nat]]
  BY ImportFacts
<1>2. TypeOK'
  BY <1>1, ImportFacts DEF TypeOK
<1>3. PICK B \in Nat : Below(B)
  BY DEF TInv
<1>4. PICK T \in Nat : T = ClockAt(t, now')
  BY <1>1, RegionAssumption DEF ClockAt
<1>5. Below(B + T)'
  <2>1. \A r \in Regions, n \in Replicas :
           /\ \A x \in store'[r][n] : x \in store[r][n] \cup page.records
           /\ \A e \in log'[r][n] : e \in log[r][n] \cup page.events
    <3> SUFFICES ASSUME NEW r \in Regions, NEW n \in Replicas
                 PROVE  /\ store'[r][n] \subseteq store[r][n] \cup page.records
                        /\ log'[r][n] \subseteq log[r][n] \cup page.events
      OBVIOUS
    <3>1. log'[r][n] \subseteq log[r][n] \cup page.events
      BY ImportFacts
    <3>2. store'[r][n] \subseteq store[r][n] \cup page.records
      <4>1. CASE r # t \/ n \notin Available(t)
        BY <4>1, ImportFacts
      <4>2. CASE r = t /\ n \in Available(t)
        <5>1. LET kept == {x \in store[t][n] : x.key \notin KeysOf(page.events)}
                  gone == KeysOf(Events(t, Available(t))) \cup KeysOf(page.events)
              IN  store'[t][n] = kept \cup
                     {x \in page.records : x.key \notin gone \cup KeysOf(kept)}
          BY <4>2, ImportFacts
        <5>2. QED
          BY <4>2, <5>1
      <4>3. QED
        BY <4>1, <4>2
    <3>3. QED
      BY <3>1, <3>2
  <2>2. \A r \in Regions, n \in Replicas :
           /\ \A x \in store[r][n] \cup page.records : x.at \in Nat /\ x.at <= B
           /\ \A e \in log[r][n] \cup page.events : e.at \in Nat /\ e.at <= B
    BY <1>1, <1>3 DEF Import, TypeOK, Page, Record, Event, Below
  <2>3. ASSUME NEW r \in Regions, NEW k \in Keys PROVE changedAt'[r][k] <= B + T
    <3>1. changedAt[r][k] \in Nat /\ changedAt[r][k] <= B
      BY <1>3 DEF TypeOK, Below
    <3>2. changedAt'[r][k] \in {changedAt[r][k], T}
      BY <1>1, <1>4, MarkFacts DEF TypeOK
    <3>3. QED
      BY <3>1, <3>2
  <2>4. ASSUME NEW p \in Pairs PROVE cursors'[p] <= B + T
    <3>1. cursors'[p] \in {cursors[p], page.cursor}
      BY <1>1 DEF TypeOK
    <3>2. cursors[p] \in Nat /\ cursors[p] <= B /\ page.cursor <= B
      BY <1>1, <1>3 DEF TypeOK, Below, Import
    <3>3. QED
      BY <1>1, <3>1, <3>2
  <2>5. QED
    BY <1>1, <2>1, <2>2, <2>3, <2>4 DEF Below
<1>6. B + T \in Nat
  OBVIOUS
<1>7. QED
  BY <1>2, <1>5, <1>6 DEF TInv

LEMMA StepTyped == TInv /\ [Next]_vars => TInv'
<1> SUFFICES ASSUME TInv, [Next]_vars PROVE TInv'
  OBVIOUS
<1>1. ASSUME NEW r \in Regions, NEW n \in Replicas, NEW up \in BOOLEAN,
             SetNodeAvailable(r, n, up)
      PROVE  TInv'
  BY <1>1 DEF SetNodeAvailable, TInv, TypeOK, Below
<1>2. ASSUME NEW r \in Regions, NEW k \in Keys,
             Remember(r, k) \/ Forget(r, k) \/ Recall(r, k)
      PROVE  TInv'
  BY <1>2, CallTyped
<1>3. ASSUME NEW p \in Pairs, Export(p[1], p[2]) PROVE TInv'
  BY <1>3, ExportKeepsTypes
<1>4. ASSUME NEW saved \in BOOLEAN, Import(saved) PROVE TInv'
  BY <1>4, ImportKeepsTypes
<1>5. CASE LosePage \/ WorkerRestart \/ UNCHANGED vars
  <2>1. TypeOK'
    BY <1>5 DEF LosePage, WorkerRestart, vars, TInv, TypeOK
  <2>2. PICK B \in Nat : Below(B)
    BY DEF TInv
  <2>3. Below(B)'
    BY <1>5, <2>2 DEF LosePage, WorkerRestart, vars, Below
  <2>4. QED
    BY <2>1, <2>2, <2>3 DEF TInv
<1>6. QED
  BY <1>1, <1>2, <1>3, <1>4, <1>5 DEF Next

(* Cursors, pages, stores and clocks of all regions are well formed, for   *)
(* every number of regions and replicas and every page size.               *)
THEOREM TypeCorrect == Spec => []TypeOK
<1>1. TInv => TypeOK
  BY DEF TInv
<1>2. QED
  BY <1>1, InitTyped, StepTyped, PTL DEF Spec

-----------------------------------------------------------------------------
(* Cursors.                                                                *)

(* Equal clocks, pages that never fill, and outages of fewer replicas than *)
(* make a write quorum.                                                    *)
Setting ==
    /\ \A r, s \in Regions : Offset[r] = Offset[s]
    /\ MaxOps <= Limit
    /\ MinUp + WriteQuorum > ReplicationFactor

(* What is anywhere, the page on its way included.                         *)
AllRows ==
    (UNION {Rows(r, Replicas) : r \in Regions}) \cup IF page = NoPage THEN {} ELSE page.records
AllEvents ==
    (UNION {Events(r, Replicas) : r \in Regions}) \cup IF page = NoPage THEN {} ELSE page.events
AllSignals ==
    (UNION {field[r] : r \in Regions}) \cup IF page = NoPage THEN {} ELSE page.signals

Holders(r, x) == {n \in Replicas : x \in store[r][n]}

Gone(r) == KeysOf(Events(r, Replicas))

Known(r) == KeysOf(Rows(r, Replicas)) \cup Gone(r)

EnoughUp == \A r \in Regions : Cardinality(Available(r)) >= MinUp

(* Nothing is newer than the present, and nothing was before the start.    *)
Past ==
    \A r \in Regions :
        /\ \A x \in AllRows \cup AllEvents \cup AllSignals : 0 < x.at /\ x.at <= ClockAt(r, now)
        /\ \A s \in Regions, k \in Keys : changedAt[s][k] <= ClockAt(r, now)
        /\ \A p \in Pairs : cursors[p] <= ClockAt(r, now)
        /\ page # NoPage => page.cursor <= ClockAt(r, now)

(* Wherever a copy went, its origin still has a write quorum of it, or has *)
(* deleted it.                                                             *)
AtHome ==
    /\ \A x \in AllRows : \/ Cardinality(Holders(x.from, x)) >= WriteQuorum
                          \/ x.key \in Gone(x.from)
    /\ \A e \in AllEvents : e \in Events(e.from, Replicas)
    /\ \A g \in AllSignals : g \in field[g.from] /\ g.at <= changedAt[g.from][g.key]

(* CursorCovers for one pair, up to what a page still brings.              *)
Covers(s, t, cursor, records, events, signals) ==
    /\ \A x \in Rows(s, Replicas) : x.from = s /\ x.at <= cursor
          => x.key \in Known(t) \cup Gone(s) \cup KeysOf(records)
    /\ \A e \in Events(s, Replicas) : e.from = s /\ e.at <= cursor
          => e \in Events(t, Replicas) \cup events
    /\ \A g \in field[s] : g.from = s /\ g.at <= cursor => g \in field[t] \cup signals

Covered ==
    /\ \A p \in Pairs : Covers(p[1], p[2], cursors[p], {}, {}, {})
    /\ page # NoPage => Covers(page.pair[1], page.pair[2], page.cursor,
                               page.records, page.events, page.signals)

(* There are no more rows and events than calls were made.                 *)
Room ==
    /\ ops <= MaxOps
    /\ \E R \in SUBSET Record, E \in SUBSET Event :
          /\ IsFiniteSet(R) /\ IsFiniteSet(E) /\ Cardinality(R) + Cardinality(E) <= ops
          /\ AllRows \subseteq R /\ AllEvents \subseteq E

CInv == TInv /\ DInv /\ EnoughUp /\ Past /\ AtHome /\ Covered /\ Room

LEMMA QuorumHolds ==
    ASSUME NEW S \in SUBSET Replicas, Cardinality(S) >= WriteQuorum
    PROVE  S # {}
  BY RegionAssumption, FS_EmptySet

LEMMA QuorumSeen ==
    ASSUME Setting, EnoughUp, NEW r \in Regions, NEW S \in SUBSET Replicas,
           Cardinality(S) >= WriteQuorum
    PROVE  \E n \in Available(r) : n \in S
<1>1. Available(r) \in SUBSET Replicas
  BY DEF Available
<1>2. Cardinality(Available(r)) + Cardinality(S) > Cardinality(Replicas)
  BY <1>1, ReplicaSets, RegionAssumption DEF Setting, EnoughUp
<1>3. QED
  BY <1>1, <1>2, ReplicaSets, FS_MajoritiesIntersect

(* What is anywhere is well formed.                                        *)
LEMMA AllTyped ==
    ASSUME TypeOK
    PROVE  AllRows \in SUBSET Record /\ AllEvents \in SUBSET Event /\ AllSignals \in SUBSET Signal
<1>1. page # NoPage => page \in Page
  BY DEF TypeOK
<1>2. /\ UNION {Rows(r, Replicas) : r \in Regions} \in SUBSET Record
      /\ UNION {Events(r, Replicas) : r \in Regions} \in SUBSET Event
      /\ UNION {field[r] : r \in Regions} \in SUBSET Signal
  BY DEF TypeOK, Rows, Events
<1>3. QED
  BY <1>1, <1>2 DEF AllRows, AllEvents, AllSignals, Page

(* A step that only adds: what it removes from stores it logs as deleted.  *)
Grows ==
    /\ now' \in {now, now + 1}
    /\ \A r \in Regions :
          /\ Events(r, Replicas) \subseteq Events(r, Replicas)'
          /\ field[r] \subseteq field'[r]
          /\ Known(r) \subseteq Known(r)'
          /\ \A x \in Record : \/ x.key \in Gone(r)'
                               \/ Holders(r, x) \subseteq Holders(r, x)'
          /\ \A k \in Keys : changedAt[r][k] <= changedAt'[r][k]

LEMMA GoneGrows ==
    ASSUME Grows, NEW r \in Regions
    PROVE  Gone(r) \subseteq Gone(r)'
  BY DEF Grows, Gone, KeysOf

(* Steps that add keep what was covered, as long as what is new in the     *)
(* origin is newer than the cursor or was about before.                    *)
LEMMA CoversOnward ==
    ASSUME TypeOK, AtHome, Grows, NEW s \in Regions, NEW t \in Regions,
           NEW c, NEW records, NEW events, NEW signals,
           Covers(s, t, c, records, events, signals),
           \A x \in Rows(s, Replicas)' : x \in AllRows \/ ~(x.at <= c),
           \A e \in Events(s, Replicas)' : e \in AllEvents \/ ~(e.at <= c),
           \A g \in field'[s] : g \in AllSignals \/ ~(g.at <= c)
    PROVE  Covers(s, t, c, records, events, signals)'
<1>1. ASSUME NEW x \in Rows(s, Replicas)', x.from = s, x.at <= c
      PROVE  x.key \in Known(t)' \cup Gone(s)' \cup KeysOf(records)
  <2>1. x \in AllRows
    BY <1>1
  <2>2. CASE x.key \in Gone(s)
    BY <2>2, GoneGrows
  <2>3. CASE Cardinality(Holders(s, x)) >= WriteQuorum
    <3>1. Holders(s, x) \in SUBSET Replicas
      BY DEF Holders
    <3>2. x \in Rows(s, Replicas)
      BY <2>3, <3>1, QuorumHolds DEF Holders, Rows
    <3>3. x.key \in Known(t) \cup Gone(s) \cup KeysOf(records)
      BY <1>1, <3>2 DEF Covers
    <3>4. QED
      BY <3>3, GoneGrows DEF Grows
  <2>4. QED
    BY <1>1, <2>1, <2>2, <2>3 DEF AtHome
<1>2. ASSUME NEW e \in Events(s, Replicas)', e.from = s, e.at <= c
      PROVE  e \in Events(t, Replicas)' \cup events
  <2>1. e \in AllEvents
    BY <1>2
  <2>2. e \in Events(s, Replicas)
    BY <1>2, <2>1 DEF AtHome
  <2>3. e \in Events(t, Replicas) \cup events
    BY <1>2, <2>2 DEF Covers
  <2>4. QED
    BY <2>3 DEF Grows
<1>3. ASSUME NEW g \in field'[s], g.from = s, g.at <= c
      PROVE  g \in field'[t] \cup signals
  <2>1. g \in AllSignals
    BY <1>3
  <2>2. g \in field[s]
    BY <1>3, <2>1 DEF AtHome
  <2>3. g \in field[t] \cup signals
    BY <1>3, <2>2 DEF Covers
  <2>4. QED
    BY <2>3 DEF Grows
<1>4. QED
  BY <1>1, <1>2, <1>3 DEF Covers

LEMMA AtHomeOnward ==
    ASSUME TypeOK, TypeOK', AtHome, Grows,
           \A x \in AllRows' : x \in AllRows \/ Cardinality(Holders(x.from, x)') >= WriteQuorum,
           \A e \in AllEvents' : e \in AllEvents \/ e \in Events(e.from, Replicas)',
           \A g \in AllSignals' : \/ g \in AllSignals
                                  \/ g \in field'[g.from] /\ g.at <= changedAt'[g.from][g.key]
    PROVE  AtHome'
<1>1. AllRows' \in SUBSET Record /\ AllEvents' \in SUBSET Event /\ AllSignals' \in SUBSET Signal
  <2>1. page' # NoPage => page' \in Page
    BY DEF TypeOK
  <2>2. /\ UNION {Rows(r, Replicas)' : r \in Regions} \in SUBSET Record
        /\ UNION {Events(r, Replicas)' : r \in Regions} \in SUBSET Event
        /\ UNION {field'[r] : r \in Regions} \in SUBSET Signal
    BY DEF TypeOK, Rows, Events
  <2>3. QED
    BY <2>1, <2>2 DEF AllRows, AllEvents, AllSignals, Page
<1>2. ASSUME NEW x \in AllRows', x \in AllRows
      PROVE  Cardinality(Holders(x.from, x)') >= WriteQuorum \/ x.key \in Gone(x.from)'
  <2>1. x \in Record /\ x.from \in Regions
    BY <1>1 DEF Record
  <2>2. CASE x.key \in Gone(x.from)
    BY <2>1, <2>2, GoneGrows
  <2>3. CASE Cardinality(Holders(x.from, x)) >= WriteQuorum
    <3>1. CASE Holders(x.from, x) \subseteq Holders(x.from, x)'
      <4>1. /\ Holders(x.from, x) \in SUBSET Replicas
            /\ Holders(x.from, x)' \in SUBSET Replicas
        BY DEF Holders
      <4>2. QED
        BY <2>3, <3>1, <4>1, ReplicaSets, RegionAssumption
    <3>2. QED
      BY <2>1, <3>1 DEF Grows
  <2>4. QED
    BY <1>2, <2>2, <2>3 DEF AtHome
<1>3. ASSUME NEW e \in AllEvents' PROVE e \in Events(e.from, Replicas)'
  <2>1. e.from \in Regions
    BY <1>1 DEF Event
  <2>2. QED
    BY <2>1 DEF AtHome, Grows
<1>4. ASSUME NEW g \in AllSignals', g \in AllSignals
      PROVE  g \in field'[g.from] /\ g.at <= changedAt'[g.from][g.key]
  <2>1. g.from \in Regions /\ g.key \in Keys /\ g.at \in Nat
    BY <1>1 DEF Signal
  <2>2. g \in field[g.from] /\ g.at <= changedAt[g.from][g.key]
    BY <1>4 DEF AtHome
  <2>3. /\ changedAt[g.from][g.key] \in Nat /\ changedAt'[g.from][g.key] \in Nat
        /\ changedAt[g.from][g.key] <= changedAt'[g.from][g.key]
    BY <2>1 DEF Grows, TypeOK
  <2>4. QED
    BY <2>1, <2>2, <2>3 DEF Grows
<1>5. QED
  BY <1>2, <1>3, <1>4 DEF AtHome

(* Whatever a step adds is made at the instant T, and its origin has it.   *)
MadeAt(T) ==
    /\ Grows
    /\ \A x \in AllRows' : \/ x \in AllRows
                           \/ x.at = T /\ Cardinality(Holders(x.from, x)') >= WriteQuorum
    /\ \A e \in AllEvents' : \/ e \in AllEvents
                             \/ e.at = T /\ e \in Events(e.from, Replicas)'
    /\ \A g \in AllSignals' : \/ g \in AllSignals
                              \/ /\ g.at = T /\ g \in field'[g.from]
                                 /\ g.at <= changedAt'[g.from][g.key]
    /\ \E x \in Record :
          \/ AllRows' \subseteq AllRows \cup {x} /\ AllEvents' \subseteq AllEvents
          \/ AllRows' \subseteq AllRows /\ AllEvents' \subseteq AllEvents \cup {x}

(* The part of a call that Remember, Forget and Recall share.              *)
LEMMA CallSignals ==
    ASSUME TypeOK, NEW r \in Regions, NEW keys \in SUBSET Keys, NEW dead \in BOOLEAN,
           Call(r, keys, dead)
    PROVE  /\ now' \in {now, now + 1}
           /\ \A q \in Regions : /\ field[q] \subseteq field'[q]
                                 /\ \A k \in Keys : changedAt[q][k] <= changedAt'[q][k]
           /\ \A g \in AllSignals' : \/ g \in AllSignals
                                     \/ /\ g.at = ClockAt(r, now') /\ g \in field'[g.from]
                                        /\ g.at <= changedAt'[g.from][g.key]
<1> DEFINE T == ClockAt(r, now')
<1> DEFINE new == {[key |-> k, at |-> T, from |-> r, dead |-> dead] : k \in keys}
<1>1. /\ now' = now + 1 /\ now' \in Nat /\ T \in Nat
      /\ \A q \in Regions \ {r} : field'[q] = field[q]
      /\ field'[r] = field[r] \cup new
      /\ MarkChanged(r, keys)
      /\ page' = page
  BY CallFacts, ZenonT(30)
<1>2. /\ \A q \in Regions \ {r} : changedAt'[q] = changedAt[q]
      /\ \A k \in Keys : changedAt[r][k] <= changedAt'[r][k]
      /\ \A k \in Keys \cap keys : T <= changedAt'[r][k]
  BY <1>1, MarkFacts DEF TypeOK
<1>3. \A q \in Regions : /\ field[q] \subseteq field'[q]
                         /\ \A k \in Keys : changedAt[q][k] <= changedAt'[q][k]
  <2>1. \A q \in Regions, k \in Keys : changedAt[q][k] \in Nat
    BY DEF TypeOK
  <2> HIDE DEF new
  <2>2. QED
    BY <1>1, <1>2, <2>1
<1>4. ASSUME NEW g \in AllSignals', g \notin AllSignals
      PROVE  g.at = T /\ g \in field'[g.from] /\ g.at <= changedAt'[g.from][g.key]
  <2>1. \E q \in Regions : g \in field'[q]
    BY <1>1, <1>4 DEF AllSignals
  <2>2. g \in new
    <3> HIDE DEF new
    <3>1. QED
      BY <1>1, <1>4, <2>1 DEF AllSignals
  <2>3. PICK k \in keys : g = [key |-> k, at |-> T, from |-> r, dead |-> dead]
    BY <2>2
  <2>4. g.at = T /\ g.from = r /\ g.key = k
    BY <2>3
  <2> HIDE DEF new
  <2>5. QED
    BY <1>1, <1>2, <2>2, <2>4
<1>5. QED
  BY <1>1, <1>3, <1>4

LEMMA RememberAdds ==
    ASSUME TypeOK, NEW r \in Regions, NEW k \in Keys, Remember(r, k)
    PROVE  MadeAt(ClockAt(r, now'))
<1> DEFINE T == ClockAt(r, now')
<1>1. Call(r, {k}, FALSE) /\ {k} \in SUBSET Keys /\ FALSE \in BOOLEAN
  BY DEF Remember
<1>2. T \in Nat /\ page' = page /\ available' = available
  BY <1>1, CallFacts
<1>3. PICK x \in Record : x = [key |-> k, at |-> T, from |-> r]
  BY <1>2 DEF Record
<1>4. x.at = T /\ x.from = r /\ x.key = k
  BY <1>3
<1>5. /\ log' = log /\ Cardinality(Available(r)) >= WriteQuorum
      /\ store' = [store EXCEPT ![r] = [n \in Replicas |-> store[r][n] \cup
                      IF n \in Available(r) THEN {x} ELSE {}]]
  BY <1>3 DEF Remember
<1>6. /\ \A n \in Replicas : store'[r][n] = store[r][n] \cup IF n \in Available(r) THEN {x} ELSE {}
      /\ \A q \in Regions \ {r} : store'[q] = store[q]
  BY <1>5 DEF TypeOK
<1>7. \A q \in Regions, n \in Replicas :
         /\ store[q][n] \subseteq store'[q][n]
         /\ store'[q][n] \subseteq store[q][n] \cup {x}
  BY <1>6
<1>8. \A q \in Regions : /\ Rows(q, Replicas) \subseteq Rows(q, Replicas)'
                         /\ Rows(q, Replicas)' \subseteq Rows(q, Replicas) \cup {x}
                         /\ Events(q, Replicas)' = Events(q, Replicas)
                         /\ \A y \in Record : Holders(q, y) \subseteq Holders(q, y)'
  BY <1>5, <1>7 DEF Rows, Events, Holders
<1>9. AllRows' \subseteq AllRows \cup {x} /\ AllEvents' = AllEvents
  BY <1>2, <1>8 DEF AllRows, AllEvents
<1>10. Cardinality(Holders(r, x)') >= WriteQuorum
  <2>1. Available(r) \subseteq Holders(r, x)' /\ Holders(r, x)' \in SUBSET Replicas
        /\ Available(r) \in SUBSET Replicas
    BY <1>6 DEF Holders, Available
  <2>2. QED
    BY <1>5, <2>1, ReplicaSets, RegionAssumption
<1>11. \A q \in Regions : Known(q) \subseteq Known(q)'
  BY <1>8 DEF Known, Gone, KeysOf
<1>12. QED
  BY <1>1, <1>4, <1>8, <1>9, <1>10, <1>11, CallSignals DEF MadeAt, Grows

LEMMA ForgetAdds ==
    ASSUME TypeOK, NEW r \in Regions, NEW k \in Keys, Forget(r, k)
    PROVE  MadeAt(ClockAt(r, now'))
<1> DEFINE T == ClockAt(r, now')
<1>1. PICK keys \in SUBSET Keys : Call(r, keys, TRUE)
  BY DEF Forget
<1>2. T \in Nat /\ page' = page /\ available' = available
  BY <1>1, CallFacts
<1>3. PICK x \in Record : x = [key |-> k, at |-> T, from |-> r]
  BY <1>2 DEF Record
<1>4. x.at = T /\ x.from = r /\ x.key = k
  BY <1>3
<1>5. /\ Cardinality(Available(r)) >= WriteQuorum
      /\ store' = [store EXCEPT ![r] = [n \in Replicas |->
            IF n \in Available(r) THEN {y \in store[r][n] : y.key # k} ELSE store[r][n]]]
      /\ log' = [log EXCEPT ![r] = [n \in Replicas |-> log[r][n] \cup
            IF n \in Available(r) THEN {x} ELSE {}]]
  BY <1>3 DEF Forget
<1>6. /\ \A n \in Replicas : log'[r][n] = log[r][n] \cup IF n \in Available(r) THEN {x} ELSE {}
      /\ \A q \in Regions \ {r} : log'[q] = log[q] /\ store'[q] = store[q]
      /\ \A n \in Replicas : /\ store'[r][n] \subseteq store[r][n]
                             /\ \A y \in store[r][n] : y.key # k => y \in store'[r][n]
  BY <1>5 DEF TypeOK
<1>7. \A q \in Regions, n \in Replicas :
         /\ log[q][n] \subseteq log'[q][n]
         /\ log'[q][n] \subseteq log[q][n] \cup {x}
         /\ store'[q][n] \subseteq store[q][n]
  BY <1>6
<1>8. \A q \in Regions : /\ Rows(q, Replicas)' \subseteq Rows(q, Replicas)
                         /\ Events(q, Replicas) \subseteq Events(q, Replicas)'
                         /\ Events(q, Replicas)' \subseteq Events(q, Replicas) \cup {x}
  BY <1>7 DEF Rows, Events
<1>9. AllRows' \subseteq AllRows /\ AllEvents' \subseteq AllEvents \cup {x}
  BY <1>2, <1>8 DEF AllRows, AllEvents
<1>10. x \in Events(r, Replicas)' /\ k \in Gone(r)'
  <2>1. PICK n \in Available(r) : n \in Replicas
    BY <1>5, QuorumHolds DEF Available
  <2>2. x \in Events(r, Replicas)'
    BY <1>6, <2>1 DEF Events
  <2>3. QED
    BY <1>4, <2>2 DEF Gone, KeysOf
<1>11. \A q \in Regions, y \in Record : y.key \in Gone(q)' \/ Holders(q, y) \subseteq Holders(q, y)'
  BY <1>6, <1>10 DEF Holders
<1>12. \A q \in Regions : Known(q) \subseteq Known(q)'
  <2> SUFFICES ASSUME NEW q \in Regions, NEW j \in Known(q) PROVE j \in Known(q)'
    OBVIOUS
  <2>1. CASE j \in Gone(q)
    BY <1>8, <2>1 DEF Known, Gone, KeysOf
  <2>2. CASE \E y \in Rows(q, Replicas) : j = y.key
    <3>0. PICK n \in Replicas : \E y \in store[q][n] : j = y.key
      BY <2>2 DEF Rows
    <3>1. PICK y \in store[q][n] : j = y.key
      BY <3>0
    <3>2. CASE y \in store'[q][n]
      BY <3>1, <3>2 DEF Known, Rows, KeysOf
    <3>3. CASE y \notin store'[q][n]
      BY <1>6, <1>10, <3>1, <3>3 DEF Known
    <3>4. QED
      BY <3>2, <3>3
  <2>3. QED
    BY <2>1, <2>2 DEF Known, KeysOf
<1>13. x \in Events(x.from, Replicas)'
  BY <1>4, <1>10 DEF Events
<1>14. TRUE \in BOOLEAN
  OBVIOUS
<1>15. QED
  BY <1>1, <1>4, <1>8, <1>9, <1>11, <1>12, <1>13, <1>14, CallSignals DEF MadeAt, Grows

LEMMA RecallAdds ==
    ASSUME TypeOK, NEW r \in Regions, NEW k \in Keys, Recall(r, k)
    PROVE  MadeAt(ClockAt(r, now'))
<1>1. /\ Call(r, {k}, FALSE) /\ {k} \in SUBSET Keys /\ FALSE \in BOOLEAN
      /\ store' = store /\ log' = log
  BY DEF Recall
<1>2. page' = page /\ ClockAt(r, now') \in Nat
  BY <1>1, CallFacts
<1>3. \A q \in Regions : /\ Rows(q, Replicas)' = Rows(q, Replicas)
                         /\ Events(q, Replicas)' = Events(q, Replicas)
                         /\ Known(q)' = Known(q)
                         /\ \A y \in Record : Holders(q, y)' = Holders(q, y)
  BY <1>1 DEF Rows, Events, Known, Gone, Holders
<1>4. AllRows' = AllRows /\ AllEvents' = AllEvents
  BY <1>2, <1>3 DEF AllRows, AllEvents
<1>5. \E x \in Record : TRUE
  <2>1. [key |-> k, at |-> ClockAt(r, now'), from |-> r] \in Record
    BY <1>2 DEF Record
  <2>2. QED
    BY <2>1
<1>6. QED
  BY <1>1, <1>3, <1>4, <1>5, CallSignals DEF MadeAt, Grows

(* With equal clocks, the next instant is ahead of everything there is.    *)
LEMMA NextInstant ==
    ASSUME Setting, TypeOK, now' = now + 1, NEW r \in Regions, NEW q \in Regions
    PROVE  /\ ClockAt(r, now') \in Nat /\ ClockAt(q, now) \in Nat
           /\ ClockAt(q, now') = ClockAt(r, now')
           /\ ClockAt(r, now') = ClockAt(q, now) + 1
  BY RegionAssumption DEF Setting, TypeOK, ClockAt

(* There is room in every page: whatever is new fits.                      *)
LEMMA Fits ==
    ASSUME Setting, TypeOK, Room, NEW R \in SUBSET AllRows, NEW E \in SUBSET AllEvents
    PROVE  /\ IsFiniteSet(R) /\ IsFiniteSet(E)
           /\ Cardinality(R) \in Nat /\ Cardinality(E) \in Nat
           /\ Cardinality(R) + Cardinality(E) <= Limit
<1>1. PICK A \in SUBSET Record, B \in SUBSET Event :
         /\ IsFiniteSet(A) /\ IsFiniteSet(B) /\ Cardinality(A) + Cardinality(B) <= ops
         /\ AllRows \subseteq A /\ AllEvents \subseteq B
  BY DEF Room
<1>2. /\ IsFiniteSet(R) /\ Cardinality(R) <= Cardinality(A)
      /\ IsFiniteSet(E) /\ Cardinality(E) <= Cardinality(B)
  BY <1>1, FS_Subset
<1>3. /\ Cardinality(R) \in Nat /\ Cardinality(E) \in Nat
      /\ Cardinality(A) \in Nat /\ Cardinality(B) \in Nat
  BY <1>1, <1>2, FS_CardinalityType
<1>4. ops \in Nat /\ ops <= MaxOps /\ MaxOps <= Limit /\ MaxOps \in Nat /\ Limit \in Nat
  BY RegionAssumption DEF Room, Setting, TypeOK
<1>5. QED
  BY <1>1, <1>2, <1>3, <1>4

(* A page that has room for everything has everything.                     *)
LEMMA WholePage ==
    ASSUME NEW some, NEW all, NEW size \in Nat, IsFiniteSet(all),
           Cardinality(all) <= size, IsPageOf(some, all, size)
    PROVE  some = all
<1>1. Cardinality(all) \in Nat
  BY FS_CardinalityType
<1>2. some \subseteq all /\ Cardinality(some) = Cardinality(all)
  BY <1>1, SmallerOf DEF IsPageOf
<1>3. QED
  BY <1>2, FS_Subset

LEMMA RoomOnward ==
    ASSUME TypeOK, Room, ops < MaxOps, ops' = ops + 1, NEW x \in Record,
           \/ AllRows' \subseteq AllRows \cup {x} /\ AllEvents' \subseteq AllEvents
           \/ AllRows' \subseteq AllRows /\ AllEvents' \subseteq AllEvents \cup {x}
    PROVE  Room'
<1>1. PICK A \in SUBSET Record, B \in SUBSET Event :
         /\ IsFiniteSet(A) /\ IsFiniteSet(B) /\ Cardinality(A) + Cardinality(B) <= ops
         /\ AllRows \subseteq A /\ AllEvents \subseteq B
  BY DEF Room
<1>2. /\ IsFiniteSet(A \cup {x}) /\ Cardinality(A \cup {x}) <= Cardinality(A) + 1
      /\ IsFiniteSet(B \cup {x}) /\ Cardinality(B \cup {x}) <= Cardinality(B) + 1
      /\ Cardinality(A) \in Nat /\ Cardinality(B) \in Nat
      /\ Cardinality(A \cup {x}) \in Nat /\ Cardinality(B \cup {x}) \in Nat
  <2>1. ASSUME NEW S, IsFiniteSet(S)
        PROVE  /\ IsFiniteSet(S \cup {x}) /\ Cardinality(S \cup {x}) <= Cardinality(S) + 1
               /\ Cardinality(S) \in Nat /\ Cardinality(S \cup {x}) \in Nat
    <3>1. /\ IsFiniteSet(S \cup {x})
          /\ Cardinality(S \cup {x}) = IF x \in S THEN Cardinality(S) ELSE Cardinality(S) + 1
      BY <2>1, FS_AddElement
    <3>2. Cardinality(S) \in Nat
      BY <2>1, FS_CardinalityType
    <3>3. QED
      BY <3>1, <3>2
  <2>2. QED
    BY <1>1, <2>1
<1>3. A \cup {x} \in SUBSET Record /\ B \cup {x} \in SUBSET Event
  BY DEF Record, Event
<1>4. ops \in Nat /\ ops' <= MaxOps
  BY RegionAssumption DEF TypeOK
<1>5. CASE AllRows' \subseteq AllRows \cup {x} /\ AllEvents' \subseteq AllEvents
  <2>1. /\ AllRows' \subseteq A \cup {x} /\ AllEvents' \subseteq B
        /\ Cardinality(A \cup {x}) + Cardinality(B) <= ops'
    BY <1>1, <1>2, <1>4, <1>5
  <2>2. QED
    BY <1>1, <1>2, <1>3, <1>4, <2>1 DEF Room
<1>6. CASE AllRows' \subseteq AllRows /\ AllEvents' \subseteq AllEvents \cup {x}
  <2>1. /\ AllRows' \subseteq A /\ AllEvents' \subseteq B \cup {x}
        /\ Cardinality(A) + Cardinality(B \cup {x}) <= ops'
    BY <1>1, <1>2, <1>4, <1>6
  <2>2. QED
    BY <1>1, <1>2, <1>3, <1>4, <2>1 DEF Room
<1>7. QED
  BY <1>5, <1>6

LEMMA CallKeeps ==
    ASSUME Setting, CInv, TInv', DInv', NEW r \in Regions, NEW k \in Keys,
           Remember(r, k) \/ Forget(r, k) \/ Recall(r, k)
    PROVE  CInv'
<1> DEFINE T == ClockAt(r, now')
<1> TypeOK /\ TypeOK'
  BY DEF CInv, TInv
<1>1. MadeAt(T)
  BY RememberAdds, ForgetAdds, RecallAdds
<1>2. /\ now' = now + 1 /\ ops < MaxOps /\ ops' = ops + 1
      /\ available' = available /\ cursors' = cursors /\ page' = page
      /\ \E keys \in SUBSET Keys : MarkChanged(r, keys)
  BY DEF Remember, Forget, Recall, Call
<1>3. \A q \in Regions : /\ T \in Nat /\ ClockAt(q, now) \in Nat /\ ClockAt(q, now') = T
                         /\ T = ClockAt(q, now) + 1
  BY <1>2, NextInstant DEF CInv
<1> HIDE DEF T
<1>4. EnoughUp'
  BY <1>2 DEF CInv, EnoughUp, Available
<1>5. AtHome'
  BY <1>1, AtHomeOnward DEF CInv, MadeAt
<1>6. Room'
  BY <1>1, <1>2, RoomOnward DEF CInv, MadeAt
<1>7. /\ AllRows \in SUBSET Record /\ AllEvents \in SUBSET Event /\ AllSignals \in SUBSET Signal
      /\ \A x \in AllRows \cup AllEvents \cup AllSignals : x.at \in Nat
  BY AllTyped DEF Record, Event, Signal
<1>8. page # NoPage => page.cursor \in Nat /\ page.pair \in Pairs
  BY DEF TypeOK, Page
<1>9. Past'
  <2> SUFFICES ASSUME NEW q \in Regions
               PROVE  /\ \A x \in AllRows' \cup AllEvents' \cup AllSignals' :
                            0 < x.at /\ x.at <= ClockAt(q, now')
                      /\ \A s \in Regions, j \in Keys : changedAt'[s][j] <= ClockAt(q, now')
                      /\ \A p \in Pairs : cursors'[p] <= ClockAt(q, now')
                      /\ page' # NoPage => page'.cursor <= ClockAt(q, now')
    BY DEF Past
  <2>1. \A x \in AllRows' \cup AllEvents' \cup AllSignals' :
           x \in AllRows \cup AllEvents \cup AllSignals \/ x.at = T
    BY <1>1 DEF MadeAt
  <2>2. \A x \in AllRows \cup AllEvents \cup AllSignals : 0 < x.at /\ x.at <= T
    BY <1>3, <1>7 DEF CInv, Past
  <2>3. \A s \in Regions, j \in Keys : changedAt'[s][j] <= T
    <3> SUFFICES ASSUME NEW s \in Regions, NEW j \in Keys PROVE changedAt'[s][j] <= T
      OBVIOUS
    <3>1. changedAt[s][j] \in Nat /\ changedAt[s][j] <= ClockAt(q, now)
      BY DEF CInv, Past, TypeOK
    <3>2. changedAt'[s][j] \in {changedAt[s][j], T}
      BY <1>2, MarkFacts DEF TypeOK, T
    <3>3. QED
      BY <1>3, <3>1, <3>2
  <2>4. \A p \in Pairs : cursors[p] \in Nat /\ cursors[p] <= ClockAt(q, now)
    BY DEF CInv, Past, TypeOK
  <2>5. page # NoPage => page.cursor <= ClockAt(q, now)
    BY DEF CInv, Past
  <2>6. QED
    BY <1>2, <1>3, <1>8, <2>1, <2>2, <2>3, <2>4, <2>5
<1>10. ASSUME NEW s \in Regions, NEW t \in Regions, NEW c \in Nat, c <= ClockAt(s, now),
              NEW rows, NEW events, NEW signals, Covers(s, t, c, rows, events, signals)
       PROVE  Covers(s, t, c, rows, events, signals)'
  <2>1. ~(T <= c)
    BY <1>3, <1>10
  <2>2. /\ Rows(s, Replicas)' \subseteq AllRows' /\ Events(s, Replicas)' \subseteq AllEvents'
        /\ field'[s] \subseteq AllSignals'
    BY DEF AllRows, AllEvents, AllSignals
  <2>3. /\ \A x \in Rows(s, Replicas)' : x \in AllRows \/ ~(x.at <= c)
        /\ \A e \in Events(s, Replicas)' : e \in AllEvents \/ ~(e.at <= c)
        /\ \A g \in field'[s] : g \in AllSignals \/ ~(g.at <= c)
    BY <1>1, <2>1, <2>2 DEF MadeAt
  <2>4. QED
    BY <1>1, <1>10, <2>3, CoversOnward DEF CInv, MadeAt
<1>11. Covered'
  <2>1. ASSUME NEW p \in Pairs PROVE Covers(p[1], p[2], cursors[p], {}, {}, {})'
    <3>1. p[1] \in Regions /\ p[2] \in Regions
      BY DEF Pairs
    <3>2. PICK c \in Nat : c = cursors[p]
      BY DEF TypeOK
    <3>3. c <= ClockAt(p[1], now) /\ Covers(p[1], p[2], c, {}, {}, {})
      BY <3>1, <3>2 DEF CInv, Covered, Past
    <3>4. Covers(p[1], p[2], c, {}, {}, {})'
      BY <1>10, <3>1, <3>3
    <3>5. c = cursors'[p]
      BY <1>2, <3>2
    <3>6. QED
      BY <3>4, <3>5 DEF Covers
  <2>2. ASSUME page # NoPage
        PROVE  Covers(page.pair[1], page.pair[2], page.cursor,
                      page.records, page.events, page.signals)'
    <3>1. page.pair[1] \in Regions /\ page.pair[2] \in Regions
      BY <1>8, <2>2 DEF Pairs
    <3>2. PICK d : d = page
      OBVIOUS
    <3>3. /\ d.cursor \in Nat /\ d.cursor <= ClockAt(d.pair[1], now)
          /\ Covers(d.pair[1], d.pair[2], d.cursor, d.records, d.events, d.signals)
      BY <1>8, <2>2, <3>1, <3>2 DEF CInv, Covered, Past
    <3>4. Covers(d.pair[1], d.pair[2], d.cursor, d.records, d.events, d.signals)'
      BY <1>10, <3>1, <3>2, <3>3
    <3>5. d = page'
      BY <1>2, <3>2
    <3>6. QED
      BY <3>4, <3>5 DEF Covers
  <2>3. QED
    BY <1>2, <2>1, <2>2 DEF Covered
<1>12. QED
  BY <1>4, <1>5, <1>6, <1>9, <1>11 DEF CInv

(* Of each live key the newest row that is read is exported.               *)
LEMMA NewestSent ==
    ASSUME TypeOK, Past, NEW r \in Regions, NEW x \in Rows(r, Available(r)),
           x.key \notin KeysOf(Events(r, Available(r)))
    PROVE  \E y \in SourceRecords(r) : y.key = x.key /\ x.at <= y.at
<1> DEFINE same == {y \in Rows(r, Available(r)) : y.key = x.key}
<1> DEFINE S == {y.at : y \in same}
<1>1. Rows(r, Available(r)) \subseteq AllRows
  BY DEF Rows, AllRows, Available
<1>2. AllRows \in SUBSET Record
  BY AllTyped
<1>3. S \in SUBSET Nat /\ S # {}
  BY <1>1, <1>2 DEF Record
<1>4. ClockAt(r, now) \in Nat /\ \A i \in S : i <= ClockAt(r, now)
  BY <1>1, RegionAssumption DEF Past, TypeOK, ClockAt
<1>5. Max(S) \in S /\ \A i \in S : i <= Max(S)
  <2> HIDE DEF S
  <2>1. QED
    BY <1>3, <1>4, MaxOf
<1>6. PICK y \in same : \A z \in same : z.at <= y.at
  BY <1>5
<1>7. y \in SourceRecords(r)
  BY <1>6 DEF SourceRecords
<1>8. QED
  BY <1>6, <1>7

LEMMA ExportKeeps ==
    ASSUME Setting, CInv, TInv', DInv', NEW p \in Pairs, Export(p[1], p[2])
    PROVE  CInv'
<1> DEFINE s == p[1]
<1> DEFINE t == p[2]
<1> DEFINE since == cursors[p]
<1> DEFINE changed == NewerThan(SourceRecords(s), since)
<1> DEFINE deleted == NewerThan(Events(s, Available(s)), since)
<1> TypeOK
  BY DEF CInv, TInv
<1>1. s \in Regions /\ t \in Regions /\ p = <<s, t>>
  BY DEF Pairs
<1>2. PICK records, events, keys, cursor :
         /\ page' = [pair |-> p, records |-> records, events |-> events,
                     signals |-> {x \in field[s] : x.key \in keys}, cursor |-> cursor]
         /\ page' \in Page
         /\ IsPageOf(records, changed, Limit)
         /\ IsPageOf(events, deleted, Limit - Cardinality(records))
         /\ \A k \in Keys : changedAt[s][k] > since => k \in keys
         /\ \/ cursor = since
            \/ \E x \in records \cup events : cursor = x.at
            \/ \E k \in Keys : cursor = changedAt[s][k]
            \/ cursor = ClockAt(s, now)
  BY ExportFacts DEF CInv
<1> DEFINE signals == {x \in field[s] : x.key \in keys}
<1>3. /\ page = NoPage /\ available' = available /\ store' = store /\ log' = log
      /\ field' = field /\ changedAt' = changedAt /\ cursors' = cursors /\ now' = now
      /\ ops' = ops
  BY DEF Export
<1>4. changed \in SUBSET AllRows /\ deleted \in SUBSET AllEvents
  BY <1>1 DEF NewerThan, SourceRecords, Rows, Events, Available, AllRows, AllEvents
<1>5. records = changed /\ events = deleted
  <2> HIDE DEF changed, deleted
  <2>1. /\ IsFiniteSet(changed) /\ IsFiniteSet(deleted)
        /\ Cardinality(changed) \in Nat /\ Cardinality(deleted) \in Nat
        /\ Cardinality(changed) + Cardinality(deleted) <= Limit
    BY <1>4, Fits DEF CInv
  <2>2. Limit \in Nat
    BY RegionAssumption
  <2>3. records = changed
    BY <1>2, <2>1, <2>2, WholePage
  <2>4. Limit - Cardinality(records) \in Nat /\ Cardinality(deleted) <= Limit - Cardinality(records)
    BY <2>1, <2>2, <2>3
  <2>5. events = deleted
    BY <1>2, <2>1, <2>4, WholePage
  <2>6. QED
    BY <2>3, <2>5
<1>6. /\ \A r \in Regions : /\ Rows(r, Replicas)' = Rows(r, Replicas)
                            /\ Events(r, Replicas)' = Events(r, Replicas)
                            /\ Known(r)' = Known(r) /\ Gone(r)' = Gone(r)
                            /\ \A x : Holders(r, x)' = Holders(r, x)
      /\ EnoughUp'
  BY <1>3 DEF Rows, Events, Known, Gone, Holders, CInv, EnoughUp, Available
<1>7. AllRows' \subseteq AllRows /\ AllEvents' \subseteq AllEvents /\ AllSignals' \subseteq AllSignals
  <2>1. page' # NoPage => /\ page'.records = changed /\ page'.events = deleted
                          /\ page'.signals = signals
    BY <1>2, <1>5
  <2>2. signals \subseteq AllSignals
    BY <1>1 DEF AllSignals
  <2> HIDE DEF changed, deleted, signals
  <2>3. QED
    BY <1>3, <1>4, <1>6, <2>1, <2>2 DEF AllRows, AllEvents, AllSignals
<1>8. Past'
  <2>1. cursor \in Nat
    BY <1>2 DEF Page
  <2>2. \A r \in Regions : cursor <= ClockAt(r, now)
    <3> SUFFICES ASSUME NEW r \in Regions PROVE cursor <= ClockAt(r, now)
      OBVIOUS
    <3>1. CASE cursor = since
      BY <3>1 DEF CInv, Past
    <3>2. CASE \E x \in records \cup events : cursor = x.at
      BY <1>4, <1>5, <3>2 DEF CInv, Past
    <3>3. CASE \E k \in Keys : cursor = changedAt[s][k]
      BY <1>1, <3>3 DEF CInv, Past
    <3>4. CASE cursor = ClockAt(s, now)
      BY <1>1, <3>4, RegionAssumption DEF Setting, ClockAt, TypeOK
    <3>5. QED
      BY <1>2, <3>1, <3>2, <3>3, <3>4
  <2>3. page'.cursor = cursor
    BY <1>2
  <2>4. \A r \in Regions : ClockAt(r, now') = ClockAt(r, now)
    BY <1>3 DEF ClockAt
  <2>5. QED
    BY <1>3, <1>7, <2>2, <2>3, <2>4 DEF CInv, Past
<1>9. AtHome'
  <2>1. /\ AllRows \in SUBSET Record /\ AllEvents \in SUBSET Event /\ AllSignals \in SUBSET Signal
    BY AllTyped
  <2>2. \A x \in AllRows \cup AllEvents \cup AllSignals : x.from \in Regions
    BY <2>1 DEF Record, Event, Signal
  <2>3. /\ \A x \in AllRows' : \/ Cardinality(Holders(x.from, x)) >= WriteQuorum
                               \/ x.key \in Gone(x.from)
        /\ \A e \in AllEvents' : e \in Events(e.from, Replicas)
        /\ \A g \in AllSignals' : g \in field[g.from] /\ g.at <= changedAt[g.from][g.key]
    BY <1>7 DEF CInv, AtHome
  <2>4. QED
    BY <1>3, <1>6, <1>7, <2>2, <2>3 DEF AtHome
<1>10. Room'
  BY <1>3, <1>7 DEF CInv, Room
<1>11. ASSUME NEW x \in Rows(s, Replicas), x.from = s, x.at <= cursor
       PROVE  x.key \in Known(t) \cup Gone(s) \cup KeysOf(records)
  <2>1. x \in AllRows
    BY <1>1 DEF AllRows
  <2>2. x \in Record
    BY <2>1, AllTyped
  <2>3. since \in Nat /\ x.at \in Nat
    BY <2>2 DEF TypeOK, Record
  <2>4. CASE x.at <= since
    BY <1>11, <2>4 DEF CInv, Covered, Covers, KeysOf
  <2>5. CASE x.at > since /\ x.key \notin Gone(s)
    <3>1. Cardinality(Holders(s, x)) >= WriteQuorum
      BY <1>11, <2>1, <2>5 DEF CInv, AtHome
    <3>2. Holders(s, x) \in SUBSET Replicas
      BY DEF Holders
    <3>3. \E n \in Available(s) : n \in Holders(s, x)
      BY <1>1, <3>1, <3>2, QuorumSeen DEF CInv
    <3>4. x \in Rows(s, Available(s))
      BY <3>3 DEF Holders, Rows
    <3>5. x.key \notin KeysOf(Events(s, Available(s)))
      BY <2>5 DEF Gone, KeysOf, Events, Available
    <3>6. PICK y \in SourceRecords(s) : y.key = x.key /\ x.at <= y.at
      BY <1>1, <3>4, <3>5, NewestSent DEF CInv
    <3>7. y \in Record
      BY <3>6, <1>1 DEF SourceRecords, Rows, Available, TypeOK
    <3>8. y \in records
      BY <1>5, <2>3, <2>5, <3>6, <3>7 DEF NewerThan, Record
    <3>9. QED
      BY <3>6, <3>8 DEF KeysOf
  <2>6. QED
    BY <2>3, <2>4, <2>5
<1>12. ASSUME NEW e \in Events(s, Replicas), e.from = s, e.at <= cursor
       PROVE  e \in Events(t, Replicas) \cup events
  <2>1. e \in AllEvents
    BY <1>1 DEF AllEvents
  <2>2. e \in Event
    BY <2>1, AllTyped
  <2>3. since \in Nat /\ e.at \in Nat
    BY <2>2 DEF TypeOK, Event
  <2>4. CASE e.at <= since
    BY <1>12, <2>4 DEF CInv, Covered, Covers
  <2>5. CASE e.at > since
    <3>1. Cardinality(Loggers(s, e)) >= WriteQuorum
      BY <1>1, <1>12 DEF CInv, DInv, DeletesSpread
    <3>2. Loggers(s, e) \in SUBSET Replicas
      BY DEF Loggers
    <3>3. \E n \in Available(s) : n \in Loggers(s, e)
      BY <1>1, <3>1, <3>2, QuorumSeen DEF CInv
    <3>4. e \in Events(s, Available(s))
      BY <3>3 DEF Loggers, Events
    <3>5. QED
      BY <1>5, <2>5, <3>4 DEF NewerThan
  <2>6. QED
    BY <2>3, <2>4, <2>5
<1>13. ASSUME NEW g \in field[s], g.from = s, g.at <= cursor
       PROVE  g \in field[t] \cup signals
  <2>1. g \in AllSignals /\ g \in Signal
    BY <1>1 DEF AllSignals, TypeOK
  <2>2. since \in Nat /\ g.at \in Nat /\ g.key \in Keys /\ changedAt[s][g.key] \in Nat
    BY <1>1, <2>1 DEF TypeOK, Signal
  <2>3. CASE g.at <= since
    BY <1>13, <2>3 DEF CInv, Covered, Covers
  <2>4. CASE g.at > since
    <3>1. g.at <= changedAt[s][g.key]
      BY <1>13, <2>1 DEF CInv, AtHome
    <3>2. g.key \in keys
      BY <1>2, <2>2, <2>4, <3>1
    <3>3. QED
      BY <3>2
  <2>5. QED
    BY <2>2, <2>3, <2>4
<1>14. Covered'
  <2> HIDE DEF s, t, since, signals
  <2>1. Covers(s, t, cursor, records, events, signals)
    BY <1>11, <1>12, <1>13 DEF Covers
  <2>2. /\ page'.pair[1] = s /\ page'.pair[2] = t /\ page'.cursor = cursor
        /\ page'.records = records /\ page'.events = events /\ page'.signals = signals
    BY <1>2 DEF s, t, signals
  <2>3. Covers(page.pair[1], page.pair[2], page.cursor,
               page.records, page.events, page.signals)'
    <3>1. PICK d : d = page'
      OBVIOUS
    <3>2. /\ d.pair[1] = s /\ d.pair[2] = t /\ d.cursor = cursor
          /\ d.records = records /\ d.events = events /\ d.signals = signals
      BY <2>2, <3>1
    <3>3. Covers(d.pair[1], d.pair[2], d.cursor, d.records, d.events, d.signals)'
      BY <1>1, <1>3, <1>6, <2>1, <3>2 DEF Covers
    <3>4. QED
      BY <3>1, <3>3 DEF Covers
  <2>4. \A q \in Pairs : Covers(q[1], q[2], cursors[q], {}, {}, {})'
    <3>1. \A q \in Pairs : q[1] \in Regions /\ q[2] \in Regions
      BY DEF Pairs
    <3>2. QED
      BY <1>3, <1>6, <3>1 DEF CInv, Covered, Covers
  <2>5. QED
    BY <2>3, <2>4 DEF Covered
<1>15. QED
  BY <1>6, <1>8, <1>9, <1>10, <1>14 DEF CInv

(* What a store loses it knows to be deleted, so no key is forgotten.      *)
LEMMA KnownGrows ==
    ASSUME TypeOK, NEW r \in Regions, Gone(r) \subseteq Gone(r)',
           \A x \in Record : x.key \in Gone(r)' \/ Holders(r, x) \subseteq Holders(r, x)'
    PROVE  Known(r) \subseteq Known(r)'
<1> SUFFICES ASSUME NEW x \in Rows(r, Replicas) PROVE x.key \in Known(r)'
  BY DEF Known, KeysOf
<1>1. PICK n \in Replicas : x \in store[r][n]
  BY DEF Rows
<1>2. x \in Record
  BY <1>1 DEF TypeOK
<1>3. CASE x \in store'[r][n]
  BY <1>3 DEF Known, Rows, KeysOf
<1>4. CASE x \notin store'[r][n]
  BY <1>1, <1>2, <1>4 DEF Holders, Known
<1>5. QED
  BY <1>3, <1>4

(* An import brings the target all of the page, and takes from it only     *)
(* what the page deletes.                                                  *)
LEMMA PageArrives ==
    ASSUME TypeOK, NEW saved \in BOOLEAN, Import(saved), NEW t, t = page.pair[2]
    PROVE  /\ Grows
           /\ KeysOf(page.records) \subseteq Known(t)'
           /\ page.events \subseteq Events(t, Replicas)'
           /\ page.signals \subseteq field'[t]
<1> DEFINE kept(n) == {x \in store[t][n] : x.key \notin KeysOf(page.events)}
<1> DEFINE gone == KeysOf(Events(t, Available(t))) \cup KeysOf(page.events)
<1>1. /\ t \in Regions /\ page.records \in SUBSET Record /\ page.events \in SUBSET Event
      /\ Cardinality(Available(t)) >= WriteQuorum
      /\ now' \in {now, now + 1} /\ now' \in Nat
      /\ \A q \in Regions \ {t} : field'[q] = field[q]
      /\ field'[t] = field[t] \cup page.signals
      /\ \/ page.signals \subseteq field[t] /\ changedAt' = changedAt
         \/ MarkChanged(t, KeysOf(page.signals))
  BY ImportFacts
<1>2. \A q \in Regions, n \in Replicas :
         log'[q][n] = log[q][n] \cup IF q = t /\ n \in Available(t) THEN page.events ELSE {}
  BY ImportFacts
<1>3. /\ \A q \in Regions, n \in Replicas : q # t \/ n \notin Available(t)
            => store'[q][n] = store[q][n]
      /\ \A n \in Available(t) : store'[t][n] = kept(n) \cup
            {x \in page.records : x.key \notin gone \cup KeysOf(kept(n))}
  BY ImportFacts
<1>4. PICK m \in Available(t) : m \in Replicas
  BY <1>1, QuorumHolds DEF Available
<1>5. /\ \A q \in Regions : Events(q, Replicas) \subseteq Events(q, Replicas)'
      /\ page.events \subseteq Events(t, Replicas)'
  <2>1. \A q \in Regions, n \in Replicas : log[q][n] \subseteq log'[q][n]
    BY <1>2
  <2>2. page.events \subseteq log'[t][m]
    BY <1>1, <1>2, <1>4
  <2>3. QED
    BY <2>1, <2>2, <1>4 DEF Events
<1>6. /\ \A q \in Regions : Gone(q) \subseteq Gone(q)'
      /\ KeysOf(page.events) \subseteq Gone(t)'
  BY <1>5 DEF Gone, KeysOf
<1>7. \A q \in Regions, x \in Record : x.key \in Gone(q)' \/ Holders(q, x) \subseteq Holders(q, x)'
  <2> SUFFICES ASSUME NEW q \in Regions, NEW x \in Record, x.key \notin Gone(q)',
                      NEW n \in Replicas, x \in store[q][n]
               PROVE  x \in store'[q][n]
    BY DEF Holders
  <2>1. CASE q # t \/ n \notin Available(t)
    BY <1>3, <2>1
  <2>2. CASE q = t /\ n \in Available(t)
    <3>1. x \in kept(n)
      BY <1>6, <2>2
    <3> HIDE DEF kept, gone
    <3>2. QED
      BY <1>3, <2>2, <3>1
  <2>3. QED
    BY <2>1, <2>2
<1>8. \A q \in Regions : Known(q) \subseteq Known(q)'
  BY <1>6, <1>7, KnownGrows
<1>9. ASSUME NEW x \in page.records PROVE x.key \in Known(t)'
  <2>1. CASE x.key \in gone
    <3>1. Events(t, Available(t)) \subseteq Events(t, Replicas)
      BY DEF Events, Available
    <3>2. KeysOf(Events(t, Available(t))) \subseteq Gone(t)
      BY <3>1 DEF Gone, KeysOf
    <3>3. x.key \in Gone(t)'
      BY <1>1, <1>6, <2>1, <3>2
    <3>4. QED
      BY <3>3 DEF Known
  <2>2. CASE x.key \in KeysOf(kept(m))
    <3>1. PICK y \in kept(m) : y.key = x.key
      BY <2>2 DEF KeysOf
    <3>2. y \in store'[t][m]
      <4> HIDE DEF kept, gone
      <4>1. QED
        BY <1>3, <3>1
    <3>3. QED
      BY <1>1, <1>4, <3>1, <3>2 DEF Known, Rows, KeysOf
  <2>3. CASE x.key \notin gone \cup KeysOf(kept(m))
    <3>1. x \in store'[t][m]
      <4> HIDE DEF kept, gone
      <4>1. QED
        BY <1>3, <2>3
    <3>2. QED
      BY <1>1, <1>4, <3>1 DEF Known, Rows, KeysOf
  <2>4. QED
    BY <2>1, <2>2, <2>3
<1>10. \A q \in Regions : /\ field[q] \subseteq field'[q]
                          /\ \A k \in Keys : changedAt[q][k] <= changedAt'[q][k]
  <2>1. \A q \in Regions, k \in Keys : changedAt[q][k] \in Nat
    BY DEF TypeOK
  <2>2. CASE changedAt' = changedAt
    BY <1>1, <2>1, <2>2
  <2>3. CASE MarkChanged(t, KeysOf(page.signals))
    <3>1. /\ \A q \in Regions \ {t} : changedAt'[q] = changedAt[q]
          /\ \A k \in Keys : changedAt[t][k] <= changedAt'[t][k]
      BY <1>1, <2>3, MarkFacts DEF TypeOK
    <3>2. QED
      BY <1>1, <2>1, <3>1
  <2>4. QED
    BY <1>1, <2>2, <2>3
<1>11. KeysOf(page.records) \subseteq Known(t)'
  BY <1>9 DEF KeysOf
<1>12. Grows
  BY <1>1, <1>5, <1>7, <1>8, <1>10 DEF Grows
<1>13. QED
  BY <1>1, <1>5, <1>11, <1>12

LEMMA ImportKeeps ==
    ASSUME Setting, CInv, TInv', DInv', NEW saved \in BOOLEAN, Import(saved)
    PROVE  CInv'
<1> DEFINE s == page.pair[1]
<1> DEFINE t == page.pair[2]
<1> TypeOK /\ TypeOK'
  BY DEF CInv, TInv
<1>1. /\ page # NoPage /\ page \in Page /\ page.pair \in Pairs /\ s \in Regions /\ t \in Regions
      /\ page.cursor \in Nat
      /\ now' \in {now, now + 1} /\ now' \in Nat
      /\ field'[t] = field[t] \cup page.signals
      /\ \A q \in Regions \ {t} : field'[q] = field[q]
      /\ changedAt' = changedAt \/ MarkChanged(t, KeysOf(page.signals))
      /\ cursors' = [cursors EXCEPT ![page.pair] = IF saved THEN page.cursor ELSE @]
      /\ page' = NoPage /\ available' = available /\ ops' = ops
  BY ImportFacts DEF Import, Pairs
<1>2. Grows
  BY PageArrives
<1>3. \A q \in Regions :
         /\ Rows(q, Replicas)' \subseteq AllRows
         /\ Events(q, Replicas)' \subseteq AllEvents
         /\ field'[q] \subseteq AllSignals
  <2>1. \A q \in Regions, n \in Replicas :
           /\ store'[q][n] \subseteq store[q][n] \cup page.records
           /\ log'[q][n] \subseteq log[q][n] \cup page.events
    <3>1. \A q \in Regions, n \in Replicas :
             log'[q][n] = log[q][n] \cup IF q = t /\ n \in Available(t) THEN page.events ELSE {}
      BY ImportFacts
    <3>2. /\ \A q \in Regions, n \in Replicas : q # t \/ n \notin Available(t)
                => store'[q][n] = store[q][n]
          /\ \A n \in Available(t) :
                LET kept == {x \in store[t][n] : x.key \notin KeysOf(page.events)}
                    gone == KeysOf(Events(t, Available(t))) \cup KeysOf(page.events)
                IN  store'[t][n] = kept \cup
                       {x \in page.records : x.key \notin gone \cup KeysOf(kept)}
      BY ImportFacts
    <3>3. \A n \in Available(t) : store'[t][n] \subseteq store[t][n] \cup page.records
      BY <3>2
    <3>4. QED
      BY <3>1, <3>2, <3>3
  <2>2. QED
    BY <1>1, <2>1 DEF Rows, Events, AllRows, AllEvents, AllSignals
<1>4. AllRows' \subseteq AllRows /\ AllEvents' \subseteq AllEvents /\ AllSignals' \subseteq AllSignals
  <2>1. /\ AllRows' = UNION {Rows(q, Replicas)' : q \in Regions}
        /\ AllEvents' = UNION {Events(q, Replicas)' : q \in Regions}
        /\ AllSignals' = UNION {field'[q] : q \in Regions}
    BY <1>1 DEF AllRows, AllEvents, AllSignals
  <2>2. QED
    BY <1>3, <2>1
<1>5. EnoughUp'
  BY <1>1 DEF CInv, EnoughUp, Available
<1>6. AtHome'
  BY <1>2, <1>4, AtHomeOnward DEF CInv
<1>7. Room'
  BY <1>1, <1>4 DEF CInv, Room
<1>8. Past'
  <2>1. \A q \in Regions : /\ ClockAt(q, now) \in Nat /\ ClockAt(q, now') \in Nat
                           /\ ClockAt(q, now) <= ClockAt(q, now')
                           /\ ClockAt(t, now') = ClockAt(q, now')
    BY <1>1, RegionAssumption DEF Setting, TypeOK, ClockAt
  <2>2. \A x \in AllRows \cup AllEvents \cup AllSignals : x.at \in Nat
    BY AllTyped DEF Record, Event, Signal
  <2>3. ASSUME NEW q \in Regions, NEW r \in Regions, NEW k \in Keys
        PROVE  changedAt'[r][k] <= ClockAt(q, now')
    <3>1. changedAt[r][k] \in Nat /\ changedAt[r][k] <= ClockAt(q, now)
      BY <2>3 DEF CInv, Past, TypeOK
    <3>2. changedAt'[r][k] \in {changedAt[r][k], ClockAt(t, now')}
      <4>1. CASE changedAt' = changedAt
        BY <4>1
      <4>2. CASE MarkChanged(t, KeysOf(page.signals))
        BY <1>1, <2>3, <4>2, MarkFacts DEF TypeOK
      <4>3. QED
        BY <1>1, <4>1, <4>2
    <3>3. QED
      BY <2>1, <2>3, <3>1, <3>2
  <2>4. ASSUME NEW q \in Regions, NEW p \in Pairs PROVE cursors'[p] <= ClockAt(q, now')
    <3>1. cursors'[p] \in {cursors[p], page.cursor}
      BY <1>1, <2>4 DEF TypeOK
    <3>2. /\ cursors[p] \in Nat /\ cursors[p] <= ClockAt(q, now)
          /\ page.cursor <= ClockAt(q, now)
      BY <1>1, <2>4 DEF CInv, Past, TypeOK
    <3>3. QED
      BY <1>1, <2>1, <2>4, <3>1, <3>2
  <2>5. ASSUME NEW q \in Regions, NEW x \in AllRows' \cup AllEvents' \cup AllSignals'
        PROVE  0 < x.at /\ x.at <= ClockAt(q, now')
    <3>1. x \in AllRows \cup AllEvents \cup AllSignals
      BY <1>4, <2>5
    <3>2. 0 < x.at /\ x.at <= ClockAt(q, now) /\ x.at \in Nat
      BY <2>2, <2>5, <3>1 DEF CInv, Past
    <3>3. QED
      BY <2>1, <2>5, <3>2
  <2>6. QED
    BY <1>1, <2>3, <2>4, <2>5 DEF Past
<1>9. ASSUME NEW q \in Regions, NEW r \in Regions, NEW c, NEW rows, NEW events, NEW signals,
             Covers(q, r, c, rows, events, signals)
      PROVE  Covers(q, r, c, rows, events, signals)'
  BY <1>2, <1>3, <1>9, CoversOnward DEF CInv
<1>10. ASSUME NEW p \in Pairs PROVE Covers(p[1], p[2], cursors[p], {}, {}, {})'
  <2>1. p[1] \in Regions /\ p[2] \in Regions
    BY <1>10 DEF Pairs
  <2>2. CASE cursors'[p] = cursors[p]
    <3>1. PICK c : c = cursors[p]
      OBVIOUS
    <3>2. Covers(p[1], p[2], c, {}, {}, {})'
      BY <1>9, <1>10, <2>1, <3>1 DEF CInv, Covered
    <3>3. QED
      BY <2>2, <3>1, <3>2 DEF Covers
  <2>3. CASE p = page.pair /\ cursors'[p] = page.cursor
    <3>1. PICK d : d = page
      OBVIOUS
    <3>2. Covers(d.pair[1], d.pair[2], d.cursor, d.records, d.events, d.signals)
      BY <1>1, <3>1 DEF CInv, Covered
    <3>3. d.pair[1] = p[1] /\ d.pair[2] = p[2] /\ d.cursor = cursors'[p]
      BY <2>3, <3>1
    <3>4. Covers(d.pair[1], d.pair[2], d.cursor, d.records, d.events, d.signals)'
      BY <1>9, <2>1, <3>2, <3>3
    <3>5. /\ KeysOf(d.records) \subseteq Known(p[2])'
          /\ d.events \subseteq Events(p[2], Replicas)'
          /\ d.signals \subseteq field'[p[2]]
      BY <3>1, <2>3, PageArrives
    <3>6. QED
      BY <3>3, <3>4, <3>5 DEF Covers
  <2>4. cursors'[p] = cursors[p] \/ (p = page.pair /\ cursors'[p] = page.cursor)
    BY <1>1, <1>10 DEF TypeOK
  <2>5. QED
    BY <2>2, <2>3, <2>4
<1>11. Covered'
  BY <1>1, <1>10 DEF Covered
<1>12. QED
  BY <1>5, <1>6, <1>7, <1>8, <1>11 DEF CInv

(* A step that leaves the regions alone and perhaps drops the page, sets   *)
(* the worker's cursors back or changes what is available.                 *)
LEMMA QuietKeeps ==
    ASSUME CInv, TInv', DInv', EnoughUp',
           store' = store, log' = log, field' = field, changedAt' = changedAt,
           now' = now, ops' = ops, page' \in {page, NoPage},
           cursors' \in {cursors, [p \in Pairs |-> 0]}
    PROVE  CInv'
<1> TypeOK /\ TypeOK'
  BY DEF CInv, TInv
<1>1. \A r \in Regions : /\ Rows(r, Replicas)' = Rows(r, Replicas)
                         /\ Events(r, Replicas)' = Events(r, Replicas)
                         /\ Known(r)' = Known(r) /\ Gone(r)' = Gone(r)
                         /\ ClockAt(r, now') = ClockAt(r, now) /\ ClockAt(r, now) \in Nat
                         /\ \A x : Holders(r, x)' = Holders(r, x)
  BY RegionAssumption DEF Rows, Events, Known, Gone, Holders, ClockAt, TypeOK
<1>2. AllRows' \subseteq AllRows /\ AllEvents' \subseteq AllEvents /\ AllSignals' \subseteq AllSignals
  BY <1>1 DEF AllRows, AllEvents, AllSignals
<1>3. Grows
  <2>1. \A r \in Regions, k \in Keys : changedAt[r][k] \in Nat
    BY DEF TypeOK
  <2>2. QED
    BY <1>1, <2>1 DEF Grows
<1>4. AtHome'
  BY <1>2, <1>3, AtHomeOnward DEF CInv
<1>5. Past'
  BY <1>1, <1>2 DEF CInv, Past
<1>6. Room'
  BY <1>2 DEF CInv, Room
<1>7. \A p \in Pairs : Covers(p[1], p[2], cursors[p], {}, {}, {})'
  <2> SUFFICES ASSUME NEW p \in Pairs PROVE Covers(p[1], p[2], cursors[p], {}, {}, {})'
    OBVIOUS
  <2>1. p[1] \in Regions /\ p[2] \in Regions
    BY DEF Pairs
  <2>2. CASE cursors' = cursors
    BY <1>1, <2>1, <2>2 DEF CInv, Covered, Covers
  <2>3. CASE cursors'[p] = 0
    <3>1. /\ Rows(p[1], Replicas) \subseteq AllRows /\ Events(p[1], Replicas) \subseteq AllEvents
          /\ field[p[1]] \subseteq AllSignals
      BY <2>1 DEF AllRows, AllEvents, AllSignals
    <3>2. \A x \in AllRows \cup AllEvents \cup AllSignals : x.at \in Nat /\ ~(x.at <= 0)
      BY <2>1, AllTyped DEF CInv, Past, Record, Event, Signal
    <3>3. QED
      BY <1>1, <2>1, <2>3, <3>1, <3>2 DEF Covers
  <2>4. QED
    BY <2>2, <2>3
<1>8. ASSUME page # NoPage, page' = page
      PROVE  Covers(page.pair[1], page.pair[2], page.cursor,
                    page.records, page.events, page.signals)'
  <2>1. page.pair[1] \in Regions /\ page.pair[2] \in Regions
    BY <1>8 DEF TypeOK, Page, Pairs
  <2>2. PICK d : d = page
    OBVIOUS
  <2>3. Covers(d.pair[1], d.pair[2], d.cursor, d.records, d.events, d.signals)
    BY <1>8, <2>2 DEF CInv, Covered
  <2>4. Covers(d.pair[1], d.pair[2], d.cursor, d.records, d.events, d.signals)'
    BY <1>1, <2>1, <2>2, <2>3 DEF Covers
  <2>5. QED
    BY <1>8, <2>2, <2>4 DEF Covers
<1>9. Covered'
  BY <1>7, <1>8 DEF Covered
<1>10. QED
  BY <1>4, <1>5, <1>6, <1>9 DEF CInv

LEMMA InitCovered == Init => CInv
<1> SUFFICES ASSUME Init PROVE CInv
  OBVIOUS
<1>1. TInv /\ DInv
  BY InitTyped, InitInv
<1>2. \A r \in Regions : /\ Rows(r, Replicas) = {} /\ Events(r, Replicas) = {}
                         /\ field[r] = {} /\ Available(r) = Replicas
  BY DEF Init, Rows, Events, Available
<1>3. AllRows = {} /\ AllEvents = {} /\ AllSignals = {} /\ page = NoPage
  BY <1>2 DEF Init, AllRows, AllEvents, AllSignals
<1>4. EnoughUp
  BY <1>2, ReplicaSets, RegionAssumption DEF EnoughUp
<1>5. Past
  BY <1>3, RegionAssumption DEF Init, Past, ClockAt
<1>6. AtHome
  BY <1>3 DEF AtHome
<1>7. Covered
  BY <1>2, <1>3 DEF Covered, Covers, Pairs
<1>8. Room
  <2>1. ops = 0 /\ ops <= MaxOps
    BY RegionAssumption DEF Init
  <2>2. IsFiniteSet({}) /\ Cardinality({}) = 0
    BY FS_EmptySet
  <2>3. QED
    BY <1>3, <2>1, <2>2 DEF Room
<1>9. QED
  BY <1>1, <1>4, <1>5, <1>6, <1>7, <1>8 DEF CInv

LEMMA StepCovered ==
    ASSUME Setting, CInv, [Next]_vars
    PROVE  CInv'
<1>1. TInv' /\ DInv'
  BY StepTyped, StepInv DEF CInv
<1>2. ASSUME NEW r \in Regions, NEW n \in Replicas, NEW up \in BOOLEAN,
             SetNodeAvailable(r, n, up)
      PROVE  CInv'
  <2>1. EnoughUp'
    <3> SUFFICES ASSUME NEW q \in Regions PROVE Cardinality(Available(q)') >= MinUp
      BY DEF EnoughUp
    <3>1. /\ available' = [available EXCEPT ![r] = [available[r] EXCEPT ![n] = up]]
          /\ up \/ Cardinality(Available(r)) > MinUp
          /\ available \in [Regions -> [Replicas -> BOOLEAN]]
      BY <1>2 DEF SetNodeAvailable, CInv, TInv, TypeOK
    <3>2. /\ Available(q) \in SUBSET Replicas /\ Available(q)' \in SUBSET Replicas
          /\ Cardinality(Available(q)) >= MinUp
      BY DEF Available, CInv, EnoughUp
    <3>3. CASE q # r \/ up
      <4>1. Available(q) \subseteq Available(q)'
        BY <3>1, <3>3 DEF Available
      <4>2. QED
        BY <3>2, <4>1, ReplicaSets, RegionAssumption
    <3>4. CASE q = r /\ ~up
      <4>1. Available(q)' = Available(q) \ {n}
        BY <3>1, <3>4 DEF Available
      <4>2. Cardinality(Available(q) \ {n}) >= Cardinality(Available(q)) - 1
        BY <3>2, ReplicaSets, FS_RemoveElement
      <4>3. Cardinality(Available(q)) \in Nat /\ Cardinality(Available(q) \ {n}) \in Nat
        BY <3>2, <4>1, ReplicaSets
      <4>4. QED
        BY <3>1, <3>4, <4>1, <4>2, <4>3, RegionAssumption
    <3>5. QED
      BY <3>3, <3>4
  <2>2. QED
    BY <1>1, <1>2, <2>1, QuietKeeps DEF SetNodeAvailable
<1>3. ASSUME NEW r \in Regions, NEW k \in Keys,
             Remember(r, k) \/ Forget(r, k) \/ Recall(r, k)
      PROVE  CInv'
  BY <1>1, <1>3, CallKeeps
<1>4. ASSUME NEW p \in Pairs, Export(p[1], p[2]) PROVE CInv'
  BY <1>1, <1>4, ExportKeeps
<1>5. ASSUME NEW saved \in BOOLEAN, Import(saved) PROVE CInv'
  BY <1>1, <1>5, ImportKeeps
<1>6. CASE LosePage \/ WorkerRestart \/ UNCHANGED vars
  <2>1. EnoughUp'
    BY <1>6 DEF LosePage, WorkerRestart, vars, CInv, EnoughUp, Available
  <2>2. QED
    BY <1>1, <1>6, <2>1, QuietKeeps DEF LosePage, WorkerRestart, vars
<1>7. QED
  BY <1>2, <1>3, <1>4, <1>5, <1>6 DEF Next

(* With equal clocks, pages that do not fill and outages of fewer replicas *)
(* than a write quorum, what lies behind a cursor has arrived, whatever    *)
(* pages, answers and cursors are lost and whatever happens in between.    *)
THEOREM CursorsCover == Setting /\ Spec => []CursorCovers
<1>1. CInv => CursorCovers
  <2> SUFFICES ASSUME CInv PROVE CursorCovers
    OBVIOUS
  <2>1. \A p \in Pairs : Covers(p[1], p[2], cursors[p], {}, {}, {})
    BY DEF CInv, Covered
  <2>2. QED
    BY <2>1 DEF Covers, CursorCovers, Known, Gone, KeysOf
<1>2. Setting /\ CInv /\ [Next]_vars => CInv'
  BY StepCovered
<1>3. Setting => Setting'
  BY DEF Setting
<1>4. QED
  BY <1>1, <1>2, <1>3, InitCovered, PTL DEF Spec
=============================================================================
