------------------------ MODULE FieldStateCRDT_proofs ------------------------
(* Machine-checked facts about the distributed field state, for any number *)
(* of regions, keys and deltas.                                            *)
EXTENDS FieldStateCRDT, FiniteSetTheorems, TLAPS

(* Everything that carries field state.                                    *)
Held == {state[r] : r \in Regions} \cup sent

LEMMA LargerFacts ==
    /\ \A i, j \in Nat : Larger(i, j) \in Nat /\ i <= Larger(i, j) /\ j <= Larger(i, j)
    /\ \A i, j, k \in Nat : Larger(i, j) <= k <=> i <= k /\ j <= k
    /\ \A i, j \in Nat : Larger(i, j) = Larger(j, i) /\ Larger(i, i) = i
    /\ \A i, j, k \in Nat : Larger(i, Larger(j, k)) = Larger(Larger(i, j), k)
    /\ \A i, j \in Nat : Larger(i, j) \in {i, j}
  BY DEF Larger

LEMMA FieldStateParts ==
    ASSUME NEW x \in FieldState
    PROVE  /\ x.cells \in [Cells -> Nat]
           /\ x.watermarks \in [Regions -> Nat]
           /\ x.heard \in [Cells -> SUBSET Nat]
           /\ x.cut \in SUBSET Regions
           /\ x = [cells |-> x.cells, watermarks |-> x.watermarks, heard |-> x.heard,
                   cut |-> x.cut]
  BY DEF FieldState

LEMMA MergedParts ==
    ASSUME NEW x \in FieldState, NEW y \in FieldState
    PROVE  /\ Merged(x, y) \in FieldState
           /\ \A c \in Cells :
                 /\ Merged(x, y).cells[c] = Larger(x.cells[c], y.cells[c])
                 /\ Merged(x, y).heard[c] = x.heard[c] \cup y.heard[c]
           /\ \A a \in Regions :
                 Merged(x, y).watermarks[a] = Larger(x.watermarks[a], y.watermarks[a])
           /\ Merged(x, y).cut = CutOf(x, y)
<1>1. /\ \A c \in Cells : /\ Larger(x.cells[c], y.cells[c]) \in Nat
                          /\ x.heard[c] \cup y.heard[c] \in SUBSET Nat
      /\ \A a \in Regions : Larger(x.watermarks[a], y.watermarks[a]) \in Nat
  BY LargerFacts, FieldStateParts
<1>2. CutOf(x, y) \in SUBSET Regions
  BY DEF CutOf
<1> HIDE DEF CutOf
<1>3. Merged(x, y) \in FieldState
  BY <1>1, <1>2 DEF Merged, FieldState
<1>4. QED
  BY <1>3 DEF Merged

(* Two field states with the same values everywhere are the same.          *)
LEMMA SameFieldState ==
    ASSUME NEW x \in FieldState, NEW y \in FieldState,
           \A c \in Cells : x.cells[c] = y.cells[c] /\ x.heard[c] = y.heard[c],
           \A a \in Regions : x.watermarks[a] = y.watermarks[a],
           x.cut = y.cut
    PROVE  x = y
<1>1. x.cells = y.cells /\ x.heard = y.heard
  BY FieldStateParts
<1>2. x.watermarks = y.watermarks
  BY FieldStateParts
<1>3. QED
  BY <1>1, <1>2, FieldStateParts

(* It does not matter for what is cut which of two is merged into which.   *)
LEMMA CutFacts ==
    ASSUME NEW x \in FieldState, NEW y \in FieldState
    PROVE  CutOf(x, y) = CutOf(y, x) /\ CutOf(x, x) = x.cut
<1>1. CutOf(x, y) = CutOf(y, x)
  BY DEF CutOf
<1>2. x.cut \in SUBSET Regions /\ \A a \in Regions : x.watermarks[a] >= x.watermarks[a]
  BY FieldStateParts
<1>3. CutOf(x, x) = x.cut
  BY <1>2 DEF CutOf
<1>4. QED
  BY <1>1, <1>3

(* "Merge is deterministic, commutative, and idempotent", and associative: *)
(* the result depends on the set of deltas merged, not on their order or   *)
(* number.                                                                 *)
THEOREM MergeIsJoin ==
    ASSUME NEW x \in FieldState, NEW y \in FieldState, NEW z \in FieldState
    PROVE  /\ Merged(x, y) = Merged(y, x)
           /\ Merged(x, x) = x
           /\ Merged(x, Merged(y, z)) = Merged(Merged(x, y), z)
<1>1. /\ \A c \in Cells : /\ x.cells[c] \in Nat /\ y.cells[c] \in Nat /\ z.cells[c] \in Nat
      /\ \A a \in Regions : /\ x.watermarks[a] \in Nat /\ y.watermarks[a] \in Nat
                            /\ z.watermarks[a] \in Nat
  BY FieldStateParts
<1>2. Merged(x, y) = Merged(y, x)
  <2> DEFINE u == Merged(x, y)
             v == Merged(y, x)
  <2>1. u \in FieldState /\ v \in FieldState
    BY MergedParts
  <2>2. /\ \A c \in Cells : /\ u.cells[c] = Larger(x.cells[c], y.cells[c])
                            /\ v.cells[c] = Larger(y.cells[c], x.cells[c])
                            /\ u.heard[c] = x.heard[c] \cup y.heard[c]
                            /\ v.heard[c] = y.heard[c] \cup x.heard[c]
        /\ \A a \in Regions :
              /\ u.watermarks[a] = Larger(x.watermarks[a], y.watermarks[a])
              /\ v.watermarks[a] = Larger(y.watermarks[a], x.watermarks[a])
        /\ u.cut = CutOf(x, y) /\ v.cut = CutOf(y, x)
    BY MergedParts
  <2> HIDE DEF u, v
  <2>3. /\ \A c \in Cells : u.cells[c] = v.cells[c]
        /\ \A a \in Regions : u.watermarks[a] = v.watermarks[a]
    BY <1>1, <2>2, LargerFacts
  <2>4. \A c \in Cells : u.heard[c] = v.heard[c]
    BY <2>2
  <2>5. u.cut = v.cut
    BY <2>2, CutFacts
  <2>6. u = v
    BY <2>1, <2>3, <2>4, <2>5, SameFieldState
  <2>7. QED
    BY <2>6 DEF u, v
<1>3. Merged(x, x) = x
  <2> DEFINE u == Merged(x, x)
  <2>1. u \in FieldState
    BY MergedParts
  <2>2. /\ \A c \in Cells : /\ u.cells[c] = Larger(x.cells[c], x.cells[c])
                            /\ u.heard[c] = x.heard[c] \cup x.heard[c]
        /\ \A a \in Regions :
              u.watermarks[a] = Larger(x.watermarks[a], x.watermarks[a])
        /\ u.cut = CutOf(x, x)
    BY MergedParts
  <2> HIDE DEF u
  <2>3. /\ \A c \in Cells : u.cells[c] = x.cells[c]
        /\ \A a \in Regions : u.watermarks[a] = x.watermarks[a]
    BY <1>1, <2>2, LargerFacts
  <2>4. \A c \in Cells : u.heard[c] = x.heard[c]
    BY <2>2
  <2>5. u.cut = x.cut
    BY <2>2, CutFacts
  <2>6. u = x
    BY <2>1, <2>3, <2>4, <2>5, SameFieldState
  <2>7. QED
    BY <2>6 DEF u
<1>4. Merged(x, Merged(y, z)) = Merged(Merged(x, y), z)
  <2> DEFINE yz == Merged(y, z)
             xy == Merged(x, y)
             u == Merged(x, yz)
             v == Merged(xy, z)
  <2>1. /\ yz \in FieldState /\ xy \in FieldState
        /\ \A c \in Cells : /\ yz.cells[c] = Larger(y.cells[c], z.cells[c])
                            /\ xy.cells[c] = Larger(x.cells[c], y.cells[c])
                            /\ yz.heard[c] = y.heard[c] \cup z.heard[c]
                            /\ xy.heard[c] = x.heard[c] \cup y.heard[c]
        /\ \A a \in Regions :
              /\ yz.watermarks[a] = Larger(y.watermarks[a], z.watermarks[a])
              /\ xy.watermarks[a] = Larger(x.watermarks[a], y.watermarks[a])
        /\ yz.cut = CutOf(y, z) /\ xy.cut = CutOf(x, y)
    BY MergedParts
  <2> HIDE DEF yz, xy
  <2>2. /\ u \in FieldState /\ v \in FieldState
        /\ \A c \in Cells : /\ u.cells[c] = Larger(x.cells[c], yz.cells[c])
                            /\ v.cells[c] = Larger(xy.cells[c], z.cells[c])
                            /\ u.heard[c] = x.heard[c] \cup yz.heard[c]
                            /\ v.heard[c] = xy.heard[c] \cup z.heard[c]
        /\ \A a \in Regions :
              /\ u.watermarks[a] = Larger(x.watermarks[a], yz.watermarks[a])
              /\ v.watermarks[a] = Larger(xy.watermarks[a], z.watermarks[a])
        /\ u.cut = CutOf(x, yz) /\ v.cut = CutOf(xy, z)
    BY <2>1, MergedParts
  <2> HIDE DEF u, v
  <2>3. \A c \in Cells : u.cells[c] = v.cells[c]
    BY <1>1, <2>1, <2>2, LargerFacts
  <2>4. ASSUME NEW c \in Cells PROVE u.heard[c] = v.heard[c]
    <3>1. u.heard[c] = x.heard[c] \cup (y.heard[c] \cup z.heard[c])
      BY <2>1, <2>2
    <3>2. v.heard[c] = (x.heard[c] \cup y.heard[c]) \cup z.heard[c]
      BY <2>1, <2>2
    <3>3. QED
      BY <3>1, <3>2
  <2>5. \A a \in Regions : u.watermarks[a] = v.watermarks[a]
    BY <1>1, <2>1, <2>2, LargerFacts
  <2>6. u.cut = v.cut
    <3>1. ASSUME NEW a \in Regions PROVE a \in CutOf(x, yz) <=> a \in CutOf(xy, z)
      <4>1. /\ x.watermarks[a] \in Nat /\ y.watermarks[a] \in Nat
            /\ z.watermarks[a] \in Nat
            /\ yz.watermarks[a] = Larger(y.watermarks[a], z.watermarks[a])
            /\ xy.watermarks[a] = Larger(x.watermarks[a], y.watermarks[a])
        BY <1>1, <2>1
      <4>2. /\ a \in yz.cut <=> a \in CutOf(y, z)
            /\ a \in xy.cut <=> a \in CutOf(x, y)
        BY <2>1
      <4>3. QED
        BY <4>1, <4>2 DEF CutOf, Larger
    <3>2. CutOf(x, yz) \subseteq Regions /\ CutOf(xy, z) \subseteq Regions
      BY DEF CutOf
    <3>3. CutOf(x, yz) = CutOf(xy, z)
      BY <3>1, <3>2
    <3>4. QED
      BY <2>2, <3>3
  <2>7. u = v
    BY <2>2, <2>3, <2>4, <2>5, <2>6, SameFieldState
  <2>8. QED
    BY <2>7 DEF u, v, xy, yz
<1>5. QED
  BY <1>2, <1>3, <1>4

(* A delta carries part of what the region holds.  If it is not cut on an  *)
(* actor whose watermark it carries, it holds all the region does of it.   *)
LEMMA DeltaParts ==
    ASSUME NEW x \in FieldState, NEW keys
    PROVE  /\ Delta(x, keys) \in FieldState
           /\ \A c \in Cells :
                 \/ /\ Delta(x, keys).cells[c] = x.cells[c]
                    /\ Delta(x, keys).heard[c] = x.heard[c]
                 \/ /\ Delta(x, keys).cells[c] = 0
                    /\ Delta(x, keys).heard[c] = {}
           /\ \A a \in Regions :
                 \/ /\ Delta(x, keys).watermarks[a] = x.watermarks[a]
                    /\ a \notin Delta(x, keys).cut =>
                          /\ a \notin x.cut
                          /\ \A c \in Cells : c.actor = a =>
                                Delta(x, keys).cells[c] = x.cells[c]
                 \/ /\ Delta(x, keys).watermarks[a] = 0
                    /\ \A c \in Cells : c.actor = a => Delta(x, keys).cells[c] = 0
<1> DEFINE d == Delta(x, keys)
           actors == {a \in Regions : \E c \in Cells :
                         c.key \in keys /\ c.actor = a /\ x.cells[c] > 0}
           cut == {a \in actors : \/ a \in x.cut
                                  \/ \E c \in Cells :
                                        c.key \notin keys /\ c.actor = a /\ x.cells[c] > 0}
<1>1. d = [cells |-> [c \in Cells |-> IF c.key \in keys THEN x.cells[c] ELSE 0],
           watermarks |-> [a \in Regions |-> IF a \in actors THEN x.watermarks[a] ELSE 0],
           heard |-> [c \in Cells |-> IF c.key \in keys THEN x.heard[c] ELSE {}],
           cut |-> cut]
  BY DEF Delta
<1>2. cut \in SUBSET Regions
  OBVIOUS
<1>3. \A c \in Cells : x.cells[c] \in Nat
  BY FieldStateParts
<1>4. ASSUME NEW a \in actors, a \notin cut, NEW c \in Cells, c.actor = a
      PROVE  a \notin x.cut /\ (c.key \notin keys => x.cells[c] = 0)
  BY <1>3, <1>4
<1>5. ASSUME NEW a \in Regions, a \notin actors, NEW c \in Cells, c.actor = a
      PROVE  c.key \in keys => x.cells[c] = 0
  BY <1>3, <1>5
<1>6. ASSUME NEW a \in actors, a \notin cut PROVE a \notin x.cut
  BY <1>6
<1> HIDE DEF actors, cut, d
<1>7. d \in FieldState
  BY <1>1, <1>2, FieldStateParts DEF FieldState
<1>8. \A c \in Cells : /\ d.cells[c] = IF c.key \in keys THEN x.cells[c] ELSE 0
                       /\ d.heard[c] = IF c.key \in keys THEN x.heard[c] ELSE {}
  BY <1>1
<1>9. /\ \A a \in Regions : d.watermarks[a] = IF a \in actors THEN x.watermarks[a] ELSE 0
      /\ d.cut = cut
  BY <1>1
<1>10. ASSUME NEW a \in Regions
       PROVE  \/ /\ d.watermarks[a] = x.watermarks[a]
                 /\ a \notin d.cut => /\ a \notin x.cut
                                      /\ \A c \in Cells : c.actor = a =>
                                            d.cells[c] = x.cells[c]
              \/ /\ d.watermarks[a] = 0
                 /\ \A c \in Cells : c.actor = a => d.cells[c] = 0
  <2>1. CASE a \in actors
    <3>1. d.watermarks[a] = x.watermarks[a]
      BY <1>9, <2>1
    <3>2. ASSUME a \notin d.cut
          PROVE  a \notin x.cut /\ \A c \in Cells : c.actor = a => d.cells[c] = x.cells[c]
      BY <1>4, <1>6, <1>8, <1>9, <2>1, <3>2
    <3>3. QED
      BY <3>1, <3>2
  <2>2. CASE a \notin actors
    BY <1>5, <1>8, <1>9, <2>2
  <2>3. QED
    BY <2>1, <2>2
<1>11. QED
  BY <1>7, <1>8, <1>10 DEF d

(* What a region starts with, at first and after a restart.                *)
LEMMA EmptyTyped == Empty \in FieldState
  BY DEF Empty, FieldState

(* The field state of a region after a signal of its own.                  *)
LEMMA IncrementParts ==
    ASSUME TypeOK, NEW r \in Regions, NEW t \in Counters, NEW k \in Keys,
           Increment(r, t, k)
    PROVE  \E c \in Cells :
             /\ c.actor = r /\ c.tree \in Counters
             /\ issued' = [issued EXCEPT ![c] = issued[c] + 1]
             /\ state'[r] \in FieldState
             /\ state' = [state EXCEPT ![r] = state'[r]]
             /\ now' = now + 1
             /\ state'[r].cells = [state[r].cells EXCEPT ![c] = state[r].cells[c] + 1]
             /\ state'[r].watermarks = [state[r].watermarks EXCEPT
                                          ![r] = Larger(state[r].watermarks[r], now')]
             /\ state'[r].heard = [state[r].heard EXCEPT
                                     ![c] = state[r].heard[c] \cup {issued'[c]}]
             /\ state'[r].cut = state[r].cut
<1> DEFINE x == state[r]
           c == [tree |-> t, key |-> k, actor |-> r]
           y == [cells |-> [x.cells EXCEPT ![c] = x.cells[c] + 1],
                 watermarks |-> [x.watermarks EXCEPT ![r] = Larger(x.watermarks[r], now')],
                 heard |-> [x.heard EXCEPT ![c] = x.heard[c] \cup {issued'[c]}],
                 cut |-> x.cut]
<1>1. c \in Cells /\ c.actor = r /\ c.tree \in Counters
  BY DEF Cells, Trees
<1>2. /\ now' = now + 1 /\ issued' = [issued EXCEPT ![c] = issued[c] + 1]
      /\ state' = [state EXCEPT ![r] = y]
  BY DEF Increment, MarkWatermark
<1>3. /\ x \in FieldState /\ now' \in Nat /\ issued'[c] \in Nat
      /\ state \in [Regions -> FieldState]
  BY <1>1, <1>2 DEF TypeOK
<1> HIDE DEF c, x
<1>4. y \in FieldState
  <2>1. /\ x.cells \in [Cells -> Nat] /\ x.watermarks \in [Regions -> Nat]
        /\ x.heard \in [Cells -> SUBSET Nat] /\ x.cut \in SUBSET Regions
    BY <1>3, FieldStateParts
  <2>2. /\ [x.cells EXCEPT ![c] = x.cells[c] + 1] \in [Cells -> Nat]
        /\ [x.heard EXCEPT ![c] = x.heard[c] \cup {issued'[c]}] \in [Cells -> SUBSET Nat]
    BY <1>1, <1>3, <2>1
  <2>3. [x.watermarks EXCEPT ![r] = Larger(x.watermarks[r], now')] \in [Regions -> Nat]
    BY <1>3, <2>1, LargerFacts
  <2>4. QED
    BY <2>1, <2>2, <2>3 DEF FieldState
<1>5. state'[r] = y
  BY <1>2, <1>3
<1>6. /\ y.cells = [x.cells EXCEPT ![c] = x.cells[c] + 1]
      /\ y.watermarks = [x.watermarks EXCEPT ![r] = Larger(x.watermarks[r], now')]
      /\ y.heard = [x.heard EXCEPT ![c] = x.heard[c] \cup {issued'[c]}]
      /\ y.cut = x.cut
  OBVIOUS
<1> HIDE DEF y
<1>7. QED
  BY <1>1, <1>2, <1>4, <1>5, <1>6 DEF x

LEMMA TombstoneParts ==
    ASSUME TypeOK, NEW r \in Regions, NEW k \in Keys, Tombstone(r, k)
    PROVE  \E c \in Cells :
             /\ c.actor = r /\ c.tree \notin Counters
             /\ state'[r] \in FieldState
             /\ state' = [state EXCEPT ![r] = state'[r]]
             /\ now' = now + 1
             /\ state'[r].cells = [state[r].cells EXCEPT
                                     ![c] = Larger(state[r].cells[c], now')]
             /\ state'[r].watermarks = [state[r].watermarks EXCEPT
                                          ![r] = Larger(state[r].watermarks[r], now')]
             /\ state'[r].heard = state[r].heard
             /\ state'[r].cut = state[r].cut
<1> DEFINE x == state[r]
           c == [tree |-> "tombstones", key |-> k, actor |-> r]
           y == [cells |-> [x.cells EXCEPT ![c] = Larger(x.cells[c], now')],
                 watermarks |-> [x.watermarks EXCEPT ![r] = Larger(x.watermarks[r], now')],
                 heard |-> x.heard, cut |-> x.cut]
<1>1. c \in Cells /\ c.actor = r /\ c.tree \notin Counters
  BY DEF Cells, Trees, Counters
<1>2. now' = now + 1 /\ state' = [state EXCEPT ![r] = y]
  BY DEF Tombstone, MarkWatermark
<1>3. x \in FieldState /\ now' \in Nat /\ state \in [Regions -> FieldState]
  BY <1>2 DEF TypeOK
<1> HIDE DEF c, x
<1>4. y \in FieldState
  <2>1. /\ x.cells \in [Cells -> Nat] /\ x.watermarks \in [Regions -> Nat]
        /\ x.heard \in [Cells -> SUBSET Nat] /\ x.cut \in SUBSET Regions
    BY <1>3, FieldStateParts
  <2>2. [x.cells EXCEPT ![c] = Larger(x.cells[c], now')] \in [Cells -> Nat]
    BY <1>1, <1>3, <2>1, LargerFacts
  <2>3. [x.watermarks EXCEPT ![r] = Larger(x.watermarks[r], now')] \in [Regions -> Nat]
    BY <1>3, <2>1, LargerFacts
  <2>4. QED
    BY <2>1, <2>2, <2>3 DEF FieldState
<1>5. state'[r] = y
  BY <1>2, <1>3
<1>6. /\ y.cells = [x.cells EXCEPT ![c] = Larger(x.cells[c], now')]
      /\ y.watermarks = [x.watermarks EXCEPT ![r] = Larger(x.watermarks[r], now')]
      /\ y.heard = x.heard /\ y.cut = x.cut
  OBVIOUS
<1> HIDE DEF y
<1>7. QED
  BY <1>1, <1>2, <1>4, <1>5, <1>6 DEF x

LEMMA TypeStep == TypeOK /\ [Next]_vars => TypeOK'
<1> SUFFICES ASSUME TypeOK, [Next]_vars PROVE TypeOK'
  OBVIOUS
<1>1. CASE UNCHANGED vars
  BY <1>1 DEF vars, TypeOK
<1>2. ASSUME NEW r \in Regions, NEW k \in Keys, NEW t \in Counters, Increment(r, t, k)
      PROVE  TypeOK'
  <2>1. PICK c \in Cells :
           /\ issued' = [issued EXCEPT ![c] = issued[c] + 1]
           /\ state'[r] \in FieldState
           /\ state' = [state EXCEPT ![r] = state'[r]]
    BY <1>2, IncrementParts
  <2>2. issued' \in [Cells -> Nat] /\ state' \in [Regions -> FieldState]
    BY <2>1 DEF TypeOK
  <2>3. QED
    BY <1>2, <2>2 DEF Increment, TypeOK
<1>3. ASSUME NEW r \in Regions, NEW k \in Keys, Tombstone(r, k)
      PROVE  TypeOK'
  <2>1. state'[r] \in FieldState /\ state' = [state EXCEPT ![r] = state'[r]]
    BY <1>3, TombstoneParts
  <2>2. state' \in [Regions -> FieldState]
    BY <2>1 DEF TypeOK
  <2>3. QED
    BY <1>3, <2>2 DEF Tombstone, TypeOK
<1>4. ASSUME NEW r \in Regions, NEW ks \in KeySets, Export(r, ks)
      PROVE  TypeOK'
  <2>1. Delta(state[r], ks) \in FieldState
    BY DeltaParts DEF TypeOK
  <2>2. QED
    BY <1>4, <2>1 DEF Export, TypeOK
<1>5. ASSUME NEW d \in sent, Lose(d)
      PROVE  TypeOK'
  BY <1>5 DEF Lose, TypeOK
<1>6. ASSUME NEW d \in sent, NEW r \in Regions, Import(r, d)
      PROVE  TypeOK'
  <2>1. Merged(state[r], d) \in FieldState
    BY MergedParts DEF TypeOK
  <2>2. QED
    BY <1>6, <2>1 DEF Import, TypeOK
<1>7. ASSUME NEW r \in Regions, NEW s \in Regions, Sync(s, r)
      PROVE  TypeOK'
  <2>1. Delta(state[s], Keys) \in FieldState
    BY DeltaParts DEF TypeOK
  <2>2. Merged(state[r], Delta(state[s], Keys)) \in FieldState
    BY <2>1, MergedParts DEF TypeOK
  <2>3. QED
    BY <1>7, <2>2 DEF Sync, TypeOK
<1>8. ASSUME NEW r \in Regions, Restart(r)
      PROVE  TypeOK'
  BY <1>8, EmptyTyped DEF Restart, TypeOK
<1>9. QED
  BY <1>1, <1>2, <1>3, <1>4, <1>5, <1>6, <1>7, <1>8 DEF Next

(* Every region and every delta in flight always carries a well-formed     *)
(* field state.                                                            *)
THEOREM TypeCorrect == Spec => []TypeOK
<1>1. Init => TypeOK
  BY EmptyTyped DEF Init, TypeOK
<1>2. QED
  BY <1>1, TypeStep, PTL DEF Spec

-----------------------------------------------------------------------------
(* Watermarks order what is held of an actor: who is as recent on actor a, *)
(* with no delta of some keys between, holds at least as much of a.  R are *)
(* the actors that restarted: their old counters outlive their watermarks. *)
Behind(x, y, R) ==
    \A a \in Regions \ R : a \notin y.cut /\ x.watermarks[a] <= y.watermarks[a] =>
        \A c \in Cells : c.actor = a => x.cells[c] <= y.cells[c]

(* Whoever holds something of an actor holds a watermark of it.            *)
Marked(x) == \A c \in Cells : x.watermarks[c.actor] = 0 => x.cells[c] = 0

Ordered(H, R) == (\A x \in H : Marked(x)) /\ (\A x, y \in H : Behind(x, y, R))

(* Nobody is ahead of an actor on its own signals, or of the clock, and an *)
(* actor holds all of its own: deltas of some keys do not cut it.          *)
OwnerLeads ==
    \A x \in Held : \A a \in Regions :
        /\ x.watermarks[a] <= now
        /\ a \notin restarted => /\ x.watermarks[a] <= state[a].watermarks[a]
                                 /\ a \notin state[a].cut

LEMMA HeldTyped ==
    ASSUME TypeOK
    PROVE  Held \in SUBSET FieldState /\ \A r \in Regions : state[r] \in Held
  BY DEF TypeOK, Held

LEMMA Fewer ==
    ASSUME NEW H, NEW R, Ordered(H, R), NEW G \in SUBSET H, NEW S, R \subseteq S
    PROVE  Ordered(G, S)
  BY DEF Ordered, Behind

LEMMA OrderedMerge ==
    ASSUME NEW H \in SUBSET FieldState, NEW R, Ordered(H, R), NEW x \in H, NEW y \in H
    PROVE  Ordered(H \cup {Merged(x, y)}, R)
<1> DEFINE z == Merged(x, y)
<1>1. /\ z \in FieldState
      /\ \A c \in Cells : z.cells[c] = Larger(x.cells[c], y.cells[c])
      /\ \A a \in Regions : z.watermarks[a] = Larger(x.watermarks[a], y.watermarks[a])
      /\ z.cut = CutOf(x, y)
  BY MergedParts
<1> HIDE DEF z
<1>2. \A u \in H \cup {z} : /\ \A c \in Cells : u.cells[c] \in Nat
                            /\ \A a \in Regions : u.watermarks[a] \in Nat
  BY <1>1, FieldStateParts
<1>3. ASSUME NEW w \in H PROVE Behind(z, w, R)
  <2> SUFFICES ASSUME NEW c \in Cells, c.actor \notin R, c.actor \notin w.cut,
                      z.watermarks[c.actor] <= w.watermarks[c.actor]
               PROVE  z.cells[c] <= w.cells[c]
    BY DEF Behind
  <2> DEFINE a == c.actor
  <2>1. a \in Regions
    BY DEF Cells
  <2> HIDE DEF a
  <2>2. x.watermarks[a] <= w.watermarks[a] /\ y.watermarks[a] <= w.watermarks[a]
    BY <1>1, <1>2, <2>1, LargerFacts DEF a
  <2>3. x.cells[c] <= w.cells[c] /\ y.cells[c] <= w.cells[c]
    BY <2>1, <2>2 DEF Ordered, Behind, a
  <2>4. QED
    BY <1>1, <1>2, <2>3, LargerFacts
<1>4. ASSUME NEW w \in H PROVE Behind(w, z, R)
  <2> SUFFICES ASSUME NEW c \in Cells, c.actor \notin R, c.actor \notin z.cut,
                      w.watermarks[c.actor] <= z.watermarks[c.actor]
               PROVE  w.cells[c] <= z.cells[c]
    BY DEF Behind
  <2> DEFINE a == c.actor
  <2>1. a \in Regions
    BY DEF Cells
  <2> HIDE DEF a
  <2>2. \/ x.watermarks[a] >= y.watermarks[a] /\ a \notin x.cut
        \/ y.watermarks[a] >= x.watermarks[a] /\ a \notin y.cut
    BY <1>1, <2>1 DEF CutOf, a
  <2>3. \/ w.watermarks[a] <= x.watermarks[a] /\ a \notin x.cut
        \/ w.watermarks[a] <= y.watermarks[a] /\ a \notin y.cut
    BY <1>1, <1>2, <2>1, <2>2 DEF Larger, a
  <2>4. w.cells[c] <= x.cells[c] \/ w.cells[c] <= y.cells[c]
    BY <2>1, <2>3 DEF Ordered, Behind, a
  <2>5. x.cells[c] <= z.cells[c] /\ y.cells[c] <= z.cells[c]
    BY <1>1, <1>2, LargerFacts
  <2>6. QED
    BY <1>2, <2>4, <2>5
<1>5. Behind(z, z, R)
  BY <1>2 DEF Behind
<1>6. Marked(z)
  <2> SUFFICES ASSUME NEW c \in Cells, z.watermarks[c.actor] = 0
               PROVE  z.cells[c] = 0
    BY DEF Marked
  <2>1. c.actor \in Regions
    BY DEF Cells
  <2>2. x.watermarks[c.actor] = 0 /\ y.watermarks[c.actor] = 0
    BY <1>1, <1>2, <2>1 DEF Larger
  <2>3. x.cells[c] = 0 /\ y.cells[c] = 0
    BY <2>2 DEF Ordered, Marked
  <2>4. QED
    BY <1>1, <2>3 DEF Larger
<1>7. Ordered(H \cup {z}, R)
  BY <1>3, <1>4, <1>5, <1>6 DEF Ordered
<1>8. QED
  BY <1>7 DEF z

(* A delta fits in: of an actor it carries all that its region holds, or   *)
(* nothing, or it is cut.                                                  *)
LEMMA OrderedDelta ==
    ASSUME NEW H \in SUBSET FieldState, NEW R, Ordered(H, R), NEW x \in H, NEW keys
    PROVE  Ordered(H \cup {Delta(x, keys)}, R)
<1> DEFINE d == Delta(x, keys)
<1>1. /\ d \in FieldState
      /\ \A c \in Cells : d.cells[c] = x.cells[c] \/ d.cells[c] = 0
      /\ \A a \in Regions :
            \/ /\ d.watermarks[a] = x.watermarks[a]
               /\ a \notin d.cut => /\ a \notin x.cut
                                    /\ \A c \in Cells : c.actor = a =>
                                          d.cells[c] = x.cells[c]
            \/ /\ d.watermarks[a] = 0
               /\ \A c \in Cells : c.actor = a => d.cells[c] = 0
  BY DeltaParts
<1> HIDE DEF d
<1>2. \A u \in H \cup {d} : /\ \A c \in Cells : u.cells[c] \in Nat
                            /\ \A a \in Regions : u.watermarks[a] \in Nat
  BY <1>1, FieldStateParts
<1>3. ASSUME NEW w \in H PROVE Behind(d, w, R)
  <2> SUFFICES ASSUME NEW c \in Cells, c.actor \notin R, c.actor \notin w.cut,
                      d.watermarks[c.actor] <= w.watermarks[c.actor]
               PROVE  d.cells[c] <= w.cells[c]
    BY DEF Behind
  <2>1. c.actor \in Regions
    BY DEF Cells
  <2>2. CASE d.watermarks[c.actor] = x.watermarks[c.actor]
    <3>1. x.cells[c] <= w.cells[c]
      BY <2>1, <2>2 DEF Ordered, Behind
    <3>2. QED
      BY <1>1, <1>2, <3>1
  <2>3. CASE d.cells[c] = 0
    BY <1>2, <2>3
  <2>4. QED
    BY <1>1, <2>1, <2>2, <2>3
<1>4. ASSUME NEW w \in H PROVE Behind(w, d, R)
  <2> SUFFICES ASSUME NEW c \in Cells, c.actor \notin R, c.actor \notin d.cut,
                      w.watermarks[c.actor] <= d.watermarks[c.actor]
               PROVE  w.cells[c] <= d.cells[c]
    BY DEF Behind
  <2>1. c.actor \in Regions
    BY DEF Cells
  <2>2. CASE /\ d.watermarks[c.actor] = x.watermarks[c.actor]
             /\ c.actor \notin x.cut /\ d.cells[c] = x.cells[c]
    BY <2>1, <2>2 DEF Ordered, Behind
  <2>3. CASE d.watermarks[c.actor] = 0 /\ d.cells[c] = 0
    <3>1. w.watermarks[c.actor] = 0
      BY <1>2, <2>1, <2>3
    <3>2. w.cells[c] = 0
      BY <3>1 DEF Ordered, Marked
    <3>3. QED
      BY <2>3, <3>2
  <2>4. QED
    BY <1>1, <2>1, <2>2, <2>3
<1>5. Behind(d, d, R)
  BY <1>2 DEF Behind
<1>6. Marked(d)
  <2> SUFFICES ASSUME NEW c \in Cells, d.watermarks[c.actor] = 0
               PROVE  d.cells[c] = 0
    BY DEF Marked
  <2>1. c.actor \in Regions
    BY DEF Cells
  <2>2. CASE d.watermarks[c.actor] = x.watermarks[c.actor]
    <3>1. x.cells[c] = 0
      BY <2>2 DEF Ordered, Marked
    <3>2. QED
      BY <1>1, <3>1
  <2>3. QED
    BY <1>1, <2>1, <2>2
<1>7. Ordered(H \cup {d}, R)
  BY <1>3, <1>4, <1>5, <1>6 DEF Ordered
<1>8. QED
  BY <1>7 DEF d

(* Empty counters fit in with whatever else is held.                       *)
LEMMA EmptyOrdered ==
    ASSUME NEW H \in SUBSET FieldState, NEW R, Ordered(H, R)
    PROVE  Ordered(H \cup {Empty}, R)
<1>1. /\ \A c \in Cells : Empty.cells[c] = 0
      /\ \A a \in Regions : Empty.watermarks[a] = 0
  BY DEF Empty
<1>2. \A u \in H : /\ \A c \in Cells : u.cells[c] \in Nat /\ c.actor \in Regions
                   /\ \A a \in Regions : u.watermarks[a] \in Nat
  BY FieldStateParts DEF Cells
<1>3. Marked(Empty) /\ Behind(Empty, Empty, R)
  BY <1>1 DEF Marked, Behind
<1>4. ASSUME NEW u \in H PROVE Behind(Empty, u, R)
  BY <1>1, <1>2 DEF Behind
<1>5. ASSUME NEW u \in H PROVE Behind(u, Empty, R)
  <2> SUFFICES ASSUME NEW c \in Cells, u.watermarks[c.actor] <= Empty.watermarks[c.actor]
               PROVE  u.cells[c] <= Empty.cells[c]
    BY DEF Behind
  <2>1. u.watermarks[c.actor] = 0
    BY <1>1, <1>2
  <2>2. u.cells[c] = 0
    BY <2>1 DEF Ordered, Marked
  <2>3. QED
    BY <1>1, <2>2
<1>6. QED
  BY <1>3, <1>4, <1>5 DEF Ordered

WInv == TypeOK /\ Ordered(Held, restarted) /\ OwnerLeads

(* A signal of region r: fresher than all that is held of r.               *)
LEMMA SignalStep ==
    ASSUME WInv, NEW r \in Regions, NEW z \in FieldState,
           state' = [state EXCEPT ![r] = z], sent' = sent, now' = now + 1,
           restarted' = restarted,
           z.watermarks = [state[r].watermarks EXCEPT
                             ![r] = Larger(state[r].watermarks[r], now + 1)],
           z.cut = state[r].cut,
           \A c \in Cells : /\ c.actor # r => z.cells[c] = state[r].cells[c]
                            /\ c.actor = r => state[r].cells[c] <= z.cells[c]
    PROVE  Ordered(Held, restarted)' /\ OwnerLeads'
<1> DEFINE x == state[r]
<1>1. /\ Held \in SUBSET FieldState /\ x \in Held /\ now \in Nat
      /\ state \in [Regions -> FieldState] /\ Ordered(Held, restarted)
      /\ \A a \in Regions : state[a] \in Held
      /\ \A w \in Held, a \in Regions :
            /\ w.watermarks[a] <= now
            /\ a \notin restarted => /\ w.watermarks[a] <= state[a].watermarks[a]
                                     /\ a \notin state[a].cut
  BY HeldTyped DEF WInv, TypeOK, OwnerLeads
<1> HIDE DEF x
<1>2. \A w \in Held \cup {z} : /\ \A c \in Cells : w.cells[c] \in Nat
                               /\ \A a \in Regions : w.watermarks[a] \in Nat
  BY <1>1, FieldStateParts
<1>3. /\ z.watermarks[r] = now + 1
      /\ \A a \in Regions : a # r => z.watermarks[a] = x.watermarks[a]
  <2>1. x.watermarks \in [Regions -> Nat] /\ x.watermarks[r] <= now
    BY <1>1, FieldStateParts
  <2>2. Larger(x.watermarks[r], now + 1) = now + 1
    BY <1>1, <2>1 DEF Larger
  <2>3. QED
    BY <2>1, <2>2 DEF x
<1>4. ASSUME NEW w \in Held PROVE Behind(w, z, restarted)
  <2> SUFFICES ASSUME NEW c \in Cells, c.actor \notin restarted, c.actor \notin z.cut,
                      w.watermarks[c.actor] <= z.watermarks[c.actor]
               PROVE  w.cells[c] <= z.cells[c]
    BY DEF Behind
  <2>1. c.actor \in Regions /\ c.actor \notin x.cut
    BY DEF Cells, x
  <2>2. w.watermarks[c.actor] <= x.watermarks[c.actor]
    BY <1>1, <1>3, <2>1 DEF x
  <2>3. w.cells[c] <= x.cells[c]
    BY <1>1, <2>1, <2>2 DEF Ordered, Behind
  <2>4. x.cells[c] <= z.cells[c]
    BY <1>1, <1>2 DEF x
  <2>5. QED
    BY <1>1, <1>2, <2>3, <2>4
<1>5. ASSUME NEW w \in Held PROVE Behind(z, w, restarted)
  <2> SUFFICES ASSUME NEW c \in Cells, c.actor \notin restarted, c.actor \notin w.cut,
                      z.watermarks[c.actor] <= w.watermarks[c.actor]
               PROVE  z.cells[c] <= w.cells[c]
    BY DEF Behind
  <2>1. c.actor \in Regions
    BY DEF Cells
  <2>2. c.actor # r
    BY <1>1, <1>2, <1>3
  <2>3. x.watermarks[c.actor] <= w.watermarks[c.actor]
    BY <1>3, <2>1, <2>2
  <2>4. x.cells[c] <= w.cells[c]
    BY <1>1, <2>1, <2>3 DEF Ordered, Behind
  <2>5. QED
    BY <2>2, <2>4 DEF x
<1>6. Behind(z, z, restarted)
  BY <1>2 DEF Behind
<1>7. Marked(z)
  <2> SUFFICES ASSUME NEW c \in Cells, z.watermarks[c.actor] = 0
               PROVE  z.cells[c] = 0
    BY DEF Marked
  <2>1. c.actor \in Regions /\ c.actor # r
    BY <1>1, <1>3 DEF Cells
  <2>2. x.watermarks[c.actor] = 0
    BY <1>3, <2>1
  <2>3. x.cells[c] = 0
    BY <1>1, <2>2 DEF Ordered, Marked
  <2>4. QED
    BY <2>1, <2>3 DEF x
<1>8. Held' \subseteq Held \cup {z}
  BY <1>1 DEF Held
<1>9. Ordered(Held \cup {z}, restarted)
  BY <1>1, <1>4, <1>5, <1>6, <1>7 DEF Ordered
<1>10. Ordered(Held, restarted)'
  BY <1>8, <1>9, Fewer
<1>11. OwnerLeads'
  <2> SUFFICES ASSUME NEW w \in Held', NEW a \in Regions
               PROVE  /\ w.watermarks[a] <= now + 1
                      /\ a \notin restarted =>
                            /\ w.watermarks[a] <= state'[a].watermarks[a]
                            /\ a \notin state'[a].cut
    BY DEF OwnerLeads
  <2>1. w \in Held \cup {z}
    BY <1>8
  <2>2. state'[r] = z /\ (a # r => state'[a] = state[a])
    BY <1>1
  <2>3. /\ x.watermarks[a] \in Nat /\ w.watermarks[a] \in Nat
        /\ state[a].watermarks[a] \in Nat
    BY <1>1, <1>2, <2>1
  <2>4. w.watermarks[a] <= now + 1
    <3>1. CASE w \in Held
      BY <1>1, <2>3, <3>1
    <3>2. CASE w = z
      <4>1. x.watermarks[a] <= now
        BY <1>1
      <4>2. w.watermarks[a] = IF a = r THEN now + 1 ELSE x.watermarks[a]
        BY <1>3, <3>2
      <4>3. QED
        BY <1>1, <2>3, <4>1, <4>2
    <3>3. QED
      BY <2>1, <3>1, <3>2
  <2>5. CASE a = r
    <3>1. state'[a].watermarks[a] = now + 1 /\ state'[a].cut = state[a].cut
      BY <1>3, <2>2, <2>5
    <3>2. QED
      BY <1>1, <2>4, <2>5, <3>1
  <2>6. CASE a # r /\ a \notin restarted
    <3>1. w.watermarks[a] <= state[a].watermarks[a]
      <4>1. CASE w \in Held
        BY <1>1, <2>6, <4>1
      <4>2. CASE w = z
        BY <1>1, <1>3, <2>6, <4>2
      <4>3. QED
        BY <2>1, <4>1, <4>2
    <3>2. QED
      BY <1>1, <2>2, <2>4, <2>6, <3>1
  <2>7. QED
    BY <2>4, <2>5, <2>6
<1>12. QED
  BY <1>10, <1>11

(* Merging something that is ordered with all that is held.                *)
LEMMA MergeStep ==
    ASSUME WInv, NEW r \in Regions, NEW e \in FieldState, Ordered(Held \cup {e}, restarted),
           \A a \in Regions : /\ e.watermarks[a] <= now
                              /\ a \notin restarted =>
                                    e.watermarks[a] <= state[a].watermarks[a],
           state' = [state EXCEPT ![r] = Merged(state[r], e)],
           sent' = sent, now' = now, restarted' = restarted
    PROVE  Ordered(Held, restarted)' /\ OwnerLeads'
<1> DEFINE x == state[r]
           z == Merged(x, e)
           H == Held \cup {e}
<1>1. /\ H \in SUBSET FieldState /\ x \in H /\ e \in H /\ now \in Nat
      /\ state \in [Regions -> FieldState] /\ x \in FieldState
      /\ \A w \in Held, a \in Regions :
            /\ w.watermarks[a] <= now
            /\ a \notin restarted => /\ w.watermarks[a] <= state[a].watermarks[a]
                                     /\ a \notin state[a].cut
      /\ \A a \in Regions : state[a] \in Held
  BY HeldTyped DEF WInv, TypeOK, OwnerLeads
<1>2. Ordered(H \cup {z}, restarted)
  BY <1>1, OrderedMerge
<1>3. /\ z \in FieldState /\ z.cut = CutOf(x, e)
      /\ \A a \in Regions : z.watermarks[a] = Larger(x.watermarks[a], e.watermarks[a])
  BY <1>1, MergedParts
<1>4. Held' \subseteq Held \cup {z}
  BY <1>1 DEF Held
<1>5. state' = [state EXCEPT ![r] = z]
  OBVIOUS
<1> HIDE DEF x, z
<1>6. Ordered(Held, restarted)'
  <2>1. Held' \subseteq H \cup {z}
    BY <1>4
  <2> HIDE DEF H
  <2>2. QED
    BY <1>2, <2>1, Fewer
<1>7. \A w \in H \cup {z}, a \in Regions : w.watermarks[a] \in Nat
  BY <1>1, <1>3, FieldStateParts
<1>8. OwnerLeads'
  <2> SUFFICES ASSUME NEW w \in Held', NEW a \in Regions
               PROVE  /\ w.watermarks[a] <= now
                      /\ a \notin restarted =>
                            /\ w.watermarks[a] <= state'[a].watermarks[a]
                            /\ a \notin state'[a].cut
    BY DEF OwnerLeads
  <2>1. /\ x.watermarks[a] \in Nat /\ e.watermarks[a] \in Nat /\ w.watermarks[a] \in Nat
        /\ state[a].watermarks[a] \in Nat
        /\ x.watermarks[a] <= now /\ e.watermarks[a] <= now
    BY <1>1, <1>4, <1>7 DEF x
  <2>2. w.watermarks[a] <= now
    <3>1. CASE w \in Held
      BY <1>1, <3>1
    <3>2. CASE w = z
      BY <1>3, <2>1, <3>2 DEF Larger
    <3>3. QED
      BY <1>4, <3>1, <3>2
  <2>3. ASSUME a \notin restarted
        PROVE  w.watermarks[a] <= state[a].watermarks[a]
    <3>1. CASE w \in Held
      BY <1>1, <2>3, <3>1
    <3>2. CASE w = z
      <4>1. /\ x.watermarks[a] <= state[a].watermarks[a]
            /\ e.watermarks[a] <= state[a].watermarks[a]
        BY <1>1, <2>3 DEF x
      <4>2. QED
        BY <1>3, <3>2, <4>1 DEF Larger
    <3>3. QED
      BY <1>4, <3>1, <3>2
  <2>4. ASSUME a \notin restarted
        PROVE  /\ state'[a].watermarks[a] = state[a].watermarks[a]
               /\ a \notin state'[a].cut
    <3>1. CASE a = r
      <4>1. x.watermarks[a] >= e.watermarks[a] /\ a \notin x.cut
        BY <1>1, <2>1, <2>4, <3>1 DEF x
      <4>2. z.watermarks[a] = x.watermarks[a] /\ a \notin z.cut
        BY <1>3, <2>1, <4>1 DEF Larger, CutOf
      <4>3. state'[a] = z
        BY <1>1, <1>5, <3>1
      <4>4. QED
        BY <3>1, <4>2, <4>3 DEF x
    <3>2. CASE a # r
      BY <1>1, <1>5, <2>4, <3>2
    <3>3. QED
      BY <3>1, <3>2
  <2>5. QED
    BY <2>2, <2>3, <2>4
<1>9. QED
  BY <1>6, <1>8

LEMMA WStep == WInv /\ [Next]_vars => WInv'
<1> SUFFICES ASSUME WInv, [Next]_vars PROVE WInv'
  OBVIOUS
<1>1. TypeOK'
  BY TypeStep DEF WInv
<1>2. /\ Held \in SUBSET FieldState /\ Ordered(Held, restarted)
      /\ \A r \in Regions : state[r] \in Held /\ state[r] \in FieldState
      /\ \A w \in Held, a \in Regions :
            /\ w.watermarks[a] <= now
            /\ a \notin restarted => /\ w.watermarks[a] <= state[a].watermarks[a]
                                     /\ a \notin state[a].cut
      /\ now \in Nat /\ state \in [Regions -> FieldState]
  BY HeldTyped DEF WInv, TypeOK, OwnerLeads
<1>3. CASE UNCHANGED vars
  <2>1. Held' = Held /\ restarted' = restarted /\ state' = state /\ now' = now
    BY <1>3 DEF vars, Held
  <2>2. Ordered(Held, restarted)'
    BY <1>2, <2>1
  <2>3. QED
    BY <1>1, <2>1, <2>2 DEF WInv, OwnerLeads
<1>4. ASSUME NEW r \in Regions, NEW k \in Keys, NEW t \in Counters, Increment(r, t, k)
      PROVE  WInv'
  <2>1. PICK c \in Cells :
           /\ c.actor = r
           /\ state'[r] \in FieldState
           /\ state' = [state EXCEPT ![r] = state'[r]]
           /\ now' = now + 1
           /\ state'[r].cells = [state[r].cells EXCEPT ![c] = state[r].cells[c] + 1]
           /\ state'[r].watermarks = [state[r].watermarks EXCEPT
                                        ![r] = Larger(state[r].watermarks[r], now')]
           /\ state'[r].cut = state[r].cut
    BY <1>4, IncrementParts DEF WInv
  <2> DEFINE z == state'[r]
  <2>2. state[r].cells \in [Cells -> Nat]
    BY <1>2, FieldStateParts
  <2>3. \A d \in Cells : /\ d.actor # r => z.cells[d] = state[r].cells[d]
                         /\ d.actor = r => state[r].cells[d] <= z.cells[d]
    BY <2>1, <2>2
  <2>4. sent' = sent /\ restarted' = restarted
    BY <1>4 DEF Increment
  <2>5. Ordered(Held, restarted)' /\ OwnerLeads'
    <3>1. z \in FieldState /\ state' = [state EXCEPT ![r] = z] /\ z.cut = state[r].cut
      BY <2>1
    <3>2. z.watermarks = [state[r].watermarks EXCEPT
                             ![r] = Larger(state[r].watermarks[r], now + 1)]
      BY <2>1
    <3> HIDE DEF z
    <3>3. QED
      BY <2>1, <2>3, <2>4, <3>1, <3>2, SignalStep, ZenonT(60)
  <2>6. QED
    BY <1>1, <2>5 DEF WInv
<1>5. ASSUME NEW r \in Regions, NEW k \in Keys, Tombstone(r, k)
      PROVE  WInv'
  <2>1. PICK c \in Cells :
           /\ c.actor = r
           /\ state'[r] \in FieldState
           /\ state' = [state EXCEPT ![r] = state'[r]]
           /\ now' = now + 1
           /\ state'[r].cells = [state[r].cells EXCEPT
                                   ![c] = Larger(state[r].cells[c], now')]
           /\ state'[r].watermarks = [state[r].watermarks EXCEPT
                                        ![r] = Larger(state[r].watermarks[r], now')]
           /\ state'[r].cut = state[r].cut
    BY <1>5, TombstoneParts DEF WInv
  <2> DEFINE z == state'[r]
  <2>2. state[r].cells \in [Cells -> Nat] /\ now + 1 \in Nat
    BY <1>2, FieldStateParts
  <2>3. \A d \in Cells : /\ d.actor # r => z.cells[d] = state[r].cells[d]
                         /\ d.actor = r => state[r].cells[d] <= z.cells[d]
    BY <2>1, <2>2, LargerFacts
  <2>4. sent' = sent /\ restarted' = restarted
    BY <1>5 DEF Tombstone
  <2>5. Ordered(Held, restarted)' /\ OwnerLeads'
    <3>1. /\ z \in FieldState /\ state' = [state EXCEPT ![r] = z]
          /\ sent' = sent /\ now' = now + 1 /\ z.cut = state[r].cut
      BY <2>1, <2>4
    <3>2. z.watermarks = [state[r].watermarks EXCEPT
                            ![r] = Larger(state[r].watermarks[r], now + 1)]
      BY <2>1
    <3> HIDE DEF z
    <3>3. QED
      BY <2>3, <2>4, <3>1, <3>2, SignalStep
  <2>6. QED
    BY <1>1, <2>5 DEF WInv
<1>6. ASSUME NEW s \in Regions, NEW keys
      PROVE  /\ Delta(state[s], keys) \in FieldState
             /\ Ordered(Held \cup {Delta(state[s], keys)}, restarted)
             /\ \A a \in Regions :
                   /\ Delta(state[s], keys).watermarks[a] <= now
                   /\ a \notin restarted =>
                         Delta(state[s], keys).watermarks[a] <= state[a].watermarks[a]
  <2> DEFINE d == Delta(state[s], keys)
  <2>1. /\ d \in FieldState
        /\ \A a \in Regions : d.watermarks[a] = state[s].watermarks[a] \/ d.watermarks[a] = 0
    BY <1>2, DeltaParts
  <2>2. Ordered(Held \cup {d}, restarted)
    BY <1>2, OrderedDelta
  <2>3. \A a \in Regions : state[a].watermarks[a] \in Nat
    BY <1>2, FieldStateParts
  <2> HIDE DEF d
  <2>4. \A a \in Regions : /\ d.watermarks[a] <= now
                           /\ a \notin restarted =>
                                 d.watermarks[a] <= state[a].watermarks[a]
    BY <1>2, <2>1, <2>3
  <2>5. QED
    BY <2>1, <2>2, <2>4 DEF d
<1>7. ASSUME NEW r \in Regions, NEW ks \in KeySets, Export(r, ks)
      PROVE  WInv'
  <2> DEFINE d == Delta(state[r], ks)
  <2>1. /\ sent' = sent \cup {d} /\ state' = state /\ now' = now
        /\ restarted' = restarted
    BY <1>7 DEF Export
  <2>2. /\ Ordered(Held \cup {d}, restarted)
        /\ \A a \in Regions : /\ d.watermarks[a] <= now
                              /\ a \notin restarted =>
                                    d.watermarks[a] <= state[a].watermarks[a]
    BY <1>6
  <2> HIDE DEF d
  <2>3. Held' = Held \cup {d}
    BY <2>1 DEF Held
  <2>4. Ordered(Held, restarted)'
    BY <2>1, <2>2, <2>3
  <2>5. OwnerLeads'
    BY <1>2, <2>1, <2>2, <2>3 DEF OwnerLeads
  <2>6. QED
    BY <1>1, <2>4, <2>5 DEF WInv
<1>8. ASSUME NEW d \in sent, Lose(d)
      PROVE  WInv'
  <2>1. /\ Held' \subseteq Held /\ restarted' = restarted /\ state' = state
        /\ now' = now
    BY <1>8 DEF Lose, Held
  <2>2. Ordered(Held, restarted)'
    BY <1>2, <2>1, Fewer
  <2>3. OwnerLeads'
    BY <1>2, <2>1 DEF OwnerLeads
  <2>4. QED
    BY <1>1, <2>2, <2>3 DEF WInv
<1>9. ASSUME NEW d \in sent, NEW r \in Regions, Import(r, d)
      PROVE  WInv'
  <2>1. d \in Held /\ d \in FieldState /\ Held \cup {d} = Held
    BY <1>2 DEF Held
  <2>2. \A a \in Regions : /\ d.watermarks[a] <= now
                           /\ a \notin restarted =>
                                 d.watermarks[a] <= state[a].watermarks[a]
    BY <1>2, <2>1
  <2>3. /\ state' = [state EXCEPT ![r] = Merged(state[r], d)]
        /\ sent' = sent /\ now' = now /\ restarted' = restarted
    BY <1>9 DEF Import
  <2>4. Ordered(Held, restarted)' /\ OwnerLeads'
    BY <1>2, <2>1, <2>2, <2>3, MergeStep
  <2>5. QED
    BY <1>1, <2>4 DEF WInv
<1>10. ASSUME NEW r \in Regions, NEW s \in Regions, Sync(s, r)
      PROVE  WInv'
  <2>1. /\ state' = [state EXCEPT ![r] = Merged(state[r], Delta(state[s], Keys))]
        /\ sent' = sent /\ now' = now /\ restarted' = restarted
    BY <1>10 DEF Sync
  <2>2. Ordered(Held, restarted)' /\ OwnerLeads'
    BY <1>6, <2>1, MergeStep
  <2>3. QED
    BY <1>1, <2>2 DEF WInv
<1>11. ASSUME NEW r \in Regions, Restart(r)
      PROVE  WInv'
  <2>1. /\ state' = [state EXCEPT ![r] = Empty] /\ sent' = sent /\ now' = now
        /\ restarted' = restarted \cup {r}
    BY <1>11 DEF Restart
  <2>2. Held' \subseteq Held \cup {Empty}
    BY <1>2, <2>1 DEF Held
  <2>3. Ordered(Held \cup {Empty}, restarted)
    BY <1>2, EmptyOrdered
  <2>4. Ordered(Held, restarted)'
    BY <2>1, <2>2, <2>3, Fewer
  <2>5. \A a \in Regions : Empty.watermarks[a] = 0 /\ state[a].watermarks[a] \in Nat
    BY <1>2, FieldStateParts DEF Empty
  <2>6. \A a \in Regions : a \notin restarted' => state'[a] = state[a]
    BY <1>2, <2>1
  <2>7. OwnerLeads'
    <3> SUFFICES ASSUME NEW w \in Held', NEW a \in Regions
                 PROVE  /\ w.watermarks[a] <= now
                        /\ a \notin restarted' =>
                              /\ w.watermarks[a] <= state'[a].watermarks[a]
                              /\ a \notin state'[a].cut
      BY <2>1 DEF OwnerLeads
    <3>1. CASE w \in Held
      BY <1>2, <2>1, <2>6, <3>1
    <3>2. CASE w = Empty
      BY <1>2, <2>1, <2>5, <2>6, <3>2
    <3>3. QED
      BY <2>2, <3>1, <3>2
  <2>8. QED
    BY <1>1, <2>4, <2>7 DEF WInv
<1>12. QED
  BY <1>3, <1>4, <1>5, <1>7, <1>8, <1>9, <1>10, <1>11 DEF Next

(* Whatever deltas of some keys went around, lost, late or repeated, and   *)
(* whoever else restarted: where an audit finds nothing about a writer and *)
(* no region is cut on it, the regions hold the same of it.                *)
THEOREM HealthyAgree == Spec => []HealthyMeansAgreed
<1>1. Init => WInv
  <2> SUFFICES ASSUME Init PROVE WInv
    OBVIOUS
  <2>1. TypeOK
    BY EmptyTyped DEF Init, TypeOK
  <2>2. /\ \A x \in Held : x = Empty
        /\ \A r \in Regions : state[r] = Empty
        /\ now = 0
    <3>1. sent = {} /\ \A r \in Regions : state[r] = Empty
      BY DEF Init
    <3>2. QED
      BY <3>1 DEF Held, Init
  <2>3. Ordered({} \cup {Empty}, restarted)
    <3>1. Ordered({}, restarted)
      BY DEF Ordered
    <3>2. QED
      BY <3>1, EmptyOrdered
  <2>4. Ordered(Held, restarted)
    BY <2>2, <2>3, Fewer
  <2>5. (\A a \in Regions : Empty.watermarks[a] = 0) /\ Empty.cut = {}
    BY DEF Empty
  <2>6. OwnerLeads
    BY <2>2, <2>5 DEF OwnerLeads
  <2>7. QED
    BY <2>1, <2>4, <2>6 DEF WInv
<1>2. WInv => HealthyMeansAgreed
  <2> SUFFICES ASSUME WInv, NEW c \in Cells, NEW r \in Regions, NEW s \in Regions,
                      c.actor \in Regions \ restarted, Covered(c.actor),
                      \A q \in Regions : c.actor \notin state[q].cut
               PROVE  state[r].cells[c] = state[s].cells[c]
    BY DEF HealthyMeansAgreed, AgreeOn
  <2>1. /\ state[r] \in Held /\ state[s] \in Held
        /\ state[r].cells \in [Cells -> Nat] /\ state[s].cells \in [Cells -> Nat]
        /\ state[r].watermarks \in [Regions -> Nat]
        /\ state[s].watermarks \in [Regions -> Nat]
    BY HeldTyped, FieldStateParts DEF WInv
  <2>2. /\ state[r].watermarks[c.actor] >= state[s].watermarks[c.actor]
        /\ state[s].watermarks[c.actor] >= state[r].watermarks[c.actor]
    BY DEF Covered
  <2>3. /\ state[r].watermarks[c.actor] <= state[s].watermarks[c.actor]
        /\ state[s].watermarks[c.actor] <= state[r].watermarks[c.actor]
    BY <2>1, <2>2
  <2>4. state[r].cells[c] <= state[s].cells[c] /\ state[s].cells[c] <= state[r].cells[c]
    BY <2>1, <2>3 DEF WInv, Ordered, Behind
  <2>5. QED
    BY <2>1, <2>4
<1>3. QED
  BY <1>1, <1>2, WStep, PTL DEF Spec

-----------------------------------------------------------------------------
CounterCells == {c \in Cells : c.tree \in Counters}

(* A counter stands for increments its actor made, and no more than those; *)
(* if the actor never restarted for exactly the first so many.             *)
Counted(x, c, made, fresh) ==
    /\ x.heard[c] \subseteq 1..made
    /\ x.cells[c] <= Cardinality(x.heard[c])
    /\ fresh => x.heard[c] = 1..x.cells[c]

(* An actor that never restarted holds all of its own increments.          *)
OwnerCounts ==
    \A c \in CounterCells : c.actor \notin restarted =>
        state[c.actor].cells[c] = issued[c]

AllCounted ==
    \A x \in Held, c \in CounterCells : Counted(x, c, issued[c], c.actor \notin restarted)

CInv == TypeOK /\ OwnerCounts /\ AllCounted

(* Subsets of an interval have a cardinality that grows with them.         *)
LEMMA Intervals ==
    ASSUME NEW n \in Nat
    PROVE  /\ Cardinality(1..n) = n
           /\ \A S \in SUBSET (1..n) : IsFiniteSet(S) /\ Cardinality(S) \in Nat
           /\ \A S, T \in SUBSET (1..n) : S \subseteq T => Cardinality(S) <= Cardinality(T)
<1>1. IsFiniteSet(1..n) /\ Cardinality(1..n) = n
  BY FS_Interval
<1>2. \A S \in SUBSET (1..n) : IsFiniteSet(S)
  BY <1>1, FS_Subset
<1>3. \A S \in SUBSET (1..n) : Cardinality(S) \in Nat
  BY <1>2, FS_CardinalityType
<1>4. \A S, T \in SUBSET (1..n) : S \subseteq T => Cardinality(S) <= Cardinality(T)
  BY <1>2, FS_Subset
<1>5. QED
  BY <1>1, <1>2, <1>3, <1>4

LEMMA MergedCounted ==
    ASSUME NEW x \in FieldState, NEW y \in FieldState, NEW c \in Cells,
           NEW made \in Nat, NEW fresh \in BOOLEAN,
           Counted(x, c, made, fresh), Counted(y, c, made, fresh)
    PROVE  Counted(Merged(x, y), c, made, fresh)
<1> DEFINE z == Merged(x, y)
<1>1. /\ z.cells[c] = Larger(x.cells[c], y.cells[c])
      /\ z.heard[c] = x.heard[c] \cup y.heard[c]
      /\ x.cells[c] \in Nat /\ y.cells[c] \in Nat
  BY MergedParts, FieldStateParts
<1> HIDE DEF z
<1>2. z.heard[c] \subseteq 1..made
  BY <1>1 DEF Counted
<1>3. z.cells[c] <= Cardinality(z.heard[c])
  <2>1. /\ Cardinality(x.heard[c]) <= Cardinality(z.heard[c])
        /\ Cardinality(y.heard[c]) <= Cardinality(z.heard[c])
        /\ Cardinality(x.heard[c]) \in Nat /\ Cardinality(y.heard[c]) \in Nat
        /\ Cardinality(z.heard[c]) \in Nat
    <3>1. /\ x.heard[c] \in SUBSET (1..made) /\ y.heard[c] \in SUBSET (1..made)
          /\ z.heard[c] \in SUBSET (1..made)
          /\ x.heard[c] \subseteq z.heard[c] /\ y.heard[c] \subseteq z.heard[c]
      BY <1>1, <1>2 DEF Counted
    <3>2. QED
      BY <3>1, Intervals
  <2>2. x.cells[c] <= Cardinality(z.heard[c]) /\ y.cells[c] <= Cardinality(z.heard[c])
    BY <1>1, <2>1 DEF Counted
  <2>3. z.cells[c] = x.cells[c] \/ z.cells[c] = y.cells[c]
    BY <1>1 DEF Larger
  <2>4. QED
    BY <2>2, <2>3
<1>4. ASSUME fresh PROVE z.heard[c] = 1..z.cells[c]
  <2>1. x.heard[c] = 1..x.cells[c] /\ y.heard[c] = 1..y.cells[c]
    BY <1>4 DEF Counted
  <2>2. QED
    BY <1>1, <2>1 DEF Larger
<1>5. QED
  BY <1>2, <1>3, <1>4 DEF Counted, z

LEMMA DeltaCounted ==
    ASSUME NEW x \in FieldState, NEW keys, NEW c \in Cells,
           NEW made \in Nat, NEW fresh \in BOOLEAN, Counted(x, c, made, fresh)
    PROVE  Counted(Delta(x, keys), c, made, fresh)
<1> DEFINE d == Delta(x, keys)
<1>1. \/ d.cells[c] = x.cells[c] /\ d.heard[c] = x.heard[c]
      \/ d.cells[c] = 0 /\ d.heard[c] = {}
  BY DeltaParts
<1> HIDE DEF d
<1>2. Cardinality({}) = 0
  BY FS_EmptySet
<1>3. CASE d.cells[c] = x.cells[c] /\ d.heard[c] = x.heard[c]
  BY <1>3 DEF Counted, d
<1>4. CASE d.cells[c] = 0 /\ d.heard[c] = {}
  <2>1. Counted(d, c, made, fresh)
    BY <1>2, <1>4 DEF Counted
  <2>2. QED
    BY <2>1 DEF d
<1>5. QED
  BY <1>1, <1>3, <1>4

(* One more increment of a counter by its actor.                           *)
LEMMA IncrementCounted ==
    ASSUME CInv, NEW r \in Regions, NEW k \in Keys, NEW t \in Counters,
           Increment(r, t, k)
    PROVE  CInv'
<1>1. PICK c \in Cells :
         /\ c.actor = r /\ c.tree \in Counters
         /\ issued' = [issued EXCEPT ![c] = issued[c] + 1]
         /\ state'[r] \in FieldState
         /\ state' = [state EXCEPT ![r] = state'[r]]
         /\ state'[r].cells = [state[r].cells EXCEPT ![c] = state[r].cells[c] + 1]
         /\ state'[r].heard = [state[r].heard EXCEPT
                                 ![c] = state[r].heard[c] \cup {issued'[c]}]
  BY IncrementParts DEF CInv
<1> DEFINE x == state[r]
           z == state'[r]
<1>2. /\ TypeOK' /\ restarted' = restarted /\ sent' = sent
      /\ Held \in SUBSET FieldState /\ x \in Held
      /\ issued \in [Cells -> Nat] /\ issued[c] \in Nat
      /\ x.cells \in [Cells -> Nat] /\ x.heard \in [Cells -> SUBSET Nat]
      /\ c \in CounterCells /\ state \in [Regions -> FieldState]
  <2>1. TypeOK'
    BY TypeStep DEF CInv, Next
  <2>2. QED
    BY <1>1, <2>1, HeldTyped, FieldStateParts DEF CInv, TypeOK, Increment, CounterCells
<1>3. Held' \subseteq Held \cup {z}
  BY <1>1, <1>2 DEF Held
<1>4. /\ issued'[c] = issued[c] + 1
      /\ z.cells[c] = x.cells[c] + 1 /\ z.heard[c] = x.heard[c] \cup {issued[c] + 1}
      /\ \A e \in Cells : e # c => /\ issued'[e] = issued[e]
                                   /\ z.cells[e] = x.cells[e] /\ z.heard[e] = x.heard[e]
  BY <1>1, <1>2
<1>5. /\ Counted(x, c, issued[c], c.actor \notin restarted)
      /\ c.actor \notin restarted => x.cells[c] = issued[c]
  <2>1. Counted(x, c, issued[c], c.actor \notin restarted)
    BY <1>2 DEF CInv, AllCounted
  <2>2. c.actor \notin restarted => state[c.actor].cells[c] = issued[c]
    BY <1>2 DEF CInv, OwnerCounts
  <2>3. QED
    BY <1>1, <2>1, <2>2
<1> HIDE DEF x, z
<1>6. ASSUME NEW w \in Held, NEW e \in CounterCells
      PROVE  Counted(w, e, issued'[e], e.actor \notin restarted')
  <2>1. Counted(w, e, issued[e], e.actor \notin restarted) /\ e \in Cells
    BY DEF CInv, AllCounted, CounterCells
  <2>2. issued[e] \in Nat /\ issued'[e] \in {issued[e], issued[e] + 1}
    BY <1>2, <1>4, <2>1
  <2>3. 1..issued[e] \subseteq 1..issued'[e]
    BY <2>2
  <2>4. QED
    BY <1>2, <2>1, <2>3 DEF Counted
<1>7. Counted(z, c, issued'[c], c.actor \notin restarted')
  <2>1. z.heard[c] \subseteq 1..issued'[c]
    BY <1>2, <1>4, <1>5 DEF Counted
  <2>2. z.cells[c] <= Cardinality(z.heard[c])
    <3>1. IsFiniteSet(x.heard[c]) /\ Cardinality(x.heard[c]) \in Nat
      BY <1>2, <1>5, Intervals DEF Counted
    <3>2. issued[c] + 1 \notin x.heard[c]
      BY <1>2, <1>5 DEF Counted
    <3>3. Cardinality(z.heard[c]) = Cardinality(x.heard[c]) + 1
      <4>1. z.heard[c] = x.heard[c] \cup {issued[c] + 1}
        BY <1>4
      <4>2. QED
        BY <3>1, <3>2, <4>1, FS_AddElement, ZenonT(60)
    <3>4. x.cells[c] \in Nat /\ x.cells[c] <= Cardinality(x.heard[c])
      BY <1>2, <1>5 DEF Counted
    <3>5. QED
      BY <1>4, <3>1, <3>3, <3>4
  <2>3. ASSUME c.actor \notin restarted PROVE z.heard[c] = 1..z.cells[c]
    <3>1. x.heard[c] = 1..issued[c] /\ x.cells[c] = issued[c]
      BY <1>5, <2>3 DEF Counted
    <3>2. QED
      BY <1>2, <1>4, <3>1
  <2>4. QED
    BY <1>2, <2>1, <2>2, <2>3 DEF Counted
<1>8. ASSUME NEW e \in CounterCells, e # c
      PROVE  Counted(z, e, issued'[e], e.actor \notin restarted')
  <2>1. Counted(x, e, issued[e], e.actor \notin restarted) /\ e \in Cells
    BY <1>2 DEF CInv, AllCounted, CounterCells
  <2>2. QED
    BY <1>2, <1>4, <1>8, <2>1 DEF Counted
<1>9. AllCounted'
  BY <1>3, <1>6, <1>7, <1>8 DEF AllCounted, CounterCells
<1>10. OwnerCounts'
  <2> SUFFICES ASSUME NEW e \in CounterCells, e.actor \notin restarted
               PROVE  state'[e.actor].cells[e] = issued'[e]
    BY <1>2 DEF OwnerCounts, CounterCells
  <2>1. state[e.actor].cells[e] = issued[e] /\ e.actor \in Regions /\ e \in Cells
    BY DEF CInv, OwnerCounts, CounterCells, Cells
  <2>2. CASE e = c
    BY <1>1, <1>4, <1>5, <2>2 DEF z
  <2>3. CASE e # c /\ e.actor = r
    BY <1>4, <2>1, <2>3 DEF x, z
  <2>4. CASE e # c /\ e.actor # r
    <3>1. state'[e.actor] = state[e.actor]
      BY <1>1, <2>1, <2>4 DEF CInv, TypeOK
    <3>2. QED
      BY <1>4, <2>1, <2>4, <3>1
  <2>5. QED
    BY <2>2, <2>3, <2>4
<1>11. QED
  BY <1>2, <1>9, <1>10 DEF CInv

(* Merging a counted state into a region.                                  *)
LEMMA MergeCounted ==
    ASSUME CInv, TypeOK', NEW r \in Regions, NEW e \in FieldState,
           \A c \in CounterCells : Counted(e, c, issued[c], c.actor \notin restarted),
           state' = [state EXCEPT ![r] = Merged(state[r], e)],
           sent' = sent, issued' = issued, restarted' = restarted
    PROVE  CInv'
<1> DEFINE z == Merged(state[r], e)
<1>1. /\ state \in [Regions -> FieldState] /\ issued \in [Cells -> Nat]
      /\ \A s \in Regions : state[s] \in Held /\ state[s] \in FieldState
  BY HeldTyped DEF CInv, TypeOK
<1>2. \A c \in CounterCells : Counted(z, c, issued[c], c.actor \notin restarted)
  <2> TAKE c \in CounterCells
  <2>1. c \in Cells /\ issued[c] \in Nat /\ (c.actor \notin restarted) \in BOOLEAN
    BY <1>1 DEF CounterCells
  <2>2. /\ Counted(state[r], c, issued[c], c.actor \notin restarted)
        /\ Counted(e, c, issued[c], c.actor \notin restarted)
    BY <1>1 DEF CInv, AllCounted
  <2>3. QED
    BY <1>1, <2>1, <2>2, MergedCounted
<1>3. z \in FieldState /\ \A c \in Cells : z.cells[c] = Larger(state[r].cells[c], e.cells[c])
  BY <1>1, MergedParts
<1>4. state' = [state EXCEPT ![r] = z]
  OBVIOUS
<1> HIDE DEF z
<1>5. Held' \subseteq Held \cup {z}
  BY <1>1, <1>4 DEF Held
<1>6. AllCounted'
  BY <1>2, <1>5 DEF CInv, AllCounted
<1>7. OwnerCounts'
  <2> SUFFICES ASSUME NEW c \in CounterCells, c.actor \notin restarted
               PROVE  state'[c.actor].cells[c] = issued[c]
    BY DEF OwnerCounts
  <2>1. /\ state[c.actor].cells[c] = issued[c] /\ c.actor \in Regions /\ c \in Cells
        /\ issued[c] \in Nat
    BY <1>1 DEF CInv, OwnerCounts, CounterCells, Cells
  <2>2. CASE c.actor = r
    <3>1. /\ Counted(e, c, issued[c], TRUE)
          /\ e.cells[c] \in Nat
      BY <2>1, FieldStateParts
    <3>2. e.cells[c] <= issued[c]
      <4>1. 1..e.cells[c] \subseteq 1..issued[c]
        BY <3>1 DEF Counted
      <4>2. QED
        BY <2>1, <3>1, <4>1
    <3>3. z.cells[c] = issued[c]
      BY <1>3, <2>1, <2>2, <3>1, <3>2 DEF Larger
    <3>4. QED
      BY <1>1, <1>4, <2>2, <3>3
  <2>3. CASE c.actor # r
    BY <1>1, <1>4, <2>1, <2>3
  <2>4. QED
    BY <2>2, <2>3
<1>8. QED
  BY <1>6, <1>7 DEF CInv

LEMMA CStep == CInv /\ [Next]_vars => CInv'
<1> SUFFICES ASSUME CInv, [Next]_vars PROVE CInv'
  OBVIOUS
<1>1. TypeOK'
  BY TypeStep DEF CInv
<1>2. /\ state \in [Regions -> FieldState] /\ issued \in [Cells -> Nat]
      /\ Held \in SUBSET FieldState
      /\ \A s \in Regions : state[s] \in Held /\ state[s] \in FieldState
      /\ \A x \in Held, c \in CounterCells : Counted(x, c, issued[c], c.actor \notin restarted)
  BY HeldTyped DEF CInv, TypeOK, AllCounted
<1>3. ASSUME NEW s \in Regions, NEW keys
      PROVE  /\ Delta(state[s], keys) \in FieldState
             /\ \A c \in CounterCells :
                   Counted(Delta(state[s], keys), c, issued[c], c.actor \notin restarted)
  <2>1. Delta(state[s], keys) \in FieldState
    BY <1>2, DeltaParts
  <2>2. ASSUME NEW c \in CounterCells
        PROVE  Counted(Delta(state[s], keys), c, issued[c], c.actor \notin restarted)
    <3>1. c \in Cells /\ issued[c] \in Nat /\ (c.actor \notin restarted) \in BOOLEAN
      BY <1>2 DEF CounterCells
    <3>2. Counted(state[s], c, issued[c], c.actor \notin restarted)
      BY <1>2
    <3>3. QED
      BY <1>2, <3>1, <3>2, DeltaCounted
  <2>3. QED
    BY <2>1, <2>2
<1>4. CASE UNCHANGED vars
  <2>1. Held' = Held
    BY <1>4 DEF vars, Held
  <2>2. QED
    BY <1>1, <1>2, <1>4, <2>1 DEF vars, CInv, AllCounted, OwnerCounts
<1>5. ASSUME NEW r \in Regions, NEW k \in Keys, NEW t \in Counters, Increment(r, t, k)
      PROVE  CInv'
  BY <1>5, IncrementCounted
<1>6. ASSUME NEW r \in Regions, NEW k \in Keys, Tombstone(r, k)
      PROVE  CInv'
  <2>1. PICK c \in Cells :
           /\ c.tree \notin Counters
           /\ state' = [state EXCEPT ![r] = state'[r]]
           /\ state'[r].cells = [state[r].cells EXCEPT
                                   ![c] = Larger(state[r].cells[c], now')]
           /\ state'[r].heard = state[r].heard
    BY <1>6, TombstoneParts DEF CInv
  <2> DEFINE z == state'[r]
  <2>2. \A e \in CounterCells : /\ z.cells[e] = state[r].cells[e]
                                /\ z.heard[e] = state[r].heard[e]
    <3>1. state[r].cells \in [Cells -> Nat]
      BY <1>2, FieldStateParts
    <3>2. QED
      BY <2>1, <3>1 DEF CounterCells
  <2>3. /\ sent' = sent /\ issued' = issued /\ restarted' = restarted
        /\ Held' \subseteq Held \cup {z}
    BY <1>2, <1>6, <2>1 DEF Tombstone, Held
  <2>4. \A e \in CounterCells : Counted(z, e, issued[e], e.actor \notin restarted)
    BY <1>2, <2>2 DEF Counted
  <2>5. AllCounted'
    BY <1>2, <2>3, <2>4 DEF AllCounted
  <2>6. ASSUME NEW e \in CounterCells PROVE state'[e.actor].cells[e] = state[e.actor].cells[e]
    <3>1. e.actor \in Regions
      BY DEF CounterCells, Cells
    <3>2. CASE e.actor = r
      BY <2>2, <3>2
    <3>3. CASE e.actor # r
      BY <1>2, <2>1, <3>1, <3>3
    <3>4. QED
      BY <3>2, <3>3
  <2>7. OwnerCounts'
    BY <2>3, <2>6 DEF CInv, OwnerCounts
  <2>8. QED
    BY <1>1, <2>5, <2>7 DEF CInv
<1>7. ASSUME NEW r \in Regions, NEW ks \in KeySets, Export(r, ks)
      PROVE  CInv'
  <2>1. /\ Held' = Held \cup {Delta(state[r], ks)}
        /\ state' = state /\ issued' = issued /\ restarted' = restarted
    BY <1>7 DEF Export, Held
  <2>2. AllCounted'
    BY <1>2, <1>3, <2>1 DEF AllCounted
  <2>3. OwnerCounts'
    BY <2>1 DEF CInv, OwnerCounts
  <2>4. QED
    BY <1>1, <2>2, <2>3 DEF CInv
<1>8. ASSUME NEW d \in sent, Lose(d)
      PROVE  CInv'
  <2>1. Held' \subseteq Held /\ state' = state /\ issued' = issued /\ restarted' = restarted
    BY <1>8 DEF Lose, Held
  <2>2. QED
    BY <1>1, <1>2, <2>1 DEF CInv, AllCounted, OwnerCounts
<1>9. ASSUME NEW d \in sent, NEW r \in Regions, Import(r, d)
      PROVE  CInv'
  <2>1. d \in Held /\ d \in FieldState
    BY <1>2 DEF Held
  <2>2. /\ state' = [state EXCEPT ![r] = Merged(state[r], d)]
        /\ sent' = sent /\ issued' = issued /\ restarted' = restarted
    BY <1>9 DEF Import
  <2>3. QED
    BY <1>1, <1>2, <2>1, <2>2, MergeCounted
<1>10. ASSUME NEW r \in Regions, NEW s \in Regions, Sync(s, r)
      PROVE  CInv'
  <2>1. /\ state' = [state EXCEPT ![r] = Merged(state[r], Delta(state[s], Keys))]
        /\ sent' = sent /\ issued' = issued /\ restarted' = restarted
    BY <1>10 DEF Sync
  <2>2. QED
    BY <1>1, <1>3, <2>1, MergeCounted
<1>11. ASSUME NEW r \in Regions, Restart(r)
      PROVE  CInv'
  <2>1. /\ restarted' = restarted \cup {r} /\ sent' = sent /\ issued' = issued
        /\ Held' \subseteq Held \cup {Empty}
        /\ state' = [state EXCEPT ![r] = Empty]
    BY <1>2, <1>11 DEF Restart, Held
  <2>2. ASSUME NEW c \in CounterCells
        PROVE  Counted(Empty, c, issued[c], c.actor \notin restarted')
    <3>1. Empty.cells[c] = 0 /\ Empty.heard[c] = {}
      BY DEF Empty, CounterCells
    <3>2. Cardinality({}) = 0 /\ {} = 1..0
      BY FS_EmptySet
    <3>3. QED
      BY <3>1, <3>2 DEF Counted
  <2>3. ASSUME NEW x \in Held, NEW c \in CounterCells
        PROVE  Counted(x, c, issued[c], c.actor \notin restarted')
    BY <1>2, <2>1 DEF Counted
  <2>4. AllCounted'
    BY <2>1, <2>2, <2>3 DEF AllCounted
  <2>5. ASSUME NEW c \in CounterCells, c.actor \notin restarted'
        PROVE  state'[c.actor].cells[c] = issued[c]
    <3>1. c.actor \in Regions /\ c.actor # r /\ c.actor \notin restarted
      BY <2>1, <2>5 DEF CounterCells, Cells
    <3>2. state'[c.actor] = state[c.actor]
      BY <1>2, <2>1, <3>1
    <3>3. QED
      BY <3>1, <3>2 DEF CInv, OwnerCounts
  <2>6. OwnerCounts'
    BY <2>1, <2>5 DEF OwnerCounts
  <2>7. QED
    BY <1>1, <2>4, <2>6 DEF CInv
<1>12. QED
  BY <1>4, <1>5, <1>6, <1>7, <1>8, <1>9, <1>10, <1>11 DEF Next

(* However deltas are cut, delayed, repeated or lost and whoever restarts, *)
(* no counter stands for more signals than were heard; that of an actor    *)
(* which never restarted stands for exactly those.                         *)
THEOREM SignalsCountedOnce == Spec => []CountedOnce
<1>1. Init => CInv
  <2> SUFFICES ASSUME Init PROVE CInv
    OBVIOUS
  <2>1. TypeOK
    BY EmptyTyped DEF Init, TypeOK
  <2>2. \A x \in Held : x = Empty
    <3>1. sent = {} /\ \A r \in Regions : state[r] = Empty
      BY DEF Init
    <3>2. QED
      BY <3>1 DEF Held
  <2>3. \A c \in Cells : Empty.cells[c] = 0 /\ Empty.heard[c] = {} /\ issued[c] = 0
    BY DEF Empty, Init
  <2>4. AllCounted
    <3>1. ASSUME NEW c \in CounterCells PROVE Counted(Empty, c, issued[c], c.actor \notin restarted)
      <4>1. Empty.cells[c] = 0 /\ Empty.heard[c] = {}
        BY <2>3 DEF CounterCells
      <4>2. Cardinality({}) = 0 /\ {} = 1..0
        BY FS_EmptySet
      <4>3. QED
        BY <4>1, <4>2 DEF Counted
    <3>2. QED
      BY <2>2, <3>1 DEF AllCounted
  <2>5. OwnerCounts
    <3>1. \A r \in Regions : state[r] = Empty
      BY DEF Init
    <3>2. QED
      BY <2>3, <3>1 DEF OwnerCounts, CounterCells, Cells
  <2>6. QED
    BY <2>1, <2>4, <2>5 DEF CInv
<1>2. CInv => CountedOnce
  <2> SUFFICES ASSUME CInv, NEW x \in Held, NEW c \in CounterCells
               PROVE  /\ x.cells[c] <= Cardinality(x.heard[c])
                      /\ c.actor \notin restarted => x.cells[c] = Cardinality(x.heard[c])
    BY DEF CountedOnce, Held, CounterCells
  <2>1. Counted(x, c, issued[c], c.actor \notin restarted)
    BY DEF CInv, AllCounted
  <2>2. x.cells[c] \in Nat
    BY HeldTyped, FieldStateParts DEF CInv, CounterCells
  <2>3. Cardinality(1..x.cells[c]) = x.cells[c]
    BY <2>2, Intervals
  <2>4. QED
    BY <2>1, <2>3 DEF Counted
<1>3. QED
  BY <1>1, <1>2, CStep, PTL DEF Spec

=============================================================================
