--------------------------- MODULE FieldStateCRDT ---------------------------
(***************************************************************************)
(* The distributed field state of one namespace                            *)
(* (src/wavemind/field_crdt.py): every region boosts, suppresses and       *)
(* tombstones memory keys in counters of its own, and merges the deltas of *)
(* the others by maximum.  Per-actor watermarks say how recent the signals *)
(* held of each actor are, and audit_field_state_watermarks compares them. *)
(*                                                                         *)
(* Deltas travel as data (export_field_state_delta, the sync worker, HTTP):*)
(* here any delta in flight may arrive anywhere, again, late or never.  A  *)
(* region keeps its field state in memory only and takes its actor name    *)
(* from its path, so after a restart it is the same actor with empty       *)
(* counters.  A signal has amount 1; activation weights are left out.      *)
(***************************************************************************)
EXTENDS Integers, FiniteSets

CONSTANTS
    Regions, Keys,
    KeySets,        \* the sets of keys that deltas are exported for
    MaxSignals,     \* bound: boosts, suppressions and tombstones
    MaxDeltas,      \* bound: deltas in flight
    MaxRestarts     \* bound: process restarts

Counters == {"positive", "negative"}
Trees == Counters \cup {"tombstones"}
Cells == [tree: Trees, key: Keys, actor: Regions]

ASSUME FieldAssumption ==
    /\ KeySets \subseteq SUBSET Keys
    /\ MaxSignals \in Nat /\ MaxDeltas \in Nat /\ MaxRestarts \in Nat

(* The content of a FieldStateCRDT, and of a delta.  An absent cell or     *)
(* watermark is 0.  `heard` and `cut` are history: which of its actor's    *)
(* increments of a cell the counter stands for, and the actors whose       *)
(* watermark came with a delta that left out some of their cells.          *)
FieldState ==
    [cells: [Cells -> Nat], watermarks: [Regions -> Nat],
     heard: [Cells -> SUBSET Nat], cut: SUBSET Regions]

Empty ==
    [cells |-> [c \in Cells |-> 0], watermarks |-> [a \in Regions |-> 0],
     heard |-> [c \in Cells |-> {}], cut |-> {}]

VARIABLES
    state,      \* the FieldStateCRDT of each region
    sent,       \* the deltas in flight
    issued,     \* history: increments ever made to each cell
    now,        \* time.time(): every signal has an instant of its own
    restarts,   \* the number of restarts so far
    restarted   \* history: the regions that restarted

vars == <<state, sent, issued, now, restarts, restarted>>

TypeOK ==
    /\ state \in [Regions -> FieldState]
    /\ sent \in SUBSET FieldState
    /\ issued \in [Cells -> Nat]
    /\ now \in Nat
    /\ restarts \in Nat
    /\ restarted \in SUBSET Regions

-----------------------------------------------------------------------------
Larger(i, j) == IF i < j THEN j ELSE i

(* What is merged lacks cells of an actor if all that came with the newest *)
(* watermark of the actor did.                                             *)
CutOf(x, y) ==
    {a \in Regions :
        /\ x.watermarks[a] >= y.watermarks[a] => a \in x.cut
        /\ y.watermarks[a] >= x.watermarks[a] => a \in y.cut}

(* Mistake: counters are added up.                                         *)
MergedSum(x, y) ==
    [cells |-> [c \in Cells |-> x.cells[c] + y.cells[c]],
     watermarks |-> [a \in Regions |-> Larger(x.watermarks[a], y.watermarks[a])],
     heard |-> [c \in Cells |-> x.heard[c] \cup y.heard[c]],
     cut |-> CutOf(x, y)]

(* merge: cell by cell and actor by actor, the larger value stays.         *)
Merged(x, y) ==
    [cells |-> [c \in Cells |-> Larger(x.cells[c], y.cells[c])],
     watermarks |-> [a \in Regions |-> Larger(x.watermarks[a], y.watermarks[a])],
     heard |-> [c \in Cells |-> x.heard[c] \cup y.heard[c]],
     cut |-> CutOf(x, y)]

(* delta(keys): the cells of the keys, and the watermarks of the actors    *)
(* that occur in them.                                                     *)
Delta(x, keys) ==
    LET actors == {a \in Regions : \E c \in Cells :
                      c.key \in keys /\ c.actor = a /\ x.cells[c] > 0}
    IN  [cells |-> [c \in Cells |-> IF c.key \in keys THEN x.cells[c] ELSE 0],
         watermarks |-> [a \in Regions |-> IF a \in actors THEN x.watermarks[a] ELSE 0],
         heard |-> [c \in Cells |-> IF c.key \in keys THEN x.heard[c] ELSE {}],
         cut |-> {a \in actors : \/ a \in x.cut
                                 \/ \E c \in Cells :
                                       c.key \notin keys /\ c.actor = a /\ x.cells[c] > 0}]

-----------------------------------------------------------------------------
Init ==
    /\ state = [r \in Regions |-> Empty]
    /\ sent = {}
    /\ issued = [c \in Cells |-> 0]
    /\ now = 0
    /\ restarts = 0
    /\ restarted = {}

(* Mistake: a signal forgets to move its actor's watermark.                *)
MarkNothing(x, r, at) == x.watermarks

(* _mark_watermark *)
MarkWatermark(x, r, at) ==
    [x.watermarks EXCEPT ![r] = Larger(x.watermarks[r], at)]

(* Mistake: a suppression is taken off the positive counter.               *)
IncrementSigned(r, tree, key) ==
    LET x == state[r]
        c == [tree |-> "positive", key |-> key, actor |-> r]
    IN  /\ now < MaxSignals
        /\ now' = now + 1
        /\ issued' = [issued EXCEPT ![c] = issued[c] + 1]
        /\ state' = [state EXCEPT ![r] =
              [cells |-> [x.cells EXCEPT
                             ![c] = @ + IF tree = "positive" THEN 1 ELSE -1],
               watermarks |-> MarkWatermark(x, r, now'),
               heard |-> [x.heard EXCEPT ![c] = x.heard[c] \cup {issued'[c]}],
               cut |-> x.cut]]
        /\ UNCHANGED <<sent, restarts, restarted>>

(* boost, suppress: region r counts one more signal of its own.            *)
Increment(r, tree, key) ==
    LET x == state[r]
        c == [tree |-> tree, key |-> key, actor |-> r]
    IN  /\ now < MaxSignals
        /\ now' = now + 1
        /\ issued' = [issued EXCEPT ![c] = issued[c] + 1]
        /\ state' = [state EXCEPT ![r] =
              [cells |-> [x.cells EXCEPT ![c] = x.cells[c] + 1],
               watermarks |-> MarkWatermark(x, r, now'),
               heard |-> [x.heard EXCEPT ![c] = x.heard[c] \cup {issued'[c]}],
               cut |-> x.cut]]
        /\ UNCHANGED <<sent, restarts, restarted>>

Tombstone(r, key) ==
    LET x == state[r]
        c == [tree |-> "tombstones", key |-> key, actor |-> r]
    IN  /\ now < MaxSignals
        /\ now' = now + 1
        /\ state' = [state EXCEPT ![r] =
              [cells |-> [x.cells EXCEPT ![c] = Larger(x.cells[c], now')],
               watermarks |-> MarkWatermark(x, r, now'),
               heard |-> x.heard,
               cut |-> x.cut]]
        /\ UNCHANGED <<sent, issued, restarts, restarted>>

(* export_field_state_delta, and the field state of a namespace delta.     *)
Export(r, keys) ==
    /\ Cardinality(sent) < MaxDeltas
    /\ sent' = sent \cup {Delta(state[r], keys)}
    /\ UNCHANGED <<state, issued, now, restarts, restarted>>

Lose(d) ==
    /\ sent' = sent \ {d}
    /\ UNCHANGED <<state, issued, now, restarts, restarted>>

(* import_field_state_delta: the delta stays in flight, it may come again. *)
Import(r, d) ==
    /\ state' = [state EXCEPT ![r] = Merged(state[r], d)]
    /\ UNCHANGED <<sent, issued, now, restarts, restarted>>

(* Mistake: a region only passes on its own signals.                       *)
SyncOwn(s, r) ==
    /\ state' = [state EXCEPT ![r].cells =
          [c \in Cells |-> IF c.actor = s THEN Larger(state[r].cells[c], state[s].cells[c])
                           ELSE state[r].cells[c]]]
    /\ UNCHANGED <<sent, issued, now, restarts, restarted>>

(* A full delta from s to r in one go, as a sync without cursor sends it.  *)
Sync(s, r) ==
    /\ \E d \in {Delta(state[s], Keys)} :
          state' = [state EXCEPT ![r] = Merged(state[r], d)]
    /\ UNCHANGED <<sent, issued, now, restarts, restarted>>

Restart(r) ==
    /\ restarts < MaxRestarts
    /\ restarts' = restarts + 1
    /\ restarted' = restarted \cup {r}
    /\ state' = [state EXCEPT ![r] = Empty]
    /\ UNCHANGED <<sent, issued, now>>

Next ==
    \/ \E r \in Regions, k \in Keys, t \in Counters : Increment(r, t, k)
    \/ \E r \in Regions, k \in Keys : Tombstone(r, k)
    \/ \E r \in Regions, ks \in KeySets : Export(r, ks)
    \/ \E d \in sent : Lose(d) \/ \E r \in Regions : Import(r, d)
    \/ \E r, s \in Regions : Sync(s, r)
    \/ \E r \in Regions : Restart(r)

Spec == Init /\ [][Next]_vars

(* Every pair of regions is synced again and again, as by a scheduled sync *)
(* worker.                                                                 *)
FairSpec ==
    Spec /\ \A r \in Regions : \A s \in Regions \ {r} : WF_state(Sync(s, r))

-----------------------------------------------------------------------------
(* audit_field_state_watermarks over all regions with no lag allowed finds *)
(* nothing about an actor: no region misses it or is behind on it.  (The   *)
(* code rounds the lag to a millionth of a second first.)                  *)
Covered(a) ==
    \A r, s \in Regions : state[r].watermarks[a] >= state[s].watermarks[a]

AuditHealthy == \A a \in Regions : Covered(a)

AgreeOn(a) ==
    \A r, s \in Regions : \A c \in {d \in Cells : d.actor = a} :
        state[r].cells[c] = state[s].cells[c]

Agree == \A a \in Regions : AgreeOn(a)

(* However often and in whatever order deltas arrive, a counter never      *)
(* stands for more signals than its actor sent and the region heard of     *)
(* ("exchange deltas in any order without double-counting signals"); and   *)
(* of an actor that never restarted it misses none of them.                *)
CountedOnce ==
    \A x \in {state[r] : r \in Regions} \cup sent :
        \A c \in {d \in Cells : d.tree \in Counters} :
            /\ x.cells[c] <= Cardinality(x.heard[c])
            /\ c.actor \notin restarted => x.cells[c] = Cardinality(x.heard[c])

(* What an audit without findings about a writer means ("a region can     *)
(* audit which writers are covered by the field state it has received, and *)
(* detect missing actors or lagging field-state replicas"): the regions    *)
(* hold the same of it, whatever partial deltas came before, late, again   *)
(* or never, and whoever else restarted.  It says nothing of a writer that *)
(* restarted, and nothing while a region has the newest watermark of the   *)
(* writer only from deltas of some keys.                                   *)
HealthyMeansAgreed ==
    \A a \in Regions \ restarted :
        Covered(a) /\ (\A r \in Regions : a \notin state[r].cut) => AgreeOn(a)

(* The same claim without the exception: an audit without findings means   *)
(* that the regions agree, as long as no process restarted.                *)
AuditMeansAgreed == AuditHealthy /\ restarted = {} => Agree

(* When signals stop, regions that keep syncing come to the same state,    *)
(* restarts or not, even though a restarted region has lost its own.       *)
Convergence == <>[]Agree

=============================================================================
