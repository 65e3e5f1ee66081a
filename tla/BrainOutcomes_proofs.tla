------------------------ MODULE BrainOutcomes_proofs ------------------------
(* Machine-checked safety of the outcomes of a Brain and their private     *)
(* copies, for every set of outcomes, scopes and sources, any number of    *)
(* crashes and errors, and any size of a drain.                            *)
EXTENDS BrainOutcomes, FiniteSetTheorems, TLAPS

(* The time of a new operation is a number.                                *)
LEMMA NowIsNat ==
    ASSUME TypeOK
    PROVE  Now \in Nat
<1>1. attested \subseteq Outcomes /\ IsFiniteSet(Outcomes)
  BY OutcomesAssumption DEF TypeOK
<1>2. Cardinality(attested) \in Nat
  BY <1>1, FS_Subset, FS_CardinalityType
<1>3. changes \in Nat
  BY OutcomesAssumption DEF TypeOK
<1>4. QED
  BY <1>2, <1>3 DEF Now

(* What a verification adds to the ledger.                                 *)
LEMMA QueueEffect ==
    ASSUME TypeOK, NEW o \in Outcomes
    PROVE  /\ Queue(o) \in Ledgers
           /\ Queue(o).integration = [db.integration EXCEPT ![o] = "pending"]
           /\ Queue(o).linked = db.linked \cup {o}
           /\ Queue(o).outbox =
                 db.outbox \cup {[kind |-> "integrate", of |-> o, at |-> Now]}
<1>1. Now \in Nat /\ db \in Ledgers
  BY NowIsNat DEF TypeOK
<1>2. [kind |-> "integrate", of |-> o, at |-> Now] \in Operations
  BY <1>1 DEF Operations
<1>3. QED
  BY <1>1, <1>2 DEF Queue, Ledgers

(* A purge takes the mappings and operations of its scopes, and no more.   *)
LEMMA RetireEffect ==
    ASSUME TypeOK, NEW N \in SUBSET Scopes
    PROVE  /\ Retire(N) \in Ledgers
           /\ Retire(N).linked = {o \in draft.linked : ScopeOf[o] \notin N}
           /\ Retire(N).outbox =
                 {q \in draft.outbox :
                    ~(/\ q.kind = "integrate" /\ q.of \in draft.linked
                      /\ ScopeOf[q.of] \in N)}
           /\ \A o \in Outcomes : Retire(N).integration[o] =
                 IF o \in draft.linked /\ ScopeOf[o] \in N /\ status[o] # "erased"
                 THEN "purged" ELSE draft.integration[o]
  BY DEF Retire, TypeOK, Ledgers

LEMMA ToPurgeScopes ==
    ASSUME TypeOK, NEW d \in Ledgers, NEW op
    PROVE  ToPurge(d, op) \in SUBSET Scopes
  BY OutcomesAssumption DEF ToPurge, Dirty, Ledgers

(* The draft after the purge of one operation.                             *)
LEMMA FinishEffect ==
    ASSUME TypeOK, NEW op \in batch, FinishPurge(op)
    PROVE  LET N == ToPurge(draft, op) IN
           /\ draft' \in Ledgers
           /\ draft'.linked = {o \in draft.linked : ScopeOf[o] \notin N}
           /\ draft'.outbox =
                 {q \in draft.outbox \ {op} :
                    ~(/\ q.kind = "integrate" /\ q.of \in draft.linked
                      /\ ScopeOf[q.of] \in N)}
           /\ \A o \in Outcomes : draft'.integration[o] =
                 IF op.kind = "integrate" /\ o = op.of /\ status[o] # "erased"
                 THEN "blocked"
                 ELSE IF o \in draft.linked /\ ScopeOf[o] \in N /\ status[o] # "erased"
                 THEN "purged" ELSE draft.integration[o]
<1> DEFINE N == ToPurge(draft, op)
           R == Retire(N)
<1>1. /\ R \in Ledgers
      /\ R.linked = {o \in draft.linked : ScopeOf[o] \notin N}
      /\ R.outbox =
            {q \in draft.outbox :
               ~(/\ q.kind = "integrate" /\ q.of \in draft.linked
                 /\ ScopeOf[q.of] \in N)}
      /\ \A o \in Outcomes : R.integration[o] =
            IF o \in draft.linked /\ ScopeOf[o] \in N /\ status[o] # "erased"
            THEN "purged" ELSE draft.integration[o]
  <2>1. N \in SUBSET Scopes
    BY ToPurgeScopes DEF TypeOK
  <2>2. QED
    BY <2>1, RetireEffect
<1>2. draft' = [R EXCEPT
          !.outbox = @ \ {op},
          !.integration =
             IF op.kind = "integrate" /\ status[op.of] # "erased"
             THEN [@ EXCEPT ![op.of] = "blocked"] ELSE @]
  BY DEF FinishPurge
<1> HIDE DEF N, R
<1>3. /\ draft' \in Ledgers
      /\ draft'.linked = R.linked
      /\ draft'.outbox = R.outbox \ {op}
      /\ draft'.integration =
             IF op.kind = "integrate" /\ status[op.of] # "erased"
             THEN [R.integration EXCEPT ![op.of] = "blocked"]
             ELSE R.integration
  BY <1>1, <1>2 DEF Ledgers
<1>4. \A o \in Outcomes : draft'.integration[o] =
                 IF op.kind = "integrate" /\ o = op.of /\ status[o] # "erased"
                 THEN "blocked"
                 ELSE IF o \in draft.linked /\ ScopeOf[o] \in N /\ status[o] # "erased"
                 THEN "purged" ELSE draft.integration[o]
  BY <1>1, <1>3 DEF Ledgers
<1>5. draft'.outbox =
                 {q \in draft.outbox \ {op} :
                    ~(/\ q.kind = "integrate" /\ q.of \in draft.linked
                      /\ ScopeOf[q.of] \in N)}
  BY <1>1, <1>3
<1>6. QED
  BY <1>1, <1>3, <1>4, <1>5 DEF N

(* The draft after an integration.                                         *)
LEMMA AcknowledgeEffect ==
    ASSUME TypeOK, NEW op \in batch, Acknowledge(op)
    PROVE  /\ draft' \in Ledgers
           /\ draft'.linked = draft.linked
           /\ draft'.outbox = draft.outbox \ {op}
           /\ draft'.integration =
                 [draft.integration EXCEPT ![op.of] = "completed"]
  BY DEF Acknowledge, TypeOK, Ledgers

(* What an event does to packets and outcomes keeps their types.           *)
LEMMA InvalidateTypes ==
    ASSUME TypeOK, NEW P, NEW Q, NEW mark \in {"revoked", "erased"},
           Invalidate(P, Q, mark)
    PROVE  /\ packet' \in [Outcomes -> {"none", "active", "revoked", "erased"}]
           /\ status' \in [Outcomes ->
                      {"none", "unverified", "verified", "revoked", "erased"}]
  BY DEF Invalidate, TypeOK

(* A change of a source adds its event to the ledger.                      *)
LEMMA ChangeEffect ==
    ASSUME TypeOK, NEW s \in Sources, NEW event \in Events,
           ChangeSource(s, event)
    PROVE  /\ db' \in Ledgers /\ draft' = db' /\ draft = db
           /\ db'.integration = db.integration
           /\ db'.linked = db.linked
           /\ db'.outbox =
                 db.outbox \cup {[kind |-> event, of |-> s, at |-> Now]}
<1>1. Now \in Nat /\ db \in Ledgers
  BY NowIsNat DEF TypeOK
<1>2. [kind |-> event, of |-> s, at |-> Now] \in Operations
  BY <1>1 DEF Operations
<1>3. QED
  BY <1>1, <1>2 DEF ChangeSource, Change, Write, TypeOK, Ledgers

-----------------------------------------------------------------------------
LEMMA TypeInit == Init => TypeOK
<1> SUFFICES ASSUME Init PROVE TypeOK
  OBVIOUS
<1>1. db \in Ledgers /\ draft = db
  BY DEF Init, Ledgers
<1>2. /\ source \in [Sources -> {"active", "revoked", "deleted"}]
      /\ ground \in [Scopes -> {"approved", "rejected", "replaced"}]
      /\ packet \in [Outcomes -> {"none", "active", "revoked", "erased"}]
      /\ status \in [Outcomes ->
                      {"none", "unverified", "verified", "revoked", "erased"}]
      /\ private \in [Outcomes -> {"none", "partial", "whole"}]
      /\ era \in [Scopes -> Eras]
  BY DEF Init
<1>3. changes \in 0..MaxChanges /\ faults \in 0..MaxFaults
  BY OutcomesAssumption DEF Init
<1>4. /\ attested \subseteq Outcomes /\ barred \subseteq Outcomes
      /\ gated \in BOOLEAN /\ draining \in BOOLEAN
      /\ batch \subseteq db.outbox /\ batch = {}
      /\ verdict = "open" /\ torn \subseteq Outcomes
  BY DEF Init
<1>5. QED
  BY <1>1, <1>2, <1>3, <1>4 DEF TypeOK

(* Every step keeps the types, and leaves nothing of a drain open.         *)
LEMMA TypeStep ==
    ASSUME TypeOK, [Next]_vars
    PROVE  TypeOK'
<1> USE OutcomesAssumption
<1>1. ASSUME NEW o \in Outcomes, BeginAction(o) PROVE TypeOK'
  BY <1>1 DEF BeginAction, Write, drain, TypeOK
<1>2. ASSUME NEW o \in Outcomes, RecordOutcome(o) PROVE TypeOK'
  BY <1>2 DEF RecordOutcome, Write, drain, TypeOK
<1>3. ASSUME NEW o \in Outcomes, VerifyOutcome(o) PROVE TypeOK'
  <2>1. db' \in Ledgers /\ draft' = db'
    BY <1>3, QueueEffect DEF VerifyOutcome
  <2>2. batch' = {}
    BY <1>3 DEF VerifyOutcome, Write, drain, TypeOK
  <2>3. QED
    BY <1>3, <2>1, <2>2 DEF VerifyOutcome, Write, drain, TypeOK
<1>4. ASSUME NEW o \in Outcomes, BarVerifier(o) PROVE TypeOK'
  BY <1>4 DEF BarVerifier, Change, Write, drain, TypeOK
<1>5. ASSUME NEW s \in Sources, NEW event \in Events, ChangeSource(s, event)
      PROVE  TypeOK'
  <2>1. db' \in Ledgers /\ draft' = db'
    BY <1>5, ChangeEffect
  <2>2. /\ packet' \in [Outcomes -> {"none", "active", "revoked", "erased"}]
        /\ status' \in [Outcomes ->
                      {"none", "unverified", "verified", "revoked", "erased"}]
    BY <1>5, InvalidateTypes DEF ChangeSource
  <2>3. /\ source' \in [Sources -> {"active", "revoked", "deleted"}]
        /\ ground' \in [Scopes -> {"approved", "rejected", "replaced"}]
    BY <1>5 DEF ChangeSource, TypeOK
  <2>4. batch' = {} /\ changes' \in 0..MaxChanges
    BY <1>5 DEF ChangeSource, Change, Write, drain, TypeOK
  <2>5. QED
    BY <1>5, <2>1, <2>2, <2>3, <2>4 DEF ChangeSource, Change, Write, drain, TypeOK
<1>6. ASSUME NEW n \in Scopes, RejectClaim(n) PROVE TypeOK'
  <2>1. /\ packet' \in [Outcomes -> {"none", "active", "revoked", "erased"}]
        /\ status' \in [Outcomes ->
                      {"none", "unverified", "verified", "revoked", "erased"}]
    BY <1>6, InvalidateTypes DEF RejectClaim
  <2>2. QED
    BY <1>6, <2>1 DEF RejectClaim, Change, Write, drain, TypeOK
<1>7. ASSUME NEW n \in Scopes, ApproveClaim(n) PROVE TypeOK'
  BY <1>7 DEF ApproveClaim, Change, Write, drain, TypeOK
<1>8. CASE CloseGate
  BY <1>8 DEF CloseGate, Change, Write, drain, TypeOK
<1>9. CASE LiftGate
  BY <1>9 DEF LiftGate, Write, drain, TypeOK
<1>10. CASE StartDrain
  BY <1>10 DEF StartDrain, Batch, brain, TypeOK
<1>11. CASE Commit
  <2>1. /\ db' \in Ledgers /\ draft' = db' /\ batch' = {} /\ draining' = FALSE
        /\ verdict' \in {"open", "eligible", "ineligible"}
        /\ torn' \subseteq Outcomes
    BY <1>11 DEF Commit, TypeOK
  <2>2. verdict' = "open"
    BY <1>11 DEF Commit, TypeOK
  <2>3. QED
    BY <1>11, <2>1, <2>2 DEF Commit, brain, TypeOK
<1>12. CASE Crash
  <2>1. db' \in Ledgers /\ draft' = db' /\ batch' = {} /\ draining' \in BOOLEAN
    BY <1>12 DEF Crash, TypeOK
  <2>2. faults' \in 0..MaxFaults
    BY <1>12 DEF Crash, TypeOK
  <2>3. QED
    BY <1>12, <2>1, <2>2 DEF Crash, brain, TypeOK
<1>13. ASSUME NEW op \in batch, Drain(op) PROVE TypeOK'
  <2>1. CASE SkipRetired(op)
    BY <2>1 DEF SkipRetired, IsNext, Leave, brain, TypeOK
  <2>2. CASE FinishPurge(op)
    <3>1. draft' \in Ledgers
      BY <2>2, FinishEffect
    <3>2. QED
      BY <2>2, <3>1 DEF FinishPurge, Purges, Handles, IsNext, Leave, brain, TypeOK
  <2>3. CASE Integrate(op)
    <3>1. private' \in [Outcomes -> {"none", "partial", "whole"}]
      BY <2>3 DEF Integrate, TypeOK
    <3>2. QED
      BY <2>3, <3>1 DEF Integrate, drain, brain, TypeOK
  <2>4. CASE Acknowledge(op)
    <3>1. draft' \in Ledgers
      BY <2>4, AcknowledgeEffect
    <3>2. QED
      BY <2>4, <3>1 DEF Acknowledge, Handles, IsNext, Leave, brain, TypeOK
  <2>5. CASE Raise(op)
    <3>1. faults' \in 0..MaxFaults
      BY <2>5 DEF Raise, TypeOK
    <3>2. QED
      BY <2>5, <3>1 DEF Raise, IsNext, Leave, brain, TypeOK
  <2>6. ASSUME NEW n \in Scopes, PurgePrivate(op, n) PROVE TypeOK'
    <3>1. /\ private' \in [Outcomes -> {"none", "partial", "whole"}]
          /\ torn' \subseteq Outcomes
      BY <2>6 DEF PurgePrivate, Within, TypeOK
    <3>2. QED
      BY <2>6, <3>1 DEF PurgePrivate, drain, brain, TypeOK
  <2>7. CASE Judge(op)
    BY <2>7 DEF Judge, Handles, IsNext, brain, TypeOK
  <2>8. QED
    BY <1>13, <2>1, <2>2, <2>3, <2>4, <2>5, <2>6, <2>7 DEF Drain
<1>14. CASE UNCHANGED vars
  BY <1>14 DEF vars, drain, brain, TypeOK
<1>15. ASSUME NEW n \in Scopes, Tick(n) PROVE TypeOK'
  <2>1. era' \in [Scopes -> Eras]
    BY <1>15 DEF Tick, Eras, TypeOK
  <2>2. QED
    BY <1>15, <2>1 DEF Tick, drain, brain, TypeOK
<1>16. QED
  BY <1>1, <1>2, <1>3, <1>4, <1>5, <1>6, <1>7, <1>8, <1>9, <1>10, <1>11,
     <1>12, <1>13, <1>14, <1>15 DEF Next

(* All variables keep their types, and between drains the draft is what    *)
(* was committed (the transactions of drain_outbox).                       *)
THEOREM TypeCorrect == Spec => []TypeOK
<1>1. Init => TypeOK
  BY TypeInit
<1>2. TypeOK /\ [Next]_vars => TypeOK'
  BY TypeStep
<1>3. QED
  BY <1>1, <1>2, PTL DEF Spec

-----------------------------------------------------------------------------
(* The operation of a batch that comes next is one only.                   *)
LEMMA NextIsOne ==
    ASSUME TypeOK, NEW p, NEW q, IsNext(p), IsNext(q)
    PROVE  p = q
<1> SUFFICES ASSUME p # q PROVE FALSE
  OBVIOUS
<1>1. p \in Operations /\ q \in Operations
  BY DEF IsNext, TypeOK, Ledgers
<1>2. Before(p, q) /\ Before(q, p)
  BY DEF IsNext
<1>3. p.at \in Nat /\ q.at \in Nat
  BY <1>1 DEF Operations
<1>4. QED
  BY <1>2, <1>3 DEF Before

(* An outcome found eligible is still mapped to its scope when its run is  *)
(* written: the write lock keeps all but the time as it was.               *)
Judged ==
    verdict = "eligible" =>
        \A op : IsNext(op) => op.kind = "integrate" /\ op.of \in draft.linked

LEMMA JudgedStep ==
    ASSUME TypeOK, Judged, [Next]_vars
    PROVE  Judged'
<1>1. ASSUME verdict' = "open" PROVE Judged'
  BY <1>1 DEF Judged
<1>2. ASSUME UNCHANGED <<draining, batch, verdict, draft>> PROVE Judged'
  BY <1>2 DEF Judged, IsNext
<1>3. ASSUME NEW op \in batch, Judge(op) PROVE Judged'
  <2>1. /\ IsNext(op) /\ op.kind = "integrate"
        /\ verdict' = "eligible" => op.of \in draft.linked
    BY <1>3 DEF Judge, Handles, Eligible
  <2>2. \A q : IsNext(q)' => q = op
    BY <1>3, <2>1, NextIsOne DEF Judge, IsNext
  <2>3. draft' = draft
    BY <1>3 DEF Judge
  <2>4. QED
    BY <2>1, <2>2, <2>3 DEF Judged
<1>4. ASSUME ~draining, verdict' = verdict PROVE Judged'
  BY <1>1, <1>4 DEF TypeOK
<1>5. CASE Commit
  BY <1>5 DEF Commit, Judged, IsNext
<1>6. QED
  BY <1>1, <1>2, <1>3, <1>4, <1>5
     DEF Next, Drain, BeginAction, RecordOutcome, VerifyOutcome, BarVerifier,
         ChangeSource, RejectClaim, ApproveClaim, CloseGate, LiftGate, Change,
         Write, Tick, StartDrain, Crash, SkipRetired, FinishPurge, Integrate,
         Acknowledge, Raise, PurgePrivate, Leave, drain, vars

LEMMA JudgedAlways == Spec => []Judged
<1>1. Init => Judged
  BY DEF Init, Judged
<1>2. TypeOK /\ Judged /\ [Next]_vars => Judged'
  BY JudgedStep
<1>3. QED
  BY <1>1, <1>2, TypeCorrect, PTL DEF Spec

-----------------------------------------------------------------------------
(* A drain only takes away mappings and operations.                        *)
Ahead == draft.linked \subseteq db.linked /\ draft.outbox \subseteq db.outbox

(* Private data always have a mapping by which they are found, also in the *)
(* transaction that is about to forget mappings.                           *)
Mapped == \A o \in Outcomes : private[o] # "none" => o \in draft.linked

(* What the drain in progress may have done to ledger and private data.    *)
LEMMA MappedStep ==
    ASSUME TypeOK, Judged, Ahead, Mapped, [Next]_vars
    PROVE  Ahead' /\ Mapped'
<1> USE DEF Ahead, Mapped
<1>1. ASSUME NEW o \in Outcomes, VerifyOutcome(o) PROVE Ahead' /\ Mapped'
  <2>1. draft' = db' /\ db'.linked = db.linked \cup {o} /\ private' = private
    BY <1>1, QueueEffect DEF VerifyOutcome, Write
  <2>2. QED
    BY <2>1
<1>2. ASSUME NEW s \in Sources, NEW event \in Events, ChangeSource(s, event)
      PROVE  Ahead' /\ Mapped'
  <2>1. draft' = db' /\ db'.linked = db.linked /\ private' = private
    BY <1>2, ChangeEffect DEF ChangeSource, Change, Write
  <2>2. QED
    BY <2>1
<1>3. ASSUME UNCHANGED <<db, draft, private>> PROVE Ahead' /\ Mapped'
  BY <1>3
<1>4. CASE Commit
  BY <1>4 DEF Commit
<1>5. CASE Crash
  BY <1>5 DEF Crash
<1>6. ASSUME NEW op \in batch, Drain(op) PROVE Ahead' /\ Mapped'
  <2>1. CASE FinishPurge(op)
    <3>1. /\ draft'.linked =
                {o \in draft.linked : ScopeOf[o] \notin ToPurge(draft, op)}
          /\ draft'.outbox \subseteq draft.outbox
      BY <2>1, FinishEffect
    <3>2. \A o \in Outcomes :
             ScopeOf[o] \in ToPurge(draft, op) => private[o] = "none"
      BY <2>1 DEF FinishPurge
    <3>3. db' = db /\ private' = private
      BY <2>1 DEF FinishPurge
    <3>4. QED
      BY <3>1, <3>2, <3>3
  <2>2. CASE Integrate(op)
    <3>1. op.of \in draft.linked /\ db' = db /\ draft' = draft
      BY <2>2 DEF Integrate, Handles, Judged
    <3>2. \A o \in Outcomes \ {op.of} : private'[o] = private[o]
      BY <2>2 DEF Integrate, TypeOK
    <3>3. QED
      BY <3>1, <3>2
  <2>3. CASE Acknowledge(op)
    <3>1. draft'.linked = draft.linked /\ draft'.outbox \subseteq draft.outbox
      BY <2>3, AcknowledgeEffect
    <3>2. QED
      BY <2>3, <3>1 DEF Acknowledge
  <2>4. ASSUME NEW n \in Scopes, PurgePrivate(op, n) PROVE Ahead' /\ Mapped'
    BY <2>4 DEF PurgePrivate, TypeOK
  <2>5. QED
    BY <1>3, <1>6, <2>1, <2>2, <2>3, <2>4 DEF Drain, SkipRetired, Judge, Raise
<1>7. QED
  BY <1>1, <1>2, <1>3, <1>4, <1>5, <1>6
     DEF Next, BeginAction, RecordOutcome, BarVerifier, RejectClaim,
         ApproveClaim, CloseGate, LiftGate, Change, Write, Tick, StartDrain,
         vars

(* What is served rests on verified, acknowledged outcomes only            *)
(* (eligible_experiences), for every number of processes and crashes.      *)
THEOREM ServedIsBacked == Spec => []ServedBacked
<1>1. Init => Ahead /\ Mapped
  BY DEF Init, Ahead, Mapped
<1>2. TypeOK /\ Judged /\ Ahead /\ Mapped /\ [Next]_vars => Ahead' /\ Mapped'
  BY MappedStep
<1>3. Ahead /\ Mapped => ServedBacked
  BY DEF Ahead, Mapped, ServedBacked, Served, Within
<1>4. QED
  BY <1>1, <1>2, <1>3, TypeCorrect, JudgedAlways, PTL DEF Spec

-----------------------------------------------------------------------------
(* As long as an erased outcome is mapped, the deletion waits.             *)
EraseQueued(d) ==
    \A o \in d.linked : status[o] = "erased" =>
        \E op \in d.outbox : op.kind = "deleted" /\ op.of \in Origins(o)

(* A purge that ends a deletion has emptied every dirty scope; any other   *)
(* leaves deletions in the queue.                                          *)
LEMMA EraseStep ==
    ASSUME TypeOK, Judged, EraseQueued(db), EraseQueued(draft), [Next]_vars
    PROVE  EraseQueued(db)' /\ EraseQueued(draft)'
<1> USE DEF EraseQueued
<1> DEFINE Goal == EraseQueued(db)' /\ EraseQueued(draft)'
<1>1. ASSUME NEW o \in Outcomes, VerifyOutcome(o) PROVE Goal
  <2>1. /\ draft' = db' /\ db'.linked = db.linked \cup {o}
        /\ db'.outbox =
              db.outbox \cup {[kind |-> "integrate", of |-> o, at |-> Now]}
    BY <1>1, QueueEffect DEF VerifyOutcome
  <2>2. status' = [status EXCEPT ![o] = "verified"]
    BY <1>1 DEF VerifyOutcome
  <2>3. ASSUME NEW p \in db'.linked, status'[p] = "erased"
        PROVE  \E op \in db'.outbox : op.kind = "deleted" /\ op.of \in Origins(p)
    <3>1. p \in db.linked /\ status[p] = "erased"
      BY <2>1, <2>2, <2>3 DEF TypeOK, Ledgers
    <3>2. QED
      BY <2>1, <3>1
  <2>4. QED
    BY <2>1, <2>3 DEF Origins
<1>2. ASSUME NEW o \in Outcomes, RecordOutcome(o) PROVE Goal
  BY <1>2 DEF RecordOutcome, TypeOK, Ledgers, Origins
<1>3. ASSUME NEW s \in Sources, NEW event \in Events, ChangeSource(s, event)
      PROVE  Goal
  <2>1. /\ draft' = db' /\ db'.linked = db.linked
        /\ db'.outbox =
              db.outbox \cup {[kind |-> event, of |-> s, at |-> Now]}
    BY <1>3, ChangeEffect
  <2>2. ASSUME NEW p \in db.linked, status'[p] = "erased"
        PROVE  \E op \in db'.outbox : op.kind = "deleted" /\ op.of \in Origins(p)
    <3>1. p \in Outcomes
      BY DEF TypeOK, Ledgers
    <3>2. \/ status[p] = "erased"
          \/ s \in Origins(p) /\ event = "deleted"
      BY <1>3, <2>2, <3>1 DEF ChangeSource, Invalidate
    <3>3. CASE status[p] = "erased"
      BY <2>1, <3>3
    <3>4. CASE s \in Origins(p) /\ event = "deleted"
      <4> DEFINE new == [kind |-> event, of |-> s, at |-> Now]
      <4>1. new \in db'.outbox
        BY <2>1
      <4>2. new.kind = "deleted" /\ new.of = s
        BY <3>4
      <4>3. QED
        BY <4>1, <4>2, <3>4
    <3>5. QED
      BY <3>2, <3>3, <3>4
  <2>3. QED
    BY <2>1, <2>2 DEF Origins
<1>4. ASSUME NEW n \in Scopes, RejectClaim(n) PROVE Goal
  <2>1. \A p \in Outcomes : status'[p] = "erased" => status[p] = "erased"
    BY <1>4 DEF RejectClaim, Invalidate
  <2>2. db' = db /\ draft' = draft
    BY <1>4 DEF RejectClaim
  <2>3. QED
    BY <2>1, <2>2 DEF TypeOK, Ledgers, Origins
<1>5. ASSUME UNCHANGED <<db, draft, status>> PROVE Goal
  BY <1>5 DEF Origins
<1>6. CASE Commit
  BY <1>6 DEF Commit, brain, Origins
<1>7. CASE Crash
  BY <1>7 DEF Crash, brain, Origins
<1>8. ASSUME NEW op \in batch, FinishPurge(op) PROVE Goal
  <2>1. db' = db /\ status' = status
    BY <1>8 DEF FinishPurge, brain
  <2>2. /\ draft'.linked =
              {o \in draft.linked : ScopeOf[o] \notin ToPurge(draft, op)}
        /\ draft'.outbox =
              {q \in draft.outbox \ {op} :
                 ~(/\ q.kind = "integrate" /\ q.of \in draft.linked
                   /\ ScopeOf[q.of] \in ToPurge(draft, op))}
    BY <1>8, FinishEffect
  <2>3. ASSUME NEW p \in draft'.linked, status[p] = "erased"
        PROVE  \E q \in draft'.outbox : q.kind = "deleted" /\ q.of \in Origins(p)
    <3>1. PICK q \in draft.outbox : q.kind = "deleted" /\ q.of \in Origins(p)
      BY <2>2, <2>3
    <3>2. ScopeOf[p] \in Dirty(draft)
      BY <2>2, <2>3 DEF Dirty, Bad
    <3>3. op.kind = "integrate"
      BY <2>2, <3>2 DEF ToPurge
    <3>4. q \in draft'.outbox
      BY <2>2, <3>1, <3>3
    <3>5. QED
      BY <3>1, <3>4
  <2>4. QED
    BY <2>1, <2>3 DEF Origins
<1>9. ASSUME NEW op \in batch, Acknowledge(op) PROVE Goal
  <2>1. draft'.linked = draft.linked /\ draft'.outbox = draft.outbox \ {op}
    BY <1>9, AcknowledgeEffect
  <2>2. op.kind = "integrate" /\ db' = db /\ status' = status
    BY <1>9 DEF Acknowledge, Handles, Judged, brain
  <2>3. ASSUME NEW p \in draft.linked, status[p] = "erased"
        PROVE  \E q \in draft'.outbox : q.kind = "deleted" /\ q.of \in Origins(p)
    <3>1. PICK q \in draft.outbox : q.kind = "deleted" /\ q.of \in Origins(p)
      BY <2>3
    <3>2. q # op
      BY <2>2, <3>1
    <3>3. QED
      BY <2>1, <3>1, <3>2
  <2>4. QED
    BY <2>1, <2>2, <2>3 DEF Origins
<1>10. QED
  BY <1>1, <1>2, <1>3, <1>4, <1>5, <1>6, <1>7, <1>8, <1>9
     DEF Next, Drain, BeginAction, BarVerifier, ApproveClaim, CloseGate,
         LiftGate, Change, Write, Tick, StartDrain, SkipRetired, Judge,
         Integrate, Raise, PurgePrivate, brain, vars

(* Private data of an erased outcome outlive no completed deletion         *)
(* (change_source's private_cleanup).                                      *)
THEOREM ErasureIsHonest == Spec => []ErasureHonest
<1>1. Init => Ahead /\ Mapped /\ EraseQueued(db) /\ EraseQueued(draft)
  BY DEF Init, Ahead, Mapped, EraseQueued
<1>2. TypeOK /\ Judged /\ Ahead /\ Mapped /\ [Next]_vars => Ahead' /\ Mapped'
  BY MappedStep
<1>3. TypeOK /\ Judged /\ EraseQueued(db) /\ EraseQueued(draft) /\ [Next]_vars
        => EraseQueued(db)' /\ EraseQueued(draft)'
  BY EraseStep
<1>4. Ahead /\ Mapped /\ EraseQueued(db) => ErasureHonest
  BY DEF Ahead, Mapped, EraseQueued, ErasureHonest
<1>5. QED
  BY <1>1, <1>2, <1>3, <1>4, TypeCorrect, JudgedAlways, PTL DEF Spec

-----------------------------------------------------------------------------
(* What the ledger says of an outcome and its mapping go together, and     *)
(* only a verification brings an outcome into the ledger.                  *)
Recorded(d) ==
    /\ \A o \in Outcomes :
        /\ o \in d.linked => d.integration[o] \in {"pending", "completed"}
        /\ d.integration[o] = "completed" /\ status[o] = "verified"
              => o \in d.linked
        /\ o \in d.linked \/ d.integration[o] # "unverified" => o \in attested
    /\ \A op \in d.outbox : op.kind = "integrate" => op.of \in attested

LEMMA RecordedStep ==
    ASSUME TypeOK, Judged, Recorded(db), Recorded(draft), [Next]_vars
    PROVE  Recorded(db)' /\ Recorded(draft)'
<1> USE DEF Recorded
<1> DEFINE Goal == Recorded(db)' /\ Recorded(draft)'
<1>1. ASSUME NEW o \in Outcomes, VerifyOutcome(o) PROVE Goal
  <2>1. /\ draft' = db' /\ db'.linked = db.linked \cup {o}
        /\ db'.integration = [db.integration EXCEPT ![o] = "pending"]
        /\ db'.outbox =
              db.outbox \cup {[kind |-> "integrate", of |-> o, at |-> Now]}
    BY <1>1, QueueEffect DEF VerifyOutcome
  <2>2. /\ status' = [status EXCEPT ![o] = "verified"]
        /\ attested' = attested \cup {o} /\ o \notin attested
    BY <1>1 DEF VerifyOutcome
  <2>3. \A op \in db'.outbox : op.kind = "integrate" => op.of \in attested'
    BY <2>1, <2>2
  <2>4. QED
    BY <2>1, <2>2, <2>3 DEF TypeOK, Ledgers
<1>2. ASSUME NEW o \in Outcomes, RecordOutcome(o) PROVE Goal
  BY <1>2 DEF RecordOutcome, TypeOK
<1>3. ASSUME NEW s \in Sources, NEW event \in Events, ChangeSource(s, event)
      PROVE  Goal
  <2>1. /\ draft' = db' /\ db'.linked = db.linked
        /\ db'.integration = db.integration
        /\ db'.outbox =
              db.outbox \cup {[kind |-> event, of |-> s, at |-> Now]}
    BY <1>3, ChangeEffect
  <2>2. \A p \in Outcomes : status'[p] = "verified" => status[p] = "verified"
    BY <1>3 DEF ChangeSource, Invalidate
  <2>3. attested' = attested
    BY <1>3 DEF ChangeSource
  <2>4. \A op \in db'.outbox : op.kind = "integrate" => op.of \in attested'
    BY <2>1, <2>3 DEF Events
  <2>5. QED
    BY <2>1, <2>2, <2>3, <2>4
<1>4. ASSUME NEW n \in Scopes, RejectClaim(n) PROVE Goal
  <2>1. \A p \in Outcomes : status'[p] = "verified" => status[p] = "verified"
    BY <1>4 DEF RejectClaim, Invalidate
  <2>2. QED
    BY <1>4, <2>1 DEF RejectClaim
<1>5. ASSUME UNCHANGED <<db, draft, status, attested>> PROVE Goal
  BY <1>5
<1>6. CASE Commit
  BY <1>6 DEF Commit, brain
<1>7. CASE Crash
  BY <1>7 DEF Crash, brain
<1>8. ASSUME NEW op \in batch, FinishPurge(op) PROVE Goal
  <2>1. db' = db /\ status' = status /\ attested' = attested
    BY <1>8 DEF FinishPurge, brain
  <2>2. /\ draft'.outbox \subseteq draft.outbox
        /\ draft'.linked =
              {o \in draft.linked : ScopeOf[o] \notin ToPurge(draft, op)}
        /\ \A o \in Outcomes : draft'.integration[o] =
              IF op.kind = "integrate" /\ o = op.of /\ status[o] # "erased"
              THEN "blocked"
              ELSE IF /\ o \in draft.linked /\ ScopeOf[o] \in ToPurge(draft, op)
                      /\ status[o] # "erased"
              THEN "purged" ELSE draft.integration[o]
    BY <1>8, FinishEffect
  <2>3. op \in db.outbox
    BY <1>8 DEF TypeOK
  <2>4. op.kind = "integrate" => op.of \notin draft'.linked
    BY <2>2, <2>3 DEF ToPurge
  <2>5. op.kind = "integrate" => op.of \in attested
    BY <2>3
  <2>6. QED
    BY <2>1, <2>2, <2>4, <2>5
<1>9. ASSUME NEW op \in batch, Acknowledge(op) PROVE Goal
  <2>1. /\ op.of \in draft.linked /\ draft'.linked = draft.linked
        /\ draft'.outbox \subseteq draft.outbox
        /\ draft'.integration =
              [draft.integration EXCEPT ![op.of] = "completed"]
    BY <1>9, AcknowledgeEffect DEF Acknowledge, Handles, Judged
  <2>2. db' = db /\ status' = status /\ attested' = attested
    BY <1>9 DEF Acknowledge, brain
  <2>3. QED
    BY <2>1, <2>2 DEF TypeOK, Ledgers
<1>10. QED
  BY <1>1, <1>2, <1>3, <1>4, <1>5, <1>6, <1>7, <1>8, <1>9
     DEF Next, Drain, BeginAction, BarVerifier, ApproveClaim, CloseGate,
         LiftGate, Change, Write, Tick, StartDrain, SkipRetired, Judge,
         Integrate, Raise, PurgePrivate, brain, vars

-----------------------------------------------------------------------------
(* What is completed is in the private database, or was purged by a drain  *)
(* that did not come to commit it.                                         *)
Credited(d) ==
    \A o \in Outcomes :
        d.integration[o] = "completed" /\ status[o] = "verified" =>
            private[o] = "whole" \/ o \in torn

(* No write of the Brain and no step of a drain, done or undone, loses a   *)
(* run that is credited.                                                   *)
LEMMA CreditedStep ==
    ASSUME TypeOK, Recorded(draft), Credited(db), Credited(draft), [Next]_vars
    PROVE  Credited(db)' /\ Credited(draft)'
<1> USE DEF Credited
<1> DEFINE Goal == Credited(db)' /\ Credited(draft)'
<1>1. ASSUME NEW o \in Outcomes, VerifyOutcome(o) PROVE Goal
  <2>1. /\ draft' = db'
        /\ db'.integration = [db.integration EXCEPT ![o] = "pending"]
    BY <1>1, QueueEffect DEF VerifyOutcome
  <2>2. /\ status' = [status EXCEPT ![o] = "verified"]
        /\ private' = private /\ torn' = torn
    BY <1>1 DEF VerifyOutcome, Write
  <2>3. QED
    BY <2>1, <2>2 DEF TypeOK, Ledgers
<1>2. ASSUME UNCHANGED <<private, torn>>,
             db'.integration = db.integration,
             draft'.integration = draft.integration,
             \A p \in Outcomes : status'[p] = "verified" => status[p] = "verified"
      PROVE  Goal
  BY <1>2
<1>3. ASSUME NEW o \in Outcomes, RecordOutcome(o) PROVE Goal
  <2>1. \A p \in Outcomes : status'[p] = "verified" => status[p] = "verified"
    BY <1>3 DEF RecordOutcome, TypeOK
  <2>2. QED
    BY <1>2, <1>3, <2>1 DEF RecordOutcome, Write
<1>4. ASSUME NEW s \in Sources, NEW event \in Events, ChangeSource(s, event)
      PROVE  Goal
  <2>1. db'.integration = db.integration /\ draft'.integration = draft.integration
    BY <1>4, ChangeEffect
  <2>2. \A p \in Outcomes : status'[p] = "verified" => status[p] = "verified"
    BY <1>4 DEF ChangeSource, Invalidate
  <2>3. QED
    BY <1>2, <1>4, <2>1, <2>2 DEF ChangeSource, Change, Write
<1>5. ASSUME NEW n \in Scopes, RejectClaim(n) PROVE Goal
  <2>1. \A p \in Outcomes : status'[p] = "verified" => status[p] = "verified"
    BY <1>5 DEF RejectClaim, Invalidate
  <2>2. QED
    BY <1>2, <1>5, <2>1 DEF RejectClaim, Change, Write
<1>6. ASSUME UNCHANGED <<db, draft, status, private, torn>> PROVE Goal
  BY <1>6
<1>7. CASE Commit
  <2>1. \A o \in Outcomes :
           draft.integration[o] = "completed" /\ status[o] = "verified"
              => o \in draft.linked
    BY DEF Recorded
  <2>2. /\ db' = draft /\ draft' = draft /\ torn' = torn \cap draft.linked
        /\ private' = private /\ status' = status
    BY <1>7 DEF Commit, brain
  <2>3. QED
    BY <2>1, <2>2
<1>8. CASE Crash
  BY <1>8 DEF Crash, brain
<1>9. ASSUME NEW op \in batch, NEW n \in Scopes, PurgePrivate(op, n) PROVE Goal
  <2>1. /\ db' = db /\ draft' = draft /\ status' = status
        /\ \A o \in Outcomes : private[o] = "whole" =>
              private'[o] = "whole" \/ o \in torn'
        /\ torn \subseteq torn'
    BY <1>9 DEF PurgePrivate, Within, brain, TypeOK
  <2>2. QED
    BY <2>1
<1>10. ASSUME NEW op \in batch, Integrate(op) PROVE Goal
  <2>1. /\ db' = db /\ draft' = draft /\ status' = status
        /\ \A o \in Outcomes : private[o] = "whole" \/ o \in torn =>
              private'[o] = "whole" \/ o \in torn'
    BY <1>10 DEF Integrate, brain, TypeOK
  <2>2. QED
    BY <2>1
<1>11. ASSUME NEW op \in batch, FinishPurge(op) PROVE Goal
  <2>1. \A o \in Outcomes :
           draft'.integration[o] = "completed" => draft.integration[o] = "completed"
    BY <1>11, FinishEffect
  <2>2. db' = db /\ status' = status /\ private' = private /\ torn' = torn
    BY <1>11 DEF FinishPurge, brain
  <2>3. QED
    BY <2>1, <2>2
<1>12. ASSUME NEW op \in batch, Acknowledge(op) PROVE Goal
  <2>1. /\ draft'.integration = [draft.integration EXCEPT ![op.of] = "completed"]
        /\ private[op.of] = "whole"
    BY <1>12, AcknowledgeEffect DEF Acknowledge
  <2>2. db' = db /\ status' = status /\ private' = private /\ torn' = torn
    BY <1>12 DEF Acknowledge, brain
  <2>3. QED
    BY <2>1, <2>2 DEF TypeOK, Ledgers
<1>13. QED
  BY <1>1, <1>3, <1>4, <1>5, <1>6, <1>7, <1>8, <1>9, <1>10, <1>11, <1>12
     DEF Next, Drain, BeginAction, BarVerifier, ApproveClaim, CloseGate,
         LiftGate, Change, Write, Tick, StartDrain, SkipRetired, Judge, Raise,
         vars, brain

(* What a Brain tells of an integration is so (integration_status),        *)
(* whatever crashes, errors of the private database, changes of the gate   *)
(* and passing of time, but for the runs a drain has purged and could not  *)
(* commit.                                                                 *)
THEOREM IntegrationIsTrue == Spec => []IntegrationTrue
<1> DEFINE IInv == /\ Ahead /\ Mapped
                   /\ Recorded(db) /\ Recorded(draft)
                   /\ Credited(db) /\ Credited(draft)
<1>1. Init => IInv
  BY DEF Init, Ahead, Mapped, Recorded, Credited
<1>2. TypeOK /\ Judged /\ IInv /\ [Next]_vars => IInv'
  <2> SUFFICES ASSUME TypeOK, Judged, IInv, [Next]_vars PROVE IInv'
    OBVIOUS
  <2>1. Ahead' /\ Mapped'
    BY MappedStep
  <2>2. Recorded(db)' /\ Recorded(draft)'
    BY RecordedStep
  <2>3. Credited(db)' /\ Credited(draft)'
    BY CreditedStep
  <2>4. QED
    BY <2>1, <2>2, <2>3
<1>3. TypeOK /\ IInv => IntegrationTrue
  BY DEF Ahead, Mapped, Recorded, Credited, IntegrationTrue
<1>4. QED
  BY <1>1, <1>2, <1>3, TypeCorrect, JudgedAlways, PTL DEF Spec
=============================================================================
