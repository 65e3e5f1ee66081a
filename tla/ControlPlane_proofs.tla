--------------------------- MODULE ControlPlane_proofs ---------------------------
(* Machine-checked safety of what elects leaders in the control plane: the *)
(* guard every tool consults, for every set of nodes, lease duration and   *)
(* length of behaviour, and the Lease of the Kubernetes operators, for     *)
(* every number of operators, clusters and resources, every duration of a  *)
(* term, every skew of the clocks and every number of faults.              *)
EXTENDS ControlPlaneConsensus, OperatorLease, TLAPS

(* The lease, while there is one, belongs to the newest term, and every    *)
(* entry of that term was appended by its holder.                          *)
LeaseIsNewest ==
    /\ lease # NoLease => lease.term = term
    /\ \A i \in DOMAIN log :
          /\ log[i].term <= term
          /\ lease # NoLease /\ log[i].term = term
                => log[i].leader_id = lease.leader_id

(* The revision counts the log, and an entry that expected a revision      *)
(* expected the one just before its own.                                   *)
RevisionCountsLog ==
    /\ revision = Len(log)
    /\ \A i \in DOMAIN log : log[i].basis \in {-1, i - 1}

IInv == TypeOK /\ LeaseIsNewest /\ OneLeaderPerTerm /\ RevisionCountsLog

(* Appending one entry: what the longer log holds at every index.          *)
LEMMA AppendFacts ==
    ASSUME NEW S, NEW s \in Seq(S), NEW e \in S
    PROVE  /\ Append(s, e) \in Seq(S)
           /\ Len(Append(s, e)) = Len(s) + 1
           /\ DOMAIN Append(s, e) = 1..(Len(s) + 1)
           /\ DOMAIN s = 1..Len(s)
           /\ Len(s) \in Nat
           /\ \A i \in 1..Len(s) : Append(s, e)[i] = s[i]
           /\ Append(s, e)[Len(s) + 1] = e
  OBVIOUS

(* Every entry of a typed log carries a natural term.                      *)
LEMMA EntriesTyped ==
    ASSUME NEW s \in Seq(ControlPlaneLogEntry)
    PROVE  \A i \in DOMAIN s : s[i].term \in Nat
<1> TAKE i \in DOMAIN s
<1>1. s[i] \in ControlPlaneLogEntry
  OBVIOUS
<1>2. QED
  BY <1>1 DEF ControlPlaneLogEntry

(* A fresh guard has no lease, an empty log and no revision.               *)
LEMMA InitInv == Init => IInv
<1> SUFFICES ASSUME Init PROVE IInv
  OBVIOUS
<1>1. log \in Seq(ControlPlaneLogEntry) /\ Len(log) = 0 /\ DOMAIN log = {}
  BY DEF Init
<1>2. TypeOK
  BY <1>1, VotersAssumption DEF Init, TypeOK
<1>3. QED
  BY <1>1, <1>2 DEF Init, IInv, LeaseIsNewest, OneLeaderPerTerm, RevisionCountsLog

(* A commit appends one entry under the lease of the newest term and       *)
(* raises the revision: the log stays ordered, one leader to a term.       *)
LEMMA AppendEntryInv ==
    ASSUME IInv,
           NEW n \in Nodes, NEW change \in {"config", "membership"},
           NEW nodes \in SUBSET Nodes, NEW basis \in Expectations,
           MayCommit(n, basis), AppendEntry(n, change, nodes, basis),
           term' = term,
           lease' \in {lease, NoLease}
    PROVE  /\ log' \in Seq(ControlPlaneLogEntry)
           /\ revision' \in Nat
           /\ LeaseIsNewest' /\ OneLeaderPerTerm' /\ RevisionCountsLog'
<1> DEFINE e == [revision |-> revision + 1, term |-> lease.term,
                 leader_id |-> n, change_type |-> change,
                 nodes |-> nodes, acks |-> AvailableVoters, basis |-> basis]
<1>1. /\ log \in Seq(ControlPlaneLogEntry) /\ revision \in Nat /\ term \in Nat
      /\ lease \in LeaderLease \cup {NoLease}
      /\ AvailableVoters \in SUBSET Nodes
  BY DEF IInv, TypeOK, AvailableVoters
<1>2. /\ lease # NoLease /\ lease \in LeaderLease /\ lease.leader_id = n
      /\ lease.term = term
      /\ basis \in {-1, revision}
  BY <1>1 DEF MayCommit, LeaseHeldBy, LeaseValid, IInv, LeaseIsNewest
<1>3. basis \in Nat \cup {-1}
  BY <1>1, <1>2
<1>4. e \in ControlPlaneLogEntry
  BY <1>1, <1>2, <1>3 DEF ControlPlaneLogEntry, LeaderLease
<1>5. log' = Append(log, e) /\ revision' = revision + 1
  BY DEF AppendEntry
<1> HIDE DEF e
<1>6. /\ e.term = term /\ e.leader_id = n /\ e.basis = basis
  BY <1>2 DEF e
<1>7. /\ log' \in Seq(ControlPlaneLogEntry)
      /\ Len(log') = Len(log) + 1 /\ Len(log) \in Nat
      /\ DOMAIN log' = 1..(Len(log) + 1) /\ DOMAIN log = 1..Len(log)
      /\ \A i \in 1..Len(log) : log'[i] = log[i]
      /\ log'[Len(log) + 1] = e
  BY <1>1, <1>4, <1>5, AppendFacts
<1>8. \A i \in 1..Len(log) : log[i].term \in Nat
  BY EntriesTyped, <1>7 DEF IInv, TypeOK
<1>9. LeaseIsNewest'
  BY <1>1, <1>2, <1>6, <1>7, <1>8 DEF IInv, LeaseIsNewest
<1>10. OneLeaderPerTerm'
  <2> SUFFICES ASSUME NEW i \in DOMAIN log', NEW j \in DOMAIN log', i < j
               PROVE  /\ log'[i].term <= log'[j].term
                      /\ log'[i].term = log'[j].term
                            => log'[i].leader_id = log'[j].leader_id
    BY DEF OneLeaderPerTerm
  <2>1. CASE j \in 1..Len(log)
    BY <2>1, <1>7 DEF IInv, OneLeaderPerTerm
  <2>2. CASE j = Len(log) + 1
    <3>1. i \in 1..Len(log) /\ log'[i] = log[i] /\ log'[j] = e
      BY <2>2, <1>7
    <3>2. QED
      BY <3>1, <1>2, <1>6, <1>7 DEF IInv, LeaseIsNewest
  <2>3. QED
    BY <2>1, <2>2, <1>7
<1>11. RevisionCountsLog'
  BY <1>2, <1>5, <1>6, <1>7 DEF IInv, RevisionCountsLog
<1>12. QED
  BY <1>1, <1>5, <1>7, <1>9, <1>10, <1>11

(* Every operation, failed membership commits included, keeps the          *)
(* invariant.                                                              *)
LEMMA StepInv == IInv /\ [Next]_vars => IInv'
<1> SUFFICES ASSUME IInv, [Next]_vars PROVE IInv'
  OBVIOUS
<1> USE DEF IInv
<1>1. CASE UNCHANGED vars
  BY <1>1 DEF vars, TypeOK, LeaseIsNewest, OneLeaderPerTerm, RevisionCountsLog
<1>2. CASE Tick
  BY <1>2 DEF Tick, TypeOK, LeaseIsNewest, OneLeaderPerTerm, RevisionCountsLog
<1>3. ASSUME NEW n \in Nodes, NEW up \in BOOLEAN, SetNodeAvailable(n, up)
      PROVE  IInv'
  BY <1>3 DEF SetNodeAvailable, TypeOK, LeaseIsNewest, OneLeaderPerTerm,
              RevisionCountsLog
<1>4. ASSUME NEW n \in Nodes, AcquireLeaderLease(n)
      PROVE  IInv'
  <2>1. lease' \in LeaderLease /\ lease' # NoLease
    BY <1>4, NumbersAssumption, NoLeaseAssumption
       DEF AcquireLeaderLease, AvailableVoters, LeaderLease, TypeOK
  <2>2. TypeOK'
    BY <1>4, <2>1 DEF AcquireLeaderLease, TypeOK
  <2>3. \A i \in DOMAIN log : log[i].term \in Nat
    BY EntriesTyped DEF TypeOK
  <2>4. LeaseIsNewest'
    BY <1>4, <2>3 DEF AcquireLeaderLease, TypeOK, LeaseIsNewest
  <2>5. OneLeaderPerTerm' /\ RevisionCountsLog'
    BY <1>4 DEF AcquireLeaderLease, OneLeaderPerTerm, RevisionCountsLog
  <2>6. QED
    BY <2>2, <2>4, <2>5
<1>5. ASSUME NEW n \in Nodes, NEW basis \in Expectations, CommitConfig(n, basis)
      PROVE  IInv'
  <2>1. /\ log' \in Seq(ControlPlaneLogEntry) /\ revision' \in Nat
        /\ LeaseIsNewest' /\ OneLeaderPerTerm' /\ RevisionCountsLog'
    BY <1>5, AppendEntryInv DEF CommitConfig
  <2>2. QED
    BY <1>5, <2>1 DEF CommitConfig, TypeOK
<1>6. ASSUME NEW n \in Nodes, NEW next \in SUBSET Nodes,
             NEW basis \in Expectations, CommitMembership(n, next, basis)
      PROVE  IInv'
  <2>1. /\ log' \in Seq(ControlPlaneLogEntry) /\ revision' \in Nat
        /\ LeaseIsNewest' /\ OneLeaderPerTerm' /\ RevisionCountsLog'
    BY <1>6, AppendEntryInv DEF CommitMembership, ApplyMembershipPayload
  <2>2. available' \in [next -> BOOLEAN]
    BY <1>6 DEF CommitMembership, ApplyMembershipPayload, TypeOK
  <2>3. QED
    BY <1>6, <2>1, <2>2 DEF CommitMembership, ApplyMembershipPayload, TypeOK
<1>7. ASSUME NEW n \in Nodes, NEW basis \in Expectations,
             CommitBadMembership(n, basis)
      PROVE  IInv'
  <2>1. /\ log' \in Seq(ControlPlaneLogEntry) /\ revision' \in Nat
        /\ LeaseIsNewest' /\ OneLeaderPerTerm' /\ RevisionCountsLog'
    BY <1>7, AppendEntryInv DEF CommitBadMembership
  <2>2. QED
    BY <1>7, <2>1 DEF CommitBadMembership, TypeOK
<1>8. QED
  BY <1>1, <1>2, <1>3, <1>4, <1>5, <1>6, <1>7 DEF Next

(* The inductive invariant holds in every behaviour.                       *)
THEOREM Invariance == Spec => []IInv
<1>1. Init => IInv
  BY InitInv
<1>2. IInv /\ [Next]_vars => IInv'
  BY StepInv
<1>3. QED
  BY <1>1, <1>2, PTL DEF Spec

(* Every reachable state is well typed, whatever the nodes and the lease.  *)
THEOREM TypeCorrect == Spec => []TypeOK
<1>1. IInv => TypeOK
  BY DEF IInv
<1>2. QED
  BY <1>1, Invariance, PTL

(* Terms never fall along the log and one term has one leader.             *)
THEOREM LeadersOrdered == Spec => []OneLeaderPerTerm
<1>1. IInv => OneLeaderPerTerm
  BY DEF IInv
<1>2. QED
  BY <1>1, Invariance, PTL

(* Two commits that name the revision they expect never name the same one. *)
THEOREM UpdatesKept == Spec => []NoLostUpdate
<1>1. IInv => NoLostUpdate
  <2> SUFFICES ASSUME IInv, NEW i \in DOMAIN log, NEW j \in DOMAIN log,
                      i < j, log[i].basis # -1, log[j].basis # -1
               PROVE  log[i].basis < log[j].basis
    BY DEF NoLostUpdate
  <2>1. i \in Int /\ j \in Int
    BY DEF IInv, TypeOK
  <2>2. QED
    BY <2>1 DEF IInv, RevisionCountsLog
<1>2. QED
  BY <1>1, Invariance, PTL

(* Leadership does not change hands while a lease runs: of two nodes, one  *)
(* holding a valid lease before a step, the other cannot hold one after.   *)
THEOREM LeadershipExclusive == Spec => LeaseExclusion
<1>1. IInv /\ [Next]_vars =>
        [ \A m, n \in Nodes :
            m # n /\ LeaseHeldBy(m) => ~ LeaseHeldBy(n)' ]_vars
  <2> SUFFICES ASSUME IInv, [Next]_vars, NEW m \in Nodes, NEW n \in Nodes,
                      m # n, LeaseHeldBy(m)
               PROVE  ~ LeaseHeldBy(n)'
    OBVIOUS
  <2> USE DEF LeaseHeldBy, LeaseValid
  <2>1. CASE UNCHANGED lease
    BY <2>1
  <2>2. ASSUME NEW k \in Nodes, AcquireLeaderLease(k) PROVE ~ LeaseHeldBy(n)'
    BY <2>2 DEF AcquireLeaderLease
  <2>3. ASSUME NEW k \in Nodes, NEW next \in SUBSET Nodes,
               NEW basis \in Expectations, CommitMembership(k, next, basis)
        PROVE  ~ LeaseHeldBy(n)'
    BY <2>3 DEF CommitMembership, ApplyMembershipPayload
  <2>4. QED
    BY <2>1, <2>2, <2>3 DEF Next, vars, Tick, SetNodeAvailable, CommitConfig,
                            CommitBadMembership
<1>2. QED
  BY <1>1, Invariance, PTL DEF Spec, LeaseExclusion
-----------------------------------------------------------------------------
(* Voter sets read off a log: the entries before i that name voters, and   *)
(* the nodes of the last of them.                                          *)
Changes(l, i) == {j \in 1..(i - 1) : l[j].nodes # {}}

LastOf(S) == CHOOSE j \in S : \A k \in S : k <= j

VotersIn(l, i) ==
    IF Changes(l, i) = {} THEN InitialVoters
    ELSE l[LastOf(Changes(l, i))].nodes

(* The entries before i that name voters, if any, have a last one.         *)
HasLast(l, i) ==
    Changes(l, i) = {} \/ \E j \in Changes(l, i) : \A k \in Changes(l, i) : k <= j

ExplainedInv ==
    /\ LogExplainsCommits
    /\ \A i \in 1..(Len(log) + 1) : HasLast(log, i)

(* A longer log tells the same of all indices the shorter one reaches.     *)
LEMMA VotersKept ==
    ASSUME NEW s \in Seq(ControlPlaneLogEntry), NEW m,
           \A i \in 1..Len(s) : m[i] = s[i],
           NEW i \in 1..(Len(s) + 1), HasLast(s, i)
    PROVE  VotersIn(m, i) = VotersIn(s, i) /\ HasLast(m, i)
<1>1. Changes(m, i) = Changes(s, i)
  BY DEF Changes
<1>2. CASE Changes(s, i) = {}
  BY <1>1, <1>2 DEF VotersIn, HasLast
<1>3. CASE Changes(s, i) # {}
  <2> DEFINE c == LastOf(Changes(s, i))
  <2>1. c \in Changes(s, i)
    BY <1>3 DEF HasLast, LastOf
  <2>2. m[c] = s[c]
    BY <2>1 DEF Changes
  <2> HIDE DEF c
  <2>3. VotersIn(s, i) = s[c].nodes /\ VotersIn(m, i) = m[c].nodes
    BY <1>1, <1>3 DEF VotersIn, c
  <2>4. QED
    BY <1>1, <2>2, <2>3 DEF HasLast
<1>4. QED
  BY <1>2, <1>3

(* After an entry, the voters are those it names, or those from before.    *)
LEMMA VotersNext ==
    ASSUME NEW m, NEW n \in Nat, HasLast(m, n + 1)
    PROVE  /\ HasLast(m, n + 2)
           /\ VotersIn(m, n + 2) = IF m[n + 1].nodes = {} THEN VotersIn(m, n + 1)
                                   ELSE m[n + 1].nodes
<1>1. CASE m[n + 1].nodes = {}
  <2>1. Changes(m, n + 2) = Changes(m, n + 1)
    BY <1>1 DEF Changes
  <2>2. HasLast(m, n + 2)
    BY <2>1 DEF HasLast
  <2>3. VotersIn(m, n + 2) = VotersIn(m, n + 1)
    BY <2>1 DEF VotersIn
  <2>4. QED
    BY <1>1, <2>2, <2>3
<1>2. CASE m[n + 1].nodes # {}
  <2>1. n + 1 \in Changes(m, n + 2) /\ \A k \in Changes(m, n + 2) : k \in Int /\ k <= n + 1
    BY <1>2 DEF Changes
  <2> DEFINE c == LastOf(Changes(m, n + 2))
  <2>2. c \in Changes(m, n + 2) /\ \A k \in Changes(m, n + 2) : k <= c
    BY <2>1 DEF LastOf
  <2> HIDE DEF c
  <2>3. c = n + 1
    BY <2>1, <2>2
  <2>4. VotersIn(m, n + 2) = m[c].nodes
    BY <2>1 DEF VotersIn, c
  <2>5. QED
    BY <1>2, <2>1, <2>3, <2>4 DEF HasLast
<1>3. QED
  BY <1>1, <1>2

(* A commit is acknowledged by a majority of the voters of its moment, and *)
(* afterwards the voters are those the log names.                          *)
LEMMA CommitExplained ==
    ASSUME IInv, ExplainedInv,
           NEW n \in Nodes, NEW change \in {"config", "membership"},
           NEW nodes \in SUBSET Nodes, NEW basis \in Expectations,
           MayCommit(n, basis), AppendEntry(n, change, nodes, basis),
           log' \in Seq(ControlPlaneLogEntry),
           voters' = IF nodes = {} THEN voters ELSE nodes
    PROVE  ExplainedInv'
<1> DEFINE e == [revision |-> revision + 1, term |-> lease.term,
                 leader_id |-> n, change_type |-> change,
                 nodes |-> nodes, acks |-> AvailableVoters, basis |-> basis]
<1>1. log \in Seq(ControlPlaneLogEntry) /\ log' = Append(log, e) /\ Len(log) \in Nat
  BY DEF IInv, TypeOK, AppendEntry
<1>2. /\ n \in AvailableVoters /\ AvailableVoters \subseteq voters
      /\ IsMajority(AvailableVoters, voters)
  BY DEF MayCommit, AvailableVoters
<1>3. e.leader_id = n /\ e.nodes = nodes /\ e.acks = AvailableVoters
  OBVIOUS
<1> HIDE DEF e
<1>4. /\ Len(log') = Len(log) + 1
      /\ DOMAIN log' = 1..(Len(log) + 1) /\ DOMAIN log = 1..Len(log)
      /\ \A i \in 1..Len(log) : log'[i] = log[i]
      /\ log'[Len(log) + 1] = e
  BY <1>1
<1>5. \A i : VotersAt(i) = VotersIn(log, i) /\ VotersAt(i)' = VotersIn(log', i)
  BY DEF VotersAt, VotersIn, Changes, LastOf
<1>6. \A i \in 1..(Len(log) + 1) :
         VotersIn(log', i) = VotersIn(log, i) /\ HasLast(log', i)
  <2> DEFINE m == log'
  <2>1. \A i \in 1..Len(log) : m[i] = log[i]
    BY <1>4
  <2> HIDE DEF m
  <2>2. \A i \in 1..(Len(log) + 1) : VotersIn(m, i) = VotersIn(log, i) /\ HasLast(m, i)
    BY <1>1, <2>1, VotersKept DEF ExplainedInv
  <2>3. QED
    BY <2>2 DEF m
<1>7. /\ voters = VotersIn(log, Len(log) + 1)
      /\ \A i \in DOMAIN log :
            /\ log[i].leader_id \in log[i].acks
            /\ log[i].acks \subseteq VotersIn(log, i)
            /\ IsMajority(log[i].acks, VotersIn(log, i))
  BY <1>5 DEF ExplainedInv, LogExplainsCommits
<1>8. /\ HasLast(log', Len(log) + 2)
      /\ VotersIn(log', Len(log) + 2) = voters'
  <2>1. VotersIn(log', Len(log) + 1) = voters /\ HasLast(log', Len(log) + 1)
    BY <1>1, <1>6, <1>7
  <2>2. /\ HasLast(log', Len(log) + 2)
        /\ VotersIn(log', Len(log) + 2) =
              IF log'[Len(log) + 1].nodes = {} THEN VotersIn(log', Len(log) + 1)
              ELSE log'[Len(log) + 1].nodes
    BY <1>1, <2>1, VotersNext, Zenon
  <2>3. QED
    BY <1>3, <1>4, <2>1, <2>2
<1>9. \A i \in 1..(Len(log') + 1) : HasLast(log', i)
  BY <1>1, <1>4, <1>6, <1>8
<1>10. ASSUME NEW i \in DOMAIN log'
       PROVE  /\ log'[i].leader_id \in log'[i].acks
              /\ log'[i].acks \subseteq VotersIn(log', i)
              /\ IsMajority(log'[i].acks, VotersIn(log', i))
  <2>1. CASE i \in DOMAIN log
    BY <1>1, <1>4, <1>6, <1>7, <2>1
  <2>2. CASE i = Len(log) + 1
    BY <1>1, <1>2, <1>3, <1>4, <1>6, <1>7, <2>2
  <2>3. QED
    BY <1>1, <1>4, <2>1, <2>2
<1>11. voters' = VotersIn(log', Len(log') + 1)
  BY <1>1, <1>4, <1>8
<1>12. LogExplainsCommits'
  BY <1>5, <1>10, <1>11 DEF LogExplainsCommits, IsMajority
<1>13. QED
  BY <1>9, <1>12 DEF ExplainedInv, HasLast, Changes

(* The log alone explains the guard, whatever memberships it went through  *)
(* and whatever payloads were refused after they were logged.              *)
THEOREM LogExplains == Spec => []LogExplainsCommits
<1>1. Init => ExplainedInv
  <2> SUFFICES ASSUME Init PROVE ExplainedInv
    OBVIOUS
  <2>1. log = << >> /\ Len(log) = 0 /\ DOMAIN log = {} /\ voters = InitialVoters
    BY DEF Init
  <2>2. Changes(log, 1) = {} /\ VotersAt(1) = InitialVoters
    BY DEF Changes, VotersAt
  <2>3. QED
    BY <2>1, <2>2 DEF ExplainedInv, LogExplainsCommits, HasLast
<1>2. IInv /\ IInv' /\ ExplainedInv /\ [Next]_vars => ExplainedInv'
  <2> SUFFICES ASSUME IInv, IInv', ExplainedInv, [Next]_vars PROVE ExplainedInv'
    OBVIOUS
  <2>1. log' \in Seq(ControlPlaneLogEntry)
    BY DEF IInv, TypeOK
  <2>2. CASE log' = log /\ voters' = voters
    <3>1. \A i : VotersAt(i) = VotersIn(log, i) /\ VotersAt(i)' = VotersIn(log', i)
      BY DEF VotersAt, VotersIn, Changes, LastOf
    <3>2. LogExplainsCommits'
      BY <2>2, <3>1 DEF ExplainedInv, LogExplainsCommits, IsMajority
    <3>3. QED
      BY <2>2, <3>2, Zenon DEF ExplainedInv, HasLast, Changes
  <2>3. ASSUME NEW n \in Nodes, NEW basis \in Expectations,
               CommitConfig(n, basis) \/ CommitBadMembership(n, basis)
        PROVE  ExplainedInv'
    BY <2>1, <2>3, CommitExplained DEF CommitConfig, CommitBadMembership
  <2>4. ASSUME NEW n \in Nodes, NEW next \in SUBSET Nodes, NEW basis \in Expectations,
               CommitMembership(n, next, basis)
        PROVE  ExplainedInv'
    BY <2>1, <2>4, CommitExplained DEF CommitMembership, ApplyMembershipPayload
  <2>5. QED
    BY <2>2, <2>3, <2>4 DEF Next, vars, Tick, SetNodeAvailable, AcquireLeaderLease
<1>3. ExplainedInv => LogExplainsCommits
  BY DEF ExplainedInv
<1>4. QED
  BY <1>1, <1>2, <1>3, Invariance, PTL DEF Spec

-----------------------------------------------------------------------------
(* The Lease of the Kubernetes operators.                                  *)

(* Where a pass writes.                                                    *)
Passing == {"apply", "create", "status"}

(* In a pass the operator is at an item of a cluster of its list.          *)
PassTyped ==
    \A o \in Operators :
        /\ op[o].at \in Passing =>
              /\ op[o].list \in [Clusters -> Specs]
              /\ op[o].cluster \in Clusters /\ op[o].item \in Items
        /\ op[o].at = "idle" => op[o].age = 0

(* The types, with those of a pass.                                        *)
OperatorType == OperatorTypeOK /\ PassTyped

(* An election ends in time; one that may write the Lease it read still    *)
(* may take it, and its timestamp is no older than its own last one.       *)
ElectionInTime ==
    \A o \in Operators :
        /\ op[o].at \in Electing =>
              /\ op[o].age <= Patience
              /\ kubeLease.holder = o => op[o].age - Offset(o) <= kubeLease.age
        /\ op[o].at = "put" => kubeLease.holder # Nobody
        /\ op[o].at = "put" /\ op[o].fresh => MayLead(o)

(* The Lease a leader still holds is as old as its timestamp; once another *)
(* has it, that one's timestamp is a whole Duration behind.                *)
TermCounted ==
    \A o \in Operators : Leads(o) =>
        /\ kubeLease.holder # Nobody
        /\ op[o].age < Cap =>
              IF kubeLease.holder = o
              THEN kubeLease.age = op[o].age - Offset(o)
              ELSE kubeLease.age + Duration <= op[o].age - Offset(o)

(* A Lease is not stamped ahead of its holder's clock.                     *)
NotFromFuture ==
    kubeLease.holder # Nobody => kubeLease.age >= -Offset(kubeLease.holder)

(* A term is respected.                                                    *)
TermInv == ElectionInTime /\ TermCounted /\ NotFromFuture

(* Nothing is listed or written from a spec newer than the last.           *)
SpecsNewest ==
    \A c \in Clusters :
        /\ status[c] <= spec[c].version
        /\ \A i \in Items : objects[c][i] <= spec[c].version
        /\ \A o \in Operators :
              op[o].at \in Passing => op[o].list[c].version <= spec[c].version

(* A leader nobody overlapped is the only one.                             *)
AloneLeads ==
    \A o, p \in Operators : Leads(o) /\ op[o].alone /\ Leads(p) => o = p

(* The list of a leader nobody overlapped is newer than all it may find.   *)
ListNewest ==
    \A o \in Operators, c \in Clusters :
        op[o].at \in Passing /\ op[o].alone =>
            /\ status[c] <= op[o].list[c].version
            /\ \A i \in Items : objects[c][i] <= op[o].list[c].version

(* Nothing goes back.                                                      *)
WriteInv == SpecsNewest /\ AloneLeads /\ ListNewest

OperatorInv == OperatorType /\ TermInv /\ WriteInv

(* What a step may write: o puts versions of its list.                     *)
WritesList(o) ==
    /\ op[o].at \in Passing
    /\ \A c \in Clusters :
          /\ status'[c] \in {status[c], op[o].list[c].version}
          /\ \A i \in Items : objects'[c][i] \in {objects[c][i], op[o].list[c].version}

(* The record of an operator, as OperatorTypeOK has it.                    *)
Records ==
    [at : Electing \cup Leading \cup {"idle", "raised", "gone"},
     age : 0..Cap, fresh : BOOLEAN, list : {<< >>} \cup [Clusters -> Specs],
     cluster : Clusters \cup {0}, item : Items \cup {0}, alone : BOOLEAN]

(* The types of the operators, and of all the rest.                        *)
OpTyped == op \in [Operators -> Records] /\ PassTyped

WorldTyped ==
    /\ kubeLease \in [holder : Operators \cup {Nobody}, age : -Skew..Cap]
    /\ spec \in [Clusters -> Specs]
    /\ objects \in [Clusters -> [Items -> 0..(MaxEdits + 1)]]
    /\ status \in [Clusters -> 0..(MaxEdits + 1)]
    /\ faults \in 0..MaxFaults

(* The constants are numbers, and the sets of indices are intervals.       *)
LEMMA Numbers ==
    /\ ClusterCount \in Nat /\ ItemCount \in Nat /\ ItemCount > 0
    /\ Duration \in Nat /\ Duration > 0 /\ Patience \in Nat /\ Patience > 0
    /\ Skew \in Nat /\ Cap = Duration + Patience + Skew /\ Cap \in Nat
    /\ MaxEdits \in Nat /\ MaxFaults \in Nat
    /\ \A o \in Operators : Offset(o) \in Nat /\ Offset(o) <= Skew
  BY OperatorAssumption DEF Cap, Offset

(* Records stay records when a field takes another value of its set.       *)
LEMMA StoppedTyped ==
    ASSUME NEW r \in Records, NEW a \in {"raised", "idle", "gone"}, NEW age \in 0..Cap
    PROVE  [r EXCEPT !.at = a, !.age = age, !.fresh = FALSE] \in Records
  BY DEF Records

(* So is that of one whose process has ended.                              *)
LEMMA RaisedTyped ==
    ASSUME NEW o \in Operators, op[o] \in Records
    PROVE  Raised(o) \in Records /\ Raised(o).at = "raised" /\ ~Raised(o).fresh
<1>1. 0 \in 0..Cap
  BY Numbers
<1>2. Raised(o) \in Records
  BY <1>1, StoppedTyped DEF Raised
<1>3. Raised(o).at = "raised" /\ ~Raised(o).fresh
  BY DEF Raised, Records
<1>4. QED
  BY <1>2, <1>3

(* An operator at another place.                                          *)
LEMMA PlaceTyped ==
    ASSUME NEW r \in Records, NEW a \in Electing \cup Leading
    PROVE  [r EXCEPT !.at = a] \in Records
  BY DEF Records

(* An operator at an item of a cluster of its list.                        *)
LEMMA PassRecord ==
    ASSUME NEW r \in Records, NEW list \in [Clusters -> Specs],
           NEW c \in Clusters, NEW i \in Items
    PROVE  [r EXCEPT !.at = "apply", !.list = list, !.cluster = c, !.item = i]
              \in Records
  BY DEF Records, Leading

(* The record of an operator that waits is typed.                          *)
LEMMA IdleTyped == Idle \in Records
  BY Numbers DEF Idle, Records

(* A step that moves one operator to a well-typed record keeps all typed.  *)
LEMMA MoveTyped ==
    ASSUME OperatorType, NEW o \in Operators, NEW to \in Records, Move(o, to),
           to.at \in Passing =>
              /\ to.list \in [Clusters -> Specs]
              /\ to.cluster \in Clusters /\ to.item \in Items,
           to.at = "idle" => to.age = 0
    PROVE  OpTyped'
  BY DEF OperatorType, OperatorTypeOK, PassTyped, Move, Records, OpTyped

(* An operator goes on to another place of its election or its pass.       *)
LEMMA GotoTyped ==
    ASSUME OperatorType, NEW o \in Operators, NEW place \in Electing \cup Leading,
           Goto(o, place), place \in Passing => op[o].at \in Passing
    PROVE  OpTyped'
<1> DEFINE to == [op[o] EXCEPT !.at = place]
<1>1. op[o] \in Records
  BY DEF OperatorType, OperatorTypeOK, Records
<1>2. /\ to \in Records /\ to.at = place /\ to.list = op[o].list
      /\ to.cluster = op[o].cluster /\ to.item = op[o].item
  BY <1>1, PlaceTyped DEF Records
<1>3. Move(o, to)
  BY DEF Goto
<1> HIDE DEF to
<1>4. QED
  BY <1>2, <1>3, MoveTyped DEF OperatorType, PassTyped, Electing, Leading

(* An operator goes back to waiting, or its process ends.                  *)
LEMMA StopTyped ==
    ASSUME OperatorType, NEW o \in Operators, Move(o, Idle) \/ Move(o, Raised(o))
    PROVE  OpTyped'
<1>1. op[o] \in Records
  BY DEF OperatorType, OperatorTypeOK, Records
<1>2. CASE Move(o, Idle)
  BY <1>2, IdleTyped, MoveTyped DEF Idle, Passing
<1>3. CASE Move(o, Raised(o))
  BY <1>1, <1>3, RaisedTyped, MoveTyped DEF Passing
<1>4. QED
  BY <1>2, <1>3

(* An operator reaches the next cluster of its list, or the end of it.     *)
LEMMA ReachTyped ==
    ASSUME OperatorType, NEW o \in Operators, NEW list \in [Clusters -> Specs],
           NEW c \in Nat, c > 0, op[o].at \in {"list", "status"}, Reach(o, list, c)
    PROVE  OpTyped'
<1>1. op[o] \in Records
  BY DEF OperatorType, OperatorTypeOK, Records
<1>2. CASE c \notin Clusters
  BY <1>2, IdleTyped, MoveTyped DEF Reach, Idle, Passing
<1>3. CASE c \in Clusters /\ list[c].valid
  <2> DEFINE to == [op[o] EXCEPT !.at = "apply", !.list = list, !.cluster = c, !.item = 1]
  <2>3. 1 \in Items
    BY Numbers DEF Items
  <2>1. to \in Records /\ to.at = "apply" /\ to.list = list /\ to.cluster = c /\ to.item = 1
    BY <1>1, <1>3, <2>3, PassRecord DEF Records
  <2>2. Move(o, to)
    BY <1>3 DEF Reach
  <2> HIDE DEF to
  <2>4. QED
    BY <2>1, <2>2, <2>3, <1>3, MoveTyped
<1>4. CASE c \in Clusters /\ ~list[c].valid
  <2>1. Raised(o) \in Records /\ Raised(o).at = "raised"
    BY <1>1, RaisedTyped
  <2>2. Move(o, Raised(o))
    BY <1>4 DEF Reach
  <2>3. QED
    BY <2>1, <2>2, MoveTyped DEF Passing
<1>5. QED
  BY <1>2, <1>3, <1>4

(* The variables are typed in the first state.                             *)
LEMMA OperatorTypeInit == OperatorInit => OperatorType
<1>1. SUFFICES ASSUME OperatorInit PROVE OperatorType
  OBVIOUS
<1>2. kubeLease \in [holder : Operators \cup {Nobody}, age : -Skew..Cap]
  BY <1>1, Numbers DEF OperatorInit
<1>3. /\ spec \in [Clusters -> Specs]
      /\ objects \in [Clusters -> [Items -> 0..(MaxEdits + 1)]]
      /\ status \in [Clusters -> 0..(MaxEdits + 1)]
      /\ faults \in 0..MaxFaults
  BY <1>1, Numbers DEF OperatorInit, Specs, Versions
<1>4. OpTyped
  BY <1>1, IdleTyped DEF OperatorInit, PassTyped, Idle, Passing, OpTyped
<1>5. QED
  BY <1>2, <1>3, <1>4 DEF OperatorType, OperatorTypeOK, Records, OpTyped

(* The Lease is granted to one, and the others notice.                     *)
LEMMA GrantTyped ==
    ASSUME OperatorType, NEW o \in Operators, NEW to \in Records, Grant(o, to),
           to.at \in {"list", "raised"}
    PROVE  /\ OpTyped'
           /\ kubeLease' \in [holder : Operators \cup {Nobody}, age : -Skew..Cap]
<1>1. op \in [Operators -> Records]
  BY DEF OperatorType, OperatorTypeOK, Records
<1>2. ASSUME NEW p \in Operators, p # o
      PROVE  /\ op'[p] \in Records
             /\ op'[p].at = op[p].at /\ op'[p].age = op[p].age
             /\ op'[p].list = op[p].list /\ op'[p].cluster = op[p].cluster
             /\ op'[p].item = op[p].item
  <2>1. op'[p] = [op[p] EXCEPT !.fresh = FALSE,
                               !.alone = @ /\ (Leads(p) => to.at # "list")]
    BY <1>2 DEF Grant
  <2>2. op[p] \in Records /\ op[p].alone \in BOOLEAN
    BY <1>1 DEF Records
  <2>3. QED
    BY <2>1, <2>2 DEF Records
<1>3. op'[o] = to
  BY DEF Grant
<1>4. op' \in [Operators -> Records]
  BY <1>2, <1>3 DEF Grant
<1>5. PassTyped'
  BY <1>2, <1>3 DEF OperatorType, PassTyped, Passing
<1>6. op[o].age - Offset(o) \in -Skew..Cap
  BY <1>1, Numbers DEF Records
<1>7. QED
  BY <1>4, <1>5, <1>6 DEF Grant, OpTyped

(* Objects and statuses are only written from a version of a list.         *)
LEMMA WriteTyped ==
    ASSUME OperatorType, NEW o \in Operators
    PROVE  /\ WriteObject(o) =>
                 /\ objects' \in [Clusters -> [Items -> 0..(MaxEdits + 1)]]
                 /\ op[o].at \in Passing
           /\ WriteStatus(o) =>
                 /\ status' \in [Clusters -> 0..(MaxEdits + 1)]
                 /\ op[o].at \in Passing
<1>1. op[o].at \in Passing => Version(o) \in 0..(MaxEdits + 1)
  BY Numbers DEF OperatorType, PassTyped, Version, Specs, Versions
<1>2. /\ objects \in [Clusters -> [Items -> 0..(MaxEdits + 1)]]
      /\ status \in [Clusters -> 0..(MaxEdits + 1)]
      /\ op[o].at \in Passing => op[o].cluster \in Clusters /\ op[o].item \in Items
  BY DEF OperatorType, OperatorTypeOK, PassTyped
<1>3. QED
  BY <1>1, <1>2 DEF WriteObject, WriteStatus, Passing

(* An operator goes on to the next resource of its cluster.                *)
LEMMA NextItemTyped ==
    ASSUME OperatorType, NEW o \in Operators, op[o].at \in Passing, NextItem(o)
    PROVE  OpTyped'
<1>1. op[o] \in Records
  BY DEF OperatorType, OperatorTypeOK, Records
<1>2. /\ op[o].list \in [Clusters -> Specs]
      /\ op[o].cluster \in Clusters /\ op[o].item \in Items
  BY DEF OperatorType, PassTyped
<1>3. CASE op[o].item + 1 \in Items
  <2> DEFINE to == [op[o] EXCEPT !.item = @ + 1, !.at = "apply"]
  <2>1. /\ to \in Records /\ to.at = "apply" /\ to.list = op[o].list
        /\ to.cluster = op[o].cluster /\ to.item = op[o].item + 1
    BY <1>1, <1>3 DEF Records, Leading
  <2>2. Move(o, to)
    BY <1>3 DEF NextItem
  <2> HIDE DEF to
  <2>3. QED
    BY <2>1, <2>2, <1>2, <1>3, MoveTyped
<1>4. CASE op[o].item + 1 \notin Items
  <2> DEFINE to == [op[o] EXCEPT !.at = "status"]
  <2>1. /\ to \in Records /\ to.at = "status" /\ to.list = op[o].list
        /\ to.cluster = op[o].cluster /\ to.item = op[o].item
    BY <1>1 DEF Records, Leading
  <2>2. Move(o, to)
    BY <1>4 DEF NextItem, Goto
  <2> HIDE DEF to
  <2>3. QED
    BY <2>1, <2>2, <1>2, MoveTyped
<1>5. QED
  BY <1>3, <1>4

(* Every step keeps the types.                                             *)
LEMMA OperatorTypeStep ==
    ASSUME OperatorType, [OperatorNext]_operatorVars
    PROVE  OperatorType'
<1>1. WorldTyped /\ OpTyped
  BY DEF OperatorType, OperatorTypeOK, Records, WorldTyped, OpTyped
<1>2. SUFFICES WorldTyped' /\ OpTyped'
  BY DEF OperatorType, OperatorTypeOK, Records, WorldTyped, OpTyped
<1>3. ASSUME NEW o \in Operators, Begin(o) PROVE WorldTyped' /\ OpTyped'
  BY <1>1, <1>3, GotoTyped DEF Begin, WorldTyped, Electing, Passing
<1>4. ASSUME NEW o \in Operators, Get(o) PROVE WorldTyped' /\ OpTyped'
  <2>1. op[o] \in Records
    BY <1>1 DEF OpTyped
  <2>2. CASE Move(o, [op[o] EXCEPT !.at = "put", !.fresh = TRUE])
    <3> DEFINE to == [op[o] EXCEPT !.at = "put", !.fresh = TRUE]
    <3>1. to \in Records /\ to.at = "put"
      BY <2>1 DEF Records, Electing
    <3>2. Move(o, to)
      BY <2>2
    <3> HIDE DEF to
    <3>3. QED
      BY <1>1, <1>4, <3>1, <3>2, MoveTyped DEF Get, WorldTyped, Passing
  <2>3. CASE Move(o, [op[o] EXCEPT !.at = "post"])
    BY <1>1, <1>4, <2>3, GotoTyped DEF Get, WorldTyped, Goto, Electing, Passing
  <2>4. CASE Move(o, Idle)
    BY <1>1, <1>4, <2>4, StopTyped DEF Get, WorldTyped
  <2>5. QED
    BY <1>4, <2>2, <2>3, <2>4 DEF Get
<1>5. ASSUME NEW o \in Operators, WriteLease(o) PROVE WorldTyped' /\ OpTyped'
  <2> DEFINE to == [op[o] EXCEPT !.at = "list", !.fresh = FALSE,
                        !.alone = \A p \in Operators \ {o} : ~Leads(p)]
  <2>1. op[o] \in Records
    BY <1>1 DEF OpTyped
  <2>2. to \in Records /\ to.at = "list"
    BY <2>1 DEF Records, Leading
  <2>3. Grant(o, to)
    BY <1>5 DEF WriteLease
  <2> HIDE DEF to
  <2>4. QED
    BY <1>1, <1>5, <2>2, <2>3, GrantTyped DEF WriteLease, WorldTyped
<1>6. ASSUME NEW o \in Operators, Conflict(o) PROVE WorldTyped' /\ OpTyped'
  BY <1>1, <1>6, StopTyped DEF Conflict, WorldTyped
<1>7. ASSUME NEW o \in Operators, ListClusters(o) PROVE WorldTyped' /\ OpTyped'
  BY <1>1, <1>7, ReachTyped DEF ListClusters, WorldTyped
<1>8. ASSUME NEW o \in Operators, Apply(o) PROVE WorldTyped' /\ OpTyped'
  BY <1>1, <1>8, WriteTyped, NextItemTyped DEF Apply, WorldTyped
<1>9. ASSUME NEW o \in Operators, Refused(o) PROVE WorldTyped' /\ OpTyped'
  BY <1>1, <1>9, GotoTyped, StopTyped DEF Refused, WorldTyped, Leading, Passing
<1>10. ASSUME NEW o \in Operators, PatchStatus(o) PROVE WorldTyped' /\ OpTyped'
  <2>1. /\ op[o].list \in [Clusters -> Specs] /\ op[o].cluster + 1 \in Nat
        /\ op[o].cluster + 1 > 0
    BY <1>1, <1>10, Numbers DEF PatchStatus, WriteStatus, OpTyped, PassTyped,
       Passing, Clusters
  <2>2. QED
    BY <1>1, <1>10, <2>1, WriteTyped, ReachTyped
       DEF PatchStatus, WriteStatus, WorldTyped
<1>11. ASSUME NEW o \in Operators, Restart(o) PROVE WorldTyped' /\ OpTyped'
  BY <1>1, <1>11, StopTyped DEF Restart, WorldTyped
<1>12. ASSUME NEW o \in Operators, Raise(o) PROVE WorldTyped' /\ OpTyped'
  BY <1>1, <1>12, StopTyped, Numbers DEF Raise, Fault, WorldTyped
<1>13. ASSUME NEW o \in Operators, RaiseAfter(o) PROVE WorldTyped' /\ OpTyped'
  <2>1. faults' \in 0..MaxFaults /\ spec' = spec
    BY <1>1, <1>13, Numbers DEF RaiseAfter, Fault, WorldTyped
  <2>2. CASE Grant(o, Raised(o)) /\ UNCHANGED <<objects, status>>
    BY <1>1, <2>1, <2>2, RaisedTyped, GrantTyped DEF WorldTyped, OpTyped
  <2>3. CASE WriteObject(o) /\ Move(o, Raised(o)) /\ UNCHANGED <<kubeLease, status>>
    BY <1>1, <2>1, <2>3, StopTyped, WriteTyped DEF WorldTyped
  <2>4. CASE WriteStatus(o) /\ Move(o, Raised(o)) /\ UNCHANGED <<kubeLease, objects>>
    BY <1>1, <2>1, <2>4, StopTyped, WriteTyped DEF WorldTyped
  <2>5. QED
    BY <1>13, <2>2, <2>3, <2>4 DEF RaiseAfter
<1>14. ASSUME NEW o \in Operators, Lose(o) PROVE WorldTyped' /\ OpTyped'
  <2> DEFINE to == [Idle EXCEPT !.at = "gone"]
  <2>1. to \in Records /\ to.at = "gone"
    BY IdleTyped DEF Records
  <2>2. Move(o, to)
    BY <1>14 DEF Lose
  <2> HIDE DEF to
  <2>3. QED
    BY <1>1, <1>14, <2>1, <2>2, MoveTyped, Numbers
       DEF Lose, Fault, WorldTyped, Passing
<1>15. ASSUME NEW c \in Clusters, NEW valid \in BOOLEAN, Edit(c, valid)
       PROVE  WorldTyped' /\ OpTyped'
  <2>1. [version |-> spec[c].version + 1, valid |-> valid] \in Specs
    BY <1>15, Numbers DEF Edit, Specs, Versions
  <2>2. spec' \in [Clusters -> Specs]
    BY <1>1, <1>15, <2>1 DEF Edit, WorldTyped
  <2>3. QED
    BY <1>1, <1>15, <2>2 DEF Edit, WorldTyped, OpTyped, PassTyped
<1>16. CASE Elapse
  <2>1. \A a \in 0..Cap : Older(a) \in 0..Cap
    BY Numbers DEF Older
  <2>2. kubeLease' \in [holder : Operators \cup {Nobody}, age : -Skew..Cap]
    <3>1. kubeLease.age \in -Skew..Cap
      BY <1>1 DEF WorldTyped
    <3>2. Older(kubeLease.age) \in -Skew..Cap /\ 0 \in -Skew..Cap
      BY <3>1, Numbers DEF Older
    <3>3. QED
      BY <1>1, <1>16, <3>2 DEF Elapse, WorldTyped
  <2>3. ASSUME NEW o \in Operators
        PROVE  /\ op'[o] \in Records /\ op'[o].at = op[o].at
               /\ op'[o].list = op[o].list /\ op'[o].cluster = op[o].cluster
               /\ op'[o].item = op[o].item
               /\ op[o].at = "idle" => op'[o] = op[o]
    <3>1. op[o] \in Records /\ op[o].age \in 0..Cap
      BY <1>1 DEF OpTyped, Records
    <3>2. op'[o] = [op[o] EXCEPT !.age = Older(@)] \/ op'[o] = op[o]
      BY <1>16 DEF Elapse
    <3>3. QED
      BY <1>16, <2>1, <3>1, <3>2 DEF Records, Elapse, Electing, Leading
  <2>4. OpTyped'
    BY <1>1, <1>16, <2>3 DEF OpTyped, PassTyped, Passing, Elapse
  <2>5. QED
    BY <1>1, <1>16, <2>2, <2>4 DEF Elapse, WorldTyped
<1>17. CASE UNCHANGED operatorVars
  BY <1>1, <1>17 DEF operatorVars, WorldTyped, OpTyped, PassTyped
<1>18. QED
  BY <1>3, <1>4, <1>5, <1>6, <1>7, <1>8, <1>9, <1>10, <1>11, <1>12, <1>13,
     <1>14, <1>15, <1>16, <1>17
     DEF OperatorNext, Step

(* Nobody leads in the first state.                                        *)
LEMMA TermInit == OperatorInit => TermInv
  BY DEF OperatorInit, TermInv, ElectionInTime, TermCounted, NotFromFuture,
     Idle, Electing, Leading, Leads

(* A step that leaves the Lease alone and moves one operator keeps the     *)
(* terms, if that one does not come to lead or to elect out of time.       *)
LEMMA MoveTerm ==
    ASSUME OperatorType, TermInv, NEW o \in Operators, NEW to \in Records,
           Move(o, to), kubeLease' = kubeLease,
           to.at \in Electing =>
              /\ to.age <= Patience
              /\ kubeLease.holder = o => to.age - Offset(o) <= kubeLease.age,
           to.at = "put" => kubeLease.holder # Nobody,
           to.at = "put" /\ to.fresh =>
              kubeLease.holder = o \/ kubeLease.age - to.age + Offset(o) >= Duration,
           to.at \in Leading => Leads(o) /\ to.age = op[o].age
    PROVE  TermInv'
<1>1. op'[o] = to /\ \A p \in Operators \ {o} : op'[p] = op[p]
  BY DEF OperatorType, OperatorTypeOK, Move
<1>2. ElectionInTime'
  BY <1>1 DEF TermInv, ElectionInTime, MayLead, Expired, Offset
<1>3. TermCounted'
  BY <1>1 DEF TermInv, TermCounted, Leads, Offset
<1>4. NotFromFuture'
  BY DEF TermInv, NotFromFuture, Offset
<1>5. QED
  BY <1>2, <1>3, <1>4 DEF TermInv

(* Who stops has no term to respect.                                       *)
LEMMA StopTerm ==
    ASSUME OperatorType, TermInv, NEW o \in Operators,
           Move(o, Idle) \/ Move(o, Raised(o)), kubeLease' = kubeLease
    PROVE  TermInv'
<1>1. op[o] \in Records
  BY DEF OperatorType, OperatorTypeOK, Records
<1>2. CASE Move(o, Idle)
  <2>1. Idle.at = "idle"
    BY DEF Idle
  <2>2. QED
    BY <1>2, <2>1, IdleTyped, MoveTerm DEF Electing, Leading
<1>3. CASE Move(o, Raised(o))
  BY <1>1, <1>3, RaisedTyped, MoveTerm DEF Electing, Leading
<1>4. QED
  BY <1>2, <1>3

(* Within a pass, the time of its election stays.                          *)
LEMMA GotoTerm ==
    ASSUME OperatorType, TermInv, NEW o \in Operators, NEW place \in Leading,
           Goto(o, place), Leads(o), kubeLease' = kubeLease
    PROVE  TermInv'
<1> DEFINE to == [op[o] EXCEPT !.at = place]
<1>1. op[o] \in Records
  BY DEF OperatorType, OperatorTypeOK, Records
<1>2. to \in Records /\ to.at = place /\ to.age = op[o].age
  BY <1>1, PlaceTyped DEF Records
<1>3. Move(o, to)
  BY DEF Goto
<1> HIDE DEF to
<1>4. QED
  BY <1>2, <1>3, MoveTerm DEF Electing, Leading

(* The same where it goes to an item of a cluster.                         *)
LEMMA PassTerm ==
    ASSUME OperatorType, TermInv, NEW o \in Operators, Leads(o),
           NEW list \in [Clusters -> Specs], NEW c \in Clusters, NEW i \in Items,
           Move(o, [op[o] EXCEPT !.at = "apply", !.list = list, !.cluster = c,
                                 !.item = i]),
           kubeLease' = kubeLease
    PROVE  TermInv'
<1> DEFINE to == [op[o] EXCEPT !.at = "apply", !.list = list, !.cluster = c,
                               !.item = i]
<1>1. op[o] \in Records
  BY DEF OperatorType, OperatorTypeOK, Records
<1>2. to \in Records /\ to.at = "apply" /\ to.age = op[o].age
  BY <1>1, PassRecord DEF Records
<1> HIDE DEF to
<1>4. QED
  BY <1>2, MoveTerm DEF Electing, Leading, to

(* The same where a pass reaches a cluster.                                *)
LEMMA ReachTerm ==
    ASSUME OperatorType, TermInv, NEW o \in Operators, Leads(o),
           NEW list \in [Clusters -> Specs], NEW c \in Nat, Reach(o, list, c),
           kubeLease' = kubeLease
    PROVE  TermInv'
<1>1. 1 \in Items
  BY Numbers DEF Items
<1>2. QED
  BY <1>1, StopTerm, PassTerm DEF Reach

(* The Lease is granted: whoever leads besides was a Duration behind it.   *)
LEMMA GrantTerm ==
    ASSUME OperatorType, TermInv, NEW o \in Operators, NEW to \in Records,
           Unchanged(o), Grant(o, to),
           to.at \in {"list", "raised"},
           to.at = "list" => to.age = op[o].age
    PROVE  TermInv'
<1>1. op \in [Operators -> Records] /\ kubeLease.age \in Int
  BY DEF OperatorType, OperatorTypeOK, Records
<1>2. /\ op[o].age \in 0..Cap /\ op[o].age <= Patience /\ op[o].at \in {"put", "post"}
      /\ kubeLease.holder = o => op[o].age - Offset(o) <= kubeLease.age
  BY <1>1 DEF Unchanged, TermInv, ElectionInTime, Electing, Records
<1>3. /\ kubeLease'.holder = o /\ kubeLease'.age = op[o].age - Offset(o)
      /\ op'[o] = to
  BY DEF Grant
<1>4. ASSUME NEW p \in Operators, p # o
      PROVE  op'[p].at = op[p].at /\ op'[p].age = op[p].age /\ ~op'[p].fresh
  <2>1. op'[p] = [op[p] EXCEPT !.fresh = FALSE,
                               !.alone = @ /\ (Leads(p) => to.at # "list")]
    BY <1>4 DEF Grant
  <2>2. QED
    BY <1>1, <2>1 DEF Records
<1>5. ElectionInTime'
  BY <1>3, <1>4, OperatorAssumption DEF TermInv, ElectionInTime, Electing
<1>6. ASSUME NEW p \in Operators, Leads(p)', op'[p].age < Cap
      PROVE  IF p = o THEN kubeLease'.age = op'[p].age - Offset(p)
                      ELSE kubeLease'.age + Duration <= op'[p].age - Offset(p)
  <2>1. CASE p = o
    BY <1>3, <1>6, <2>1 DEF Leads, Leading
  <2>2. CASE p # o
    <3>1. Leads(p) /\ op[p].age < Cap /\ op'[p].age = op[p].age
      BY <1>4, <1>6, <2>2 DEF Leads
    <3>2. op[o].at = "put" /\ op[o].fresh /\ MayLead(o)
      BY <3>1 DEF TermInv, TermCounted, ElectionInTime, Unchanged
    <3>3. IF kubeLease.holder = p
          THEN kubeLease.age = op[p].age - Offset(p)
          ELSE kubeLease.age + Duration <= op[p].age - Offset(p)
      BY <3>1 DEF TermInv, TermCounted
    <3>4. CASE kubeLease.holder = o
      BY <1>1, <1>2, <1>3, <2>2, <3>1, <3>3, <3>4, Numbers DEF Records
    <3>5. CASE Expired(o)
      BY <1>1, <1>2, <1>3, <2>2, <3>1, <3>3, <3>5, Numbers DEF Records, Expired
    <3>6. QED
      BY <3>2, <3>4, <3>5 DEF MayLead
  <2>3. QED
    BY <2>1, <2>2
<1>7. TermCounted'
  BY <1>3, <1>6, OperatorAssumption DEF TermCounted, Offset
<1>8. NotFromFuture'
  BY <1>2, <1>3, Numbers DEF NotFromFuture, Offset
<1>9. QED
  BY <1>5, <1>7, <1>8 DEF TermInv

(* Time goes on for the Lease and for the timestamps alike.                *)
LEMMA ElapseTerm ==
    ASSUME OperatorType, TermInv, Elapse
    PROVE  TermInv'
<1>1. op \in [Operators -> Records] /\ kubeLease.age \in -Skew..Cap
  BY DEF OperatorType, OperatorTypeOK, Records
<1>2. /\ kubeLease'.holder = kubeLease.holder
      /\ kubeLease.holder # Nobody => kubeLease'.age = Older(kubeLease.age)
  BY DEF Elapse, OperatorType, OperatorTypeOK
<1>3. ASSUME NEW p \in Operators
      PROVE  /\ op'[p].at = op[p].at /\ op'[p].fresh = op[p].fresh
             /\ op[p].at \in Electing \cup Leading => op'[p].age = Older(op[p].age)
             /\ op[p].at \in Electing => op[p].age < Patience
             /\ op[p].age \in 0..Cap
  <2>1. op[p] \in Records /\ op[p].age \in 0..Cap
    BY <1>1 DEF Records
  <2>2. op'[p] = IF op[p].at \in Electing \cup Leading
                 THEN [op[p] EXCEPT !.age = Older(@)] ELSE op[p]
    BY DEF Elapse
  <2>3. QED
    BY <2>1, <2>2 DEF Records, Elapse
<1>4. \A p \in Operators : Offset(p)' = Offset(p)
  BY DEF Offset
<1>5. ElectionInTime'
  <2> SUFFICES ASSUME NEW p \in Operators
               PROVE  /\ op'[p].at \in Electing =>
                            /\ op'[p].age <= Patience
                            /\ kubeLease'.holder = p => op'[p].age - Offset(p) <= kubeLease'.age
                      /\ op'[p].at = "put" => kubeLease'.holder # Nobody
                      /\ op'[p].at = "put" /\ op'[p].fresh =>
                            \/ kubeLease'.holder = p
                            \/ kubeLease'.age - op'[p].age + Offset(p) >= Duration
    BY <1>4 DEF ElectionInTime, MayLead, Expired
  <2>1. op'[p].at \in Electing =>
           /\ op'[p].age <= Patience
           /\ kubeLease'.holder = p => op'[p].age - Offset(p) <= kubeLease'.age
    BY <1>1, <1>2, <1>3, Numbers, OperatorAssumption DEF TermInv, ElectionInTime, Older
  <2>2. op'[p].at = "put" /\ op'[p].fresh =>
           \/ kubeLease'.holder = p
           \/ kubeLease'.age - op'[p].age + Offset(p) >= Duration
    <3>1. SUFFICES ASSUME op'[p].at = "put", op'[p].fresh, kubeLease.holder # p
                   PROVE  kubeLease'.age - op'[p].age + Offset(p) >= Duration
      BY <1>2
    <3>2. /\ op[p].at = "put" /\ kubeLease.holder # Nobody
          /\ kubeLease.age - op[p].age + Offset(p) >= Duration
      BY <1>3, <3>1 DEF TermInv, ElectionInTime, MayLead, Expired
    <3>3. op'[p].age = op[p].age + 1 /\ op[p].age < Patience
      BY <1>3, <3>2, Numbers DEF Electing, Older
    <3>4. QED
      BY <1>1, <1>2, <1>3, <3>2, <3>3, Numbers DEF Older
  <2>3. op'[p].at = "put" => kubeLease'.holder # Nobody
    BY <1>2, <1>3 DEF TermInv, ElectionInTime
  <2>4. QED
    BY <2>1, <2>2, <2>3
<1>6. TermCounted'
  <2> SUFFICES ASSUME NEW p \in Operators, Leads(p)
               PROVE  /\ kubeLease'.holder # Nobody
                      /\ op'[p].age < Cap =>
                            IF kubeLease'.holder = p
                            THEN kubeLease'.age = op'[p].age - Offset(p)
                            ELSE kubeLease'.age + Duration <= op'[p].age - Offset(p)
    BY <1>3, <1>4 DEF TermCounted, Leads
  <2>1. op'[p].age = Older(op[p].age)
    BY <1>3 DEF Leads
  <2>2. QED
    BY <1>1, <1>2, <1>3, <2>1, Numbers DEF TermInv, TermCounted, Older
<1>7. NotFromFuture'
  <2>1. kubeLease.holder # Nobody => kubeLease.holder \in Operators
    BY DEF OperatorType, OperatorTypeOK
  <2>2. QED
    BY <1>1, <1>2, <1>4, <2>1, Numbers DEF TermInv, NotFromFuture, Older
<1>8. QED
  BY <1>5, <1>6, <1>7 DEF TermInv

(* Every step keeps the terms.                                             *)
LEMMA TermStep ==
    ASSUME OperatorType, TermInv, [OperatorNext]_operatorVars
    PROVE  TermInv'
<1>1. op \in [Operators -> Records] /\ spec \in [Clusters -> Specs]
  BY DEF OperatorType, OperatorTypeOK, Records
<1>3. ASSUME NEW o \in Operators, Begin(o) PROVE TermInv'
  <2> DEFINE to == [op[o] EXCEPT !.at = "get"]
  <2>1. /\ to \in Records /\ to.at = "get" /\ to.age = 0
    BY <1>1, <1>3, PlaceTyped DEF Records, Begin, OperatorType, PassTyped, Electing
  <2>2. Move(o, to)
    BY <1>3 DEF Begin, Goto
  <2>3. kubeLease.holder = o => 0 - Offset(o) <= kubeLease.age
    BY Numbers, OperatorAssumption DEF TermInv, NotFromFuture, OperatorType, OperatorTypeOK
  <2> HIDE DEF to
  <2>4. /\ to.at # "put" /\ to.at \notin Leading /\ to.age <= Patience
        /\ kubeLease.holder = o => to.age - Offset(o) <= kubeLease.age
    BY <2>1, <2>3, Numbers DEF Leading
  <2>5. QED
    BY <1>3, <2>1, <2>2, <2>4, MoveTerm DEF Begin
<1>4. ASSUME NEW o \in Operators, Get(o) PROVE TermInv'
  <2>1. op[o] \in Records
    BY <1>1
  <2>2. CASE MayLead(o) /\ kubeLease.holder # Nobody
             /\ Move(o, [op[o] EXCEPT !.at = "put", !.fresh = TRUE])
    <3> DEFINE to == [op[o] EXCEPT !.at = "put", !.fresh = TRUE]
    <3>1. to \in Records /\ to.at = "put" /\ to.age = op[o].age
      BY <2>1 DEF Records, Electing
    <3>2. Move(o, to)
      BY <2>2
    <3> HIDE DEF to
    <3>3. QED
      BY <1>4, <2>2, <3>1, <3>2, MoveTerm
         DEF Get, TermInv, ElectionInTime, MayLead, Expired, Electing, Leading
  <2>3. CASE Move(o, [op[o] EXCEPT !.at = "post"])
    <3> DEFINE to == [op[o] EXCEPT !.at = "post"]
    <3>1. to \in Records /\ to.at = "post" /\ to.age = op[o].age
      BY <2>1 DEF Records, Electing
    <3>2. Move(o, to)
      BY <2>3
    <3> HIDE DEF to
    <3>3. QED
      BY <1>4, <3>1, <3>2, MoveTerm DEF Get, TermInv, ElectionInTime, Electing, Leading
  <2>4. CASE Move(o, Idle)
    BY <1>4, <2>4, StopTerm DEF Get
  <2>5. QED
    BY <1>4, <2>2, <2>3, <2>4 DEF Get
<1>5. ASSUME NEW o \in Operators, WriteLease(o) PROVE TermInv'
  <2> DEFINE to == [op[o] EXCEPT !.at = "list", !.fresh = FALSE,
                        !.alone = \A p \in Operators \ {o} : ~Leads(p)]
  <2>1. to \in Records /\ to.at = "list" /\ to.age = op[o].age
    BY <1>1 DEF Records, Leading
  <2>2. Grant(o, to) /\ Unchanged(o)
    BY <1>5 DEF WriteLease
  <2> HIDE DEF to
  <2>3. QED
    BY <2>1, <2>2, GrantTerm
<1>6. ASSUME NEW o \in Operators, Conflict(o) PROVE TermInv'
  BY <1>6, StopTerm DEF Conflict
<1>7. ASSUME NEW o \in Operators, ListClusters(o) PROVE TermInv'
  BY <1>1, <1>7, ReachTerm DEF ListClusters, Leads, Leading
<1>8. ASSUME NEW o \in Operators, Apply(o) PROVE TermInv'
  <2>1. Leads(o) /\ op[o].at \in Passing /\ NextItem(o) /\ kubeLease' = kubeLease
    BY <1>8 DEF Apply, WriteObject, Leads, Leading, Passing
  <2>2. /\ op[o].list \in [Clusters -> Specs]
        /\ op[o].cluster \in Clusters /\ op[o].item \in Items
    BY <2>1 DEF OperatorType, PassTyped
  <2>3. CASE op[o].item + 1 \in Items
    <3> DEFINE to == [op[o] EXCEPT !.item = @ + 1, !.at = "apply"]
    <3>1. to \in Records /\ to.at = "apply" /\ to.age = op[o].age
      BY <1>1, <2>3 DEF Records, Leading
    <3>2. Move(o, to)
      BY <2>1, <2>3 DEF NextItem
    <3> HIDE DEF to
    <3>3. QED
      BY <2>1, <3>1, <3>2, MoveTerm DEF Electing, Leading
  <2>4. CASE op[o].item + 1 \notin Items
    BY <2>1, <2>4, GotoTerm DEF NextItem, Leading
  <2>5. QED
    BY <2>3, <2>4
<1>9. ASSUME NEW o \in Operators, Refused(o) PROVE TermInv'
  BY <1>9, GotoTerm, StopTerm DEF Refused, Leads, Leading
<1>10. ASSUME NEW o \in Operators, PatchStatus(o) PROVE TermInv'
  <2>1. /\ op[o].list \in [Clusters -> Specs] /\ op[o].cluster + 1 \in Nat
        /\ Leads(o)
    BY <1>10, Numbers DEF PatchStatus, WriteStatus, OperatorType, PassTyped,
       Passing, Clusters, Leads, Leading
  <2>2. QED
    BY <1>10, <2>1, ReachTerm DEF PatchStatus
<1>11. ASSUME NEW o \in Operators, Restart(o) PROVE TermInv'
  BY <1>11, StopTerm DEF Restart
<1>12. ASSUME NEW o \in Operators, Raise(o) PROVE TermInv'
  BY <1>12, StopTerm DEF Raise
<1>13. ASSUME NEW o \in Operators, RaiseAfter(o) PROVE TermInv'
  <2>1. CASE Unchanged(o) /\ Grant(o, Raised(o))
    <3>1. Raised(o) \in Records /\ Raised(o).at = "raised"
      BY <1>1, RaisedTyped
    <3>2. QED
      BY <2>1, <3>1, GrantTerm
  <2>2. CASE Move(o, Raised(o)) /\ kubeLease' = kubeLease
    BY <2>2, StopTerm
  <2>3. QED
    BY <1>13, <2>1, <2>2 DEF RaiseAfter
<1>14. ASSUME NEW o \in Operators, Lose(o) PROVE TermInv'
  <2> DEFINE to == [Idle EXCEPT !.at = "gone"]
  <2>1. to \in Records /\ to.at = "gone"
    BY IdleTyped DEF Records
  <2>2. Move(o, to) /\ kubeLease' = kubeLease
    BY <1>14 DEF Lose
  <2> HIDE DEF to
  <2>3. QED
    BY <2>1, <2>2, MoveTerm DEF Electing, Leading
<1>15. CASE UNCHANGED <<kubeLease, op>>
  BY <1>15 DEF TermInv, ElectionInTime, TermCounted, NotFromFuture, MayLead,
     Expired, Offset, Leads
<1>16. CASE Elapse
  BY <1>16, ElapseTerm
<1>17. QED
  BY <1>3, <1>4, <1>5, <1>6, <1>7, <1>8, <1>9, <1>10, <1>11, <1>12, <1>13,
     <1>14, <1>15, <1>16
     DEF OperatorNext, Step, Edit, operatorVars

(* Whoever took the Lease from a leader waited for its term.               *)
LEMMA TermHolds == OperatorType /\ TermInv => TermRespected
<1> SUFFICES ASSUME OperatorType, TermInv, NEW o \in Operators, NEW p \in Operators,
                    Leads(o), kubeLease.holder = p, p # o
             PROVE  op[o].age + Offset(p) - Offset(o) >= Duration
  BY DEF TermRespected
<1>1. op[o].age \in 0..Cap /\ kubeLease.age \in Int
  BY DEF OperatorType, OperatorTypeOK
<1>2. kubeLease.age >= -Offset(p)
  BY OperatorAssumption DEF TermInv, NotFromFuture
<1>3. CASE op[o].age < Cap
  <2>1. kubeLease.age + Duration <= op[o].age - Offset(o)
    BY <1>3 DEF TermInv, TermCounted
  <2>2. QED
    BY <1>1, <1>2, <2>1, Numbers
<1>4. CASE op[o].age = Cap
  BY <1>4, Numbers
<1>5. QED
  BY <1>1, <1>3, <1>4, Numbers

(* Nothing is written in the first state.                                  *)
LEMMA WriteInit == OperatorInit => WriteInv
  BY Numbers DEF OperatorInit, WriteInv, SpecsNewest, AloneLeads, ListNewest, Idle, Leads,
     Leading, Passing

(* Versions are numbers.                                                   *)
LEMMA Versioned ==
    ASSUME OperatorType
    PROVE  \A c \in Clusters :
               /\ spec[c].version \in Nat /\ status[c] \in Nat
               /\ \A i \in Items : objects[c][i] \in Nat
               /\ \A o \in Operators :
                     op[o].at \in Passing => op[o].list[c].version \in Nat
<1>1. \A s \in Specs : s.version \in Nat
  BY Numbers DEF Specs, Versions
<1>2. /\ spec \in [Clusters -> Specs]
      /\ objects \in [Clusters -> [Items -> 0..(MaxEdits + 1)]]
      /\ status \in [Clusters -> 0..(MaxEdits + 1)]
      /\ \A o \in Operators :
            op[o].at \in Passing => op[o].list \in [Clusters -> Specs]
  BY DEF OperatorType, OperatorTypeOK, PassTyped
<1>3. \A v \in 0..(MaxEdits + 1) : v \in Nat
  BY Numbers
<1>4. QED
  BY <1>1, <1>2, <1>3

(* What is written to an object or a status comes from the list.           *)
LEMMA WritesAreOfList ==
    ASSUME OperatorType, NEW o \in Operators
    PROVE  /\ WriteObject(o) /\ status' = status => WritesList(o)
           /\ WriteStatus(o) /\ objects' = objects => WritesList(o)
<1>1. /\ objects \in [Clusters -> [Items -> 0..(MaxEdits + 1)]]
      /\ status \in [Clusters -> 0..(MaxEdits + 1)]
      /\ op[o].at \in Passing => op[o].cluster \in Clusters /\ op[o].item \in Items
  BY DEF OperatorType, OperatorTypeOK, PassTyped
<1>2. QED
  BY <1>1 DEF WriteObject, WriteStatus, WritesList, Version, Passing

(* A step that moves one operator, writing at most from its list.          *)
LEMMA MoveWrite ==
    ASSUME OperatorType, WriteInv, NEW o \in Operators, NEW to \in Records,
           Move(o, to), spec' = spec,
           to.at \in Leading => Leads(o) /\ to.alone = op[o].alone,
           to.at \in Passing =>
              \/ to.list = spec
              \/ op[o].at \in Passing /\ to.list = op[o].list,
           UNCHANGED <<objects, status>> \/ WritesList(o)
    PROVE  WriteInv'
<1>1. op'[o] = to /\ \A p \in Operators \ {o} : op'[p] = op[p]
  BY DEF OperatorType, OperatorTypeOK, Move
<1>2. ASSUME NEW c \in Clusters
      PROVE  /\ status'[c] <= spec[c].version
             /\ \A i \in Items : objects'[c][i] <= spec[c].version
  BY Versioned DEF WriteInv, SpecsNewest, WritesList
<1>3. SpecsNewest'
  <2>1. ASSUME NEW p \in Operators, NEW c \in Clusters, op'[p].at \in Passing
        PROVE  op'[p].list[c].version <= spec[c].version
    BY <1>1, <2>1, Versioned DEF WriteInv, SpecsNewest
  <2>2. QED
    BY <1>2, <2>1 DEF SpecsNewest
<1>4. AloneLeads'
  BY <1>1 DEF WriteInv, AloneLeads, Leads
<1>5. ListNewest'
  <2> SUFFICES ASSUME NEW p \in Operators, NEW c \in Clusters,
                      op'[p].at \in Passing, op'[p].alone
               PROVE  /\ status'[c] <= op'[p].list[c].version
                      /\ \A i \in Items : objects'[c][i] <= op'[p].list[c].version
    BY DEF ListNewest
  <2>1. CASE p # o
    <3>1. op'[p] = op[p] /\ ~WritesList(o)
      BY <1>1, <2>1 DEF WriteInv, AloneLeads, Leads, Leading, Passing, WritesList
    <3>2. QED
      BY <3>1 DEF WriteInv, ListNewest
  <2>2. CASE p = o /\ to.list = spec
    BY <1>1, <1>2, <2>2
  <2>3. CASE p = o /\ op[o].at \in Passing /\ to.list = op[o].list
    <3>1. op[o].alone
      BY <1>1, <2>3 DEF Passing, Leading
    <3>2. /\ status[c] <= op[o].list[c].version
          /\ \A i \in Items : objects[c][i] <= op[o].list[c].version
      BY <2>3, <3>1 DEF WriteInv, ListNewest
    <3>3. QED
      BY <1>1, <2>3, <3>2, Versioned DEF WritesList
  <2>4. QED
    BY <1>1, <2>1, <2>2, <2>3
<1>6. QED
  BY <1>3, <1>4, <1>5 DEF WriteInv

(* The last request of a pass may have done its work.                      *)
LEMMA StopWrite ==
    ASSUME OperatorType, WriteInv, NEW o \in Operators,
           Move(o, Idle) \/ Move(o, Raised(o)), spec' = spec,
           UNCHANGED <<objects, status>> \/ WritesList(o)
    PROVE  WriteInv'
<1>1. op[o] \in Records
  BY DEF OperatorType, OperatorTypeOK, Records
<1>2. CASE Move(o, Idle)
  <2>1. Idle.at = "idle"
    BY DEF Idle
  <2>2. QED
    BY <1>2, <2>1, IdleTyped, MoveWrite DEF Passing, Leading
<1>3. CASE Move(o, Raised(o))
  BY <1>1, <1>3, RaisedTyped, MoveWrite DEF Passing, Leading
<1>4. QED
  BY <1>2, <1>3

(* The list stays while the pass goes on.                                  *)
LEMMA GotoWrite ==
    ASSUME OperatorType, WriteInv, NEW o \in Operators,
           NEW place \in Electing \cup Leading, Goto(o, place), spec' = spec,
           place \in Leading => op[o].at \in Passing,
           UNCHANGED <<objects, status>> \/ WritesList(o)
    PROVE  WriteInv'
<1> DEFINE to == [op[o] EXCEPT !.at = place]
<1>1. op[o] \in Records
  BY DEF OperatorType, OperatorTypeOK, Records
<1>2. /\ to \in Records /\ to.at = place /\ to.alone = op[o].alone
      /\ to.list = op[o].list
  BY <1>1, PlaceTyped DEF Records
<1>3. Move(o, to)
  BY DEF Goto
<1> HIDE DEF to
<1>4. QED
  BY <1>2, <1>3, MoveWrite DEF Passing, Leading, Leads

(* A pass is at a cluster of what it listed.                               *)
LEMMA ReachWrite ==
    ASSUME OperatorType, WriteInv, NEW o \in Operators, Leads(o),
           NEW list \in [Clusters -> Specs],
           list # spec => op[o].at \in Passing /\ list = op[o].list,
           NEW c \in Nat, Reach(o, list, c), spec' = spec,
           UNCHANGED <<objects, status>> \/ WritesList(o)
    PROVE  WriteInv'
<1>1. op[o] \in Records /\ 1 \in Items
  BY Numbers DEF OperatorType, OperatorTypeOK, Records, Items
<1>2. CASE Move(o, Idle) \/ Move(o, Raised(o))
  BY <1>2, StopWrite
<1>3. CASE /\ c \in Clusters
           /\ Move(o, [op[o] EXCEPT !.at = "apply", !.list = list, !.cluster = c,
                                    !.item = 1])
  <2> DEFINE to == [op[o] EXCEPT !.at = "apply", !.list = list, !.cluster = c,
                                 !.item = 1]
  <2>1. /\ to \in Records /\ to.at = "apply" /\ to.alone = op[o].alone
        /\ to.list = list
    BY <1>1, <1>3, PassRecord DEF Records
  <2>2. Move(o, to)
    BY <1>3
  <2> HIDE DEF to
  <2>3. QED
    BY <2>1, <2>2, MoveWrite
<1>4. QED
  BY <1>2, <1>3 DEF Reach

(* A new leader has listed nothing yet; whoever leads besides is not alone. *)
LEMMA GrantWrite ==
    ASSUME OperatorType, WriteInv, NEW o \in Operators, NEW to \in Records,
           Grant(o, to), UNCHANGED <<spec, objects, status>>,
           to.at \in {"list", "raised"},
           to.at = "list" /\ to.alone => \A p \in Operators \ {o} : ~Leads(p)
    PROVE  WriteInv'
<1>1. op \in [Operators -> Records]
  BY DEF OperatorType, OperatorTypeOK, Records
<1>2. op'[o] = to
  BY DEF Grant
<1>3. ASSUME NEW p \in Operators, p # o
      PROVE  /\ op'[p].at = op[p].at /\ op'[p].list = op[p].list
             /\ op'[p].alone => op[p].alone /\ (Leads(p) => to.at # "list")
  <2>1. op'[p] = [op[p] EXCEPT !.fresh = FALSE,
                               !.alone = @ /\ (Leads(p) => to.at # "list")]
    BY <1>3 DEF Grant
  <2>2. op[p] \in Records
    BY <1>1
  <2>3. op'[p].at = op[p].at /\ op'[p].list = op[p].list
    BY <2>1, <2>2 DEF Records
  <2>4. op'[p].alone = (op[p].alone /\ (Leads(p) => to.at # "list"))
    BY <2>1, <2>2 DEF Records
  <2>5. QED
    BY <2>3, <2>4
<1>4. SpecsNewest'
  BY <1>2, <1>3 DEF WriteInv, SpecsNewest, Passing
<1>5. AloneLeads'
  BY <1>2, <1>3 DEF WriteInv, AloneLeads, Leads, Leading
<1>6. ListNewest'
  BY <1>2, <1>3 DEF WriteInv, ListNewest, Passing
<1>7. QED
  BY <1>4, <1>5, <1>6 DEF WriteInv

(* Every step keeps what was written behind what is listed.                *)
LEMMA WriteStep ==
    ASSUME OperatorType, WriteInv, [OperatorNext]_operatorVars
    PROVE  WriteInv'
<1>1. op \in [Operators -> Records] /\ spec \in [Clusters -> Specs]
  BY DEF OperatorType, OperatorTypeOK, Records
<1>3. ASSUME NEW o \in Operators, Begin(o) PROVE WriteInv'
  BY <1>3, GotoWrite DEF Begin, Electing, Leading
<1>4. ASSUME NEW o \in Operators, Get(o) PROVE WriteInv'
  <2>1. op[o] \in Records
    BY <1>1
  <2>2. CASE Move(o, [op[o] EXCEPT !.at = "put", !.fresh = TRUE])
    <3> DEFINE to == [op[o] EXCEPT !.at = "put", !.fresh = TRUE]
    <3>1. to \in Records /\ to.at = "put"
      BY <2>1 DEF Records, Electing
    <3>2. Move(o, to)
      BY <2>2
    <3> HIDE DEF to
    <3>3. QED
      BY <1>4, <3>1, <3>2, MoveWrite DEF Get, Passing, Leading
  <2>3. CASE Move(o, [op[o] EXCEPT !.at = "post"])
    BY <1>4, <2>3, GotoWrite DEF Get, Goto, Electing, Leading
  <2>4. CASE Move(o, Idle)
    BY <1>4, <2>4, StopWrite DEF Get
  <2>5. QED
    BY <1>4, <2>2, <2>3, <2>4 DEF Get
<1>5. ASSUME NEW o \in Operators, WriteLease(o) PROVE WriteInv'
  <2> DEFINE to == [op[o] EXCEPT !.at = "list", !.fresh = FALSE,
                        !.alone = \A p \in Operators \ {o} : ~Leads(p)]
  <2>1. to \in Records /\ to.at = "list"
    BY <1>1 DEF Records, Leading
  <2>2. to.alone = \A p \in Operators \ {o} : ~Leads(p)
    BY <1>1 DEF Records
  <2>3. Grant(o, to)
    BY <1>5 DEF WriteLease
  <2> HIDE DEF to
  <2>4. QED
    BY <1>5, <2>1, <2>2, <2>3, GrantWrite DEF WriteLease
<1>6. ASSUME NEW o \in Operators, Conflict(o) PROVE WriteInv'
  BY <1>6, StopWrite DEF Conflict
<1>7. ASSUME NEW o \in Operators, ListClusters(o) PROVE WriteInv'
  <2>1. /\ Leads(o) /\ Reach(o, spec, 1) /\ spec' = spec
        /\ UNCHANGED <<objects, status>>
    BY <1>7 DEF ListClusters, Leads, Leading
  <2>2. QED
    BY <1>1, <2>1, ReachWrite
<1>8. ASSUME NEW o \in Operators, Apply(o) PROVE WriteInv'
  <2>1. /\ op[o].at \in Passing /\ NextItem(o) /\ spec' = spec /\ WritesList(o)
        /\ Leads(o)
    BY <1>8, WritesAreOfList DEF Apply, WriteObject, Passing, Leads, Leading
  <2>2. CASE op[o].item + 1 \in Items
    <3> DEFINE to == [op[o] EXCEPT !.item = @ + 1, !.at = "apply"]
    <3>1. /\ to \in Records /\ to.at = "apply" /\ to.alone = op[o].alone
          /\ to.list = op[o].list
      BY <1>1, <2>2 DEF Records, Leading
    <3>2. Move(o, to)
      BY <2>1, <2>2 DEF NextItem
    <3> HIDE DEF to
    <3>3. QED
      BY <2>1, <3>1, <3>2, MoveWrite
  <2>3. CASE op[o].item + 1 \notin Items
    BY <2>1, <2>3, GotoWrite DEF NextItem, Leading
  <2>4. QED
    BY <2>2, <2>3
<1>9. ASSUME NEW o \in Operators, Refused(o) PROVE WriteInv'
  BY <1>9, GotoWrite, StopWrite DEF Refused, Leading, Passing
<1>10. ASSUME NEW o \in Operators, PatchStatus(o) PROVE WriteInv'
  <2>1. /\ op[o].list \in [Clusters -> Specs] /\ op[o].cluster + 1 \in Nat
        /\ op[o].at \in Passing /\ Leads(o)
    BY <1>10, Numbers DEF PatchStatus, WriteStatus, OperatorType, PassTyped,
       Passing, Clusters, Leads, Leading
  <2>2. WritesList(o)
    BY <1>10, WritesAreOfList DEF PatchStatus
  <2>3. QED
    BY <1>10, <2>1, <2>2, ReachWrite DEF PatchStatus
<1>11. ASSUME NEW o \in Operators, Restart(o) PROVE WriteInv'
  BY <1>11, StopWrite DEF Restart
<1>12. ASSUME NEW o \in Operators, Raise(o) PROVE WriteInv'
  BY <1>12, StopWrite DEF Raise
<1>13. ASSUME NEW o \in Operators, RaiseAfter(o) PROVE WriteInv'
  <2>1. CASE Grant(o, Raised(o)) /\ UNCHANGED <<objects, status>>
    <3>1. Raised(o) \in Records /\ Raised(o).at = "raised"
      BY <1>1, RaisedTyped
    <3>2. QED
      BY <1>13, <2>1, <3>1, GrantWrite DEF RaiseAfter
  <2>2. CASE Move(o, Raised(o)) /\ WritesList(o)
    BY <1>13, <2>2, StopWrite DEF RaiseAfter
  <2>3. QED
    BY <1>13, <2>1, <2>2, WritesAreOfList DEF RaiseAfter
<1>14. ASSUME NEW o \in Operators, Lose(o) PROVE WriteInv'
  <2> DEFINE to == [Idle EXCEPT !.at = "gone"]
  <2>1. to \in Records /\ to.at = "gone"
    BY IdleTyped DEF Records
  <2>2. Move(o, to) /\ UNCHANGED <<spec, objects, status>>
    BY <1>14 DEF Lose
  <2> HIDE DEF to
  <2>3. QED
    BY <2>1, <2>2, MoveWrite DEF Passing, Leading
<1>15. ASSUME NEW c \in Clusters, NEW valid \in BOOLEAN, Edit(c, valid) PROVE WriteInv'
  <2>1. ASSUME NEW d \in Clusters
        PROVE  spec[d].version <= spec'[d].version /\ spec'[d].version \in Nat
    BY <1>1, <1>15, Versioned DEF Edit
  <2>2. SpecsNewest'
    BY <1>15, <2>1, Versioned DEF Edit, WriteInv, SpecsNewest
  <2>3. QED
    BY <1>15, <2>2 DEF Edit, WriteInv, AloneLeads, ListNewest, Leads
<1>16. CASE Elapse
  <2>1. ASSUME NEW p \in Operators
        PROVE  /\ op'[p].at = op[p].at /\ op'[p].list = op[p].list
               /\ op'[p].alone = op[p].alone
    BY <1>1, <1>16 DEF Elapse, Records
  <2>2. QED
    BY <1>16, <2>1 DEF Elapse, WriteInv, SpecsNewest, AloneLeads, ListNewest, Leads
<1>17. CASE UNCHANGED operatorVars
  BY <1>17 DEF operatorVars, WriteInv, SpecsNewest, AloneLeads, ListNewest, Leads
<1>18. QED
  BY <1>3, <1>4, <1>5, <1>6, <1>7, <1>8, <1>9, <1>10, <1>11, <1>12, <1>13,
     <1>14, <1>15, <1>16, <1>17
     DEF OperatorNext, Step

(* What a leader nobody overlapped writes is no older than what it finds.  *)
LEMMA NoRollbackStep ==
    ASSUME OperatorType, WriteInv, [OperatorNext]_operatorVars,
           NEW o \in Operators, NEW c \in Clusters,
           Leads(o), op[o].alone, op'[o] # op[o]
    PROVE  /\ status'[c] >= status[c]
           /\ \A i \in Items : objects'[c][i] >= objects[c][i]
<1>1. \A p \in Operators \ {o} : ~Leads(p)
  BY DEF WriteInv, AloneLeads
<1>2. UNCHANGED <<objects, status>> \/ WritesList(o)
  <2>1. ASSUME NEW p \in Operators,
               \/ WriteObject(p) /\ status' = status
               \/ WriteStatus(p) /\ objects' = objects
        PROVE  WritesList(o)
    <3>1. WritesList(p)
      BY <2>1, WritesAreOfList
    <3>2. Leads(p)
      BY <3>1 DEF WritesList, Leads, Leading, Passing
    <3>3. QED
      BY <1>1, <3>1, <3>2
  <2>2. ASSUME NEW p \in Operators, Apply(p) \/ PatchStatus(p) \/ RaiseAfter(p)
        PROVE  UNCHANGED <<objects, status>> \/ WritesList(o)
    <3>1. \/ WriteObject(p) /\ status' = status
          \/ WriteStatus(p) /\ objects' = objects
          \/ UNCHANGED <<objects, status>>
      BY <2>2 DEF Apply, PatchStatus, RaiseAfter
    <3>2. QED
      BY <2>1, <3>1
  <2>3. ASSUME NEW p \in Operators,
               \/ Begin(p) \/ Get(p) \/ WriteLease(p) \/ Conflict(p)
               \/ ListClusters(p) \/ Refused(p) \/ Restart(p) \/ Raise(p) \/ Lose(p)
        PROVE  UNCHANGED <<objects, status>>
    BY <2>3 DEF Begin, Get, WriteLease, Conflict, ListClusters, Refused, Restart,
       Raise, Lose
  <2>4. QED
    BY <2>2, <2>3 DEF OperatorNext, Step, operatorVars, Edit, Elapse
<1>3. CASE UNCHANGED <<objects, status>>
  BY <1>3, Versioned
<1>4. CASE WritesList(o)
  <2>1. /\ status[c] <= op[o].list[c].version
        /\ \A i \in Items : objects[c][i] <= op[o].list[c].version
    BY <1>4 DEF WriteInv, ListNewest, WritesList
  <2>2. QED
    BY <1>4, <2>1, Versioned DEF WritesList
<1>5. QED
  BY <1>2, <1>3, <1>4

-----------------------------------------------------------------------------
(* The invariant of the operators.                                         *)
LEMMA OperatorInvariant == OperatorSpec => []OperatorInv
<1>1. OperatorInit => OperatorInv
  BY OperatorTypeInit, TermInit, WriteInit DEF OperatorInv
<1>2. OperatorInv /\ [OperatorNext]_operatorVars => OperatorInv'
  BY OperatorTypeStep, TermStep, WriteStep DEF OperatorInv
<1>3. QED
  BY <1>1, <1>2, PTL DEF OperatorSpec

(* The variables keep their types.                                         *)
THEOREM OperatorTypeCorrect == OperatorSpec => []OperatorTypeOK
<1>1. OperatorInv => OperatorTypeOK
  BY DEF OperatorInv, OperatorType
<1>2. QED
  BY <1>1, OperatorInvariant, PTL

(* acquire_or_renew_operator_lease: nobody takes the Lease from a leader   *)
(* before its term is over by the clocks of the two, however many          *)
(* operators elect themselves at a time, raise, are restarted or lost.     *)
THEOREM TermsRespected == OperatorSpec => []TermRespected
<1>1. OperatorInv => TermRespected
  BY TermHolds DEF OperatorInv
<1>2. QED
  BY <1>1, OperatorInvariant, PTL

(* operator_loop: a pass nobody overlapped takes no object and no status   *)
(* back to an older spec.                                                  *)
THEOREM NothingRolledBack == OperatorSpec => NoRollback
<1> DEFINE Kept ==
       \A o \in Operators, c \in Clusters :
          Leads(o) /\ op[o].alone /\ op'[o] # op[o] =>
              /\ status'[c] >= status[c]
              /\ \A i \in Items : objects'[c][i] >= objects[c][i]
<1>1. OperatorInv /\ [OperatorNext]_operatorVars => [Kept]_operatorVars
  BY NoRollbackStep DEF OperatorInv
<1>2. QED
  BY <1>1, OperatorInvariant, PTL DEF OperatorSpec, NoRollback
==================================================================================
