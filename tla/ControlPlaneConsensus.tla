----------------------- MODULE ControlPlaneConsensus -----------------------
(***************************************************************************)
(* The control-plane guard of src/wavemind/consensus.py: one object that   *)
(* every operator and cluster tool consults before it changes membership,  *)
(* sharding or operator configuration.  A leader takes a lease backed by a *)
(* majority of the voters it can reach and commits revisions under it; a   *)
(* "membership" commit replaces the voter set while the lease is running.  *)
(*                                                                         *)
(* Time is a clock that callers read (the `now` argument).  A change that  *)
(* the code refuses by raising before its first assignment is a guard that *)
(* is false; the one refusal that happens AFTER the log was written (a     *)
(* membership payload without a usable node list) is an action.            *)
(***************************************************************************)
EXTENDS Integers, Sequences, FiniteSets

CONSTANTS
    Nodes,            \* node ids that may ever become voters
    InitialVoters,    \* the voters the guard is constructed with
    LeaseTTL,         \* lease_ttl_seconds
    NoLease,          \* _lease is None
    MaxTerm, MaxRevision, MaxTime   \* bounds of the explored behaviours

ASSUME VotersAssumption ==
    /\ IsFiniteSet(Nodes)
    /\ InitialVoters \in (SUBSET Nodes) \ {{}}
ASSUME NumbersAssumption ==
    /\ LeaseTTL \in Nat \ {0}
    /\ MaxTerm \in Nat /\ MaxRevision \in Nat /\ MaxTime \in Nat

VARIABLES
    now,         \* the wall clock
    voters,      \* nodes
    available,   \* _available, a function on the voters
    lease,       \* _lease
    term,        \* term
    revision,    \* config_revision
    log          \* _log

vars == <<now, voters, available, lease, term, revision, log>>

LeaderLease ==
    [leader_id: Nodes, term: Nat, lease_until: Nat, acks: SUBSET Nodes]

(* `nodes` is the voter set a membership payload names; {} stands for a    *)
(* payload without a usable node list.  `basis` is the revision the caller *)
(* expected, -1 when it expected none.                                     *)
ControlPlaneLogEntry ==
    [revision: Nat, term: Nat, leader_id: Nodes,
     change_type: {"config", "membership"}, nodes: SUBSET Nodes,
     acks: SUBSET Nodes, basis: Nat \cup {-1}]

ASSUME NoLeaseAssumption == NoLease \notin LeaderLease

TypeOK ==
    /\ now \in Nat
    /\ voters \in (SUBSET Nodes) \ {{}}
    /\ available \in [voters -> BOOLEAN]
    /\ lease \in LeaderLease \cup {NoLease}
    /\ term \in Nat
    /\ revision \in Nat
    /\ log \in Seq(ControlPlaneLogEntry)

AvailableVoters == {n \in voters : available[n]}

IsMajority(S, V) == 2 * Cardinality(S) > Cardinality(V)

LeaseValid == lease # NoLease /\ now < lease.lease_until

LeaseHeldBy(n) == LeaseValid /\ lease.leader_id = n

Init ==
    /\ now = 0
    /\ voters = InitialVoters
    /\ available = [n \in InitialVoters |-> TRUE]
    /\ lease = NoLease
    /\ term = 0
    /\ revision = 0
    /\ log = << >>

Tick ==
    /\ now < MaxTime
    /\ now' = now + 1
    /\ UNCHANGED <<voters, available, lease, term, revision, log>>

SetNodeAvailable(n, up) ==
    /\ n \in voters
    /\ available[n] # up
    /\ available' = [available EXCEPT ![n] = up]
    /\ UNCHANGED <<now, voters, lease, term, revision, log>>

(* Mistake: the running lease of another leader is not looked at.          *)
AcquireHeldLease(n) ==
    /\ term < MaxTerm
    /\ n \in AvailableVoters
    /\ IsMajority(AvailableVoters, voters)
    /\ term' = term + 1
    /\ lease' = [leader_id |-> n, term |-> term + 1,
                 lease_until |-> now + LeaseTTL, acks |-> AvailableVoters]
    /\ UNCHANGED <<now, voters, available, revision, log>>

(* Mistake: a new lease is granted in the old term.                        *)
AcquireSameTerm(n) ==
    /\ n \in AvailableVoters
    /\ LeaseValid => lease.leader_id = n
    /\ IsMajority(AvailableVoters, voters)
    /\ lease' = [leader_id |-> n, term |-> term,
                 lease_until |-> now + LeaseTTL, acks |-> AvailableVoters]
    /\ UNCHANGED <<now, voters, available, term, revision, log>>

AcquireLeaderLease(n) ==
    /\ term < MaxTerm
    /\ n \in AvailableVoters
    /\ LeaseValid => lease.leader_id = n
    /\ IsMajority(AvailableVoters, voters)
    /\ term' = term + 1
    /\ lease' = [leader_id |-> n, term |-> term + 1,
                 lease_until |-> now + LeaseTTL, acks |-> AvailableVoters]
    /\ UNCHANGED <<now, voters, available, revision, log>>

(* Mistake: the expected revision is not compared.                         *)
MayCommitStale(n, basis) ==
    /\ revision < MaxRevision
    /\ LeaseHeldBy(n)
    /\ n \in AvailableVoters
    /\ IsMajority(AvailableVoters, voters)

(* Mistake: the lease is taken for a quorum and none is counted.           *)
MayCommitAlone(n, basis) ==
    /\ revision < MaxRevision
    /\ LeaseHeldBy(n)
    /\ basis \in {-1, revision}
    /\ n \in AvailableVoters

(* What every commit checks, and the entry it appends.                     *)
MayCommit(n, basis) ==
    /\ revision < MaxRevision
    /\ LeaseHeldBy(n)
    /\ basis \in {-1, revision}
    /\ n \in AvailableVoters
    /\ IsMajority(AvailableVoters, voters)

AppendEntry(n, change, nodes, basis) ==
    /\ revision' = revision + 1
    /\ log' = Append(log, [revision |-> revision + 1, term |-> lease.term,
                           leader_id |-> n, change_type |-> change,
                           nodes |-> nodes, acks |-> AvailableVoters,
                           basis |-> basis])

CommitConfig(n, basis) ==
    /\ MayCommit(n, basis)
    /\ AppendEntry(n, "config", {}, basis)
    /\ UNCHANGED <<now, voters, available, lease, term>>

(* Mistake: the availability map keeps the old voters.                     *)
ApplyVotersOnly(next) ==
    /\ voters' = next
    /\ lease' = IF lease # NoLease /\ lease.leader_id \notin next
                THEN NoLease ELSE lease
    /\ UNCHANGED available

(* _apply_membership_payload: surviving voters keep their availability, a  *)
(* new one starts available, and a leader voted out loses its lease.       *)
ApplyMembershipPayload(next) ==
    /\ voters' = next
    /\ available' = [m \in next |-> m \in voters => available[m]]
    /\ lease' = IF lease # NoLease /\ lease.leader_id \notin next
                THEN NoLease ELSE lease

CommitMembership(n, next, basis) ==
    /\ MayCommit(n, basis)
    /\ next # {}
    /\ AppendEntry(n, "membership", next, basis)
    /\ ApplyMembershipPayload(next)
    /\ UNCHANGED <<now, term>>

(* The payload is refused after the revision was taken and logged.         *)
CommitBadMembership(n, basis) ==
    /\ MayCommit(n, basis)
    /\ AppendEntry(n, "membership", {}, basis)
    /\ UNCHANGED <<now, voters, available, lease, term>>

Expectations == {-1} \cup 0..MaxRevision

Next ==
    \/ Tick
    \/ \E n \in Nodes, up \in BOOLEAN : SetNodeAvailable(n, up)
    \/ \E n \in Nodes : AcquireLeaderLease(n)
    \/ \E n \in Nodes, basis \in Expectations : CommitConfig(n, basis)
    \/ \E n \in Nodes, next \in SUBSET Nodes, basis \in Expectations :
          CommitMembership(n, next, basis)
    \/ \E n \in Nodes, basis \in Expectations : CommitBadMembership(n, basis)

Spec == Init /\ [][Next]_vars

-----------------------------------------------------------------------------

(* The voter set in force when entry i is committed, computed from the log *)
(* alone: the nodes of the last usable membership entry before i.          *)
VotersAt(i) ==
    LET changes == {j \in 1..(i - 1) : log[j].nodes # {}}
    IN  IF changes = {} THEN InitialVoters
        ELSE log[CHOOSE j \in changes : \A k \in changes : k <= j].nodes

(* The log alone explains the guard: replaying it gives the voter set the  *)
(* guard uses now, and shows for every committed entry that its            *)
(* acknowledgements were a majority of the membership in force then        *)
(* ("minority partitions cannot ... commit config changes").               *)
LogExplainsCommits ==
    /\ voters = VotersAt(Len(log) + 1)
    /\ \A i \in DOMAIN log :
          /\ log[i].leader_id \in log[i].acks
          /\ log[i].acks \subseteq VotersAt(i)
          /\ IsMajority(log[i].acks, VotersAt(i))

(* Terms never go back along the log and one term has one leader, through  *)
(* expiries, renewals and membership changes ("stale leaders are           *)
(* rejected"): a deposed leader can never append below a newer leader.     *)
OneLeaderPerTerm ==
    \A i, j \in DOMAIN log : i < j =>
        /\ log[i].term <= log[j].term
        /\ log[i].term = log[j].term => log[i].leader_id = log[j].leader_id

(* Two callers that read the same revision cannot both commit on top of    *)
(* it: optimistic concurrency on expected_revision loses no update.        *)
NoLostUpdate ==
    \A i, j \in DOMAIN log :
        i < j /\ log[i].basis # -1 /\ log[j].basis # -1
            => log[i].basis < log[j].basis

(* The leadership passes to another node only after the lease ran out, or  *)
(* after its holder left the voter set by a commit of its own.             *)
LeaseExclusion ==
    [][ \A m, n \in Nodes :
          m # n /\ LeaseHeldBy(m) => ~ LeaseHeldBy(n)' ]_vars

=============================================================================
