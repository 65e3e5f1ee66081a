---------------------------- MODULE OperatorLease ----------------------------
(***************************************************************************)
(* Replicas of the Kubernetes operator (src/wavemind/k8s_operator.py): each *)
(* runs operator_loop, which takes or renews a Lease object, then lists the *)
(* WaveMindCluster resources and writes what they ask for, one request     *)
(* after the other.  The Lease is changed by compare-and-swap on its       *)
(* resourceVersion; nothing else is, and nobody looks at it during a pass. *)
(*                                                                         *)
(* What a cluster asks for is the version of its spec, and an object holds *)
(* the version it was rendered from.  Time is counted in ages: how long    *)
(* ago something was stamped.  Objects of clusters that are deleted, and   *)
(* objects a spec has no use for any more, are never deleted by the code   *)
(* and are left out, as is the loop without election.                      *)
(***************************************************************************)
EXTENDS Integers

CONSTANTS
    Operators,     \* pods, by the name they hold the lease under
    Nobody,
    ClusterCount,  \* WaveMindCluster resources, numbered as they are listed
    ItemCount,     \* resources of a cluster, numbered as they are applied
    Duration,      \* lease_duration_seconds
    Patience,      \* how long an election may take: its requests time out
    Ahead, Skew,   \* operators whose clock is ahead of the others, by Skew
    MaxEdits,      \* bound: changes of specs
    MaxFaults      \* bound: requests that raise, pods that are lost

ASSUME OperatorAssumption ==
    /\ Nobody \notin Operators /\ Ahead \subseteq Operators
    /\ ClusterCount \in Nat /\ ItemCount \in Nat \ {0}
    /\ Duration \in Nat \ {0} /\ Patience \in Nat \ {0} /\ Skew \in Nat
    /\ MaxEdits \in Nat /\ MaxFaults \in Nat

VARIABLES
    kubeLease,     \* the Lease: its holder (Nobody: there is none), how old
                   \* its renewTime is
    spec,          \* each WaveMindCluster: its version, whether it is valid
    objects,       \* the version each object was written from; 0: missing
    status,        \* the version each status was written from
    op,            \* each operator: where it stands and its locals
    faults

operatorVars == <<kubeLease, spec, objects, status, op, faults>>

Clusters == 1..ClusterCount
Items == 1..ItemCount

Cap == Duration + Patience + Skew        \* what is older is just old
Versions == 1..(MaxEdits + 1)
Specs == [version : Versions, valid : BOOLEAN]

Electing == {"get", "put", "post"}
Leading == {"list", "apply", "create", "status"}

OperatorTypeOK ==
    /\ kubeLease \in [holder : Operators \cup {Nobody}, age : -Skew..Cap]
    /\ spec \in [Clusters -> Specs]
    /\ objects \in [Clusters -> [Items -> 0..(MaxEdits + 1)]]
    /\ status \in [Clusters -> 0..(MaxEdits + 1)]
    /\ op \in [Operators ->
                  [at : Electing \cup Leading \cup {"idle", "raised", "gone"},
                   age : 0..Cap,             \* of the timestamp of its election
                   fresh : BOOLEAN,          \* the Lease is still as it was read
                   list : {<< >>} \cup [Clusters -> Specs],
                   cluster : Clusters \cup {0}, item : Items \cup {0},
                   alone : BOOLEAN]]         \* history: nobody led besides it in its pass
    /\ faults \in 0..MaxFaults

Leads(o) == op[o].at \in Leading

Offset(o) == IF o \in Ahead THEN Skew ELSE 0

Older(age) == IF age < Cap THEN age + 1 ELSE Cap

Idle == [at |-> "idle", age |-> 0, fresh |-> FALSE, list |-> << >>,
         cluster |-> 0, item |-> 0, alone |-> FALSE]

Move(o, to) == op' = [op EXCEPT ![o] = to]

Goto(o, place) == Move(o, [op[o] EXCEPT !.at = place])

(* The process ends; its restart clears what it held.                      *)
Raised(o) == [op[o] EXCEPT !.at = "raised", !.age = 0, !.fresh = FALSE]

-----------------------------------------------------------------------------
OperatorInit ==
    /\ kubeLease = [holder |-> Nobody, age |-> 0]
    /\ spec = [c \in Clusters |-> [version |-> 1, valid |-> TRUE]]
    /\ objects = [c \in Clusters |-> [i \in Items |-> 0]]
    /\ status = [c \in Clusters |-> 0]
    /\ op = [o \in Operators |-> Idle]
    /\ faults = 0

(* acquire_or_renew_operator_lease: the timestamp is taken before the GET. *)
Begin(o) ==
    /\ op[o].at = "idle"
    /\ Goto(o, "get")
    /\ UNCHANGED <<kubeLease, spec, objects, status, faults>>

(* timestamp >= renewed_at + duration, both as read from somebody's clock. *)
Expired(o) == kubeLease.age - op[o].age + Offset(o) >= Duration

(* Mistake: a lease somebody else holds never counts as expired.           *)
HoldsOnly(o) == kubeLease.holder = o

MayLead(o) == kubeLease.holder = o \/ Expired(o)

Get(o) ==
    /\ op[o].at = "get"
    /\ Move(o, IF kubeLease.holder = Nobody THEN [op[o] EXCEPT !.at = "post"]
               ELSE IF MayLead(o) THEN [op[o] EXCEPT !.at = "put", !.fresh = TRUE]
               ELSE Idle)
    /\ UNCHANGED <<kubeLease, spec, objects, status, faults>>

(* Mistake: the PUT goes without the resourceVersion.                      *)
Unversioned(o) ==
    \/ op[o].at = "put"
    \/ op[o].at = "post" /\ kubeLease.holder = Nobody

(* The Lease can still be written: a PUT has the resourceVersion of the GET, *)
(* and a POST finds no Lease.                                              *)
Unchanged(o) ==
    \/ op[o].at = "put" /\ op[o].fresh
    \/ op[o].at = "post" /\ kubeLease.holder = Nobody

(* The API server takes the Lease of o: every other resourceVersion is old. *)
Grant(o, to) ==
    /\ kubeLease' = [holder |-> o, age |-> op[o].age - Offset(o)]
    /\ op' = [p \in Operators |->
                 IF p = o THEN to
                 ELSE [op[p] EXCEPT !.fresh = FALSE,
                                    !.alone = @ /\ (Leads(p) => to.at # "list")]]

WriteLease(o) ==
    /\ Unchanged(o)
    /\ Grant(o, [op[o] EXCEPT !.at = "list", !.fresh = FALSE,
                              !.alone = \A p \in Operators \ {o} : ~Leads(p)])
    /\ UNCHANGED <<spec, objects, status, faults>>

(* 409: not acquired, and nothing to do until the next election.           *)
Conflict(o) ==
    /\ op[o].at \in {"put", "post"}
    /\ ~Unchanged(o)
    /\ Move(o, Idle)
    /\ UNCHANGED <<kubeLease, spec, objects, status, faults>>

-----------------------------------------------------------------------------
(* The loop goes on to cluster c of what it listed.  operator_reconcile    *)
(* raises if the spec is invalid, and the process ends.                    *)
Reach(o, list, c) ==
    Move(o, IF c \notin Clusters THEN Idle
            ELSE IF list[c].valid
            THEN [op[o] EXCEPT !.at = "apply", !.list = list, !.cluster = c, !.item = 1]
            ELSE Raised(o))

ListClusters(o) ==
    /\ op[o].at = "list"
    /\ Reach(o, spec, 1)
    /\ UNCHANGED <<kubeLease, spec, objects, status, faults>>

Version(o) == op[o].list[op[o].cluster].version

Exists(o) == objects[op[o].cluster][op[o].item] # 0

(* A PATCH applies to an object that exists, a POST creates a missing one. *)
WriteObject(o) ==
    /\ op[o].at \in {"apply", "create"}
    /\ Exists(o) <=> op[o].at = "apply"
    /\ objects' = [objects EXCEPT ![op[o].cluster][op[o].item] = Version(o)]

(* Mistake: one resource too many.                                         *)
PastItems(o) ==
    IF op[o].item \in Items
    THEN Move(o, [op[o] EXCEPT !.item = @ + 1, !.at = "apply"])
    ELSE Goto(o, "status")

NextItem(o) ==
    IF op[o].item + 1 \in Items
    THEN Move(o, [op[o] EXCEPT !.item = @ + 1, !.at = "apply"])
    ELSE Goto(o, "status")

(* apply: force is set, so whatever is there is overwritten.               *)
Apply(o) ==
    /\ WriteObject(o)
    /\ NextItem(o)
    /\ UNCHANGED <<kubeLease, spec, status, faults>>

(* 404, the object is POSTed next; 409, somebody else has: an error.       *)
Refused(o) ==
    /\ \/ op[o].at = "apply" /\ ~Exists(o) /\ Goto(o, "create")
       \/ op[o].at = "create" /\ Exists(o) /\ Move(o, Raised(o))
    /\ UNCHANGED <<kubeLease, spec, objects, status, faults>>

WriteStatus(o) ==
    /\ op[o].at = "status"
    /\ status' = [status EXCEPT ![op[o].cluster] = Version(o)]

PatchStatus(o) ==
    /\ WriteStatus(o)
    /\ Reach(o, op[o].list, op[o].cluster + 1)
    /\ UNCHANGED <<kubeLease, spec, objects, faults>>

-----------------------------------------------------------------------------
Fault == faults < MaxFaults /\ faults' = faults + 1

(* A request raises (no connection, a timeout, an error of the API server): *)
(* the process ends.                                                       *)
Raise(o) ==
    /\ Fault
    /\ op[o].at \in Electing \cup Leading
    /\ Move(o, Raised(o))
    /\ UNCHANGED <<kubeLease, spec, objects, status>>

(* The request did its work before it raised.                              *)
RaiseAfter(o) ==
    /\ Fault
    /\ \/ Unchanged(o) /\ Grant(o, Raised(o)) /\ UNCHANGED <<objects, status>>
       \/ WriteObject(o) /\ Move(o, Raised(o)) /\ UNCHANGED <<kubeLease, status>>
       \/ WriteStatus(o) /\ Move(o, Raised(o)) /\ UNCHANGED <<kubeLease, objects>>
    /\ UNCHANGED spec

(* Mistake: a pass that raised is resumed, without another election.       *)
Resume(o) ==
    /\ op[o].at = "raised"
    /\ IF op[o].list # << >>
       THEN Goto(o, "apply")
       ELSE Move(o, Idle)
    /\ UNCHANGED <<kubeLease, spec, objects, status, faults>>

(* The kubelet restarts the container; the pod keeps its name.             *)
Restart(o) ==
    /\ op[o].at = "raised"
    /\ Move(o, Idle)
    /\ UNCHANGED <<kubeLease, spec, objects, status, faults>>

(* A pod is deleted or evicted; its successor is another of the Operators. *)
Lose(o) ==
    /\ Fault
    /\ op[o].at # "gone"
    /\ \E p \in Operators \ {o} : op[p].at # "gone"
    /\ Move(o, [Idle EXCEPT !.at = "gone"])
    /\ UNCHANGED <<kubeLease, spec, objects, status>>

(* A user changes a WaveMindCluster.                                       *)
Edit(c, valid) ==
    /\ spec[c].version \in 1..MaxEdits
    /\ spec' = [spec EXCEPT ![c] = [version |-> @.version + 1, valid |-> valid]]
    /\ UNCHANGED <<kubeLease, objects, status, op, faults>>

(* An election that has taken Patience ends before time goes on.           *)
Elapse ==
    /\ \A o \in Operators : op[o].at \in Electing => op[o].age < Patience
    /\ kubeLease' = [kubeLease EXCEPT
                        !.age = IF kubeLease.holder = Nobody THEN 0 ELSE Older(@)]
    /\ op' = [o \in Operators |->
                 IF op[o].at \in Electing \cup Leading
                 THEN [op[o] EXCEPT !.age = Older(@)]
                 ELSE op[o]]
    /\ UNCHANGED <<spec, objects, status, faults>>

-----------------------------------------------------------------------------
Step(o) ==
    \/ Begin(o) \/ Get(o) \/ WriteLease(o) \/ Conflict(o) \/ ListClusters(o)
    \/ Apply(o) \/ Refused(o) \/ PatchStatus(o) \/ Restart(o)

OperatorNext ==
    \/ \E o \in Operators : Step(o) \/ Raise(o) \/ RaiseAfter(o) \/ Lose(o)
    \/ \E c \in Clusters, valid \in BOOLEAN : Edit(c, valid)
    \/ Elapse

OperatorSpec == OperatorInit /\ [][OperatorNext]_operatorVars

(* A process that runs goes on, one that ended is restarted, time passes.  *)
OperatorFairSpec ==
    /\ OperatorSpec
    /\ WF_operatorVars(Elapse)
    /\ \A o \in Operators : WF_operatorVars(Step(o))

-----------------------------------------------------------------------------
(* deploy/operator/README.md: "two operator replicas cannot reconcile the  *)
(* cluster concurrently".                                                  *)
OneReconciler ==
    \A o, p \in Operators : Leads(o) /\ Leads(p) => o = p

(* What the election gives instead: another operator takes the lease from  *)
(* one that leads only if, by the two clocks, that one stamped it at least *)
(* Duration ago; a pass shorter than that, less Skew, is never overlapped. *)
TermRespected ==
    \A o, p \in Operators :
        Leads(o) /\ kubeLease.holder = p /\ p # o =>
            op[o].age + Offset(p) - Offset(o) >= Duration

(* A pass nobody overlapped takes no object and no status back to an older *)
(* spec than it was written from.                                          *)
NoRollback ==
    [][\A o \in Operators, c \in Clusters :
          Leads(o) /\ op[o].alone /\ op'[o] # op[o] =>
              /\ status'[c] >= status[c]
              /\ \A i \in Items : objects'[c][i] >= objects[c][i]]_operatorVars

Reconciled(c) ==
    /\ status[c] = spec[c].version
    /\ \A i \in Items : objects[c][i] = spec[c].version

(* Whatever overlapped, raised or was lost: once the specs of a cluster and *)
(* of those listed before it are valid for good, its objects and its status *)
(* come to be those of its spec and stay so.                               *)
ReconciledForGood ==
    \A c \in Clusters :
        <>[](\A d \in 1..c : spec[d].valid) => <>[]Reconciled(c)
=============================================================================
