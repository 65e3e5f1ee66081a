---------------------------- MODULE MemoryService ----------------------------
(***************************************************************************)
(* What WaveMind promises whoever remembers, forgets and queries, with no  *)
(* word of nodes, caches or messages.  A remember that returns has made    *)
(* its memories durable, a forget that returns has ended them, and a query *)
(* that returns has every memory kept before it was asked and none that    *)
(* was gone by then.  A memory named by any forget, finished or not, may   *)
(* or may not be found.  Calls may also raise: then they promise nothing.  *)
(* Implemented by MemoryNode (one node) and DistributedShards (a namespace *)
(* spread over several).                                                   *)
(***************************************************************************)
CONSTANTS
    Texts,
    MayMiss       \* whether a query may fail to hear what was gone

VARIABLES
    kept,         \* memories whose remember returned
    named,        \* memories some forget was called for
    gone,         \* memories whose forget returned
    question,     \* the query in progress: what it must and must not answer
    answer        \* what the last query returned: {} nothing, else {result}

vars == <<kept, named, gone, question, answer>>

NoQuestion == [open |-> FALSE, must |-> {}, not |-> {}]

Init ==
    /\ kept = {} /\ named = {} /\ gone = {}
    /\ question = NoQuestion
    /\ answer = {}

Keep(X) ==
    /\ kept' = kept \cup X
    /\ UNCHANGED <<named, gone, question, answer>>

Name(X) ==
    /\ named' = named \cup X
    /\ UNCHANGED <<kept, gone, question, answer>>

End(X) ==
    /\ X \subseteq named
    /\ gone' = gone \cup X
    /\ UNCHANGED <<kept, named, question, answer>>

Ask ==
    /\ ~question.open
    /\ question' = [open |-> TRUE, must |-> kept \ named, not |-> gone]
    /\ answer' = {}
    /\ UNCHANGED <<kept, named, gone>>

Give(X) ==
    /\ question.open
    /\ question.must \ named \subseteq X
    /\ X \cap question.not = {}
    /\ answer' = {X}
    /\ question' = NoQuestion
    /\ UNCHANGED <<kept, named, gone>>

(* What was gone cannot be heard: the query goes on and may show it.       *)
Excuse ==
    /\ MayMiss
    /\ question.open
    /\ question' = [question EXCEPT !.not = {}]
    /\ UNCHANGED <<kept, named, gone, answer>>

Refuse ==
    /\ question.open
    /\ question' = NoQuestion
    /\ UNCHANGED <<kept, named, gone, answer>>

Next ==
    \/ \E X \in SUBSET Texts : Keep(X) \/ Name(X) \/ End(X) \/ Give(X)
    \/ Ask
    \/ Excuse
    \/ Refuse

Spec == Init /\ [][Next]_vars
=============================================================================
