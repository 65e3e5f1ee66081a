---------------------------- MODULE MemoryOS_proofs ----------------------------
(***************************************************************************)
(* Proofs about the two ends of a Memory OS run: the node whose store it   *)
(* maintains (MemoryNode), and the lease and receipt that keep runs apart  *)
(* (MemoryOSLease).  They share no variable; each has its own invariant.   *)
(***************************************************************************)
EXTENDS MemoryNode, MemoryOSLease, TLAPS

-----------------------------------------------------------------------------
(* The node: hypotheses and invariant.                                     *)

(* One process has the store to itself.                                    *)
Alone == \E p : Processes = {p}

(* Nothing raises, and a crash takes the cached answers with it.           *)
Reliable == Faults = {} /\ (Redis => MaxCrashes = 0)

DataTyped ==
    /\ memories \in Seq(Memory) /\ Len(memories) <= MaxMemories
    /\ rows \subseteq Known /\ expired \subseteq Known
    /\ journal \in Seq(Entry)
    /\ forgets \in Nat /\ crashes \in Nat

CacheTyped == cache \in [Processes -> SUBSET Known]

HotTyped ==
    /\ hot \in [Holders -> SUBSET SUBSET Known]
    /\ \A h \in Holders : \A S, T \in hot[h] : S = T

(* What a call holds is known by then.                                     *)
CallsTyped ==
    /\ call \in [Processes -> Call]
    /\ \A p \in Processes :
          /\ call[p].ids \subseteq Known
          /\ call[p].must \subseteq Known /\ call[p].not \subseteq Known
          /\ call[p].op = "forget" => call[p].not \subseteq named

HistoryTyped ==
    /\ acked \subseteq Known /\ named \subseteq Known
    /\ gone \subseteq named /\ cut \subseteq Known

AnswerTyped == answer \in SUBSET SUBSET Ids

NodeType ==
    DataTyped /\ CacheTyped /\ HotTyped /\ CallsTyped /\ HistoryTyped /\ AnswerTyped

Ending == {"journal", "invalidate"}

(* A call that has committed knows what it did to the table.               *)
RememberSure(c) ==
    /\ c.ids \subseteq rows
    /\ \A i \in c.ids : memories[i] = c.new

ForgetSure(c) ==
    /\ c.not \subseteq WithText(c.new.text)
    /\ c.at \in Ending => c.ids \cap rows = {} /\ c.not \cap rows = {}

Sure(c) ==
    /\ c.at \in Ending => c.op \in {"remember", "forget", "purge"}
    /\ c.op = "remember" /\ c.at \in Ending => RememberSure(c)
    /\ c.op = "forget" => ForgetSure(c)
    /\ c.op = "purge" => c.ids \subseteq expired

Committed == \A p \in Processes : Sure(call[p])

(* A key that was looked for and not found is not there.                   *)
KeyFree ==
    \A p \in Processes :
        At(p, "remember", "insert") /\ call[p].new.key # NoKey =>
            Keyed(call[p].new.key) = {}

(* Only memories with a ttl_seconds expire, and none of those is promised. *)
Mortality ==
    /\ \A i \in expired : memories[i].mortal
    /\ acked \subseteq Lasting

(* What is not yet in the journal, or will never be.                       *)
Loose(p) == expired \cup cut
               \cup (IF call[p].at = "journal" THEN call[p].ids ELSE {})

Settled == \A p \in Processes : Journaling => Restored \ Loose(p) = rows \ Loose(p)

AloneInv == Committed /\ KeyFree /\ Mortality /\ OncePerKey /\ Settled

(* The process remembers the rows of its store.                            *)
CacheExact == \A p \in Processes : cache[p] \ expired = rows \ expired

(* What was promised is in the store, and what was ended is not.           *)
StoreKeeps == acked \ named \subseteq rows /\ gone \cap rows = {}

(* What a forget has deleted and is still in a cached answer.              *)
Ended(p) == IF At(p, "forget", "journal") \/ At(p, "forget", "invalidate")
            THEN call[p].ids ELSE {}

(* A cached answer is that of the store, but for the forget in progress.   *)
HotFresh ==
    \A p \in Processes : \A S \in hot[Holder(p)] :
        /\ acked \ named \subseteq S
        /\ S \cap Lasting \subseteq rows \cup Ended(p)

ForgetPending ==
    \A p \in Processes : Ended(p) \cap gone = {}

(* A query was asked since the last change.                                *)
QueryFresh ==
    \A p \in Query :
        /\ call[p].at \in {"lookup", "search", "put"}
        /\ call[p].must = acked \ named /\ call[p].not = gone
        /\ call[p].at = "put" =>
              acked \ named \subseteq call[p].ids /\ call[p].ids \cap Lasting \subseteq rows

PromiseInv ==
    CacheExact /\ StoreKeeps /\ HotFresh /\ ForgetPending /\ QueryFresh

-----------------------------------------------------------------------------
(* Types.                                                                  *)

Ats == {"start", "check", "insert", "delete", "lookup", "search", "put",
        "list", "purge", "journal", "invalidate"}

(* Row ids are handed out one after the other.                             *)
LEMMA KnownSet ==
    ASSUME DataTyped
    PROVE  /\ Known = 1..Len(memories) /\ Len(memories) \in Nat /\ Known \subseteq Ids
           /\ \A i \in Known : memories[i] \in Memory
  BY NodeAssumption DEF DataTyped, Known, Ids

(* The finer types of the invariant imply those of the model.              *)
LEMMA NodeTypeOK == NodeType => TypeOK
<1> SUFFICES ASSUME NodeType PROVE TypeOK
  OBVIOUS
<1>1. Known \subseteq Ids
  BY KnownSet DEF NodeType
<1>2. cache \in [Processes -> SUBSET Ids] /\ hot \in [Holders -> SUBSET SUBSET Ids]
  BY <1>1 DEF NodeType, CacheTyped, HotTyped
<1>3. QED
  BY <1>2 DEF NodeType, DataTyped, HotTyped, CallsTyped, HistoryTyped, AnswerTyped,
     TypeOK

(* An idle process is in no call, which is a call too.                     *)
LEMMA NoCallTyped == NoCall \in Call
<1>1. Blank \in Memory
  BY NodeAssumption DEF Blank, Memory
<1>2. QED
  BY <1>1 DEF NoCall, Call

(* The variables have their types in the first state.                      *)
LEMMA NodeTypeInit == Init => NodeType
<1> SUFFICES ASSUME Init PROVE NodeType
  OBVIOUS
<1>1. Known = {}
  BY DEF Init, Known
<1>2. DataTyped
  BY <1>1, NodeAssumption DEF Init, DataTyped
<1>3. CallsTyped
  BY NoCallTyped DEF Init, CallsTyped, NoCall
<1>4. QED
  BY <1>1, <1>2, <1>3 DEF Init, NodeType, CacheTyped, HotTyped, HistoryTyped, AnswerTyped

(* Memories and names are never taken back.                                *)
Grows == Known \subseteq Known' /\ named \subseteq named' /\ Known' \subseteq Ids

(* A call that goes on, ends or begins is typed, if what it takes is known. *)
LEMMA GoTyped ==
    ASSUME CallsTyped, Grows, NEW p \in Processes, NEW at \in Ats,
           NEW ids \in SUBSET Known', Go(p, at, ids)
    PROVE  CallsTyped'
<1>1. call[p] \in Call
  BY DEF CallsTyped
<1>2. call'[p] = [call[p] EXCEPT !.at = at, !.ids = ids]
  BY DEF Go, CallsTyped
<1>3. /\ call'[p] \in Call /\ call'[p].ids = ids /\ call'[p].op = call[p].op
      /\ call'[p].must = call[p].must /\ call'[p].not = call[p].not
  BY <1>1, <1>2 DEF Call, Ats, Grows
<1>4. \A q \in Processes \ {p} : call'[q] = call[q]
  BY DEF Go, CallsTyped
<1>5. call' \in [Processes -> Call]
  BY <1>3 DEF Go, CallsTyped
<1>6. QED
  BY <1>3, <1>4, <1>5 DEF CallsTyped, Grows

(* The same of a call that ends.                                           *)
LEMMA LeaveTyped ==
    ASSUME CallsTyped, Grows, NEW p \in Processes, Leave(p)
    PROVE  CallsTyped'
<1>1. call'[p] = NoCall /\ \A q \in Processes \ {p} : call'[q] = call[q]
  BY DEF Leave, CallsTyped
<1>2. NoCall.ids = {} /\ NoCall.must = {} /\ NoCall.not = {}
  BY DEF NoCall
<1>3. call' \in [Processes -> Call]
  BY NoCallTyped DEF Leave, CallsTyped
<1>4. QED
  BY <1>1, <1>2, <1>3 DEF CallsTyped, Grows

(* The same of a call that begins.                                         *)
LEMMA StartTyped ==
    ASSUME CallsTyped, Grows, NEW p \in Processes, NEW c \in Call, Start(p, c),
           c.ids \subseteq Known', c.must \subseteq Known', c.not \subseteq Known',
           c.op = "forget" => c.not \subseteq named'
    PROVE  CallsTyped'
<1>1. call'[p] = c /\ \A q \in Processes \ {p} : call'[q] = call[q]
  BY DEF Start, CallsTyped
<1>2. call' \in [Processes -> Call]
  BY DEF Start, CallsTyped
<1>3. QED
  BY <1>1, <1>2 DEF CallsTyped, Grows

(* What the variables keep when nothing is inserted.                       *)
LEMMA SameMemories ==
    ASSUME memories' = memories
    PROVE  Known' = Known
  BY DEF Known

(* Every step keeps the types, whoever shares the store.                   *)
LEMMA NodeTypeStep ==
    ASSUME NodeType, [Next]_vars
    PROVE  NodeType'
<1>1. DataTyped /\ CacheTyped /\ HotTyped /\ CallsTyped /\ HistoryTyped /\ AnswerTyped
  BY DEF NodeType
<1>2. Known \subseteq Ids
  BY <1>1, KnownSet
<1>3. ASSUME NEW p \in Processes, StartRemember(p) PROVE NodeType'
  <2>1. PICK m \in Memory :
           Start(p, [NoCall EXCEPT !.op = "remember", !.new = m,
                        !.at = IF m.key = NoKey THEN "insert" ELSE "check"])
    BY <1>3 DEF StartRemember
  <2> DEFINE c == [NoCall EXCEPT !.op = "remember", !.new = m,
                      !.at = IF m.key = NoKey THEN "insert" ELSE "check"]
  <2>2. /\ c \in Call /\ c.op = "remember" /\ c.ids = {} /\ c.must = {} /\ c.not = {}
    BY NoCallTyped DEF Call, NoCall
  <2>3. Known' = Known /\ Grows
    BY <1>2, <1>3, SameMemories DEF StartRemember, data, history, Grows
  <2> HIDE DEF c
  <2>4. CallsTyped'
    BY <1>1, <2>1, <2>2, <2>3, StartTyped DEF c
  <2>5. QED
    BY <1>1, <1>3, <2>3, <2>4 DEF StartRemember, NodeType, DataTyped, CacheTyped, HotTyped,
       HistoryTyped, AnswerTyped, data, history, bounds
<1>4. ASSUME NEW p \in Processes, CheckKey(p) PROVE NodeType'
  <2>1. Known' = Known /\ Grows
    BY <1>2, <1>4, SameMemories DEF CheckKey, data, history, Grows
  <2>2. CallsTyped'
    <3>1. CASE Go(p, "insert", {})
      BY <1>1, <2>1, <3>1, GoTyped DEF Ats
    <3>2. ASSUME NEW i \in Keyed(call[p].new.key), Go(p, "invalidate", {i})
          PROVE  CallsTyped'
      <4>1. {i} \in SUBSET Known'
        BY <1>1, <2>1 DEF Keyed, DataTyped
      <4>2. QED
        BY <1>1, <2>1, <3>2, <4>1, GoTyped DEF Ats
    <3>3. CASE Leave(p)
      BY <1>1, <2>1, <3>3, LeaveTyped
    <3>4. QED
      BY <1>4, <3>1, <3>2, <3>3 DEF CheckKey
  <2>3. QED
    BY <1>1, <1>4, <2>1, <2>2 DEF CheckKey, NodeType, DataTyped, CacheTyped, HotTyped,
       HistoryTyped, AnswerTyped, data, history, bounds
<1>5. ASSUME NEW p \in Processes, Insert(p) PROVE NodeType'
  <2>1. /\ call[p].new \in Memory /\ memories' = Append(memories, call[p].new)
        /\ NextId = Len(memories) + 1 /\ NextId <= MaxMemories
    BY <1>1, <1>5 DEF Insert, CallsTyped, Call, NextId
  <2>2. /\ memories' \in Seq(Memory) /\ Len(memories') = NextId
        /\ Known' = Known \cup {NextId} /\ Known' \subseteq Ids
    BY <1>1, <2>1, KnownSet, NodeAssumption DEF DataTyped, Known, Ids
  <2>3. Grows
    BY <1>5, <2>2 DEF Insert, Grows
  <2>4. CallsTyped'
    <3>1. AfterCommit \in Ats /\ {NextId} \in SUBSET Known'
      BY <2>2 DEF AfterCommit, Ats
    <3>2. QED
      BY <1>1, <1>5, <2>3, <3>1, GoTyped, LeaveTyped DEF Insert
  <2>5. DataTyped'
    BY <1>1, <1>5, <2>1, <2>2 DEF Insert, DataTyped, bounds
  <2>6. CacheTyped'
    BY <1>1, <1>5, <2>2 DEF Insert, CacheTyped
  <2>7. HistoryTyped'
    BY <1>1, <1>5, <2>2 DEF Insert, HistoryTyped
  <2>8. HotTyped' /\ AnswerTyped'
    BY <1>1, <1>5, <2>2 DEF Insert, HotTyped, AnswerTyped
  <2>9. QED
    BY <2>4, <2>5, <2>6, <2>7, <2>8 DEF NodeType
<1>6. ASSUME NEW p \in Processes, StartForget(p) PROVE NodeType'
  <2>1. PICK x \in Texts :
           /\ Start(p, [NoCall EXCEPT !.op = "forget", !.at = "delete",
                           !.new.text = x, !.not = WithText(x)])
           /\ named' = named \cup WithText(x)
    BY <1>6 DEF StartForget
  <2> DEFINE c == [NoCall EXCEPT !.op = "forget", !.at = "delete",
                      !.new.text = x, !.not = WithText(x)]
  <2>2. WithText(x) \subseteq Known
    BY DEF WithText
  <2>3. /\ c \in Call /\ c.ids = {} /\ c.must = {} /\ c.not = WithText(x)
    <3>1. [NoCall.new EXCEPT !.text = x] \in Memory
      BY NoCallTyped DEF Call, Memory
    <3>2. QED
      BY <1>2, <2>2, <3>1, NoCallTyped DEF Call, NoCall
  <2>4. Known' = Known /\ Grows
    BY <1>2, <1>6, <2>1, SameMemories DEF StartForget, data, Grows
  <2> HIDE DEF c
  <2>5. CallsTyped'
    BY <1>1, <2>1, <2>2, <2>3, <2>4, StartTyped DEF c
  <2>6. QED
    BY <1>1, <1>6, <2>1, <2>2, <2>4, <2>5 DEF StartForget, NodeType, DataTyped,
       CacheTyped, HotTyped, HistoryTyped, AnswerTyped, data
<1>7. ASSUME NEW p \in Processes, Delete(p) PROVE NodeType'
  <2> DEFINE hit == rows \cap WithText(call[p].new.text)
  <2>1. hit \subseteq Known
    BY <1>1 DEF DataTyped
  <2>2. Known' = Known /\ Grows
    BY <1>2, <1>7, SameMemories DEF Delete, Grows
  <2>3. CallsTyped'
    <3>1. AfterCommit \in Ats
      BY DEF AfterCommit, Ats
    <3>2. Leave(p) \/ Go(p, AfterCommit, hit)
      BY <1>7 DEF Delete
    <3> HIDE DEF hit
    <3>3. QED
      BY <1>1, <2>1, <2>2, <3>1, <3>2, GoTyped, LeaveTyped
  <2>4. DataTyped'
    BY <1>1, <1>7, <2>2 DEF Delete, DataTyped, bounds
  <2>5. CacheTyped'
    BY <1>1, <1>7, <2>2 DEF Delete, CacheTyped, Uncache
  <2>6. HistoryTyped'
    <3>1. gone' \subseteq named'
      <4>1. call[p].op = "forget" /\ call[p].not \subseteq named
        BY <1>1, <1>7 DEF Delete, At, CallsTyped
      <4>2. gone' = gone \/ gone' = gone \cup call[p].not
        BY <1>7 DEF Delete
      <4>3. QED
        BY <1>1, <2>2, <4>1, <4>2 DEF HistoryTyped, Grows
    <3>2. cut' \subseteq Known
      BY <1>1, <1>7, <2>1 DEF Delete, HistoryTyped
    <3>3. QED
      BY <1>1, <1>7, <2>1, <2>2, <3>1, <3>2 DEF Delete, HistoryTyped
  <2>7. HotTyped' /\ AnswerTyped'
    BY <1>1, <1>7, <2>2 DEF Delete, HotTyped, AnswerTyped
  <2>8. QED
    BY <2>3, <2>4, <2>5, <2>6, <2>7 DEF NodeType
<1>8. ASSUME NEW p \in Processes, AppendJournal(p) PROVE NodeType'
  <2>1. Known' = Known /\ Grows
    BY <1>2, <1>8, SameMemories DEF AppendJournal, history, Grows
  <2>2. CallsTyped'
    BY <1>1, <1>8, <2>1, GoTyped, LeaveTyped DEF AppendJournal, CallsTyped, Ats
  <2>3. [deletes |-> call[p].op # "remember", ids |-> call[p].ids] \in Entry
    BY <1>1 DEF CallsTyped, Call, Entry
  <2>4. journal' \in Seq(Entry)
    BY <1>1, <1>8, <2>3 DEF AppendJournal, DataTyped
  <2>5. QED
    BY <1>1, <1>8, <2>1, <2>2, <2>4 DEF AppendJournal, NodeType, DataTyped, CacheTyped,
       HotTyped, HistoryTyped, AnswerTyped, history, bounds
<1>9. ASSUME NEW p \in Processes, Invalidate(p) PROVE NodeType'
  <2>1. Known' = Known /\ Grows
    BY <1>2, <1>9, SameMemories DEF Invalidate, data, Grows
  <2>2. CallsTyped'
    BY <1>1, <1>9, <2>1, LeaveTyped DEF Invalidate
  <2>3. HotTyped'
    BY <1>1, <1>9, <2>1 DEF Invalidate, HotTyped
  <2>4. HistoryTyped'
    BY <1>1, <1>9, <2>1 DEF Invalidate, HistoryTyped, CallsTyped
  <2>5. QED
    BY <1>1, <1>9, <2>1, <2>2, <2>3, <2>4 DEF Invalidate, NodeType, DataTyped,
       CacheTyped, AnswerTyped, data, bounds
<1>10. ASSUME NEW p \in Processes, StartQuery(p) PROVE NodeType'
  <2> DEFINE c == [NoCall EXCEPT !.op = "query", !.at = "lookup",
                      !.must = acked \ named, !.not = gone]
  <2>1. /\ c \in Call /\ c.op = "query" /\ c.ids = {} /\ c.must = acked \ named
        /\ c.not = gone /\ c.must \subseteq Known /\ c.not \subseteq Known
    BY <1>1, <1>2, NoCallTyped DEF Call, NoCall, HistoryTyped
  <2>2. Known' = Known /\ Grows
    BY <1>2, <1>10, SameMemories DEF StartQuery, data, history, Grows
  <2>3. Start(p, c)
    BY <1>10 DEF StartQuery
  <2> HIDE DEF c
  <2>4. CallsTyped'
    BY <1>1, <2>1, <2>2, <2>3, StartTyped
  <2>5. QED
    BY <1>1, <1>10, <2>2, <2>4 DEF StartQuery, NodeType, DataTyped, CacheTyped,
       HotTyped, HistoryTyped, AnswerTyped, data, history, bounds
<1>11. ASSUME NEW p \in Processes, Lookup(p) PROVE NodeType'
  <2>1. Known' = Known /\ Grows
    BY <1>2, <1>11, SameMemories DEF Lookup, data, history, Grows
  <2>2. CallsTyped'
    BY <1>1, <1>11, <2>1, GoTyped, LeaveTyped DEF Lookup, Ats
  <2>3. AnswerTyped'
    BY <1>1, <1>2, <1>11 DEF Lookup, AnswerTyped, HotTyped, Holders
  <2>4. QED
    BY <1>1, <1>11, <2>1, <2>2, <2>3 DEF Lookup, NodeType, DataTyped, CacheTyped,
       HotTyped, HistoryTyped, data, history, bounds
<1>12. ASSUME NEW p \in Processes, NEW fresh \in BOOLEAN, Search(p, fresh)
       PROVE  NodeType'
  <2>1. Known' = Known /\ Grows
    BY <1>2, <1>12, SameMemories DEF Search, data, history, Grows
  <2>2. cache' \in [Processes -> SUBSET Known]
    BY <1>1, <1>12 DEF Search, CacheTyped, DataTyped, Reload, Live
  <2>3. CallsTyped'
    <3>1. cache'[p] \ expired \in SUBSET Known'
      BY <2>1, <2>2
    <3>2. Go(p, "put", cache'[p] \ expired)
      BY <1>12 DEF Search
    <3>3. QED
      BY <1>1, <2>1, <3>1, <3>2, GoTyped DEF Ats
  <2>4. QED
    BY <1>1, <1>12, <2>1, <2>2, <2>3 DEF Search, NodeType, DataTyped, CacheTyped,
       HotTyped, HistoryTyped, AnswerTyped, data, history, bounds
<1>13. ASSUME NEW p \in Processes, PutAnswer(p) PROVE NodeType'
  <2>1. Known' = Known /\ Grows
    BY <1>2, <1>13, SameMemories DEF PutAnswer, data, history, Grows
  <2>2. CallsTyped'
    BY <1>1, <1>13, <2>1, LeaveTyped DEF PutAnswer
  <2>3. call[p].ids \subseteq Known /\ Holder(p) \in Holders
    BY <1>1 DEF CallsTyped, Holders
  <2>4. HotTyped' /\ AnswerTyped'
    BY <1>1, <1>2, <1>13, <2>1, <2>3 DEF PutAnswer, HotTyped, AnswerTyped, Holders, Holder
  <2>5. QED
    BY <1>1, <1>13, <2>1, <2>2, <2>4 DEF PutAnswer, NodeType, DataTyped, CacheTyped,
       HistoryTyped, data, history, bounds
<1>14. ASSUME NEW p \in Processes, StartPurge(p) PROVE NodeType'
  <2> DEFINE c == [NoCall EXCEPT !.op = "purge",
                      !.at = IF Journaling THEN "list" ELSE "purge"]
  <2>1. c \in Call /\ c.op = "purge" /\ c.ids = {} /\ c.must = {} /\ c.not = {}
    BY NoCallTyped DEF Call, NoCall
  <2>2. Known' = Known /\ Grows
    BY <1>2, <1>14, SameMemories DEF StartPurge, data, history, Grows
  <2>3. Start(p, c)
    BY <1>14 DEF StartPurge
  <2> HIDE DEF c
  <2>4. CallsTyped'
    BY <1>1, <2>1, <2>2, <2>3, StartTyped
  <2>5. QED
    BY <1>1, <1>14, <2>2, <2>4 DEF StartPurge, NodeType, DataTyped, CacheTyped,
       HotTyped, HistoryTyped, AnswerTyped, data, history, bounds
<1>15. ASSUME NEW p \in Processes, ListExpired(p) PROVE NodeType'
  <2>1. Known' = Known /\ Grows
    BY <1>2, <1>15, SameMemories DEF ListExpired, data, history, Grows
  <2>2. rows \cap expired \in SUBSET Known'
    BY <1>1, <2>1 DEF DataTyped
  <2>3. CallsTyped'
    BY <1>1, <1>15, <2>1, <2>2, GoTyped DEF ListExpired, Ats
  <2>4. QED
    BY <1>1, <1>15, <2>1, <2>3 DEF ListExpired, NodeType, DataTyped, CacheTyped,
       HotTyped, HistoryTyped, AnswerTyped, data, history, bounds
<1>16. ASSUME NEW p \in Processes, Purge(p) PROVE NodeType'
  <2>1. Known' = Known /\ Grows
    BY <1>2, <1>16, SameMemories DEF Purge, history, Grows
  <2>2. Go(p, "journal", call[p].ids) \/ Leave(p)
    BY <1>16 DEF Purge
  <2>3. call[p].ids \in SUBSET Known'
    BY <1>1, <2>1 DEF CallsTyped
  <2>4. CallsTyped'
    BY <1>1, <2>1, <2>2, <2>3, GoTyped, LeaveTyped DEF Ats
  <2>5. CacheTyped'
    BY <1>1, <1>16, <2>1 DEF Purge, CacheTyped, DataTyped, Reload, Live
  <2>6. QED
    BY <1>1, <1>16, <2>1, <2>4, <2>5 DEF Purge, NodeType, DataTyped,
       HotTyped, HistoryTyped, AnswerTyped, history, bounds
<1>17. ASSUME NEW p \in Processes, Crash(p) PROVE NodeType'
  <2>1. Known' = Known /\ Grows
    BY <1>2, <1>17, SameMemories DEF Crash, data, Grows
  <2>2. CallsTyped'
    BY <1>1, <1>17, <2>1, LeaveTyped DEF Crash
  <2>3. CacheTyped'
    BY <1>1, <1>17, <2>1 DEF Crash, CacheTyped, DataTyped, Reload, Live, data
  <2>4. HotTyped'
    BY <1>1, <1>17, <2>1 DEF Crash, HotTyped
  <2>5. HistoryTyped'
    BY <1>1, <1>17, <2>1 DEF Crash, HistoryTyped, CallsTyped
  <2>6. QED
    BY <1>1, <1>17, <2>1, <2>2, <2>3, <2>4, <2>5 DEF Crash, NodeType, DataTyped,
       AnswerTyped, data
<1>18. ASSUME NEW i \in Ids, Expire(i) PROVE NodeType'
  <2>1. Known' = Known
    BY <1>18, SameMemories DEF Expire
  <2>2. QED
    BY <1>1, <1>18, <2>1 DEF Expire, NodeType, DataTyped, CacheTyped, HotTyped,
       CallsTyped, HistoryTyped, AnswerTyped, history, bounds
<1>19. ASSUME NEW h \in Holders, HotExpires(h) PROVE NodeType'
  <2>1. Known' = Known
    BY <1>19, SameMemories DEF HotExpires, data
  <2>2. QED
    BY <1>1, <1>19, <2>1 DEF HotExpires, NodeType, DataTyped, CacheTyped, HotTyped,
       CallsTyped, HistoryTyped, AnswerTyped, data, history, bounds
<1>20. CASE UNCHANGED vars
  <2>1. Known' = Known
    BY <1>20, SameMemories DEF vars, data
  <2>2. QED
    BY <1>1, <1>20, <2>1 DEF vars, NodeType, DataTyped, CacheTyped, HotTyped,
       CallsTyped, HistoryTyped, AnswerTyped, data, history, bounds
<1>21. QED
  BY <1>3, <1>4, <1>5, <1>6, <1>7, <1>8, <1>9, <1>10, <1>11, <1>12, <1>13,
     <1>14, <1>15, <1>16, <1>17, <1>18, <1>19, <1>20
     DEF Next, Step

-----------------------------------------------------------------------------
(* One process alone with its store.                                       *)

(* What a step of a call changes in it, and what it leaves.                *)
LEMMA GoFacts ==
    ASSUME CallsTyped, NEW p \in Processes, NEW at, NEW ids, Go(p, at, ids)
    PROVE  /\ call'[p].op = call[p].op /\ call'[p].new = call[p].new
           /\ call'[p].must = call[p].must /\ call'[p].not = call[p].not
           /\ call'[p].at = at /\ call'[p].ids = ids
<1>1. call[p] \in Call /\ call'[p] = [call[p] EXCEPT !.at = at, !.ids = ids]
  BY DEF Go, CallsTyped
<1>2. QED
  BY <1>1 DEF Call

(* A call that is over leaves nothing behind.                              *)
LEMMA LeaveFacts ==
    ASSUME CallsTyped, NEW p \in Processes, Leave(p)
    PROVE  /\ call'[p].op = "none" /\ call'[p].at = "start" /\ call'[p].ids = {}
           /\ call'[p].must = {} /\ call'[p].not = {}
  BY DEF Leave, CallsTyped, NoCall

(* A call that begins finds its process idle.                              *)
LEMMA StartFacts ==
    ASSUME CallsTyped, NEW p \in Processes, NEW c, Start(p, c)
    PROVE  call'[p] = c /\ call[p].op = "none" /\ call[p].at = "start" /\ call[p].ids = {}
  BY DEF Start, CallsTyped, NoCall

(* An entry for a remember adds its ids to what a restore gives, another   *)
(* takes them away.                                                        *)
LEMMA RestoredAppend ==
    ASSUME DataTyped, NEW e \in Entry, journal' = Append(journal, e)
    PROVE  Restored' = IF e.deletes THEN Restored \ e.ids ELSE Restored \cup e.ids
<1> DEFINE n == Len(journal) + 1
<1>1. /\ journal \in Seq(Entry) /\ DOMAIN journal = 1..Len(journal) /\ Len(journal) \in Nat
      /\ DOMAIN journal' = 1..n /\ n \in Nat
      /\ journal'[n] = e /\ \A k \in DOMAIN journal : journal'[k] = journal[k]
  BY DEF DataTyped
<1>2. e.ids \subseteq Ids /\ e.deletes \in BOOLEAN
  BY DEF Entry
<1> HIDE DEF n
<1>3. \A k \in DOMAIN journal : k < n /\ k \in DOMAIN journal'
  BY <1>1 DEF n
<1>4. \A k \in DOMAIN journal' : k = n \/ k \in DOMAIN journal
  BY <1>1 DEF n
<1>5. ASSUME NEW i \in Ids
      PROVE  i \in Restored' <=> IF e.deletes THEN i \in Restored /\ i \notin e.ids
                                              ELSE i \in Restored \/ i \in e.ids
  <2>1. ASSUME i \in Restored, e.deletes => i \notin e.ids PROVE i \in Restored'
    <3>1. PICK k \in DOMAIN journal :
             /\ ~journal[k].deletes /\ i \in journal[k].ids
             /\ \A l \in DOMAIN journal : l > k /\ journal[l].deletes => i \notin journal[l].ids
      BY <2>1 DEF Restored
    <3>2. \A l \in DOMAIN journal' : l > k /\ journal'[l].deletes => i \notin journal'[l].ids
      BY <1>1, <1>4, <2>1, <3>1
    <3>3. k \in DOMAIN journal' /\ ~journal'[k].deletes /\ i \in journal'[k].ids
      BY <1>1, <1>3, <3>1
    <3>4. QED
      BY <3>2, <3>3 DEF Restored
  <2>2. ASSUME ~e.deletes, i \in e.ids PROVE i \in Restored'
    <3>1. \A l \in DOMAIN journal' : ~(l > n)
      BY <1>1
    <3>2. n \in DOMAIN journal'
      BY <1>1 DEF n
    <3>3. QED
      BY <1>1, <2>2, <3>1, <3>2 DEF Restored
  <2>3. ASSUME i \in Restored' PROVE IF e.deletes THEN i \in Restored /\ i \notin e.ids
                                                   ELSE i \in Restored \/ i \in e.ids
    <3>1. PICK k \in DOMAIN journal' :
             /\ ~journal'[k].deletes /\ i \in journal'[k].ids
             /\ \A l \in DOMAIN journal' :
                   l > k /\ journal'[l].deletes => i \notin journal'[l].ids
      BY <2>3 DEF Restored
    <3>2. CASE k = n
      BY <1>1, <3>1, <3>2
    <3>3. CASE k \in DOMAIN journal
      <4>1. \A l \in DOMAIN journal : l > k /\ journal[l].deletes => i \notin journal[l].ids
        BY <1>1, <1>3, <3>1
      <4>2. i \in Restored
        BY <1>1, <3>1, <3>3, <4>1 DEF Restored
      <4>3. e.deletes => i \notin e.ids
        <5>1. n > k /\ n \in DOMAIN journal'
          BY <1>1, <1>3, <3>3 DEF n
        <5>2. QED
          BY <1>1, <3>1, <5>1
      <4>4. QED
        BY <4>2, <4>3
    <3>4. QED
      BY <1>4, <3>2, <3>3
  <2>4. QED
    BY <1>2, <2>1, <2>2, <2>3
<1>6. Restored \subseteq Ids /\ Restored' \subseteq Ids
  BY DEF Restored
<1>7. QED
  BY <1>2, <1>5, <1>6

(* Alone, the calls at the journal are the call of the one process.        *)
LEMMA SettledExact ==
    ASSUME Alone, Settled
    PROVE  RestoreExact
<1>1. PICK p : Processes = {p}
  BY DEF Alone
<1>2. UNION {call[q].ids : q \in {r \in Processes : call[r].at = "journal"}}
        = IF call[p].at = "journal" THEN call[p].ids ELSE {}
  BY <1>1
<1>3. QED
  BY <1>1, <1>2 DEF Settled, Loose, RestoreExact

(* Nothing is stored, journalled or expired in the first state.            *)
LEMMA AloneInit == Init => AloneInv
<1> SUFFICES ASSUME Init PROVE AloneInv
  OBVIOUS
<1>1. Committed
  BY DEF Init, Committed, Sure, NoCall, Ending
<1>2. KeyFree /\ Mortality /\ OncePerKey
  BY DEF Init, KeyFree, At, NoCall, Mortality, OncePerKey
<1>3. Restored = {}
  BY DEF Init, Restored
<1>4. Settled
  BY <1>3 DEF Init, Settled
<1>5. QED
  BY <1>1, <1>2, <1>4 DEF AloneInv

(* A step that neither writes nor appends leaves what it says of the store *)
(* as it was, if the call it leaves is sure and has lost nothing.          *)
LEMMA AloneQuiet ==
    ASSUME NodeType, AloneInv, NEW p \in Processes, Processes = {p},
           memories' = memories, rows' = rows, expired' = expired, journal' = journal,
           cut \subseteq cut', acked' \subseteq Lasting,
           Sure(call[p])',
           At(p, "remember", "insert")' /\ call'[p].new.key # NoKey =>
              Keyed(call'[p].new.key) = {},
           call[p].at = "journal" =>
              call[p].ids \subseteq cut' \/ (call'[p].at = "journal" /\ call'[p].ids = call[p].ids)
    PROVE  AloneInv'
<1>1. Committed'
  BY DEF Committed
<1>2. KeyFree'
  BY DEF KeyFree, Keyed
<1>3. Mortality'
  BY DEF AloneInv, Mortality, Lasting, Known
<1>4. OncePerKey'
  BY DEF AloneInv, OncePerKey
<1>5. Restored' = Restored
  BY DEF Restored
<1>6. Loose(p) \subseteq Loose(p)'
  BY DEF Loose
<1>7. Settled'
  BY <1>5, <1>6 DEF AloneInv, Settled
<1>8. QED
  BY <1>1, <1>2, <1>3, <1>4, <1>7 DEF AloneInv

(* The same of a call that begins or waits, and is neither at its end nor  *)
(* about to insert under a key.                                            *)
LEMMA AloneCalm ==
    ASSUME NodeType, AloneInv, NEW p \in Processes, Processes = {p},
           memories' = memories, rows' = rows, expired' = expired, journal' = journal,
           cut \subseteq cut', acked' \subseteq Lasting,
           call[p].at # "journal" \/ call[p].ids \subseteq cut',
           call'[p].at \notin Ending, call'[p].op # "forget",
           call'[p].op = "purge" => call'[p].ids \subseteq expired,
           At(p, "remember", "insert")' => call'[p].new.key = NoKey
    PROVE  AloneInv'
<1>1. Sure(call[p])'
  BY DEF Sure
<1>2. At(p, "remember", "insert")' /\ call'[p].new.key # NoKey =>
         Keyed(call'[p].new.key) = {}
  OBVIOUS
<1>3. call[p].at = "journal" =>
         call[p].ids \subseteq cut' \/ (call'[p].at = "journal" /\ call'[p].ids = call[p].ids)
  OBVIOUS
<1>4. QED
  BY <1>1, <1>2, <1>3, AloneQuiet

(* Every step of a node alone keeps its calls sure and its journal true.   *)
LEMMA AloneStep ==
    ASSUME NodeType, AloneInv, Alone, [Next]_vars
    PROVE  AloneInv'
<1> USE DEF Ending
<1>1. CallsTyped /\ DataTyped /\ Committed /\ KeyFree /\ Mortality /\ OncePerKey /\ Settled
  BY DEF NodeType, AloneInv
<1>2. /\ Known = 1..Len(memories) /\ Len(memories) \in Nat /\ Known \subseteq Ids
      /\ rows \subseteq Known /\ expired \subseteq Known
  BY <1>1, KnownSet DEF DataTyped
<1>a. PICK o : Processes = {o}
  BY DEF Alone
<1>b. acked \subseteq Lasting
  BY <1>1 DEF Mortality
<1>3. ASSUME NEW p \in Processes, StartRemember(p) PROVE AloneInv'
  <2>1. PICK m \in Memory :
           Start(p, [NoCall EXCEPT !.op = "remember", !.new = m,
                        !.at = IF m.key = NoKey THEN "insert" ELSE "check"])
    BY <1>3 DEF StartRemember
  <2> DEFINE c == [NoCall EXCEPT !.op = "remember", !.new = m,
                      !.at = IF m.key = NoKey THEN "insert" ELSE "check"]
  <2>2. /\ c.op = "remember" /\ c.ids = {} /\ c.new = m /\ c.at \in {"insert", "check"}
        /\ c.at = "insert" => m.key = NoKey
    BY DEF NoCall
  <2>3. Start(p, c)
    BY <2>1
  <2> HIDE DEF c
  <2>4. call'[p] = c /\ call[p].at = "start"
    BY <1>1, <2>3, StartFacts
  <2>5. At(p, "remember", "insert")' => call'[p].new.key = NoKey
    BY <2>2, <2>4 DEF At
  <2>6. UNCHANGED <<memories, rows, expired, journal, cut, acked>>
    BY <1>3 DEF StartRemember, data, history
  <2>7. QED
    BY <1>a, <1>b, <2>2, <2>4, <2>5, <2>6, AloneCalm
<1>4. ASSUME NEW p \in Processes, CheckKey(p) PROVE AloneInv'
  <2> DEFINE found == Keyed(call[p].new.key)
  <2>1. /\ UNCHANGED <<memories, rows, expired, journal, cut, acked>>
        /\ call[p].op = "remember" /\ call[p].at = "check"
    BY <1>4 DEF CheckKey, data, history, At
  <2>2. CASE found = {} /\ Go(p, "insert", {})
    <3>1. call'[p].op = "remember" /\ call'[p].at = "insert" /\ call'[p].new = call[p].new
      BY <1>1, <2>1, <2>2, GoFacts
    <3>2. Sure(call[p])'
      BY <3>1 DEF Sure
    <3>3. QED
      BY <1>a, <1>b, <2>1, <2>2, <3>1, <3>2, AloneQuiet
  <2>3. ASSUME NEW i \in found, memories[i] = call[p].new, Go(p, "invalidate", {i})
        PROVE  AloneInv'
    <3>1. /\ call'[p].op = "remember" /\ call'[p].at = "invalidate"
          /\ call'[p].ids = {i} /\ call'[p].new = call[p].new
      BY <1>1, <2>1, <2>3, GoFacts
    <3>2. i \in rows
      BY DEF Keyed
    <3>3. Sure(call[p])'
      BY <2>1, <2>3, <3>1, <3>2 DEF Sure, RememberSure
    <3>4. QED
      BY <1>a, <1>b, <2>1, <3>1, <3>3, AloneQuiet DEF At
  <2>4. CASE Leave(p)
    <3>1. call'[p].op = "none" /\ call'[p].at = "start" /\ call'[p].ids = {}
      BY <1>1, <2>4, LeaveFacts
    <3>2. QED
      BY <1>a, <1>b, <2>1, <3>1, AloneCalm DEF At
  <2>5. QED
    BY <1>4, <2>2, <2>3, <2>4 DEF CheckKey
<1>5. ASSUME NEW p \in Processes, Insert(p) PROVE AloneInv'
  <2> DEFINE m == call[p].new
             i == NextId
  <2>1. /\ m \in Memory /\ memories' = Append(memories, m) /\ i = Len(memories) + 1
        /\ rows' = rows \cup {i} /\ call[p].op = "remember" /\ call[p].at = "insert"
        /\ UNCHANGED <<expired, journal, acked>>
    BY <1>1, <1>5 DEF Insert, CallsTyped, Call, NextId, At
  <2>2. /\ i \notin Known /\ Known' = Known \cup {i} /\ memories'[i] = m
        /\ \A j \in Known : memories'[j] = memories[j]
    BY <1>1, <1>2, <2>1 DEF DataTyped, Known
  <2> HIDE DEF m, i
  <2>3. \/ /\ call'[p].op = "remember" /\ call'[p].at = AfterCommit
           /\ call'[p].ids = {i} /\ call'[p].new = m /\ cut' = cut
        \/ call'[p].op = "none" /\ call'[p].at = "start" /\ cut' = cut \cup {i}
    BY <1>1, <1>5, <2>1, GoFacts, LeaveFacts DEF Insert, m, i
  <2>4. Sure(call[p])'
    BY <2>1, <2>2, <2>3 DEF Sure, RememberSure, AfterCommit
  <2>5. Committed'
    BY <1>a, <2>4 DEF Committed
  <2>6. KeyFree'
    BY <1>a, <2>3 DEF KeyFree, At, AfterCommit
  <2>7. Mortality'
    BY <1>1, <1>2, <2>1, <2>2 DEF Mortality, Lasting
  <2>8. OncePerKey'
    <3>1. \A j \in rows : memories[j].key = m.key => m.key = NoKey
      BY <1>1, <2>1 DEF KeyFree, Keyed, At, m
    <3>2. QED
      BY <1>1, <1>2, <2>1, <2>2, <3>1 DEF OncePerKey
  <2>9. Restored' = Restored
    BY <2>1 DEF Restored
  <2>10. Journaling => Loose(p)' = Loose(p) \cup {i}
    BY <2>1, <2>3 DEF Loose, AfterCommit
  <2>11. Settled'
    BY <1>1, <1>a, <2>1, <2>9, <2>10 DEF Settled
  <2>12. QED
    BY <2>5, <2>6, <2>7, <2>8, <2>11 DEF AloneInv
<1>6. ASSUME NEW p \in Processes, StartForget(p) PROVE AloneInv'
  <2>1. PICK x \in Texts :
           Start(p, [NoCall EXCEPT !.op = "forget", !.at = "delete",
                           !.new.text = x, !.not = WithText(x)])
    BY <1>6 DEF StartForget
  <2> DEFINE c == [NoCall EXCEPT !.op = "forget", !.at = "delete",
                      !.new.text = x, !.not = WithText(x)]
  <2>2. c.op = "forget" /\ c.at = "delete" /\ c.not = WithText(x) /\ c.new.text = x
    BY NodeAssumption DEF NoCall, Blank
  <2>3. Start(p, c)
    BY <2>1
  <2> HIDE DEF c
  <2>4. call'[p] = c /\ call[p].at = "start"
    BY <1>1, <2>3, StartFacts
  <2>5. UNCHANGED <<memories, rows, expired, journal, cut, acked>>
    BY <1>6 DEF StartForget, data
  <2>6. Sure(call[p])'
    BY <2>2, <2>4, <2>5 DEF Sure, ForgetSure, WithText, Known
  <2>7. QED
    BY <1>a, <1>b, <2>2, <2>4, <2>5, <2>6, AloneQuiet DEF At
<1>7. ASSUME NEW p \in Processes, Delete(p) PROVE AloneInv'
  <2> DEFINE hit == rows \cap WithText(call[p].new.text)
  <2>1. /\ UNCHANGED <<memories, expired, journal, acked>> /\ rows' = rows \ hit
        /\ call[p].op = "forget" /\ call[p].at = "delete"
    BY <1>7 DEF Delete, At
  <2>2. Known' = Known
    BY <2>1, SameMemories
  <2>3. call[p].not \subseteq WithText(call[p].new.text)
    BY <1>1, <2>1 DEF Committed, Sure, ForgetSure
  <2>4. call[p].not \cap rows' = {} /\ hit \cap rows' = {}
    BY <2>1, <2>3
  <2>5. WithText(call[p].new.text)' = {j \in Known : memories[j].text = call'[p].new.text}
    BY <2>1, <2>2 DEF WithText
  <2>6. \/ /\ call'[p].op = "forget" /\ call'[p].at = AfterCommit
           /\ call'[p].ids = hit /\ call'[p].new = call[p].new
           /\ call'[p].not = call[p].not /\ cut' = cut
        \/ /\ call'[p].op = "none" /\ call'[p].at = "start" 
           /\ (hit = {} /\ cut' = cut) \/ cut' = cut \cup hit
    BY <1>1, <1>7, <2>1, GoFacts, LeaveFacts DEF Delete
  <2> HIDE DEF hit
  <2>7. Sure(call[p])'
    BY <2>3, <2>4, <2>5, <2>6 DEF Sure, ForgetSure, AfterCommit, WithText
  <2>8. Committed'
    BY <1>a, <2>7 DEF Committed
  <2>9. KeyFree'
    BY <1>a, <2>6 DEF KeyFree, At
  <2>10. Mortality' /\ OncePerKey'
    BY <1>1, <2>1, <2>2 DEF Mortality, OncePerKey, Lasting
  <2>11. Restored' = Restored
    BY <2>1 DEF Restored
  <2>12. Journaling => Loose(p)' = Loose(p) \cup hit
    BY <2>1, <2>6 DEF Loose, AfterCommit
  <2>13. Settled'
    BY <1>1, <1>a, <2>1, <2>11, <2>12 DEF Settled
  <2>14. QED
    BY <2>8, <2>9, <2>10, <2>13 DEF AloneInv
<1>8. ASSUME NEW p \in Processes, AppendJournal(p) PROVE AloneInv'
  <2> DEFINE e == [deletes |-> call[p].op # "remember", ids |-> call[p].ids]
  <2>1. /\ UNCHANGED <<memories, rows, expired, cut, acked>>
        /\ call[p].at = "journal" /\ journal' = Append(journal, e)
    BY <1>8 DEF AppendJournal, history
  <2>2. e \in Entry
    BY <1>1 DEF CallsTyped, Call, Entry
  <2>3. Restored' = IF call[p].op # "remember" THEN Restored \ call[p].ids
                                               ELSE Restored \cup call[p].ids
    BY <1>1, <2>1, <2>2, RestoredAppend
  <2>4. /\ Sure(call[p]) /\ call[p].op \in {"remember", "forget", "purge"}
    BY <1>1, <2>1 DEF Committed, Sure
  <2>5. \/ /\ call[p].op = "purge" /\ call'[p].op = "none" /\ call'[p].at = "start"
           /\ call'[p].ids = {}
        \/ /\ call[p].op # "purge" /\ call'[p].op = call[p].op /\ call'[p].at = "invalidate"
           /\ call'[p].ids = call[p].ids /\ call'[p].new = call[p].new
           /\ call'[p].not = call[p].not
    BY <1>1, <1>8, GoFacts, LeaveFacts DEF AppendJournal
  <2>6. Known' = Known
    BY <2>1, SameMemories
  <2>7. Sure(call[p])'
    BY <2>1, <2>4, <2>5, <2>6 DEF Sure, ForgetSure, RememberSure, WithText
  <2>8. Committed'
    BY <1>a, <2>7 DEF Committed
  <2>9. KeyFree'
    BY <1>a, <2>5 DEF KeyFree, At
  <2>10. Mortality' /\ OncePerKey'
    BY <1>1, <2>1, <2>6 DEF Mortality, OncePerKey, Lasting
  <2>11. Loose(p)' = expired \cup cut /\ Loose(p) = expired \cup cut \cup call[p].ids
    BY <2>1, <2>5 DEF Loose
  <2>12. ASSUME Journaling PROVE Restored' \ Loose(p)' = rows \ Loose(p)'
    <3>1. Restored \ Loose(p) = rows \ Loose(p)
      BY <1>1, <2>12 DEF Settled
    <3>2. CASE call[p].op = "remember"
      <4>1. call[p].ids \subseteq rows
        BY <2>1, <2>4, <3>2 DEF Sure, RememberSure
      <4>2. QED
        BY <2>3, <2>11, <3>1, <3>2, <4>1
    <3>3. CASE call[p].op = "forget"
      <4>1. call[p].ids \cap rows = {}
        BY <2>1, <2>4, <3>3 DEF Sure, ForgetSure
      <4>2. QED
        BY <2>3, <2>11, <3>1, <3>3, <4>1
    <3>4. CASE call[p].op = "purge"
      <4>1. call[p].ids \subseteq expired
        BY <2>4, <3>4 DEF Sure
      <4>2. QED
        BY <2>3, <2>11, <3>1, <3>4, <4>1
    <3>5. QED
      BY <2>4, <3>2, <3>3, <3>4
  <2>13. Settled'
    BY <1>a, <2>1, <2>12 DEF Settled
  <2>14. QED
    BY <2>8, <2>9, <2>10, <2>13 DEF AloneInv
<1>9. ASSUME NEW p \in Processes, Invalidate(p) PROVE AloneInv'
  <2>1. /\ UNCHANGED <<memories, rows, expired, journal, cut>>
        /\ call[p].at = "invalidate" /\ Leave(p)
    BY <1>9 DEF Invalidate, data
  <2>2. call'[p].op = "none" /\ call'[p].at = "start" /\ call'[p].ids = {}
    BY <1>1, <2>1, LeaveFacts
  <2>3. acked' \subseteq Lasting
    <3>1. call[p].op = "remember" /\ ~call[p].new.mortal => call[p].ids \subseteq Lasting
      BY <1>1, <1>2, <2>1 DEF Committed, Sure, RememberSure, Lasting
    <3>2. QED
      BY <1>b, <1>9, <3>1 DEF Invalidate
  <2>4. QED
    BY <1>a, <2>1, <2>2, <2>3, AloneCalm DEF At
<1>10. ASSUME NEW p \in Processes, StartQuery(p) PROVE AloneInv'
  <2> DEFINE c == [NoCall EXCEPT !.op = "query", !.at = "lookup",
                      !.must = acked \ named, !.not = gone]
  <2>1. Start(p, c) /\ UNCHANGED <<memories, rows, expired, journal, cut, acked>>
    BY <1>10 DEF StartQuery, data, history
  <2>2. c.op = "query" /\ c.at = "lookup"
    BY DEF NoCall
  <2> HIDE DEF c
  <2>3. call'[p] = c /\ call[p].at = "start"
    BY <1>1, <2>1, StartFacts
  <2>4. QED
    BY <1>a, <1>b, <2>1, <2>2, <2>3, AloneCalm DEF At
<1>11. ASSUME NEW p \in Processes, Lookup(p) PROVE AloneInv'
  <2>1. /\ UNCHANGED <<memories, rows, expired, journal, cut, acked>>
        /\ call[p].op = "query" /\ call[p].at = "lookup"
    BY <1>11 DEF Lookup, data, history, At
  <2>2. \/ call'[p].op = "query" /\ call'[p].at = "search"
        \/ call'[p].op = "none" /\ call'[p].at = "start"
    BY <1>1, <1>11, <2>1, GoFacts, LeaveFacts DEF Lookup
  <2>3. QED
    BY <1>a, <1>b, <2>1, <2>2, AloneCalm DEF At
<1>12. ASSUME NEW p \in Processes, NEW fresh \in BOOLEAN, Search(p, fresh)
       PROVE  AloneInv'
  <2>1. /\ UNCHANGED <<memories, rows, expired, journal, cut, acked>>
        /\ call[p].op = "query" /\ call[p].at = "search"
    BY <1>12 DEF Search, data, history, At
  <2>2. call'[p].op = "query" /\ call'[p].at = "put"
    BY <1>1, <1>12, <2>1, GoFacts DEF Search
  <2>3. QED
    BY <1>a, <1>b, <2>1, <2>2, AloneCalm DEF At
<1>13. ASSUME NEW p \in Processes, PutAnswer(p) PROVE AloneInv'
  <2>1. /\ UNCHANGED <<memories, rows, expired, journal, cut, acked>>
        /\ call[p].op = "query" /\ call[p].at = "put" /\ Leave(p)
    BY <1>13 DEF PutAnswer, data, history, At
  <2>2. call'[p].op = "none" /\ call'[p].at = "start"
    BY <1>1, <2>1, LeaveFacts
  <2>3. QED
    BY <1>a, <1>b, <2>1, <2>2, AloneCalm DEF At
<1>14. ASSUME NEW p \in Processes, StartPurge(p) PROVE AloneInv'
  <2> DEFINE c == [NoCall EXCEPT !.op = "purge",
                      !.at = IF Journaling THEN "list" ELSE "purge"]
  <2>1. Start(p, c) /\ UNCHANGED <<memories, rows, expired, journal, cut, acked>>
    BY <1>14 DEF StartPurge, data, history
  <2>2. c.op = "purge" /\ c.at \in {"list", "purge"} /\ c.ids = {}
    BY DEF NoCall
  <2> HIDE DEF c
  <2>3. call'[p] = c /\ call[p].at = "start"
    BY <1>1, <2>1, StartFacts
  <2>4. QED
    BY <1>a, <1>b, <2>1, <2>2, <2>3, AloneCalm DEF At
<1>15. ASSUME NEW p \in Processes, ListExpired(p) PROVE AloneInv'
  <2>1. /\ UNCHANGED <<memories, rows, expired, journal, cut, acked>>
        /\ call[p].op = "purge" /\ call[p].at = "list" /\ Go(p, "purge", rows \cap expired)
    BY <1>15 DEF ListExpired, data, history, At
  <2>2. /\ call'[p].op = "purge" /\ call'[p].at = "purge"
        /\ call'[p].ids = rows \cap expired
    BY <1>1, <2>1, GoFacts
  <2>3. QED
    BY <1>a, <1>b, <2>1, <2>2, AloneCalm DEF At
<1>16. ASSUME NEW p \in Processes, Purge(p) PROVE AloneInv'
  <2>1. /\ UNCHANGED <<memories, expired, journal, cut, acked>>
        /\ rows' = rows \ expired
        /\ call[p].op = "purge" /\ call[p].at = "purge"
    BY <1>16 DEF Purge, history, At
  <2>2. call[p].ids \subseteq expired
    BY <1>1, <2>1 DEF Committed, Sure
  <2>3. \/ /\ call'[p].op = "purge" /\ call'[p].at = "journal"
           /\ call'[p].ids = call[p].ids
        \/ call'[p].op = "none" /\ call'[p].at = "start"
    BY <1>1, <1>16, <2>1, GoFacts, LeaveFacts DEF Purge
  <2>4. Committed'
    BY <1>a, <2>1, <2>2, <2>3 DEF Committed, Sure
  <2>5. Known' = Known
    BY <2>1, SameMemories
  <2>6. KeyFree' /\ Mortality' /\ OncePerKey'
    BY <1>1, <1>a, <2>1, <2>3, <2>5 DEF KeyFree, At, Mortality, OncePerKey, Lasting
  <2>7. Restored' = Restored
    BY <2>1 DEF Restored
  <2>8. expired \subseteq Loose(p)' /\ Loose(p) \subseteq Loose(p)'
    BY <2>1, <2>3 DEF Loose
  <2>9. Settled'
    BY <1>1, <1>a, <2>1, <2>7, <2>8 DEF Settled
  <2>10. QED
    BY <2>4, <2>6, <2>9 DEF AloneInv
<1>17. ASSUME NEW p \in Processes, Crash(p) PROVE AloneInv'
  <2>1. /\ UNCHANGED <<memories, rows, expired, journal, acked>> /\ Leave(p)
        /\ cut' = IF call[p].at = "journal" THEN cut \cup call[p].ids ELSE cut
    BY <1>17 DEF Crash, data
  <2>2. call'[p].op = "none" /\ call'[p].at = "start"
    BY <1>1, <2>1, LeaveFacts
  <2>3. QED
    BY <1>a, <1>b, <2>1, <2>2, AloneCalm DEF At
<1>18. ASSUME NEW i \in Ids, Expire(i) PROVE AloneInv'
  <2>1. /\ UNCHANGED <<memories, rows, journal, cut, acked, call>>
        /\ expired' = expired \cup {i} /\ memories[i].mortal
    BY <1>18 DEF Expire, history
  <2>2. Known' = Known
    BY <2>1, SameMemories
  <2>3. \A p \in Processes : Sure(call[p])'
    BY <1>1, <2>1, <2>2 DEF Committed, Sure, RememberSure, ForgetSure, WithText
  <2>4. Committed' /\ KeyFree' /\ Mortality' /\ OncePerKey'
    BY <1>1, <2>1, <2>2, <2>3 DEF Committed, KeyFree, At, Keyed, Mortality, Lasting,
       OncePerKey
  <2>5. Restored' = Restored
    BY <2>1 DEF Restored
  <2>6. Settled'
    BY <1>1, <2>1, <2>5 DEF Settled, Loose
  <2>7. QED
    BY <2>4, <2>6 DEF AloneInv
<1>19. CASE UNCHANGED <<memories, rows, expired, journal, cut, acked, call>>
  <2>1. Known' = Known
    BY <1>19, SameMemories
  <2>2. \A p \in Processes : Sure(call[p])'
    BY <1>1, <1>19, <2>1 DEF Committed, Sure, RememberSure, ForgetSure, WithText
  <2>3. Committed' /\ KeyFree' /\ Mortality' /\ OncePerKey'
    BY <1>1, <1>19, <2>1, <2>2 DEF Committed, KeyFree, At, Keyed, Mortality, Lasting,
       OncePerKey
  <2>4. Restored' = Restored
    BY <1>19 DEF Restored
  <2>5. Settled'
    BY <1>1, <1>19, <2>4 DEF Settled, Loose
  <2>6. QED
    BY <2>3, <2>5 DEF AloneInv
<1>20. ASSUME NEW h \in Holders, HotExpires(h)
       PROVE  UNCHANGED <<memories, rows, expired, journal, cut, acked, call>>
  BY <1>20 DEF HotExpires, data, history
<1>21. CASE UNCHANGED vars
  BY <1>19, <1>21 DEF vars, data, history
<1>22. QED
  BY <1>3, <1>4, <1>5, <1>6, <1>7, <1>8, <1>9, <1>10, <1>11, <1>12, <1>13,
     <1>14, <1>15, <1>16, <1>17, <1>18, <1>19, <1>20, <1>21
     DEF Next, Step

-----------------------------------------------------------------------------
(* Any number of processes on one store.                                   *)

(* What a call that has committed knows, whatever the others do: its       *)
(* memories stay, unless they expire or a forget names them, and those a   *)
(* forget has deleted do not come back.                                    *)
Shared(c) ==
    /\ c.op = "remember" /\ c.at \in Ending =>
          /\ \A i \in c.ids : memories[i] = c.new
          /\ ~c.new.mortal => c.ids \ named \subseteq rows
    /\ c.op = "forget" =>
          /\ c.not \subseteq WithText(c.new.text)
          /\ c.at \in Ending => c.not \cap rows = {}

FleetInv == (\A p \in Processes : Shared(call[p])) /\ Mortality /\ StoreKeeps

(* What a step may do to the store: ids are new or stay gone, and only a   *)
(* memory that is mortal or named goes.                                    *)
Gentle ==
    /\ Known \subseteq Known' /\ \A i \in Known : memories'[i] = memories[i]
    /\ rows' \cap Known \subseteq rows /\ named \subseteq named'
    /\ \A i \in rows \ rows' : i \in named' \/ memories[i].mortal
    /\ \A i \in expired' \ expired : i \in Known /\ memories[i].mortal

(* Every step is gentle.                                                   *)
LEMMA GentleStep ==
    ASSUME NodeType, Mortality, [Next]_vars
    PROVE  Gentle
<1>1. DataTyped /\ CallsTyped
  BY DEF NodeType
<1>2. /\ Known = 1..Len(memories) /\ Len(memories) \in Nat
      /\ rows \subseteq Known /\ expired \subseteq Known
  BY <1>1, KnownSet DEF DataTyped
<1>3. ASSUME NEW p \in Processes, Insert(p) PROVE Gentle
  <2>1. /\ call[p].new \in Memory /\ memories' = Append(memories, call[p].new)
        /\ rows' = rows \cup {Len(memories) + 1} /\ UNCHANGED <<expired, named>>
    BY <1>1, <1>3 DEF Insert, CallsTyped, Call, NextId
  <2>2. /\ Len(memories) + 1 \notin Known /\ Known \subseteq Known'
        /\ \A i \in Known : memories'[i] = memories[i]
    BY <1>1, <1>2, <2>1 DEF DataTyped, Known
  <2>3. QED
    BY <2>1, <2>2 DEF Gentle
<1>4. ASSUME memories' = memories, named \subseteq named', rows' \subseteq rows,
             expired' = expired, \A i \in rows \ rows' : i \in named' \/ memories[i].mortal
      PROVE  Gentle
  BY <1>4, SameMemories DEF Gentle
<1>5. ASSUME NEW p \in Processes, Delete(p) PROVE Gentle
  BY <1>4, <1>5 DEF Delete
<1>6. ASSUME NEW p \in Processes, Purge(p) PROVE Gentle
  <2>1. \A i \in rows \ rows' : memories[i].mortal
    BY <1>6 DEF Purge, Mortality
  <2>2. QED
    BY <1>4, <1>6, <2>1 DEF Purge, history
<1>7. ASSUME NEW i \in Ids, Expire(i) PROVE Gentle
  BY <1>7, SameMemories DEF Expire, history, Gentle
<1>8. ASSUME UNCHANGED <<memories, rows, expired>>, named \subseteq named' PROVE Gentle
  BY <1>4, <1>8
<1>9. ASSUME NEW p \in Processes,
             \/ StartRemember(p) \/ StartForget(p) \/ StartQuery(p) \/ StartPurge(p)
             \/ CheckKey(p) \/ AppendJournal(p) \/ Invalidate(p) \/ Lookup(p)
             \/ (\E fresh \in BOOLEAN : Search(p, fresh)) \/ PutAnswer(p)
             \/ ListExpired(p) \/ Crash(p)
      PROVE  Gentle
  <2>1. UNCHANGED <<memories, rows, expired>>
    BY <1>9 DEF StartRemember, StartForget, StartQuery, StartPurge, CheckKey, AppendJournal,
       Invalidate, Lookup, Search, PutAnswer, ListExpired, Crash, data
  <2>2. named \subseteq named'
    BY <1>9 DEF StartRemember, StartForget, StartQuery, StartPurge, CheckKey, AppendJournal,
       Invalidate, Lookup, Search, PutAnswer, ListExpired, Crash, history
  <2>3. QED
    BY <1>8, <2>1, <2>2
<1>10. ASSUME NEW h \in Holders, HotExpires(h) PROVE Gentle
  BY <1>8, <1>10 DEF HotExpires, data, history
<1>11. ASSUME UNCHANGED vars PROVE Gentle
  BY <1>8, <1>11 DEF vars, data, history
<1>12. QED
  BY <1>3, <1>5, <1>6, <1>7, <1>9, <1>10, <1>11 DEF Next, Step

(* A gentle step leaves true what a call knows that it does not move on.   *)
LEMMA SharedKept ==
    ASSUME NodeType, Gentle, NEW q \in Processes, Shared(call[q]),
           call'[q].op = call[q].op, call'[q].new = call[q].new,
           call'[q].ids = call[q].ids, call'[q].not = call[q].not,
           call'[q].at \in Ending => call[q].at \in Ending
    PROVE  Shared(call[q])'
<1>1. rows \subseteq Known /\ call[q].ids \subseteq Known /\ call[q].not \subseteq Known
  BY DEF NodeType, DataTyped, CallsTyped
<1>2. ASSUME call[q].op = "remember", call[q].at \in Ending
      PROVE  /\ \A i \in call[q].ids : memories'[i] = call[q].new
             /\ ~call[q].new.mortal => call[q].ids \ named' \subseteq rows'
  BY <1>1, <1>2 DEF Shared, Gentle
<1>3. ASSUME call[q].op = "forget"
      PROVE  /\ call[q].not \subseteq {i \in Known' : memories'[i].text = call[q].new.text}
             /\ call[q].at \in Ending => call[q].not \cap rows' = {}
  <2>1. \A i \in call[q].not : i \in Known' /\ memories'[i].text = call[q].new.text
    BY <1>3 DEF Shared, Gentle, WithText
  <2>2. call[q].at \in Ending => call[q].not \cap rows' = {}
    BY <1>1, <1>3 DEF Shared, Gentle
  <2>3. QED
    BY <2>1, <2>2
<1>4. QED
  BY <1>2, <1>3 DEF Shared, Ending, WithText

(* What is left to show of a step: what its own call comes to know, and    *)
(* what it acknowledges.                                                   *)
LEMMA FleetQuiet ==
    ASSUME NodeType, FleetInv, Gentle,
           \A q \in Processes : call'[q] = call[q] \/ Shared(call[q])',
           acked' \subseteq Lasting, acked' \ named \subseteq rows,
           (gone' \ gone) \cap rows' = {}
    PROVE  FleetInv'
<1>1. DataTyped /\ HistoryTyped /\ Mortality /\ StoreKeeps
  BY DEF NodeType, FleetInv
<1>2. \A q \in Processes : Shared(call[q])'
  BY SharedKept DEF FleetInv
<1>3. Mortality'
  BY <1>1 DEF Mortality, Lasting, Gentle, DataTyped
<1>4. acked' \ named' \subseteq rows'
  BY DEF Lasting, Gentle
<1>5. gone' \cap rows' = {}
  BY <1>1 DEF StoreKeeps, Gentle, HistoryTyped
<1>6. QED
  BY <1>2, <1>3, <1>4, <1>5 DEF FleetInv, StoreKeeps

(* No call has begun in the first state.                                   *)
LEMMA FleetInit == Init => FleetInv
  BY DEF Init, FleetInv, Shared, NoCall, Mortality, StoreKeeps

(* Every step leaves every call what it knows.                             *)
LEMMA FleetStep ==
    ASSUME NodeType, FleetInv, [Next]_vars
    PROVE  FleetInv'
<1>1. /\ CallsTyped /\ DataTyped /\ HistoryTyped /\ Mortality /\ StoreKeeps
      /\ \A q \in Processes : Shared(call[q])
  BY DEF NodeType, FleetInv
<1>2. Gentle
  BY <1>1, GentleStep
<1>a. acked \subseteq Lasting /\ acked \ named \subseteq rows
  BY <1>1 DEF Mortality, StoreKeeps
<1>3. ASSUME NEW p \in Processes, \A q \in Processes \ {p} : call'[q] = call[q],
             acked' = acked, gone' = gone,
             call'[p].op \notin {"remember", "forget"} \/ Shared(call[p])'
      PROVE  FleetInv'
  <2>1. Shared(call[p])'
    BY <1>3 DEF Shared
  <2>2. QED
    BY <1>2, <1>3, <1>a, <2>1, FleetQuiet
<1>b. ASSUME NEW p \in Processes, NEW c, Start(p, c)
      PROVE  \A q \in Processes \ {p} : call'[q] = call[q]
  BY <1>1, <1>b DEF Start, CallsTyped
<1>c. ASSUME NEW p \in Processes, NEW at, NEW ids, Go(p, at, ids)
      PROVE  \A q \in Processes \ {p} : call'[q] = call[q]
  BY <1>1, <1>c DEF Go, CallsTyped
<1>d. ASSUME NEW p \in Processes, Leave(p)
      PROVE  (\A q \in Processes \ {p} : call'[q] = call[q]) /\ call'[p].op = "none"
  BY <1>1, <1>d, LeaveFacts DEF Leave, CallsTyped
<1>4. ASSUME NEW p \in Processes, StartRemember(p) PROVE FleetInv'
  <2>1. PICK m \in Memory :
           Start(p, [NoCall EXCEPT !.op = "remember", !.new = m,
                        !.at = IF m.key = NoKey THEN "insert" ELSE "check"])
    BY <1>4 DEF StartRemember
  <2> DEFINE c == [NoCall EXCEPT !.op = "remember", !.new = m,
                      !.at = IF m.key = NoKey THEN "insert" ELSE "check"]
  <2>2. c.op = "remember" /\ c.at \in {"insert", "check"} /\ Start(p, c)
    BY <2>1 DEF NoCall
  <2> HIDE DEF c
  <2>3. call'[p] = c
    BY <1>1, <2>2, StartFacts
  <2>4. Shared(call[p])'
    BY <2>2, <2>3 DEF Shared, Ending
  <2>5. QED
    BY <1>3, <1>4, <1>b, <2>2, <2>4 DEF StartRemember, history
<1>5. ASSUME NEW p \in Processes, CheckKey(p) PROVE FleetInv'
  <2>1. /\ call[p].op = "remember" /\ UNCHANGED <<memories, rows, acked, named, gone>>
    BY <1>5 DEF CheckKey, At, data, history
  <2>2. CASE Go(p, "insert", {})
    <3>1. call'[p].op = "remember" /\ call'[p].at = "insert"
      BY <1>1, <2>1, <2>2, GoFacts
    <3>2. Shared(call[p])'
      BY <3>1 DEF Shared, Ending
    <3>3. QED
      BY <1>3, <1>c, <2>1, <2>2, <3>2
  <2>3. ASSUME NEW i \in Keyed(call[p].new.key), memories[i] = call[p].new,
               Go(p, "invalidate", {i})
        PROVE  FleetInv'
    <3>1. /\ call'[p].op = "remember" /\ call'[p].ids = {i} /\ call'[p].new = call[p].new
      BY <1>1, <2>1, <2>3, GoFacts
    <3>2. Shared(call[p])'
      BY <2>1, <2>3, <3>1 DEF Shared, Keyed
    <3>3. QED
      BY <1>3, <1>c, <2>1, <2>3, <3>2
  <2>4. CASE Leave(p)
    BY <1>3, <1>d, <2>1, <2>4
  <2>5. QED
    BY <1>5, <2>2, <2>3, <2>4 DEF CheckKey
<1>6. ASSUME NEW p \in Processes, Insert(p) PROVE FleetInv'
  <2>1. /\ call[p].op = "remember" /\ UNCHANGED <<acked, named, gone>>
        /\ memories' = Append(memories, call[p].new) /\ rows' = rows \cup {NextId}
        /\ NextId = Len(memories) + 1 /\ call[p].new \in Memory
    BY <1>1, <1>6 DEF Insert, At, NextId, CallsTyped, Call
  <2>2. CASE Go(p, AfterCommit, {NextId})
    <3>1. /\ call'[p].op = "remember" /\ call'[p].ids = {NextId}
          /\ call'[p].new = call[p].new
      BY <1>1, <2>1, <2>2, GoFacts
    <3>2. memories'[NextId] = call[p].new
      BY <1>1, <2>1 DEF DataTyped
    <3>3. Shared(call[p])'
      BY <2>1, <3>1, <3>2 DEF Shared
    <3>4. QED
      BY <1>3, <1>c, <2>1, <2>2, <3>3
  <2>3. CASE Leave(p)
    BY <1>3, <1>d, <2>1, <2>3
  <2>4. QED
    BY <1>6, <2>2, <2>3 DEF Insert
<1>7. ASSUME NEW p \in Processes, StartForget(p) PROVE FleetInv'
  <2>1. PICK x \in Texts :
           Start(p, [NoCall EXCEPT !.op = "forget", !.at = "delete",
                           !.new.text = x, !.not = WithText(x)])
    BY <1>7 DEF StartForget
  <2> DEFINE c == [NoCall EXCEPT !.op = "forget", !.at = "delete",
                      !.new.text = x, !.not = WithText(x)]
  <2>2. c.op = "forget" /\ c.at = "delete" /\ c.not = WithText(x) /\ c.new.text = x
    BY NodeAssumption DEF NoCall, Blank
  <2>3. Start(p, c)
    BY <2>1
  <2> HIDE DEF c
  <2>4. call'[p] = c /\ UNCHANGED <<memories, acked, gone>>
    BY <1>1, <1>7, <2>3, StartFacts DEF StartForget, data
  <2>5. Shared(call[p])'
    BY <2>2, <2>4 DEF Shared, Ending, WithText, Known
  <2>6. QED
    BY <1>3, <1>b, <2>3, <2>4, <2>5
<1>8. ASSUME NEW p \in Processes, Delete(p) PROVE FleetInv'
  <2> DEFINE hit == rows \cap WithText(call[p].new.text)
  <2>1. /\ UNCHANGED <<memories, acked>> /\ rows' = rows \ hit /\ call[p].op = "forget"
    BY <1>8 DEF Delete, At
  <2>2. call[p].not \subseteq WithText(call[p].new.text)
    BY <1>1, <2>1 DEF Shared
  <2>3. call[p].not \cap rows' = {}
    BY <2>1, <2>2
  <2>4. CASE Leave(p) /\ gone' = gone \cup call[p].not
    <3>1. \A q \in Processes : call'[q] = call[q] \/ Shared(call[q])'
      BY <1>d, <2>4 DEF Shared
    <3>2. acked' \subseteq Lasting /\ acked' \ named \subseteq rows
      BY <1>a, <2>1
    <3>3. (gone' \ gone) \cap rows' = {}
      BY <2>3, <2>4
    <3>4. QED
      BY <1>2, <3>1, <3>2, <3>3, FleetQuiet
  <2>5. CASE Go(p, AfterCommit, hit) /\ gone' = gone
    <3>1. /\ call'[p].op = "forget" /\ call'[p].not = call[p].not
          /\ call'[p].new = call[p].new
      BY <1>1, <2>1, <2>5, GoFacts
    <3>2. call[p].not \subseteq {i \in Known' : memories'[i].text = call[p].new.text}
      BY <2>1, <2>2 DEF WithText, Known
    <3>3. Shared(call[p])'
      BY <2>3, <3>1, <3>2 DEF Shared, WithText
    <3> HIDE DEF hit
    <3>4. QED
      BY <1>3, <1>c, <2>1, <2>5, <3>3
  <2>6. CASE Leave(p) /\ gone' = gone
    BY <1>3, <1>d, <2>1, <2>6
  <2>7. QED
    BY <1>8, <2>4, <2>5, <2>6 DEF Delete
<1>9. ASSUME NEW p \in Processes, AppendJournal(p) PROVE FleetInv'
  <2>1. call[p].at = "journal" /\ UNCHANGED <<acked, gone>>
    BY <1>9 DEF AppendJournal, history
  <2>2. CASE Leave(p)
    BY <1>3, <1>d, <2>1, <2>2
  <2>3. CASE Go(p, "invalidate", call[p].ids)
    <3>1. /\ call'[p].op = call[p].op /\ call'[p].ids = call[p].ids
          /\ call'[p].new = call[p].new /\ call'[p].not = call[p].not
      BY <1>1, <2>3, GoFacts
    <3>2. Shared(call[p])'
      BY <1>1, <1>2, <2>1, <3>1, SharedKept DEF Ending
    <3>3. QED
      BY <1>3, <1>c, <2>1, <2>3, <3>2
  <2>4. QED
    BY <1>9, <2>2, <2>3 DEF AppendJournal
<1>10. ASSUME NEW p \in Processes, Invalidate(p) PROVE FleetInv'
  <2>1. /\ call[p].at = "invalidate" /\ Leave(p) /\ UNCHANGED <<memories, rows, named>>
    BY <1>10 DEF Invalidate, data
  <2>2. \A q \in Processes : call'[q] = call[q] \/ Shared(call[q])'
    BY <1>d, <2>1 DEF Shared
  <2>3. acked' \subseteq Lasting /\ acked' \ named \subseteq rows
    <3>1. ASSUME call[p].op = "remember", ~call[p].new.mortal
          PROVE  call[p].ids \subseteq Lasting /\ call[p].ids \ named \subseteq rows
      <4>1. call[p].ids \subseteq Known
        BY <1>1 DEF CallsTyped
      <4>2. Shared(call[p])
        BY <1>1
      <4>3. QED
        BY <2>1, <3>1, <4>1, <4>2 DEF Shared, Ending, Lasting
    <3>2. QED
      BY <1>10, <1>a, <3>1 DEF Invalidate
  <2>4. (gone' \ gone) \cap rows' = {}
    BY <1>1, <1>10, <2>1 DEF Invalidate, Shared, Ending
  <2>5. QED
    BY <1>2, <2>2, <2>3, <2>4, FleetQuiet
<1>11. ASSUME NEW p \in Processes, StartQuery(p) PROVE FleetInv'
  <2> DEFINE c == [NoCall EXCEPT !.op = "query", !.at = "lookup",
                      !.must = acked \ named, !.not = gone]
  <2>1. Start(p, c) /\ c.op = "query" /\ UNCHANGED <<acked, gone>>
    BY <1>11 DEF StartQuery, NoCall, history
  <2> HIDE DEF c
  <2>2. call'[p].op = "query"
    BY <1>1, <2>1, StartFacts
  <2>3. QED
    BY <1>3, <1>b, <2>1, <2>2
<1>12. ASSUME NEW p \in Processes, StartPurge(p) PROVE FleetInv'
  <2> DEFINE c == [NoCall EXCEPT !.op = "purge",
                      !.at = IF Journaling THEN "list" ELSE "purge"]
  <2>1. Start(p, c) /\ c.op = "purge" /\ UNCHANGED <<acked, gone>>
    BY <1>12 DEF StartPurge, NoCall, history
  <2> HIDE DEF c
  <2>2. call'[p].op = "purge"
    BY <1>1, <2>1, StartFacts
  <2>3. QED
    BY <1>3, <1>b, <2>1, <2>2
<1>13. ASSUME NEW p \in Processes, NEW at, NEW ids, call[p].op \in {"query", "purge"},
              Go(p, at, ids) \/ Leave(p), UNCHANGED <<acked, gone>>
       PROVE  FleetInv'
  <2>1. call'[p].op \in {"query", "purge", "none"}
    BY <1>1, <1>13, GoFacts, LeaveFacts
  <2>2. \A q \in Processes \ {p} : call'[q] = call[q]
    BY <1>13, <1>c, <1>d
  <2>3. QED
    BY <1>3, <1>13, <2>1, <2>2
<1>14. ASSUME NEW p \in Processes, Lookup(p) PROVE FleetInv'
  <2>1. /\ call[p].op = "query" /\ UNCHANGED <<acked, gone>>
        /\ Go(p, "search", {}) \/ Leave(p)
    BY <1>14 DEF Lookup, At, history
  <2>2. QED
    BY <1>13, <2>1
<1>15. ASSUME NEW p \in Processes, NEW fresh \in BOOLEAN, Search(p, fresh) PROVE FleetInv'
  <2>1. call[p].op = "query" /\ UNCHANGED <<acked, gone>> /\ Go(p, "put", cache'[p] \ expired)
    BY <1>15 DEF Search, At, history
  <2>2. QED
    BY <1>13, <2>1
<1>16. ASSUME NEW p \in Processes, PutAnswer(p) PROVE FleetInv'
  <2>1. call[p].op = "query" /\ UNCHANGED <<acked, gone>> /\ Leave(p)
    BY <1>16 DEF PutAnswer, At, history
  <2>2. QED
    BY <1>13, <2>1
<1>17. ASSUME NEW p \in Processes, ListExpired(p) PROVE FleetInv'
  <2>1. call[p].op = "purge" /\ UNCHANGED <<acked, gone>> /\ Go(p, "purge", rows \cap expired)
    BY <1>17 DEF ListExpired, At, history
  <2>2. QED
    BY <1>13, <2>1
<1>18. ASSUME NEW p \in Processes, Purge(p) PROVE FleetInv'
  <2>1. /\ call[p].op = "purge" /\ UNCHANGED <<acked, gone>>
        /\ Go(p, "journal", call[p].ids) \/ Leave(p)
    BY <1>18 DEF Purge, At, history
  <2>2. QED
    BY <1>13, <2>1
<1>19. ASSUME NEW p \in Processes, Crash(p) PROVE FleetInv'
  <2>1. UNCHANGED <<acked, gone>> /\ Leave(p)
    BY <1>19 DEF Crash
  <2>2. QED
    BY <1>3, <1>d, <2>1
<1>20. ASSUME UNCHANGED <<call, acked, gone>> PROVE FleetInv'
  <2>1. (gone' \ gone) \cap rows' = {}
    BY <1>20
  <2>2. QED
    BY <1>2, <1>20, <1>a, <2>1, FleetQuiet
<1>21. ASSUME NEW i \in Ids, Expire(i) PROVE FleetInv'
  BY <1>20, <1>21 DEF Expire, history
<1>22. ASSUME NEW h \in Holders, HotExpires(h) PROVE FleetInv'
  BY <1>20, <1>22 DEF HotExpires, history
<1>23. ASSUME UNCHANGED vars PROVE FleetInv'
  BY <1>20, <1>23 DEF vars, history
<1>24. QED
  BY <1>4, <1>5, <1>6, <1>7, <1>8, <1>9, <1>10, <1>11, <1>12, <1>14, <1>15, <1>16,
     <1>17, <1>18, <1>19, <1>21, <1>22, <1>23 DEF Next, Step

-----------------------------------------------------------------------------
(* A node that is alone keeps the promise.                                 *)

(* Nothing is promised in the first state.                                 *)
LEMMA PromiseInit == Init => PromiseInv
<1> SUFFICES ASSUME Init PROVE PromiseInv
  OBVIOUS
<1>1. CacheExact /\ StoreKeeps
  BY DEF Init, CacheExact, StoreKeeps
<1>2. HotFresh
  BY DEF Init, HotFresh, Holders
<1>3. ForgetPending /\ QueryFresh
  BY DEF Init, ForgetPending, QueryFresh, Query, NoCall
<1>4. QED
  BY <1>1, <1>2, <1>3 DEF PromiseInv

(* A step of a call that is no query and changes only the call.            *)
LEMMA PromiseCalm ==
    ASSUME PromiseInv, NEW p \in Processes, Processes = {p},
           UNCHANGED <<memories, rows, expired, cache, hot, acked, gone>>,
           named \subseteq named', call'[p].op # "query", Ended(p)' = Ended(p)
    PROVE  PromiseInv'
<1>1. CacheExact' /\ StoreKeeps' /\ ForgetPending'
  BY DEF PromiseInv, CacheExact, StoreKeeps, ForgetPending
<1>2. Lasting' = Lasting
  BY DEF Lasting, Known
<1>3. HotFresh'
  BY <1>2 DEF PromiseInv, HotFresh, Holder
<1>4. QueryFresh'
  BY DEF QueryFresh, Query
<1>5. QED
  BY <1>1, <1>3, <1>4 DEF PromiseInv

(* A forget holds back what it has deleted, and nothing else does.         *)
LEMMA NothingEnded ==
    ASSUME NEW p \in Processes
    PROVE  /\ call[p].op # "forget" => Ended(p) = {}
           /\ call'[p].op # "forget" => Ended(p)' = {}
           /\ call[p].at \notin Ending => Ended(p) = {}
           /\ call'[p].at \notin Ending => Ended(p)' = {}
  BY DEF Ended, At, Ending

(* Every step of a reliable node keeps what the promise needs.             *)
LEMMA PromiseStep ==
    ASSUME NodeType, AloneInv, PromiseInv, Alone, Reliable, [Next]_vars
    PROVE  PromiseInv'
<1>1. /\ CallsTyped /\ DataTyped /\ CacheTyped /\ HotTyped /\ HistoryTyped
      /\ Committed /\ Mortality
      /\ CacheExact /\ StoreKeeps /\ HotFresh /\ ForgetPending /\ QueryFresh
  BY DEF NodeType, AloneInv, PromiseInv
<1>2. /\ Known = 1..Len(memories) /\ Len(memories) \in Nat /\ Known \subseteq Ids
      /\ rows \subseteq Known /\ expired \subseteq Known
      /\ acked \subseteq Known /\ gone \subseteq Known
  BY <1>1, KnownSet DEF DataTyped, HistoryTyped
<1>a. PICK o : Processes = {o}
  BY DEF Alone
<1>b. /\ acked \subseteq Lasting /\ expired \cap Lasting = {}
  BY <1>1 DEF Mortality, Lasting
<1>c. \A p \in Processes : Holder(p) \in Holders
  BY DEF Holders
<1>3. ASSUME NEW p \in Processes, StartRemember(p) PROVE PromiseInv'
  <2>1. PICK m \in Memory :
           Start(p, [NoCall EXCEPT !.op = "remember", !.new = m,
                        !.at = IF m.key = NoKey THEN "insert" ELSE "check"])
    BY <1>3 DEF StartRemember
  <2> DEFINE c == [NoCall EXCEPT !.op = "remember", !.new = m,
                      !.at = IF m.key = NoKey THEN "insert" ELSE "check"]
  <2>2. c.op = "remember"
    BY DEF NoCall
  <2>3. Start(p, c)
    BY <2>1
  <2> HIDE DEF c
  <2>4. call'[p] = c /\ call[p].op = "none"
    BY <1>1, <2>3, StartFacts
  <2>5. Ended(p) = {} /\ Ended(p)' = {}
    BY <2>2, <2>4, NothingEnded
  <2>6. UNCHANGED <<memories, rows, expired, cache, hot, acked, named, gone>>
    BY <1>3 DEF StartRemember, data, history
  <2>7. QED
    BY <1>a, <2>2, <2>4, <2>5, <2>6, PromiseCalm
<1>4. ASSUME NEW p \in Processes, CheckKey(p) PROVE PromiseInv'
  <2>1. /\ UNCHANGED <<memories, rows, expired, cache, hot, acked, named, gone>>
        /\ call[p].op = "remember"
    BY <1>4 DEF CheckKey, data, history, At
  <2>2. call'[p].op \in {"remember", "none"}
    BY <1>1, <1>4, <2>1, GoFacts, LeaveFacts DEF CheckKey
  <2>3. Ended(p) = {} /\ Ended(p)' = {}
    BY <2>1, <2>2, NothingEnded
  <2>4. QED
    BY <1>a, <2>1, <2>2, <2>3, PromiseCalm
<1>5. ASSUME NEW p \in Processes, Insert(p) PROVE PromiseInv'
  <2> DEFINE i == NextId
  <2>1. /\ call[p].new \in Memory /\ memories' = Append(memories, call[p].new)
        /\ i = Len(memories) + 1 /\ rows' = rows \cup {i}
        /\ cache' = [cache EXCEPT ![p] = @ \cup {i}]
        /\ call[p].op = "remember"
        /\ UNCHANGED <<expired, hot, acked, named, gone>>
    BY <1>1, <1>5 DEF Insert, CallsTyped, Call, NextId, At, bounds
  <2>2. /\ i \notin Known /\ Known' = Known \cup {i}
        /\ \A j \in Known : memories'[j] = memories[j]
    BY <1>1, <1>2, <2>1 DEF DataTyped, Known
  <2> HIDE DEF i
  <2>3. call'[p].op \in {"remember", "none"}
    BY <1>1, <1>5, <2>1, GoFacts, LeaveFacts DEF Insert
  <2>4. Ended(p) = {} /\ Ended(p)' = {}
    BY <2>1, <2>3, NothingEnded
  <2>5. cache'[p] = cache[p] \cup {i}
    BY <1>1, <2>1 DEF CacheTyped
  <2>6. CacheExact'
    BY <1>1, <1>a, <2>1, <2>5 DEF CacheExact
  <2>7. StoreKeeps'
    BY <1>1, <1>2, <2>1, <2>2 DEF StoreKeeps
  <2>8. \A S \in SUBSET Known : S \cap Lasting' = S \cap Lasting
    BY <2>2 DEF Lasting
  <2>9. HotFresh'
    <3>1. ASSUME NEW S \in hot[Holder(p)]
          PROVE  acked \ named \subseteq S /\ S \cap Lasting' \subseteq rows'
      <4>1. S \subseteq Known
        BY <1>1, <1>c DEF HotTyped
      <4>2. acked \ named \subseteq S /\ S \cap Lasting \subseteq rows
        BY <1>1, <2>4 DEF HotFresh
      <4>3. QED
        BY <2>1, <2>8, <4>1, <4>2
    <3>2. QED
      BY <1>a, <2>1, <3>1 DEF HotFresh, Holder
  <2>10. ForgetPending' /\ QueryFresh'
    BY <1>a, <2>3, <2>4 DEF ForgetPending, QueryFresh, Query
  <2>11. QED
    BY <2>6, <2>7, <2>9, <2>10 DEF PromiseInv
<1>6. ASSUME NEW p \in Processes, StartForget(p) PROVE PromiseInv'
  <2>1. PICK x \in Texts :
           Start(p, [NoCall EXCEPT !.op = "forget", !.at = "delete",
                           !.new.text = x, !.not = WithText(x)])
    BY <1>6 DEF StartForget
  <2> DEFINE c == [NoCall EXCEPT !.op = "forget", !.at = "delete",
                      !.new.text = x, !.not = WithText(x)]
  <2>2. c.op = "forget" /\ c.at = "delete"
    BY DEF NoCall
  <2>3. Start(p, c)
    BY <2>1
  <2> HIDE DEF c
  <2>4. call'[p] = c /\ call[p].op = "none"
    BY <1>1, <2>3, StartFacts
  <2>5. Ended(p) = {} /\ Ended(p)' = {}
    BY <2>2, <2>4, NothingEnded DEF Ending
  <2>6. UNCHANGED <<memories, rows, expired, cache, hot, acked, gone>> /\ named \subseteq named'
    BY <1>6 DEF StartForget, data
  <2>7. QED
    BY <1>a, <2>2, <2>4, <2>5, <2>6, PromiseCalm
<1>7. ASSUME NEW p \in Processes, Delete(p) PROVE PromiseInv'
  <2> DEFINE hit == rows \cap WithText(call[p].new.text)
  <2>1. /\ UNCHANGED <<memories, expired, hot, acked>>
        /\ rows' = rows \ hit /\ named' = named \cup hit
        /\ call[p].op = "forget" /\ call[p].at = "delete"
    BY <1>7 DEF Delete, At
  <2>2. call[p].not \cap rows' = {}
    BY <1>1, <2>1 DEF Committed, Sure, ForgetSure
  <2>3. \/ /\ hit = {} /\ Leave(p) /\ gone' = gone \cup call[p].not /\ cache' = cache
        \/ /\ hit # {} /\ Go(p, AfterCommit, hit) /\ gone' = gone
           /\ cache' = [cache EXCEPT ![p] = @ \ hit]
    BY <1>7 DEF Delete, Reliable, Uncache
  <2> HIDE DEF hit
  <2>4. Lasting' = Lasting
    BY <2>1 DEF Lasting, Known
  <2>5. Ended(p)' = hit /\ call'[p].op # "query"
    <3>1. CASE hit = {} /\ Leave(p)
      BY <1>1, <3>1, LeaveFacts, NothingEnded
    <3>2. CASE Go(p, AfterCommit, hit)
      BY <1>1, <2>1, <3>2, GoFacts DEF Ended, At, AfterCommit
    <3>3. QED
      BY <2>3, <3>1, <3>2
  <2>6. Ended(p) = {}
    BY <2>1, NothingEnded DEF Ending
  <2>7. CacheExact'
    <3>1. cache'[p] = cache[p] \ hit
      BY <1>1, <2>3 DEF CacheTyped
    <3>2. QED
      BY <1>1, <1>a, <2>1, <3>1 DEF CacheExact
  <2>8. StoreKeeps'
    BY <1>1, <2>1, <2>2, <2>3 DEF StoreKeeps
  <2>9. HotFresh'
    BY <1>1, <1>a, <2>1, <2>4, <2>5, <2>6 DEF HotFresh, Holder
  <2>10. ForgetPending'
    <3>1. hit \subseteq rows
      BY DEF hit
    <3>2. hit \cap gone' = {}
      BY <1>1, <2>3, <3>1 DEF StoreKeeps
    <3>3. QED
      BY <1>a, <2>5, <3>2 DEF ForgetPending
  <2>11. QueryFresh'
    BY <1>a, <2>5 DEF QueryFresh, Query
  <2>12. QED
    BY <2>7, <2>8, <2>9, <2>10, <2>11 DEF PromiseInv
<1>8. ASSUME NEW p \in Processes, AppendJournal(p) PROVE PromiseInv'
  <2>1. /\ UNCHANGED <<memories, rows, expired, cache, hot, acked, named, gone>>
        /\ call[p].at = "journal"
    BY <1>8 DEF AppendJournal, history
  <2>2. call[p].op \in {"remember", "forget", "purge"}
    BY <1>1, <2>1 DEF Committed, Sure, Ending
  <2>3. \/ call[p].op = "purge" /\ call'[p].op = "none"
        \/ /\ call[p].op # "purge" /\ call'[p].op = call[p].op /\ call'[p].at = "invalidate"
           /\ call'[p].ids = call[p].ids
    BY <1>1, <1>8, GoFacts, LeaveFacts DEF AppendJournal
  <2>4. Ended(p)' = Ended(p) /\ call'[p].op # "query"
    BY <2>1, <2>2, <2>3 DEF Ended, At
  <2>5. QED
    BY <1>a, <2>1, <2>4, PromiseCalm
<1>9. ASSUME NEW p \in Processes, Invalidate(p) PROVE PromiseInv'
  <2>1. /\ UNCHANGED <<memories, rows, expired, cache, named>>
        /\ call[p].at = "invalidate" /\ Leave(p)
        /\ hot' = [hot EXCEPT ![Holder(p)] = {}]
    BY <1>9 DEF Invalidate, data, Reliable
  <2>2. call'[p].op = "none"
    BY <1>1, <2>1, LeaveFacts
  <2>3. Ended(p)' = {}
    BY <2>2, NothingEnded
  <2>4. CacheExact'
    BY <1>1, <2>1 DEF CacheExact
  <2>5. acked' \ named \subseteq rows
    <3>1. call[p].op = "remember" => call[p].ids \subseteq rows
      BY <1>1, <2>1 DEF Committed, Sure, RememberSure, Ending
    <3>2. QED
      BY <1>1, <1>9, <3>1 DEF Invalidate, StoreKeeps
  <2>6. gone' \cap rows = {}
    <3>1. call[p].op = "forget" => call[p].not \cap rows = {}
      BY <1>1, <2>1 DEF Committed, Sure, ForgetSure, Ending
    <3>2. QED
      BY <1>1, <1>9, <3>1 DEF Invalidate, StoreKeeps
  <2>7. StoreKeeps'
    BY <2>1, <2>5, <2>6 DEF StoreKeeps
  <2>8. HotFresh'
    <3>1. hot'[Holder(p)] = {}
      BY <1>1, <1>c, <2>1 DEF HotTyped
    <3>2. QED
      BY <1>a, <3>1 DEF HotFresh, Holder
  <2>9. ForgetPending' /\ QueryFresh'
    BY <1>a, <2>2, <2>3 DEF ForgetPending, QueryFresh, Query
  <2>10. QED
    BY <2>4, <2>7, <2>8, <2>9 DEF PromiseInv
<1>10. ASSUME NEW p \in Processes, StartQuery(p) PROVE PromiseInv'
  <2> DEFINE c == [NoCall EXCEPT !.op = "query", !.at = "lookup",
                      !.must = acked \ named, !.not = gone]
  <2>1. /\ Start(p, c)
        /\ UNCHANGED <<memories, rows, expired, cache, hot, acked, named, gone>>
    BY <1>10 DEF StartQuery, data, history
  <2>2. c.op = "query" /\ c.at = "lookup" /\ c.must = acked \ named /\ c.not = gone
    BY DEF NoCall
  <2> HIDE DEF c
  <2>3. call'[p] = c /\ call[p].op = "none"
    BY <1>1, <2>1, StartFacts
  <2>4. Ended(p) = {} /\ Ended(p)' = {}
    BY <2>2, <2>3, NothingEnded
  <2>5. Lasting' = Lasting
    BY <2>1 DEF Lasting, Known
  <2>6. CacheExact' /\ StoreKeeps' /\ ForgetPending'
    BY <1>1, <1>a, <2>1, <2>4 DEF CacheExact, StoreKeeps, ForgetPending
  <2>7. HotFresh'
    BY <1>1, <1>a, <2>1, <2>4, <2>5 DEF HotFresh, Holder
  <2>8. QueryFresh'
    BY <1>a, <2>1, <2>2, <2>3 DEF QueryFresh, Query
  <2>9. QED
    BY <2>6, <2>7, <2>8 DEF PromiseInv
<1>11. ASSUME NEW p \in Processes, Lookup(p) PROVE PromiseInv'
  <2>1. /\ UNCHANGED <<memories, rows, expired, cache, hot, acked, named, gone>>
        /\ call[p].op = "query" /\ call[p].at = "lookup"
    BY <1>11 DEF Lookup, data, history, At
  <2>2. \/ /\ call'[p].op = "query" /\ call'[p].at = "search"
           /\ call'[p].must = call[p].must /\ call'[p].not = call[p].not
        \/ call'[p].op = "none"
    BY <1>1, <1>11, <2>1, GoFacts, LeaveFacts DEF Lookup
  <2>3. Ended(p) = {} /\ Ended(p)' = {}
    BY <2>1, <2>2, NothingEnded
  <2>4. Lasting' = Lasting
    BY <2>1 DEF Lasting, Known
  <2>5. CacheExact' /\ StoreKeeps' /\ ForgetPending'
    BY <1>1, <1>a, <2>1, <2>3 DEF CacheExact, StoreKeeps, ForgetPending
  <2>6. HotFresh'
    BY <1>1, <1>a, <2>1, <2>3, <2>4 DEF HotFresh, Holder
  <2>7. call[p].must = acked \ named /\ call[p].not = gone
    BY <1>1, <2>1 DEF QueryFresh, Query
  <2>8. QueryFresh'
    BY <1>a, <2>1, <2>2, <2>7 DEF QueryFresh, Query
  <2>9. QED
    BY <2>5, <2>6, <2>8 DEF PromiseInv
<1>12. ASSUME NEW p \in Processes, NEW fresh \in BOOLEAN, Search(p, fresh)
       PROVE  PromiseInv'
  <2>1. /\ UNCHANGED <<memories, rows, expired, hot, acked, named, gone>>
        /\ call[p].op = "query" /\ call[p].at = "search"
        /\ Go(p, "put", cache'[p] \ expired)
        /\ cache' = IF fresh THEN Reload(p) ELSE cache
    BY <1>12 DEF Search, data, history, At
  <2>2. /\ call'[p].op = "query" /\ call'[p].at = "put"
        /\ call'[p].ids = cache'[p] \ expired
        /\ call'[p].must = call[p].must /\ call'[p].not = call[p].not
    BY <1>1, <2>1, GoFacts
  <2>3. Ended(p) = {} /\ Ended(p)' = {}
    BY <2>1, <2>2, NothingEnded
  <2>4. Lasting' = Lasting
    BY <2>1 DEF Lasting, Known
  <2>5. cache'[p] \ expired = rows \ expired
    <3>1. CASE fresh
      BY <1>1, <2>1, <3>1 DEF Reload, Live, CacheTyped
    <3>2. CASE ~fresh
      BY <1>1, <2>1, <3>2 DEF CacheExact
    <3>3. QED
      BY <3>1, <3>2
  <2>6. CacheExact'
    BY <1>a, <2>1, <2>5 DEF CacheExact
  <2>7. StoreKeeps' /\ ForgetPending'
    BY <1>1, <1>a, <2>1, <2>3 DEF StoreKeeps, ForgetPending
  <2>8. HotFresh'
    BY <1>1, <1>a, <2>1, <2>3, <2>4 DEF HotFresh, Holder
  <2>9. call[p].must = acked \ named /\ call[p].not = gone
    BY <1>1, <2>1 DEF QueryFresh, Query
  <2>10. acked \ named \subseteq call'[p].ids /\ call'[p].ids \cap Lasting \subseteq rows
    BY <1>1, <1>b, <2>2, <2>5 DEF StoreKeeps
  <2>11. QueryFresh'
    BY <1>a, <2>1, <2>2, <2>4, <2>9, <2>10 DEF QueryFresh, Query
  <2>12. QED
    BY <2>6, <2>7, <2>8, <2>11 DEF PromiseInv
<1>13. ASSUME NEW p \in Processes, PutAnswer(p) PROVE PromiseInv'
  <2>1. /\ UNCHANGED <<memories, rows, expired, cache, acked, named, gone>>
        /\ call[p].op = "query" /\ call[p].at = "put" /\ Leave(p)
        /\ hot' = [hot EXCEPT ![Holder(p)] = {call[p].ids}]
    BY <1>13 DEF PutAnswer, data, history, At
  <2>2. call'[p].op = "none"
    BY <1>1, <2>1, LeaveFacts
  <2>3. Ended(p)' = {}
    BY <2>2, NothingEnded
  <2>4. Lasting' = Lasting
    BY <2>1 DEF Lasting, Known
  <2>5. CacheExact' /\ StoreKeeps' /\ ForgetPending' /\ QueryFresh'
    BY <1>1, <1>a, <2>1, <2>2, <2>3 DEF CacheExact, StoreKeeps, ForgetPending,
       QueryFresh, Query
  <2>6. acked \ named \subseteq call[p].ids /\ call[p].ids \cap Lasting \subseteq rows
    BY <1>1, <2>1 DEF QueryFresh, Query
  <2>7. hot'[Holder(p)] = {call[p].ids}
    BY <1>1, <1>c, <2>1 DEF HotTyped
  <2>8. HotFresh'
    BY <1>a, <2>1, <2>3, <2>4, <2>6, <2>7 DEF HotFresh, Holder
  <2>9. QED
    BY <2>5, <2>8 DEF PromiseInv
<1>14. ASSUME NEW p \in Processes, StartPurge(p) PROVE PromiseInv'
  <2> DEFINE c == [NoCall EXCEPT !.op = "purge",
                      !.at = IF Journaling THEN "list" ELSE "purge"]
  <2>1. /\ Start(p, c)
        /\ UNCHANGED <<memories, rows, expired, cache, hot, acked, named, gone>>
    BY <1>14 DEF StartPurge, data, history
  <2>2. c.op = "purge"
    BY DEF NoCall
  <2> HIDE DEF c
  <2>3. call'[p] = c /\ call[p].op = "none"
    BY <1>1, <2>1, StartFacts
  <2>4. Ended(p) = {} /\ Ended(p)' = {}
    BY <2>2, <2>3, NothingEnded
  <2>5. QED
    BY <1>a, <2>1, <2>2, <2>3, <2>4, PromiseCalm
<1>15. ASSUME NEW p \in Processes, ListExpired(p) PROVE PromiseInv'
  <2>1. /\ UNCHANGED <<memories, rows, expired, cache, hot, acked, named, gone>>
        /\ call[p].op = "purge" /\ Go(p, "purge", rows \cap expired)
    BY <1>15 DEF ListExpired, data, history, At
  <2>2. call'[p].op = "purge"
    BY <1>1, <2>1, GoFacts
  <2>3. Ended(p) = {} /\ Ended(p)' = {}
    BY <2>1, <2>2, NothingEnded
  <2>4. QED
    BY <1>a, <2>1, <2>2, <2>3, PromiseCalm
<1>16. ASSUME NEW p \in Processes, Purge(p) PROVE PromiseInv'
  <2>1. /\ UNCHANGED <<memories, expired, hot, acked, named, gone>>
        /\ rows' = rows \ expired /\ call[p].op = "purge"
        /\ cache' = IF rows \cap expired = {} THEN cache ELSE Reload(p)
    BY <1>16 DEF Purge, history, At
  <2>2. call'[p].op \in {"purge", "none"}
    BY <1>1, <1>16, <2>1, GoFacts, LeaveFacts DEF Purge
  <2>3. Ended(p) = {} /\ Ended(p)' = {}
    BY <2>1, <2>2, NothingEnded
  <2>4. Lasting' = Lasting
    BY <2>1 DEF Lasting, Known
  <2>5. cache'[p] \ expired = rows \ expired
    BY <1>1, <2>1 DEF Reload, Live, CacheTyped, CacheExact
  <2>6. CacheExact'
    BY <1>a, <2>1, <2>5 DEF CacheExact
  <2>7. StoreKeeps'
    BY <1>1, <1>b, <2>1 DEF StoreKeeps
  <2>8. ForgetPending' /\ QueryFresh'
    BY <1>a, <2>2, <2>3 DEF ForgetPending, QueryFresh, Query
  <2>9. HotFresh'
    BY <1>1, <1>a, <1>b, <2>1, <2>3, <2>4 DEF HotFresh, Holder
  <2>10. QED
    BY <2>6, <2>7, <2>8, <2>9 DEF PromiseInv
<1>17. ASSUME NEW p \in Processes, Crash(p) PROVE PromiseInv'
  <2>1. /\ UNCHANGED <<memories, rows, expired, acked, named, gone>>
        /\ cache' = Reload(p) /\ Leave(p)
    BY <1>17 DEF Crash, data
  <2>2. ~Redis
    BY <1>17, NodeAssumption, <1>1 DEF Crash, Reliable, DataTyped
  <2>3. hot'[Holder(p)] = {}
    BY <1>1, <1>17, <1>c, <2>2 DEF Crash, HotTyped, Holder
  <2>4. call'[p].op = "none"
    BY <1>1, <2>1, LeaveFacts
  <2>5. Ended(p)' = {}
    BY <2>4, NothingEnded
  <2>6. CacheExact'
    BY <1>1, <1>a, <2>1 DEF CacheExact, Reload, Live, CacheTyped
  <2>7. StoreKeeps' /\ ForgetPending' /\ QueryFresh'
    BY <1>1, <1>a, <2>1, <2>4, <2>5 DEF StoreKeeps, ForgetPending, QueryFresh, Query
  <2>8. HotFresh'
    BY <1>a, <2>3 DEF HotFresh, Holder
  <2>9. QED
    BY <2>6, <2>7, <2>8 DEF PromiseInv
<1>18. ASSUME NEW i \in Ids, Expire(i) PROVE PromiseInv'
  <2>1. /\ UNCHANGED <<memories, rows, cache, hot, call, acked, named, gone>>
        /\ expired' = expired \cup {i}
    BY <1>18 DEF Expire, history
  <2>2. Lasting' = Lasting
    BY <2>1 DEF Lasting, Known
  <2>3. CacheExact'
    BY <1>1, <2>1 DEF CacheExact
  <2>4. StoreKeeps' /\ ForgetPending'
    BY <1>1, <2>1 DEF StoreKeeps, ForgetPending, Ended, At
  <2>5. HotFresh' /\ QueryFresh'
    BY <1>1, <2>1, <2>2 DEF HotFresh, Holder, Ended, At, QueryFresh, Query
  <2>6. QED
    BY <2>3, <2>4, <2>5 DEF PromiseInv
<1>19. ASSUME NEW h \in Holders, hot' \in {hot, [hot EXCEPT ![h] = {}]},
              UNCHANGED <<data, cache, call, acked, named, gone>>
       PROVE  PromiseInv'
  <2>1. Lasting' = Lasting
    BY <1>19 DEF Lasting, Known, data
  <2>2. CacheExact' /\ StoreKeeps' /\ ForgetPending'
    BY <1>1, <1>19 DEF CacheExact, StoreKeeps, ForgetPending, Ended, At, data
  <2>3. QueryFresh'
    BY <1>1, <1>19, <2>1 DEF QueryFresh, Query, data
  <2>4. \A p \in Processes : hot'[Holder(p)] \subseteq hot[Holder(p)]
    BY <1>1, <1>19, <1>c DEF HotTyped
  <2>5. HotFresh'
    BY <1>1, <1>19, <2>1, <2>4 DEF HotFresh, Holder, Ended, At, data
  <2>6. QED
    BY <2>2, <2>3, <2>5 DEF PromiseInv
<1>20. ASSUME NEW h \in Holders, HotExpires(h) PROVE PromiseInv'
  BY <1>19, <1>20 DEF HotExpires, history
<1>21. CASE UNCHANGED vars
  <2>1. PICK p : p \in Processes
    BY <1>a
  <2>2. QED
    BY <1>19, <1>21, <1>c, <2>1 DEF vars, history
<1>22. QED
  BY <1>3, <1>4, <1>5, <1>6, <1>7, <1>8, <1>9, <1>10, <1>11, <1>12, <1>13,
     <1>14, <1>15, <1>16, <1>17, <1>18, <1>20, <1>21
     DEF Next, Step

(* The question of the service, as MemoryNode maps it.                     *)
Question ==
    [open |-> Query # {},
     must |-> UNION {call[p].must : p \in Query},
     not |-> (UNION {call[p].not : p \in Query}) \cap Lasting]

(* Alone, the question is that of the one process, if it is asking.        *)
LEMMA QuestionOf ==
    ASSUME NEW p \in Processes, Processes = {p}
    PROVE  /\ call[p].op # "query" => Question = Promise!NoQuestion
           /\ call'[p].op # "query" => Question' = Promise!NoQuestion
           /\ call[p].op = "query" =>
                Question = [open |-> TRUE, must |-> call[p].must,
                            not |-> call[p].not \cap Lasting]
           /\ call'[p].op = "query" =>
                Question' = [open |-> TRUE, must |-> call'[p].must,
                             not |-> call'[p].not \cap Lasting']
<1>1. /\ call[p].op # "query" => Query = {}
      /\ call'[p].op # "query" => Query' = {}
      /\ call[p].op = "query" => Query = {p}
      /\ call'[p].op = "query" => Query' = {p}
  BY DEF Query
<1>2. /\ call[p].op # "query" => Question = Promise!NoQuestion
      /\ call'[p].op # "query" => Question' = Promise!NoQuestion
  BY <1>1 DEF Question, Promise!NoQuestion
<1>3. ASSUME call[p].op = "query"
      PROVE  Question = [open |-> TRUE, must |-> call[p].must,
                         not |-> call[p].not \cap Lasting]
  <2>1. Query = {p} /\ Query # {}
    BY <1>1, <1>3
  <2>2. UNION {call[q].must : q \in {p}} = call[p].must
    OBVIOUS
  <2>3. UNION {call[q].not : q \in {p}} = call[p].not
    OBVIOUS
  <2>4. QED
    BY <2>1, <2>2, <2>3 DEF Question
<1>4. ASSUME call'[p].op = "query"
      PROVE  Question' = [open |-> TRUE, must |-> call'[p].must,
                          not |-> call'[p].not \cap Lasting']
  <2>1. Query' = {p} /\ Query' # {}
    BY <1>1, <1>4
  <2>2. UNION {call'[q].must : q \in {p}} = call'[p].must
    OBVIOUS
  <2>3. UNION {call'[q].not : q \in {p}} = call'[p].not
    OBVIOUS
  <2>4. QED
    BY <2>1, <2>2, <2>3 DEF Question
<1>5. QED
  BY <1>2, <1>3, <1>4

(* A step the service does not see.                                        *)
Same ==
    /\ UNCHANGED <<acked, named, answer>>
    /\ (gone \cap Lasting)' = gone \cap Lasting
    /\ Question' = Question

(* Every step of a reliable node is a step of the service, or hidden from it. *)
LEMMA PromiseRefined ==
    ASSUME NodeType, AloneInv, PromiseInv, Alone, Reliable, [Next]_vars
    PROVE  [Promise!Next]_(Promise!vars)
<1>1. /\ CallsTyped /\ DataTyped /\ HotTyped /\ HistoryTyped /\ Committed
      /\ Mortality /\ StoreKeeps /\ HotFresh /\ QueryFresh
  BY DEF NodeType, AloneInv, PromiseInv
<1>2. /\ Known = 1..Len(memories) /\ Len(memories) \in Nat /\ Known \subseteq Ids
      /\ rows \subseteq Known /\ expired \subseteq Known
      /\ acked \subseteq Known /\ named \subseteq Known /\ gone \subseteq named
  BY <1>1, KnownSet DEF DataTyped, HistoryTyped
<1>a. PICK o : Processes = {o}
  BY DEF Alone
<1>b. Same => UNCHANGED Promise!vars
  BY DEF Same, Promise!vars, Question
<1>c. memories' = memories => Lasting' = Lasting
  BY DEF Lasting, Known
<1>3. ASSUME NEW p \in Processes, call[p].op # "query", call'[p].op # "query",
             memories' = memories, UNCHANGED <<acked, named, gone, answer>>
      PROVE  Same
  BY <1>a, <1>c, <1>3, QuestionOf DEF Same
<1>4. ASSUME NEW p \in Processes, StartRemember(p) PROVE Same
  <2>1. PICK m \in Memory :
           Start(p, [NoCall EXCEPT !.op = "remember", !.new = m,
                        !.at = IF m.key = NoKey THEN "insert" ELSE "check"])
    BY <1>4 DEF StartRemember
  <2> DEFINE c == [NoCall EXCEPT !.op = "remember", !.new = m,
                      !.at = IF m.key = NoKey THEN "insert" ELSE "check"]
  <2>2. c.op = "remember" /\ Start(p, c)
    BY <2>1 DEF NoCall
  <2> HIDE DEF c
  <2>3. call'[p].op = "remember" /\ call[p].op = "none"
    BY <1>1, <2>2, StartFacts
  <2>4. QED
    BY <1>3, <1>4, <2>3 DEF StartRemember, data, history
<1>5. ASSUME NEW p \in Processes, CheckKey(p) PROVE Same
  <2>1. call[p].op = "remember"
    BY <1>5 DEF CheckKey, At
  <2>2. call'[p].op \in {"remember", "none"}
    BY <1>1, <1>5, <2>1, GoFacts, LeaveFacts DEF CheckKey
  <2>3. QED
    BY <1>3, <1>5, <2>1, <2>2 DEF CheckKey, data, history
<1>6. ASSUME NEW p \in Processes, Insert(p) PROVE Same
  <2>1. /\ call[p].new \in Memory /\ memories' = Append(memories, call[p].new)
        /\ call[p].op = "remember" /\ UNCHANGED <<acked, named, gone, answer>>
    BY <1>1, <1>6 DEF Insert, CallsTyped, Call, At
  <2>2. call'[p].op \in {"remember", "none"}
    BY <1>1, <1>6, <2>1, GoFacts, LeaveFacts DEF Insert
  <2>3. Known \subseteq Known' /\ \A j \in Known : memories'[j] = memories[j]
    BY <1>1, <1>2, <2>1 DEF DataTyped, Known
  <2>4. (gone \cap Lasting)' = gone \cap Lasting
    BY <1>2, <2>1, <2>3 DEF Lasting
  <2>5. QED
    BY <1>a, <2>1, <2>2, <2>4, QuestionOf DEF Same
<1>7. ASSUME NEW p \in Processes, StartForget(p) PROVE Promise!Next
  <2>1. PICK x \in Texts :
           /\ Start(p, [NoCall EXCEPT !.op = "forget", !.at = "delete",
                           !.new.text = x, !.not = WithText(x)])
           /\ named' = named \cup WithText(x)
    BY <1>7 DEF StartForget
  <2> DEFINE c == [NoCall EXCEPT !.op = "forget", !.at = "delete",
                      !.new.text = x, !.not = WithText(x)]
  <2>2. c.op = "forget" /\ Start(p, c)
    BY <2>1 DEF NoCall
  <2> HIDE DEF c
  <2>3. call'[p].op = "forget" /\ call[p].op = "none"
    BY <1>1, <2>2, StartFacts
  <2>4. Question' = Question
    BY <1>a, <2>3, QuestionOf
  <2>5. UNCHANGED <<acked, gone, answer>> /\ Lasting' = Lasting
    BY <1>7, <1>c DEF StartForget, data
  <2>6. WithText(x) \in SUBSET Ids
    BY <1>2 DEF WithText
  <2>7. Promise!Name(WithText(x))
    BY <2>1, <2>4, <2>5 DEF Promise!Name, Question
  <2>8. QED
    BY <2>6, <2>7 DEF Promise!Next
<1>8. ASSUME NEW p \in Processes, Delete(p) PROVE Promise!Next
  <2> DEFINE hit == rows \cap WithText(call[p].new.text)
  <2>1. /\ UNCHANGED <<memories, acked, answer>> /\ named' = named \cup hit
        /\ call[p].op = "forget"
    BY <1>8 DEF Delete, At
  <2>2. \/ hit = {} /\ Leave(p) /\ gone' = gone \cup call[p].not
        \/ hit # {} /\ Go(p, AfterCommit, hit) /\ gone' = gone
    BY <1>8 DEF Delete, Reliable
  <2>3. hit \in SUBSET Ids
    BY <1>2 DEF hit
  <2> HIDE DEF hit
  <2>4. call'[p].op \in {"forget", "none"}
    BY <1>1, <2>1, <2>2, GoFacts, LeaveFacts
  <2>5. Question' = Question /\ Lasting' = Lasting
    BY <1>a, <1>c, <2>1, <2>4, QuestionOf
  <2>6. CASE hit = {} /\ gone' = gone \cup call[p].not
    <3> DEFINE X == call[p].not \cap Lasting
    <3>1. X \subseteq named /\ X \in SUBSET Ids
      BY <1>1, <1>2, <2>1 DEF CallsTyped
    <3>2. (gone \cap Lasting)' = (gone \cap Lasting) \cup X
      BY <2>5, <2>6
    <3>3. named' = named
      BY <2>1, <2>6
    <3> HIDE DEF X
    <3>4. Promise!End(X)
      BY <2>1, <2>5, <3>1, <3>2, <3>3 DEF Promise!End, Question
    <3>5. QED
      BY <3>1, <3>4 DEF Promise!Next
  <2>7. CASE gone' = gone
    <3>1. Promise!Name(hit)
      BY <2>1, <2>5, <2>7 DEF Promise!Name, Question
    <3>2. QED
      BY <2>3, <3>1 DEF Promise!Next
  <2>8. QED
    BY <2>2, <2>6, <2>7
<1>9. ASSUME NEW p \in Processes, AppendJournal(p) PROVE Same
  <2>1. call[p].at = "journal"
    BY <1>9 DEF AppendJournal
  <2>2. call[p].op \in {"remember", "forget", "purge"}
    BY <1>1, <2>1 DEF Committed, Sure, Ending
  <2>3. call'[p].op \in {call[p].op, "none"}
    BY <1>1, <1>9, GoFacts, LeaveFacts DEF AppendJournal
  <2>4. QED
    BY <1>3, <1>9, <2>2, <2>3 DEF AppendJournal, history
<1>10. ASSUME NEW p \in Processes, Invalidate(p) PROVE Promise!Next
  <2>1. /\ UNCHANGED <<memories, named, answer>>
        /\ call[p].at = "invalidate" /\ Leave(p)
    BY <1>10 DEF Invalidate, data
  <2>2. call[p].op \in {"remember", "forget", "purge"}
    BY <1>1, <2>1 DEF Committed, Sure, Ending
  <2>3. call'[p].op = "none"
    BY <1>1, <2>1, LeaveFacts
  <2>4. Question' = Question /\ Lasting' = Lasting
    BY <1>a, <1>c, <2>1, <2>2, <2>3, QuestionOf
  <2>5. CASE call[p].op = "forget"
    <3> DEFINE X == call[p].not \cap Lasting
    <3>1. X \subseteq named /\ X \in SUBSET Ids
      BY <1>1, <1>2, <2>5 DEF CallsTyped
    <3>2. (gone \cap Lasting)' = (gone \cap Lasting) \cup X /\ acked' = acked
      BY <1>10, <2>4, <2>5 DEF Invalidate
    <3> HIDE DEF X
    <3>3. Promise!End(X)
      BY <2>1, <2>4, <3>1, <3>2 DEF Promise!End, Question
    <3>4. QED
      BY <3>1, <3>3 DEF Promise!Next
  <2>6. CASE call[p].op # "forget"
    <3>1. call[p].ids \in SUBSET Ids
      BY <1>1, <1>2 DEF CallsTyped
    <3>2. PICK X \in SUBSET Ids : acked' = acked \cup X
      <4>1. acked' = acked \cup call[p].ids \/ acked' = acked \cup {}
        BY <1>10 DEF Invalidate
      <4>2. QED
        BY <3>1, <4>1
    <3>3. gone' = gone
      BY <1>10, <2>6 DEF Invalidate
    <3>4. Promise!Keep(X)
      BY <2>1, <2>4, <3>2, <3>3 DEF Promise!Keep, Question
    <3>5. QED
      BY <3>4 DEF Promise!Next
  <2>7. QED
    BY <2>5, <2>6
<1>11. ASSUME NEW p \in Processes, StartQuery(p) PROVE Promise!Next
  <2> DEFINE c == [NoCall EXCEPT !.op = "query", !.at = "lookup",
                      !.must = acked \ named, !.not = gone]
  <2>1. Start(p, c) /\ UNCHANGED <<memories, acked, named, gone>> /\ answer' = {}
    BY <1>11 DEF StartQuery, data, history
  <2>2. c.op = "query" /\ c.must = acked \ named /\ c.not = gone
    BY DEF NoCall
  <2> HIDE DEF c
  <2>3. call'[p] = c /\ call[p].op = "none"
    BY <1>1, <2>1, StartFacts
  <2>4. Lasting' = Lasting
    BY <1>c, <2>1
  <2>5. /\ Question = Promise!NoQuestion
        /\ Question' = [open |-> TRUE, must |-> acked \ named, not |-> gone \cap Lasting]
    BY <1>a, <2>2, <2>3, <2>4, QuestionOf
  <2>6. ~Question.open
    BY <2>5 DEF Promise!NoQuestion
  <2>7. Promise!Ask
    BY <2>1, <2>4, <2>5, <2>6 DEF Promise!Ask, Question
  <2>8. QED
    BY <2>7 DEF Promise!Next
<1>12. ASSUME NEW p \in Processes, call[p].op = "query", Leave(p), NEW S \in SUBSET Ids,
              UNCHANGED <<memories, acked, named, gone>>, answer' = {S},
              acked \ named \subseteq S, S \cap Lasting \subseteq rows
       PROVE  Promise!Next
  <2>1. call'[p].op = "none"
    BY <1>1, <1>12, LeaveFacts
  <2>2. call[p].must = acked \ named /\ call[p].not = gone
    BY <1>1, <1>12 DEF QueryFresh, Query
  <2>3. /\ Question = [open |-> TRUE, must |-> acked \ named, not |-> gone \cap Lasting]
        /\ Question' = Promise!NoQuestion
    BY <1>a, <1>12, <2>1, <2>2, QuestionOf
  <2>4. Lasting' = Lasting
    BY <1>c, <1>12
  <2>5. /\ Question.open /\ Question.must \ named \subseteq S
        /\ S \cap Question.not = {}
    BY <1>1, <1>12, <2>3 DEF StoreKeeps
  <2>6. Promise!Give(S)
    BY <1>12, <2>3, <2>4, <2>5 DEF Promise!Give, Question
  <2>7. QED
    BY <2>6 DEF Promise!Next
<1>13. ASSUME NEW p \in Processes, Lookup(p) PROVE Promise!Next \/ Same
  <2>1. /\ UNCHANGED <<memories, acked, named, gone>> /\ call[p].op = "query"
    BY <1>13 DEF Lookup, data, history, At
  <2>2. CASE Go(p, "search", {}) /\ answer' = answer
    <3>1. /\ call'[p].op = "query" /\ call'[p].must = call[p].must
          /\ call'[p].not = call[p].not
      BY <1>1, <2>1, <2>2, GoFacts
    <3>2. Lasting' = Lasting
      BY <1>c, <2>1
    <3>3. Question' = Question
      BY <1>a, <2>1, <3>1, <3>2, QuestionOf
    <3>4. QED
      BY <2>1, <2>2, <3>2, <3>3 DEF Same
  <2>3. CASE hot[Holder(p)] # {} /\ Leave(p) /\ answer' = hot[Holder(p)]
    <3>1. PICK S : S \in hot[Holder(p)]
      BY <2>3
    <3>2. Holder(p) \in Holders
      BY DEF Holders
    <3>3. S \in SUBSET Ids /\ hot[Holder(p)] = {S}
      BY <1>1, <1>2, <3>1, <3>2 DEF HotTyped
    <3>4. Ended(p) = {}
      BY <2>1, NothingEnded
    <3>5. acked \ named \subseteq S /\ S \cap Lasting \subseteq rows
      BY <1>1, <3>1, <3>4 DEF HotFresh
    <3>6. QED
      BY <1>12, <2>1, <2>3, <3>3, <3>5
  <2>4. QED
    BY <1>13, <2>2, <2>3 DEF Lookup
<1>14. ASSUME NEW p \in Processes, NEW fresh \in BOOLEAN, Search(p, fresh) PROVE Same
  <2>1. /\ UNCHANGED <<memories, acked, named, gone, answer>> /\ call[p].op = "query"
    BY <1>14 DEF Search, data, history, At
  <2>2. /\ call'[p].op = "query" /\ call'[p].must = call[p].must
        /\ call'[p].not = call[p].not
    BY <1>1, <1>14, <2>1, GoFacts DEF Search
  <2>3. Lasting' = Lasting
    BY <1>c, <2>1
  <2>4. Question' = Question
    BY <1>a, <2>1, <2>2, <2>3, QuestionOf
  <2>5. QED
    BY <2>1, <2>3, <2>4 DEF Same
<1>15. ASSUME NEW p \in Processes, PutAnswer(p) PROVE Promise!Next
  <2>1. /\ UNCHANGED <<memories, acked, named, gone>> /\ answer' = {call[p].ids}
        /\ call[p].op = "query" /\ call[p].at = "put" /\ Leave(p)
    BY <1>15 DEF PutAnswer, data, history, At
  <2>2. acked \ named \subseteq call[p].ids /\ call[p].ids \cap Lasting \subseteq rows
    BY <1>1, <2>1 DEF QueryFresh, Query
  <2>3. call[p].ids \in SUBSET Ids
    BY <1>1, <1>2 DEF CallsTyped
  <2>4. QED
    BY <1>12, <2>1, <2>2, <2>3
<1>16. ASSUME NEW p \in Processes, StartPurge(p) PROVE Same
  <2> DEFINE c == [NoCall EXCEPT !.op = "purge",
                      !.at = IF Journaling THEN "list" ELSE "purge"]
  <2>1. Start(p, c) /\ c.op = "purge"
    BY <1>16 DEF StartPurge, NoCall
  <2> HIDE DEF c
  <2>2. call'[p].op = "purge" /\ call[p].op = "none"
    BY <1>1, <2>1, StartFacts
  <2>3. QED
    BY <1>3, <1>16, <2>2 DEF StartPurge, data, history
<1>17. ASSUME NEW p \in Processes, ListExpired(p) PROVE Same
  <2>1. call[p].op = "purge"
    BY <1>17 DEF ListExpired, At
  <2>2. call'[p].op = "purge"
    BY <1>1, <1>17, <2>1, GoFacts DEF ListExpired
  <2>3. QED
    BY <1>3, <1>17, <2>1, <2>2 DEF ListExpired, data, history
<1>18. ASSUME NEW p \in Processes, Purge(p) PROVE Same
  <2>1. call[p].op = "purge"
    BY <1>18 DEF Purge, At
  <2>2. call'[p].op \in {"purge", "none"}
    BY <1>1, <1>18, <2>1, GoFacts, LeaveFacts DEF Purge
  <2>3. QED
    BY <1>3, <1>18, <2>1, <2>2 DEF Purge, history
<1>19. ASSUME NEW p \in Processes, Crash(p) PROVE Promise!Next \/ Same
  <2>1. UNCHANGED <<memories, acked, named, gone, answer>> /\ Leave(p)
    BY <1>19 DEF Crash, data
  <2>2. call'[p].op = "none" /\ Lasting' = Lasting
    BY <1>1, <1>c, <2>1, LeaveFacts
  <2>3. CASE call[p].op = "query"
    <3>1. Question' = Promise!NoQuestion /\ Question.open
      BY <1>a, <2>2, <2>3, QuestionOf
    <3>2. Promise!Refuse
      BY <2>1, <2>2, <3>1 DEF Promise!Refuse, Question
    <3>3. QED
      BY <3>2 DEF Promise!Next
  <2>4. CASE call[p].op # "query"
    BY <1>3, <2>1, <2>2, <2>4
  <2>5. QED
    BY <2>3, <2>4
<1>20. ASSUME UNCHANGED <<memories, call, acked, named, gone, answer>> PROVE Same
  <2>1. Lasting' = Lasting /\ Query' = Query
    BY <1>c, <1>20 DEF Query
  <2>2. QED
    BY <1>20, <2>1 DEF Same, Question
<1>21. ASSUME NEW i \in Ids, Expire(i) PROVE Same
  BY <1>20, <1>21 DEF Expire, history
<1>22. ASSUME NEW h \in Holders, HotExpires(h) PROVE Same
  BY <1>20, <1>22 DEF HotExpires, data, history
<1>23. ASSUME UNCHANGED vars PROVE Same
  BY <1>20, <1>23 DEF vars, data, history
<1>24. Promise!Next \/ Same
  <2> HIDE DEF Same
  <2>1. ASSUME NEW p \in Processes,
               \/ StartRemember(p) \/ StartForget(p) \/ StartQuery(p) \/ StartPurge(p)
               \/ Crash(p) \/ Step(p)
        PROVE  Promise!Next \/ Same
    BY <1>4, <1>5, <1>6, <1>7, <1>8, <1>9, <1>10, <1>11, <1>13, <1>14, <1>15,
       <1>16, <1>17, <1>18, <1>19, <2>1 DEF Step
  <2>2. QED
    BY <1>21, <1>22, <1>23, <2>1 DEF Next
<1>25. QED
  BY <1>b, <1>24

(* The first state of the node is the first of the service.                *)
LEMMA PromiseStarts == Init => Promise!Init
<1> SUFFICES ASSUME Init PROVE Promise!Init
  OBVIOUS
<1>1. Query = {}
  BY DEF Init, NoCall, Query
<1>2. Question = Promise!NoQuestion
  BY <1>1 DEF Question, Promise!NoQuestion
<1>3. QED
  BY <1>2 DEF Init, Promise!Init, Question

-----------------------------------------------------------------------------
(* Theorems.                                                               *)

(* The types hold of every node, whatever fails and whoever shares the     *)
(* store.                                                                  *)
THEOREM NodeTypeCorrect == Spec => []TypeOK
<1>1. NodeType /\ [Next]_vars => NodeType'
  BY NodeTypeStep
<1>2. QED
  BY NodeTypeInit, <1>1, NodeTypeOK, PTL DEF Spec

(* The store keeps what was promised, whoever shares it and whatever fails: *)
(* an acknowledged memory that no forget named is a row, and no row is one  *)
(* that a returned forget has ended.                                       *)
THEOREM SharedStoreKeeps == Spec => []StoreKeeps
<1>1. NodeType /\ FleetInv /\ [Next]_vars => NodeType' /\ FleetInv'
  BY NodeTypeStep, FleetStep
<1>2. FleetInv => StoreKeeps
  BY DEF FleetInv
<1>3. QED
  BY NodeTypeInit, FleetInit, <1>1, <1>2, PTL DEF Spec

(* The invariant of a node alone with its store holds throughout.          *)
LEMMA AloneHolds == ASSUME Alone PROVE Spec => [](NodeType /\ AloneInv)
<1>1. NodeType /\ AloneInv /\ [Next]_vars => NodeType' /\ AloneInv'
  BY NodeTypeStep, AloneStep
<1>2. QED
  BY NodeTypeInit, AloneInit, <1>1, PTL DEF Spec

(* With the store to itself, a node remembers once per key, however often  *)
(* the call is repeated, through crashes and errors of the index.          *)
THEOREM OneMemoryPerKey == ASSUME Alone PROVE Spec => []OncePerKey
<1>1. AloneInv => OncePerKey
  BY DEF AloneInv
<1>2. QED
  BY AloneHolds, <1>1, PTL

(* Whatever is replayed from the journal is what lives in the store, up to *)
(* what time has ended, what a call still owes and what one left unsaid.   *)
THEOREM RestoresExactly == ASSUME Alone PROVE Spec => []RestoreExact
<1>1. AloneInv => RestoreExact
  BY SettledExact DEF AloneInv
<1>2. QED
  BY AloneHolds, <1>1, PTL

(* A node alone with its store implements MemoryService.                   *)
THEOREM NodeKeepsPromise == ASSUME Alone, Reliable PROVE Spec => KeepsPromise
<1>1. PromiseInv /\ NodeType /\ AloneInv /\ [Next]_vars => PromiseInv'
  BY PromiseStep
<1>2. PromiseInv /\ NodeType /\ AloneInv /\ [Next]_vars => [Promise!Next]_(Promise!vars)
  BY PromiseRefined
<1>3. QED
  BY AloneHolds, PromiseInit, PromiseStarts, <1>1, <1>2, PTL
     DEF Spec, KeepsPromise, Promise!Spec

-----------------------------------------------------------------------------
(* The lease and the receipt of a run.                                     *)

(* A run at work is the owner of its job's receipt.                        *)
ReceiptOwned ==
    \A r \in Runs : pc[r] \in {"working", "worked"} => receipt[JobOf[r]] = r

(* From acquire to release a sound run holds its lease and beats.          *)
LeaseOwned ==
    \A r \in Sound :
        pc[r] \in Claimed \cup {"locked", "releasing"} => Holds(r) /\ beating[r]

(* The receipt of finished work is still its run's, or completed, if Redis *)
(* answers the run; the run is past its work.                              *)
WorkReceipted ==
    \A r \in finished \ Faulty :
        /\ receipt[JobOf[r]] \in {r, Done}
        /\ pc[r] \in {"worked", "releasing", "ended", "raised", "dead"}

(* The variables keep their types in the first state.                      *)
LEMMA LeaseTypeInit == LeaseInit => LeaseTypeOK
  BY RunsAssumption DEF LeaseInit, LeaseTypeOK, Claimed

(* Every step keeps the types.                                             *)
LEMMA LeaseTypeStep ==
    ASSUME LeaseTypeOK, [LeaseNext]_leaseVars
    PROVE  LeaseTypeOK'
<1>1. [LeaseNext]_leaseVars
  OBVIOUS
<1>2. /\ JobOf \in [Runs -> Jobs] /\ NamespaceOf \in [Runs -> LockKeys]
      /\ Nobody \notin Runs /\ Done \notin Runs /\ Nobody # Done
  BY RunsAssumption
<1>3. ASSUME NEW r \in Runs, Acquire(r) PROVE LeaseTypeOK'
  BY <1>3, <1>2 DEF Acquire, LeaseTypeOK, Claimed, Goto, SetLock, SetReceipt, Holds
<1>4. ASSUME NEW r \in Runs, SkipLocked(r) PROVE LeaseTypeOK'
  BY <1>4, <1>2 DEF SkipLocked, LeaseTypeOK, Claimed, Goto, SetLock, SetReceipt, Holds
<1>5. ASSUME NEW r \in Runs, Claim(r) PROVE LeaseTypeOK'
  BY <1>5, <1>2 DEF Claim, LeaseTypeOK, Claimed, Goto, SetLock, SetReceipt, Holds
<1>6. ASSUME NEW r \in Runs, SkipDuplicate(r) PROVE LeaseTypeOK'
  BY <1>6, <1>2 DEF SkipDuplicate, LeaseTypeOK, Claimed, Goto, SetLock, SetReceipt, Holds
<1>7. ASSUME NEW r \in Runs, Work(r) PROVE LeaseTypeOK'
  BY <1>7, <1>2 DEF Work, LeaseTypeOK, Claimed, Goto, SetLock, SetReceipt, Holds
<1>8. ASSUME NEW r \in Runs, Complete(r) PROVE LeaseTypeOK'
  BY <1>8, <1>2 DEF Complete, LeaseTypeOK, Claimed, Goto, SetLock, SetReceipt, Holds
<1>9. ASSUME NEW r \in Runs, Fail(r) PROVE LeaseTypeOK'
  BY <1>9, <1>2 DEF Fail, LeaseTypeOK, Claimed, Goto, SetLock, SetReceipt, Holds
<1>10. ASSUME NEW r \in Runs, Release(r) PROVE LeaseTypeOK'
  BY <1>10, <1>2 DEF Release, LeaseTypeOK, Claimed, Goto, SetLock, SetReceipt, Holds
<1>11. ASSUME NEW r \in Runs, AcquireRaises(r) PROVE LeaseTypeOK'
  BY <1>11, <1>2 DEF AcquireRaises, LeaseTypeOK, Claimed, Goto, SetLock, SetReceipt, Holds
<1>12. ASSUME NEW r \in Runs, ClaimRaises(r) PROVE LeaseTypeOK'
  BY <1>12, <1>2 DEF ClaimRaises, LeaseTypeOK, Claimed, Goto, SetLock, SetReceipt, Holds
<1>13. ASSUME NEW r \in Runs, WorkRaises(r) PROVE LeaseTypeOK'
  BY <1>13, <1>2 DEF WorkRaises, LeaseTypeOK, Claimed, Goto, SetLock, SetReceipt, Holds
<1>14. ASSUME NEW r \in Runs, CompleteRaises(r) PROVE LeaseTypeOK'
  BY <1>14, <1>2 DEF CompleteRaises, LeaseTypeOK, Claimed, Goto, SetLock, SetReceipt, Holds
<1>15. ASSUME NEW r \in Runs, FailRaises(r) PROVE LeaseTypeOK'
  BY <1>15, <1>2 DEF FailRaises, LeaseTypeOK, Claimed, Goto, SetLock, SetReceipt, Holds
<1>16. ASSUME NEW r \in Runs, ReleaseRaises(r) PROVE LeaseTypeOK'
  BY <1>16, <1>2 DEF ReleaseRaises, LeaseTypeOK, Claimed, Goto, SetLock, SetReceipt, Holds
<1>17. ASSUME NEW r \in Runs, RefreshLost(r) PROVE LeaseTypeOK'
  BY <1>17, <1>2 DEF RefreshLost, LeaseTypeOK, Claimed, Goto, SetLock, SetReceipt, Holds
<1>18. ASSUME NEW r \in Runs, RefreshRaises(r) PROVE LeaseTypeOK'
  BY <1>18, <1>2 DEF RefreshRaises, LeaseTypeOK, Claimed, Goto, SetLock, SetReceipt, Holds
<1>19. ASSUME NEW r \in Runs, RunDies(r) PROVE LeaseTypeOK'
  BY <1>19, <1>2 DEF RunDies, LeaseTypeOK, Claimed, Goto, SetLock, SetReceipt, Holds
<1>20. ASSUME NEW n \in LockKeys, LockExpires(n) PROVE LeaseTypeOK'
  BY <1>20, <1>2 DEF LockExpires, LeaseTypeOK, Claimed, Goto, SetLock, SetReceipt, Holds
<1>21. ASSUME NEW j \in Jobs, ReceiptExpires(j) PROVE LeaseTypeOK'
  BY <1>21, <1>2 DEF ReceiptExpires, LeaseTypeOK, Claimed, Goto, SetLock, SetReceipt, Holds
<1>22. CASE UNCHANGED leaseVars
  BY <1>22, <1>2 DEF leaseVars, LeaseTypeOK, Claimed, Goto, SetLock, SetReceipt, Holds
<1>23. QED
  BY <1>1, <1>3, <1>4, <1>5, <1>6, <1>7, <1>8, <1>9, <1>10, <1>11, <1>12,
     <1>13, <1>14, <1>15, <1>16, <1>17, <1>18, <1>19, <1>20, <1>21,
     <1>22
     DEF LeaseNext, RunStep, Mishap

(* Types hold in every reachable state, whatever Redis does.               *)
THEOREM LeaseTypeCorrect == LeaseSpec => []LeaseTypeOK
<1>1. LeaseInit => LeaseTypeOK
  BY LeaseTypeInit
<1>2. LeaseTypeOK /\ [LeaseNext]_leaseVars => LeaseTypeOK'
  BY LeaseTypeStep
<1>3. QED
  BY <1>1, <1>2, PTL DEF LeaseSpec

(* No step takes the receipt of a run at work away: claims need a free     *)
(* receipt, complete and fail an own one, and expiry waits for the run.    *)
LEMMA ReceiptStep ==
    ASSUME LeaseTypeOK, ReceiptOwned, [LeaseNext]_leaseVars
    PROVE  ReceiptOwned'
<1>1. [LeaseNext]_leaseVars
  OBVIOUS
<1>2. /\ JobOf \in [Runs -> Jobs] /\ NamespaceOf \in [Runs -> LockKeys]
      /\ Nobody \notin Runs /\ Done \notin Runs /\ Nobody # Done
  BY RunsAssumption
<1>3. ASSUME NEW r \in Runs, Acquire(r) PROVE ReceiptOwned'
  BY <1>3, <1>2 DEF Acquire, LeaseTypeOK, ReceiptOwned, Claimed, Goto, SetLock, SetReceipt, Holds
<1>4. ASSUME NEW r \in Runs, SkipLocked(r) PROVE ReceiptOwned'
  BY <1>4, <1>2 DEF SkipLocked, LeaseTypeOK, ReceiptOwned, Claimed, Goto, SetLock, SetReceipt, Holds
<1>5. ASSUME NEW r \in Runs, Claim(r) PROVE ReceiptOwned'
  BY <1>5, <1>2 DEF Claim, LeaseTypeOK, ReceiptOwned, Claimed, Goto, SetLock, SetReceipt, Holds
<1>6. ASSUME NEW r \in Runs, SkipDuplicate(r) PROVE ReceiptOwned'
  BY <1>6, <1>2 DEF SkipDuplicate, LeaseTypeOK, ReceiptOwned, Claimed, Goto, SetLock, SetReceipt, Holds
<1>7. ASSUME NEW r \in Runs, Work(r) PROVE ReceiptOwned'
  BY <1>7, <1>2 DEF Work, LeaseTypeOK, ReceiptOwned, Claimed, Goto, SetLock, SetReceipt, Holds
<1>8. ASSUME NEW r \in Runs, Complete(r) PROVE ReceiptOwned'
  BY <1>8, <1>2 DEF Complete, LeaseTypeOK, ReceiptOwned, Claimed, Goto, SetLock, SetReceipt, Holds
<1>9. ASSUME NEW r \in Runs, Fail(r) PROVE ReceiptOwned'
  BY <1>9, <1>2 DEF Fail, LeaseTypeOK, ReceiptOwned, Claimed, Goto, SetLock, SetReceipt, Holds
<1>10. ASSUME NEW r \in Runs, Release(r) PROVE ReceiptOwned'
  BY <1>10, <1>2 DEF Release, LeaseTypeOK, ReceiptOwned, Claimed, Goto, SetLock, SetReceipt, Holds
<1>11. ASSUME NEW r \in Runs, AcquireRaises(r) PROVE ReceiptOwned'
  BY <1>11, <1>2 DEF AcquireRaises, LeaseTypeOK, ReceiptOwned, Claimed, Goto, SetLock, SetReceipt, Holds
<1>12. ASSUME NEW r \in Runs, ClaimRaises(r) PROVE ReceiptOwned'
  BY <1>12, <1>2 DEF ClaimRaises, LeaseTypeOK, ReceiptOwned, Claimed, Goto, SetLock, SetReceipt, Holds
<1>13. ASSUME NEW r \in Runs, WorkRaises(r) PROVE ReceiptOwned'
  BY <1>13, <1>2 DEF WorkRaises, LeaseTypeOK, ReceiptOwned, Claimed, Goto, SetLock, SetReceipt, Holds
<1>14. ASSUME NEW r \in Runs, CompleteRaises(r) PROVE ReceiptOwned'
  BY <1>14, <1>2 DEF CompleteRaises, LeaseTypeOK, ReceiptOwned, Claimed, Goto, SetLock, SetReceipt, Holds
<1>15. ASSUME NEW r \in Runs, FailRaises(r) PROVE ReceiptOwned'
  BY <1>15, <1>2 DEF FailRaises, LeaseTypeOK, ReceiptOwned, Claimed, Goto, SetLock, SetReceipt, Holds
<1>16. ASSUME NEW r \in Runs, ReleaseRaises(r) PROVE ReceiptOwned'
  BY <1>16, <1>2 DEF ReleaseRaises, LeaseTypeOK, ReceiptOwned, Claimed, Goto, SetLock, SetReceipt, Holds
<1>17. ASSUME NEW r \in Runs, RefreshLost(r) PROVE ReceiptOwned'
  BY <1>17, <1>2 DEF RefreshLost, LeaseTypeOK, ReceiptOwned, Claimed, Goto, SetLock, SetReceipt, Holds
<1>18. ASSUME NEW r \in Runs, RefreshRaises(r) PROVE ReceiptOwned'
  BY <1>18, <1>2 DEF RefreshRaises, LeaseTypeOK, ReceiptOwned, Claimed, Goto, SetLock, SetReceipt, Holds
<1>19. ASSUME NEW r \in Runs, RunDies(r) PROVE ReceiptOwned'
  BY <1>19, <1>2 DEF RunDies, LeaseTypeOK, ReceiptOwned, Claimed, Goto, SetLock, SetReceipt, Holds
<1>20. ASSUME NEW n \in LockKeys, LockExpires(n) PROVE ReceiptOwned'
  BY <1>20, <1>2 DEF LockExpires, LeaseTypeOK, ReceiptOwned, Claimed, Goto, SetLock, SetReceipt, Holds
<1>21. ASSUME NEW j \in Jobs, ReceiptExpires(j) PROVE ReceiptOwned'
  BY <1>21, <1>2 DEF ReceiptExpires, LeaseTypeOK, ReceiptOwned, Claimed, Goto, SetLock, SetReceipt, Holds
<1>22. CASE UNCHANGED leaseVars
  BY <1>22, <1>2 DEF leaseVars, LeaseTypeOK, ReceiptOwned, Claimed, Goto, SetLock, SetReceipt, Holds
<1>23. QED
  BY <1>1, <1>3, <1>4, <1>5, <1>6, <1>7, <1>8, <1>9, <1>10, <1>11, <1>12,
     <1>13, <1>14, <1>15, <1>16, <1>17, <1>18, <1>19, <1>20, <1>21,
     <1>22
     DEF LeaseNext, RunStep, Mishap

(* Whatever happens to leases, processes and Redis calls, two runs of one  *)
(* job never work at a time.                                               *)
THEOREM JobsExclusive == LeaseSpec => []OneRunOfJob
<1>1. LeaseInit => ReceiptOwned
  BY DEF LeaseInit, ReceiptOwned
<1>2. LeaseTypeOK /\ ReceiptOwned /\ [LeaseNext]_leaseVars => ReceiptOwned'
  BY ReceiptStep
<1>3. ReceiptOwned => OneRunOfJob
  BY DEF ReceiptOwned, OneRunOfJob
<1>4. QED
  BY <1>1, <1>2, <1>3, LeaseTypeCorrect, PTL DEF LeaseSpec

(* A sound run loses its lease in no step between acquire and release,     *)
(* whatever late and faulty runs do.                                       *)
LEMMA LeaseStep ==
    ASSUME LeaseTypeOK, LeaseOwned, [LeaseNext]_leaseVars
    PROVE  LeaseOwned'
<1>1. [LeaseNext]_leaseVars
  OBVIOUS
<1>2. /\ JobOf \in [Runs -> Jobs] /\ NamespaceOf \in [Runs -> LockKeys]
      /\ Nobody \notin Runs /\ Done \notin Runs /\ Nobody # Done
  BY RunsAssumption
<1>3. ASSUME NEW r \in Runs, Acquire(r) PROVE LeaseOwned'
  BY <1>3, <1>2 DEF Acquire, LeaseTypeOK, LeaseOwned, Sound, Claimed, Goto, SetLock, SetReceipt, Holds
<1>4. ASSUME NEW r \in Runs, SkipLocked(r) PROVE LeaseOwned'
  BY <1>4, <1>2 DEF SkipLocked, LeaseTypeOK, LeaseOwned, Sound, Claimed, Goto, SetLock, SetReceipt, Holds
<1>5. ASSUME NEW r \in Runs, Claim(r) PROVE LeaseOwned'
  BY <1>5, <1>2 DEF Claim, LeaseTypeOK, LeaseOwned, Sound, Claimed, Goto, SetLock, SetReceipt, Holds
<1>6. ASSUME NEW r \in Runs, SkipDuplicate(r) PROVE LeaseOwned'
  BY <1>6, <1>2 DEF SkipDuplicate, LeaseTypeOK, LeaseOwned, Sound, Claimed, Goto, SetLock, SetReceipt, Holds
<1>7. ASSUME NEW r \in Runs, Work(r) PROVE LeaseOwned'
  BY <1>7, <1>2 DEF Work, LeaseTypeOK, LeaseOwned, Sound, Claimed, Goto, SetLock, SetReceipt, Holds
<1>8. ASSUME NEW r \in Runs, Complete(r) PROVE LeaseOwned'
  BY <1>8, <1>2 DEF Complete, LeaseTypeOK, LeaseOwned, Sound, Claimed, Goto, SetLock, SetReceipt, Holds
<1>9. ASSUME NEW r \in Runs, Fail(r) PROVE LeaseOwned'
  BY <1>9, <1>2 DEF Fail, LeaseTypeOK, LeaseOwned, Sound, Claimed, Goto, SetLock, SetReceipt, Holds
<1>10. ASSUME NEW r \in Runs, Release(r) PROVE LeaseOwned'
  BY <1>10, <1>2 DEF Release, LeaseTypeOK, LeaseOwned, Sound, Claimed, Goto, SetLock, SetReceipt, Holds
<1>11. ASSUME NEW r \in Runs, AcquireRaises(r) PROVE LeaseOwned'
  BY <1>11, <1>2 DEF AcquireRaises, LeaseTypeOK, LeaseOwned, Sound, Claimed, Goto, SetLock, SetReceipt, Holds
<1>12. ASSUME NEW r \in Runs, ClaimRaises(r) PROVE LeaseOwned'
  BY <1>12, <1>2 DEF ClaimRaises, LeaseTypeOK, LeaseOwned, Sound, Claimed, Goto, SetLock, SetReceipt, Holds
<1>13. ASSUME NEW r \in Runs, WorkRaises(r) PROVE LeaseOwned'
  BY <1>13, <1>2 DEF WorkRaises, LeaseTypeOK, LeaseOwned, Sound, Claimed, Goto, SetLock, SetReceipt, Holds
<1>14. ASSUME NEW r \in Runs, CompleteRaises(r) PROVE LeaseOwned'
  BY <1>14, <1>2 DEF CompleteRaises, LeaseTypeOK, LeaseOwned, Sound, Claimed, Goto, SetLock, SetReceipt, Holds
<1>15. ASSUME NEW r \in Runs, FailRaises(r) PROVE LeaseOwned'
  BY <1>15, <1>2 DEF FailRaises, LeaseTypeOK, LeaseOwned, Sound, Claimed, Goto, SetLock, SetReceipt, Holds
<1>16. ASSUME NEW r \in Runs, ReleaseRaises(r) PROVE LeaseOwned'
  <2> SUFFICES ASSUME NEW x \in Sound, pc'[x] \in Claimed \cup {"locked", "releasing"}
               PROVE  lock'[NamespaceOf[x]] = x /\ beating'[x]
    BY DEF LeaseOwned, Holds
  <2>1. x \in Runs /\ x # r
    BY <1>16 DEF Sound, ReleaseRaises
  <2>2. pc'[x] = pc[x] /\ beating'[x] = beating[x]
    BY <1>16, <2>1 DEF ReleaseRaises, LeaseTypeOK, Goto
  <2>3. lock[NamespaceOf[x]] = x /\ beating[x]
    BY <2>2 DEF LeaseOwned, Holds
  <2>4. lock' = lock \/ (Holds(r) /\ lock' = [lock EXCEPT ![NamespaceOf[r]] = Nobody])
    BY <1>16 DEF ReleaseRaises, SetLock
  <2>5. lock'[NamespaceOf[x]] = x
    BY <2>1, <2>3, <2>4, <1>2 DEF LeaseTypeOK, Holds
  <2> QED
    BY <2>2, <2>3, <2>5
<1>17. ASSUME NEW r \in Runs, RefreshLost(r) PROVE LeaseOwned'
  BY <1>17, <1>2 DEF RefreshLost, LeaseTypeOK, LeaseOwned, Sound, Claimed, Goto, SetLock, SetReceipt, Holds
<1>18. ASSUME NEW r \in Runs, RefreshRaises(r) PROVE LeaseOwned'
  BY <1>18, <1>2 DEF RefreshRaises, LeaseTypeOK, LeaseOwned, Sound, Claimed, Goto, SetLock, SetReceipt, Holds
<1>19. ASSUME NEW r \in Runs, RunDies(r) PROVE LeaseOwned'
  BY <1>19, <1>2 DEF RunDies, LeaseTypeOK, LeaseOwned, Sound, Claimed, Goto, SetLock, SetReceipt, Holds
<1>20. ASSUME NEW n \in LockKeys, LockExpires(n) PROVE LeaseOwned'
  BY <1>20, <1>2 DEF LockExpires, LeaseTypeOK, LeaseOwned, Sound, Claimed, Goto, SetLock, SetReceipt, Holds
<1>21. ASSUME NEW j \in Jobs, ReceiptExpires(j) PROVE LeaseOwned'
  BY <1>21, <1>2 DEF ReceiptExpires, LeaseTypeOK, LeaseOwned, Sound, Claimed, Goto, SetLock, SetReceipt, Holds
<1>22. CASE UNCHANGED leaseVars
  BY <1>22, <1>2 DEF leaseVars, LeaseTypeOK, LeaseOwned, Sound, Claimed, Goto, SetLock, SetReceipt, Holds
<1>23. QED
  BY <1>1, <1>3, <1>4, <1>5, <1>6, <1>7, <1>8, <1>9, <1>10, <1>11, <1>12,
     <1>13, <1>14, <1>15, <1>16, <1>17, <1>18, <1>19, <1>20, <1>21,
     <1>22
     DEF LeaseNext, RunStep, Mishap

(* When every run names a single namespace, those whose heartbeats keep    *)
(* time and that Redis answers never overlap on one.                       *)
THEOREM LeaseExcludes ==
    ASSUME \A r \in Sound : NamespaceOf[r] # All
    PROVE  LeaseSpec => []OneMutator
<1>1. LeaseInit => LeaseOwned
  BY DEF LeaseInit, LeaseOwned, Sound, Claimed
<1>2. LeaseTypeOK /\ LeaseOwned /\ [LeaseNext]_leaseVars => LeaseOwned'
  BY LeaseStep
<1>3. LeaseOwned => OneMutator
  BY DEF LeaseOwned, OneMutator, Sound, Overlap, Holds, Claimed
<1>4. QED
  BY <1>1, <1>2, <1>3, LeaseTypeCorrect, PTL DEF LeaseSpec

(* If Redis answers a run, the receipt of its finished work stays until it *)
(* expires, so a second run of the job finds it and skips.                 *)
LEMMA WorkStep ==
    ASSUME LeaseTypeOK, ReceiptOwned, WorkReceipted, DoneOnce, [LeaseNext]_leaseVars
    PROVE  (WorkReceipted /\ DoneOnce)'
<1>1. [LeaseNext]_leaseVars
  OBVIOUS
<1>2. /\ JobOf \in [Runs -> Jobs] /\ NamespaceOf \in [Runs -> LockKeys]
      /\ Nobody \notin Runs /\ Done \notin Runs /\ Nobody # Done
  BY RunsAssumption
<1>3. ASSUME NEW r \in Runs, Acquire(r) PROVE (WorkReceipted /\ DoneOnce)'
  BY <1>3, <1>2 DEF Acquire, LeaseTypeOK, ReceiptOwned, WorkReceipted, DoneOnce, Claimed, Goto, SetLock, SetReceipt, Holds
<1>4. ASSUME NEW r \in Runs, SkipLocked(r) PROVE (WorkReceipted /\ DoneOnce)'
  BY <1>4, <1>2 DEF SkipLocked, LeaseTypeOK, ReceiptOwned, WorkReceipted, DoneOnce, Claimed, Goto, SetLock, SetReceipt, Holds
<1>5. ASSUME NEW r \in Runs, Claim(r) PROVE (WorkReceipted /\ DoneOnce)'
  BY <1>5, <1>2 DEF Claim, LeaseTypeOK, ReceiptOwned, WorkReceipted, DoneOnce, Claimed, Goto, SetLock, SetReceipt, Holds
<1>6. ASSUME NEW r \in Runs, SkipDuplicate(r) PROVE (WorkReceipted /\ DoneOnce)'
  BY <1>6, <1>2 DEF SkipDuplicate, LeaseTypeOK, ReceiptOwned, WorkReceipted, DoneOnce, Claimed, Goto, SetLock, SetReceipt, Holds
<1>7. ASSUME NEW r \in Runs, Work(r) PROVE (WorkReceipted /\ DoneOnce)'
  BY <1>7, <1>2 DEF Work, LeaseTypeOK, ReceiptOwned, WorkReceipted, DoneOnce, Claimed, Goto, SetLock, SetReceipt, Holds
<1>8. ASSUME NEW r \in Runs, Complete(r) PROVE (WorkReceipted /\ DoneOnce)'
  BY <1>8, <1>2 DEF Complete, LeaseTypeOK, ReceiptOwned, WorkReceipted, DoneOnce, Claimed, Goto, SetLock, SetReceipt, Holds
<1>9. ASSUME NEW r \in Runs, Fail(r) PROVE (WorkReceipted /\ DoneOnce)'
  BY <1>9, <1>2 DEF Fail, LeaseTypeOK, ReceiptOwned, WorkReceipted, DoneOnce, Claimed, Goto, SetLock, SetReceipt, Holds
<1>10. ASSUME NEW r \in Runs, Release(r) PROVE (WorkReceipted /\ DoneOnce)'
  BY <1>10, <1>2 DEF Release, LeaseTypeOK, ReceiptOwned, WorkReceipted, DoneOnce, Claimed, Goto, SetLock, SetReceipt, Holds
<1>11. ASSUME NEW r \in Runs, AcquireRaises(r) PROVE (WorkReceipted /\ DoneOnce)'
  BY <1>11, <1>2 DEF AcquireRaises, LeaseTypeOK, ReceiptOwned, WorkReceipted, DoneOnce, Claimed, Goto, SetLock, SetReceipt, Holds
<1>12. ASSUME NEW r \in Runs, ClaimRaises(r) PROVE (WorkReceipted /\ DoneOnce)'
  <2>1. finished' = finished /\ r \in Faulty
    BY <1>12 DEF ClaimRaises
  <2>2. receipt' = receipt \/ (receipt[JobOf[r]] = Nobody /\ receipt' = [receipt EXCEPT ![JobOf[r]] = r])
    BY <1>12 DEF ClaimRaises, SetReceipt
  <2> SUFFICES ASSUME NEW x \in finished \ Faulty
               PROVE  /\ receipt'[JobOf[x]] \in {x, Done}
                      /\ pc'[x] \in {"worked", "releasing", "ended", "raised", "dead"}
    BY <2>1 DEF WorkReceipted, DoneOnce
  <2>3. x \in Runs /\ x # r
    BY <2>1 DEF LeaseTypeOK
  <2>4. pc'[x] = pc[x]
    BY <1>12, <2>3 DEF ClaimRaises, LeaseTypeOK, Goto
  <2>5. receipt'[JobOf[x]] \in {x, Done}
    BY <2>2, <2>3, <1>2 DEF WorkReceipted, LeaseTypeOK
  <2> QED
    BY <2>4, <2>5 DEF WorkReceipted
<1>13. ASSUME NEW r \in Runs, WorkRaises(r) PROVE (WorkReceipted /\ DoneOnce)'
  BY <1>13, <1>2 DEF WorkRaises, LeaseTypeOK, ReceiptOwned, WorkReceipted, DoneOnce, Claimed, Goto, SetLock, SetReceipt, Holds
<1>14. ASSUME NEW r \in Runs, CompleteRaises(r) PROVE (WorkReceipted /\ DoneOnce)'
  <2>1. finished' = finished /\ r \in Faulty
    BY <1>14 DEF CompleteRaises
  <2>2. receipt' = receipt \/ (receipt[JobOf[r]] = r /\ receipt' = [receipt EXCEPT ![JobOf[r]] = Done])
    BY <1>14 DEF CompleteRaises, SetReceipt
  <2> SUFFICES ASSUME NEW x \in finished \ Faulty
               PROVE  /\ receipt'[JobOf[x]] \in {x, Done}
                      /\ pc'[x] \in {"worked", "releasing", "ended", "raised", "dead"}
    BY <2>1 DEF WorkReceipted, DoneOnce
  <2>3. x \in Runs /\ x # r
    BY <2>1 DEF LeaseTypeOK
  <2>4. pc'[x] = pc[x]
    BY <1>14, <2>3 DEF CompleteRaises, LeaseTypeOK, Goto
  <2>5. receipt'[JobOf[x]] \in {x, Done}
    BY <2>2, <2>3, <1>2 DEF WorkReceipted, LeaseTypeOK
  <2> QED
    BY <2>4, <2>5 DEF WorkReceipted
<1>15. ASSUME NEW r \in Runs, FailRaises(r) PROVE (WorkReceipted /\ DoneOnce)'
  <2>1. finished' = finished /\ r \in Faulty
    BY <1>15 DEF FailRaises
  <2>2. receipt' = receipt \/ (receipt[JobOf[r]] = r /\ receipt' = [receipt EXCEPT ![JobOf[r]] = Nobody])
    BY <1>15 DEF FailRaises, SetReceipt
  <2> SUFFICES ASSUME NEW x \in finished \ Faulty
               PROVE  /\ receipt'[JobOf[x]] \in {x, Done}
                      /\ pc'[x] \in {"worked", "releasing", "ended", "raised", "dead"}
    BY <2>1 DEF WorkReceipted, DoneOnce
  <2>3. x \in Runs /\ x # r
    BY <2>1 DEF LeaseTypeOK
  <2>4. pc'[x] = pc[x]
    BY <1>15, <2>3 DEF FailRaises, LeaseTypeOK, Goto
  <2>5. receipt'[JobOf[x]] \in {x, Done}
    BY <2>2, <2>3, <1>2 DEF WorkReceipted, LeaseTypeOK
  <2> QED
    BY <2>4, <2>5 DEF WorkReceipted
<1>16. ASSUME NEW r \in Runs, ReleaseRaises(r) PROVE (WorkReceipted /\ DoneOnce)'
  BY <1>16, <1>2 DEF ReleaseRaises, LeaseTypeOK, ReceiptOwned, WorkReceipted, DoneOnce, Claimed, Goto, SetLock, SetReceipt, Holds
<1>17. ASSUME NEW r \in Runs, RefreshLost(r) PROVE (WorkReceipted /\ DoneOnce)'
  BY <1>17, <1>2 DEF RefreshLost, LeaseTypeOK, ReceiptOwned, WorkReceipted, DoneOnce, Claimed, Goto, SetLock, SetReceipt, Holds
<1>18. ASSUME NEW r \in Runs, RefreshRaises(r) PROVE (WorkReceipted /\ DoneOnce)'
  BY <1>18, <1>2 DEF RefreshRaises, LeaseTypeOK, ReceiptOwned, WorkReceipted, DoneOnce, Claimed, Goto, SetLock, SetReceipt, Holds
<1>19. ASSUME NEW r \in Runs, RunDies(r) PROVE (WorkReceipted /\ DoneOnce)'
  BY <1>19, <1>2 DEF RunDies, LeaseTypeOK, ReceiptOwned, WorkReceipted, DoneOnce, Claimed, Goto, SetLock, SetReceipt, Holds
<1>20. ASSUME NEW n \in LockKeys, LockExpires(n) PROVE (WorkReceipted /\ DoneOnce)'
  BY <1>20, <1>2 DEF LockExpires, LeaseTypeOK, ReceiptOwned, WorkReceipted, DoneOnce, Claimed, Goto, SetLock, SetReceipt, Holds
<1>21. ASSUME NEW j \in Jobs, ReceiptExpires(j) PROVE (WorkReceipted /\ DoneOnce)'
  BY <1>21, <1>2 DEF ReceiptExpires, LeaseTypeOK, ReceiptOwned, WorkReceipted, DoneOnce, Claimed, Goto, SetLock, SetReceipt, Holds
<1>22. CASE UNCHANGED leaseVars
  BY <1>22, <1>2 DEF leaseVars, LeaseTypeOK, ReceiptOwned, WorkReceipted, DoneOnce, Claimed, Goto, SetLock, SetReceipt, Holds
<1>23. QED
  BY <1>1, <1>3, <1>4, <1>5, <1>6, <1>7, <1>8, <1>9, <1>10, <1>11, <1>12,
     <1>13, <1>14, <1>15, <1>16, <1>17, <1>18, <1>19, <1>20, <1>21,
     <1>22
     DEF LeaseNext, RunStep, Mishap

(* Whatever crashes, late heartbeats and faults of other runs there are,   *)
(* the runs Redis answers finish a job once in the life of its receipt.    *)
THEOREM WorkDoneOnce == LeaseSpec => []DoneOnce
<1>1. LeaseInit => ReceiptOwned /\ WorkReceipted /\ DoneOnce
  BY DEF LeaseInit, ReceiptOwned, WorkReceipted, DoneOnce
<1>2. LeaseTypeOK /\ ReceiptOwned /\ [LeaseNext]_leaseVars => ReceiptOwned'
  BY ReceiptStep
<1>3. LeaseTypeOK /\ ReceiptOwned /\ WorkReceipted /\ DoneOnce /\ [LeaseNext]_leaseVars
        => WorkReceipted' /\ DoneOnce'
  BY WorkStep
<1>4. QED
  BY <1>1, <1>2, <1>3, LeaseTypeCorrect, PTL DEF LeaseSpec

(* A holder loses its lease in no step of another run: acquire needs a     *)
(* free key, release and its failure check the owner.                      *)
LEMMA KeptStep ==
    ASSUME LeaseTypeOK, [LeaseNext]_leaseVars,
           NEW k \in LockKeys, NEW h \in Runs, NEW o \in Runs \ {h},
           lock[k] = h, lock'[k] # h
    PROVE  pc'[o] = pc[o]
<1>1. [LeaseNext]_leaseVars
  OBVIOUS
<1>2. /\ JobOf \in [Runs -> Jobs] /\ NamespaceOf \in [Runs -> LockKeys]
      /\ Nobody \notin Runs /\ Done \notin Runs /\ Nobody # Done
  BY RunsAssumption
<1>3. ASSUME NEW r \in Runs, Acquire(r) PROVE pc'[o] = pc[o]
  BY <1>3, <1>2 DEF Acquire, LeaseTypeOK, Claimed, Goto, SetLock, SetReceipt, Holds
<1>4. ASSUME NEW r \in Runs, SkipLocked(r) PROVE pc'[o] = pc[o]
  BY <1>4, <1>2 DEF SkipLocked, LeaseTypeOK, Claimed, Goto, SetLock, SetReceipt, Holds
<1>5. ASSUME NEW r \in Runs, Claim(r) PROVE pc'[o] = pc[o]
  BY <1>5, <1>2 DEF Claim, LeaseTypeOK, Claimed, Goto, SetLock, SetReceipt, Holds
<1>6. ASSUME NEW r \in Runs, SkipDuplicate(r) PROVE pc'[o] = pc[o]
  BY <1>6, <1>2 DEF SkipDuplicate, LeaseTypeOK, Claimed, Goto, SetLock, SetReceipt, Holds
<1>7. ASSUME NEW r \in Runs, Work(r) PROVE pc'[o] = pc[o]
  BY <1>7, <1>2 DEF Work, LeaseTypeOK, Claimed, Goto, SetLock, SetReceipt, Holds
<1>8. ASSUME NEW r \in Runs, Complete(r) PROVE pc'[o] = pc[o]
  BY <1>8, <1>2 DEF Complete, LeaseTypeOK, Claimed, Goto, SetLock, SetReceipt, Holds
<1>9. ASSUME NEW r \in Runs, Fail(r) PROVE pc'[o] = pc[o]
  BY <1>9, <1>2 DEF Fail, LeaseTypeOK, Claimed, Goto, SetLock, SetReceipt, Holds
<1>10. ASSUME NEW r \in Runs, Release(r) PROVE pc'[o] = pc[o]
  BY <1>10, <1>2 DEF Release, LeaseTypeOK, Claimed, Goto, SetLock, SetReceipt, Holds
<1>11. ASSUME NEW r \in Runs, AcquireRaises(r) PROVE pc'[o] = pc[o]
  BY <1>11, <1>2 DEF AcquireRaises, LeaseTypeOK, Claimed, Goto, SetLock, SetReceipt, Holds
<1>12. ASSUME NEW r \in Runs, ClaimRaises(r) PROVE pc'[o] = pc[o]
  BY <1>12, <1>2 DEF ClaimRaises, LeaseTypeOK, Claimed, Goto, SetLock, SetReceipt, Holds
<1>13. ASSUME NEW r \in Runs, WorkRaises(r) PROVE pc'[o] = pc[o]
  BY <1>13, <1>2 DEF WorkRaises, LeaseTypeOK, Claimed, Goto, SetLock, SetReceipt, Holds
<1>14. ASSUME NEW r \in Runs, CompleteRaises(r) PROVE pc'[o] = pc[o]
  BY <1>14, <1>2 DEF CompleteRaises, LeaseTypeOK, Claimed, Goto, SetLock, SetReceipt, Holds
<1>15. ASSUME NEW r \in Runs, FailRaises(r) PROVE pc'[o] = pc[o]
  BY <1>15, <1>2 DEF FailRaises, LeaseTypeOK, Claimed, Goto, SetLock, SetReceipt, Holds
<1>16. ASSUME NEW r \in Runs, ReleaseRaises(r) PROVE pc'[o] = pc[o]
  BY <1>16, <1>2 DEF ReleaseRaises, LeaseTypeOK, Claimed, Goto, SetLock, SetReceipt, Holds
<1>17. ASSUME NEW r \in Runs, RefreshLost(r) PROVE pc'[o] = pc[o]
  BY <1>17, <1>2 DEF RefreshLost, LeaseTypeOK, Claimed, Goto, SetLock, SetReceipt, Holds
<1>18. ASSUME NEW r \in Runs, RefreshRaises(r) PROVE pc'[o] = pc[o]
  BY <1>18, <1>2 DEF RefreshRaises, LeaseTypeOK, Claimed, Goto, SetLock, SetReceipt, Holds
<1>19. ASSUME NEW r \in Runs, RunDies(r) PROVE pc'[o] = pc[o]
  BY <1>19, <1>2 DEF RunDies, LeaseTypeOK, Claimed, Goto, SetLock, SetReceipt, Holds
<1>20. ASSUME NEW n \in LockKeys, LockExpires(n) PROVE pc'[o] = pc[o]
  BY <1>20, <1>2 DEF LockExpires, LeaseTypeOK, Claimed, Goto, SetLock, SetReceipt, Holds
<1>21. ASSUME NEW j \in Jobs, ReceiptExpires(j) PROVE pc'[o] = pc[o]
  BY <1>21, <1>2 DEF ReceiptExpires, LeaseTypeOK, Claimed, Goto, SetLock, SetReceipt, Holds
<1>22. CASE UNCHANGED leaseVars
  BY <1>22, <1>2 DEF leaseVars, LeaseTypeOK, Claimed, Goto, SetLock, SetReceipt, Holds
<1>23. QED
  BY <1>1, <1>3, <1>4, <1>5, <1>6, <1>7, <1>8, <1>9, <1>10, <1>11, <1>12,
     <1>13, <1>14, <1>15, <1>16, <1>17, <1>18, <1>19, <1>20, <1>21,
     <1>22
     DEF LeaseNext, RunStep, Mishap

(* Whatever late runs refresh or release, and however late the heartbeats, *)
(* only a holder's own step or the clock ends its lease.                   *)
THEOREM LeasesKept == LeaseSpec => LeaseKept
<1> DEFINE Kept ==
      \A n \in LockKeys, r \in Runs :
          lock[n] = r /\ lock'[n] # r => \A s \in Runs \ {r} : pc'[s] = pc[s]
<1>1. LeaseTypeOK /\ [LeaseNext]_leaseVars => [Kept]_leaseVars
  BY KeptStep
<1>2. QED
  BY <1>1, LeaseTypeCorrect, PTL DEF LeaseSpec, LeaseKept

=============================================================================
