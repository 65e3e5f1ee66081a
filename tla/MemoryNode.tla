----------------------------- MODULE MemoryNode -----------------------------
(***************************************************************************)
(* One namespace of a WaveMind node: the memories table (storage.py), the  *)
(* records a process keeps in memory (core.py), the cache of query results *)
(* before them (jobs.py), the recovery journal, and the API handlers that  *)
(* change them all (api.py).  Handlers of one process run one at a time,   *)
(* under operation_lock.  Several processes may share a store and a Redis  *)
(* cache (the serverless deployment).  A step ends where another process   *)
(* can look, or where a crash leaves something behind: at a commit of the  *)
(* store, an append to the journal, a call to the cache.                   *)
(*                                                                         *)
(* A memory is its row id: texts can be remembered again, ids never come   *)
(* back.  Every memory matches the one query; vectors, ranking, tags and   *)
(* priorities are left out, and so is the audit log.                       *)
(***************************************************************************)
EXTENDS Integers, Sequences, FiniteSets

CONSTANTS
    Processes,
    Texts,
    Keys, NoKey,   \* idempotency keys, and a remember without one
    Redis,         \* one cache of results for all, or one in each process
    Journaling,    \* recovery_journal_path is set
    Refreshing,    \* shared_store_refresh_seconds >= 0
    Faults,        \* what may raise: "index", and (swallowed) "invalidate"
    MaxMemories, MaxForgets, MaxCrashes     \* bounds

ASSUME NodeAssumption ==
    /\ Texts # {} /\ NoKey \notin Keys
    /\ Redis \in BOOLEAN /\ Journaling \in BOOLEAN /\ Refreshing \in BOOLEAN
    /\ "redis" \notin Processes
    /\ MaxMemories \in Nat /\ MaxForgets \in Nat /\ MaxCrashes \in Nat

VARIABLES
    memories,      \* what was inserted, by row id
    rows,          \* the ids in the table
    expired,       \* the ids whose expires_at has passed
    cache,         \* _records_by_id of each process
    hot,           \* the cached answer, {} or {ids}, of each cache
    journal,       \* the entries of the recovery journal
    call,          \* the operation each process is in
    forgets, crashes,
    acked,         \* history: lasting memories whose remember returned
    named,         \* history: memories a forget was called for
    gone,          \* history: memories whose forget returned
    cut,           \* history: changed by a call that ended before its append
    answer         \* what the last query returned, {} or {ids}

data == <<memories, rows, expired, journal>>
bounds == <<forgets, crashes>>
history == <<acked, named, gone, cut>>
vars == <<data, cache, hot, call, bounds, history, answer>>

Ids == 1..MaxMemories
Known == DOMAIN memories
Live == rows \ expired
Holder(p) == IF Redis THEN "redis" ELSE p
Holders == {Holder(p) : p \in Processes}

Memory == [text: Texts, key: Keys \cup {NoKey}, mortal: BOOLEAN]
Entry == [deletes: BOOLEAN, ids: SUBSET Ids]
Call == [op: {"none", "remember", "forget", "query", "purge"},
         at: {"start", "check", "insert", "delete", "lookup", "search", "put",
              "list", "purge", "journal", "invalidate"},
         new: Memory, ids: SUBSET Ids, must: SUBSET Ids, not: SUBSET Ids]

TypeOK ==
    /\ memories \in Seq(Memory) /\ Len(memories) <= MaxMemories
    /\ rows \subseteq Known /\ expired \subseteq Known
    /\ cache \in [Processes -> SUBSET Ids]
    /\ hot \in [Holders -> SUBSET SUBSET Ids]
    /\ \A h \in Holders : \A S, T \in hot[h] : S = T
    /\ journal \in Seq(Entry)
    /\ call \in [Processes -> Call]
    /\ forgets \in Nat /\ crashes \in Nat
    /\ acked \subseteq Known /\ named \subseteq Known
    /\ gone \subseteq named /\ cut \subseteq Known
    /\ answer \in SUBSET SUBSET Ids

Blank == [text |-> CHOOSE x \in Texts : TRUE, key |-> NoKey, mortal |-> FALSE]
NoCall == [op |-> "none", at |-> "start", new |-> Blank, ids |-> {},
           must |-> {}, not |-> {}]

WithText(x) == {i \in Known : memories[i].text = x}

At(p, op, at) == call[p].op = op /\ call[p].at = at
Start(p, c) == call[p] = NoCall /\ call' = [call EXCEPT ![p] = c]
Go(p, at, ids) == call' = [call EXCEPT ![p].at = at, ![p].ids = ids]
Leave(p) == call' = [call EXCEPT ![p] = NoCall]

(* Mistake: the id of the row before. *)
LastId == Len(memories)

NextId == Len(memories) + 1

(* Mistake: a record whose time is over is not looked for. *)
KeyedLive(key) == {i \in Live : memories[i].key = key}

(* The records that carry an idempotency key, expired or not.              *)
Keyed(key) == {i \in rows : memories[i].key = key}

(* Mistake: the record stays in memory. *)
KeepCached(p, ids) == cache

Uncache(p, ids) == [cache EXCEPT ![p] = @ \ ids]

(* Mistake: a refresh adds what is new and drops nothing. *)
ReloadNew(p) == [cache EXCEPT ![p] = @ \cup Live]

(* The records of the namespace as load_namespace reads them again.        *)
Reload(p) == [cache EXCEPT ![p] = Live]

AfterCommit == IF Journaling THEN "journal" ELSE "invalidate"

Init ==
    /\ memories = <<>> /\ rows = {} /\ expired = {} /\ journal = <<>>
    /\ cache = [p \in Processes |-> {}]
    /\ hot = [h \in Holders |-> {}]
    /\ call = [p \in Processes |-> NoCall]
    /\ forgets = 0 /\ crashes = 0
    /\ acked = {} /\ named = {} /\ gone = {} /\ cut = {}
    /\ answer = {}

-----------------------------------------------------------------------------
(* POST /remember.                                                         *)

StartRemember(p) ==
    /\ Len(memories) < MaxMemories
    /\ \E m \in Memory :
          Start(p, [NoCall EXCEPT !.op = "remember", !.new = m,
                       !.at = IF m.key = NoKey THEN "insert" ELSE "check"])
    /\ UNCHANGED <<data, cache, hot, bounds, history, answer>>

(* With a key, the first record that carries it is the answer, expired or  *)
(* not; with another payload the call is refused.                          *)
CheckKey(p) ==
    LET new == call[p].new
        found == Keyed(new.key)
    IN  /\ At(p, "remember", "check")
        /\ \/ found = {} /\ Go(p, "insert", {})
           \/ \E i \in found :
                 /\ \A j \in found : i <= j
                 /\ IF memories[i] = new THEN Go(p, "invalidate", {i})
                                         ELSE Leave(p)
        /\ UNCHANGED <<data, cache, hot, bounds, history, answer>>

(* The row is committed and cached before the index can refuse the vector. *)
Insert(p) ==
    LET i == NextId
    IN  /\ At(p, "remember", "insert")
        /\ i <= MaxMemories
        /\ memories' = Append(memories, call[p].new)
        /\ rows' = rows \cup {i}
        /\ cache' = [cache EXCEPT ![p] = @ \cup {i}]
        /\ \/ Go(p, AfterCommit, {i}) /\ cut' = cut
           \/ "index" \in Faults /\ Leave(p) /\ cut' = cut \cup {i}
        /\ UNCHANGED <<expired, journal, hot, bounds, acked, named, gone, answer>>

-----------------------------------------------------------------------------
(* DELETE /forget, by text.                                                *)

StartForget(p) ==
    /\ forgets < MaxForgets
    /\ forgets' = forgets + 1
    /\ \E x \in Texts :
          /\ Start(p, [NoCall EXCEPT !.op = "forget", !.at = "delete",
                          !.new.text = x, !.not = WithText(x)])
          /\ named' = named \cup WithText(x)
    /\ UNCHANGED <<data, cache, hot, crashes, acked, gone, cut, answer>>

(* A forget that deletes nothing returns at once.  When the index raises,  *)
(* the row is gone and the process keeps its record.                       *)
Delete(p) ==
    LET hit == rows \cap WithText(call[p].new.text)
    IN  /\ At(p, "forget", "delete")
        /\ rows' = rows \ hit
        /\ named' = named \cup hit
        /\ \/ /\ hit = {} /\ Leave(p)
              /\ gone' = gone \cup call[p].not
              /\ UNCHANGED <<cache, cut>>
           \/ /\ hit # {} /\ Go(p, AfterCommit, hit)
              /\ cache' = Uncache(p, hit)
              /\ UNCHANGED <<gone, cut>>
           \/ /\ hit # {} /\ "index" \in Faults /\ Leave(p)
              /\ cut' = cut \cup hit
              /\ UNCHANGED <<cache, gone>>
        /\ UNCHANGED <<memories, expired, journal, hot, bounds, acked, answer>>

-----------------------------------------------------------------------------
(* The end of a remember, a forget and a purge.                            *)

(* Mistake: an entry of a forget is not written. *)
AppendRemembers(p) ==
    /\ call[p].at = "journal"
    /\ journal' = IF call[p].op = "forget" THEN journal
                  ELSE Append(journal, [deletes |-> call[p].op # "remember",
                                        ids |-> call[p].ids])
    /\ IF call[p].op = "purge" THEN Leave(p) ELSE Go(p, "invalidate", call[p].ids)
    /\ UNCHANGED <<memories, rows, expired, cache, hot, bounds, history, answer>>

(* append_recovery_journal_entry, synced to disk.  A purge ends with it.   *)
AppendJournal(p) ==
    /\ call[p].at = "journal"
    /\ journal' = Append(journal, [deletes |-> call[p].op # "remember",
                                   ids |-> call[p].ids])
    /\ IF call[p].op = "purge" THEN Leave(p) ELSE Go(p, "invalidate", call[p].ids)
    /\ UNCHANGED <<memories, rows, expired, cache, hot, bounds, history, answer>>

(* _invalidate_cache, whose errors are swallowed; then the call returns.   *)
Invalidate(p) ==
    LET c == call[p]
    IN  /\ c.at = "invalidate"
        /\ \/ hot' = [hot EXCEPT ![Holder(p)] = {}]
           \/ "invalidate" \in Faults /\ hot' = hot
        /\ acked' = IF c.op = "remember" /\ ~c.new.mortal
                    THEN acked \cup c.ids ELSE acked
        /\ gone' = IF c.op = "forget" THEN gone \cup c.not ELSE gone
        /\ Leave(p)
        /\ UNCHANGED <<data, cache, bounds, named, cut, answer>>

-----------------------------------------------------------------------------
(* POST /query, through query_with_cache.  One query at a time: a bound.   *)

StartQuery(p) ==
    /\ \A q \in Processes : call[q].op # "query"
    /\ Start(p, [NoCall EXCEPT !.op = "query", !.at = "lookup",
                    !.must = acked \ named, !.not = gone])
    /\ answer' = {}
    /\ UNCHANGED <<data, cache, hot, bounds, history>>

Lookup(p) ==
    /\ At(p, "query", "lookup")
    /\ \/ /\ hot[Holder(p)] = {}
          /\ Go(p, "search", {})
          /\ answer' = answer
       \/ /\ hot[Holder(p)] # {}
          /\ Leave(p)
          /\ answer' = hot[Holder(p)]
    /\ UNCHANGED <<data, cache, hot, bounds, history>>

(* Whether a refresh is due is a matter of time.                           *)
Search(p, fresh) ==
    /\ At(p, "query", "search")
    /\ fresh => Refreshing
    /\ cache' = IF fresh THEN Reload(p) ELSE cache
    /\ Go(p, "put", cache'[p] \ expired)
    /\ UNCHANGED <<data, hot, bounds, history, answer>>

PutAnswer(p) ==
    /\ At(p, "query", "put")
    /\ hot' = [hot EXCEPT ![Holder(p)] = {call[p].ids}]
    /\ answer' = {call[p].ids}
    /\ Leave(p)
    /\ UNCHANGED <<data, cache, bounds, history>>

-----------------------------------------------------------------------------
(* WaveMind.purge_expired, as a Memory OS run calls it.                    *)

StartPurge(p) ==
    /\ Start(p, [NoCall EXCEPT !.op = "purge",
                    !.at = IF Journaling THEN "list" ELSE "purge"])
    /\ UNCHANGED <<data, cache, hot, bounds, history, answer>>

ListExpired(p) ==
    /\ At(p, "purge", "list")
    /\ Go(p, "purge", rows \cap expired)
    /\ UNCHANGED <<data, cache, hot, bounds, history, answer>>

(* What expires after the list was read is deleted and not journalled.     *)
Purge(p) ==
    LET hit == rows \cap expired
    IN  /\ At(p, "purge", "purge")
        /\ rows' = rows \ hit
        /\ cache' = IF hit = {} THEN cache ELSE Reload(p)
        /\ IF hit # {} /\ call[p].ids # {} THEN Go(p, "journal", call[p].ids)
                                           ELSE Leave(p)
        /\ UNCHANGED <<memories, expired, journal, hot, bounds, history, answer>>

-----------------------------------------------------------------------------
(* Time and failures.                                                      *)

Expire(i) ==
    /\ i \in Known \ expired
    /\ memories[i].mortal
    /\ expired' = expired \cup {i}
    /\ UNCHANGED <<memories, rows, journal, cache, hot, call, bounds, history, answer>>

(* The TTL of a cached answer runs out, or the capacity pushes it out.     *)
HotExpires(h) ==
    /\ hot[h] # {}
    /\ hot' = [hot EXCEPT ![h] = {}]
    /\ UNCHANGED <<data, cache, call, bounds, history, answer>>

(* A process dies at any step and starts again: load() reads the store.    *)
Crash(p) ==
    /\ crashes < MaxCrashes
    /\ crashes' = crashes + 1
    /\ cache' = Reload(p)
    /\ hot' = IF Redis THEN hot ELSE [hot EXCEPT ![p] = {}]
    /\ cut' = IF call[p].at = "journal" THEN cut \cup call[p].ids ELSE cut
    /\ Leave(p)
    /\ UNCHANGED <<data, forgets, acked, named, gone, answer>>

Step(p) ==
    \/ CheckKey(p) \/ Insert(p) \/ Delete(p)
    \/ AppendJournal(p) \/ Invalidate(p)
    \/ Lookup(p) \/ (\E fresh \in BOOLEAN : Search(p, fresh)) \/ PutAnswer(p)
    \/ ListExpired(p) \/ Purge(p)

Next ==
    \/ \E p \in Processes :
          \/ StartRemember(p) \/ StartForget(p) \/ StartQuery(p) \/ StartPurge(p)
          \/ Step(p)
          \/ Crash(p)
    \/ \E i \in Ids : Expire(i)
    \/ \E h \in Holders : HotExpires(h)

Spec == Init /\ [][Next]_vars

(* Calls end, answers run out of their TTL, and a process that searches    *)
(* again and again finds the refresh interval over again and again.        *)
FairSpec ==
    /\ Spec
    /\ \A p \in Processes : WF_vars(Step(p)) /\ SF_vars(Search(p, TRUE))
    /\ \A h \in Holders : WF_vars(HotExpires(h))

-----------------------------------------------------------------------------
(* Properties.                                                             *)

(* restore_recovery_journal, whatever order its entries came in.           *)
Restored ==
    {i \in Ids : \E k \in DOMAIN journal :
        /\ ~journal[k].deletes /\ i \in journal[k].ids
        /\ \A l \in DOMAIN journal :
              l > k /\ journal[l].deletes => i \notin journal[l].ids}

Query == {p \in Processes : call[p].op = "query"}

Lasting == {i \in Known : ~memories[i].mortal}

Promise == INSTANCE MemoryService WITH
    Texts <- Ids,
    MayMiss <- FALSE,
    kept <- acked,
    gone <- gone \cap Lasting,
    question <- [open |-> Query # {},
                 must |-> UNION {call[p].must : p \in Query},
                 not |-> (UNION {call[p].not : p \in Query}) \cap Lasting]

(* A node that is alone with its store keeps what it acknowledged and      *)
(* answers nothing a returned forget has ended, through crashes, purges    *)
(* and cached answers.  Memories with a ttl_seconds are left out.          *)
KeepsPromise == Promise!Spec

(* The same of all memories: no recall is stale after a forget.            *)
NoStaleRecall ==
    [][\A p \in Query : answer' # answer => (UNION answer') \cap call[p].not = {}]_vars

(* Replaying the journal gives the memories that still live in the store,  *)
(* except those changed by a call that has yet to append, or ended before. *)
(* Rows that expire between the list and the purge make no difference.     *)
RestoreExact ==
    LET loose == expired \cup cut
                    \cup UNION {call[p].ids : p \in {q \in Processes : call[q].at = "journal"}}
    IN  Journaling => Restored \ loose = rows \ loose

(* What was promised holds of the restored store too.                      *)
RestoreKeepsPromise ==
    Journaling => acked \ named \subseteq Restored /\ Restored \cap gone = {}

(* Repeating a remember with its key never makes a second memory.          *)
OncePerKey ==
    \A i, j \in rows :
        memories[i].key = memories[j].key /\ memories[i].key # NoKey => i = j

(* Processes that refresh from a shared store come to stop answering what  *)
(* a returned forget has deleted: a stale record is refreshed away, a      *)
(* stale answer runs out, and nothing passes it on for ever.               *)
ForgottenFades ==
    <>[][\A i \in gone : i \notin UNION answer']_answer
=============================================================================
