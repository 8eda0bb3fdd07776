---------------------------- MODULE CacheContract ----------------------------
(* What the request handler may rely on when it calls a cache: the two       *)
(* operations of MemoryCache (src/src/graphql/cache/memory_cache.rs:25-46)   *)
(* that cache_handler.rs uses, insert and get, seen from outside.  There is  *)
(* no store, lock, channel or cleanup thread here, only the log of what was  *)
(* inserted and the promise about what a get may answer.                     *)
EXTENDS Integers

CONSTANTS
    Key,        \* cache keys
    NoKey,      \* the key of a client that is not in a call
    Client,     \* callers: the tasks that hold a handle on the cache
    Durations,  \* the durations an insert may ask for
    MaxTime,    \* bound on the clock
    MaxWrites   \* bound on the number of inserts

VARIABLES
    clock,      \* what Utc::now() returns
    open,       \* a handle on the cache still exists
    writes,     \* the number of inserts that took effect
    written,    \* per key, every entry ever inserted
    call        \* per client, the call in progress

vars == <<clock, open, writes, written, call>>

(* An entry is one inserted value.  id is its rank among all inserts and     *)
(* stands for the value and for its place in the answer.                     *)
Entry == [id : Nat, expiry : Nat]

Idle == [phase |-> "idle", key |-> NoKey, now |-> 0, expiry |-> 0, answer |-> {}]

Unexpired(entries, now) == {e \in entries : e.expiry > now}

Init ==
    /\ clock = 0
    /\ open = TRUE
    /\ writes = 0
    /\ written = [k \in Key |-> {}]
    /\ call = [c \in Client |-> Idle]

Tick ==
    /\ clock < MaxTime
    /\ clock' = clock + 1
    /\ UNCHANGED <<open, writes, written, call>>

InsertBegin(c, k, d) ==
    /\ open
    /\ call[c] = Idle
    /\ call' = [call EXCEPT ![c] =
           [Idle EXCEPT !.phase = "insert", !.key = k, !.now = clock, !.expiry = clock + d]]
    /\ UNCHANGED <<clock, open, writes, written>>

InsertCommit(c) ==
    /\ call[c].phase = "insert"
    /\ writes < MaxWrites
    /\ writes' = writes + 1
    /\ written' = [written EXCEPT ![call[c].key] =
           @ \cup {[id |-> writes + 1, expiry |-> call[c].expiry]}]
    /\ call' = [call EXCEPT ![c] = Idle]
    /\ UNCHANGED <<clock, open>>

GetBegin(c, k) ==
    /\ open
    /\ call[c] = Idle
    /\ call' = [call EXCEPT ![c] = [Idle EXCEPT !.phase = "get", !.key = k, !.now = clock]]
    /\ UNCHANGED <<clock, open, writes, written>>

(* The promise: the answer misses no entry that is unexpired at the moment   *)
(* it is taken, and has none that had expired when the call began.           *)
GetAnswer(c) ==
    /\ call[c].phase = "get"
    /\ \E answer \in SUBSET Unexpired(written[call[c].key], call[c].now) :
           /\ Unexpired(written[call[c].key], clock) \subseteq answer
           /\ call' = [call EXCEPT ![c].phase = "answered", ![c].answer = answer]
    /\ UNCHANGED <<clock, open, writes, written>>

GetReturn(c) ==
    /\ call[c].phase = "answered"
    /\ call' = [call EXCEPT ![c] = Idle]
    /\ UNCHANGED <<clock, open, writes, written>>

Close ==
    /\ open
    /\ \A c \in Client : call[c] = Idle
    /\ open' = FALSE
    /\ UNCHANGED <<clock, writes, written, call>>

Next ==
    \/ Tick
    \/ Close
    \/ \E c \in Client :
          \/ \E k \in Key : GetBegin(c, k) \/ (\E d \in Durations : InsertBegin(c, k, d))
          \/ InsertCommit(c)
          \/ GetAnswer(c)
          \/ GetReturn(c)

Spec == Init /\ [][Next]_vars
=============================================================================
