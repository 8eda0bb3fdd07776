----------------------------- MODULE MemoryCache -----------------------------
(* The in-memory cache: InnerCache of src/src/graphql/cache/memory_cache.rs, *)
(* its store behind a RwLock, the client calls insert and get, the cleanup   *)
(* thread that new() spawns, and the hand-shake of Drop.                     *)
(*                                                                           *)
(* A step of a thread is what it does under one acquisition of the lock, or  *)
(* between two of them: the time stamp a call takes before it locks, the     *)
(* read and the later eviction of one get, and each key the cleanup thread   *)
(* inspects or purges are separate steps, so that every other thread may run *)
(* between them.                                                             *)
EXTENDS Integers, Sequences, FiniteSets, Functions

CONSTANTS
    Key,        \* cache keys
    NoKey,      \* the key of a client that is not in a call
    Client,     \* the tasks that share the Arc<InnerCache>
    Durations,  \* the durations an insert may ask for, in clock units
    ScanAll,    \* up to this many keys the cleaner inspects all (20 in the code)
    Batch,      \* fewer purged keys than this and the cleaner sleeps (10 in the code)
    MaxTime,    \* bound on the clock
    MaxWrites   \* bound on the number of inserts

ASSUME NoKeyAssumption == NoKey \notin Key
ASSUME DurationsAssumption == Durations \subseteq Nat
ASSUME ScanAllAssumption == ScanAll \in 1 .. 20

VARIABLES
    clock,      \* what Utc::now() returns
    life,       \* "open", "stopping" (inside Drop) or "dropped"
    stop,       \* a message is in the stop_loop channel
    completed,  \* a message is in the thread_completed channel
    store,      \* key -> the entries of its Vec; a key may be absent
    channel,    \* the added_entry channel, oldest key first
    writes,     \* write_ops
    written,    \* history: per key, every entry ever inserted
    call,       \* per client, the call in progress
    keys,       \* the cleanup thread's HashSet of known keys
    cleaner     \* the cleanup thread's other locals and its program counter

cacheVars == <<store, channel, writes, written>>
lifeVars == <<life, stop, completed>>
threadVars == <<keys, cleaner>>
vars == <<clock, lifeVars, cacheVars, call, threadVars>>

-----------------------------------------------------------------------------
(* An entry of a Vec.  Pushes happen under the write lock, which also covers *)
(* write_ops, so the order of the ids is the order of the Vec.               *)
Entry == [id : Nat, expiry : Nat]

Phases == {"idle", "insert", "get", "evict", "answered"}
Call == [phase : Phases, key : Key \cup {NoKey}, now : Nat, expiry : Nat,
         answer : SUBSET Entry]
Idle == [phase |-> "idle", key |-> NoKey, now |-> 0, expiry |-> 0, answer |-> {}]

Steps == {"top", "drain", "sample", "scan", "purge", "sleep", "stopped"}
Cleaner == [pc : Steps, now : Nat, sample : SUBSET Key, marked : SUBSET Key, wait : BOOLEAN]

(* Mistakes the checks must notice are written next to what they would break, *)
(* with names that begin with Bug; the specification uses none of them.      *)
BugUnexpired(entries, now) == {e \in entries : e.expiry >= now}

(* vec.retain and the filter of get: strictly later than now stays.          *)
Unexpired(entries, now) == {e \in entries : e.expiry > now}

Entries(k) == IF k \in DOMAIN store THEN store[k] ELSE {}

BugPurgedVec(k, now) == Restrict(store, DOMAIN store \ {k})
BugPurgedEmpty(k, now) == [store EXCEPT ![k] = Unexpired(@, now)]

(* The store after retaining k's unexpired entries, an emptied Vec going     *)
(* with its key.                                                             *)
Purged(k, now) ==
    IF Unexpired(store[k], now) = {}
    THEN Restrict(store, DOMAIN store \ {k})
    ELSE [store EXCEPT ![k] = Unexpired(@, now)]

Queued == {channel[i] : i \in 1 .. Len(channel)}

-----------------------------------------------------------------------------
Init ==
    /\ clock = 0
    /\ life = "open" /\ stop = FALSE /\ completed = FALSE
    /\ store = [k \in {} |-> {}]
    /\ channel = <<>>
    /\ writes = 0
    /\ written = [k \in Key |-> {}]
    /\ call = [c \in Client |-> Idle]
    /\ keys = {}
    /\ cleaner = [pc |-> "top", now |-> 0, sample |-> {}, marked |-> {}, wait |-> TRUE]

Tick ==
    /\ clock < MaxTime
    /\ clock' = clock + 1
    /\ UNCHANGED <<lifeVars, cacheVars, call, threadVars>>

-----------------------------------------------------------------------------
(* The client calls.                                                         *)

(* insert, before the lock: now and the expiry date.                         *)
InsertBegin(c, k, d) ==
    /\ life = "open"
    /\ call[c] = Idle
    /\ call' = [call EXCEPT ![c] =
           [Idle EXCEPT !.phase = "insert", !.key = k, !.now = clock, !.expiry = clock + d]]
    /\ UNCHANGED <<clock, lifeVars, cacheVars, threadVars>>

(* insert, under the write lock: push, or create the Vec and tell the        *)
(* cleanup thread of the new key.                                            *)
InsertCommit(c) ==
    LET k == call[c].key
        entry == [id |-> writes + 1, expiry |-> call[c].expiry]
    IN  /\ call[c].phase = "insert"
        /\ writes < MaxWrites
        /\ \/ /\ k \in DOMAIN store
              /\ store' = [store EXCEPT ![k] = Unexpired(@, call[c].now) \cup {entry}]
              /\ UNCHANGED channel
           \/ /\ k \notin DOMAIN store
              /\ store' = [j \in DOMAIN store \cup {k} |-> Entries(j) \cup {e \in {entry} : j = k}]
              /\ channel' = Append(channel, k)
        /\ writes' = writes + 1
        /\ written' = [written EXCEPT ![k] = @ \cup {entry}]
        /\ call' = [call EXCEPT ![c] = Idle]
        /\ UNCHANGED <<clock, lifeVars, threadVars>>

(* get, before the lock.                                                     *)
GetBegin(c, k) ==
    /\ life = "open"
    /\ call[c] = Idle
    /\ call' = [call EXCEPT ![c] = [Idle EXCEPT !.phase = "get", !.key = k, !.now = clock]]
    /\ UNCHANGED <<clock, lifeVars, cacheVars, threadVars>>

(* get, under the read lock: the answer, and whether something is to evict.  *)
GetRead(c) ==
    LET k == call[c].key
        answer == Unexpired(Entries(k), call[c].now)
        cleanup == k \in DOMAIN store /\ (answer = {} \/ answer # store[k])
    IN  /\ call[c].phase = "get"
        /\ call' = [call EXCEPT ![c].phase = IF cleanup THEN "evict" ELSE "answered",
                                ![c].answer = answer]
        /\ UNCHANGED <<clock, lifeVars, cacheVars, threadVars>>

BugGetEvict(c) ==
    LET k == call[c].key
    IN  /\ call[c].phase = "evict"
        /\ store' = IF k \in DOMAIN store THEN [store EXCEPT ![k] = call[c].answer] ELSE store
        /\ call' = [call EXCEPT ![c].phase = "answered"]
        /\ UNCHANGED <<clock, lifeVars, channel, writes, written, threadVars>>

(* get, under the write lock taken afterwards, with the same now.            *)
GetEvict(c) ==
    LET k == call[c].key
    IN  /\ call[c].phase = "evict"
        /\ store' = IF k \in DOMAIN store THEN Purged(k, call[c].now) ELSE store
        /\ call' = [call EXCEPT ![c].phase = "answered"]
        /\ UNCHANGED <<clock, lifeVars, channel, writes, written, threadVars>>

BugGetReturn(c) ==
    /\ call[c].phase = "answered"
    /\ call' = [call EXCEPT ![c].key = NoKey]
    /\ UNCHANGED <<clock, lifeVars, cacheVars, threadVars>>

GetReturn(c) ==
    /\ call[c].phase = "answered"
    /\ call' = [call EXCEPT ![c] = Idle]
    /\ UNCHANGED <<clock, lifeVars, cacheVars, threadVars>>

-----------------------------------------------------------------------------
(* The cleanup thread.                                                       *)

CleanerUnchanged == UNCHANGED <<clock, life, call, writes, written>>

BugCleanerTop ==
    /\ cleaner.pc = "top"
    /\ cleaner' = [cleaner EXCEPT !.pc = "drain"]
    /\ UNCHANGED <<stop, completed, store, channel, keys>>
    /\ CleanerUnchanged

CleanerTop ==
    /\ cleaner.pc = "top"
    /\ \/ /\ stop
          /\ stop' = FALSE /\ completed' = TRUE
          /\ cleaner' = [cleaner EXCEPT !.pc = "stopped"]
       \/ /\ ~stop
          /\ cleaner' = [cleaner EXCEPT !.pc = "drain"]
          /\ UNCHANGED <<stop, completed>>
    /\ UNCHANGED <<store, channel, keys>>
    /\ CleanerUnchanged

CleanerReceive ==
    /\ cleaner.pc = "drain"
    /\ channel # <<>>
    /\ keys' = keys \cup {Head(channel)}
    /\ channel' = Tail(channel)
    /\ UNCHANGED <<store, stop, completed, cleaner>>
    /\ CleanerUnchanged

CleanerDrained ==
    /\ cleaner.pc = "drain"
    /\ channel = <<>>
    /\ cleaner' = [cleaner EXCEPT !.pc = IF keys = {} THEN "sleep" ELSE "sample"]
    /\ UNCHANGED <<store, stop, completed, channel, keys>>
    /\ CleanerUnchanged

(* How many of n keys one round inspects, and where gen_range(0..n - count)  *)
(* may start when that is not all of them.                                   *)
KeysToTake(n) == IF n <= ScanAll THEN n ELSE ScanAll - 1 + n \div 20
Starts(n) == IF n <= ScanAll THEN {0} ELSE 0 .. n - KeysToTake(n) - 1

(* The sample: a window of the HashSet's iteration order, which is unspecified. *)
CleanerSample ==
    LET n == Cardinality(keys)
    IN  /\ cleaner.pc = "sample"
        /\ \E order \in Bijection(1 .. n, keys), start \in Starts(n) :
              cleaner' = [cleaner EXCEPT
                  !.pc = "scan", !.now = clock, !.marked = {},
                  !.sample = {order[i] : i \in start + 1 .. start + KeysToTake(n)}]
        /\ UNCHANGED <<store, stop, completed, channel, keys>>
        /\ CleanerUnchanged

BugStale(k) == Entries(k) = {}

(* An entry strictly before now, an empty Vec or no Vec at all.              *)
Stale(k) == Entries(k) = {} \/ \E e \in Entries(k) : e.expiry < cleaner.now

(* One key under the read lock: marked if it is stale.                       *)
CleanerInspect(k) ==
    /\ cleaner.pc = "scan"
    /\ k \in cleaner.sample
    /\ cleaner' = [cleaner EXCEPT
           !.sample = @ \ {k},
           !.marked = IF Stale(k) THEN @ \cup {k} ELSE @]
    /\ UNCHANGED <<store, stop, completed, channel, keys>>
    /\ CleanerUnchanged

CleanerScanned ==
    LET cleaned == Cardinality(cleaner.marked)
    IN  /\ cleaner.pc = "scan"
        /\ cleaner.sample = {}
        /\ cleaner' = [cleaner EXCEPT !.pc = "purge",
               !.wait = \/ cleaned < KeysToTake(Cardinality(keys)) \div 20
                        \/ cleaned < Batch]
        /\ UNCHANGED <<store, stop, completed, channel, keys>>
        /\ CleanerUnchanged

BugCleanerPurge(k) ==
    /\ cleaner.pc = "purge"
    /\ k \in cleaner.marked
    /\ store' = IF k \in DOMAIN store THEN Purged(k, cleaner.now) ELSE store
    /\ keys' = keys \ {k}
    /\ cleaner' = [cleaner EXCEPT !.marked = @ \ {k}]
    /\ UNCHANGED <<stop, completed, channel>>
    /\ CleanerUnchanged

(* One marked key under the write lock, which it looks up again.             *)
CleanerPurge(k) ==
    /\ cleaner.pc = "purge"
    /\ k \in cleaner.marked
    /\ store' = IF k \in DOMAIN store THEN Purged(k, cleaner.now) ELSE store
    /\ keys' = IF k \in DOMAIN store' THEN keys ELSE keys \ {k}
    /\ cleaner' = [cleaner EXCEPT !.marked = @ \ {k}]
    /\ UNCHANGED <<stop, completed, channel>>
    /\ CleanerUnchanged

(* End of a round: sleep, or go on at once after a large purge.              *)
CleanerRest ==
    /\ cleaner.pc = "purge"
    /\ cleaner.marked = {}
    /\ cleaner' = [cleaner EXCEPT !.pc = IF cleaner.wait THEN "sleep" ELSE "top",
                                   !.now = 0, !.wait = TRUE]
    /\ UNCHANGED <<store, stop, completed, channel, keys>>
    /\ CleanerUnchanged

CleanerWake ==
    /\ cleaner.pc = "sleep"
    /\ cleaner' = [cleaner EXCEPT !.pc = "top"]
    /\ UNCHANGED <<store, stop, completed, channel, keys>>
    /\ CleanerUnchanged

-----------------------------------------------------------------------------
(* Drop for InnerCache: the last Arc is gone, so no call is in progress.     *)

Drop ==
    /\ life = "open"
    /\ \A c \in Client : call[c] = Idle
    /\ life' = "stopping"
    /\ stop' = TRUE
    /\ UNCHANGED <<clock, completed, cacheVars, call, threadVars>>

DropReturn ==
    /\ life = "stopping"
    /\ completed
    /\ completed' = FALSE
    /\ life' = "dropped"
    /\ UNCHANGED <<clock, stop, cacheVars, call, threadVars>>

Terminated == life = "dropped" /\ UNCHANGED vars

-----------------------------------------------------------------------------
ClientStep(c) ==
    \/ \E k \in Key, d \in Durations : InsertBegin(c, k, d)
    \/ \E k \in Key : GetBegin(c, k)
    \/ InsertCommit(c)
    \/ GetRead(c)
    \/ GetEvict(c)
    \/ GetReturn(c)

CleanerStep ==
    \/ CleanerTop
    \/ CleanerReceive
    \/ CleanerDrained
    \/ CleanerSample
    \/ \E k \in Key : CleanerInspect(k)
    \/ CleanerScanned
    \/ \E k \in Key : CleanerPurge(k)
    \/ CleanerRest
    \/ CleanerWake

Next ==
    \/ Tick
    \/ \E c \in Client : ClientStep(c)
    \/ CleanerStep
    \/ Drop
    \/ DropReturn
    \/ Terminated

Spec == Init /\ [][Next]_vars

(* The operating system keeps running the cleanup thread (its sleep is       *)
(* finite), and a Drop that finds its answer takes it.  Nothing is assumed   *)
(* of the clients.                                                           *)
Fairness == WF_vars(CleanerStep) /\ WF_vars(DropReturn)
FairSpec == Spec /\ Fairness

-----------------------------------------------------------------------------
(* Every variable keeps its type, and a call in progress names a real key.   *)
TypeOK ==
    /\ clock \in Nat
    /\ life \in {"open", "stopping", "dropped"}
    /\ stop \in BOOLEAN /\ completed \in BOOLEAN
    /\ DOMAIN store \subseteq Key
    /\ \A k \in DOMAIN store : store[k] \subseteq Entry
    /\ channel \in Seq(Key)
    /\ writes \in Nat
    /\ written \in [Key -> SUBSET Entry]
    /\ call \in [Client -> Call]
    /\ \A c \in Client : call[c].key = NoKey => call[c].phase = "idle"
    /\ keys \subseteq Key /\ IsFiniteSet(keys)
    /\ cleaner \in Cleaner

(* No eviction, by a get with an old time stamp or by the cleanup thread,    *)
(* loses an entry before its expiry date.                                    *)
LiveEntriesKept == \A k \in Key : Unexpired(written[k], clock) \subseteq Entries(k)

(* Every key of the store is known to the cleanup thread or on its way to    *)
(* it: a key that falls out of both would never be purged again.             *)
StoreTracked == DOMAIN store \subseteq keys \cup Queued

(* No Vec is ever left empty in the store: insert would push into it without *)
(* announcing the key, and get would answer None through the slow path.      *)
NoEmptyVec == \A k \in DOMAIN store : store[k] # {}

(* The store holds no value that nobody inserted under that key, and an      *)
(* entry that is gone from the store never comes back.                       *)
StoreWritten == \A k \in DOMAIN store : store[k] \subseteq written[k]

NeverRestored ==
    [][\A k \in Key : Entries(k)' \cap written[k] \subseteq Entries(k)]_vars

(* The inductive invariant behind these: besides them, no time stamp in use  *)
(* is ahead of the clock and no id of the log is ahead of write_ops.         *)
ClocksBehind == (\A c \in Client : call[c].now <= clock) /\ cleaner.now <= clock
IdsFresh == \A k \in Key : \A e \in written[k] : e.id <= writes

Safe ==
    /\ ClocksBehind
    /\ IdsFresh
    /\ LiveEntriesKept
    /\ StoreWritten
    /\ StoreTracked
    /\ NoEmptyVec

(* An expired entry is reclaimed, whether or not anybody asks for its key    *)
(* again, unless the cache is dropped or the thread knows, again and again,  *)
(* more keys than it inspects in one round.  Then the last key of the        *)
(* HashSet's order is in no sample (148-156), and nothing is promised.       *)
Expired(i) == \E k \in DOMAIN store : \E e \in store[k] : e.id = i /\ e.expiry < clock
Stored(i) == \E k \in DOMAIN store : \E e \in store[k] : e.id = i

ExpiredReclaimed ==
    \A i \in 1 .. MaxWrites :
        Expired(i) ~> (~Stored(i) \/ life # "open" \/ Cardinality(keys) > ScanAll)

(* Drop returns: the cleanup thread sees the stop message and answers it.    *)
DropReturns == life = "stopping" ~> life = "dropped"

-----------------------------------------------------------------------------
(* The cache implements its contract.  A get has answered, as far as its     *)
(* caller can tell, when it has read; what it evicts afterwards is hidden.   *)
Seen(record) == [record EXCEPT !.phase = IF @ = "evict" THEN "answered" ELSE @]
CallSeen == [c \in Client |-> Seen(call[c])]

Contract == INSTANCE CacheContract WITH open <- life = "open", call <- CallSeen

ImplementsContract == Contract!Spec
=============================================================================
