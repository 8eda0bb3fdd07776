----------------------------- MODULE RedisCache -----------------------------
(* The cache the deployed proxy uses: InternalRedisCache of                  *)
(* src/src/graphql/cache/redis_cache.rs.  A key is a sorted set whose        *)
(* members are JSON texts and whose scores are expiry seconds.               *)
(*                                                                           *)
(* The server runs one command at a time, so a step is one command.  The two *)
(* commands of a get are a pipeline, not a transaction: the commands of      *)
(* another connection may run between them.  A client here is a connection,  *)
(* that is a proxy process (all tasks of one share a MultiplexedConnection,  *)
(* which sends a pipeline as one message).                                   *)
EXTENDS Integers

CONSTANTS
    Key,        \* cache keys
    NoKey,      \* the key of a client that is not in a call
    NoValue,    \* the value of a client that is not in an insert
    Client,     \* connections to the server
    Value,      \* JSON texts
    Durations,  \* the durations an insert may ask for, in seconds
    MaxTime     \* bound on the clock

ASSUME RedisNoKey == NoKey \notin Key
ASSUME RedisNoValue == NoValue \notin Value
ASSUME RedisDurations == Durations \subseteq Nat

VARIABLES
    clock,      \* Utc::now().timestamp(), whole seconds
    zset,       \* key -> its members with their scores, as [id, expiry]
    written,    \* history: per key, every [id, expiry] a ZADD has set
    latest,     \* history: per key and value, the expiry the last ZADD has set
    call        \* per client, the call in progress

vars == <<clock, zset, written, latest, call>>

Entry == [id : Value, expiry : Nat]
Phases == {"idle", "insert", "get", "range", "answered"}
Call == [phase : Phases, key : Key \cup {NoKey}, value : Value \cup {NoValue}, now : Nat,
         expiry : Nat, answer : SUBSET Entry]
Idle == [phase |-> "idle", key |-> NoKey, value |-> NoValue, now |-> 0, expiry |-> 0,
         answer |-> {}]

(* Mistakes the checks must notice have names that begin with Bug.           *)
BugRemaining(entries, now) == {e \in entries : e.expiry > now + 1}

(* What ZREMRANGEBYSCORE 0 now leaves, and what ZRANGEBYSCORE now +inf gives. *)
Remaining(entries, now) == {e \in entries : e.expiry > now}

BugInRange(entries, now) == entries

InRange(entries, now) == {e \in entries : e.expiry >= now}

Init ==
    /\ clock = 0
    /\ zset = [k \in Key |-> {}]
    /\ written = [k \in Key |-> {}]
    /\ latest = [k \in Key |-> [v \in Value |-> 0]]
    /\ call = [c \in Client |-> Idle]

Tick ==
    /\ clock < MaxTime
    /\ clock' = clock + 1
    /\ UNCHANGED <<zset, written, latest, call>>

(* insert, up to sending the command: the score.                             *)
InsertBegin(c, k, v, d) ==
    /\ call[c] = Idle
    /\ call' = [call EXCEPT ![c] = [Idle EXCEPT
           !.phase = "insert", !.key = k, !.value = v, !.now = clock, !.expiry = clock + d]]
    /\ UNCHANGED <<clock, zset, written, latest>>

(* ZADD: the score of a member that is there already is overwritten.         *)
InsertZadd(c) ==
    LET k == call[c].key
        entry == [id |-> call[c].value, expiry |-> call[c].expiry]
    IN  /\ call[c].phase = "insert"
        /\ zset' = [zset EXCEPT ![k] = {e \in @ : e.id # entry.id} \cup {entry}]
        /\ written' = [written EXCEPT ![k] = @ \cup {entry}]
        /\ latest' = [latest EXCEPT ![k][entry.id] = entry.expiry]
        /\ call' = [call EXCEPT ![c] = Idle]
        /\ UNCHANGED clock

(* The command fails: insert prints the error and returns Ok.                *)
InsertFail(c) ==
    /\ call[c].phase = "insert"
    /\ call' = [call EXCEPT ![c] = Idle]
    /\ UNCHANGED <<clock, zset, written, latest>>

GetBegin(c, k) ==
    /\ call[c] = Idle
    /\ call' = [call EXCEPT ![c] = [Idle EXCEPT !.phase = "get", !.key = k, !.now = clock]]
    /\ UNCHANGED <<clock, zset, written, latest>>

(* First command of the pipeline.                                            *)
GetRemove(c) ==
    LET k == call[c].key
    IN  /\ call[c].phase = "get"
        /\ zset' = [zset EXCEPT ![k] = Remaining(@, call[c].now)]
        /\ call' = [call EXCEPT ![c].phase = "range"]
        /\ UNCHANGED <<clock, written, latest>>

(* Second command.  An empty answer is None.                                 *)
GetRange(c) ==
    /\ call[c].phase = "range"
    /\ call' = [call EXCEPT ![c].phase = "answered",
                            ![c].answer = InRange(zset[call[c].key], call[c].now)]
    /\ UNCHANGED <<clock, zset, written, latest>>

(* The pipeline fails, before or after its first command: get answers None.  *)
GetFail(c) ==
    /\ call[c].phase \in {"get", "range"}
    /\ call' = [call EXCEPT ![c].phase = "answered", ![c].answer = {}]
    /\ UNCHANGED <<clock, zset, written, latest>>

GetReturn(c) ==
    /\ call[c].phase = "answered"
    /\ call' = [call EXCEPT ![c] = Idle]
    /\ UNCHANGED <<clock, zset, written, latest>>

ClientStep(c) ==
    \/ \E k \in Key, v \in Value, d \in Durations : InsertBegin(c, k, v, d)
    \/ \E k \in Key : GetBegin(c, k)
    \/ InsertZadd(c)
    \/ InsertFail(c)
    \/ GetRemove(c)
    \/ GetRange(c)
    \/ GetFail(c)
    \/ GetReturn(c)

Next == Tick \/ \E c \in Client : ClientStep(c)

Spec == Init /\ [][Next]_vars

-----------------------------------------------------------------------------
(* Types, and that a call in progress names a key, an insert a value.        *)
TypeOK ==
    /\ clock \in Nat
    /\ zset \in [Key -> SUBSET Entry]
    /\ written \in [Key -> SUBSET Entry]
    /\ latest \in [Key -> [Value -> Nat]]
    /\ call \in [Client -> Call]
    /\ \A c \in Client : /\ call[c].phase # "idle" => call[c].key \in Key
                         /\ call[c].phase = "insert" => call[c].value \in Value

ZsetWritten == \A k \in Key : zset[k] \subseteq written[k]
ClocksBehind == \A c \in Client : call[c].now <= clock

(* No get, however late its removal runs, takes away a value before the      *)
(* expiry its last insert has set.                                           *)
LatestKept ==
    \A k \in Key, v \in Value :
        latest[k][v] > clock => [id |-> v, expiry |-> latest[k][v]] \in zset[k]

Safe == ZsetWritten /\ ClocksBehind /\ LatestKept

-----------------------------------------------------------------------------
(* Every answer is one a sound cache may give.  The range step is when a get *)
(* answers; a removal before it is hidden.                                   *)
Seen(record) ==
    [phase |-> IF record.phase = "range" THEN "get" ELSE record.phase,
     key |-> record.key, now |-> record.now, expiry |-> record.expiry,
     answer |-> record.answer]

SeenCall == [c \in Client |-> Seen(call[c])]

Sound == INSTANCE SoundCache WITH call <- SeenCall

AnswersSound == Sound!Spec
=============================================================================
