----------------------------- MODULE SoundCache -----------------------------
(* The least the request handler needs of a cache: a get may forget          *)
(* anything, but what it answers was inserted under that key and had not     *)
(* expired before the call began.  Both caches of src/src/graphql/cache/     *)
(* promise this much.                                                        *)
EXTENDS Integers

CONSTANTS
    Key,        \* cache keys
    NoKey,      \* the key of a client that is not in a call
    Client,     \* callers
    Value,      \* what can be inserted
    Durations,  \* the durations an insert may ask for
    MaxTime     \* bound on the clock

VARIABLES
    clock,      \* what Utc::now() returns
    written,    \* per key, every [id, expiry] ever inserted, id being the value
    call        \* per client, the call in progress

vars == <<clock, written, call>>

Pending(phase, key, now, expiry, answer) ==
    [phase |-> phase, key |-> key, now |-> now, expiry |-> expiry, answer |-> answer]
Idle == Pending("idle", NoKey, 0, 0, {})

(* A mistake the checks must notice has a name that begins with Bug.         *)
BugNotExpired(entries, now) == entries

NotExpired(entries, now) == {e \in entries : e.expiry >= now}

Init ==
    /\ clock = 0
    /\ written = [k \in Key |-> {}]
    /\ call = [c \in Client |-> Idle]

Tick ==
    /\ clock < MaxTime
    /\ clock' = clock + 1
    /\ UNCHANGED <<written, call>>

InsertBegin(c, k, d) ==
    /\ call[c] = Idle
    /\ call' = [call EXCEPT ![c] = Pending("insert", k, clock, clock + d, {})]
    /\ UNCHANGED <<clock, written>>

(* The insert takes effect, or is lost without a word to the caller.         *)
InsertKeeps(c, v) ==
    /\ call[c].phase = "insert"
    /\ written' = [written EXCEPT ![call[c].key] =
           @ \cup {[id |-> v, expiry |-> call[c].expiry]}]
    /\ call' = [call EXCEPT ![c] = Idle]
    /\ UNCHANGED clock

InsertLost(c) ==
    /\ call[c].phase = "insert"
    /\ call' = [call EXCEPT ![c] = Idle]
    /\ UNCHANGED <<clock, written>>

GetBegin(c, k) ==
    /\ call[c] = Idle
    /\ call' = [call EXCEPT ![c] = Pending("get", k, clock, 0, {})]
    /\ UNCHANGED <<clock, written>>

GetAnswer(c) ==
    /\ call[c].phase = "get"
    /\ \E answer \in SUBSET NotExpired(written[call[c].key], call[c].now) :
           call' = [call EXCEPT ![c] =
               Pending("answered", call[c].key, call[c].now, call[c].expiry, answer)]
    /\ UNCHANGED <<clock, written>>

GetReturn(c) ==
    /\ call[c].phase = "answered"
    /\ call' = [call EXCEPT ![c] = Idle]
    /\ UNCHANGED <<clock, written>>

Next ==
    \/ Tick
    \/ \E c \in Client :
          \/ \E k \in Key : GetBegin(c, k) \/ (\E d \in Durations : InsertBegin(c, k, d))
          \/ InsertLost(c) \/ (\E v \in Value : InsertKeeps(c, v))
          \/ GetAnswer(c)
          \/ GetReturn(c)

Spec == Init /\ [][Next]_vars
=============================================================================
