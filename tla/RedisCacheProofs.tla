-------------------------- MODULE RedisCacheProofs --------------------------
(* Theorems about RedisCache, for any set of keys, values and connections.   *)
EXTENDS RedisCache, TLAPS

-----------------------------------------------------------------------------
(* Type correctness.                                                         *)

LEMMA IdleTyped == Idle \in Call /\ Idle.phase = "idle" /\ Idle.now = 0
BY DEF Idle, Call, Phases

LEMMA CallTyped ==
    ASSUME TypeOK, NEW c \in Client
    PROVE  /\ call[c] \in Call /\ call[c].phase \in Phases
           /\ call[c].key \in Key \cup {NoKey} /\ call[c].value \in Value \cup {NoValue}
           /\ call[c].now \in Nat /\ call[c].expiry \in Nat /\ call[c].answer \in SUBSET Entry
           /\ call[c].phase # "idle" => call[c].key \in Key
           /\ call[c].phase = "insert" => call[c].value \in Value
BY DEF TypeOK, Call

(* A call moves to another well-typed record.                                *)
LEMMA CallMoves ==
    ASSUME TypeOK, NEW c \in Client, NEW new \in Call,
           new.phase # "idle" => new.key \in Key,
           new.phase = "insert" => new.value \in Value,
           call' = [call EXCEPT ![c] = new],
           clock' \in Nat, zset' \in [Key -> SUBSET Entry],
           written' \in [Key -> SUBSET Entry], latest' \in [Key -> [Value -> Nat]]
    PROVE  TypeOK'
BY DEF TypeOK

LEMMA NextTyped == TypeOK /\ [Next]_vars => TypeOK'
<1> SUFFICES ASSUME TypeOK, [Next]_vars PROVE TypeOK'
    OBVIOUS
<1>1. CASE Tick
      BY <1>1 DEF Tick, TypeOK
<1>2. ASSUME NEW c \in Client, ClientStep(c) PROVE TypeOK'
  <2>1. ASSUME NEW k \in Key, NEW v \in Value, NEW d \in Durations, InsertBegin(c, k, v, d)
        PROVE  TypeOK'
    <3> DEFINE new == [Idle EXCEPT !.phase = "insert", !.key = k, !.value = v, !.now = clock,
                                   !.expiry = clock + d]
    <3>1. clock \in Nat /\ clock + d \in Nat
          BY RedisDurations DEF TypeOK
    <3>2. new \in Call /\ new.key = k /\ new.value = v
          BY <3>1 DEF Idle, Call, Phases
    <3>3. call' = [call EXCEPT ![c] = new]
          BY <2>1 DEF InsertBegin
    <3> HIDE DEF new
    <3> QED BY <2>1, <3>2, <3>3, CallMoves DEF InsertBegin, TypeOK
  <2>2. ASSUME NEW k \in Key, GetBegin(c, k) PROVE TypeOK'
    <3> DEFINE new == [Idle EXCEPT !.phase = "get", !.key = k, !.now = clock]
    <3>1. clock \in Nat
          BY DEF TypeOK
    <3>2. new \in Call /\ new.key = k /\ new.phase = "get"
          BY <3>1 DEF Idle, Call, Phases
    <3>3. call' = [call EXCEPT ![c] = new]
          BY <2>2 DEF GetBegin
    <3> HIDE DEF new
    <3> QED BY <2>2, <3>2, <3>3, CallMoves DEF GetBegin, TypeOK
  <2>3. CASE InsertZadd(c)
    <3> DEFINE k == call[c].key
               entry == [id |-> call[c].value, expiry |-> call[c].expiry]
    <3>1. k \in Key /\ entry \in Entry
          BY <2>3, CallTyped DEF InsertZadd, Entry
    <3>2. /\ zset' \in [Key -> SUBSET Entry] /\ written' \in [Key -> SUBSET Entry]
          /\ latest' \in [Key -> [Value -> Nat]]
          BY <2>3, <3>1, CallTyped DEF InsertZadd, TypeOK
    <3> QED BY <2>3, <3>2, CallMoves, IdleTyped DEF InsertZadd, TypeOK
  <2>4. CASE InsertFail(c) \/ GetReturn(c)
        BY <2>4, CallMoves, IdleTyped DEF InsertFail, GetReturn, TypeOK
  <2>5. CASE GetRemove(c)
    <3> DEFINE new == [call[c] EXCEPT !.phase = "range"]
    <3>1. new \in Call /\ new.key \in Key /\ new.phase = "range"
          BY <2>5, CallTyped DEF GetRemove, Call, Phases
    <3>2. call' = [call EXCEPT ![c] = new] /\ zset' \in [Key -> SUBSET Entry]
          BY <2>5 DEF GetRemove, TypeOK, Remaining
    <3> HIDE DEF new
    <3> QED BY <2>5, <3>1, <3>2, CallMoves DEF GetRemove, TypeOK
  <2>6. CASE GetRange(c)
    <3> DEFINE answer == InRange(zset[call[c].key], call[c].now)
               new == [call[c] EXCEPT !.phase = "answered", !.answer = answer]
    <3>1. call[c].key \in Key /\ answer \in SUBSET Entry
          BY <2>6, CallTyped DEF GetRange, TypeOK, InRange
    <3>2. call' = [call EXCEPT ![c] = new]
          BY <2>6 DEF GetRange
    <3>3. new \in Call /\ new.key \in Key /\ new.phase = "answered"
      <4> HIDE DEF answer
      <4> QED BY <3>1, CallTyped DEF Call, Phases
    <3> HIDE DEF new
    <3> QED BY <2>6, <3>2, <3>3, CallMoves DEF GetRange, TypeOK
  <2>7. CASE GetFail(c)
    <3> DEFINE new == [call[c] EXCEPT !.phase = "answered", !.answer = {}]
    <3>1. new \in Call /\ new.key \in Key /\ new.phase = "answered"
          BY <2>7, CallTyped DEF GetFail, Call, Phases
    <3>2. call' = [call EXCEPT ![c] = new]
          BY <2>7 DEF GetFail
    <3> HIDE DEF new
    <3> QED BY <2>7, <3>1, <3>2, CallMoves DEF GetFail, TypeOK
  <2> QED BY <1>2, <2>1, <2>2, <2>3, <2>4, <2>5, <2>6, <2>7 DEF ClientStep
<1>3. CASE UNCHANGED vars
      BY <1>3 DEF vars, TypeOK
<1> QED BY <1>1, <1>2, <1>3 DEF Next

LEMMA InitTyped == Init => TypeOK
BY IdleTyped DEF Init, TypeOK

(* Every reachable state is well typed.                                      *)
THEOREM RedisTypeCorrect == Spec => []TypeOK
<1> QED BY InitTyped, NextTyped, PTL DEF Spec

-----------------------------------------------------------------------------
(* Safety.                                                                   *)

LEMMA InitSafe == Init => Safe
BY IdleTyped DEF Init, Safe, ZsetWritten, ClocksBehind, LatestKept

LEMMA CacheUnchangedSafe ==
    ASSUME Safe, UNCHANGED <<clock, zset, written, latest>>
    PROVE  ZsetWritten' /\ LatestKept'
BY DEF Safe, ZsetWritten, LatestKept

LEMMA NextSafe == TypeOK /\ Safe /\ [Next]_vars => Safe'
<1> SUFFICES ASSUME TypeOK, Safe, [Next]_vars PROVE Safe'
    OBVIOUS
<1>1. CASE Tick
  <2>1. \A c \in Client : call[c].now \in Nat
        BY CallTyped
  <2>2. ClocksBehind'
        BY <1>1, <2>1 DEF Tick, Safe, ClocksBehind, TypeOK
  <2>3. LatestKept' /\ ZsetWritten'
        BY <1>1 DEF Tick, Safe, LatestKept, ZsetWritten, TypeOK
  <2> QED BY <2>2, <2>3 DEF Safe
<1>2. ASSUME NEW c \in Client, ClientStep(c) PROVE Safe'
  <2>1. ASSUME NEW k \in Key, NEW v \in Value, NEW d \in Durations, InsertBegin(c, k, v, d)
        PROVE  Safe'
    <3>1. ClocksBehind'
          BY <2>1 DEF InsertBegin, Safe, ClocksBehind, TypeOK, Idle
    <3> QED BY <2>1, <3>1, CacheUnchangedSafe DEF InsertBegin, Safe
  <2>2. ASSUME NEW k \in Key, GetBegin(c, k) PROVE Safe'
    <3>1. ClocksBehind'
          BY <2>2 DEF GetBegin, Safe, ClocksBehind, TypeOK, Idle
    <3> QED BY <2>2, <3>1, CacheUnchangedSafe DEF GetBegin, Safe
  <2>3. CASE InsertZadd(c)
    <3> DEFINE k == call[c].key
               entry == [id |-> call[c].value, expiry |-> call[c].expiry]
    <3>1. /\ k \in Key /\ call[c].value \in Value
          /\ entry.id = call[c].value /\ entry.expiry = call[c].expiry
          BY <2>3, CallTyped DEF InsertZadd
    <3>2. /\ zset' = [zset EXCEPT ![k] = {e \in @ : e.id # entry.id} \cup {entry}]
          /\ written' = [written EXCEPT ![k] = @ \cup {entry}]
          /\ latest' = [latest EXCEPT ![k][entry.id] = entry.expiry]
          /\ clock' = clock /\ call' = [call EXCEPT ![c] = Idle]
          BY <2>3 DEF InsertZadd
    <3>3. ClocksBehind'
          BY <3>2, IdleTyped DEF Safe, ClocksBehind, TypeOK
    <3>4. entry = [id |-> entry.id, expiry |-> entry.expiry]
          OBVIOUS
    <3> HIDE DEF k, entry
    <3>5. ZsetWritten'
          BY <3>1, <3>2 DEF Safe, ZsetWritten, TypeOK
    <3>6. ASSUME NEW j \in Key, NEW v \in Value, latest'[j][v] > clock'
          PROVE  [id |-> v, expiry |-> latest'[j][v]] \in zset'[j]
      <4>1. CASE j = k /\ v = entry.id
            BY <3>1, <3>2, <3>4, <4>1 DEF TypeOK
      <4>2. CASE ~(j = k /\ v = entry.id)
        <5>1. latest'[j][v] = latest[j][v]
              BY <3>1, <3>2, <4>2 DEF TypeOK
        <5>2. [id |-> v, expiry |-> latest[j][v]] \in zset[j]
              BY <3>2, <3>6, <5>1 DEF Safe, LatestKept
        <5> QED BY <3>1, <3>2, <4>2, <5>1, <5>2 DEF TypeOK
      <4> QED BY <4>1, <4>2
    <3>7. LatestKept'
          BY <3>6 DEF LatestKept
    <3> QED BY <3>3, <3>5, <3>7 DEF Safe
  <2>4. CASE InsertFail(c) \/ GetReturn(c)
    <3>1. ClocksBehind'
          BY <2>4, IdleTyped DEF InsertFail, GetReturn, Safe, ClocksBehind, TypeOK
    <3> QED BY <2>4, <3>1, CacheUnchangedSafe DEF InsertFail, GetReturn, Safe
  <2>5. ASSUME GetRemove(c) \/ GetRange(c) \/ GetFail(c), NEW b \in Client
        PROVE  call'[b].now = call[b].now
    <3>1. call \in [Client -> Call] /\ call[b] \in Call
          BY DEF TypeOK
    <3>2. CASE GetRemove(c)
          BY <3>1, <3>2 DEF GetRemove, Call
    <3>3. CASE GetRange(c)
          BY <3>1, <3>3 DEF GetRange, Call
    <3>4. CASE GetFail(c)
          BY <3>1, <3>4 DEF GetFail, Call
    <3> QED BY <2>5, <3>2, <3>3, <3>4
  <2>6. CASE GetRemove(c)
    <3>1. ClocksBehind'
          BY <2>5, <2>6 DEF GetRemove, Safe, ClocksBehind
    <3>2. ZsetWritten'
          BY <2>6 DEF GetRemove, Safe, ZsetWritten, Remaining, TypeOK
    <3>3. ASSUME NEW k \in Key, NEW v \in Value, latest'[k][v] > clock'
          PROVE  [id |-> v, expiry |-> latest'[k][v]] \in zset'[k]
      <4> DEFINE entry == [id |-> v, expiry |-> latest[k][v]]
      <4>1. latest' = latest /\ clock' = clock
            BY <2>6 DEF GetRemove
      <4>2. entry \in zset[k] /\ entry.expiry = latest[k][v]
            BY <3>3, <4>1 DEF Safe, LatestKept
      <4>3. entry.expiry > call[c].now
            BY <3>3, <4>1, <4>2, CallTyped DEF Safe, ClocksBehind, TypeOK
      <4> HIDE DEF entry
      <4>4. entry \in zset'[k]
            BY <2>6, <4>2, <4>3 DEF GetRemove, Remaining, TypeOK
      <4> QED BY <4>1, <4>4 DEF entry
    <3>4. LatestKept'
          BY <3>3 DEF LatestKept
    <3> QED BY <3>1, <3>2, <3>4 DEF Safe
  <2>7. CASE GetRange(c) \/ GetFail(c)
    <3>1. ClocksBehind'
          BY <2>5, <2>7 DEF GetRange, GetFail, Safe, ClocksBehind
    <3> QED BY <2>7, <3>1, CacheUnchangedSafe DEF GetRange, GetFail, Safe
  <2> QED BY <1>2, <2>1, <2>2, <2>3, <2>4, <2>6, <2>7 DEF ClientStep
<1>3. CASE UNCHANGED vars
      BY <1>3 DEF vars, Safe, ZsetWritten, ClocksBehind, LatestKept
<1> QED BY <1>1, <1>2, <1>3 DEF Next

THEOREM RedisSafe == Spec => [](TypeOK /\ Safe)
<1>1. Init => TypeOK /\ Safe
      BY InitTyped, InitSafe
<1>2. TypeOK /\ Safe /\ [Next]_vars => (TypeOK /\ Safe)'
      BY NextTyped, NextSafe
<1> QED BY <1>1, <1>2, PTL DEF Spec

(* No get takes a value away before the expiry its last insert has set.      *)
THEOREM LatestInsertKept == Spec => []LatestKept
<1>1. Safe => LatestKept
      BY DEF Safe
<1> QED BY <1>1, RedisSafe, PTL

-----------------------------------------------------------------------------
(* Refinement of the sound cache.                                            *)

LEMMA IdleSeen == Seen(Idle) = Sound!Idle
BY DEF Seen, Idle, Sound!Idle, Sound!Pending

LEMMA SeenMoves ==
    ASSUME TypeOK, NEW c \in Client, NEW new, call' = [call EXCEPT ![c] = new]
    PROVE  SeenCall' = [SeenCall EXCEPT ![c] = Seen(new)]
BY DEF TypeOK, SeenCall

LEMMA InitRefines == Init => Sound!Init
BY IdleSeen DEF Init, Sound!Init, SeenCall

LEMMA StepRefines == TypeOK /\ Safe /\ [Next]_vars => [Sound!Next]_(Sound!vars)
<1> SUFFICES ASSUME TypeOK, Safe, [Next]_vars PROVE [Sound!Next]_(Sound!vars)
    OBVIOUS
<1>1. CASE Tick
      BY <1>1 DEF Tick, Sound!Tick, Sound!Next, SeenCall
<1>2. ASSUME NEW c \in Client, ClientStep(c) PROVE Sound!Next \/ UNCHANGED Sound!vars
  <2>1. /\ SeenCall[c] = Seen(call[c])
        /\ SeenCall[c].key = call[c].key /\ SeenCall[c].now = call[c].now
        /\ SeenCall[c].expiry = call[c].expiry /\ SeenCall[c].answer = call[c].answer
        /\ SeenCall[c].phase = IF call[c].phase = "range" THEN "get" ELSE call[c].phase
        BY DEF Seen, SeenCall
  <2>2. ASSUME NEW k \in Key, NEW v \in Value, NEW d \in Durations, InsertBegin(c, k, v, d)
        PROVE  Sound!Next
    <3> DEFINE new == [Idle EXCEPT !.phase = "insert", !.key = k, !.value = v, !.now = clock,
                                   !.expiry = clock + d]
    <3>1. Seen(new) = Sound!Pending("insert", k, clock, clock + d, {})
          BY DEF Seen, Idle, Sound!Pending
    <3>2. call[c] = Idle /\ call' = [call EXCEPT ![c] = new]
          BY <2>2 DEF InsertBegin
    <3>3. SeenCall[c] = Sound!Idle
          BY <2>1, <3>2, IdleSeen
    <3>4. SeenCall' = [SeenCall EXCEPT ![c] = Seen(new)]
      <4> HIDE DEF new
      <4> QED BY <3>2, SeenMoves
    <3>5. Sound!InsertBegin(c, k, d)
          BY <2>2, <3>1, <3>3, <3>4 DEF InsertBegin, Sound!InsertBegin
    <3> QED BY <3>5 DEF Sound!Next
  <2>3. ASSUME NEW k \in Key, GetBegin(c, k) PROVE Sound!Next
    <3> DEFINE new == [Idle EXCEPT !.phase = "get", !.key = k, !.now = clock]
    <3>1. Seen(new) = Sound!Pending("get", k, clock, 0, {})
          BY DEF Seen, Idle, Sound!Pending
    <3>2. call[c] = Idle /\ call' = [call EXCEPT ![c] = new]
          BY <2>3 DEF GetBegin
    <3>3. SeenCall[c] = Sound!Idle
          BY <2>1, <3>2, IdleSeen
    <3>4. SeenCall' = [SeenCall EXCEPT ![c] = Seen(new)]
      <4> HIDE DEF new
      <4> QED BY <3>2, SeenMoves
    <3>5. Sound!GetBegin(c, k)
          BY <2>3, <3>1, <3>3, <3>4 DEF GetBegin, Sound!GetBegin
    <3> QED BY <3>5 DEF Sound!Next
  <2>4. CASE InsertZadd(c) \/ InsertFail(c)
    <3>1. call[c].phase = "insert" /\ call' = [call EXCEPT ![c] = Idle] /\ clock' = clock
          BY <2>4 DEF InsertZadd, InsertFail
    <3>2. SeenCall' = [SeenCall EXCEPT ![c] = Sound!Idle]
          BY <3>1, SeenMoves, IdleSeen
    <3>3. call[c].value \in Value
          BY <3>1, CallTyped
    <3>4. \/ UNCHANGED written
          \/ written' = [written EXCEPT ![call[c].key] =
                 @ \cup {[id |-> call[c].value, expiry |-> call[c].expiry]}]
          BY <2>4 DEF InsertZadd, InsertFail
    <3>5. CASE UNCHANGED written
      <4>1. Sound!InsertLost(c)
            BY <2>1, <3>1, <3>2, <3>5 DEF Sound!InsertLost
      <4> QED BY <4>1 DEF Sound!Next
    <3>6. CASE written' = [written EXCEPT ![call[c].key] =
                   @ \cup {[id |-> call[c].value, expiry |-> call[c].expiry]}]
      <4>1. Sound!InsertKeeps(c, call[c].value)
            BY <2>1, <3>1, <3>2, <3>6 DEF Sound!InsertKeeps
      <4> QED BY <3>3, <4>1 DEF Sound!Next
    <3> QED BY <3>4, <3>5, <3>6
  <2>5. CASE GetRemove(c)
    <3> DEFINE new == [call[c] EXCEPT !.phase = "range"]
    <3>1. call' = [call EXCEPT ![c] = new] /\ call[c].phase = "get"
          BY <2>5 DEF GetRemove
    <3>2. Seen(new) = Seen(call[c])
          BY <3>1, CallTyped DEF Seen, Call
    <3>3. SeenCall' = [SeenCall EXCEPT ![c] = Seen(new)]
      <4> HIDE DEF new
      <4> QED BY <3>1, SeenMoves
    <3>4. SeenCall' = SeenCall
      <4> HIDE DEF new
      <4> QED BY <2>1, <3>2, <3>3 DEF SeenCall
    <3> QED BY <2>5, <3>4 DEF GetRemove, Sound!vars
  <2>6. CASE GetRange(c)
    <3> DEFINE answer == InRange(zset[call[c].key], call[c].now)
               new == [call[c] EXCEPT !.phase = "answered", !.answer = answer]
    <3>1. call' = [call EXCEPT ![c] = new] /\ call[c].phase \in {"get", "range"}
          BY <2>6 DEF GetRange
    <3>2. answer \in SUBSET Sound!NotExpired(written[call[c].key], call[c].now)
          BY <3>1, CallTyped DEF Safe, ZsetWritten, InRange, Sound!NotExpired
    <3> HIDE DEF answer
    <3>3. Seen(new) = Sound!Pending("answered", SeenCall[c].key, SeenCall[c].now,
                                    SeenCall[c].expiry, answer)
          BY <2>1 DEF Seen, Sound!Pending
    <3>4. SeenCall' = [SeenCall EXCEPT ![c] = Seen(new)]
      <4> HIDE DEF new
      <4> QED BY <3>1, SeenMoves
    <3>5. Sound!GetAnswer(c)
          BY <2>1, <2>6, <3>1, <3>2, <3>3, <3>4 DEF GetRange, Sound!GetAnswer
    <3> QED BY <3>5 DEF Sound!Next
  <2>7. CASE GetFail(c)
    <3> DEFINE answer == {}
               new == [call[c] EXCEPT !.phase = "answered", !.answer = answer]
    <3>1. call' = [call EXCEPT ![c] = new] /\ call[c].phase \in {"get", "range"}
          BY <2>7 DEF GetFail
    <3>2. answer \in SUBSET Sound!NotExpired(written[call[c].key], call[c].now)
          BY <3>1, CallTyped DEF Safe, ZsetWritten, InRange, Sound!NotExpired
    <3> HIDE DEF answer
    <3>3. Seen(new) = Sound!Pending("answered", SeenCall[c].key, SeenCall[c].now,
                                    SeenCall[c].expiry, answer)
          BY <2>1 DEF Seen, Sound!Pending
    <3>4. SeenCall' = [SeenCall EXCEPT ![c] = Seen(new)]
      <4> HIDE DEF new
      <4> QED BY <3>1, SeenMoves
    <3>5. Sound!GetAnswer(c)
          BY <2>1, <2>7, <3>1, <3>2, <3>3, <3>4 DEF GetFail, Sound!GetAnswer
    <3> QED BY <3>5 DEF Sound!Next
  <2>8. CASE GetReturn(c)
    <3>1. call[c].phase = "answered" /\ call' = [call EXCEPT ![c] = Idle]
          BY <2>8 DEF GetReturn
    <3>2. SeenCall' = [SeenCall EXCEPT ![c] = Sound!Idle]
          BY <3>1, SeenMoves, IdleSeen
    <3>3. Sound!GetReturn(c)
          BY <2>1, <2>8, <3>1, <3>2 DEF GetReturn, Sound!GetReturn
    <3> QED BY <3>3 DEF Sound!Next
  <2> QED BY <1>2, <2>2, <2>3, <2>4, <2>5, <2>6, <2>7, <2>8 DEF ClientStep
<1>3. CASE UNCHANGED vars
      BY <1>3 DEF vars, Sound!vars, SeenCall
<1> QED BY <1>1, <1>2, <1>3 DEF Next

(* The Redis cache gives sound answers only.                                 *)
THEOREM RedisAnswersSound == Spec => AnswersSound
<1>1. Init => Sound!Init
      BY InitRefines
<1>2. TypeOK /\ Safe /\ [Next]_vars => [Sound!Next]_(Sound!vars)
      BY StepRefines
<1> QED BY <1>1, <1>2, RedisSafe, PTL DEF Spec, AnswersSound, Sound!Spec
=============================================================================
