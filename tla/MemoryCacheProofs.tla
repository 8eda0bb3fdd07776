-------------------------- MODULE MemoryCacheProofs --------------------------
(* Theorems about MemoryCache, for any set of keys, clients and durations    *)
(* and any bounds.                                                           *)
EXTENDS MemoryCache, FiniteSetTheorems, TLAPS

-----------------------------------------------------------------------------
(* Facts about the operators the actions are built from.                     *)

(* memory_cache.rs:148-153: the range of gen_range is never empty and the    *)
(* window lies inside the set; when not all keys are inspected it never      *)
(* reaches the last one of the iteration order.                              *)
THEOREM SamplingWindow ==
    ASSUME NEW n \in Nat
    PROVE  /\ KeysToTake(n) \in Nat
           /\ Starts(n) # {}
           /\ \A start \in Starts(n) : start \in Nat /\ start + KeysToTake(n) <= n
           /\ n > ScanAll => \A start \in Starts(n) : start + KeysToTake(n) < n
<1>1. CASE n <= ScanAll
      BY <1>1, ScanAllAssumption DEF KeysToTake, Starts
<1>2. CASE n > ScanAll
  <2>1. KeysToTake(n) = ScanAll - 1 + n \div 20 /\ Starts(n) = 0 .. n - KeysToTake(n) - 1
        BY <1>2, ScanAllAssumption DEF KeysToTake, Starts
  <2>2. n \div 20 \in Nat /\ ScanAll - 1 + n \div 20 < n
        BY <1>2, ScanAllAssumption
  <2>3. KeysToTake(n) \in Nat /\ KeysToTake(n) < n
        BY <2>1, <2>2, ScanAllAssumption
  <2>4. 0 \in Starts(n)
        BY <2>1, <2>3
  <2>5. ASSUME NEW start \in Starts(n)
        PROVE  start \in Nat /\ start + KeysToTake(n) < n
        BY <2>1, <2>3
  <2> QED BY <2>3, <2>4, <2>5
<1> QED BY <1>1, <1>2, ScanAllAssumption

(* vec.retain only removes, and keeps what is unexpired at any later time.   *)
LEMMA RetainKeepsLater ==
    ASSUME NEW entries \in SUBSET Entry, NEW now \in Nat, NEW later \in Nat, now <= later
    PROVE  /\ Unexpired(entries, now) \subseteq entries
           /\ Unexpired(entries, later) \subseteq Unexpired(entries, now)
BY DEF Unexpired, Entry

(* What purging k leaves in the store.                                       *)
LEMMA PurgedStore ==
    ASSUME NEW k \in DOMAIN store, NEW now
    PROVE  /\ DOMAIN Purged(k, now) \subseteq DOMAIN store
           /\ \A j \in DOMAIN Purged(k, now) :
                 Purged(k, now)[j] = IF j = k THEN Unexpired(store[k], now) ELSE store[j]
           /\ k \in DOMAIN Purged(k, now) => Unexpired(store[k], now) # {}
           /\ \A j \in DOMAIN store \ DOMAIN Purged(k, now) :
                 j = k /\ Unexpired(store[k], now) = {}
<1>1. CASE Unexpired(store[k], now) = {}
      BY <1>1 DEF Purged, Restrict
<1>2. CASE Unexpired(store[k], now) # {}
      BY <1>2 DEF Purged
<1> QED BY <1>1, <1>2

(* Receiving the head of the channel moves it to the known keys.             *)
LEMMA ReceiveQueued ==
    ASSUME channel \in Seq(Key), channel # <<>>
    PROVE  /\ Head(channel) \in Key /\ Tail(channel) \in Seq(Key)
           /\ Queued \subseteq {Head(channel)} \cup
                               {Tail(channel)[i] : i \in 1 .. Len(Tail(channel))}
<1>1. Len(channel) \in Nat \ {0} /\ Head(channel) = channel[1] /\ Tail(channel) \in Seq(Key)
      OBVIOUS
<1>2. Len(Tail(channel)) = Len(channel) - 1
      BY <1>1
<1>3. ASSUME NEW i \in 1 .. Len(channel), i # 1
      PROVE  i - 1 \in 1 .. Len(Tail(channel)) /\ Tail(channel)[i - 1] = channel[i]
      BY <1>1, <1>2, <1>3
<1> QED BY <1>1, <1>3 DEF Queued

(* What a call in progress carries.                                          *)
LEMMA CallTyped ==
    ASSUME TypeOK, NEW c \in Client
    PROVE  /\ call[c].phase \in Phases /\ call[c].key \in Key \cup {NoKey}
           /\ call[c].now \in Nat /\ call[c].expiry \in Nat
           /\ call[c].answer \in SUBSET Entry
           /\ call[c].phase # "idle" => call[c].key \in Key
BY DEF TypeOK, Call

(* A call moves to another well-typed record.                                *)
LEMMA CallMoves ==
    ASSUME TypeOK, NEW c \in Client, NEW new \in Call, new.key = NoKey => new.phase = "idle",
           call' = [call EXCEPT ![c] = new]
    PROVE  /\ call' \in [Client -> Call]
           /\ \A b \in Client : call'[b].key = NoKey => call'[b].phase = "idle"
BY DEF TypeOK

LEMMA IdleTyped == Idle \in Call /\ Idle.phase = "idle"
BY DEF Idle, Call, Phases

-----------------------------------------------------------------------------
(* Type correctness.                                                         *)

LEMMA InitTyped == Init => TypeOK
<1> SUFFICES ASSUME Init PROVE TypeOK
    OBVIOUS
<1>1. IsFiniteSet(keys)
      BY FS_EmptySet DEF Init
<1>2. Idle \in Call
      BY DEF Idle, Call, Phases
<1>3. cleaner \in Cleaner
      BY DEF Init, Cleaner, Steps
<1>4. DOMAIN store = {} /\ channel \in Seq(Key)
      BY DEF Init
<1> QED BY <1>1, <1>2, <1>3, <1>4 DEF Init, TypeOK, Idle

LEMMA NextTyped == TypeOK /\ [Next]_vars => TypeOK'
<1> SUFFICES ASSUME TypeOK, [Next]_vars PROVE TypeOK'
    OBVIOUS
<1> USE DEF TypeOK, lifeVars, cacheVars, threadVars, CleanerUnchanged
<1>1. CASE Tick
      BY <1>1 DEF Tick
<1>2. ASSUME NEW c \in Client, ClientStep(c) PROVE TypeOK'
  <2>1. /\ call[c].phase \in Phases /\ call[c].key \in Key \cup {NoKey}
        /\ call[c].now \in Nat /\ call[c].expiry \in Nat /\ call[c].answer \in SUBSET Entry
        /\ call[c].phase # "idle" => call[c].key \in Key
        BY CallTyped
  <2> DEFINE CallOK == /\ call \in [Client -> Call]
                       /\ \A b \in Client : call[b].key = NoKey => call[b].phase = "idle"
  <2>2. ASSUME NEW k \in Key, NEW d \in Durations, InsertBegin(c, k, d) PROVE TypeOK'
    <3> DEFINE new == [Idle EXCEPT !.phase = "insert", !.key = k, !.now = clock,
                                   !.expiry = clock + d]
    <3>1. new \in Call /\ new.key # NoKey
      <4>1. clock \in Nat /\ clock + d \in Nat
            BY DurationsAssumption
      <4> QED BY <4>1, NoKeyAssumption DEF Idle, Call, Phases
    <3>2. CallOK'
          BY <2>2, <3>1, CallMoves DEF InsertBegin
    <3> QED BY <2>2, <3>2 DEF InsertBegin
  <2>3. ASSUME NEW k \in Key, GetBegin(c, k) PROVE TypeOK'
    <3> DEFINE new == [Idle EXCEPT !.phase = "get", !.key = k, !.now = clock]
    <3>1. new \in Call /\ new.key # NoKey
          BY NoKeyAssumption DEF Idle, Call, Phases
    <3>2. CallOK'
          BY <2>3, <3>1, CallMoves DEF GetBegin
    <3> QED BY <2>3, <3>2 DEF GetBegin
  <2>4. CASE InsertCommit(c)
    <3> DEFINE k == call[c].key
               entry == [id |-> writes + 1, expiry |-> call[c].expiry]
    <3>1. k \in Key /\ entry \in Entry
          BY <2>1, <2>4 DEF InsertCommit, Entry
    <3>2. /\ DOMAIN store' \subseteq Key /\ channel' \in Seq(Key)
          /\ \A j \in DOMAIN store' : store'[j] \subseteq Entry
      <4>1. CASE k \in DOMAIN store
        <5>1. /\ store' = [store EXCEPT ![k] = Unexpired(@, call[c].now) \cup {entry}]
              /\ channel' = channel
              BY <4>1, <2>4 DEF InsertCommit
        <5>2. Unexpired(store[k], call[c].now) \cup {entry} \subseteq Entry
              BY <4>1, <3>1 DEF Unexpired
        <5> HIDE DEF k, entry
        <5> QED BY <5>1, <5>2
      <4>2. CASE k \notin DOMAIN store
        <5>1. /\ store' = [j \in DOMAIN store \cup {k} |->
                               Entries(j) \cup {e \in {entry} : j = k}]
              /\ channel' = Append(channel, k)
              BY <4>2, <2>4 DEF InsertCommit
        <5>2. ASSUME NEW j \in DOMAIN store \cup {k}
              PROVE  Entries(j) \cup {e \in {entry} : j = k} \subseteq Entry
              BY <3>1 DEF Entries
        <5> HIDE DEF k, entry
        <5> QED BY <3>1, <5>1, <5>2
      <4> QED BY <4>1, <4>2
    <3>3. writes' \in Nat /\ written' \in [Key -> SUBSET Entry]
          BY <2>4, <3>1 DEF InsertCommit
    <3>4. CallOK'
          BY <2>4, IdleTyped, CallMoves DEF InsertCommit
    <3> QED BY <2>4, <3>2, <3>3, <3>4 DEF InsertCommit
  <2>5. CASE GetRead(c)
    <3> DEFINE answer == Unexpired(Entries(call[c].key), call[c].now)
               cleanup == call[c].key \in DOMAIN store
                              /\ (answer = {} \/ answer # store[call[c].key])
               new == [call[c] EXCEPT !.phase = IF cleanup THEN "evict" ELSE "answered",
                                      !.answer = answer]
    <3>1. answer \in SUBSET Entry
          BY DEF Unexpired, Entries
    <3>2. call' = [call EXCEPT ![c] = new] /\ call[c].phase = "get"
          BY <2>5 DEF GetRead
    <3>3. new \in Call /\ new.key # NoKey
      <4> HIDE DEF answer, cleanup
      <4> QED BY <2>1, <3>1, <3>2, NoKeyAssumption DEF Call, Phases
    <3> HIDE DEF new
    <3>4. CallOK'
          BY <3>2, <3>3, CallMoves
    <3> QED BY <2>5, <3>4 DEF GetRead
  <2>6. CASE GetEvict(c)
    <3> DEFINE new == [call[c] EXCEPT !.phase = "answered"]
    <3>1. DOMAIN store' \subseteq Key /\ \A j \in DOMAIN store' : store'[j] \subseteq Entry
          BY <2>6, PurgedStore DEF GetEvict, Unexpired
    <3>2. new \in Call /\ new.key # NoKey
          BY <2>6, <2>1, NoKeyAssumption DEF GetEvict, Call, Phases
    <3>3. call' = [call EXCEPT ![c] = new]
          BY <2>6 DEF GetEvict
    <3> HIDE DEF new
    <3>4. CallOK'
          BY <3>2, <3>3, CallMoves
    <3> QED BY <2>6, <3>1, <3>4 DEF GetEvict
  <2>7. CASE GetReturn(c)
    <3>1. CallOK'
          BY <2>7, IdleTyped, CallMoves DEF GetReturn
    <3> QED BY <2>7, <3>1 DEF GetReturn
  <2> QED BY <1>2, <2>2, <2>3, <2>4, <2>5, <2>6, <2>7 DEF ClientStep
<1>3. CASE CleanerStep
  <2> USE DEF Cleaner, Steps
  <2>1. CASE CleanerTop
        BY <2>1 DEF CleanerTop
  <2>2. CASE CleanerReceive
        BY <2>2, ReceiveQueued, FS_AddElement DEF CleanerReceive
  <2>3. CASE CleanerDrained
        BY <2>3 DEF CleanerDrained
  <2>4. CASE CleanerSample
    <3> DEFINE n == Cardinality(keys)
    <3>1. n \in Nat
          BY FS_CardinalityType
    <3>2. ASSUME NEW order \in Bijection(1 .. n, keys), NEW start \in Starts(n)
          PROVE  {order[i] : i \in start + 1 .. start + KeysToTake(n)} \subseteq Key
      <4>1. order \in [1 .. n -> keys]
            BY DEF Bijection, Injection, Surjection
      <4>2. start + 1 .. start + KeysToTake(n) \subseteq 1 .. n
        <5>1. KeysToTake(n) \in Nat /\ start \in Nat /\ start + KeysToTake(n) <= n
              BY <3>1, SamplingWindow
        <5> QED BY <3>1, <5>1
      <4> QED BY <4>1, <4>2
    <3>3. PICK sample \in SUBSET Key :
              cleaner' = [cleaner EXCEPT !.pc = "scan", !.now = clock, !.marked = {},
                                         !.sample = sample]
          BY <2>4, <3>2 DEF CleanerSample
    <3> QED BY <2>4, <3>3 DEF CleanerSample
  <2>5. ASSUME NEW k \in Key, CleanerInspect(k) PROVE TypeOK'
        BY <2>5 DEF CleanerInspect
  <2>6. CASE CleanerScanned
        BY <2>6 DEF CleanerScanned
  <2>7. ASSUME NEW k \in Key, CleanerPurge(k) PROVE TypeOK'
    <3>1. DOMAIN store' \subseteq Key /\ \A j \in DOMAIN store' : store'[j] \subseteq Entry
          BY <2>7, PurgedStore DEF CleanerPurge, Unexpired
    <3>2. keys' \subseteq Key /\ IsFiniteSet(keys')
          BY <2>7, FS_RemoveElement DEF CleanerPurge
    <3> QED BY <2>7, <3>1, <3>2 DEF CleanerPurge
  <2>8. CASE CleanerRest
        BY <2>8 DEF CleanerRest
  <2>9. CASE CleanerWake
        BY <2>9 DEF CleanerWake
  <2> QED BY <1>3, <2>1, <2>2, <2>3, <2>4, <2>5, <2>6, <2>7, <2>8, <2>9 DEF CleanerStep
<1>4. CASE Drop
      BY <1>4 DEF Drop
<1>5. CASE DropReturn
      BY <1>5 DEF DropReturn
<1>6. CASE Terminated \/ UNCHANGED vars
      BY <1>6 DEF Terminated, vars
<1> QED BY <1>1, <1>2, <1>3, <1>4, <1>5, <1>6 DEF Next

(* Every reachable state is well typed, for every instance of the cache.     *)
THEOREM TypeCorrect == Spec => []TypeOK
<1> QED BY InitTyped, NextTyped, PTL DEF Spec

-----------------------------------------------------------------------------
(* The safety invariant.                                                     *)

(* Purging with a time stamp that is not ahead of the clock, as get and the  *)
(* cleanup thread both do, keeps what Safe says of the store.                *)
LEMMA PurgeSafe ==
    ASSUME TypeOK, Safe, NEW k \in Key, NEW now \in Nat, now <= clock,
           store' = IF k \in DOMAIN store THEN Purged(k, now) ELSE store,
           UNCHANGED <<clock, written>>
    PROVE  LiveEntriesKept' /\ StoreWritten' /\ NoEmptyVec' /\ DOMAIN store' \subseteq DOMAIN store
<1>1. CASE k \notin DOMAIN store
      BY <1>1 DEF Safe, LiveEntriesKept, StoreWritten, NoEmptyVec, Entries, Unexpired
<1>2. CASE k \in DOMAIN store
  <2> DEFINE left == Unexpired(store[k], now)
  <2>1. /\ DOMAIN store' \subseteq DOMAIN store
        /\ \A j \in DOMAIN store' : store'[j] = IF j = k THEN left ELSE store[j]
        /\ k \in DOMAIN store' => left # {}
        /\ \A j \in DOMAIN store \ DOMAIN store' : j = k /\ left = {}
        BY <1>2, PurgedStore
  <2>2. left \subseteq store[k] /\ Unexpired(store[k], clock) \subseteq left
        BY <1>2, RetainKeepsLater DEF TypeOK
  <2> HIDE DEF left
  <2>3. ASSUME NEW j \in Key, NEW e \in Unexpired(written[j], clock)
        PROVE  e \in Entries(j)'
    <3>1. e \in Entries(j) /\ e \in Unexpired(Entries(j), clock)
          BY <2>3 DEF Safe, LiveEntriesKept, Unexpired
    <3>2. j \in DOMAIN store /\ e \in store[j]
          BY <3>1 DEF Entries
    <3>3. CASE j # k
          BY <2>1, <3>2, <3>3 DEF Entries
    <3>4. CASE j = k
          BY <2>1, <2>2, <3>1, <3>2, <3>4 DEF Entries
    <3> QED BY <3>3, <3>4
  <2>4. LiveEntriesKept'
        BY <2>3 DEF LiveEntriesKept, Unexpired
  <2>5. StoreWritten' /\ NoEmptyVec'
        BY <2>1, <2>2 DEF Safe, StoreWritten, NoEmptyVec
  <2> QED BY <2>1, <2>4, <2>5
<1> QED BY <1>1, <1>2

(* A step that leaves the store, its log and the clock alone.                *)
LEMMA StoreUnchangedSafe ==
    ASSUME Safe, UNCHANGED <<clock, store, writes, written>>
    PROVE  IdsFresh' /\ LiveEntriesKept' /\ StoreWritten' /\ NoEmptyVec'
BY DEF Safe, IdsFresh, LiveEntriesKept, StoreWritten, NoEmptyVec, Entries, Unexpired

LEMMA InitSafe == Init => Safe
<1> SUFFICES ASSUME Init PROVE Safe
    OBVIOUS
<1>1. DOMAIN store = {} /\ \A k \in Key : written[k] = {}
      BY DEF Init
<1>2. ClocksBehind
      BY DEF Init, Idle, ClocksBehind
<1> QED BY <1>1, <1>2 DEF Safe, IdsFresh, LiveEntriesKept, StoreWritten, StoreTracked,
                          NoEmptyVec, Unexpired

LEMMA InsertCommitSafe ==
    ASSUME TypeOK, Safe, NEW c \in Client, InsertCommit(c)
    PROVE  Safe'
<1> DEFINE k == call[c].key
           now == call[c].now
           entry == [id |-> writes + 1, expiry |-> call[c].expiry]
<1>1. k \in Key /\ now \in Nat /\ now <= clock /\ entry \in Entry
      BY CallTyped DEF InsertCommit, Safe, ClocksBehind, TypeOK, Entry
<1>2. /\ \A j \in Key : written'[j] = written[j] \cup {e \in {entry} : j = k}
      /\ writes' = writes + 1 /\ clock' = clock /\ keys' = keys
      /\ cleaner' = cleaner /\ call' = [call EXCEPT ![c] = Idle]
      BY DEF InsertCommit, TypeOK, threadVars
<1>3. /\ DOMAIN store' = DOMAIN store \cup {k}
      /\ k \in DOMAIN store =>
            store'[k] = Unexpired(store[k], now) \cup {entry}
      /\ k \notin DOMAIN store => store'[k] = {entry}
      /\ \A j \in DOMAIN store \ {k} : store'[j] = store[j]
  <2>1. CASE k \in DOMAIN store
        BY <2>1 DEF InsertCommit
  <2>2. CASE k \notin DOMAIN store
        BY <2>2 DEF InsertCommit, Entries
  <2> QED BY <2>1, <2>2
<1>4. k \in DOMAIN store => /\ Unexpired(store[k], now) \subseteq store[k]
                            /\ Unexpired(store[k], clock) \subseteq Unexpired(store[k], now)
      BY <1>1, RetainKeepsLater DEF TypeOK
<1>5. Queued \subseteq Queued' /\ (k \notin DOMAIN store => k \in Queued')
  <2>1. CASE k \in DOMAIN store
        BY <2>1 DEF InsertCommit, Queued
  <2>2. CASE k \notin DOMAIN store
    <3>1. channel' = Append(channel, k) /\ channel \in Seq(Key)
          BY <2>2 DEF InsertCommit, TypeOK
    <3>2. Len(channel') = Len(channel) + 1 /\ Len(channel) \in Nat
          BY <3>1, <1>1
    <3>3. channel'[Len(channel) + 1] = k
          BY <3>1, <1>1
    <3>4. \A i \in 1 .. Len(channel) : channel'[i] = channel[i]
          BY <3>1, <1>1
    <3> HIDE DEF k
    <3> QED BY <3>2, <3>3, <3>4 DEF Queued
  <2> QED BY <2>1, <2>2
<1>6. entry.id = writes + 1
      OBVIOUS
<1>7. ClocksBehind'
      BY <1>2 DEF Safe, ClocksBehind, Idle, TypeOK
<1> HIDE DEF k, now, entry
<1>8. IdsFresh'
      BY <1>2, <1>6 DEF Safe, IdsFresh, TypeOK, Entry
<1>9. LiveEntriesKept'
  <2> SUFFICES ASSUME NEW j \in Key, NEW e \in written'[j], e.expiry > clock
               PROVE  e \in Entries(j)'
      BY <1>2 DEF LiveEntriesKept, Unexpired
  <2>1. CASE e \in written[j]
    <3>1. e \in Entries(j)
          BY <2>1 DEF Safe, LiveEntriesKept, Unexpired
    <3>2. j \in DOMAIN store /\ e \in store[j]
          BY <3>1 DEF Entries
    <3>3. CASE j = k
          BY <1>3, <1>4, <3>2, <3>3 DEF Entries, Unexpired
    <3>4. CASE j # k
          BY <1>3, <3>2, <3>4 DEF Entries
    <3> QED BY <3>3, <3>4
  <2>2. CASE j = k /\ e = entry
        BY <1>3, <2>2 DEF Entries
  <2> QED BY <1>2, <2>1, <2>2
<1>10. StoreWritten'
      BY <1>1, <1>2, <1>3, <1>4 DEF Safe, StoreWritten, TypeOK
<1>11. StoreTracked'
      BY <1>2, <1>3, <1>5 DEF Safe, StoreTracked
<1>12. NoEmptyVec'
      BY <1>3 DEF Safe, NoEmptyVec
<1> QED BY <1>7, <1>8, <1>9, <1>10, <1>11, <1>12 DEF Safe

LEMMA NextSafe == TypeOK /\ Safe /\ [Next]_vars => Safe'
<1> SUFFICES ASSUME TypeOK, Safe, [Next]_vars PROVE Safe'
    OBVIOUS
<1> USE DEF lifeVars, cacheVars, threadVars, CleanerUnchanged
<1>1. CASE Tick
  <2>1. /\ clock' = clock + 1 /\ clock \in Nat
        /\ UNCHANGED <<store, channel, keys, writes, written, call, cleaner>>
        BY <1>1 DEF Tick, TypeOK
  <2>2. ClocksBehind'
    <3>1. \A c \in Client : call[c].now \in Nat
          BY CallTyped
    <3>2. cleaner.now \in Nat
          BY DEF TypeOK, Cleaner
    <3> QED BY <2>1, <3>1, <3>2 DEF Safe, ClocksBehind
  <2>3. ASSUME NEW k \in Key PROVE Unexpired(written[k], clock') \subseteq Unexpired(written[k], clock)
        BY <2>1, RetainKeepsLater DEF TypeOK
  <2>4. LiveEntriesKept'
        BY <2>1, <2>3 DEF Safe, LiveEntriesKept, Entries, Unexpired
  <2>5. IdsFresh' /\ StoreWritten' /\ StoreTracked' /\ NoEmptyVec'
        BY <2>1 DEF Safe, IdsFresh, StoreWritten, StoreTracked, NoEmptyVec, Queued
  <2> QED BY <2>2, <2>4, <2>5 DEF Safe
<1>2. ASSUME NEW c \in Client, ClientStep(c) PROVE Safe'
  <2>1. call[c].now \in Nat /\ call[c].now <= clock /\ (call[c].phase # "idle" => call[c].key \in Key)
        BY CallTyped DEF Safe, ClocksBehind
  <2>2. ASSUME NEW k \in Key, NEW d \in Durations, InsertBegin(c, k, d) PROVE Safe'
    <3>1. ClocksBehind'
          BY <2>2 DEF InsertBegin, Safe, ClocksBehind, TypeOK, Idle
    <3>2. StoreTracked'
          BY <2>2 DEF InsertBegin, Safe, StoreTracked, Queued
    <3> QED BY <2>2, <3>1, <3>2, StoreUnchangedSafe DEF InsertBegin, Safe
  <2>3. ASSUME NEW k \in Key, GetBegin(c, k) PROVE Safe'
    <3>1. ClocksBehind'
          BY <2>3 DEF GetBegin, Safe, ClocksBehind, TypeOK, Idle
    <3>2. StoreTracked'
          BY <2>3 DEF GetBegin, Safe, StoreTracked, Queued
    <3> QED BY <2>3, <3>1, <3>2, StoreUnchangedSafe DEF GetBegin, Safe
  <2>4. CASE InsertCommit(c)
        BY <2>4, InsertCommitSafe
  <2>5. CASE GetRead(c)
    <3>1. \A b \in Client : call'[b].now = call[b].now
          BY <2>5 DEF GetRead, TypeOK, Call
    <3>2. ClocksBehind'
          BY <2>5, <3>1 DEF GetRead, Safe, ClocksBehind
    <3>3. StoreTracked'
          BY <2>5 DEF GetRead, Safe, StoreTracked, Queued
    <3> QED BY <2>5, <3>2, <3>3, StoreUnchangedSafe DEF GetRead, Safe
  <2>6. CASE GetEvict(c)
    <3>1. \A b \in Client : call'[b].now = call[b].now
          BY <2>6 DEF GetEvict, TypeOK, Call
    <3>2. ClocksBehind' /\ IdsFresh'
          BY <2>6, <3>1 DEF GetEvict, Safe, ClocksBehind, IdsFresh
    <3>3. LiveEntriesKept' /\ StoreWritten' /\ NoEmptyVec' /\ DOMAIN store' \subseteq DOMAIN store
          BY <2>6, <2>1, PurgeSafe DEF GetEvict
    <3>4. StoreTracked'
          BY <2>6, <3>3 DEF GetEvict, Safe, StoreTracked, Queued
    <3> QED BY <3>2, <3>3, <3>4 DEF Safe
  <2>7. CASE GetReturn(c)
    <3>1. ClocksBehind'
          BY <2>7 DEF GetReturn, Safe, ClocksBehind, TypeOK, Idle
    <3>2. StoreTracked'
          BY <2>7 DEF GetReturn, Safe, StoreTracked, Queued
    <3> QED BY <2>7, <3>1, <3>2, StoreUnchangedSafe DEF GetReturn, Safe
  <2> QED BY <1>2, <2>2, <2>3, <2>4, <2>5, <2>6, <2>7 DEF ClientStep
<1>3. CASE CleanerStep
  <2> USE DEF Cleaner
  <2>1. cleaner.now \in Nat /\ cleaner.now <= clock
        BY DEF TypeOK, Safe, ClocksBehind
  (* The steps that only move the thread.                                    *)
  <2>2. ASSUME UNCHANGED <<clock, store, channel, keys, writes, written, call>>,
               cleaner'.now <= clock
        PROVE  Safe'
    <3>1. ClocksBehind' /\ StoreTracked'
          BY <2>2 DEF Safe, ClocksBehind, StoreTracked, Queued
    <3> QED BY <2>2, <3>1, StoreUnchangedSafe DEF Safe
  <2>3. CASE CleanerTop
        BY <2>1, <2>2, <2>3 DEF CleanerTop, TypeOK
  <2>4. CASE CleanerReceive
    <3>1. ClocksBehind'
          BY <2>4 DEF CleanerReceive, Safe, ClocksBehind
    <3>2. Queued \subseteq {Head(channel)} \cup Queued'
          BY <2>4, ReceiveQueued DEF CleanerReceive, Queued, TypeOK
    <3>3. StoreTracked'
          BY <2>4, <3>2 DEF CleanerReceive, Safe, StoreTracked
    <3> QED BY <2>4, <3>1, <3>3, StoreUnchangedSafe DEF CleanerReceive, Safe
  <2>5. CASE CleanerDrained
        BY <2>1, <2>2, <2>5 DEF CleanerDrained, TypeOK
  <2>6. CASE CleanerSample
    <3>1. cleaner'.now = clock
          BY <2>6 DEF CleanerSample, TypeOK
    <3> QED BY <2>2, <2>6, <3>1 DEF CleanerSample, TypeOK
  <2>7. ASSUME NEW k \in Key, CleanerInspect(k) PROVE Safe'
        BY <2>1, <2>2, <2>7 DEF CleanerInspect, TypeOK
  <2>8. CASE CleanerScanned
        BY <2>1, <2>2, <2>8 DEF CleanerScanned, TypeOK
  <2>9. ASSUME NEW k \in Key, CleanerPurge(k) PROVE Safe'
    <3>1. ClocksBehind' /\ IdsFresh'
          BY <2>9 DEF CleanerPurge, Safe, ClocksBehind, IdsFresh, TypeOK
    <3>2. LiveEntriesKept' /\ StoreWritten' /\ NoEmptyVec' /\ DOMAIN store' \subseteq DOMAIN store
          BY <2>9, <2>1, PurgeSafe DEF CleanerPurge
    <3>3. StoreTracked'
          BY <2>9, <3>2 DEF CleanerPurge, Safe, StoreTracked, Queued
    <3> QED BY <3>1, <3>2, <3>3 DEF Safe
  <2>10. CASE CleanerRest
        BY <2>1, <2>2, <2>10 DEF CleanerRest, TypeOK
  <2>11. CASE CleanerWake
        BY <2>1, <2>2, <2>11 DEF CleanerWake, TypeOK
  <2> QED BY <1>3, <2>3, <2>4, <2>5, <2>6, <2>7, <2>8, <2>9, <2>10, <2>11 DEF CleanerStep
<1>4. CASE Drop \/ DropReturn \/ Terminated \/ UNCHANGED vars
  <2>1. UNCHANGED <<clock, store, channel, keys, writes, written, call, cleaner>>
        BY <1>4 DEF Drop, DropReturn, Terminated, vars
  <2>2. ClocksBehind' /\ StoreTracked'
        BY <2>1 DEF Safe, ClocksBehind, StoreTracked, Queued
  <2> QED BY <2>1, <2>2, StoreUnchangedSafe DEF Safe
<1> QED BY <1>1, <1>2, <1>3, <1>4 DEF Next

THEOREM SafeAlways == Spec => [](TypeOK /\ Safe)
<1>1. Init => TypeOK /\ Safe
      BY InitTyped, InitSafe
<1>2. TypeOK /\ Safe /\ [Next]_vars => (TypeOK /\ Safe)'
      BY NextTyped, NextSafe
<1> QED BY <1>1, <1>2, PTL DEF Spec

(* No value is dropped from the cache before its expiry date, whatever the   *)
(* calls and the cleanup thread do between the locks.                        *)
THEOREM NoEarlyEviction == Spec => []LiveEntriesKept
<1>1. Safe => LiveEntriesKept
      BY DEF Safe
<1> QED BY <1>1, SafeAlways, PTL

(* Every key of the store is known to the cleanup thread or announced to it. *)
THEOREM EveryKeyTracked == Spec => []StoreTracked
<1>1. Safe => StoreTracked
      BY DEF Safe
<1> QED BY <1>1, SafeAlways, PTL

(* No empty Vec is left in the store.                                        *)
THEOREM NoEmptyVecLeft == Spec => []NoEmptyVec
<1>1. Safe => NoEmptyVec
      BY DEF Safe
<1> QED BY <1>1, SafeAlways, PTL

-----------------------------------------------------------------------------
(* Entries never come back.                                                  *)

LEMMA StepNeverRestores ==
    ASSUME TypeOK, Safe, [Next]_vars, NEW k \in Key
    PROVE  Entries(k)' \cap written[k] \subseteq Entries(k)
<1> USE DEF lifeVars, cacheVars, threadVars, CleanerUnchanged
<1>1. CASE UNCHANGED store
      BY <1>1 DEF Entries
<1>2. ASSUME NEW j \in Key, NEW now,
             store' = IF j \in DOMAIN store THEN Purged(j, now) ELSE store
      PROVE  Entries(k)' \subseteq Entries(k)
  <2>1. CASE j \notin DOMAIN store
        BY <1>2, <2>1 DEF Entries
  <2>2. CASE j \in DOMAIN store
        BY <1>2, <2>2, PurgedStore DEF Entries, Unexpired
  <2> QED BY <2>1, <2>2
<1>3. ASSUME NEW c \in Client, InsertCommit(c)
      PROVE  Entries(k)' \cap written[k] \subseteq Entries(k)
  <2> DEFINE entry == [id |-> writes + 1, expiry |-> call[c].expiry]
  <2>1. entry \notin written[k]
    <3>1. writes \in Nat /\ \A e \in written[k] : e.id <= writes
          BY DEF TypeOK, Safe, IdsFresh
    <3>2. entry.id = writes + 1
          OBVIOUS
    <3> QED BY <3>1, <3>2
  <2>2. Entries(k)' \subseteq Entries(k) \cup {entry}
    <3>1. CASE call[c].key \in DOMAIN store
          BY <1>3, <3>1 DEF InsertCommit, Entries, Unexpired
    <3>2. CASE call[c].key \notin DOMAIN store
          BY <1>3, <3>2 DEF InsertCommit, Entries
    <3> QED BY <3>1, <3>2
  <2> QED BY <2>1, <2>2
<1>4. ASSUME NEW c \in Client, GetEvict(c) PROVE Entries(k)' \subseteq Entries(k)
      BY <1>2, <1>4, CallTyped DEF GetEvict
<1>5. ASSUME NEW j \in Key, CleanerPurge(j) PROVE Entries(k)' \subseteq Entries(k)
      BY <1>2, <1>5 DEF CleanerPurge
<1>6. CASE Tick \/ Drop \/ DropReturn \/ Terminated \/ UNCHANGED vars
      BY <1>1, <1>6 DEF Tick, Drop, DropReturn, Terminated, vars
<1>7. ASSUME NEW c \in Client, ClientStep(c)
      PROVE  Entries(k)' \cap written[k] \subseteq Entries(k)
      BY <1>1, <1>3, <1>4, <1>7 DEF ClientStep, InsertBegin, GetBegin, GetRead, GetReturn
<1>8. CASE CleanerStep
      BY <1>1, <1>5, <1>8 DEF CleanerStep, CleanerTop, CleanerReceive, CleanerDrained,
         CleanerSample, CleanerInspect, CleanerScanned, CleanerRest, CleanerWake
<1> QED BY <1>6, <1>7, <1>8 DEF Next

(* What a purge has removed no later step brings back.                       *)
THEOREM RemovedStaysRemoved == Spec => NeverRestored
<1>1. TypeOK /\ Safe /\ [Next]_vars
        => [\A k \in Key : Entries(k)' \cap written[k] \subseteq Entries(k)]_vars
      BY StepNeverRestores
<1> QED BY <1>1, SafeAlways, PTL DEF Spec, NeverRestored

-----------------------------------------------------------------------------
(* Refinement: the answer of a get is what the contract allows.              *)

LEMMA AnswerAllowed ==
    ASSUME TypeOK, Safe, NEW c \in Client, GetRead(c)
    PROVE  /\ Unexpired(Entries(call[c].key), call[c].now)
                  \subseteq Unexpired(written[call[c].key], call[c].now)
           /\ Unexpired(written[call[c].key], clock)
                  \subseteq Unexpired(Entries(call[c].key), call[c].now)
<1>1. /\ call[c].key \in Key /\ call[c].now \in Nat /\ call[c].now <= clock
      /\ clock \in Nat /\ written[call[c].key] \in SUBSET Entry
      BY CallTyped DEF GetRead, Safe, ClocksBehind, TypeOK
<1>2. Entries(call[c].key) \subseteq written[call[c].key]
      BY DEF Safe, StoreWritten, Entries
<1>3. Unexpired(written[call[c].key], clock) \subseteq Entries(call[c].key)
      BY <1>1 DEF Safe, LiveEntriesKept
<1>4. Unexpired(written[call[c].key], clock) \subseteq Unexpired(written[call[c].key], call[c].now)
      BY <1>1, RetainKeepsLater
<1> QED BY <1>2, <1>3, <1>4 DEF Unexpired

(* Only the eviction phase looks different from outside.                     *)
LEMMA SeenSame ==
    ASSUME NEW record \in Call, record.phase # "evict"
    PROVE  Seen(record) = record
BY DEF Seen, Call

LEMMA IdleSeen == Seen(Idle) = Idle /\ Contract!Idle = Idle
<1>1. Seen(Idle) = Idle
      BY IdleTyped, SeenSame
<1> QED BY <1>1 DEF Idle, Contract!Idle

LEMMA CallSeenAt ==
    ASSUME TypeOK, NEW c \in Client
    PROVE  /\ CallSeen[c] = Seen(call[c])
           /\ call[c] \in Call
           /\ call[c].phase # "evict" => CallSeen[c] = call[c]
           /\ CallSeen[c].phase = IF call[c].phase = "evict" THEN "answered" ELSE call[c].phase
<1>1. CallSeen[c] = Seen(call[c]) /\ call[c] \in Call
      BY DEF CallSeen, TypeOK
<1> QED BY <1>1, SeenSame DEF Seen, Call

LEMMA CallSeenMoves ==
    ASSUME TypeOK, NEW c \in Client, NEW new, call' = [call EXCEPT ![c] = new]
    PROVE  CallSeen' = [CallSeen EXCEPT ![c] = Seen(new)]
BY DEF CallSeen, TypeOK

LEMMA InitRefines == Init => Contract!Init
<1> SUFFICES ASSUME Init PROVE Contract!Init
    OBVIOUS
<1>1. CallSeen = [c \in Client |-> Contract!Idle]
      BY IdleSeen DEF CallSeen, Init
<1> QED BY <1>1 DEF Init, Contract!Init

LEMMA StepRefines ==
    TypeOK /\ Safe /\ [Next]_vars => [Contract!Next]_(Contract!vars)
<1> SUFFICES ASSUME TypeOK, Safe, [Next]_vars PROVE [Contract!Next]_(Contract!vars)
    OBVIOUS
<1> USE DEF lifeVars, cacheVars, threadVars, CleanerUnchanged
<1>1. ASSUME UNCHANGED <<clock, life, writes, written, call>> PROVE UNCHANGED Contract!vars
      BY <1>1 DEF Contract!vars, CallSeen
<1>2. CASE Tick
      BY <1>2 DEF Tick, CallSeen, Contract!Tick, Contract!Next
<1>3. ASSUME NEW c \in Client, ClientStep(c)
      PROVE  Contract!Next \/ UNCHANGED Contract!vars
  <2>1. /\ CallSeen[c] = Seen(call[c]) /\ call[c] \in Call
        /\ call[c].phase # "evict" => CallSeen[c] = call[c]
        BY CallSeenAt
  <2>2. ASSUME NEW k \in Key, NEW d \in Durations, InsertBegin(c, k, d)
        PROVE  Contract!Next
    <3> DEFINE new == [Idle EXCEPT !.phase = "insert", !.key = k, !.now = clock,
                                   !.expiry = clock + d]
    <3>1. Seen(new) = new
          BY DEF Seen, Idle
    <3>2. call[c] = Idle /\ call' = [call EXCEPT ![c] = new]
          BY <2>2 DEF InsertBegin
    <3>3. CallSeen' = [CallSeen EXCEPT ![c] = new] /\ CallSeen[c] = Idle
      <4> HIDE DEF new
      <4>1. CallSeen' = [CallSeen EXCEPT ![c] = Seen(new)]
            BY <3>2, CallSeenMoves
      <4> QED BY <2>1, <3>1, <3>2, <4>1, IdleSeen
    <3>4. Contract!InsertBegin(c, k, d)
          BY <2>2, <3>3, IdleSeen DEF InsertBegin, Contract!InsertBegin
    <3> QED BY <3>4 DEF Contract!Next
  <2>3. ASSUME NEW k \in Key, GetBegin(c, k) PROVE Contract!Next
    <3> DEFINE new == [Idle EXCEPT !.phase = "get", !.key = k, !.now = clock]
    <3>1. Seen(new) = new
          BY DEF Seen, Idle
    <3>2. call[c] = Idle /\ call' = [call EXCEPT ![c] = new]
          BY <2>3 DEF GetBegin
    <3>3. CallSeen' = [CallSeen EXCEPT ![c] = new] /\ CallSeen[c] = Idle
      <4> HIDE DEF new
      <4>1. CallSeen' = [CallSeen EXCEPT ![c] = Seen(new)]
            BY <3>2, CallSeenMoves
      <4> QED BY <2>1, <3>1, <3>2, <4>1, IdleSeen
    <3>4. Contract!GetBegin(c, k)
          BY <2>3, <3>3, IdleSeen DEF GetBegin, Contract!GetBegin
    <3> QED BY <3>4 DEF Contract!Next
  <2>4. CASE InsertCommit(c)
    <3>1. CallSeen[c] = call[c]
          BY <2>1, <2>4 DEF InsertCommit
    <3>2. CallSeen' = [CallSeen EXCEPT ![c] = Idle]
          BY <2>4, IdleSeen, CallSeenMoves DEF InsertCommit
    <3>3. Contract!InsertCommit(c)
          BY <2>4, <3>1, <3>2, IdleSeen DEF InsertCommit, Contract!InsertCommit
    <3> QED BY <3>3 DEF Contract!Next
  <2>5. CASE GetRead(c)
    <3> DEFINE answer == Unexpired(Entries(call[c].key), call[c].now)
               cleanup == call[c].key \in DOMAIN store
                              /\ (answer = {} \/ answer # store[call[c].key])
               new == [call[c] EXCEPT !.phase = IF cleanup THEN "evict" ELSE "answered",
                                      !.answer = answer]
    <3>1. call' = [call EXCEPT ![c] = new] /\ call[c].phase = "get"
          BY <2>5 DEF GetRead
    <3>2. CallSeen[c] = call[c]
          BY <2>1, <3>1
    <3>3. Seen(new) = [call[c] EXCEPT !.phase = "answered", !.answer = answer]
      <4> HIDE DEF answer, cleanup
      <4> QED BY <2>1 DEF Seen, Call
    <3>4. CallSeen' = [CallSeen EXCEPT ![c] = Seen(new)]
      <4> HIDE DEF new
      <4> QED BY <3>1, CallSeenMoves
    <3>5. CallSeen' = [CallSeen EXCEPT ![c].phase = "answered", ![c].answer = answer]
      <4> HIDE DEF answer, new
      <4> QED BY <3>2, <3>3, <3>4 DEF CallSeen
    <3>6. /\ answer \in SUBSET Unexpired(written[call[c].key], call[c].now)
          /\ Unexpired(written[call[c].key], clock) \subseteq answer
          BY <2>5, AnswerAllowed
    <3> HIDE DEF answer
    <3>7. \A entries, now : Contract!Unexpired(entries, now) = Unexpired(entries, now)
          BY DEF Unexpired, Contract!Unexpired
    <3>8. UNCHANGED <<clock, life, writes, written>>
          BY <2>5 DEF GetRead
    <3>9. Contract!GetAnswer(c)
          BY <3>1, <3>2, <3>5, <3>6, <3>7, <3>8 DEF Contract!GetAnswer
    <3> QED BY <3>9 DEF Contract!Next
  <2>6. CASE GetEvict(c)
    <3> DEFINE new == [call[c] EXCEPT !.phase = "answered"]
    <3>1. call' = [call EXCEPT ![c] = new] /\ call[c].phase = "evict"
          BY <2>6 DEF GetEvict
    <3>2. Seen(new) = Seen(call[c])
          BY <2>1, <3>1 DEF Seen, Call
    <3>3. CallSeen' = [CallSeen EXCEPT ![c] = Seen(new)]
      <4> HIDE DEF new
      <4> QED BY <3>1, CallSeenMoves
    <3>4. CallSeen' = CallSeen
      <4> HIDE DEF new
      <4> QED BY <2>1, <3>2, <3>3 DEF CallSeen
    <3> QED BY <2>6, <3>4 DEF GetEvict, Contract!vars
  <2>7. CASE GetReturn(c)
    <3>1. CallSeen[c] = call[c]
          BY <2>1, <2>7 DEF GetReturn
    <3>2. CallSeen' = [CallSeen EXCEPT ![c] = Idle]
          BY <2>7, IdleSeen, CallSeenMoves DEF GetReturn
    <3>3. Contract!GetReturn(c)
          BY <2>7, <3>1, <3>2, IdleSeen DEF GetReturn, Contract!GetReturn
    <3> QED BY <3>3 DEF Contract!Next
  <2> QED BY <1>3, <2>2, <2>3, <2>4, <2>5, <2>6, <2>7 DEF ClientStep
<1>4. CASE CleanerStep
      BY <1>1, <1>4 DEF CleanerStep, CleanerTop, CleanerReceive, CleanerDrained, CleanerSample,
         CleanerInspect, CleanerScanned, CleanerPurge, CleanerRest, CleanerWake
<1>5. CASE Drop
  <2>1. \A c \in Client : CallSeen[c] = Contract!Idle
        BY <1>5, CallSeenAt, IdleSeen DEF Drop
  <2>2. CallSeen' = CallSeen
        BY <1>5 DEF Drop, CallSeen
  <2>3. Contract!Close
        BY <1>5, <2>1, <2>2 DEF Drop, Contract!Close
  <2> QED BY <2>3 DEF Contract!Next
<1>6. CASE DropReturn
      BY <1>6 DEF DropReturn, Contract!vars, CallSeen
<1>7. CASE Terminated \/ UNCHANGED vars
      BY <1>1, <1>7 DEF Terminated, vars
<1> QED BY <1>2, <1>3, <1>4, <1>5, <1>6, <1>7 DEF Next

(* The in-memory cache implements the cache contract.                        *)
THEOREM CacheImplementsContract == Spec => ImplementsContract
<1>1. Init => Contract!Init
      BY InitRefines
<1>2. TypeOK /\ Safe /\ [Next]_vars => [Contract!Next]_(Contract!vars)
      BY StepRefines
<1> QED BY <1>1, <1>2, SafeAlways, PTL DEF Spec, ImplementsContract, Contract!Spec

-----------------------------------------------------------------------------
(* What the contract promises is sound: the handler of requests, which       *)
(* relies on sound answers only, may use this cache as well as Redis.        *)
Sound == INSTANCE SoundCache WITH Value <- Nat, call <- CallSeen

LEMMA CallSeenTyped == TypeOK => CallSeen \in [Client -> Call]
<1> SUFFICES ASSUME TypeOK PROVE CallSeen \in [Client -> Call]
    OBVIOUS
<1>1. ASSUME NEW record \in Call PROVE Seen(record) \in Call
  <2>1. CASE record.phase = "evict"
        BY <2>1 DEF Seen, Call, Phases
  <2> QED BY <2>1, SeenSame
<1> QED BY <1>1 DEF CallSeen, TypeOK

LEMMA IdleSound == Contract!Idle = Sound!Idle /\ Contract!Idle = Idle
BY IdleSeen DEF Contract!Idle, Sound!Idle, Sound!Pending

LEMMA RecordOf ==
    ASSUME NEW record \in Call
    PROVE  record = Sound!Pending(record.phase, record.key, record.now, record.expiry,
                                  record.answer)
BY DEF Call, Sound!Pending

LEMMA PendingSound ==
    ASSUME NEW ph \in Phases, NEW k \in Key, NEW n \in Nat, NEW e \in Nat
    PROVE  /\ [Contract!Idle EXCEPT !.phase = ph, !.key = k, !.now = n] =
                  Sound!Pending(ph, k, n, 0, {})
           /\ [Contract!Idle EXCEPT !.phase = ph, !.key = k, !.now = n, !.expiry = e] =
                  Sound!Pending(ph, k, n, e, {})
<1> DEFINE old == Contract!Idle
           new == [old EXCEPT !.phase = ph, !.key = k, !.now = n]
           dated == [old EXCEPT !.phase = ph, !.key = k, !.now = n, !.expiry = e]
<1>1. old \in Call /\ old.expiry = 0 /\ old.answer = {}
      BY IdleSound, IdleTyped DEF Idle
<1> HIDE DEF old
<1>2. /\ new \in Call /\ new.phase = ph /\ new.key = k /\ new.now = n
      /\ new.expiry = 0 /\ new.answer = {}
      BY <1>1 DEF Call
<1>3. /\ dated \in Call /\ dated.phase = ph /\ dated.key = k /\ dated.now = n
      /\ dated.expiry = e /\ dated.answer = {}
      BY <1>1 DEF Call
<1> HIDE DEF new, dated
<1>4. new = Sound!Pending(ph, k, n, 0, {})
      BY <1>2, RecordOf
<1>5. dated = Sound!Pending(ph, k, n, e, {})
      BY <1>3, RecordOf
<1> QED BY <1>4, <1>5 DEF new, dated, old

LEMMA AnsweredSound ==
    ASSUME NEW record \in Call, NEW answer \in SUBSET Entry
    PROVE  [record EXCEPT !.phase = "answered", !.answer = answer] =
               Sound!Pending("answered", record.key, record.now, record.expiry, answer)
<1> DEFINE new == [record EXCEPT !.phase = "answered", !.answer = answer]
<1>1. /\ new \in Call /\ new.phase = "answered" /\ new.key = record.key
      /\ new.now = record.now /\ new.expiry = record.expiry /\ new.answer = answer
      BY DEF Call, Phases
<1> HIDE DEF new
<1>2. new = Sound!Pending("answered", record.key, record.now, record.expiry, answer)
      BY <1>1, RecordOf
<1> QED BY <1>2 DEF new

LEMMA ContractIsSound ==
    TypeOK /\ [Contract!Next]_(Contract!vars) => [Sound!Next]_(Sound!vars)
<1> SUFFICES ASSUME TypeOK, [Contract!Next]_(Contract!vars) PROVE [Sound!Next]_(Sound!vars)
    OBVIOUS
<1>1. CASE UNCHANGED Contract!vars
      BY <1>1 DEF Contract!vars, Sound!vars
<1>2. CASE Contract!Tick
      BY <1>2 DEF Contract!Tick, Sound!Tick, Sound!Next
<1>3. CASE Contract!Close
      BY <1>3 DEF Contract!Close, Sound!vars
<1>4. ASSUME NEW c \in Client, NEW k \in Key, Contract!GetBegin(c, k)
      PROVE  Sound!Next
  <2>1. [Contract!Idle EXCEPT !.phase = "get", !.key = k, !.now = clock] =
            Sound!Pending("get", k, clock, 0, {})
    <3>1. clock \in Nat /\ "get" \in Phases
          BY DEF TypeOK, Phases
    <3> QED BY <3>1, PendingSound
  <2>2. CallSeen[c] = Sound!Idle
        BY <1>4, IdleSound DEF Contract!GetBegin
  <2>3. Sound!GetBegin(c, k)
        BY <1>4, <2>1, <2>2 DEF Contract!GetBegin, Sound!GetBegin
  <2> QED BY <2>3 DEF Sound!Next
<1>5. ASSUME NEW c \in Client, NEW k \in Key, NEW d \in Durations, Contract!InsertBegin(c, k, d)
      PROVE  Sound!Next
  <2>1. clock \in Nat /\ clock + d \in Nat
        BY DurationsAssumption DEF TypeOK
  <2>2. [Contract!Idle EXCEPT !.phase = "insert", !.key = k, !.now = clock, !.expiry = clock + d] =
            Sound!Pending("insert", k, clock, clock + d, {})
    <3>1. "insert" \in Phases
          BY DEF Phases
    <3> QED BY <2>1, <3>1, PendingSound
  <2>3. CallSeen[c] = Sound!Idle
        BY <1>5, IdleSound DEF Contract!InsertBegin
  <2>4. Sound!InsertBegin(c, k, d)
        BY <1>5, <2>2, <2>3 DEF Contract!InsertBegin, Sound!InsertBegin
  <2> QED BY <2>4 DEF Sound!Next
<1>6. ASSUME NEW c \in Client, Contract!InsertCommit(c)
      PROVE  Sound!Next
  <2>1. writes + 1 \in Nat
        BY DEF TypeOK
  <2>2. Sound!InsertKeeps(c, writes + 1)
        BY <1>6, IdleSound DEF Contract!InsertCommit, Sound!InsertKeeps
  <2> QED BY <2>1, <2>2 DEF Sound!Next
<1>7. ASSUME NEW c \in Client, Contract!GetAnswer(c)
      PROVE  Sound!Next
  <2> DEFINE old == CallSeen[c]
  <2>1. old \in Call /\ CallSeen \in [Client -> Call]
        BY CallSeenTyped
  <2>2. PICK answer \in SUBSET Contract!Unexpired(written[old.key], old.now) :
            CallSeen' = [CallSeen EXCEPT ![c].phase = "answered", ![c].answer = answer]
        BY <1>7 DEF Contract!GetAnswer
  <2>3. CallSeen' = [CallSeen EXCEPT ![c] = [old EXCEPT !.phase = "answered", !.answer = answer]]
        BY <2>1, <2>2
  <2>4. answer \in SUBSET Entry /\ answer \in SUBSET Sound!NotExpired(written[old.key], old.now)
    <3>1. old.phase = "get"
          BY <1>7 DEF Contract!GetAnswer
    <3>2. old.key \in Key
          BY <3>1, CallSeenAt DEF TypeOK, Seen, Call
    <3>3. written[old.key] \subseteq Entry /\ old.now \in Nat
          BY <2>1, <3>2 DEF TypeOK, Call
    <3> QED BY <3>3 DEF Contract!Unexpired, Sound!NotExpired, Entry
  <2>5. CallSeen' = [CallSeen EXCEPT ![c] =
                        Sound!Pending("answered", old.key, old.now, old.expiry, answer)]
    <3>1. answer \in SUBSET Entry
          BY <2>4
    <3> QED BY <2>1, <2>3, <3>1, AnsweredSound
  <2>6. Sound!GetAnswer(c)
        BY <1>7, <2>4, <2>5 DEF Contract!GetAnswer, Sound!GetAnswer
  <2> QED BY <2>6 DEF Sound!Next
<1>8. ASSUME NEW c \in Client, Contract!GetReturn(c)
      PROVE  Sound!Next
  <2>1. Sound!GetReturn(c)
        BY <1>8, IdleSound DEF Contract!GetReturn, Sound!GetReturn
  <2> QED BY <2>1 DEF Sound!Next
<1> QED BY <1>1, <1>2, <1>3, <1>4, <1>5, <1>6, <1>7, <1>8 DEF Contract!Next

(* The in-memory cache gives sound answers only, through its contract.       *)
THEOREM MemoryAnswersSound == Spec => Sound!Spec
<1>1. Contract!Init => Sound!Init
      BY IdleSound DEF Contract!Init, Sound!Init
<1> QED BY <1>1, InitRefines, StepRefines, ContractIsSound, SafeAlways, PTL DEF Spec, Sound!Spec
=============================================================================
