------------------------- MODULE CacheHandlerProofs -------------------------
(* Theorems about CacheHandler, for any number of requests, fields, users,   *)
(* headers, ages and changes of the server's data.                           *)
EXTENDS CacheHandler, TLAPS

-----------------------------------------------------------------------------
(* The keys a request reads and those it may store under are keys.           *)

LEMMA UserTyped ==
    ASSUME NEW h \in Header \cup {NoHeader}
    PROVE  UserOf(h) \in Subject \cup {Nobody}
BY SubjectsAgree DEF UserOf

LEMMA KeysForTyped ==
    ASSUME NEW u \in Subject \cup {Nobody}, NEW f \in Field
    PROVE  KeysFor(u, f) \subseteq Key
<1>1. PublicKey[f] \in Key
      BY KeysDistinct
<1>2. u \in Subject => PrivateKey[u][f] \in Key
      BY KeysDistinct
<1> QED BY <1>1, <1>2, HandlerConstants DEF KeysFor

LEMMA ValueTyped ==
    ASSUME NEW f \in Field, NEW h \in Header \cup {NoHeader}, NEW n \in Nat
    PROVE  /\ ValueAt(f, h, n) \in FieldValue
           /\ ValueAt(f, h, n).field = f
           /\ ValueAt(f, h, n).owner = OwnerOf(f, h)
           /\ ValueAt(f, h, n).version = n
           /\ ValueAt(f, h, n) # None
BY HandlerConstants DEF ValueAt, FieldValue, Owner, OwnerOf

LEMMA IdleTyped == Cache!Idle \in Calls /\ Cache!Idle.phase = "idle"
BY DEF Cache!Idle, Cache!Pending, Calls

LEMMA PendingTyped ==
    ASSUME NEW ph \in {"idle", "get", "answered", "insert"}, NEW k \in Key \cup {NoKey},
           NEW n \in Nat, NEW x \in Nat, NEW a \in SUBSET Entry
    PROVE  /\ Cache!Pending(ph, k, n, x, a) \in Calls
           /\ Cache!Pending(ph, k, n, x, a).phase = ph
           /\ Cache!Pending(ph, k, n, x, a).key = k
           /\ Cache!Pending(ph, k, n, x, a).now = n
           /\ Cache!Pending(ph, k, n, x, a).expiry = x
           /\ Cache!Pending(ph, k, n, x, a).answer = a
BY DEF Cache!Pending, Calls

LEMMA CallTyped ==
    ASSUME TypeOK, NEW r \in Request, NEW f \in Field
    PROVE  /\ call[<<r, f>>] \in Calls
           /\ call[<<r, f>>].phase \in {"idle", "get", "answered", "insert"}
           /\ call[<<r, f>>].key \in Key \cup {NoKey}
           /\ call[<<r, f>>].now \in Nat
           /\ call[<<r, f>>].expiry \in Nat
           /\ call[<<r, f>>].answer \in SUBSET Entry
BY DEF TypeOK, Calls

LEMMA EntryTyped ==
    ASSUME NEW e \in Entry
    PROVE  e.id \in FieldValue /\ e.expiry \in Nat
BY DEF Entry

LEMMA StoringTyped ==
    ASSUME NEW t \in Storing
    PROVE  t.field \in Field /\ t.key \in Key
BY DEF Storing

-----------------------------------------------------------------------------
(* The invariant.                                                            *)

(* A call to the cache is the one its request is waiting for.                *)
CallFollows(r, f) ==
    LET c == call[<<r, f>>] IN
    /\ c.phase \in {"get", "answered"} =>
           reading[r][f] # "done" /\ c.key = KeyRead(r, f) /\ began[r] <= c.now
    /\ c.phase = "answered" =>
           \A e \in c.answer : e \in written[c.key] /\ c.now <= e.expiry
    /\ c.phase = "insert" => \E t \in todo[r] : t.field = f /\ t.key = c.key

ReadFollows(r, f) ==
    reading[r][f] # "done" =>
        /\ phase[r] = "read"
        /\ f \in wanted[r]
        /\ reading[r][f] = "private" => User(r) # Nobody

(* What is about to be stored has its value and goes where its readers may   *)
(* see it, each field once.                                                  *)
StoreOwned(r, t) ==
    /\ data[r][t.field] # None
    /\ t.key \in KeysFor(User(r), t.field)
    /\ \A s \in todo[r] : s.field = t.field => s = t

(* What a request has so far is its own and fresh.                           *)
Fresh(r, f) ==
    (since[r] <= data[r][f].version /\ data[r][f].version <= version) \/ Vouched(r, f)

DatumOwned(r, f) ==
    data[r][f] # None =>
        /\ phase[r] \notin {"idle", "forward"}
        /\ f \in wanted[r]
        /\ data[r][f].field = f
        /\ data[r][f].owner = OwnerOf(f, header[r])
        /\ Fresh(r, f)

DataComplete(r) ==
    phase[r] \in {"update", "served"} => \A f \in wanted[r] : data[r][f] # None

RequestSafe(r) ==
    /\ \A f \in Field : CallFollows(r, f) /\ ReadFollows(r, f) /\ DatumOwned(r, f)
    /\ \A t \in todo[r] : StoreOwned(r, t)
    /\ DataComplete(r)
    /\ began[r] <= clock /\ since[r] <= version

Safe == EntriesOwned /\ \A r \in Request : RequestSafe(r)

-----------------------------------------------------------------------------
(* Type correctness.                                                         *)

LEMMA InitTyped == Init => TypeOK
<1> SUFFICES ASSUME Init PROVE TypeOK
    OBVIOUS
<1>1. written \in [Key -> SUBSET Entry] /\ call \in [Request \X Field -> Calls] /\ clock \in Nat
      BY IdleTyped DEF Init, Cache!Init
<1> QED BY <1>1 DEF Init, TypeOK, Phases

(* A step that leaves the cache alone, or moves one call and adds entries.   *)
LEMMA CacheMoves ==
    ASSUME TypeOK, NEW r \in Request, NEW f \in Field, NEW new \in Calls,
           call' = [call EXCEPT ![<<r, f>>] = new]
    PROVE  call' \in [Request \X Field -> Calls]
BY DEF TypeOK

LEMMA ArriveTyped ==
    ASSUME TypeOK, NEW r \in Request, Arrive(r)
    PROVE  TypeOK'
<1>1. PICK kind \in {"read", "forward"}, h \in Header \cup {NoHeader}, fs \in Selections :
          Receive(r, kind, h, fs)
      BY DEF Arrive
<1>2. fs \in SUBSET Field
      BY HandlerConstants
<1>3. todo[r] = {}
      BY <1>1 DEF Receive, TypeOK
<1>4. UNCHANGED <<clock, written, call, version, data, todo>>
      BY <1>1 DEF Receive, cacheVars
<1>5. phase' \in [Request -> Phases] /\ header' \in [Request -> Header \cup {NoHeader}]
      BY <1>1 DEF Receive, TypeOK, Phases
<1>6. wanted' \in [Request -> SUBSET Field]
      BY <1>1, <1>2 DEF Receive, TypeOK
<1>7. reading' \in [Request -> [Field -> {"public", "private", "done"}]]
      BY <1>1 DEF Receive, TypeOK
<1>8. began' \in [Request -> Nat] /\ since' \in [Request -> Nat]
      BY <1>1 DEF Receive, TypeOK
<1>9. ASSUME NEW q \in Request, todo'[q] # {} PROVE phase'[q] = "update"
  <2>1. q # r
        BY <1>3, <1>4, <1>9
  <2> QED BY <1>1, <1>4, <1>9, <2>1 DEF Receive, TypeOK
<1> QED BY <1>4, <1>5, <1>6, <1>7, <1>8, <1>9 DEF TypeOK

LEMMA ReadTyped ==
    ASSUME TypeOK, NEW r \in Request, NEW f \in Field,
           ReadBegin(r, f) \/ ReadAnswer(r, f) \/ ReadReturn(r, f),
           CallFollows(r, f), ReadFollows(r, f)
    PROVE  TypeOK'
<1>1. User(r) \in Subject \cup {Nobody}
      BY UserTyped DEF User, TypeOK
<1>2. CASE ReadBegin(r, f)
  <2>1. KeyRead(r, f) \in Key
    <3>1. reading[r][f] \in {"public", "private"}
          BY <1>2 DEF ReadBegin, TypeOK
    <3>2. CASE reading[r][f] = "public"
          BY <3>2, KeysDistinct DEF KeyRead
    <3>3. CASE reading[r][f] = "private"
      <4>1. User(r) \in Subject
            BY <1>1, <3>3 DEF ReadFollows
      <4> QED BY <3>3, <4>1, KeysDistinct DEF KeyRead
    <3> QED BY <3>1, <3>2, <3>3
  <2> DEFINE new == Cache!Pending("get", KeyRead(r, f), clock, 0, {})
  <2>2. new \in Calls
        BY <2>1, PendingTyped DEF TypeOK
  <2>3. call' = [call EXCEPT ![<<r, f>>] = new]
        BY <1>2 DEF ReadBegin, Cache!GetBegin
  <2> HIDE DEF new
  <2>4. call' \in [Request \X Field -> Calls]
        BY <2>2, <2>3, CacheMoves
  <2> QED BY <1>2, <2>4 DEF ReadBegin, Cache!GetBegin, historyVars, TypeOK
<1>3. CASE ReadAnswer(r, f)
  <2> DEFINE c == call[<<r, f>>]
  <2>1. PICK answer \in SUBSET Cache!NotExpired(written[c.key], c.now) :
            call' = [call EXCEPT ![<<r, f>>] =
                        Cache!Pending("answered", c.key, c.now, c.expiry, answer)]
        BY <1>3 DEF ReadAnswer, Cache!GetAnswer
  <2>2. c.key \in Key
    <3>1. c.key = KeyRead(r, f) /\ reading[r][f] # "done"
          BY <1>3 DEF ReadAnswer, Cache!GetAnswer, CallFollows
    <3>2. CASE reading[r][f] = "public"
          BY <3>1, <3>2, KeysDistinct DEF KeyRead
    <3>3. CASE reading[r][f] = "private"
      <4>1. User(r) \in Subject
            BY <1>1, <3>3 DEF ReadFollows
      <4> QED BY <3>1, <3>3, <4>1, KeysDistinct DEF KeyRead
    <3> QED BY <3>1, <3>2, <3>3 DEF TypeOK
  <2>3. answer \in SUBSET Entry
        BY <2>1, <2>2 DEF Cache!NotExpired, TypeOK
  <2> DEFINE new == Cache!Pending("answered", c.key, c.now, c.expiry, answer)
  <2>4. new \in Calls
        BY <2>2, <2>3, CallTyped, PendingTyped
  <2>5. call' = [call EXCEPT ![<<r, f>>] = new]
        BY <2>1
  <2> HIDE DEF new
  <2>6. call' \in [Request \X Field -> Calls]
        BY <2>4, <2>5, CacheMoves
  <2> QED BY <1>3, <2>6 DEF ReadAnswer, Cache!GetAnswer, historyVars, TypeOK
<1>4. CASE ReadReturn(r, f)
  <2>1. call' \in [Request \X Field -> Calls]
        BY <1>4, IdleTyped, CacheMoves DEF ReadReturn, Cache!GetReturn
  <2>2. reading' \in [Request -> [Field -> {"public", "private", "done"}]]
        BY <1>4 DEF ReadReturn, AfterRead, TypeOK
  <2> DEFINE values == {e.id : e \in call[<<r, f>>].answer}
  <2>3. PICK v \in IF values = {} THEN {data[r][f]} ELSE values :
            data' = [data EXCEPT ![r][f] = v]
        BY <1>4 DEF ReadReturn
  <2>4. v \in FieldValue \cup {None}
    <3>1. CASE values = {}
          BY <2>3, <3>1 DEF TypeOK
    <3>2. CASE values # {}
          BY <2>3, <3>2, CallTyped, EntryTyped
    <3> QED BY <3>1, <3>2
  <2>5. data' \in [Request -> [Field -> FieldValue \cup {None}]]
        BY <2>3, <2>4 DEF TypeOK
  <2> QED BY <1>4, <2>1, <2>2, <2>5 DEF ReadReturn, Cache!GetReturn, historyVars, TypeOK
<1> QED BY <1>2, <1>3, <1>4

LEMMA AskTyped ==
    ASSUME TypeOK, NEW r \in Request, Ask(r) \/ Forward(r)
    PROVE  TypeOK'
<1>1. header[r] \in Header \cup {NoHeader} /\ version \in Nat /\ version + 1 \in Nat
      BY DEF TypeOK
<1>2. CASE Ask(r)
  <2>1. PICK entries \in SUBSET Storable(r) : todo' = [todo EXCEPT ![r] = entries]
        BY <1>2 DEF Ask
  <2>2. Storable(r) \subseteq Storing
    <3>1. User(r) \in Subject \cup {Nobody}
          BY <1>1, UserTyped DEF User
    <3>2. ASSUME NEW f \in Residual(r) PROVE f \in Field /\ KeysFor(User(r), f) \subseteq Key
          BY <3>1, KeysForTyped DEF Residual, TypeOK
    <3> QED BY <3>2 DEF Storable, Storing
  <2>3. todo' \in [Request -> SUBSET Storing]
        BY <2>1, <2>2 DEF TypeOK
  <2>4. phase' = [phase EXCEPT ![r] = "update"]
        BY <1>2 DEF Ask
  <2>5. phase' \in [Request -> Phases]
        BY <2>4 DEF Phases, TypeOK
  <2>6. \A q \in Request : todo'[q] # {} => phase'[q] = "update"
        BY <2>1, <2>4 DEF TypeOK
  <2> DEFINE new == [f \in Field |->
                 IF f \in Residual(r) THEN ValueAt(f, header[r], version) ELSE data[r][f]]
  <2>7. new \in [Field -> FieldValue \cup {None}]
        BY <1>1, ValueTyped DEF TypeOK
  <2>8. data' = [data EXCEPT ![r] = new]
        BY <1>2 DEF Ask
  <2> HIDE DEF new
  <2>9. data' \in [Request -> [Field -> FieldValue \cup {None}]]
        BY <2>7, <2>8 DEF TypeOK
  <2>10. UNCHANGED <<clock, written, call, version, header, wanted, reading, began, since>>
        BY <1>2 DEF Ask, cacheVars, historyVars
  <2> QED BY <2>3, <2>5, <2>6, <2>9, <2>10 DEF TypeOK
<1>3. CASE Forward(r)
  <2> DEFINE new == [f \in Field |->
                 IF f \in wanted[r] THEN ValueAt(f, header[r], version + 1) ELSE None]
  <2>1. new \in [Field -> FieldValue \cup {None}]
        BY <1>1, ValueTyped
  <2>2. data' = [data EXCEPT ![r] = new]
        BY <1>3 DEF Forward
  <2> HIDE DEF new
  <2>3. data' \in [Request -> [Field -> FieldValue \cup {None}]]
        BY <2>1, <2>2 DEF TypeOK
  <2>4. phase' \in [Request -> Phases] /\ version' \in Nat
        BY <1>1, <1>3 DEF Forward, TypeOK, Phases
  <2>5. \A q \in Request : todo'[q] # {} => phase'[q] = "update"
        BY <1>3 DEF Forward, TypeOK
  <2>6. UNCHANGED <<clock, written, call, todo, header, wanted, reading, began, since>>
        BY <1>3 DEF Forward, cacheVars, historyVars
  <2> QED BY <2>3, <2>4, <2>5, <2>6 DEF TypeOK
<1> QED BY <1>2, <1>3

LEMMA InsertTyped ==
    ASSUME TypeOK, NEW r \in Request, NEW t \in todo[r],
           InsertEnd(r, t) \/ (\E d \in Durations : InsertBegin(r, t, d)), StoreOwned(r, t)
    PROVE  TypeOK'
<1>1. t \in Storing /\ t.field \in Field /\ t.key \in Key
      BY StoringTyped DEF TypeOK
<1>2. ASSUME NEW d \in Durations, InsertBegin(r, t, d) PROVE TypeOK'
  <2> DEFINE new == Cache!Pending("insert", t.key, clock, clock + d, {})
  <2>1. clock + d \in Nat /\ clock \in Nat
        BY HandlerConstants DEF TypeOK
  <2>2. new \in Calls
        BY <1>1, <2>1, PendingTyped
  <2>3. call' = [call EXCEPT ![<<r, t.field>>] = new]
        BY <1>2 DEF InsertBegin, Cache!InsertBegin
  <2> HIDE DEF new
  <2>4. call' \in [Request \X Field -> Calls]
        BY <1>1, <2>2, <2>3, CacheMoves
  <2> QED BY <1>2, <2>4 DEF InsertBegin, Cache!InsertBegin, historyVars, TypeOK
<1>3. CASE InsertEnd(r, t)
  <2>1. call' \in [Request \X Field -> Calls] /\ clock' = clock
    <3>1. call' = [call EXCEPT ![<<r, t.field>>] = Cache!Idle] /\ clock' = clock
          BY <1>3 DEF InsertEnd, Cache!InsertKeeps, Cache!InsertLost
    <3> QED BY <1>1, <3>1, IdleTyped, CacheMoves
  <2>2. todo' = [todo EXCEPT ![r] = todo[r] \ {t}]
        BY <1>3 DEF InsertEnd, LeftAfter
  <2>3. todo' \in [Request -> SUBSET Storing]
        BY <2>2 DEF TypeOK
  <2>4. written' \in [Key -> SUBSET Entry]
    <3> DEFINE c == call[<<r, t.field>>]
               e == [id |-> data[r][t.field], expiry |-> c.expiry]
    <3>1. CASE written' = written
          BY <3>1 DEF TypeOK
    <3>2. CASE written' = [written EXCEPT ![c.key] = @ \cup {e}]
      <4>1. data[r][t.field] \in FieldValue
            BY <1>1 DEF TypeOK, StoreOwned
      <4>2. e \in Entry
            BY <1>1, <4>1, CallTyped DEF Entry
      <4> HIDE DEF e
      <4> QED BY <3>2, <4>2 DEF TypeOK
    <3> QED BY <1>3, <3>1, <3>2 DEF InsertEnd, Cache!InsertKeeps, Cache!InsertLost
  <2>5. UNCHANGED <<version, phase, header, wanted, reading, data, began, since>>
        BY <1>3 DEF InsertEnd, historyVars
  <2>6. \A q \in Request : todo'[q] # {} => phase'[q] = "update"
        BY <2>2, <2>5 DEF TypeOK
  <2> QED BY <2>1, <2>3, <2>4, <2>5, <2>6 DEF TypeOK
<1> QED BY <1>2, <1>3

LEMMA NextTyped == TypeOK /\ Safe /\ [Next]_vars => TypeOK'
<1> SUFFICES ASSUME TypeOK, Safe, [Next]_vars PROVE TypeOK'
    OBVIOUS
<1>1. CASE ServerChange \/ Tick
      BY <1>1 DEF ServerChange, Tick, Cache!Tick, cacheVars, historyVars, TypeOK
<1>2. CASE UNCHANGED vars
      BY <1>2 DEF vars, TypeOK
<1>3. ASSUME NEW r \in Request, Proceed(r) PROVE TypeOK'
  <2>1. CASE Match(r)
        BY <2>1 DEF Match, cacheVars, historyVars, TypeOK, Phases
  <2>2. CASE AskFails(r) \/ AskRefused(r)
        BY <2>2 DEF AskFails, AskRefused, cacheVars, historyVars, TypeOK, Phases
  <2>3. CASE Respond(r)
        BY <2>3 DEF Respond, Updated, cacheVars, historyVars, TypeOK, Phases
  <2> QED BY <1>3, <2>1, <2>2, <2>3, ReadTyped, AskTyped, InsertTyped
         DEF Proceed, TaskStep, CallEnds, Safe, RequestSafe
<1> QED BY <1>1, <1>2, <1>3, ArriveTyped DEF Next, Terminated

-----------------------------------------------------------------------------
(* Facts the safety lemmas share.                                            *)

LEMMA KeysOfTyped ==
    ASSUME NEW h \in Header \cup {NoHeader}, NEW f \in Field
    PROVE  KeysOf(h, f) \subseteq Key
<1>1. PublicKey[f] \in Key
      BY KeysDistinct
<1>2. UserOf(h) # Nobody => PrivateKey[UserOf(h)][f] \in Key
      BY UserTyped, KeysDistinct
<1> QED BY <1>1, <1>2 DEF KeysOf

(* What a request reads is a key of its own, for its user and this field.    *)
LEMMA ReadsOwnKey ==
    ASSUME TypeOK, NEW r \in Request, NEW f \in Field, ReadFollows(r, f),
           reading[r][f] # "done"
    PROVE  /\ KeyRead(r, f) \in KeysOf(header[r], f)
           /\ header[r] \in Readers(KeyRead(r, f), f)
           /\ KeyRead(r, f) \in Key
<1>1. header[r] \in Header \cup {NoHeader} /\ reading[r][f] \in {"public", "private"}
      BY DEF TypeOK
<1>2. CASE reading[r][f] = "public"
      BY <1>1, <1>2, KeysOfTyped DEF KeyRead, KeysOf, Readers
<1>3. CASE reading[r][f] = "private"
  <2>1. UserOf(header[r]) # Nobody
        BY <1>3 DEF ReadFollows, User
  <2>2. KeyRead(r, f) = PrivateKey[UserOf(header[r])][f]
        BY <1>3 DEF KeyRead, User
  <2> QED BY <1>1, <2>1, <2>2, KeysOfTyped DEF KeysOf, Readers
<1> QED BY <1>1, <1>2, <1>3

(* A value that is fresh stays so: the cache's log and the version grow.     *)
LEMMA FreshStays ==
    ASSUME TypeOK, NEW r \in Request, NEW f \in Field, Fresh(r, f),
           data[r][f] \in FieldValue,
           data'[r][f] = data[r][f], header'[r] = header[r],
           began'[r] = began[r], since'[r] = since[r],
           version' \in Nat, version <= version',
           \A k \in Key : written[k] \subseteq written'[k]
    PROVE  Fresh(r, f)'
<1>1. header[r] \in Header \cup {NoHeader} /\ version \in Nat /\ since[r] \in Nat
      BY DEF TypeOK
<1>2. CASE Vouched(r, f)
  <2>0. PICK k \in KeysOf(header[r], f) : \E e \in written[k] :
            e.id = data[r][f] /\ e.expiry >= began[r]
        BY <1>2 DEF Vouched
  <2>1. PICK e \in written[k] : e.id = data[r][f] /\ e.expiry >= began[r]
        BY <2>0
  <2>2. k \in KeysOf(header[r], f)' /\ e \in written'[k]
        BY <1>1, <2>1, KeysOfTyped DEF KeysOf
  <2>3. e.id = data'[r][f] /\ e.expiry >= began'[r]
        BY <2>1
  <2>4. Vouched(r, f)'
        BY <2>2, <2>3 DEF Vouched, KeysOf
  <2> QED BY <2>4 DEF Fresh
<1>3. CASE since[r] <= data[r][f].version /\ data[r][f].version <= version
  <2>1. data[r][f].version \in Nat
        BY DEF FieldValue
  <2>2. data'[r][f].version <= version'
        BY <1>1, <1>3, <2>1
  <2> QED BY <1>3, <2>2 DEF Fresh
<1> QED BY <1>2, <1>3 DEF Fresh

LEMMA DataTyped ==
    ASSUME TypeOK, NEW r \in Request, NEW f \in Field, data[r][f] # None
    PROVE  data[r][f] \in FieldValue
BY DEF TypeOK

LEMMA InitSafe == Init => Safe
<1> SUFFICES ASSUME Init PROVE Safe
    OBVIOUS
<1>1. ASSUME NEW r \in Request, NEW f \in Field
      PROVE  CallFollows(r, f) /\ ReadFollows(r, f) /\ DatumOwned(r, f)
  <2>1. CallFollows(r, f)
        BY IdleTyped DEF Init, Cache!Init, CallFollows
  <2>2. ReadFollows(r, f) /\ DatumOwned(r, f)
        BY DEF Init, ReadFollows, DatumOwned
  <2> QED BY <2>1, <2>2
<1>2. ASSUME NEW r \in Request
      PROVE  /\ \A t \in todo[r] : StoreOwned(r, t)
             /\ DataComplete(r) /\ began[r] <= clock /\ since[r] <= version
      BY DEF Init, Cache!Init, DataComplete
<1>3. EntriesOwned
      BY DEF Init, Cache!Init, EntriesOwned
<1> QED BY <1>1, <1>2, <1>3 DEF Safe, RequestSafe

(* Where no read is under way and nothing is to be stored, no call is.       *)
LEMMA CalmRequest ==
    ASSUME TypeOK, NEW r \in Request, RequestSafe(r), phase[r] \notin {"read", "update"}
    PROVE  /\ todo[r] = {}
           /\ \A f \in Field : reading[r][f] = "done" /\ call[<<r, f>>].phase = "idle"
<1>1. todo[r] = {}
      BY DEF TypeOK
<1>2. ASSUME NEW f \in Field PROVE reading[r][f] = "done"
      BY DEF RequestSafe, ReadFollows
<1>3. ASSUME NEW f \in Field PROVE call[<<r, f>>].phase = "idle"
      BY <1>1, <1>2, CallTyped DEF RequestSafe, CallFollows
<1> QED BY <1>1, <1>2, <1>3

(* A request that takes no step stays safe, whatever the others do: the log  *)
(* of the cache, the clock and the version only grow.                        *)
Unmoved(q) ==
    /\ phase'[q] = phase[q] /\ header'[q] = header[q] /\ wanted'[q] = wanted[q]
    /\ reading'[q] = reading[q] /\ data'[q] = data[q] /\ todo'[q] = todo[q]
    /\ began'[q] = began[q] /\ since'[q] = since[q]
    /\ \A f \in Field : call'[<<q, f>>] = call[<<q, f>>]

Grows ==
    /\ \A k \in Key : written[k] \subseteq written'[k]
    /\ clock' \in Nat /\ clock <= clock'
    /\ version' \in Nat /\ version <= version'

LEMMA OthersStay ==
    ASSUME TypeOK, NEW q \in Request, RequestSafe(q), Unmoved(q), Grows
    PROVE  RequestSafe(q)'
<1>1. ASSUME NEW f \in Field PROVE CallFollows(q, f)'
  <2> DEFINE c == call[<<q, f>>]
  <2>1. c' = c /\ CallFollows(q, f) /\ ReadFollows(q, f)
        BY DEF Unmoved, RequestSafe
  <2>2. KeyRead(q, f)' = KeyRead(q, f)
        BY DEF Unmoved, KeyRead, User
  <2>3. c.phase = "answered" => c.key \in Key
        BY <2>1, ReadsOwnKey DEF CallFollows
  <2>4. c.phase = "answered" => \A e \in c.answer : e \in written'[c.key] /\ c.now <= e.expiry
        BY <2>1, <2>3 DEF CallFollows, Grows
  <2> QED BY <2>1, <2>2, <2>4 DEF CallFollows, Unmoved
<1>2. ASSUME NEW f \in Field PROVE ReadFollows(q, f)'
      BY DEF RequestSafe, ReadFollows, Unmoved, User
<1>3. ASSUME NEW f \in Field PROVE DatumOwned(q, f)'
  <2> SUFFICES ASSUME data[q][f] # None
               PROVE  /\ phase[q] \notin {"idle", "forward"} /\ f \in wanted[q]
                      /\ data[q][f].field = f /\ data[q][f].owner = OwnerOf(f, header[q])
                      /\ Fresh(q, f)'
      BY DEF DatumOwned, Unmoved, OwnerOf
  <2>1. DatumOwned(q, f) /\ data[q][f] \in FieldValue
        BY DataTyped DEF RequestSafe
  <2>2. Fresh(q, f)'
        BY <2>1, FreshStays DEF DatumOwned, Unmoved, Grows
  <2> QED BY <2>1, <2>2 DEF DatumOwned
<1>4. ASSUME NEW t \in todo'[q] PROVE StoreOwned(q, t)'
      BY DEF RequestSafe, StoreOwned, Unmoved, User, KeysFor
<1>5. DataComplete(q)'
      BY DEF RequestSafe, DataComplete, Unmoved
<1>6. began'[q] <= clock' /\ since'[q] <= version'
  <2>1. began[q] \in Nat /\ since[q] \in Nat /\ clock \in Nat /\ version \in Nat
        BY DEF TypeOK
  <2> QED BY <2>1 DEF RequestSafe, Unmoved, Grows
<1> QED BY <1>1, <1>2, <1>3, <1>4, <1>5, <1>6 DEF RequestSafe

(* A step of request r keeps the invariant if it keeps that of r.            *)
LEMMA OnlyOneMoves ==
    ASSUME TypeOK, Safe, NEW r \in Request, Grows, written' = written,
           RequestSafe(r)',
           \A q \in Request : q # r => Unmoved(q)
    PROVE  Safe'
<1>1. ASSUME NEW q \in Request PROVE RequestSafe(q)'
      BY OthersStay DEF Safe
<1>2. EntriesOwned'
      BY DEF Safe, EntriesOwned, Readers
<1> QED BY <1>1, <1>2 DEF Safe

-----------------------------------------------------------------------------
(* Each action keeps the invariant.                                          *)

LEMMA ArriveSafe ==
    ASSUME TypeOK, Safe, NEW r \in Request, Arrive(r)
    PROVE  Safe'
<1>1. PICK kind \in {"read", "forward"}, h \in Header \cup {NoHeader}, fs \in Selections :
          Receive(r, kind, h, fs)
      BY DEF Arrive
<1>2. phase[r] = "idle" /\ UNCHANGED <<clock, written, call, version, data, todo>>
      BY <1>1 DEF Receive, cacheVars
<1>3. RequestSafe(r)
      BY DEF Safe
<1>4. /\ todo[r] = {}
      /\ \A f \in Field : data[r][f] = None /\ call[<<r, f>>].phase = "idle"
      BY <1>2, <1>3, CalmRequest DEF RequestSafe, DatumOwned
<1>5. /\ phase'[r] = kind /\ wanted'[r] = fs
      /\ reading'[r] = [f \in Field |-> IF kind = "read" /\ f \in fs THEN "public" ELSE "done"]
      /\ began'[r] = clock /\ since'[r] = version
      BY <1>1 DEF Receive, TypeOK
<1>6. ASSUME NEW f \in Field PROVE CallFollows(r, f)' /\ ReadFollows(r, f)' /\ DatumOwned(r, f)'
      BY <1>2, <1>4, <1>5 DEF CallFollows, ReadFollows, DatumOwned
<1>7. DataComplete(r)'
      BY <1>5 DEF DataComplete
<1>8. began'[r] <= clock' /\ since'[r] <= version'
      BY <1>2, <1>5 DEF TypeOK
<1>9. RequestSafe(r)'
      BY <1>2, <1>4, <1>6, <1>7, <1>8 DEF RequestSafe
<1>10. Grows
       BY <1>2 DEF Grows, TypeOK
<1>11. \A q \in Request : q # r => Unmoved(q)
       BY <1>1, <1>2 DEF Receive, Unmoved, TypeOK
<1> QED BY <1>2, <1>9, <1>10, <1>11, OnlyOneMoves

(* A step of one call of a request, the rest of which it leaves alone.       *)
LEMMA CallStep ==
    ASSUME TypeOK, Safe, NEW r \in Request, NEW f \in Field, NEW new,
           call' = [call EXCEPT ![<<r, f>>] = new],
           UNCHANGED <<clock, written, version, phase, header, wanted, reading, data, todo,
                       began, since>>,
           CallFollows(r, f)'
    PROVE  Safe'
<1>1. RequestSafe(r)
      BY DEF Safe
<1>2. ASSUME NEW g \in Field PROVE CallFollows(r, g)'
  <2>1. CASE g = f
        BY <2>1
  <2>2. CASE g # f
    <3>1. call'[<<r, g>>] = call[<<r, g>>]
          BY <2>2 DEF TypeOK
    <3> QED BY <1>1, <3>1 DEF RequestSafe, CallFollows, KeyRead, User
  <2> QED BY <2>1, <2>2
<1>3. ASSUME NEW g \in Field PROVE ReadFollows(r, g)' /\ DatumOwned(r, g)'
      BY <1>1 DEF RequestSafe, ReadFollows, DatumOwned, User, OwnerOf, Fresh, Vouched, KeysOf
<1>4. ASSUME NEW t \in todo[r] PROVE StoreOwned(r, t)'
      BY <1>1 DEF RequestSafe, StoreOwned, User, KeysFor
<1>5. RequestSafe(r)'
      BY <1>1, <1>2, <1>3, <1>4 DEF RequestSafe, DataComplete
<1>6. Grows
      BY DEF Grows, TypeOK
<1>7. \A q \in Request : q # r => Unmoved(q)
      BY DEF Unmoved, TypeOK
<1> QED BY <1>5, <1>6, <1>7, OnlyOneMoves

LEMMA ReadBeginSafe ==
    ASSUME TypeOK, Safe, NEW r \in Request, NEW f \in Field, ReadBegin(r, f)
    PROVE  Safe'
<1> DEFINE new == Cache!Pending("get", KeyRead(r, f), clock, 0, {})
<1>1. call' = [call EXCEPT ![<<r, f>>] = new]
      BY DEF ReadBegin, Cache!GetBegin
<1>2. new.phase = "get" /\ new.key = KeyRead(r, f) /\ new.now = clock
      BY DEF Cache!Pending
<1> HIDE DEF new
<1>3. UNCHANGED <<clock, written, version, phase, header, wanted, reading, data, todo,
                  began, since>>
      BY DEF ReadBegin, Cache!GetBegin, historyVars
<1>4. began[r] <= clock /\ reading[r][f] # "done"
      BY DEF ReadBegin, Safe, RequestSafe
<1>5. call'[<<r, f>>] = new
      BY <1>1 DEF TypeOK
<1>6. CallFollows(r, f)'
      BY <1>2, <1>3, <1>4, <1>5 DEF CallFollows, KeyRead, User
<1> QED BY <1>1, <1>3, <1>6, CallStep

LEMMA ReadAnswerSafe ==
    ASSUME TypeOK, Safe, NEW r \in Request, NEW f \in Field, ReadAnswer(r, f)
    PROVE  Safe'
<1> DEFINE c == call[<<r, f>>]
<1>1. c.phase = "get"
      BY DEF ReadAnswer, Cache!GetAnswer
<1>2. PICK answer \in SUBSET Cache!NotExpired(written[c.key], c.now) :
          call' = [call EXCEPT ![<<r, f>>] =
                      Cache!Pending("answered", c.key, c.now, c.expiry, answer)]
      BY DEF ReadAnswer, Cache!GetAnswer
<1>3. UNCHANGED <<clock, written, version, phase, header, wanted, reading, data, todo,
                  began, since>>
      BY DEF ReadAnswer, Cache!GetAnswer, historyVars
<1>4. CallFollows(r, f)
      BY DEF Safe, RequestSafe
<1> DEFINE new == Cache!Pending("answered", c.key, c.now, c.expiry, answer)
<1>5. new.phase = "answered" /\ new.key = c.key /\ new.now = c.now /\ new.answer = answer
      BY DEF Cache!Pending
<1>6. call' = [call EXCEPT ![<<r, f>>] = new]
      BY <1>2
<1> HIDE DEF new
<1>7. call'[<<r, f>>] = new
      BY <1>6 DEF TypeOK
<1>8. reading[r][f] # "done" /\ c.key = KeyRead(r, f) /\ began[r] <= c.now
      BY <1>1, <1>4 DEF CallFollows
<1>9. c.now \in Nat /\ c.key \in Key
      BY <1>8, CallTyped, ReadsOwnKey DEF Safe, RequestSafe
<1>10. \A e \in answer : e \in written[c.key] /\ c.now <= e.expiry
  <2> SUFFICES ASSUME NEW e \in answer PROVE e \in written[c.key] /\ c.now <= e.expiry
      OBVIOUS
  <2>1. e \in written[c.key] /\ e.expiry >= c.now
        BY <1>2 DEF Cache!NotExpired
  <2>2. e.expiry \in Nat
        BY <1>9, <2>1, EntryTyped DEF TypeOK
  <2> QED BY <1>9, <2>1, <2>2
<1>11. KeyRead(r, f)' = KeyRead(r, f)
       BY <1>3 DEF KeyRead, User
<1>12. CallFollows(r, f)'
       BY <1>3, <1>5, <1>7, <1>8, <1>10, <1>11 DEF CallFollows
<1> QED BY <1>3, <1>6, <1>12, CallStep

LEMMA ReadReturnSafe ==
    ASSUME TypeOK, Safe, NEW r \in Request, NEW f \in Field, ReadReturn(r, f)
    PROVE  Safe'
<1> DEFINE c == call[<<r, f>>]
           values == {e.id : e \in c.answer}
<1>1. c.phase = "answered" /\ call' = [call EXCEPT ![<<r, f>>] = Cache!Idle]
      BY DEF ReadReturn, Cache!GetReturn
<1>2. reading' = [reading EXCEPT ![r][f] = AfterRead(r, f)]
      BY DEF ReadReturn
<1>3. PICK v \in IF values = {} THEN {data[r][f]} ELSE values :
          data' = [data EXCEPT ![r][f] = v]
      BY DEF ReadReturn
<1>4. UNCHANGED <<clock, written, version, phase, header, wanted, todo, began, since>>
      BY DEF ReadReturn, Cache!GetReturn, historyVars
<1>5. RequestSafe(r) /\ CallFollows(r, f) /\ ReadFollows(r, f) /\ DatumOwned(r, f)
      BY DEF Safe, RequestSafe
<1>6. /\ reading[r][f] # "done" /\ c.key = KeyRead(r, f) /\ began[r] <= c.now
      /\ \A e \in c.answer : e \in written[c.key] /\ c.now <= e.expiry
      BY <1>1, <1>5 DEF CallFollows
<1>7. phase[r] = "read" /\ f \in wanted[r] /\ todo[r] = {}
      BY <1>5, <1>6 DEF ReadFollows, TypeOK
<1>8. /\ reading'[r][f] = AfterRead(r, f) /\ data'[r][f] = v
      /\ \A g \in Field : g # f => /\ reading'[r][g] = reading[r][g] /\ data'[r][g] = data[r][g]
                                   /\ call'[<<r, g>>] = call[<<r, g>>]
      /\ call'[<<r, f>>] = Cache!Idle
      BY <1>1, <1>2, <1>3 DEF TypeOK
<1>9. ASSUME NEW g \in Field PROVE CallFollows(r, g)'
  <2>1. CASE g = f
        BY <1>8, <2>1, IdleTyped DEF CallFollows
  <2>2. CASE g # f
        BY <1>4, <1>5, <1>8, <2>2 DEF RequestSafe, CallFollows, KeyRead, User
  <2> QED BY <2>1, <2>2
<1>10. ASSUME NEW g \in Field PROVE ReadFollows(r, g)'
  <2>1. CASE g = f
    <3>1. AfterRead(r, f) = "private" => User(r) # Nobody
          BY DEF AfterRead
    <3> QED BY <1>4, <1>7, <1>8, <2>1, <3>1 DEF ReadFollows, User
  <2>2. CASE g # f
        BY <1>4, <1>5, <1>8, <2>2 DEF RequestSafe, ReadFollows, User
  <2> QED BY <2>1, <2>2
<1>11. ASSUME v # None
       PROVE  /\ v.field = f /\ v.owner = OwnerOf(f, header[r])
              /\ Fresh(r, f)'
  <2>1. CASE values = {}
    <3>1. v = data[r][f] /\ data[r][f] \in FieldValue
          BY <1>3, <1>11, <2>1, DataTyped
    <3>2. data'[r][f] = data[r][f]
          BY <1>8, <3>1
    <3>3. DatumOwned(r, f) /\ data[r][f] # None
          BY <1>5, <1>11, <3>1
    <3>4. Fresh(r, f)'
          BY <1>4, <3>1, <3>2, <3>3, FreshStays DEF DatumOwned, TypeOK
    <3> QED BY <3>1, <3>3, <3>4 DEF DatumOwned
  <2>2. CASE values # {}
    <3>1. PICK e \in c.answer : v = e.id
          BY <1>3, <2>2
    <3>2. e \in written[c.key] /\ c.now <= e.expiry /\ c.key \in Key
          BY <1>5, <1>6, <3>1, ReadsOwnKey
    <3>3. header[r] \in Readers(c.key, f) /\ c.key \in KeysOf(header[r], f)
          BY <1>5, <1>6, ReadsOwnKey
    <3>4. v.field = f /\ v.owner = OwnerOf(f, header[r])
          BY <3>1, <3>2, <3>3 DEF Safe, EntriesOwned
    <3>5. e.expiry >= began[r]
      <4>1. e.expiry \in Nat /\ c.now \in Nat /\ began[r] \in Nat
            BY <3>1, CallTyped, EntryTyped DEF TypeOK
      <4> QED BY <1>6, <3>2, <4>1
    <3>6. Vouched(r, f)'
          BY <1>4, <1>8, <3>1, <3>2, <3>3, <3>5 DEF Vouched, KeysOf
    <3> QED BY <3>4, <3>6 DEF Fresh
  <2> QED BY <2>1, <2>2
<1>12. ASSUME NEW g \in Field PROVE DatumOwned(r, g)'
  <2>1. CASE g = f
        BY <1>4, <1>7, <1>8, <1>11, <2>1 DEF DatumOwned, OwnerOf
  <2>2. CASE g # f
    <3>1. DatumOwned(r, g) /\ data'[r][g] = data[r][g]
          BY <1>5, <1>8, <2>2 DEF RequestSafe
    <3>2. data[r][g] # None => Fresh(r, g)'
          BY <1>4, <3>1, DataTyped, FreshStays DEF DatumOwned, TypeOK
    <3> QED BY <1>4, <3>1, <3>2 DEF DatumOwned, OwnerOf
  <2> QED BY <2>1, <2>2
<1>13. RequestSafe(r)'
       BY <1>4, <1>5, <1>7, <1>9, <1>10, <1>12 DEF RequestSafe, DataComplete
<1>14. Grows
       BY <1>4 DEF Grows, TypeOK
<1>15. \A q \in Request : q # r => Unmoved(q)
       BY <1>1, <1>2, <1>3, <1>4 DEF Unmoved, TypeOK
<1> QED BY <1>4, <1>13, <1>14, <1>15, OnlyOneMoves

(* Match, AskFails, AskRefused and Respond move the phase and nothing else.  *)
LEMMA PhaseStep ==
    ASSUME TypeOK, Safe, NEW r \in Request,
           NEW new \in {"ask", "failed", "panicked", "served"},
           phase' = [phase EXCEPT ![r] = new],
           UNCHANGED <<clock, written, call, version, header, wanted, reading, data, todo,
                       began, since>>,
           \A f \in Field : reading[r][f] = "done",
           new = "served" => \A f \in wanted[r] : data[r][f] # None
    PROVE  Safe'
<1>1. RequestSafe(r) /\ phase'[r] = new
      BY DEF Safe, TypeOK
<1>2. ASSUME NEW f \in Field PROVE CallFollows(r, f)' /\ ReadFollows(r, f)' /\ DatumOwned(r, f)'
  <2>1. CallFollows(r, f)'
        BY <1>1 DEF RequestSafe, CallFollows, KeyRead, User
  <2>2. ReadFollows(r, f)'
        BY DEF ReadFollows
  <2>3. DatumOwned(r, f)'
        BY <1>1 DEF RequestSafe, DatumOwned, OwnerOf, Fresh, Vouched, KeysOf
  <2> QED BY <2>1, <2>2, <2>3
<1>3. ASSUME NEW t \in todo[r] PROVE StoreOwned(r, t)'
      BY <1>1 DEF RequestSafe, StoreOwned, User, KeysFor
<1>4. RequestSafe(r)'
      BY <1>1, <1>2, <1>3 DEF RequestSafe, DataComplete
<1>5. Grows
      BY DEF Grows, TypeOK
<1>6. \A q \in Request : q # r => Unmoved(q)
      BY DEF Unmoved, TypeOK
<1> QED BY <1>4, <1>5, <1>6, OnlyOneMoves

LEMMA PhaseSafe ==
    ASSUME TypeOK, Safe, NEW r \in Request,
           Match(r) \/ AskFails(r) \/ AskRefused(r) \/ Respond(r)
    PROVE  Safe'
<1>1. UNCHANGED <<clock, written, call, version, header, wanted, reading, data, todo,
                  began, since>>
      BY DEF Match, AskFails, AskRefused, Respond, cacheVars, historyVars
<1>2. RequestSafe(r)
      BY DEF Safe
<1>3. CASE Match(r)
  <2>1. \A f \in Field : reading[r][f] = "done"
        BY <1>3 DEF Match
  <2>2. CASE Residual(r) = {}
    <3>1. \A f \in wanted[r] : data[r][f] # None
          BY <2>2 DEF Residual
    <3>2. phase' = [phase EXCEPT ![r] = "served"]
          BY <1>3, <2>2 DEF Match
    <3>3. "served" \in {"ask", "failed", "panicked", "served"}
          OBVIOUS

    <3> QED BY <1>1, <2>1, <3>1, <3>2, <3>3, PhaseStep
  <2>3. CASE Residual(r) # {}
    <3>1. phase' = [phase EXCEPT ![r] = "ask"]
          BY <1>3, <2>3 DEF Match
    <3> QED BY <1>1, <2>1, <3>1, PhaseStep
  <2> QED BY <2>2, <2>3
<1>4. CASE AskFails(r) \/ AskRefused(r)
  <2>1. phase[r] \notin {"read", "update"}
        BY <1>4 DEF AskFails, AskRefused
  <2>2. \A f \in Field : reading[r][f] = "done"
        BY <1>2, <2>1, CalmRequest
  <2>3. ASSUME phase' = [phase EXCEPT ![r] = "failed"] PROVE Safe'
        BY <1>1, <2>2, <2>3, PhaseStep
  <2>4. ASSUME phase' = [phase EXCEPT ![r] = "panicked"] PROVE Safe'
        BY <1>1, <2>2, <2>4, PhaseStep
  <2> QED BY <1>4, <2>3, <2>4 DEF AskFails, AskRefused
<1>5. CASE Respond(r)
  <2>1. phase[r] = "update" /\ phase' = [phase EXCEPT ![r] = "served"]
        BY <1>5 DEF Respond
  <2>2. \A f \in Field : reading[r][f] = "done"
        BY <1>2, <2>1 DEF RequestSafe, ReadFollows
  <2>3. \A f \in wanted[r] : data[r][f] # None
        BY <1>2, <2>1 DEF RequestSafe, DataComplete
  <2> QED BY <1>1, <2>1, <2>2, <2>3, PhaseStep
<1> QED BY <1>3, <1>4, <1>5

LEMMA AskSafe ==
    ASSUME TypeOK, Safe, NEW r \in Request, Ask(r)
    PROVE  Safe'
<1>1. /\ UNCHANGED <<clock, written, call, version, header, wanted, reading, began, since>>
      /\ phase[r] = "ask" /\ phase' = [phase EXCEPT ![r] = "update"]
      BY DEF Ask, cacheVars, historyVars
<1>2. RequestSafe(r)
      BY DEF Safe
<1>3. \A f \in Field : reading[r][f] = "done" /\ call[<<r, f>>].phase = "idle"
      BY <1>1, <1>2, CalmRequest
<1>4. PICK entries \in SUBSET Storable(r) :
          /\ \A s, t \in entries : s.field = t.field => s = t
          /\ todo' = [todo EXCEPT ![r] = entries]
      BY DEF Ask
<1> DEFINE new == [f \in Field |->
               IF f \in Residual(r) THEN ValueAt(f, header[r], version) ELSE data[r][f]]
<1>5. data' = [data EXCEPT ![r] = new]
      BY DEF Ask
<1>6. \A f \in Field :
          new[f] = IF f \in Residual(r) THEN ValueAt(f, header[r], version) ELSE data[r][f]
      OBVIOUS
<1> HIDE DEF new
<1>7. phase'[r] = "update" /\ todo'[r] = entries /\ \A f \in Field : data'[r][f] = new[f]
      BY <1>1, <1>4, <1>5 DEF TypeOK
<1>8. /\ header[r] \in Header \cup {NoHeader} /\ version \in Nat
      /\ since[r] \in Nat /\ wanted[r] \subseteq Field
      BY DEF TypeOK
<1>9. ASSUME NEW f \in Residual(r)
      PROVE  /\ f \in Field /\ f \in wanted[r]
             /\ data'[r][f] # None /\ data'[r][f].field = f
             /\ data'[r][f].owner = OwnerOf(f, header[r]) /\ data'[r][f].version = version
  <2>1. f \in Field /\ f \in wanted[r]
        BY <1>8 DEF Residual
  <2>2. data'[r][f] = ValueAt(f, header[r], version)
        BY <1>6, <1>7, <2>1
  <2> QED BY <1>8, <2>1, <2>2, ValueTyped
<1>10. ASSUME NEW f \in Field PROVE DatumOwned(r, f)'
  <2>1. CASE f \in Residual(r)
    <3>1. Fresh(r, f)'
      <4>1. since[r] <= version /\ version <= version
            BY <1>2, <1>8 DEF RequestSafe
      <4> QED BY <1>1, <1>9, <2>1, <4>1 DEF Fresh
    <3> QED BY <1>1, <1>7, <1>9, <2>1, <3>1 DEF DatumOwned, OwnerOf
  <2>2. CASE f \notin Residual(r)
    <3>1. data'[r][f] = data[r][f] /\ DatumOwned(r, f)
          BY <1>2, <1>6, <1>7, <2>2 DEF RequestSafe
    <3>2. data[r][f] # None => Fresh(r, f)'
          BY <1>1, <1>8, <3>1, DataTyped, FreshStays DEF DatumOwned
    <3> QED BY <1>1, <1>7, <3>1, <3>2 DEF DatumOwned, OwnerOf
  <2> QED BY <2>1, <2>2
<1>11. ASSUME NEW f \in Field PROVE CallFollows(r, f)' /\ ReadFollows(r, f)'
       BY <1>1, <1>3 DEF CallFollows, ReadFollows
<1>12. ASSUME NEW t \in todo'[r] PROVE StoreOwned(r, t)'
  <2>1. PICK f \in Residual(r) : t \in [field : {f}, key : KeysFor(User(r), f)]
        BY <1>4, <1>7 DEF Storable
  <2>2. t.field = f /\ t.key \in KeysFor(User(r), f)
        BY <2>1
  <2> QED BY <1>1, <1>4, <1>7, <1>9, <2>2 DEF StoreOwned, User, KeysFor
<1>13. DataComplete(r)'
  <2> SUFFICES ASSUME NEW f \in wanted[r] PROVE data'[r][f] # None
      BY <1>1 DEF DataComplete
  <2>1. CASE f \in Residual(r)
        BY <1>9, <2>1
  <2>2. CASE f \notin Residual(r)
        BY <1>6, <1>7, <1>8, <2>2 DEF Residual
  <2> QED BY <2>1, <2>2
<1>14. RequestSafe(r)'
       BY <1>1, <1>2, <1>10, <1>11, <1>12, <1>13 DEF RequestSafe
<1>15. Grows
       BY <1>1 DEF Grows, TypeOK
<1>16. \A q \in Request : q # r => Unmoved(q)
       BY <1>1, <1>4, <1>5 DEF Unmoved, TypeOK
<1> QED BY <1>1, <1>14, <1>15, <1>16, OnlyOneMoves

LEMMA ForwardSafe ==
    ASSUME TypeOK, Safe, NEW r \in Request, Forward(r)
    PROVE  Safe'
<1>1. /\ UNCHANGED <<clock, written, call, todo, header, wanted, reading, began, since>>
      /\ phase[r] = "forward" /\ phase' = [phase EXCEPT ![r] = "served"]
      /\ version' = version + 1
      BY DEF Forward, cacheVars, historyVars
<1>2. RequestSafe(r)
      BY DEF Safe
<1>3. todo[r] = {} /\ \A f \in Field : reading[r][f] = "done" /\ call[<<r, f>>].phase = "idle"
      BY <1>1, <1>2, CalmRequest
<1> DEFINE new == [f \in Field |->
               IF f \in wanted[r] THEN ValueAt(f, header[r], version + 1) ELSE None]
<1>4. data' = [data EXCEPT ![r] = new]
      BY DEF Forward
<1>5. \A f \in Field :
          new[f] = IF f \in wanted[r] THEN ValueAt(f, header[r], version + 1) ELSE None
      OBVIOUS
<1> HIDE DEF new
<1>6. phase'[r] = "served" /\ \A f \in Field : data'[r][f] = new[f]
      BY <1>1, <1>4 DEF TypeOK
<1>7. /\ header[r] \in Header \cup {NoHeader} /\ version \in Nat /\ version + 1 \in Nat
      /\ since[r] \in Nat /\ wanted[r] \subseteq Field
      BY DEF TypeOK
<1>8. since[r] <= version + 1
      BY <1>2, <1>7 DEF RequestSafe
<1>9. ASSUME NEW f \in wanted[r]
      PROVE  /\ data'[r][f] # None /\ data'[r][f].field = f
             /\ data'[r][f].owner = OwnerOf(f, header[r])
             /\ data'[r][f].version = version + 1
  <2>1. f \in Field /\ data'[r][f] = ValueAt(f, header[r], version + 1)
        BY <1>5, <1>6, <1>7
  <2> QED BY <1>7, <2>1, ValueTyped
<1>10. ASSUME NEW f \in Field PROVE DatumOwned(r, f)'
  <2>1. CASE f \in wanted[r]
    <3>1. Fresh(r, f)'
      <4>1. version + 1 <= version + 1
            BY <1>7
      <4> QED BY <1>1, <1>8, <1>9, <2>1, <4>1 DEF Fresh
    <3> QED BY <1>1, <1>6, <1>9, <2>1, <3>1 DEF DatumOwned, OwnerOf
  <2>2. CASE f \notin wanted[r]
        BY <1>5, <1>6, <2>2 DEF DatumOwned
  <2> QED BY <2>1, <2>2
<1>11. ASSUME NEW f \in Field PROVE CallFollows(r, f)' /\ ReadFollows(r, f)'
       BY <1>1, <1>3 DEF CallFollows, ReadFollows
<1>12. DataComplete(r)'
       BY <1>1, <1>9 DEF DataComplete
<1>13. RequestSafe(r)'
       BY <1>1, <1>2, <1>3, <1>8, <1>10, <1>11, <1>12 DEF RequestSafe
<1>14. Grows
       BY <1>1, <1>7 DEF Grows, TypeOK
<1>15. \A q \in Request : q # r => Unmoved(q)
       BY <1>1, <1>4 DEF Unmoved, TypeOK
<1> QED BY <1>1, <1>13, <1>14, <1>15, OnlyOneMoves

LEMMA InsertBeginSafe ==
    ASSUME TypeOK, Safe, NEW r \in Request, NEW t \in todo[r], NEW d \in Durations,
           InsertBegin(r, t, d)
    PROVE  Safe'
<1> DEFINE new == Cache!Pending("insert", t.key, clock, clock + d, {})
<1>1. new.phase = "insert" /\ new.key = t.key
      BY DEF Cache!Pending
<1>2. call' = [call EXCEPT ![<<r, t.field>>] = new]
      BY DEF InsertBegin, Cache!InsertBegin
<1> HIDE DEF new
<1>3. UNCHANGED <<clock, written, version, phase, header, wanted, reading, data, todo,
                  began, since>>
      BY DEF InsertBegin, Cache!InsertBegin, historyVars
<1>4. t.field \in Field
      BY StoringTyped DEF TypeOK
<1>5. call'[<<r, t.field>>] = new
      BY <1>2, <1>4 DEF TypeOK
<1>6. CallFollows(r, t.field)'
      BY <1>1, <1>3, <1>5 DEF CallFollows
<1> QED BY <1>2, <1>3, <1>4, <1>6, CallStep

(* A value that belongs under a key is that of all who read the key.         *)
LEMMA StoredForReaders ==
    ASSUME NEW h \in Header \cup {NoHeader}, NEW f \in Field,
           NEW k \in KeysFor(UserOf(h), f),
           NEW g \in Field, NEW i \in Readers(k, g)
    PROVE  f = g /\ OwnerOf(f, h) = OwnerOf(g, i)
<1>1. i \in Header \cup {NoHeader}
      BY DEF Readers
<1>2. UserOf(h) \in Subject \cup {Nobody} /\ UserOf(i) \in Subject \cup {Nobody}
      BY <1>1, UserTyped
<1>3. k = PublicKey[g] \/ (UserOf(i) # Nobody /\ k = PrivateKey[UserOf(i)][g])
      BY DEF Readers
<1>4. CASE f \notin PrivateFields /\ k = PublicKey[f]
  <2>1. CASE k = PublicKey[g]
    <3>1. f = g
          BY <1>4, <2>1, KeysDistinct
    <3> QED BY <1>4, <3>1 DEF OwnerOf
  <2>2. CASE UserOf(i) # Nobody /\ k = PrivateKey[UserOf(i)][g]
        BY <1>2, <1>4, <2>2, KeysDistinct
  <2> QED BY <1>3, <2>1, <2>2
<1>5. CASE UserOf(h) # Nobody /\ k = PrivateKey[UserOf(h)][f]
  <2>1. CASE k = PublicKey[g]
        BY <1>2, <1>5, <2>1, KeysDistinct
  <2>2. CASE UserOf(i) # Nobody /\ k = PrivateKey[UserOf(i)][g]
    <3>1. UserOf(h) = UserOf(i) /\ f = g
          BY <1>2, <1>5, <2>2, KeysDistinct
    <3>2. h \in Header /\ i \in Header /\ SubjectOf[h] = SubjectOf[i]
          BY <1>1, <1>5, <2>2, <3>1 DEF UserOf
    <3>3. Identity[h] = Identity[i]
          BY <3>2, SubjectsAgree
    <3> QED BY <3>1, <3>3 DEF OwnerOf
  <2> QED BY <1>3, <2>1, <2>2
<1> QED BY <1>4, <1>5 DEF KeysFor

LEMMA InsertEndSafe ==
    ASSUME TypeOK, Safe, NEW r \in Request, NEW t \in todo[r], InsertEnd(r, t)
    PROVE  Safe'
<1> DEFINE f == t.field
           c == call[<<r, f>>]
           e == [id |-> data[r][f], expiry |-> c.expiry]
<1>1. /\ UNCHANGED <<clock, version, phase, header, wanted, reading, data, began, since>>
      /\ call' = [call EXCEPT ![<<r, f>>] = Cache!Idle]
      /\ todo' = [todo EXCEPT ![r] = todo[r] \ {t}]
      /\ c.phase = "insert"
      BY DEF InsertEnd, LeftAfter, Cache!InsertKeeps, Cache!InsertLost, historyVars
<1>2. written' = written \/ written' = [written EXCEPT ![c.key] = @ \cup {e}]
      BY DEF InsertEnd, Cache!InsertKeeps, Cache!InsertLost
<1>3. RequestSafe(r) /\ StoreOwned(r, t) /\ t \in Storing /\ f \in Field /\ t.key \in Key
      BY StoringTyped DEF Safe, RequestSafe, TypeOK
<1>4. c.key = t.key
  <2>1. PICK s \in todo[r] : s.field = f /\ s.key = c.key
        BY <1>1, <1>3 DEF RequestSafe, CallFollows
  <2> QED BY <1>3, <2>1 DEF StoreOwned
<1>5. phase[r] = "update" /\ header[r] \in Header \cup {NoHeader}
      BY DEF TypeOK
<1> DEFINE id == data[r][f]
<1>6. /\ id.field = f /\ id.owner = OwnerOf(f, header[r])
      /\ t.key \in KeysFor(UserOf(header[r]), f)
      BY <1>3 DEF RequestSafe, DatumOwned, StoreOwned, User
<1>7. e.id = id
      OBVIOUS
<1> HIDE DEF e
<1>8. \A k \in Key : \A x \in written'[k] : x \in written[k] \/ (k = t.key /\ x = e)
      BY <1>2, <1>4 DEF TypeOK
<1>9. \A k \in Key : written[k] \subseteq written'[k]
      BY <1>2, <1>4 DEF TypeOK
<1>10. EntriesOwned'
  <2> SUFFICES ASSUME NEW k \in Key, NEW x \in written'[k],
                      NEW g \in Field, NEW h \in Readers(k, g)
               PROVE  x.id.field = g /\ x.id.owner = OwnerOf(g, h)
      BY DEF EntriesOwned, Readers
  <2>1. CASE x \in written[k]
        BY <2>1 DEF Safe, EntriesOwned
  <2>2. CASE k = t.key /\ x = e
    <3>1. f = g /\ OwnerOf(f, header[r]) = OwnerOf(g, h)
          BY <1>3, <1>5, <1>6, <2>2, StoredForReaders
    <3> QED BY <1>6, <1>7, <2>2, <3>1
  <2> QED BY <1>8, <2>1, <2>2
<1>11. Grows
       BY <1>1, <1>9 DEF Grows, TypeOK
<1>12. /\ todo'[r] = todo[r] \ {t} /\ call'[<<r, f>>] = Cache!Idle
       /\ \A g \in Field : g # f => call'[<<r, g>>] = call[<<r, g>>]
       BY <1>1, <1>3 DEF TypeOK
<1>13. ASSUME NEW g \in Field PROVE CallFollows(r, g)'
  <2>1. CASE g = f
        BY <1>12, <2>1, IdleTyped DEF CallFollows
  <2>2. CASE g # f
    <3>1. call'[<<r, g>>] = call[<<r, g>>] /\ CallFollows(r, g) /\ reading[r][g] = "done"
          BY <1>3, <1>5, <1>12, <2>2 DEF RequestSafe, ReadFollows
    <3>2. ASSUME NEW s \in todo[r], s.field = g PROVE s \in todo'[r]
          BY <1>12, <2>2, <3>2
    <3> QED BY <1>1, <3>1, <3>2 DEF CallFollows
  <2> QED BY <2>1, <2>2
<1>14. ASSUME NEW g \in Field PROVE ReadFollows(r, g)'
       BY <1>1, <1>3 DEF RequestSafe, ReadFollows, User
<1>15. ASSUME NEW g \in Field PROVE DatumOwned(r, g)'
  <2>1. DatumOwned(r, g)
        BY <1>3 DEF RequestSafe
  <2>2. data[r][g] # None => Fresh(r, g)'
        BY <1>1, <1>9, <2>1, DataTyped, FreshStays DEF DatumOwned, TypeOK
  <2> QED BY <1>1, <2>1, <2>2 DEF DatumOwned, OwnerOf
<1>16. ASSUME NEW s \in todo'[r] PROVE StoreOwned(r, s)'
       BY <1>1, <1>3, <1>12 DEF RequestSafe, StoreOwned, User, KeysFor
<1>17. RequestSafe(r)'
       BY <1>1, <1>3, <1>13, <1>14, <1>15, <1>16 DEF RequestSafe, DataComplete
<1>18. ASSUME NEW q \in Request, q # r PROVE RequestSafe(q)'
  <2>1. Unmoved(q)
        BY <1>1, <1>18 DEF Unmoved, TypeOK
  <2> QED BY <1>11, <2>1, OthersStay DEF Safe
<1> QED BY <1>10, <1>17, <1>18 DEF Safe

LEMMA NextSafe == TypeOK /\ Safe /\ [Next]_vars => Safe'
<1> SUFFICES ASSUME TypeOK, Safe, [Next]_vars PROVE Safe'
    OBVIOUS
<1>1. CASE ServerChange \/ Tick \/ UNCHANGED vars
  <2>1. Grows /\ written' = written
        BY <1>1 DEF ServerChange, Tick, Cache!Tick, cacheVars, historyVars, vars, Grows, TypeOK
  <2>2. ASSUME NEW q \in Request PROVE Unmoved(q)
        BY <1>1 DEF ServerChange, Tick, Cache!Tick, cacheVars, historyVars, vars, Unmoved
  <2>3. ASSUME NEW q \in Request PROVE RequestSafe(q)'
        BY <2>1, <2>2, OthersStay DEF Safe
  <2>4. EntriesOwned'
        BY <2>1 DEF Safe, EntriesOwned, Readers
  <2> QED BY <2>3, <2>4 DEF Safe
<1>2. ASSUME NEW r \in Request, Proceed(r) PROVE Safe'
      BY <1>2, ReadBeginSafe, ReadAnswerSafe, ReadReturnSafe, PhaseSafe, AskSafe, ForwardSafe,
         InsertBeginSafe, InsertEndSafe DEF Proceed, TaskStep, CallEnds
<1> QED BY <1>1, <1>2, ArriveSafe DEF Next, Terminated

-----------------------------------------------------------------------------
(* The theorems.                                                             *)

LEMMA SpecSafe == Spec => [](TypeOK /\ Safe)
<1>1. Init => TypeOK /\ Safe
      BY InitTyped, InitSafe
<1>2. TypeOK /\ Safe /\ [Next]_vars => (TypeOK /\ Safe)'
      BY NextTyped, NextSafe
<1> QED BY <1>1, <1>2, PTL DEF Spec

(* Every variable keeps its type, and a call to the cache is for a key: the  *)
(* state of execute_operation, get_cached_item and update_cache.             *)
THEOREM HandlerTyped == Spec => []TypeOK
BY SpecSafe, PTL

(* Under every key is only what the server gives to all who read that key,   *)
(* whatever number of requests insert at the same time (97-123).             *)
THEOREM EntriesAreOwned == Spec => []EntriesOwned
<1>1. Safe => EntriesOwned
      BY DEF Safe
<1> QED BY <1>1, SpecSafe, PTL

(* Every response has a value for each field asked for, and it is what the   *)
(* server gives to the sender of that request (18-59).                       *)
THEOREM AnswersAreOwn == Spec => []OwnAnswers
<1>1. ASSUME TypeOK, Safe PROVE OwnAnswers
  <2> SUFFICES ASSUME NEW r \in Request, NEW f \in Field, phase[r] = "served"
               PROVE  IF f \in wanted[r]
                      THEN /\ data[r][f] # None
                           /\ data[r][f].field = f
                           /\ data[r][f].owner = OwnerOf(f, header[r])
                      ELSE data[r][f] = None
      BY DEF OwnAnswers
  <2>1. DatumOwned(r, f) /\ DataComplete(r)
        BY <1>1 DEF Safe, RequestSafe
  <2> QED BY <2>1 DEF DatumOwned, DataComplete
<1> QED BY <1>1, SpecSafe, PTL

(* A value that is served is one the server had since the request came, or   *)
(* was inserted and had not expired when the request came (34-58, 487-520).  *)
THEOREM AnswersAreFresh == Spec => []FreshAnswers
<1>1. ASSUME TypeOK, Safe PROVE FreshAnswers
  <2> SUFFICES ASSUME NEW r \in Request, phase[r] = "served", NEW f \in wanted[r]
               PROVE  Fresh(r, f)
      BY DEF FreshAnswers, Fresh
  <2>1. f \in Field
        BY <1>1 DEF TypeOK
  <2>2. DatumOwned(r, f) /\ data[r][f] # None
        BY <1>1, <2>1 DEF Safe, RequestSafe, DataComplete
  <2> QED BY <2>2 DEF DatumOwned
<1> QED BY <1>1, SpecSafe, PTL

-----------------------------------------------------------------------------
(* The cache's side of it.                                                   *)

(* The client <<r, f>> of the cache is request r for its field f, and every  *)
(* step of a request is one step of one client or none.                      *)
LEMMA ProceedUsesCache ==
    ASSUME TypeOK, Safe, NEW r \in Request, Proceed(r)
    PROVE  [Cache!Next]_(Cache!vars)
<1>1. ASSUME NEW f \in Field, ReadBegin(r, f)
      PROVE  Cache!Next
  <2>1. KeyRead(r, f) \in Key
        BY <1>1, ReadsOwnKey DEF ReadBegin, Safe, RequestSafe
  <2>2. Cache!GetBegin(<<r, f>>, KeyRead(r, f)) /\ <<r, f>> \in Request \X Field
        BY <1>1 DEF ReadBegin
  <2> QED BY <2>1, <2>2 DEF Cache!Next
<1>2. ASSUME NEW f \in Field, ReadAnswer(r, f) \/ ReadReturn(r, f)
      PROVE  Cache!Next
  <2>1. <<r, f>> \in Request \X Field
        OBVIOUS
  <2> QED BY <1>2, <2>1 DEF ReadAnswer, ReadReturn, Cache!Next
<1>3. ASSUME \/ Match(r) \/ Ask(r) \/ AskFails(r) \/ AskRefused(r) \/ Forward(r)
             \/ Respond(r)
      PROVE  UNCHANGED Cache!vars
      BY <1>3 DEF Match, Ask, AskFails, AskRefused, Forward, Respond, cacheVars, Cache!vars
<1>4. ASSUME NEW t \in todo[r], NEW d \in Durations, InsertBegin(r, t, d)
      PROVE  Cache!Next
  <2>1. t.key \in Key /\ <<r, t.field>> \in Request \X Field
        BY StoringTyped DEF TypeOK
  <2>2. Cache!InsertBegin(<<r, t.field>>, t.key, d)
        BY <1>4 DEF InsertBegin
  <2> QED BY <2>1, <2>2 DEF Cache!Next
<1>5. ASSUME NEW t \in todo[r], InsertEnd(r, t)
      PROVE  Cache!Next
  <2>1. t.field \in Field /\ <<r, t.field>> \in Request \X Field
        BY StoringTyped DEF TypeOK
  <2>2. data[r][t.field] \in FieldValue
        BY <2>1, DataTyped DEF Safe, RequestSafe, StoreOwned
  <2>3. \/ Cache!InsertKeeps(<<r, t.field>>, data[r][t.field])
        \/ Cache!InsertLost(<<r, t.field>>)
        BY <1>5 DEF InsertEnd
  <2> QED BY <2>1, <2>2, <2>3 DEF Cache!Next
<1> QED BY <1>1, <1>2, <1>3, <1>4, <1>5 DEF Proceed, TaskStep, CallEnds

(* All requests together are clients of a SoundCache, with one call per      *)
(* request and field at a time, for keys only and with values that exist:    *)
(* what the theorems above say of the answers holds over each cache that     *)
(* implements it (487-520, 97-117).                                          *)
THEOREM HandlerUsesSoundCache == Spec => Cache!Spec
<1>1. Init => Cache!Init
      BY DEF Init
<1>2. TypeOK /\ Safe /\ [Next]_vars => [Cache!Next]_(Cache!vars)
  <2> SUFFICES ASSUME TypeOK, Safe, [Next]_vars PROVE [Cache!Next]_(Cache!vars)
      OBVIOUS
  <2>1. ASSUME NEW r \in Request, Arrive(r)
        PROVE  UNCHANGED Cache!vars
        BY <2>1 DEF Arrive, Receive, cacheVars, Cache!vars
  <2>2. ASSUME ServerChange \/ Terminated \/ UNCHANGED vars
        PROVE  UNCHANGED Cache!vars
        BY <2>2 DEF ServerChange, Terminated, vars, cacheVars, Cache!vars
  <2>3. ASSUME Tick PROVE Cache!Next
        BY <2>3 DEF Tick, Cache!Next
  <2> QED BY <2>1, <2>2, <2>3, ProceedUsesCache DEF Next
<1> QED BY <1>1, <1>2, SpecSafe, PTL DEF Spec, Cache!Spec
=============================================================================
