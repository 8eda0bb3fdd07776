---------------------------- MODULE CacheHandler ----------------------------
(* Requests in parallel: handle_request (src/src/main.rs) and                *)
(* execute_operation (src/src/graphql/cache_handler.rs) with one action per  *)
(* await, over a cache of which no more is known than SoundCache says, and a *)
(* GraphQL server whose data changes.                                        *)
(*                                                                           *)
(* A query asks for fields of the root without subfields: what the trees of  *)
(* fields, the keys and the hints do in one request is the subject of        *)
(* QueryCache, what requests do to each other is the subject here.  A value  *)
(* names the field it is of, the owner it is for and the version of the      *)
(* server's data it was taken from, so a value that is misplaced or old      *)
(* shows.                                                                    *)
EXTENDS Integers, FiniteSets

CONSTANTS
    Request,        \* the requests of a behaviour
    Field,          \* the fields of the root
    PrivateFields,  \* the fields whose value depends on the user
    Header,         \* the authorization headers that are accepted
    NoHeader,       \* no header, or one that is refused
    Subject,        \* user_id: the subjects of the headers
    Nobody,         \* user_id is None
    SubjectOf,      \* the subject of a header
    Identity,       \* whom the server takes the sender of a header for
    Everybody,      \* the owner of what is the same for all
    Key,            \* the keys of the cache
    NoKey,          \* the key of a task that is not in a call
    PublicKey,      \* per field, its key
    PrivateKey,     \* per subject and field, the key with the user before it
    None,           \* no value
    Durations,      \* the ages a hint may give
    MaxTime,        \* bound on the clock
    Selections,     \* the sets of fields asked for together
    MaxVersion      \* bound on the changes of the server's data

VARIABLES
    clock,    \* what Utc::now() returns
    written,  \* the cache: per key, every [id, expiry] inserted so far
    call,     \* per request and field, the call to the cache in progress
    version,  \* how often the server's data has changed
    phase,    \* where execute_operation is
    header,   \* the header that will be forwarded
    wanted,   \* the fields of the operation
    reading,  \* per field, which read of get_cached_item is next
    data,     \* per field, its value in data_from_cache, then in the response
    todo,     \* the entries that update_cache has still to insert
    began,    \* history: the clock when the request came
    since     \* history: the version when the request came

vars == <<clock, written, call, version, phase, header, wanted, reading, data, todo,
          began, since>>
cacheVars == <<clock, written, call>>
historyVars == <<began, since>>

Owner == {Identity[h] : h \in Header \cup {NoHeader}} \cup {Everybody}
FieldValue == [field : Field, owner : Owner, version : Nat]
Entry == [id : FieldValue, expiry : Nat]

(* The keys are concatenations of names, arguments and the user              *)
(* (to_private_cache_key, 119-123): those of different fields or users are   *)
(* taken to be different.  KeyText has the cases where they are.             *)
ASSUME KeysDistinct ==
    /\ PublicKey \in [Field -> Key]
    /\ PrivateKey \in [Subject -> [Field -> Key]]
    /\ \A f, g \in Field : PublicKey[f] = PublicKey[g] => f = g
    /\ \A f, g \in Field, s, t \in Subject :
           PrivateKey[s][f] = PrivateKey[t][g] => s = t /\ f = g
    /\ \A f, g \in Field, s \in Subject : PublicKey[f] # PrivateKey[s][g]

(* The server gives the same data to all headers of one subject: with OIDC   *)
(* the tokens of a user, without it a subject is the header.                 *)
ASSUME SubjectsAgree ==
    /\ SubjectOf \in [Header -> Subject]
    /\ \A g, h \in Header : SubjectOf[g] = SubjectOf[h] => Identity[g] = Identity[h]

ASSUME HandlerConstants ==
    /\ PrivateFields \subseteq Field
    /\ Selections \subseteq SUBSET Field
    /\ NoHeader \notin Header
    /\ Nobody \notin Subject
    /\ NoKey \notin Key
    /\ None \notin FieldValue
    /\ Durations \subseteq Nat

Cache == INSTANCE SoundCache WITH Client <- Request \X Field, Value <- FieldValue

-----------------------------------------------------------------------------
(* authorize_header: the subject of the header that is forwarded.            *)
UserOf(h) == IF h = NoHeader THEN Nobody ELSE SubjectOf[h]
User(r) == UserOf(header[r])

(* What the server has for field f and the sender of header h.               *)
OwnerOf(f, h) == IF f \in PrivateFields THEN Identity[h] ELSE Everybody
ValueAt(f, h, n) == [field |-> f, owner |-> OwnerOf(f, h), version |-> n]

BugKeyRead(r, f) ==
    IF reading[r][f] = "public" THEN PublicKey[f] ELSE PrivateKey[CHOOSE s \in Subject : TRUE][f]

(* get_cached_item reads the field's own key, then that with the user.       *)
KeyRead(r, f) == IF reading[r][f] = "public" THEN PublicKey[f] ELSE PrivateKey[User(r)][f]

AfterRead(r, f) ==
    IF reading[r][f] = "public" /\ User(r) # Nobody THEN "private" ELSE "done"

BugUnhinted(u, f) == {PublicKey[f]} \cup (IF u = Nobody THEN {} ELSE {PrivateKey[u][f]})

(* update_cache: the keys under which a value of f may be stored for user u, *)
(* by the scope of its hint.  The server hints what depends on the user as   *)
(* PRIVATE; of no user, that is not stored.                                  *)
KeysFor(u, f) ==
    (IF f \in PrivateFields THEN {} ELSE {PublicKey[f]})
        \cup (IF u = Nobody THEN {} ELSE {PrivateKey[u][f]})

Residual(r) == {f \in wanted[r] : data[r][f] = None}

(* What update_cache may insert of the answer of the server.                 *)
Storable(r) == UNION {[field : {f}, key : KeysFor(User(r), f)] : f \in Residual(r)}

BugLeftAfter(r, t, kept) == IF kept THEN todo[r] \ {t} ELSE todo[r]

(* update_cache goes on after an insertion that failed.                      *)
LeftAfter(r, t, kept) == todo[r] \ {t}

BugUpdated(r) == TRUE
Updated(r) == todo[r] = {}

-----------------------------------------------------------------------------
Init ==
    /\ Cache!Init
    /\ version = 0
    /\ phase = [r \in Request |-> "idle"]
    /\ header = [r \in Request |-> NoHeader]
    /\ wanted = [r \in Request |-> {}]
    /\ reading = [r \in Request |-> [f \in Field |-> "done"]]
    /\ data = [r \in Request |-> [f \in Field |-> None]]
    /\ todo = [r \in Request |-> {}]
    /\ began = [r \in Request |-> 0]
    /\ since = [r \in Request |-> 0]

(* A request comes: a query, or an operation that is forwarded as it is.     *)
Receive(r, kind, h, fs) ==
    /\ phase[r] = "idle"
    /\ phase' = [phase EXCEPT ![r] = kind]
    /\ header' = [header EXCEPT ![r] = h]
    /\ wanted' = [wanted EXCEPT ![r] = fs]
    /\ reading' = [reading EXCEPT ![r] =
           [f \in Field |-> IF kind = "read" /\ f \in fs THEN "public" ELSE "done"]]
    /\ began' = [began EXCEPT ![r] = clock]
    /\ since' = [since EXCEPT ![r] = version]
    /\ UNCHANGED <<cacheVars, version, data, todo>>

(* join_all: the keys of all fields are read at once.                        *)
ReadBegin(r, f) ==
    /\ phase[r] = "read"
    /\ reading[r][f] # "done"
    /\ Cache!GetBegin(<<r, f>>, KeyRead(r, f))
    /\ UNCHANGED <<version, phase, header, wanted, reading, data, todo, historyVars>>

ReadAnswer(r, f) ==
    /\ Cache!GetAnswer(<<r, f>>)
    /\ UNCHANGED <<version, phase, header, wanted, reading, data, todo, historyVars>>

(* The entries are merged in the order the cache answers them in, those of   *)
(* the user after the public ones: the last one wins.                        *)
ReadReturn(r, f) ==
    /\ Cache!GetReturn(<<r, f>>)
    /\ reading' = [reading EXCEPT ![r][f] = AfterRead(r, f)]
    /\ LET values == {e.id : e \in call[<<r, f>>].answer} IN
       \E v \in IF values = {} THEN {data[r][f]} ELSE values :
           data' = [data EXCEPT ![r][f] = v]
    /\ UNCHANGED <<version, phase, header, wanted, todo, historyVars>>

(* match_operation_with_cache: what the cache did not have is left to ask.   *)
Match(r) ==
    /\ phase[r] = "read"
    /\ \A f \in Field : reading[r][f] = "done"
    /\ phase' = [phase EXCEPT ![r] = IF Residual(r) = {} THEN "served" ELSE "ask"]
    /\ UNCHANGED <<cacheVars, version, header, wanted, reading, data, todo, historyVars>>

(* get_fn: the server answers the fields left, with a hint for some of them; *)
(* Respond puts its answer together with what the cache had.                 *)
Ask(r) ==
    /\ phase[r] = "ask"
    /\ phase' = [phase EXCEPT ![r] = "update"]
    /\ data' = [data EXCEPT ![r] = [f \in Field |->
           IF f \in Residual(r) THEN ValueAt(f, header[r], version) ELSE data[r][f]]]
    /\ \E entries \in SUBSET Storable(r) :
        /\ \A s, t \in entries : s.field = t.field => s = t
        /\ todo' = [todo EXCEPT ![r] = entries]
    /\ UNCHANGED <<cacheVars, version, header, wanted, reading, historyVars>>

(* The server cannot be reached or does not answer with JSON, or a query is  *)
(* answered without "data": the client gets an error.  A mutation that the   *)
(* server refuses gets what the server says.                                 *)
AskFails(r) ==
    /\ phase[r] \in {"ask", "forward"}
    /\ phase' = [phase EXCEPT ![r] = "failed"]
    /\ UNCHANGED <<cacheVars, version, header, wanted, reading, data, todo, historyVars>>

(* The server refuses the query: its data is null.  Nothing of that is       *)
(* cached, and expand_response panics where the fields left should be: the   *)
(* client gets nothing.                                                      *)
AskRefused(r) ==
    /\ phase[r] = "ask"
    /\ phase' = [phase EXCEPT ![r] = "panicked"]
    /\ UNCHANGED <<cacheVars, version, header, wanted, reading, data, todo, historyVars>>

(* The server executes a mutation; execute_operation returns what it answers *)
(* and leaves the cache alone.                                               *)
Forward(r) ==
    /\ phase[r] = "forward"
    /\ phase' = [phase EXCEPT ![r] = "served"]
    /\ version < MaxVersion
    /\ version' = version + 1
    /\ data' = [data EXCEPT ![r] = [f \in Field |->
           IF f \in wanted[r] THEN ValueAt(f, header[r], version + 1) ELSE None]]
    /\ UNCHANGED <<cacheVars, header, wanted, reading, todo, historyVars>>

(* update_cache: one insertion after the other.                              *)
InsertBegin(r, t, d) ==
    /\ phase[r] = "update"
    /\ \A f \in Field : call[<<r, f>>] = Cache!Idle
    /\ t \in todo[r]
    /\ Cache!InsertBegin(<<r, t.field>>, t.key, d)
    /\ UNCHANGED <<version, phase, header, wanted, reading, data, todo, historyVars>>

InsertEnd(r, t) ==
    /\ t \in todo[r]
    /\ \/ /\ Cache!InsertKeeps(<<r, t.field>>, data[r][t.field])
          /\ todo' = [todo EXCEPT ![r] = LeftAfter(r, t, TRUE)]
       \/ /\ Cache!InsertLost(<<r, t.field>>)
          /\ todo' = [todo EXCEPT ![r] = LeftAfter(r, t, FALSE)]
    /\ UNCHANGED <<version, phase, header, wanted, reading, data, historyVars>>

Respond(r) ==
    /\ phase[r] = "update"
    /\ Updated(r)
    /\ phase' = [phase EXCEPT ![r] = "served"]
    /\ UNCHANGED <<cacheVars, version, header, wanted, reading, data, todo, historyVars>>

(* The data of the server changes.                                           *)
ServerChange ==
    /\ version < MaxVersion
    /\ version' = version + 1
    /\ UNCHANGED <<cacheVars, phase, header, wanted, reading, data, todo, historyVars>>

Tick ==
    /\ Cache!Tick
    /\ UNCHANGED <<version, phase, header, wanted, reading, data, todo, historyVars>>

Arrive(r) ==
    \E kind \in {"read", "forward"}, h \in Header \cup {NoHeader}, fs \in Selections :
        Receive(r, kind, h, fs)

(* A step of a request's task, which the runtime polls.                      *)
TaskStep(r) ==
    \/ \E f \in Field : ReadBegin(r, f) \/ ReadReturn(r, f)
    \/ Match(r)
    \/ \E t \in todo[r], d \in Durations : InsertBegin(r, t, d)
    \/ Respond(r)

(* What the task waits for: the cache or the server ends a call.             *)
CallEnds(r) ==
    \/ \E f \in Field : ReadAnswer(r, f)
    \/ \E t \in todo[r] : InsertEnd(r, t)
    \/ Ask(r) \/ AskFails(r) \/ AskRefused(r) \/ Forward(r)

Proceed(r) == TaskStep(r) \/ CallEnds(r)

Over(r) == phase[r] \in {"served", "failed", "panicked"}

Terminated == (\A r \in Request : Over(r)) /\ UNCHANGED vars

Next ==
    \/ \E r \in Request : Arrive(r) \/ Proceed(r)
    \/ ServerChange
    \/ Tick
    \/ Terminated

Spec == Init /\ [][Next]_vars

(* The runtime polls every task that can go on.  Nothing makes the cache or  *)
(* the server end a call: no call has a timeout.                             *)
FairSpec == Spec /\ \A r \in Request : WF_vars(TaskStep(r))

-----------------------------------------------------------------------------
Phases == {"idle", "read", "ask", "update", "forward", "served", "failed", "panicked"}
Storing == [field : Field, key : Key]
Calls == [phase : {"idle", "get", "answered", "insert"}, key : Key \cup {NoKey},
          now : Nat, expiry : Nat, answer : SUBSET Entry]

TypeOK ==
    /\ clock \in Nat
    /\ written \in [Key -> SUBSET Entry]
    /\ call \in [Request \X Field -> Calls]
    /\ version \in Nat
    /\ phase \in [Request -> Phases]
    /\ header \in [Request -> Header \cup {NoHeader}]
    /\ wanted \in [Request -> SUBSET Field]
    /\ reading \in [Request -> [Field -> {"public", "private", "done"}]]
    /\ data \in [Request -> [Field -> FieldValue \cup {None}]]
    /\ todo \in [Request -> SUBSET Storing]
    /\ began \in [Request -> Nat]
    /\ since \in [Request -> Nat]
    /\ \A r \in Request : todo[r] # {} => phase[r] = "update"

(* A response has a value for every field asked for and for no other, and    *)
(* each is what the server gives the sender of this request: not another     *)
(* user's, nor one for nobody.  Whatever other requests do meanwhile to the  *)
(* cache (execute_operation, 18-59, get_cached_item, 487-520).               *)
OwnAnswers ==
    \A r \in Request, f \in Field : phase[r] = "served" =>
        IF f \in wanted[r]
        THEN /\ data[r][f] # None
             /\ data[r][f].field = f
             /\ data[r][f].owner = OwnerOf(f, header[r])
        ELSE data[r][f] = None

(* What is stored under a key is what the server gives to all who read that  *)
(* key: to everybody under a public key, to one subject under one with the   *)
(* user (update_cache, 97-123).                                              *)
Readers(k, f) ==
    {h \in Header \cup {NoHeader} :
        k = PublicKey[f] \/ (UserOf(h) # Nobody /\ k = PrivateKey[UserOf(h)][f])}

EntriesOwned ==
    \A k \in Key : \A e \in written[k] : \A f \in Field : \A h \in Readers(k, f) :
        e.id.field = f /\ e.id.owner = OwnerOf(f, h)

(* How old an answer may be, when answers of the server overtake each other  *)
(* on their way into the cache: a value that is served is one the server had *)
(* after the request came, or that of an entry which was inserted for those  *)
(* who may read it and had not expired when the request came (34-58).        *)
KeysOf(h, f) ==
    {PublicKey[f]} \cup (IF UserOf(h) = Nobody THEN {} ELSE {PrivateKey[UserOf(h)][f]})

Vouched(r, f) ==
    \E k \in KeysOf(header[r], f) : \E e \in written[k] :
        e.id = data[r][f] /\ e.expiry >= began[r]

FreshAnswers ==
    \A r \in Request : phase[r] = "served" => \A f \in wanted[r] :
        \/ since[r] <= data[r][f].version /\ data[r][f].version <= version
        \/ Vouched(r, f)

(* A request comes to its end, by an answer or by the panic of a refused     *)
(* query, whatever happens to its insertions, unless one call of its own to  *)
(* the server or to the cache lasts for ever: no await of execute_operation  *)
(* waits for another request, and no step is left that nobody takes.         *)
Waits(r) ==
    \/ phase[r] \in {"ask", "forward"}
    \/ \E f \in Field : call[<<r, f>>].phase \in {"get", "insert"}

Answered ==
    \A r \in Request : <>[]Waits(r) \/ (phase[r] # "idle" ~> Over(r))
=============================================================================
