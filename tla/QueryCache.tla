----------------------------- MODULE QueryCache -----------------------------
(* execute_operation (src/src/graphql/cache_handler.rs): a request is        *)
(* answered from the cache as far as the cache goes; what is left is asked   *)
(* of the GraphQL server, whose answer is cached by its hints and put        *)
(* together with what the cache had.                                         *)
(*                                                                           *)
(* One request is executed at a time; what others do to the cache meanwhile  *)
(* is that entries go (they expire) or that an insertion is not kept.  The   *)
(* entries of a key are merged in any order, which covers every order of     *)
(* their expiry times.  The server always gives a user the same value for a  *)
(* field, so a value names the field it is of and the user it is for.        *)
EXTENDS FieldTree

CONSTANTS
    Requests,    \* the queries: [fields, fragments]
    Users,       \* the users, Anonymous among them or not
    Anonymous,   \* user_id is None
    Shared,      \* the owner of what is the same for everybody
    Private,     \* names of leaves whose value depends on the user
    Lists,       \* names of fields that are lists of objects
    Nulls,       \* names of fields whose value is null
    MaxHints,    \* bound: hints of one response
    MaxEntries   \* bound: entries of the cache

ASSUME OwnersDistinct == Shared \notin Users

VARIABLES
    cache,     \* the entries: [owner, key, value]
    phase,     \* "idle", "ask", "update", "done"
    user,      \* user_id
    fields,    \* the fields of the operation, fragments expanded if they can
    residual,  \* the fields left to ask
    found,     \* data_from_cache
    asked,     \* the residual fields, deduplicated
    data,      \* the server's answer
    todo,      \* the entries still to insert
    answer     \* the outcome: [outcome, data]

vars == <<cache, phase, user, fields, residual, found, asked, data, todo, answer>>

Nothing == [outcome |-> "none", data |-> Null]
Served(v) == [outcome |-> "served", data |-> v]
Failed == [outcome |-> "error", data |-> Null]
Panicked == [outcome |-> "panic", data |-> Null]

-----------------------------------------------------------------------------
(* The GraphQL server.  Fields with the same alias are one field of its      *)
(* answer, with the subfields of all.                                        *)
Owner(u, name) == IF name \in Private THEN u ELSE Shared

RECURSIVE ServerAnswer(_, _, _)
ServerAnswer(u, fs, above) ==
    LET ValueOf(alias) ==
            LET group == WithAlias(fs, alias)
                f == group[1]
                subfields == FlattenSeq([i \in DOMAIN group |-> group[i].fields])
                path == Append(above, CacheKey(f))
            IN IF f.name \in Nulls THEN Null
               ELSE IF subfields = <<>> THEN Scalar(<<path, Owner(u, f.name)>>)
               ELSE IF f.name \in Lists
               THEN List(<<ServerAnswer(u, subfields, path)>>)
               ELSE ServerAnswer(u, subfields, path)
        aliases == {fs[i].alias : i \in DOMAIN fs}
    IN Obj([k \in {<<a, NoArg>> : a \in aliases} |-> ValueOf(k[1])])

(* The paths the server can hint: to what has a value, not through a list.   *)
RECURSIVE HintPaths(_)
HintPaths(v) ==
    IF ~IsObj(v) THEN {}
    ELSE UNION {{<<k[1]>>} \cup {<<k[1]>> \o p : p \in HintPaths(v.map[k])} :
                  k \in {k \in DOMAIN v.map : Scalars(v.map[k]) # {}}}

(* What compress_cache_hints makes of a hint among others (all with ages of  *)
(* their own): the value at its path without those hinted below it.          *)
Key(path) == [i \in DOMAIN path |-> <<path[i], NoArg>>]
Remainder(v, path, hints) ==
    LET Without(rest, p) == ExtractMut(rest, Key(p)).rest IN
    FoldLeft(Without, ExtractMut(v, Key(path)).got[1],
             SetToSeq({p \in hints : IsStrictPrefix(path, p)}))

-----------------------------------------------------------------------------
Init ==
    /\ cache = {}
    /\ phase = "idle"
    /\ user \in Users
    /\ fields = <<>>
    /\ residual = <<>>
    /\ found = Obj(<<>>)
    /\ asked = <<>>
    /\ data = Null
    /\ todo = {}
    /\ answer = Nothing

(* match_operation_with_cache: every key that may hold a part of the answer, *)
(* public and the user's own, merged and taken apart by the fields.          *)
LookupKeys(fs) ==
    UNION {{PathKey(p) : p \in ToSet(CacheableFields(fs[i]))} : i \in DOMAIN fs}

Visible(entries, u, fs) ==
    {e \in entries : e.key \in LookupKeys(fs) /\ e.owner \in {Shared, u} \ {Anonymous}}

MergeAll(order) ==
    LET MergeEntry(v, e) == Merge(v, e.value) IN
    FoldLeft(MergeEntry, Obj(<<>>), order)

Start ==
    /\ phase \in {"idle", "done"}
    /\ \E u \in Users, request \in Requests :
        /\ user' = u
        /\ UNCHANGED <<cache, asked, data, todo>>
        /\ LET expanded == ExpandOperation(request)
               fs == expanded.fields
           IN
           IF expanded.fault # "none"
           THEN /\ phase' = "done"
                /\ fields' = request.fields
                /\ answer' = IF expanded.fault = "panic" THEN Panicked ELSE Failed
                /\ residual' = <<>>
                /\ found' = Obj(<<>>)
           ELSE /\ fields' = fs
                /\ \E order \in SetToSeqs(Visible(cache, u, fs)) :
                    LET m == MatchFields(fs, MergeAll(order)) IN
                    IF m.panic
                    THEN /\ phase' = "done" /\ answer' = Panicked
                         /\ residual' = <<>> /\ found' = Obj(<<>>)
                    ELSE IF m.residual = <<>>
                    THEN /\ phase' = "done" /\ answer' = Served(Obj(m.cached))
                         /\ residual' = <<>> /\ found' = Obj(<<>>)
                    ELSE /\ phase' = "ask" /\ answer' = Nothing
                         /\ residual' = m.residual /\ found' = Obj(m.cached)

(* update_cache's entries for one hint.  A private value of no user is not   *)
(* cached.                                                                   *)
Owned(v) == \E s \in Scalars(v) : s[2] # Shared

BugAllPublic(u, fs, path, value) ==
    LET t == Traverse(fs, path)[1] IN
    {[owner |-> Shared, key |-> c.key, value |-> c.value] :
        c \in ToSet(GetCacheValues(t.above, t.field, value))}

BugOfNobody(u, fs, path, value) ==
    LET t == Traverse(fs, path)[1] IN
    {[owner |-> IF Owned(value) THEN u ELSE Shared, key |-> c.key, value |-> c.value] :
        c \in ToSet(GetCacheValues(t.above, t.field, value))}

Entries(u, fs, path, value) ==
    LET t == Traverse(fs, path)[1] IN
    IF Owned(value) /\ u = Anonymous THEN {}
    ELSE {[owner |-> IF Owned(value) THEN u ELSE Shared,
           key |-> c.key, value |-> c.value] :
              c \in ToSet(GetCacheValues(t.above, t.field, value))}

(* get_fn: the deduplicated residual operation goes to the server, and the   *)
(* hints of its answer say what to cache.  A hint is private when the value  *)
(* it covers depends on the user.  The server has no data for an operation   *)
(* with a spread that was left in it: the fragment is not sent.              *)
RECURSIVE HasSpread(_)
HasSpread(fs) ==
    \E i \in DOMAIN fs : IsSpread(fs[i]) \/ HasSpread(fs[i].fields)

Ask ==
    /\ phase = "ask"
    /\ ~HasSpread(residual)
    /\ phase' = "update"
    /\ asked' = MergeSubfields(residual)
    /\ data' = ServerAnswer(user, asked', <<>>)
    /\ \E hints \in SUBSET HintPaths(data') :
        /\ Cardinality(hints) <= MaxHints
        /\ todo' = UNION {Entries(user, asked', p, Remainder(data', p, hints)) :
                            p \in {p \in hints :
                                Scalars(Remainder(data', p, hints)) # {}}}
    /\ UNCHANGED <<cache, user, fields, residual, found, answer>>

(* The server cannot be reached, does not answer with JSON, or answers with  *)
(* JSON that is not a response (it has no "data").                           *)
AskFails ==
    /\ phase = "ask"
    /\ phase' = "done"
    /\ answer' = Failed
    /\ residual' = <<>>
    /\ found' = Obj(<<>>)
    /\ UNCHANGED <<cache, user, fields, asked, data, todo>>

(* The server answers that it has errors and that its data is null.          *)
AskRefused ==
    /\ phase = "ask"
    /\ phase' = "update"
    /\ asked' = MergeSubfields(residual)
    /\ data' = Null
    /\ UNCHANGED <<cache, user, fields, residual, found, todo, answer>>

(* update_cache: an insertion that fails is passed over.                     *)
Insert ==
    /\ phase = "update"
    /\ \E e \in todo :
        /\ todo' = todo \ {e}
        /\ \/ Cardinality(cache \cup {e}) <= MaxEntries /\ cache' = cache \cup {e}
           \/ UNCHANGED cache
    /\ UNCHANGED <<phase, user, fields, residual, found, asked, data, answer>>

(* What the cache had is merged into the answer, and the fields that were    *)
(* deduplicated are put back.                                                *)
Respond ==
    /\ phase = "update"
    /\ todo = {}
    /\ phase' = "done"
    /\ LET response == ExpandFields(Merge(data, found), asked, residual) IN
       answer' = IF response = <<>> THEN Panicked ELSE Served(response[1])
    /\ residual' = <<>>
    /\ found' = Obj(<<>>)
    /\ asked' = <<>>
    /\ data' = Null
    /\ UNCHANGED <<cache, user, fields, todo>>

(* An entry expires.                                                         *)
Expire ==
    /\ \E e \in cache : cache' = cache \ {e}
    /\ UNCHANGED <<phase, user, fields, residual, found, asked, data, todo, answer>>

Next == Start \/ Ask \/ AskFails \/ AskRefused \/ Insert \/ Respond \/ Expire

Spec == Init /\ [][Next]_vars

-----------------------------------------------------------------------------
TypeOK ==
    /\ phase \in {"idle", "ask", "update", "done"}
    /\ user \in Users
    /\ \A e \in cache \cup todo : 
            e.owner \in {Shared} \cup (Users \ {Anonymous}) /\ IsObj(e.value)
    /\ Cardinality(cache) <= MaxEntries
    /\ answer.outcome \in {"none", "served", "error", "panic"}

(* A client cannot tell the cache from the server: an answer put together    *)
(* from entries of several past requests, some of them gone by now, and from *)
(* a partial query has exactly the fields asked for, each with the value the *)
(* server has for this user.  (execute_operation, 18-59, when a field asked  *)
(* for twice in a selection is asked for with the same subfields.)           *)
Transparent ==
    answer.outcome = "served" => answer.data = ServerAnswer(user, fields, <<>>)

(* Every part of an entry is stored under the key path that leads to it: a   *)
(* later request that finds it there, under whatever alias, finds its own    *)
(* field, and nobody finds what is another user's.  (dealias_field, 210-231, *)
(* get_cache_values, 137-170, and to_private_cache_key, 119-123.)            *)
RECURSIVE AtKeyPath(_, _, _)
AtKeyPath(v, path, owner) ==
    CASE v.kind = "scalar" -> v.value[1] = path /\ v.value[2] \in {Shared, owner}
      [] v.kind = "object" ->
            \A k \in DOMAIN v.map : AtKeyPath(v.map[k], Append(path, k), owner)
      [] OTHER -> TRUE

EntriesTrue == \A e \in cache : AtKeyPath(e.value, <<>>, e.owner)

(* Where an answer leaves nothing out, it is found again: if the entries     *)
(* about to be inserted hold every scalar of the server's answer, then the   *)
(* same request, made with them in the cache, asks the server for nothing.   *)
(* The keys that get_cacheable_fields stores under (522-553) and those that  *)
(* cacheable_fields looks up (249-276) are computed apart.                   *)
RECURSIVE OnlyScalars(_)
OnlyScalars(v) ==
    CASE v.kind = "object" -> \A k \in DOMAIN v.map : OnlyScalars(v.map[k])
      [] OTHER -> v.kind = "scalar"

Repeatable(fs, entries, u) ==
    LET m == MatchFields(fs, MergeAll(SetToSeq(Visible(entries, u, fs)))) IN
    ~m.panic /\ m.residual = <<>>

RepeatAsksNothing ==
    [][ phase = "ask" /\ phase' = "update" /\ OnlyScalars(data')
        /\ Scalars(data') \subseteq UNION {Scalars(e.value) : e \in todo'}
        /\ Scalars(data') = Scalars(ServerAnswer(user, fields, <<>>))
        => Repeatable(fields, todo', user) ]_vars

(* A request brings its task down only                                       *)
(*   - by a spread of a fragment that is not defined (parser.rs:271),        *)
(*   - when the server has no data for it (78 and 99),                       *)
(*   - when a selection, anywhere below a field the cache knows, asks twice  *)
(*     for a field without arguments that the entries do not have there: the *)
(*     first copies it from a map without it (408),                          *)
(* whatever entries are left of past requests and in any order of merging.   *)
RECURSIVE Spreads(_)
Spreads(fs) == UNION {IF IsSpread(fs[i]) THEN {fs[i].spread} ELSE Spreads(fs[i].fields) :
                        i \in DOMAIN fs}

UndefinedSpreads(request) ==
    (Spreads(request.fields)
        \cup UNION {Spreads(request.fragments[name]) : name \in DOMAIN request.fragments})
    \ DOMAIN request.fragments

RECURSIVE TwinPaths(_)
TwinPaths(field) ==
    LET fs == field.fields
        twins == {i \in DOMAIN fs : \E j \in DOMAIN fs \ {i} :
                                      /\ fs[i].name = fs[j].name
                                      /\ fs[i].arg = NoArg /\ fs[j].arg = NoArg}
        below == {<<CacheKey(fs[i])>> : i \in twins}
                    \cup UNION {TwinPaths(fs[i]) : i \in DOMAIN fs}
    IN {<<CacheKey(field)>> \o path : path \in below}

RECURSIVE HasPath(_, _)
HasPath(v, path) ==
    path = <<>> \/ /\ IsObj(v)
                   /\ path[1] \in DOMAIN v.map
                   /\ HasPath(v.map[path[1]], Tail(path))

CopiesMissing(entries, fs) ==
    \E i \in DOMAIN fs :
        /\ \E e \in entries : CacheKey(fs[i]) \in DOMAIN e.value.map
        /\ \E path \in TwinPaths(fs[i]) : \A e \in entries : ~HasPath(e.value, path)

PanicsExplained ==
    [][ answer'.outcome = "panic" /\ answer' # answer
        => \/ \E request \in Requests :
                fields' = request.fields /\ UndefinedSpreads(request) # {}
           \/ phase = "update" /\ data = Null
           \/ phase # "update" /\ CopiesMissing(Visible(cache, user', fields'), fields')
      ]_vars

(* A response has every field that was asked for, also when several          *)
(* selections ask for parts of one field.                                    *)
RECURSIVE Covers(_, _)
Covers(v, w) ==
    CASE w.kind = "object" -> /\ IsObj(v)
                              /\ \A k \in DOMAIN w.map :
                                    k \in DOMAIN v.map /\ Covers(v.map[k], w.map[k])
      [] w.kind = "list" -> /\ v.kind = "list" /\ Len(v.items) = Len(w.items)
                            /\ \A i \in DOMAIN w.items : Covers(v.items[i], w.items[i])
      [] OTHER -> v = w

Complete ==
    answer.outcome = "served" => Covers(answer.data, ServerAnswer(user, fields, <<>>))
=============================================================================
