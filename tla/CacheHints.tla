----------------------------- MODULE CacheHints -----------------------------
(* GraphQLResponse::compress_cache_hints                                     *)
(* (src/src/graphql_deserializer/mod.rs): from the data of a response and    *)
(* its cache hints, the values to cache, each with one scope and one age.    *)
(* Hints are visited in path order with a stack of the enclosing hints; a    *)
(* hint takes its value out of the one that encloses it, or is merged into   *)
(* an enclosing one with the same directive.                                 *)
(*                                                                           *)
(* A JSON value is the set of the paths of its leaves: the leaves of one     *)
(* response never change, so a path stands for what is found there.  Then    *)
(* json.rs's merge_json is set union, remove_field set difference, and       *)
(* extract a restriction.  A path is a sequence of numbers, one per field    *)
(* name, in the order of the names.  What is cached is a set: every item has *)
(* the path of a hint of its own.                                            *)
EXTENDS Integers, SequencesExt

CONSTANTS
    Data,       \* the response: the set of its leaf paths
    HintPaths,  \* the paths a hint may have, found in the data or not
    Ages,       \* the max_age values a hint may carry
    Scopes,     \* the scope values a hint may carry
    None        \* a hint without max_age or scope

ASSUME PathsAreNames == HintPaths \subseteq Seq(Nat) /\ Data \subseteq Seq(Nat)

VARIABLES
    given,      \* the hints of the response: path -> [age, scope]
    hints,      \* the paths still to visit
    stack,      \* the enclosing hints of the last one visited, outermost first
    compressed, \* the result so far, a set of stack items
    done

vars == <<given, hints, stack, compressed, done>>

Directive == [age : Ages \cup {None}, scope : Scopes \cup {None}]

(* order_hints_paths: an ancestor first, then by the first name that differs. *)
Before(p, q) ==
    \/ IsStrictPrefix(p, q)
    \/ \E i \in DOMAIN p \cap DOMAIN q :
          p[i] < q[i] /\ \A j \in 1 .. i - 1 : p[j] = q[j]

IsFirst(path, paths) == path \in paths /\ \A q \in paths \ {path} : Before(path, q)

(* Mistakes the checks must notice have names that begin with Bug; the       *)
(* specification uses none of them.                                          *)
BugUnder(value, path) == {leaf \in value : IsPrefix(Front(path), leaf)}

Under(value, path) == {leaf \in value : IsPrefix(path, leaf)}

BugWithout(value, path) == value

(* remove_field leaves a value alone when the path is empty.                 *)
Without(value, path) == IF path = <<>> THEN value ELSE value \ Under(value, path)

BugOr(option, default) == option
Or(option, default) == IF option = None THEN default ELSE option

Init ==
    /\ \E S \in SUBSET HintPaths : given \in [S -> Directive]
    /\ hints = DOMAIN given
    /\ stack = <<>>
    /\ compressed = {}
    /\ done = FALSE

Innermost(indices) == Max(indices \cup {0})

(* get_hints_from_stack: the innermost item that encloses the path.  All     *)
(* items above it have been left; the markers among them are dropped.        *)
Enclosing(path) == Innermost({i \in DOMAIN stack : IsPrefix(stack[i].path, path)})

IsValue(item) == ~item.marker

BugLeft(path) == {}
Left(path) ==
    {item \in {stack[i] : i \in Enclosing(path) + 1 .. Len(stack)} : IsValue(item)}

BugKept(path) == stack

(* The rest of the stack: an enclosing marker is popped for good, an         *)
(* enclosing value loses the field of the new hint.                          *)
Kept(path) ==
    LET i == Enclosing(path)
    IN  IF i = 0 THEN <<>>
        ELSE IF stack[i].marker THEN SubSeq(stack, 1, i - 1)
        ELSE SubSeq(stack, 1, i - 1)
                 \o <<[stack[i] EXCEPT !.value = Without(@, path)]>>

(* add_to_stack: merge into the innermost item with the same directive and   *)
(* leave a marker, or push.                                                  *)
Added(items, new) ==
    LET i == Innermost({j \in DOMAIN items : items[j].age = new.age /\ items[j].scope = new.scope})
    IN  IF i = 0 THEN Append(items, new)
        ELSE Append([items EXCEPT ![i].value = @ \cup new.value, ![i].marker = FALSE],
                    [new EXCEPT !.value = {}, !.marker = TRUE])

(* One round of the loop.  A hint whose path is not in the data still moves  *)
(* the stack, and its field is taken out of the value that encloses it.      *)
ProcessHint(path) ==
    LET hint == given[path]
        i == Enclosing(path)
        value == Under(Data, path)
    IN  /\ IsFirst(path, hints)
        /\ hints' = hints \ {path}
        /\ compressed' = compressed \cup Left(path)
        /\ stack' = IF value = {} THEN Kept(path)
                    ELSE Added(Kept(path),
                          [path |-> path, value |-> value, marker |-> FALSE,
                           age |-> Or(hint.age, IF i = 0 THEN 0 ELSE stack[i].age),
                           scope |-> Or(hint.scope, IF i = 0 THEN "PUBLIC" ELSE stack[i].scope)])
        /\ UNCHANGED <<given, done>>

(* After the loop what is left on the stack follows, unless it is empty.     *)
HasValue(item) == item.marker \/ item.value # {}

Finish ==
    /\ hints = {}
    /\ ~done
    /\ compressed' = compressed \cup {item \in ToSet(stack) : HasValue(item)}
    /\ stack' = <<>>
    /\ done' = TRUE
    /\ UNCHANGED <<given, hints>>

Terminated == done /\ UNCHANGED vars

Next == (\E path \in HintPaths : ProcessHint(path)) \/ Finish \/ Terminated

Spec == Init /\ [][Next]_vars

-----------------------------------------------------------------------------
(* What the hints mean, independently of the algorithm.  A directive that a  *)
(* hint leaves out is the one of the nearest enclosing hint, and PUBLIC with *)
(* age 0 at the root.                                                        *)
Hinted(path) == {p \in DOMAIN given : IsPrefix(p, path)}

Nearest(paths) == CHOOSE p \in paths : \A q \in paths : IsPrefix(q, p)

AgeOf(path) ==
    LET stated == {p \in Hinted(path) : given[p].age # None}
    IN  IF stated = {} THEN 0 ELSE given[Nearest(stated)].age

ScopeOf(path) ==
    LET stated == {p \in Hinted(path) : given[p].scope # None}
    IN  IF stated = {} THEN "PUBLIC" ELSE given[Nearest(stated)].scope

SameDirective(p, q) == AgeOf(p) = AgeOf(q) /\ ScopeOf(p) = ScopeOf(q)

(* Some hint is merged into an enclosing one with the same directive, and    *)
(* there is a hint below it: its marker goes, and with it what it stood for. *)
SplitBelowMerge ==
    \E p, q, r \in DOMAIN given :
        /\ IsStrictPrefix(p, q) /\ IsStrictPrefix(q, r)
        /\ SameDirective(p, q)

Cached(leaf) == {item \in compressed : leaf \in item.value}

Item == [path : HintPaths, value : SUBSET Data, marker : BOOLEAN,
         age : Ages \cup {0}, scope : Scopes \cup {"PUBLIC"}]

TypeOK ==
    /\ DOMAIN given \subseteq HintPaths /\ \A p \in DOMAIN given : given[p] \in Directive
    /\ hints \subseteq DOMAIN given
    /\ stack \in Seq(Item) /\ compressed \subseteq Item
    /\ done \in BOOLEAN

(* Each stacked hint encloses the next one, and only the innermost can be a  *)
(* marker: add_to_stack never merges a value into a marker.                  *)
StackIsChain ==
    \A i, j \in DOMAIN stack : i < j =>
        IsStrictPrefix(stack[i].path, stack[j].path) /\ ~stack[i].marker

(* Taking values apart and merging them loses nothing: every leaf below a    *)
(* hint ends up in a cached value.                                           *)
Complete ==
    done => \A leaf \in Data : Hinted(leaf) # {} => Cached(leaf) # {}

(* No leaf is cached for longer, or more publicly, than its nearest hint     *)
(* says: fields with different directives are cached separately              *)
(* (src/README:13-15).                                                       *)
Granular ==
    \A leaf \in Data : \A item \in Cached(leaf) :
        item.age = AgeOf(leaf) /\ item.scope = ScopeOf(leaf)

(* The same, of the responses in which no hint lies below a merged one.      *)
GranularUnlessSplit == SplitBelowMerge \/ Granular

(* A leaf below no hint is not cached at all.                                *)
OnlyHintedCached == \A leaf \in Data : Cached(leaf) # {} => Hinted(leaf) # {}
=============================================================================
