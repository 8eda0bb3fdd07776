------------------------------ MODULE FieldTree ------------------------------
(* The operations on trees of fields and on JSON values that the request     *)
(* pipeline is built from: src/src/graphql/json.rs, the field operations of  *)
(* src/src/graphql/parser.rs and the pure helpers of                         *)
(* src/src/graphql/cache_handler.rs.                                         *)
(*                                                                           *)
(* A field is a record of its alias (the one the code's get_alias returns:   *)
(* the name when the query gives none), its name, its argument (NoArg for    *)
(* none; several parameters, and variables once replaced by their values,    *)
(* are one argument) and the sequence of its subfields.  A fragment spread   *)
(* also has the name of its fragment; get_alias, get_name and the other      *)
(* getters have nothing to give of it.                                       *)
(*                                                                           *)
(* A JSON value is an object (a function from names), a list, a scalar or    *)
(* null.  A name in an object is a pair: field_to_cache_key gives a name and *)
(* an argument, a response an alias and no argument.                         *)
(*                                                                           *)
(* An Option is a sequence of length 0 or 1.                                 *)
(*                                                                           *)
(* Mistakes the checks must notice have names that begin with Bug; nothing   *)
(* else uses them.                                                           *)
EXTENDS Integers, SequencesExt

NoArg == ""

Field(alias, name, arg, fields) ==
    [alias |-> alias, name |-> name, arg |-> arg, fields |-> fields]
Spread(name) ==
    [alias |-> "", name |-> "", arg |-> NoArg, fields |-> <<>>, spread |-> name]
IsSpread(f) == "spread" \in DOMAIN f

ResponseKey(f) == <<f.alias, NoArg>>

(* field_to_cache_key: the name and the arguments, never the alias.          *)
CacheKey(f) == <<f.name, f.arg>>

IsSameField(f, g) ==
    /\ ~IsSpread(f) /\ ~IsSpread(g)
    /\ f.name = g.name /\ f.arg = g.arg

Obj(map) == [kind |-> "object", map |-> map]
List(items) == [kind |-> "list", items |-> items]
Scalar(v) == [kind |-> "scalar", value |-> v]
Null == [kind |-> "null"]
IsObj(v) == v.kind = "object"

Put(map, key, v) == (key :> v) @@ map
Drop(map, key) == Restrict(map, DOMAIN map \ {key})
Lookup(map, key) == IF key \in DOMAIN map THEN <<map[key]>> ELSE <<>>

(* The scalars of a value, wherever they are.                                *)
RECURSIVE Scalars(_)
Scalars(v) ==
    CASE v.kind = "scalar" -> {v.value}
      [] v.kind = "list" -> UNION {Scalars(v.items[i]) : i \in DOMAIN v.items}
      [] v.kind = "object" -> UNION {Scalars(v.map[k]) : k \in DOMAIN v.map}
      [] OTHER -> {}

-----------------------------------------------------------------------------
(* json.rs                                                                   *)

(* merge_json(a, b): what a becomes.                                         *)
RECURSIVE Merge(_, _)
Merge(a, b) ==
    IF IsObj(a) /\ IsObj(b)
    THEN Obj([k \in DOMAIN a.map \cup DOMAIN b.map |->
                IF k \notin DOMAIN b.map THEN a.map[k]
                ELSE IF k \notin DOMAIN a.map THEN Merge(Null, b.map[k])
                ELSE Merge(a.map[k], b.map[k])])
    ELSE b

(* extract_mut: the value at a path of names, under the objects on the way   *)
(* to it, and what it leaves behind.                                         *)
RECURSIVE ExtractMut(_, _)
ExtractMut(v, path) ==
    LET k == Head(path) IN
    IF ~IsObj(v) \/ k \notin DOMAIN v.map THEN [got |-> <<>>, rest |-> v]
    ELSE IF Len(path) = 1
    THEN [got |-> <<Obj(k :> v.map[k])>>, rest |-> Obj(Drop(v.map, k))]
    ELSE LET sub == ExtractMut(v.map[k], Tail(path)) IN
         [got  |-> [i \in DOMAIN sub.got |-> Obj(k :> sub.got[i])],
          rest |-> Obj(Put(v.map, k, sub.rest))]

-----------------------------------------------------------------------------
(* parser.rs                                                                 *)

(* expand_operation and expand_fragment: each spread is replaced by the      *)
(* fields of its fragment, left to right, up to the first fault: unwrap      *)
(* panics on a fragment that is not defined, and a fragment that spreads     *)
(* itself is an error.  fragments: name -> fields; the type condition plays  *)
(* no part.  A document with no fragment at all is left as it is.            *)
Fault(kind) == [fault |-> kind, fields |-> <<>>]

RECURSIVE Expand(_, _, _), ExpandFragment(_, _, _)
Expand(fields, fragments, inside) ==
    LET Step(acc, field) ==
            LET e == ExpandFragment(field, fragments, inside) IN
            IF acc.fault # "none" THEN acc
            ELSE [fault |-> e.fault, fields |-> acc.fields \o e.fields]
    IN FoldLeft(Step, Fault("none"), fields)

ExpandFragment(field, fragments, inside) ==
    IF ~IsSpread(field)
    THEN LET e == Expand(field.fields, fragments, inside) IN
         [fault |-> e.fault, fields |-> <<[field EXCEPT !.fields = e.fields]>>]
    ELSE IF field.spread \notin DOMAIN fragments THEN Fault("panic")
    ELSE IF field.spread \in inside THEN Fault("error")
    ELSE Expand(fragments[field.spread], fragments, inside \cup {field.spread})

ExpandOperation(request) ==
    IF request.fragments = <<>> THEN [fault |-> "none", fields |-> request.fields]
    ELSE Expand(request.fields, request.fragments, {})

(* Vec::swap_remove: the last element takes the place of the removed one.    *)
SwapRemove(s, i) == Front(IF i = Len(s) THEN s ELSE [s EXCEPT ![i] = Last(s)])

(* merge_subfields: the last field absorbs those that are the same, and so   *)
(* on with the rest.  Subfields are merged only where two fields are.        *)
RECURSIVE MergeSubfields(_), Absorb(_, _, _)
Absorb(field, others, i) ==
    IF i > Len(others) THEN [field |-> field, others |-> others]
    ELSE IF IsSameField(others[i], field)
    THEN Absorb([field EXCEPT !.fields = MergeSubfields(@ \o others[i].fields)],
                SwapRemove(others, i), i)
    ELSE Absorb(field, others, i + 1)
MergeSubfields(fields) ==
    IF fields = <<>> THEN <<>>
    ELSE LET merged == Absorb(Last(fields), Front(fields), 1) IN
         <<merged.field>> \o MergeSubfields(merged.others)

(* Traversable::traverse: the field that a response path leads to and the    *)
(* fields above it, as an Option.                                            *)
WithAlias(fields, alias) == SelectSeq(fields, LAMBDA f : f.alias = alias)

RECURSIVE TraverseField(_, _)
TraverseField(field, path) ==
    IF path = <<>> THEN <<[above |-> <<>>, field |-> field]>>
    ELSE LET next == WithAlias(field.fields, path[1])
             found == IF next = <<>> THEN <<>>
                      ELSE TraverseField(next[1], Tail(path))
         IN [i \in DOMAIN found |->
                [found[i] EXCEPT !.above = <<field>> \o @]]

Traverse(fields, path) ==
    LET starts == WithAlias(fields, path[1])
        found == FlattenSeq([i \in DOMAIN starts |->
                               TraverseField(starts[i], Tail(path))])
    IN IF found = <<>> THEN <<>> ELSE <<found[1]>>

-----------------------------------------------------------------------------
(* cache_handler.rs: the keys of the cache                                   *)

(* A path of fields has one key of the cache.                                *)
PathKey(path) == [i \in DOMAIN path |-> CacheKey(path[i])]
ResponsePath(path) == [i \in DOMAIN path |-> ResponseKey(path[i])]

(* cacheable_fields_int and extract_fields_with_parameters_recursive: the    *)
(* fields with arguments at or below a field.                                *)
RECURSIVE PathsWithArgs(_, _)
PathsWithArgs(field, above) ==
    LET path == Append(above, field) IN
    (IF field.arg # NoArg THEN <<path>> ELSE <<>>)
    \o FlattenSeq([i \in DOMAIN field.fields |->
                      PathsWithArgs(field.fields[i], path)])

PathsBelow(field, path) ==
    FlattenSeq([i \in DOMAIN field.fields |-> PathsWithArgs(field.fields[i], path)])

(* cacheable_fields: what is looked up for a field at the root.              *)
CacheableFields(field) == <<(<<field>>)>> \o PathsBelow(field, <<field>>)

BugGetCacheableFields(field, above) == <<Append(above, field)>>

(* get_cacheable_fields: what a hinted field is stored as.  A field without  *)
(* arguments is stored with the one at the root.                             *)
GetCacheableFields(field, above) ==
    LET path == Append(above, field) IN
    <<IF field.arg # NoArg THEN path ELSE <<path[1]>> >> \o PathsBelow(field, path)

(* dealias_field and dealias_path_recursive: response names become keys, one *)
(* field after the other.                                                    *)
RECURSIVE DealiasField(_, _)
DealiasField(v, field) ==
    IF ~IsObj(v) \/ ResponseKey(field) \notin DOMAIN v.map THEN v
    ELSE Obj(Put(Drop(v.map, ResponseKey(field)), CacheKey(field),
                 FoldLeft(DealiasField, v.map[ResponseKey(field)], field.fields)))

RECURSIVE DealiasPath(_, _)
DealiasPath(v, path) ==
    LET field == path[1] IN
    IF Len(path) = 1 THEN DealiasField(v, field)
    ELSE IF ~IsObj(v) THEN v
    ELSE Obj(Put(Drop(v.map, ResponseKey(field)), CacheKey(field),
                 DealiasPath(v.map[ResponseKey(field)], Tail(path))))

LongestFirst(paths) ==
    LET lengths == {Len(paths[i]) : i \in DOMAIN paths} IN
    FlattenSeq([i \in 1 .. Max(lengths) |->
        SelectSeq(paths, LAMBDA p : Len(p) = Max(lengths) + 1 - i)])

(* get_cache_values: a hinted value, cut into what each key stores, the      *)
(* deepest first.                                                            *)
GetCacheValues(above, field, value) ==
    LET Cut(acc, path) ==
            LET cut == ExtractMut(acc.value, ResponsePath(path)) IN
            [value  |-> cut.rest,
             stored |-> acc.stored \o
                 [i \in DOMAIN cut.got |->
                    [key |-> PathKey(path), value |-> DealiasPath(cut.got[i], path)]]]
    IN FoldLeft(Cut, [value |-> value, stored |-> <<>>],
                LongestFirst(GetCacheableFields(field, above))).stored

-----------------------------------------------------------------------------
(* cache_handler.rs: what the cache answers                                  *)

BugLaterTwin(fields, i) == fields[i].arg = NoArg

(* The counter of subfield_map is above 1: the cached value is copied, for a *)
(* later field of the same name and no argument needs it too.                *)
LaterTwin(fields, i) ==
    /\ fields[i].arg = NoArg
    /\ \E j \in DOMAIN fields : j > i /\ fields[j].arg = NoArg
                                      /\ fields[j].name = fields[i].name

(* match_field_with_cache_recursive: the part of a field that is left to ask *)
(* and the part of its value found, each an Option.  cache_map[...] panics   *)
(* when there is nothing to copy.                                            *)
RECURSIVE MatchField(_, _)
MatchField(field, found) ==
    IF IsSpread(field)
    THEN [residual |-> <<field>>, cached |-> <<>>, panic |-> FALSE]
    ELSE IF field.fields = <<>>
    THEN IF found # <<>> /\ found[1].kind = "scalar"
         THEN [residual |-> <<>>, cached |-> found, panic |-> FALSE]
         ELSE [residual |-> <<field>>, cached |-> <<>>, panic |-> FALSE]
    ELSE
    LET Step(acc, i) ==
            LET f == field.fields[i]
                twin == LaterTwin(field.fields, i)
                m == MatchField(f, Lookup(acc.map, CacheKey(f)))
            IN [map      |-> IF twin THEN acc.map ELSE Drop(acc.map, CacheKey(f)),
                residual |-> acc.residual \o m.residual,
                cached   |-> IF m.cached = <<>> THEN acc.cached
                             ELSE Put(acc.cached, ResponseKey(f), m.cached[1]),
                panic    |-> \/ acc.panic
                             \/ m.panic
                             \/ twin /\ CacheKey(f) \notin DOMAIN acc.map]
        all == FoldLeft(Step,
                 [map |-> IF found # <<>> /\ IsObj(found[1])
                          THEN found[1].map ELSE <<>>,
                  residual |-> <<>>, cached |-> <<>>, panic |-> FALSE],
                 [i \in DOMAIN field.fields |-> i])
    IN [residual |-> IF all.residual = <<>> THEN <<>>
                     ELSE <<[field EXCEPT !.fields = all.residual]>>,
        cached   |-> IF all.cached = <<>> THEN <<>> ELSE <<Obj(all.cached)>>,
        panic    |-> all.panic]

(* match_operation_with_cache, once the entries of its keys are merged into  *)
(* one value.                                                                *)
MatchFields(fields, cached_value) ==
    LET Step(acc, f) ==
            LET m == IF CacheKey(f) \in DOMAIN cached_value.map
                     THEN MatchField(f, Lookup(cached_value.map, CacheKey(f)))
                     ELSE [residual |-> <<f>>, cached |-> <<>>, panic |-> FALSE]
            IN [residual |-> acc.residual \o m.residual,
                cached   |-> IF m.cached = <<>> THEN acc.cached
                             ELSE Put(acc.cached, ResponseKey(f), m.cached[1]),
                panic    |-> acc.panic \/ m.panic]
    IN FoldLeft(Step, [residual |-> <<>>, cached |-> <<>>, panic |-> FALSE], fields)

BugExpandFields(v, deduplicated, fields) == <<v>>

(* expand_response and expand_response_field: each field asked for gets the  *)
(* value of the field that absorbed it.  An Option: it panics when nothing   *)
(* absorbed the field (a spread: unwrap), and when the response does not     *)
(* have that field (map[...]).                                               *)
RECURSIVE ExpandFields(_, _, _)
ExpandFields(v, deduplicated, fields) ==
    IF ~IsObj(v) THEN <<v>>
    ELSE LET Step(acc, f) ==
                 LET same == SelectSeq(deduplicated, LAMBDA g : IsSameField(g, f))
                     df == same[1]
                 IN IF \/ acc = <<>> \/ same = <<>>
                       \/ ResponseKey(df) \notin DOMAIN acc[1].map
                    THEN <<>>
                    ELSE LET sub == ExpandFields(acc[1].map[ResponseKey(df)],
                                                 df.fields, f.fields)
                         IN [i \in DOMAIN sub |->
                               Obj(Put(acc[1].map, ResponseKey(f), sub[i]))]
         IN FoldLeft(Step, <<v>>, fields)
=============================================================================
