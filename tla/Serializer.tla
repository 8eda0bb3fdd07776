----------------------------- MODULE Serializer -----------------------------
(* What is sent to the GraphQL server: serialize_operation and               *)
(* serialize_document (src/src/graphql/parser.rs), and deduplicate_fields,   *)
(* which decides what a query still has to ask and declare.                  *)
(*                                                                           *)
(* The text is a sequence of pieces and a piece the sequence of characters   *)
(* of one token, or of a separator: the text is Text(pieces).                *)
(*                                                                           *)
(* Fields are those of FieldTree with their parameters as argument: a        *)
(* sequence of [name, value] (<<>> for none; two fields that are the same    *)
(* have them in the same order here).  No field has its own name as alias.   *)
(* A value is a scalar (the characters of its token), a variable, an object  *)
(* (a sequence of [name, value]) or a list.  A variable has a name, a type   *)
(* and a default value or none: an Option is a sequence of length 0 or 1.    *)
EXTENDS FieldTree

(* Mistakes the checks must notice have names that begin with Bug.           *)
BugSeparated(i, piece) == piece

Separated(i, piece) == IF i = 1 THEN piece ELSE <<(<<" ">>)>> \o piece

(* append_element: the elements with a space between two of them.            *)
Elements(parts) == FlattenSeq([i \in DOMAIN parts |-> Separated(i, parts[i])])

Enclosed(open, parts, close) == <<(<<open>>)>> \o Elements(parts) \o <<(<<close>>)>>

(* What has no elements is not written.                                      *)
Listed(open, parts, close) == IF parts = <<>> THEN <<>> ELSE Enclosed(open, parts, close)

(* serialize_parameter_value; a parameter and a field of an object alike.    *)
RECURSIVE SerializeValue(_)
SerializeParameter(p) == <<p.name, <<":">> >> \o SerializeValue(p.value)
SerializeValue(v) ==
    CASE v.kind = "scalar" -> <<v.word>>
      [] v.kind = "variable" -> <<(<<"$">>), v.name>>
      [] v.kind = "object" ->
             Enclosed("{", [i \in DOMAIN v.fields |->
                                <<v.fields[i].name, <<":">> >>
                                \o SerializeValue(v.fields[i].value)], "}")
      [] v.kind = "list" ->
             Enclosed("[", [i \in DOMAIN v.items |-> SerializeValue(v.items[i])], "]")

RECURSIVE SerializeField(_)
SerializeField(f) ==
    IF IsSpread(f) THEN <<(<<".", ".", ".">>), f.spread>>
    ELSE (IF f.alias = f.name THEN <<f.name>> ELSE <<f.alias, <<":">>, f.name>>)
         \o Listed("(", [i \in DOMAIN f.arg |-> SerializeParameter(f.arg[i])], ")")
         \o Listed("{", [i \in DOMAIN f.fields |-> SerializeField(f.fields[i])], "}")

SerializeFields(fields) ==
    Enclosed("{", [i \in DOMAIN fields |-> SerializeField(fields[i])], "}")

SerializeVariable(v) ==
    <<(<<"$">>), v.name, <<":">>, v.type>>
    \o FlattenSeq([i \in DOMAIN v.default |-> <<(<<"=">>), v.default[i]>>])

(* A query without variables is written in shorthand, unless fragments       *)
(* follow it.  The name of the operation is not written.                     *)
InternalSerialize(operation, disable_shorthand) ==
    (IF operation.type = "query" /\ operation.variables = <<>> /\ ~disable_shorthand
     THEN <<>> ELSE <<(<<operation.type>>)>>)
    \o Listed("(", [i \in DOMAIN operation.variables |->
                        SerializeVariable(operation.variables[i])], ")")
    \o SerializeFields(operation.fields)

SerializeOperation(operation) == InternalSerialize(operation, FALSE)

SerializeFragment(fragment) ==
    <<(<<"fragment">>), <<" ">>, fragment.name, <<" ">>, <<"on">>, <<" ">>, fragment.type>>
    \o SerializeFields(fragment.fields)

SerializeDocument(operation, fragments) ==
    InternalSerialize(operation, fragments # <<>>)
    \o Elements([i \in DOMAIN fragments |-> SerializeFragment(fragments[i])])

-----------------------------------------------------------------------------
BugGetVariables(fields) ==
    UNION {{f.arg[i].value.name : i \in {j \in DOMAIN f.arg : f.arg[j].value.kind = "variable"}} :
              f \in {fields[j] : j \in DOMAIN fields}}

(* get_variables: the variables that are parameters, at any depth.  (In an   *)
(* object or a list the parser accepts none.)                                *)
RECURSIVE GetVariables(_)
GetVariables(fields) ==
    UNION {LET f == fields[j] IN
           {f.arg[i].value.name : i \in {n \in DOMAIN f.arg : f.arg[n].value.kind = "variable"}}
               \cup GetVariables(f.fields) : j \in DOMAIN fields}

(* deduplicate_fields                                                        *)
Deduplicated(operation) ==
    LET merged == MergeSubfields(operation.fields) IN
    [operation EXCEPT !.fields = merged,
                      !.variables = SelectSeq(@, LAMBDA v : v.name \in GetVariables(merged))]

(* What execute_operation sends: of a query what the cache did not have, of  *)
(* other operations all, as they came.                                       *)
Sent(operation) ==
    SerializeOperation(IF operation.type = "query" THEN Deduplicated(operation) ELSE operation)

Text(pieces) == FlattenSeq(pieces)

(* What a reader should find: the pieces that are tokens.                    *)
TokensOf(pieces) == SelectSeq(pieces, LAMBDA piece : piece # <<" ">>)
=============================================================================
