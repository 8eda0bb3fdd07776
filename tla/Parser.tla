------------------------------- MODULE Parser -------------------------------
(* parse_query (src/src/graphql/parser.rs): the recursive-descent parser, a  *)
(* token at a time, with the stack of open brackets (ParserState.hierarchy)  *)
(* that all its levels push to and pop from.                                 *)
(*                                                                           *)
(* A token is a punctuator or the representative of a class: "query" an      *)
(* operation keyword, "name" any other name, "number" a value that is not a  *)
(* name (a string too), "type!" a non-null type.  The trees that the         *)
(* functions build are left out: only what is accepted matters here, and the *)
(* input may be of any length.                                               *)
EXTENDS Integers, SequencesExt

CONSTANT MaxDepth  \* bound on the levels of the descent

VARIABLES
    item,        \* where parse_query, parse_operation or
                 \* parse_fragment_definition is
    frames,      \* the calls of the other functions below it: [fn, pc]
    hierarchy,   \* ParserState.hierarchy
    shorthand,   \* query_shorthand
    operations,  \* operations.len(), up to 2
    outcome,     \* "running", "accepted" or "error"
    opened,      \* history: the brackets open, by what each was read as
    balanced,    \* history: each of them has been closed by its like
    misnamed     \* history: a punctuator has been read as a name

vars == <<item, frames, hierarchy, shorthand, operations, outcome,
          opened, balanced, misnamed>>
history == <<opened, balanced, misnamed>>

Opening == {"{", "(", "["}
Closing == {"}", ")", "]"}
Name == {"query", "fragment", "on", "name"}     \* is_valid_name
Value == Name \cup {"number"}                   \* is_valid_value
Type == Name \cup {"type!"}                     \* is_valid_variable_type
Token == Opening \cup Closing \cup Value \cup Type \cup {":", "$", "=", "..."}

Pair == {<<"{", "}">>, <<"(", ")">>, <<"[", "]">>}

BugMatching(close, open) == open \in Opening   \* any bracket closes any

(* is_matching_close_parenteses                                              *)
Matching(close, open) == <<open, close>> \in Pair

BugBracket(fn) == IF fn = "list" THEN "]" ELSE "{"

(* What the caller of fn pushes.                                             *)
Bracket(fn) ==
    CASE fn \in {"fields", "object"} -> "{"
      [] fn \in {"variables", "parameters"} -> "("
      [] fn = "list" -> "["

(* An object in a list of objects without a push of its own.                 *)
BugPushed(stack, fn) ==
    IF fn = "object" /\ stack # <<>> /\ Last(stack) = "[" THEN stack
    ELSE Append(stack, Bracket(fn))

Pushed(stack, fn) == Append(stack, Bracket(fn))

At(fn, pc) ==
    /\ outcome = "running"
    /\ frames # <<>>
    /\ Last(frames) = [fn |-> fn, pc |-> pc]

AtItem(where) == outcome = "running" /\ frames = <<>> /\ item = where

-----------------------------------------------------------------------------
Init ==
    /\ item = "document"
    /\ frames = <<>>
    /\ hierarchy = <<>>
    /\ shorthand = TRUE
    /\ operations = 0
    /\ outcome = "running"
    /\ opened = <<>>
    /\ balanced = TRUE
    /\ misnamed = FALSE

(* An Err is passed up by every level.                                       *)
Fail ==
    /\ outcome' = "error"
    /\ UNCHANGED <<item, frames, hierarchy, shorthand, operations, history>>

Move(pc) ==
    /\ frames' = [frames EXCEPT ![Len(frames)].pc = pc]
    /\ UNCHANGED <<item, hierarchy, shorthand, operations, outcome, history>>

MoveItem(where) ==
    /\ item' = where
    /\ UNCHANGED <<frames, hierarchy, shorthand, operations, outcome, history>>

Called(callers, fn, pc) == Append(callers, [fn |-> fn, pc |-> pc])

(* Push the bracket and call; afterwards the caller goes on at its pc.       *)
Call(back, fn, pc) ==
    /\ Len(frames) < MaxDepth
    /\ frames' = Called([frames EXCEPT ![Len(frames)].pc = back], fn, pc)
    /\ hierarchy' = Pushed(hierarchy, fn)
    /\ opened' = Append(opened, Bracket(fn))
    /\ UNCHANGED <<item, shorthand, operations, outcome, balanced, misnamed>>

CallFromItem(where, fn, pc) ==
    /\ item' = where
    /\ frames' = Called(<<>>, fn, pc)
    /\ hierarchy' = Pushed(hierarchy, fn)
    /\ opened' = Append(opened, Bracket(fn))
    /\ UNCHANGED <<shorthand, operations, outcome, balanced, misnamed>>

(* The bracket t closes a level, if it matches the last one of the stack.    *)
Closes(t) == hierarchy # <<>> /\ Matching(t, Last(hierarchy))

(* What parse_query does with a finished operation or fragment.              *)
AfterItem ==
    LET n == IF item = "operation" /\ operations < 2 THEN operations + 1 ELSE operations
    IN  /\ operations' = n
        /\ item' = IF item \in {"operation", "fragment"} THEN "document" ELSE item
        /\ outcome' = IF item # "body" /\ shorthand /\ n > 1 THEN "error" ELSE outcome

Return(t) ==
    /\ frames' = Front(frames)
    /\ hierarchy' = Front(hierarchy)
    /\ opened' = Front(opened)
    /\ balanced' = (balanced /\ <<Last(opened), t>> \in Pair)
    /\ IF Len(frames) = 1 THEN AfterItem ELSE UNCHANGED <<operations, item, outcome>>
    /\ UNCHANGED <<shorthand, misnamed>>

-----------------------------------------------------------------------------
(* parse_query                                                               *)
Document(t) ==
    /\ AtItem("document")
    /\ \/ /\ t = "query"
          /\ shorthand' = FALSE
          /\ item' = "keyword"
          /\ UNCHANGED <<frames, hierarchy, operations, outcome, history>>
       \/ t = "fragment" /\ MoveItem("fragment name")
       \/ t = "{" /\ shorthand /\ CallFromItem("operation", "fields", "start")
       \/ t \notin {"query", "fragment", "{"} /\ Fail
       \/ t = "{" /\ ~shorthand /\ Fail

EndOfString ==
    /\ outcome = "running"
    /\ outcome' = IF item = "document" /\ frames = <<>> /\ operations > 0
                  THEN "accepted" ELSE "error"
    /\ UNCHANGED <<item, frames, hierarchy, shorthand, operations, history>>

(* parse_operation, from the token after the keyword                         *)
Operation(t) ==
    \/ /\ AtItem("keyword")
       /\ \/ t = "{" /\ CallFromItem("operation", "fields", "start")
          \/ t \in Name /\ MoveItem("operation name")
          \/ t = "(" /\ CallFromItem("body", "variables", "next")
          \/ t \notin {"{", "("} \cup Name /\ Fail
    \/ /\ AtItem("operation name")
       /\ \/ t = "(" /\ CallFromItem("body", "variables", "next")
          \/ t = "{" /\ CallFromItem("operation", "fields", "start")
          \/ t \notin {"{", "("} /\ Fail
    \/ /\ AtItem("body")
       /\ \/ t = "{" /\ CallFromItem("operation", "fields", "start")
          \/ t # "{" /\ Fail

(* parse_fragment_definition                                                 *)
FragmentDefinition(t) ==
    \/ /\ AtItem("fragment name")
       /\ \/ t \in Name /\ MoveItem("on")
          \/ t \notin Name /\ Fail
    \/ /\ AtItem("on")
       /\ \/ t = "on" /\ MoveItem("type")
          \/ t # "on" /\ Fail
    \/ /\ AtItem("type")
       /\ \/ t \in Name /\ MoveItem("fragment body")
          \/ t \notin Name /\ Fail
    \/ /\ AtItem("fragment body")
       /\ \/ t = "{" /\ CallFromItem("fragment", "fields", "start")
          \/ t # "{" /\ Fail

(* parse_variables                                                           *)
NextVariable(t) ==
    \/ t = ")" /\ Closes(t) /\ Return(t)
    \/ t = "$" /\ Move("name")
    \/ t # "$" /\ ~(t = ")" /\ Closes(t)) /\ Fail

Variables(t) ==
    \/ At("variables", "next") /\ NextVariable(t)
    \/ /\ At("variables", "name")
       /\ \/ t \in Name /\ Move("colon")
          \/ t \notin Name /\ Fail
    \/ /\ At("variables", "colon")
       /\ \/ t = ":" /\ Move("type")
          \/ t # ":" /\ Fail
    \/ /\ At("variables", "type")
       /\ \/ t \in Type /\ Move("typed")
          \/ t \notin Type /\ Fail
    \/ /\ At("variables", "typed")
       /\ \/ t = "=" /\ Move("default")
          \/ t # "=" /\ NextVariable(t)
    \/ /\ At("variables", "default")
       /\ \/ t \in Value /\ Move("next")
          \/ t \notin Value /\ Fail

(* parse_fields: "start" before a field, "name" after the name or alias of   *)
(* one, "named" after the name that follows an alias, "args" after its       *)
(* parameters, "done" after its subfields or a spread.                       *)
FieldStart(t) ==
    \/ t = "..." /\ Move("spread")
    \/ t \in Name /\ Move("name")
    \/ t \notin Name \cup {"..."} /\ Fail

FieldEnd(t) ==
    \/ t = "}" /\ Closes(t) /\ Return(t)
    \/ t = "}" /\ ~Closes(t) /\ Fail
    \/ t # "}" /\ FieldStart(t)

Subfields(t) ==
    \/ t = "{" /\ Call("done", "fields", "start")
    \/ t # "{" /\ FieldEnd(t)

Parameterized(t) ==
    \/ t = "(" /\ Call("args", "parameters", "first")
    \/ t # "(" /\ Subfields(t)

Fields(t) ==
    \/ At("fields", "start") /\ FieldStart(t)
    \/ /\ At("fields", "spread")
       /\ \/ t \in Name /\ Move("done")
          \/ t \notin Name /\ Fail
    \/ /\ At("fields", "name")
       /\ \/ t = ":" /\ Move("alias")
          \/ t # ":" /\ Parameterized(t)
    \/ /\ At("fields", "alias")
       /\ \/ t \in Name /\ Move("named")
          \/ t \notin Name /\ Fail
    \/ At("fields", "named") /\ Parameterized(t)
    \/ At("fields", "args") /\ Subfields(t)
    \/ At("fields", "done") /\ FieldEnd(t)

(* parse_parameters                                                          *)
Parameters(t) ==
    \/ /\ At("parameters", "first")
       /\ \/ t \in Name /\ Move("colon")
          \/ t \notin Name /\ Fail
    \/ /\ At("parameters", "next")
       /\ \/ t = ")" /\ Closes(t) /\ Return(t)
          \/ t \in Name /\ Move("colon")
          \/ t \notin Name /\ ~(t = ")" /\ Closes(t)) /\ Fail
    \/ /\ At("parameters", "colon")
       /\ \/ t = ":" /\ Move("value")
          \/ t # ":" /\ Fail
    \/ /\ At("parameters", "value")
       /\ \/ t = "{" /\ Call("next", "object", "next")
          \/ t = "[" /\ Call("next", "list", "next")
          \/ t = "$" /\ Move("variable")
          \/ t \in Value /\ Move("next")
          \/ t \notin Value \cup {"{", "[", "$"} /\ Fail
    \/ /\ At("parameters", "variable")
       /\ \/ t \in Name /\ Move("next")
          \/ t \notin Name /\ Fail

(* parse_object: any token but "}" and ")" is the name of a field, and "]"   *)
(* pops the stack before it is one.                                          *)
ObjectName(t) ==
    /\ frames' = [frames EXCEPT ![Len(frames)].pc = "colon"]
    /\ hierarchy' = IF t = "]" /\ hierarchy # <<>> THEN Front(hierarchy) ELSE hierarchy
    /\ misnamed' = (misnamed \/ t \notin Value \cup Type)
    /\ UNCHANGED <<item, shorthand, operations, outcome, opened, balanced>>

Object(t) ==
    \/ /\ At("object", "next")
       /\ \/ t \in Closing /\ Closes(t) /\ Return(t)
          \/ t \in {"}", ")"} /\ ~Closes(t) /\ Fail
          \/ t = "]" /\ ~Closes(t) /\ ObjectName(t)
          \/ t \notin Closing /\ ObjectName(t)
    \/ /\ At("object", "colon")
       /\ \/ t = ":" /\ Move("value")
          \/ t # ":" /\ Fail
    \/ /\ At("object", "value")
       /\ \/ t = "{" /\ Call("next", "object", "next")
          \/ t = "[" /\ Call("next", "list", "next")
          \/ t \in Value /\ Move("next")
          \/ t \notin Value \cup {"{", "["} /\ Fail

(* parse_list                                                                *)
ListItems(t) ==
    /\ At("list", "next")
    /\ \/ t = "{" /\ Call("next", "object", "next")
       \/ t = "]" /\ Closes(t) /\ Return(t)
       \/ t \in Value /\ Move("next")
       \/ t \notin Value \cup {"{"} /\ ~(t = "]" /\ Closes(t)) /\ Fail

Parse(t) ==
    \/ Document(t)
    \/ Operation(t)
    \/ FragmentDefinition(t)
    \/ Variables(t)
    \/ Fields(t)
    \/ Parameters(t)
    \/ Object(t)
    \/ ListItems(t)

Terminated == outcome # "running" /\ UNCHANGED vars

Next == (\E t \in Token : Parse(t)) \/ EndOfString \/ Terminated

Spec == Init /\ [][Next]_vars

-----------------------------------------------------------------------------
Item == {"document", "keyword", "operation name", "body", "operation",
         "fragment name", "on", "type", "fragment body", "fragment"}
Function == {"fields", "variables", "parameters", "object", "list"}
Pc == {"start", "spread", "name", "alias", "named", "args", "done", "next",
       "colon", "type", "typed", "default", "first", "value", "variable"}

(* Types: in particular only opening brackets are ever pushed.               *)
TypeOK ==
    /\ item \in Item
    /\ frames \in Seq([fn : Function, pc : Pc])
    /\ hierarchy \in Seq(Opening)
    /\ shorthand \in BOOLEAN
    /\ operations \in 0 .. 2
    /\ outcome \in {"running", "accepted", "error"}
    /\ opened \in Seq(Opening)
    /\ balanced \in BOOLEAN /\ misnamed \in BOOLEAN

(* Whatever the levels pop from the stack they share, a document that is     *)
(* accepted has every bracket closed by its like, and leaves the stack       *)
(* empty.  (A bracket that an object reads as the name of a field opens      *)
(* nothing; "]" also pops: parse_object, 635-654.)                           *)
AcceptedIsBalanced == outcome = "accepted" => balanced /\ opened = <<>> /\ hierarchy = <<>>

(* As long as no object has read a punctuator as a name, the stack is that   *)
(* of the calls in progress, so that a level is only closed by its own       *)
(* bracket.  An object may read another one first (635-654): ")" is then an  *)
(* error, and "]" takes the object's level off the stack and is its name.    *)
StackIsDescent ==
    outcome = "running" /\ ~misnamed =>
        hierarchy = [i \in DOMAIN frames |-> Bracket(frames[i].fn)]
=============================================================================
