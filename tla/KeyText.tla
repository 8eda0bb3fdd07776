------------------------------ MODULE KeyText -------------------------------
(* The text of a cache key (src/src/graphql/cache_handler.rs, 133-135 and    *)
(* 449-491): the names and arguments of the fields on a path, written one    *)
(* after the other, the user before them.  Nothing marks where the name of   *)
(* an argument or the user ends, so whether two keys differ is a question    *)
(* about characters.                                                         *)
(*                                                                           *)
(* Two keys are written, a piece at a time as the code appends them: that    *)
(* under which a value is stored and that under which one is looked up.      *)
EXTENDS Integers, SequencesExt

CONSTANTS
    Letters, Digits,  \* characters of names
    Points,           \* the other characters of numbers
    Brackets,         \* [ and {
    Others,           \* any other character but a quote and the marks
    FieldNames,
    ArgumentNames,
    Values,           \* the values of arguments: [kind, text]
    Users,            \* user_id
    NoUser,           \* user_id is None, or the hint is public
    MaxPieces         \* bound, per side, on the length of a path

VARIABLES
    path,  \* per side, the fields and arguments written so far
    user,  \* per side, the user the key is for
    key    \* per side, the text so far

vars == <<path, user, key>>

Side == {"stored", "read"}

Quote == "\""
Marks == {"_", "+"}
Alphanumeric == Letters \cup Digits
Char == Alphanumeric \cup Points \cup Brackets \cup Others \cup {Quote} \cup Marks
Text == Seq(Char)

Nil == <<"N", "I", "L">>

(* is_valid_name (src/src/graphql/parser.rs).                                *)
IsName(t) ==
    /\ t # <<>> /\ t[1] \in Letters
    /\ \A i \in DOMAIN t : t[i] \in Alphanumeric \cup {"_"}

(* The values a request can give an argument, as text: a number, a boolean   *)
(* or an enum; a string without its quotes; what {:?} writes of a list or an *)
(* object.  A string's text is the one that is written: of a literal the     *)
(* source (with its escapes), of a variable the string itself.  Two values   *)
(* that are written alike are one value here.                                *)
Value == [kind : {"null", "plain", "string", "list", "object"}, text : Text]
IsValue(v) ==
    /\ v \in Value
    /\ v.kind = "null" => v.text = <<>>
    /\ v.kind = "plain" => \A i \in DOMAIN v.text : v.text[i] \in Alphanumeric \cup Points
    /\ v.kind \in {"list", "object"} => v.text # <<>> /\ v.text[1] \in Brackets

ASSUME CharactersDiffer ==
    /\ {"N", "I", "L", "S", "T", "O", "B", "J"} \subseteq Letters
    /\ Char \subseteq STRING
    /\ Letters \cap (Digits \cup Points \cup Brackets \cup Others) = {}
    /\ Alphanumeric \cap (Points \cup Brackets \cup Others) = {}
    /\ Brackets \cap Points = {}
    /\ (Alphanumeric \cup Points \cup Brackets \cup Others) \cap (Marks \cup {Quote}) = {}

ASSUME PartsAreText ==
    /\ FieldNames \cup ArgumentNames \subseteq Text
    /\ \A n \in FieldNames \cup ArgumentNames : IsName(n)
    /\ \A v \in Values : IsValue(v)
    /\ Users \subseteq Text /\ NoUser \notin Users

-----------------------------------------------------------------------------
(* A path is the sequence of its fields, each followed by its arguments.     *)
NoValue == [kind |-> "none", text |-> <<>>]
FieldPiece(n) == [is |-> "field", name |-> n, value |-> NoValue]
ArgumentPiece(n, v) == [is |-> "argument", name |-> n, value |-> v]

Piece == {FieldPiece(n) : n \in FieldNames}
             \cup {ArgumentPiece(n, v) : n \in ArgumentNames, v \in Values}

(* append_parameter_to_cache_key: literals and the values of variables alike. *)
BugWritten(v) == IF v.kind = "null" THEN Nil ELSE v.text

Written(v) ==
    CASE v.kind = "null" -> Nil
      [] v.kind = "string" -> <<Quote>> \o v.text \o <<Quote>>
      [] v.kind = "list" -> <<"L", "S", "T">> \o v.text
      [] v.kind = "object" -> <<"O", "B", "J">> \o v.text
      [] OTHER -> v.text

Lead(p, first) ==
    IF p.is = "argument" THEN <<"_">> ELSE IF first THEN <<>> ELSE <<"+">>

Spelled(p, first) == Lead(p, first) \o p.name \o Written(p.value)

Init ==
    /\ path = [s \in Side |-> <<>>]
    /\ user = [s \in Side |-> NoUser]
    /\ key = [s \in Side |-> <<>>]

Write(s, p) ==
    /\ user[s] = NoUser
    /\ Len(path[s]) < MaxPieces[s]
    /\ path' = [path EXCEPT ![s] = Append(@, p)]
    /\ key' = [key EXCEPT ![s] = @ \o Spelled(p, path[s] = <<>>)]
    /\ UNCHANGED user

(* fields_to_cache_key and field_to_cache_key: the next field of the path.   *)
AddField(s, n) == Write(s, FieldPiece(n))

BugAddArgument(s, n, v) == Write(s, ArgumentPiece(n, v))

(* append_parameter_to_cache_key: the next argument of the last field.       *)
AddArgument(s, n, v) ==
    /\ path[s] # <<>>
    /\ Write(s, ArgumentPiece(n, v))

(* to_private_cache_key                                                      *)
MakePrivate(s, u) ==
    /\ path[s] # <<>>
    /\ user[s] = NoUser
    /\ user' = [user EXCEPT ![s] = u]
    /\ key' = [key EXCEPT ![s] = u \o @]
    /\ UNCHANGED path

Terminated == (\A s \in Side : user[s] # NoUser) /\ UNCHANGED vars

Next ==
    \/ \E s \in Side :
          \/ \E n \in FieldNames : AddField(s, n)
          \/ \E n \in ArgumentNames, v \in Values : AddArgument(s, n, v)
          \/ \E u \in Users : MakePrivate(s, u)
    \/ Terminated

Spec == Init /\ [][Next]_vars

-----------------------------------------------------------------------------
(* Types, and that a path begins with a field.                               *)
TypeOK ==
    /\ path \in [Side -> Seq(Piece)]
    /\ user \in [Side -> Users \cup {NoUser}]
    /\ key \in [Side -> Text]
    /\ \A s \in Side : path[s] # <<>> => path[s][1].is = "field"

(* What makes a path legible: no underscore in names; no quote in strings;   *)
(* no mark in what is written of lists and objects; and no enum value that   *)
(* is written like null.                                                     *)
Unmarked(t) == \A i \in DOMAIN t : t[i] \notin Marks

LegibleValue(v) ==
    /\ v.kind = "plain" => v.text # Nil
    /\ v.kind = "string" => \A i \in DOMAIN v.text : v.text[i] # Quote
    /\ v.kind \in {"list", "object"} => Unmarked(v.text)

Legible(ps) == \A i \in DOMAIN ps : Unmarked(ps[i].name) /\ LegibleValue(ps[i].value)

(* Where both paths go on with an argument, neither name begins with the     *)
(* other.                                                                    *)
OneBeginsOther(s, t) == s # t /\ (IsPrefix(s, t) \/ IsPrefix(t, s))

ArgumentsApart(ps, qs) ==
    \A i \in DOMAIN ps \cap DOMAIN qs :
        ps[i].is = "argument" /\ qs[i].is = "argument" =>
            ~OneBeginsOther(ps[i].name, qs[i].name)

(* What makes a user legible: it begins with no letter, or its first         *)
(* character that is not alphanumeric is not a mark either (as in a number,  *)
(* or in a header with a blank).                                             *)
LegibleUser(u) ==
    /\ u # <<>>
    /\ \/ u[1] \notin Letters
       \/ \E i \in DOMAIN u : u[i] \notin Alphanumeric \cup Marks
                                 /\ \A j \in 1 .. i - 1 : u[j] \in Alphanumeric

UsersApart(u, v) ==
    /\ u # NoUser => LegibleUser(u)
    /\ v # NoUser => LegibleUser(v)
    /\ u # NoUser /\ v # NoUser => ~OneBeginsOther(u, v)

(* Both keys are those of fields, of legible paths and users.                *)
Comparable ==
    /\ \A s \in Side : path[s] # <<>> /\ Legible(path[s])
    /\ ArgumentsApart(path["stored"], path["read"])
    /\ UsersApart(user["stored"], user["read"])

(* Keys of legible paths and users tell fields, arguments and users apart:   *)
(* what is read under a key was stored for the same field with the same      *)
(* arguments and the same user (133-135, 449-491).                           *)
KeysTellApart ==
    Comparable /\ key["stored"] = key["read"] =>
        path["stored"] = path["read"] /\ user["stored"] = user["read"]
=============================================================================
