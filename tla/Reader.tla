------------------------------- MODULE Reader -------------------------------
(* parse_query (src/src/graphql/parser.rs:5) with the tokenizer it pulls     *)
(* from, one token each time one is parsed, on the texts this program sends; *)
(* and the tokenizer alone, collected as the tests of tokenizer.rs do.       *)
EXTENDS Tokenizer

CONSTANTS
    Documents,  \* the texts that are parsed, as sequences of pieces (Serializer)
    MaxDepth    \* bound on the levels of the descent

VARIABLES
    sent,       \* the pieces of the text that is parsed; <<>> if it is only collected
    item, frames, hierarchy, shorthand, operations, outcome, opened, balanced,
    misnamed

P == INSTANCE Parser
S == INSTANCE Serializer

parserVars == <<item, frames, hierarchy, shorthand, operations, outcome, opened, balanced,
                misnamed>>
readerVars == <<tokenizerVars, sent, parserVars>>

Letters == {"a", "b", "T", "query", "mutation", "fragment", "on"}
Keywords == {<<"query">>, <<"mutation">>}
Digits == {"1"}

WordOf(token) == SubSeq(text, token.from, token.to)

AllIn(w, chars) == w # <<>> /\ \A i \in DOMAIN w : w[i] \in chars

(* What the parser takes a word for, by its tests of it.                     *)
ClassOf(w) ==
    CASE w \in Keywords -> "query"
      [] w = <<"fragment">> \/ w = <<"on">> -> w[1]
      [] w = <<".", ".", ".">> -> "..."
      [] Len(w) = 1 /\ w[1] \in TOKEN_BREAKER -> w[1]
      [] AllIn(w, Letters) /\ w \notin Keywords \cup {<<"fragment">>, <<"on">>} -> "name"
      [] Len(w) > 1 /\ AllIn(SubSeq(w, 1, Len(w) - 1), Letters) /\ w[Len(w)] = "!" -> "type!"
      [] AllIn(w, Letters \cup Digits) /\ ~AllIn(w, Letters) -> "number"
      [] Len(w) > 1 /\ w[1] = Quote -> IF w[Len(w)] = Quote THEN "number" ELSE "other"
      [] OTHER -> "other"

-----------------------------------------------------------------------------
ReaderInit ==
    /\ P!Init
    /\ \/ sent = <<>> /\ Init
       \/ sent \in Documents /\ New(S!Text(sent))

(* tokens.collect()                                                          *)
Collect ==
    /\ sent = <<>>
    /\ Read
    /\ UNCHANGED <<sent, parserVars>>

(* tokens.next(), and what the parser does with what it gets.                *)
Pull ==
    /\ sent # <<>>
    /\ outcome = "running"
    /\ Read
    /\ CASE Len(tokens') > Len(tokens) -> P!Parse(ClassOf(WordOf(tokens'[Len(tokens')])))
         [] status' = "completed" -> P!EndOfString
         [] OTHER -> UNCHANGED parserVars
    /\ UNCHANGED sent

Over == IF sent = <<>> THEN status # "reading" ELSE outcome # "running"

Terminated == Over /\ UNCHANGED readerVars

ReaderNext == Collect \/ Pull \/ Terminated

ReaderSpec == ReaderInit /\ [][ReaderNext]_readerVars

-----------------------------------------------------------------------------
Found == [i \in DOMAIN tokens |-> WordOf(tokens[i])]

(* A text this program sends is read, by its own reader, as exactly one      *)
(* operation and as the tokens it was written from: no two tokens run        *)
(* together, no string ends early (serialize_operation, 97-129, and          *)
(* serialize_field to serialize_parameter_field, 161-237).                   *)
SentIsRead ==
    sent # <<>> /\ Over =>
        outcome = "accepted" /\ operations = 1 /\ Found = S!TokensOf(sent)

(* A query that is sent declares the variables that it uses and no other:    *)
(* the server refuses it otherwise (get_variables, 849-866, deduplicate_     *)
(* fields, 826-846).                                                         *)
NamesAfterDollar(ts) == {ts[i + 1] : i \in {j \in 1 .. Len(ts) - 1 : ts[j] = <<"$">>}}

DeclaresWhatItUses ==
    sent # <<>> /\ outcome = "accepted" /\ Found[1] # <<"mutation">> =>
        LET body == CHOOSE i \in DOMAIN Found :
                        Found[i] = <<"{">> /\ \A j \in 1 .. i - 1 : Found[j] # <<"{">>
        IN  NamesAfterDollar(SubSeq(Found, 1, body)) =
                NamesAfterDollar(SubSeq(Found, body, Len(Found)))
=============================================================================
