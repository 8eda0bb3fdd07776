------------------------------ MODULE Tokenizer ------------------------------
(* Tokenizer (src/src/graphql/parser/tokenizer.rs), a character at a time:   *)
(* a step is an iteration of the loop of next(), and the step that returns a *)
(* token also begins the next call.                                          *)
(*                                                                           *)
(* A character is a punctuator, a quote, a backslash, whitespace or a comma, *)
(* or the representative of the others.  A token is the interval of the text *)
(* it is sliced from.                                                        *)
EXTENDS Integers, Sequences, FiniteSets

CONSTANT Texts  \* the texts that are read

VARIABLES
    text,      \* what is read
    at,        \* the character the iterator is at
    start,     \* where the next token starts
    split,     \* start is inside a character
    escaping, in_quotes,
    status,    \* "reading", "completed", or "panicked"
    tokens     \* history: what the calls have returned

tokenizerVars == <<text, at, start, split, escaping, in_quotes, status, tokens>>

TOKEN_BREAKER == {"{", "}", "(", ")", "[", "]", ":", "=", "$", "."}
Quote == "\""
Backslash == "\\"

(* Whitespace that takes more than one byte.                                 *)
Wide == {"nbsp"}

(* is_insignificant_character                                                *)
Insignificant == {" ", ","} \cup Wide

Ends(c) == c \in TOKEN_BREAKER \cup Insignificant

ASSUME TextsAreText == \A t \in Texts : t \in Seq(STRING)

(* skip_insignificant_characters: where the slice begins.                    *)
IsFirst(t, i) ==
    /\ i \in 1 .. Len(t) + 1
    /\ \A p \in 1 .. i - 1 : t[p] \in Insignificant
    /\ i <= Len(t) => t[i] \notin Insignificant

-----------------------------------------------------------------------------
(* Tokenizer::new                                                            *)
New(t) ==
    /\ text = t
    /\ \E i \in 1 .. Len(t) + 1 : IsFirst(t, i) /\ at = i /\ start = i
    /\ split = FALSE
    /\ escaping = FALSE
    /\ in_quotes = FALSE
    /\ status = "reading"
    /\ tokens = <<>>

Init == \E t \in Texts : New(t)

More == status = "reading" /\ at <= Len(text)
Breaking == More /\ ~in_quotes /\ Ends(text[at])

(* pos > start                                                               *)
Begun == at > start \/ split

BugAfter(to) == to

(* A token is returned and the slice begins after it.                        *)
After(to) == to + 1

Yield(to) ==
    /\ tokens' = Append(tokens, [from |-> start, to |-> to])
    /\ at' = After(to)
    /\ start' = After(to)
    /\ split' = FALSE
    /\ UNCHANGED <<text, escaping, in_quotes, status>>

Word ==
    /\ Breaking /\ Begun /\ ~split
    /\ Yield(at - 1)

(* The slice would begin inside a character.                                 *)
Panic ==
    /\ Breaking /\ split
    /\ status' = "panicked"
    /\ UNCHANGED <<text, at, start, split, escaping, in_quotes, tokens>>

DotAt(i) == i <= Len(text) /\ text[i] = "."

BugDots == IF ~DotAt(at + 1) THEN at ELSE at + 2

(* "...", or what there is of it.                                            *)
Dots == IF ~DotAt(at + 1) THEN at ELSE IF ~DotAt(at + 2) THEN at + 1 ELSE at + 2

Punctuator ==
    /\ Breaking /\ ~Begun
    /\ text[at] \in TOKEN_BREAKER
    /\ Yield(IF text[at] = "." THEN Dots ELSE at)

Skip ==
    /\ Breaking /\ ~Begun
    /\ text[at] \in Insignificant
    /\ at' = at + 1
    /\ start' = at + 1
    /\ split' = (text[at] \in Wide)
    /\ UNCHANGED <<text, escaping, in_quotes, status, tokens>>

BugToggles == text[at] = Quote
Toggles == text[at] = Quote /\ ~escaping

(* Any other character, and any character of a string.                       *)
Character ==
    /\ More /\ ~Breaking
    /\ escaping' = (text[at] = Backslash)
    /\ in_quotes' = IF Toggles THEN ~in_quotes ELSE in_quotes
    /\ at' = at + 1
    /\ UNCHANGED <<text, start, split, status, tokens>>

(* None: a word that nothing follows is not returned.                        *)
Finish ==
    /\ status = "reading" /\ at > Len(text)
    /\ status' = "completed"
    /\ UNCHANGED <<text, at, start, split, escaping, in_quotes, tokens>>

Read == Word \/ Panic \/ Punctuator \/ Skip \/ Character \/ Finish

Spec == Init /\ [][Read]_tokenizerVars

-----------------------------------------------------------------------------
Token == [from : Nat, to : Nat]

(* Types, and that the iterator is in the text and never before the start of *)
(* the token (the slices of tokenizer.rs:37-63 are in range).                *)
TypeOK ==
    /\ text \in Seq(STRING)
    /\ at \in 1 .. Len(text) + 1
    /\ start \in 1 .. at
    /\ split \in BOOLEAN /\ escaping \in BOOLEAN /\ in_quotes \in BOOLEAN
    /\ status \in {"reading", "completed", "panicked"}
    /\ tokens \in Seq(Token)

(* Tokens are in the order of the text and do not overlap, and only          *)
(* whitespace and commas lie between them: however the loop slices, nothing  *)
(* of the text before the current token is lost or read twice (37-63).       *)
End(i) == IF i = 0 THEN 0 ELSE tokens[i].to

Blank(from, to) == \A p \in from .. to : text[p] \in Insignificant

NothingSkipped ==
    /\ \A i \in DOMAIN tokens :
           /\ End(i - 1) < tokens[i].from /\ tokens[i].from <= tokens[i].to
           /\ Blank(End(i - 1) + 1, tokens[i].from - 1)
    /\ End(Len(tokens)) < start
    /\ Blank(End(Len(tokens)) + 1, start - 1)

-----------------------------------------------------------------------------
(* The lexical grammar of GraphQL, apart from comments and block strings.  A *)
(* quote after an odd number of backslashes is escaped, and strings are what *)
(* lies between the quotes that are not.                                     *)
PUNCTUATORS == {"!", "$", "&", "(", ")", ":", "=", "@", "[", "]", "{", "|", "}"}
Ignored == {" ", ","}
Separators == PUNCTUATORS \cup Ignored \cup {"."}

Escaped(t, p) ==
    \E n \in 0 .. p - 1 :
        /\ \A q \in p - n .. p - 1 : t[q] = Backslash
        /\ n % 2 = 1
        /\ p - n = 1 \/ t[p - n - 1] # Backslash

Quotes(t) == {q \in DOMAIN t : t[q] = Quote /\ ~Escaped(t, q)}
Strings(t) ==
    LET quotes == Quotes(t) IN
    {p \in DOMAIN t : Cardinality({q \in quotes : q < p}) % 2 = 1}

(* A string: from a quote that opens it to the next one.                     *)
StringTokens(quotes, strings) ==
    {l \in [from : quotes \ strings, to : quotes] :
        l.from < l.to /\ \A p \in l.from + 1 .. l.to - 1 : p \notin quotes}

(* A name or a number: all that is neither a separator nor in a string.      *)
WordCharacters(t, strings) ==
    {p \in DOMAIN t \ strings : t[p] \notin Separators \cup {Quote}}

WordTokens(characters) ==
    {l \in [from : {p \in characters : p - 1 \notin characters},
            to : {p \in characters : p + 1 \notin characters}] :
        l.from <= l.to /\ \A p \in l.from .. l.to : p \in characters}

PunctuatorTokens(t, strings) ==
    {[from |-> p, to |-> p] : p \in {q \in DOMAIN t \ strings : t[q] \in PUNCTUATORS}}

(* Dots count in threes from the first of those that follow each other.      *)
Dotted(t, strings) == {p \in DOMAIN t \ strings : t[p] = "."}

DotsFrom(dots, i, p) == i <= p /\ i - 1 \notin dots /\ \A q \in i .. p : q \in dots

Leading(dots) == {p \in dots : \E i \in dots : DotsFrom(dots, i, p) /\ (p - i) % 3 = 0}

InThrees(dots, p) == p + 1 \in dots /\ p + 2 \in dots

SpreadTokens(dots) ==
    {[from |-> p, to |-> p + 2] : p \in {q \in Leading(dots) : InThrees(dots, q)}}

Lexemes(t) ==
    LET strings == Strings(t) IN
    StringTokens(Quotes(t), strings) \cup WordTokens(WordCharacters(t, strings))
        \cup PunctuatorTokens(t, strings) \cup SpreadTokens(Dotted(t, strings))

(* What this tokenizer does not cut a text at: comments, and the punctuators *)
(* of types that are not null, of directives and of type definitions.        *)
NotCut == {"!", "&", "@", "|", "#"}

(* A text this tokenizer is made for: outside of strings neither those, nor  *)
(* a backslash, nor wide whitespace, and dots in threes (a number with a     *)
(* fraction is none); each string apart from its neighbours, and in it no    *)
(* backslash that is escaped itself.                                         *)
Plain(t) ==
    LET strings == Strings(t)
        quotes == Quotes(t)
        dots == Dotted(t, strings)
    IN
    /\ \A p \in DOMAIN t \ strings :
           /\ t[p] \notin Wide \cup NotCut \cup {Backslash}
           /\ t[p] = Quote => p = 1 \/ t[p - 1] \in Separators
    /\ \A p \in strings :
           /\ t[p] = Backslash => ~Escaped(t, p)
           /\ p \in quotes => p = Len(t) \/ t[p + 1] \in Separators
    /\ \A p \in Leading(dots) : InThrees(dots, p)

(* The last word or string of a text is dropped if nothing follows it.       *)
Kept(t, l) == l.to < Len(t) \/ t[l.to] \in PUNCTUATORS \cup {"."}

(* A plain text is cut into the tokens of GraphQL's lexical grammar, up to a *)
(* last word that nothing follows, and no slice panics: the characters that  *)
(* break a token (23) are the ones that have to, and the flags that survive  *)
(* from one call to the next (escaping, in_quotes) are right each time they  *)
(* are used (34-84).                                                         *)
LexedAsGraphQL ==
    status # "reading" /\ Plain(text) =>
        /\ status = "completed"
        /\ {tokens[i] : i \in DOMAIN tokens} = {l \in Lexemes(text) : Kept(text, l)}
=============================================================================
