------------------------------ MODULE MCReader ------------------------------
(* Texts for the run of Reader: everything short, for the tokenizer alone,   *)
(* and what is sent for queries and mutations with all kinds of values.      *)
EXTENDS Reader

a == <<"a">>
b == <<"b">>
f == <<"a", "b">>
one == [kind |-> "scalar", word |-> <<"1">>]
name == [kind |-> "scalar", word |-> a]
text1 == [kind |-> "scalar", word |-> <<Quote, "a", " ", "}", Backslash, Quote, ",", Quote>>]
var(n) == [kind |-> "variable", name |-> n]
object(fs) == [kind |-> "object", fields |-> fs]
list(items) == [kind |-> "list", items |-> items]
at_(n, v) == [name |-> n, value |-> v]

Values == {
    one, name, text1, var(a), var(b),
    object(<<>>), object(<<at_(a, one), at_(b, text1)>>),
    object(<<at_(<<".">>, object(<<at_(a, name)>>)), at_(<<"(">>, list(<<one>>))>>),
    list(<<>>), list(<<one, text1, name>>), list(<<object(<<at_(a, text1)>>), one>>) }

Parameters ==
    {<<>>} \cup {<<at_(a, v)>> : v \in Values}
           \cup {<<at_(a, v), at_(b, w)>> : v, w \in {one, text1, var(a), var(b)}}

F(alias, n, ps, fs) == S!Field(alias, n, ps, fs)

Selected == UNION {
    {<<F(al, f, ps, <<>>)>>,
     \* the same field twice, to be merged, with a field between them
     <<F(f, f, ps, <<F(a, a, <<>>, <<>>)>>), F(b, b, <<>>, <<>>),
       F(al, f, ps, <<F(a, b, <<at_(b, var(b))>>, <<>>)>>)>>,
     <<F(f, f, <<>>, <<F(al, b, ps, <<F(a, a, <<at_(a, text1)>>, <<>>)>>), F(a, a, ps, <<>>)>>)>>}
        : al \in {a, f}, ps \in Parameters}

Declared ==
    <<[name |-> a, type |-> <<"T", "!">>, default |-> <<>>],
      [name |-> b, type |-> <<"T">>, default |-> <<(<<Quote, " ", Quote>>)>>]>>

Operation(kind, vs, fs) == [type |-> kind, variables |-> vs, fields |-> fs]

Fragment(n, fs) == [name |-> n, type |-> <<"T">>, fields |-> fs]

(* As the tests of parser.rs serialize them.                                 *)
WithFragments ==
    {S!SerializeDocument(
        Operation(kind, <<>>, <<S!Spread(a), F(f, f, <<>>, <<S!Spread(b)>>)>>),
        <<Fragment(a, <<F(b, a, <<at_(a, one)>>, <<>>)>>), Fragment(b, <<S!Spread(a)>>)>>)
        : kind \in {"query", "mutation"}}

MCDocuments ==
    {S!Sent(Operation(kind, Declared, fs)) : kind \in {"query", "mutation"}, fs \in Selected}
        \cup WithFragments

Alphabet == {"a", "{", ".", Quote, Backslash, " ", "nbsp"}

MCTexts == UNION {[1 .. n -> Alphabet] : n \in 0 .. 6}
=============================================================================
