---------------------------- MODULE MCQueryCache ----------------------------
(* Queries for the runs of QueryCache.                                       *)
EXTENDS QueryCache

F(name, fs) == Field(name, name, NoArg, fs)
A(alias, name, fs) == Field(alias, name, NoArg, fs)
P(alias, name, arg, fs) == Field(alias, name, arg, fs)
Query(fs) == [fields |-> fs, fragments |-> <<>>]

x == F("x", <<>>)
y == F("y", <<>>)
secret == F("secret", <<>>)

(* A field that is twice in a selection has the same subfields, and no alias *)
(* is the name of a field beside it.                                         *)
PlainRequests == {
    \* { f { x y } }
    Query(<<F("f", <<x, y>>)>>),
    \* { a : f { b : x  c : g(1) { x secret } } }
    Query(<<A("a", "f", <<A("b", "x", <<>>),
                          P("c", "g", "1", <<x, secret>>)>>)>>),
    \* { f { g(2) { x } y } }
    Query(<<F("f", <<P("g", "g", "2", <<x>>), y>>)>>),
    \* { h(1) { l { x } x } ...s }  fragment s { f { secret n { x } } }
    [fields |-> <<P("h", "h", "1", <<F("l", <<x>>), x>>), Spread("s")>>,
     fragments |-> "s" :> <<F("f", <<secret, F("n", <<x>>)>>)>>],
    \* { a : f { x y } b : f { x y } }
    Query(<<A("a", "f", <<x, y>>), A("b", "f", <<x, y>>)>>),
    \* { f { x a : x } }
    Query(<<F("f", <<x, A("a", "x", <<>>)>>)>>),
    \* a fragment that spreads itself
    [fields |-> <<Spread("r")>>, fragments |-> "r" :> <<F("f", <<Spread("r")>>)>>],
    \* { ...s }  fragment r { f { x } }
    [fields |-> <<Spread("s")>>, fragments |-> "r" :> <<F("f", <<x>>)>>],
    \* { f { y } ...s }, and no fragment
    Query(<<F("f", <<y>>), Spread("s")>>) }

(* The same field in several selections.                                     *)
TwinRequests == {
    Query(<<F("f", <<x>>)>>),
    \* { a : f { x y } b : f { y } }
    Query(<<A("a", "f", <<x, y>>), A("b", "f", <<y>>)>>),
    \* { f { y } ...s }  fragment s { f { x } }
    [fields |-> <<F("f", <<y>>), Spread("s")>>,
     fragments |-> "s" :> <<F("f", <<x>>)>>] }

(* An alias that is the name of a field beside it.                           *)
SwapRequests == {
    Query(<<F("f", <<x, y>>)>>),
    \* { f { y : x  x : y } }
    Query(<<F("f", <<A("y", "x", <<>>), A("x", "y", <<>>)>>)>>) }
=============================================================================
