----------------------------- MODULE MCKeyText ------------------------------
(* KeyText for TLC: names and values that differ by what follows them, with  *)
(* and without the characters the code puts between them.                    *)
EXTENDS KeyText

MCLetters == {"a", "b", "N", "I", "L", "S", "T", "O", "B", "J"}
MCFieldNames == {<<"a">>, <<"a", "a">>, <<"a", "_", "b", "1">>}
MCMaxPieces == [s \in Side |-> IF s = "stored" THEN 3 ELSE 2]
MCArgumentNames == {<<"b">>, <<"b", "1">>}

Plain(t) == [kind |-> "plain", text |-> t]
String(t) == [kind |-> "string", text |-> t]
List(t) == [kind |-> "list", text |-> t]
MCValues ==
    {Plain(<<"1">>), Plain(<<"1", "1">>),
     [kind |-> "null", text |-> <<>>], Plain(Nil),
     String(<<"1">>), String(<<"1", "+", "a">>), String(<<"1", Quote, "_", "b", Quote, "1">>),
     List(<<"[">>), List(<<"[", "+", "a">>), [kind |-> "object", text |-> <<"[">>]}

(* Numbers, one of which begins the other once a letter follows it; a name   *)
(* that a field may have, alone and before a blank; and nothing.             *)
MCUsers == {<<"1">>, <<"1", "a">>, <<"a">>, <<"a", " ">>, <<>>}
=============================================================================
