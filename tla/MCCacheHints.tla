---------------------------- MODULE MCCacheHints ----------------------------
(* CacheHints for TLC: a response { 1 { 1 { 1 { 2 } } 2 } }, with hints on a  *)
(* chain of four nested fields, on a field the response does not have, and   *)
(* on one that is visited after the chain has been left.                     *)
EXTENDS CacheHints

MCData == {<<1, 1, 1, 2>>, <<1, 1, 2>>, <<1, 2>>}
MCHintPaths ==
    {<<1>>, <<1, 1>>, <<1, 1, 1>>, <<1, 1, 1, 1>>, <<1, 1, 1, 2>>, <<1, 2>>}
=============================================================================
