---------------------------- MODULE MCMemoryCache ----------------------------
(* MemoryCache for TLC.  Keys and clients are model values and nothing tells *)
(* two of them apart, so both are symmetry sets (in the safety runs only).   *)
EXTENDS MemoryCache, TLC

Symmetry == Permutations(Key) \cup Permutations(Client)
=============================================================================
