------------------------------- MODULE MCHash -------------------------------
(* An instance of Hash for TLC: words that share a home in the first array, *)
(* in the second and in both, one whose home is the last cell, and one with *)
(* a negative hash.                                                         *)
EXTENDS Hash, TLC

CONSTANTS a, b, c, d, e

MCHashString == a :> 0 @@ b :> 8 @@ c :> 3 @@ d :> 4 @@ e :> -8
=============================================================================
