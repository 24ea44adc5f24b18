------------------------------- MODULE PowerOf -------------------------------
(* What a number is to the power of n: a one shifted left, or the value of *)
(* a digit's place, in a word wide enough.                                 *)
EXTENDS Integers

PowerOf(x) == LET p[n \in Nat] == IF n = 0 THEN 1 ELSE x * p[n - 1] IN p
Pow2 == PowerOf(2)
=============================================================================
