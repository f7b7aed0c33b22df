-------------------------------- MODULE Sums --------------------------------
(***************************************************************************)
(* The sum f[0] + ... + f[n-1] of a function on the naturals below n, as a *)
(* recursive function so that the provers can reason about it              *)
(* (Sums_proofs).                                                          *)
(***************************************************************************)
EXTENDS Integers

SumUpTo(f, n) ==
  LET s[k \in 0 .. n] == IF k = 0 THEN 0 ELSE s[k - 1] + f[k - 1] IN s[n]
=============================================================================
