-------------------------------- MODULE Math --------------------------------
(***************************************************************************)
(* pow of libs/libk/math/math.c, exponentiation by squaring, as far as its *)
(* results fit an int32_t; slab.c takes the sizes of its objects from it.  *)
(***************************************************************************)
EXTENDS Integers

\* The loop, with base, exponent and temp, until one factor is left.
square[s \in Int \X Nat \X Int] ==
  LET base == s[1]  exponent == s[2]  temp == s[3]
  IN IF exponent <= 1 THEN base * temp
     ELSE square[<< base * base, exponent \div 2,
                    IF exponent % 2 = 0 THEN temp ELSE base * temp >>]

\* 1 / base, which C rounds towards 0; a base of 0 has no inverse.
Reciprocal(base) == IF base \in {1, -1} THEN base ELSE 0

pow(base, exponent) ==
  CASE exponent = 0 -> 1
    [] exponent > 0 -> square[<<base, exponent, 1>>]
    [] exponent < 0 -> square[<<Reciprocal(base), -exponent, 1>>]

\* "calculate the power of a number using a given base and exponent"
\* (math.c:20).
ASSUME PowIsPower ==
  \A base \in -3 .. 3, exponent \in 0 .. 9 : base # 0 => pow(base, exponent) = base ^ exponent
=============================================================================
