------------------------------ MODULE SeqNumber ------------------------------
(***************************************************************************)
(* TCP sequence numbers: u32 values that wrap around, compared by the sign *)
(* of their difference (tcp/sequence_number.rs).  The width is a constant: *)
(* Half is 2^31 in the program and a small number in a model.              *)
(*                                                                         *)
(* Sums and differences of two in-range numbers wrap at most once, so the  *)
(* wrapping is written with one comparison and no remainder.               *)
(***************************************************************************)
EXTENDS Integers

CONSTANT Half       \* half of the sequence number space, 2^31 for u32

ASSUME HalfAssumption == Half \in Nat \ {0}

Modulus == 2 * Half

SeqNumbers == 0 .. (Modulus - 1)

Plus(a, b) == IF a + b < Modulus THEN a + b ELSE a + b - Modulus

Minus(a, b) == IF b <= a THEN a - b ELSE a - b + Modulus

\* (a - b) read as a signed number is negative.
Lt(a, b) == Minus(a, b) >= Half

Le(a, b) == a = b \/ Lt(a, b)

Ge(a, b) == ~ Lt(a, b)

=============================================================================
