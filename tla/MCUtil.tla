------------------------------- MODULE MCUtil -------------------------------
(***************************************************************************)
(* An instance of Util: words of 12 bits, the narrower types of 8 and 4.   *)
(***************************************************************************)
EXTENDS Util

Widths == [I8 |-> 4, U8 |-> 4, I16 |-> 8, U16 |-> 8, I32 |-> 12, U32 |-> 12]

\* A negative exponent, none, and the first that make a narrow type overflow.
Powers == -2 .. 5
=============================================================================
