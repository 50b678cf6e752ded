---------------------------- MODULE MCInterrupts ----------------------------
(***************************************************************************)
(* Instances of Interrupts: the timer, the keyboard and the clock, whose   *)
(* line is on the second controller.                                       *)
(***************************************************************************)
EXTENDS Interrupts

D == {0, 1, 8}

\* A bee that unmasks line 2 with its own.
C == [l \in D |-> IF l = 8 THEN {2} ELSE {}]
=============================================================================
