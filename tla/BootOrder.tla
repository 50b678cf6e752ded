----------------------------- MODULE BootOrder ------------------------------
(***************************************************************************)
(* What a boot of Hive promises the bees, whatever their place on the      *)
(* disk: each is started once, and none before all bees of a smaller       *)
(* priority number have been.  Loader implements it.                       *)
(***************************************************************************)
EXTENDS Integers

VARIABLES bees,   \* the bees that can be got at, records with a priority
          started \* those whose init function has been called

vars == <<bees, started>>

\* A bee may be started when no more urgent one is still waiting.
Ready(b) == \A c \in bees \ started : b.priority <= c.priority

Start(b) == /\ Ready(b)
            /\ started' = started \cup {b}
            /\ UNCHANGED bees

Init == started = {}

Next == \E b \in bees \ started : Start(b)

\* The boot does not stop before the last bee is started.
Complete == <>(started = bees)

Spec == Init /\ [][Next]_vars /\ Complete
=============================================================================
