------------------------------- MODULE MCCore -------------------------------
(***************************************************************************)
(* Instances of Core: the bees of the repository in the orders in which    *)
(* their priorities let the queen start them, and calls that system_start  *)
(* or a tick handler might make in addition.                               *)
(***************************************************************************)
EXTENDS Core

\* Priority 0, then 1, then 255.
ByPriority == {a \o b \o <<3>> : a \in SetToSeqs({1, 2, 4, 7}), b \in SetToSeqs({5, 6})}

\* The order of the disk build.sh makes.
Built == {<<1, 4, 7, 2, 6, 5, 3>>}

\* Words of storage: display and util have none, the others as many in
\* proportion as their GlobalData.
Sizes == <<0, 0, 1, 7, 5, 3, 1>>

\* One call of every kind that the repository's bees do not make: a tick
\* handler that asks the queen for storage, the keyboard and the tick count,
\* text, a request for more than there is, a block given back and the null pointer,
\* another request, storage that the PIT bee has already, and calls that fail.
Calls == <<Sys(6, 2, <<1>>), Sys(5, 1, <<0>>), Sys(5, 2, <<0>>), Sys(1, 1, <<2>>),
           Sys(7, 1, <<99, 0>>), Sys(7, 2, <<1>>), Sys(7, 2, <<0>>), Sys(7, 1, <<2, 0>>),
           Sys(0, 1, <<6, 3>>), Sys(0, 9, <<>>), Sys(9, 1, <<>>),
           Sys(1, 0, <<>>)>>
QueenHandler == <<Sys(0, 2, <<6>>), Sys(0, 3, <<6>>)>>

\* A tick handler that puts a character on the screen.
PrintingCalls   == <<Sys(6, 2, <<1>>), Sys(1, 4, <<2>>)>>
PrintingHandler == <<Sys(1, 4, <<7>>)>>

NoSteps == <<>>

\* What the theorems suppose is true of these instances.
ASSUME Instances == Prioritised /\ HeapSuffices
=============================================================================
