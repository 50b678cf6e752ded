----------------------------- MODULE MemoryPool -----------------------------
(***************************************************************************)
(* What the memory-manager bee promises its callers, with no list, header  *)
(* or search in sight: a pool of Units equal units, from which a request   *)
(* for n units is granted any n consecutive unused ones, and is refused    *)
(* only when there are none.  Heap implements it.                          *)
(***************************************************************************)
EXTENDS Integers

CONSTANTS Units,   \* how many units the pool has
          Null     \* the pointer that answers a refused request

VARIABLES alloc,   \* the extents in use: first unit -> number of units
          pending, \* units asked for by the request being served, 0 if none
          ret      \* the pointer handed back by the last request

vars == <<alloc, pending, ret>>

Extent(p, n) == p .. (p + n - 1)

\* The unit u belongs to an extent in use.
Used(u) == \E p \in DOMAIN alloc : u \in Extent(p, alloc[p])

\* The n units from p on exist and are all unused.
Gap(p, n) == \A u \in Extent(p, n) : u \in 0 .. (Units - 1) /\ ~Used(u)

-----------------------------------------------------------------------------

Init == /\ alloc = [p \in {} |-> 0]
        /\ pending = 0
        /\ ret = Null

Request == /\ pending = 0
           /\ pending' \in Nat \ {0}
           /\ UNCHANGED <<alloc, ret>>

\* A request for nothing is answered with the null pointer at once.
RequestNothing == /\ pending = 0
                  /\ ret' = Null
                  /\ UNCHANGED <<alloc, pending>>

Grant(p) == /\ pending > 0
            /\ Gap(p, pending)
            /\ alloc' = [q \in DOMAIN alloc \cup {p} |->
                            IF q = p THEN pending ELSE alloc[q]]
            /\ ret' = p
            /\ pending' = 0

Refuse == /\ pending > 0
          /\ \A p \in 0 .. (Units - 1) : ~Gap(p, pending)
          /\ ret' = Null
          /\ pending' = 0
          /\ UNCHANGED alloc

Release(p) == /\ pending = 0
              /\ p \in DOMAIN alloc
              /\ alloc' = [q \in DOMAIN alloc \ {p} |-> alloc[q]]
              /\ UNCHANGED <<pending, ret>>

Answer == (\E p \in 0 .. (Units - 1) : Grant(p)) \/ Refuse

Next == \/ Request
        \/ RequestNothing
        \/ Answer
        \/ \E p \in DOMAIN alloc : Release(p)

Spec == Init /\ [][Next]_vars
=============================================================================
