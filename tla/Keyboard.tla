------------------------------ MODULE Keyboard ------------------------------
(***************************************************************************)
(* The keyboard bee (bees/keyboard/keyboard.c): the keyboard interrupt     *)
(* turns the bytes of the keyboard controller into events and writes them  *)
(* to a ring, from which get_key reads them; is_there_data compares the    *)
(* two indices.  The interrupt may come between any two accesses of a      *)
(* command to the storage while the interrupt flag is set.                 *)
(*                                                                         *)
(* The handler runs with the flag cleared from its first instruction to    *)
(* its last, so it is one step.                                            *)
(***************************************************************************)
EXTENDS Naturals, Sequences

CONSTANTS SIZE,    \* length of the ring, 64 in the code
          Codes,   \* scan codes without the bit for a release
          Shifts,  \* those of the shift keys, 42 and 54
          Let,     \* those of the keys that are let go again; one that is held
                   \* down repeats its code
          PortMax, \* bytes the keyboard controller holds
          None,    \* the 0 that stands for no event
          Junk     \* what nobody has written

ASSUME KeyboardAssumption ==
    /\ SIZE \in Nat \ {0, 1}
    /\ Shifts \subseteq Codes /\ Let \subseteq Codes
    /\ PortMax \in Nat \ {0}
    /\ None # Junk

VARIABLES
    buffer, head, tail, shift, \* the bee's storage
    port,  \* the bytes the controller holds, the oldest first
    IFlag, \* the interrupt flag
    pc,    \* where the command that runs is, idle if none does
    seen,  \* global->head as the running command has read it
    out,   \* *output of the last get_key
    said   \* *output of the last is_there_data

store == <<buffer, head, tail, shift>>
vars  == <<store, port, IFlag, pc, seen, out, said>>

Index == 0 .. (SIZE - 1)
Byte  == [code : Codes, released : {FALSE}] \cup [code : Let, released : {TRUE}]
Event == [code : Codes, released : BOOLEAN, shifted : BOOLEAN]

\* The value of shift once the byte b has come; the ascii code and the
\* modifiers of an event follow from it and the scan code.
Shift(b) == IF b.code \in Shifts THEN ~b.released ELSE shift
KeyEvent(b) == [code |-> b.code, released |-> b.released, shifted |-> Shift(b)]

\* Two reads of port 0x60: the byte they end with, and what they leave.  A
\* controller that has been emptied gives its last byte again.
Second(p) == IF Len(p) > 1 THEN p[2] ELSE p[1]
Rest(p)   == SubSeq(p, 3, Len(p))

\* Where an index moves; a mutant that does not wrap it.
Step_far(i) == i + 1
Step(i) == (i + 1) % SIZE

-----------------------------------------------------------------------------

\* The storage after bee_init, and the keyboard let through.
Init ==
    /\ buffer = [i \in Index |-> Junk]
    /\ head = 0 /\ tail = 0 /\ shift = FALSE
    /\ port = <<>>
    /\ IFlag = TRUE
    /\ pc = "idle"
    /\ seen = 0
    /\ out = None
    /\ said = FALSE

\* A key is pressed or released.
KeyStroke(b) ==
    /\ Len(port) < PortMax
    /\ port' = Append(port, b)
    /\ UNCHANGED <<store, IFlag, pc, seen, out, said>>

\* The handler reads the port twice and uses what the second read gives.
interrupt_handler ==
    /\ IFlag
    /\ port # <<>>
    /\ port' = Rest(port)
    /\ shift' = Shift(Second(port))
    /\ buffer' = [buffer EXCEPT ![head] = KeyEvent(Second(port))]
    /\ head' = Step(head)
    /\ UNCHANGED <<tail, IFlag, pc, seen, out, said>>

\* A mutant of get_key that does not disable interrupts.
get_key_open ==
    /\ pc = "idle"
    /\ pc' = "compare"
    /\ UNCHANGED <<store, port, IFlag, seen, out, said>>

get_key ==
    /\ pc = "idle"
    /\ IFlag' = FALSE
    /\ pc' = "compare"
    /\ UNCHANGED <<store, port, seen, out, said>>

\* A mutant that forgets to enable interrupts again.
get_key_none_closed ==
    /\ pc = "compare"
    /\ head = tail
    /\ out' = None
    /\ pc' = "idle"
    /\ UNCHANGED <<store, port, IFlag, seen, said>>

\* The early return.
get_key_none ==
    /\ pc = "compare"
    /\ head = tail
    /\ out' = None
    /\ IFlag' = TRUE
    /\ pc' = "idle"
    /\ UNCHANGED <<store, port, seen, said>>

get_key_read ==
    /\ pc = "compare"
    /\ head # tail
    /\ out' = buffer[tail]
    /\ pc' = "advance"
    /\ UNCHANGED <<store, port, IFlag, seen, said>>

get_key_advance ==
    /\ pc = "advance"
    /\ tail' = Step(tail)
    /\ IFlag' = TRUE
    /\ pc' = "idle"
    /\ UNCHANGED <<buffer, head, shift, port, seen, out, said>>

\* is_there_data loads head and then compares it with tail.
is_there_data ==
    /\ pc = "idle"
    /\ seen' = head
    /\ pc' = "ask"
    /\ UNCHANGED <<store, port, IFlag, out, said>>

Differ(h, t) == h # t

is_there_data_answer ==
    /\ pc = "ask"
    /\ said' = Differ(seen, tail)
    /\ seen' = 0
    /\ pc' = "idle"
    /\ UNCHANGED <<store, port, IFlag, out>>

Command == \/ get_key_none \/ get_key_read \/ get_key_advance
           \/ is_there_data_answer

Next == \/ \E b \in Byte : KeyStroke(b)
        \/ interrupt_handler
        \/ get_key \/ is_there_data \/ Command

Spec == Init /\ [][Next]_vars

\* A command that has been called is executed; the processor takes a waiting
\* interrupt when the flag is set, and so does not miss it for ever when the
\* flag is set again and again.
FairSpec == Spec /\ WF_vars(Command) /\ SF_vars(interrupt_handler)

-----------------------------------------------------------------------------
(* Properties.                                                              *)

TypeOK ==
    /\ buffer \in [Index -> Event \cup {Junk}]
    /\ head \in Index /\ tail \in Index /\ seen \in Index
    /\ shift \in BOOLEAN
    /\ Len(port) <= PortMax
    /\ IFlag \in BOOLEAN /\ said \in BOOLEAN
    /\ pc \in {"idle", "compare", "advance", "ask"}
    /\ out \in Event \cup {None, Junk}

\* The events between tail and head.
Pending == [i \in 1 .. ((head + SIZE - tail) % SIZE) |-> buffer[(tail + i - 1) % SIZE]]

\* To the readers the ring and its two indices are a queue that loses nothing
\* until one event too many empties it, whenever an interrupt comes: no event
\* is handed out twice or out of order and no slot is read that is not part of
\* the queue, not even after an overflow.  A reader asks at the moment
\* is_there_data loads head and takes at the moment get_key copies the event.
Queue == INSTANCE KeyQueue WITH
             Most   <- SIZE - 1,
             Events <- Event,
             queue  <- IF pc = "advance" THEN SubSeq(Pending, 2, Len(Pending)) ELSE Pending,
             said   <- IF pc = "ask" THEN Differ(seen, tail) ELSE said

ImplementsQueue == Queue!Spec

\* The commands never leave the interrupts disabled for good, on no path: a full
\* controller always gets room for another byte.
ControllerDrained == Len(port) = PortMax ~> Len(port) < PortMax
=============================================================================
