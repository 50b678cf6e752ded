-------------------------------- MODULE Bees --------------------------------
(***************************************************************************)
(* The code of the bees as the rest of the system notices it: for every    *)
(* function the steps that call other bees, read the arguments, touch the  *)
(* bee's storage or the interrupt flag, in the order of the source.        *)
(*                                                                         *)
(* Bees: 1 display, 2 util, 3 start, 4 interrupt, 5 keyboard, 6 PIT,       *)
(* 7 memory.  Module 0 is the queen.                                       *)
(***************************************************************************)
EXTENDS Naturals, Sequences

CONSTANTS Size,        \* words of storage a bee asks for
          Comb, Buf,   \* words system_start asks kmalloc for
          Extra,       \* further steps of system_start before its loop
          tick_handler \* the function registered with the PIT, if any

\* The macro syscall: the module, the command and the array of arguments.
Sys(id, cmd, args) == [op |-> "syscall", id |-> id, cmd |-> cmd, args |-> args]

\* Any other step.
Do(op) == [op |-> op, id |-> 0, cmd |-> 0, args |-> <<>>]

-----------------------------------------------------------------------------
(* Init functions.                                                          *)

\* A mutant of memory.c that forgets to replace the allocator of the queen.
memory_init_no_switch ==
    <<Sys(0, 1, <<7, Size[7]>>), Sys(0, 2, <<7>>), Sys(0, 4, <<>>), Do("heap")>>

memory_init ==
    <<Sys(0, 1, <<7, Size[7]>>), Sys(0, 2, <<7>>), Sys(0, 4, <<>>), Do("heap"), Sys(0, 5, <<>>)>>

\* With idt_init and registerBASIC, whose calls differ in the vector only.
interrupt_init ==
    <<Sys(0, 1, <<4, Size[4]>>), Sys(0, 2, <<4>>), Do("cli"), Do("idt"), Do("sti"),
      Sys(4, 1, <<13, 4>>)>>

\* A mutant of PIT.c that lets the timer in before the storage is ready.
PIT_init_early ==
    <<Sys(4, 1, <<32, 6>>), Do("unmask0"), Sys(0, 1, <<6, Size[6]>>), Sys(0, 2, <<6>>),
      Do("fields")>>

\* A mutant of PIT.c that leaves the timer's interrupt masked.
PIT_init_masked ==
    <<Sys(0, 1, <<6, Size[6]>>), Sys(0, 2, <<6>>), Do("fields"), Sys(4, 1, <<32, 6>>)>>

PIT_init ==
    <<Sys(0, 1, <<6, Size[6]>>), Sys(0, 2, <<6>>), Do("fields"), Sys(4, 1, <<32, 6>>),
      Do("unmask0")>>

\* A mutant of keyboard.c that lets the keyboard in before its handler is
\* registered.
keyboard_init_late ==
    <<Sys(0, 1, <<5, Size[5]>>), Sys(0, 2, <<5>>), Do("fields"), Do("unmask1"),
      Sys(4, 1, <<33, 5>>)>>

keyboard_init ==
    <<Sys(0, 1, <<5, Size[5]>>), Sys(0, 2, <<5>>), Do("fields"), Sys(4, 1, <<33, 5>>),
      Do("unmask1")>>

start_setup ==
    <<Sys(0, 1, <<3, Size[3]>>), Sys(0, 2, <<3>>), Sys(7, 1, <<Comb, 0>>), Sys(7, 1, <<Buf, 0>>),
      Sys(1, 2, <<>>), Sys(1, 4, <<2>>)>> \o Extra

\* system_start ends in a loop that sleeps.
start_init == start_setup \o <<Sys(6, 1, <<500>>), Do("again")>>

-----------------------------------------------------------------------------
(* Commands.  A step "args" reads core->ptr.                                *)

registerInterrupt == <<Do("cli"), Do("args"), Do("install"), Do("sti")>>

\* The commands of util, and cursor and putc of display, read their arguments
\* and work on what those say.
plain            == <<Do("args")>>
print            == <<Do("args"), Sys(2, 1, <<1>>)>>
clear            == <<>>
is_there_data    == <<Do("args"), Do("look")>>
get_key          == <<Do("cli"), Do("args"), Do("look"), Do("sti")>>
sleep            == <<Do("args"), Do("start"), Do("wait")>>
register_handler == <<Do("args"), Do("hook")>>
get_ticks        == <<Do("args"), Do("look")>>
set_frequency    == <<Do("args"), Do("look")>>
kmalloc          == <<Do("args"), Do("kmalloc")>>
kfree            == <<Do("args"), Do("kfree")>>

\* Interrupts: what runs on every one, and the functions registered for the
\* timer and the keyboard.
isr_handler   == <<Sys(0, 2, <<4>>), Sys(0, 3, <<4>>), Do("handler"), Do("eoi")>>
PIT_interrupt == <<Sys(0, 2, <<6>>), Do("tick"), Do("callback")>>
\* A mutant of keyboard.c that asks for memory to keep the event in.
keyboard_interrupt_alloc == <<Sys(0, 2, <<5>>), Sys(7, 1, <<1, 0>>), Do("put")>>

keyboard_interrupt == <<Sys(0, 2, <<5>>), Do("put")>>

\* Code that goes nowhere: the hlt of UNHANDLED_INTERRUPT, and what a call to
\* an address that is no function runs into.
Nowhere == <<Do("halt")>>

-----------------------------------------------------------------------------

\* The init functions of the bees, and the function registered for an
\* interrupt by the bee.
InitOf == <<"idle", "idle", "start_init", "interrupt_init", "keyboard_init", "PIT_init", "memory_init">>
HandlerOf == [b \in 1 .. 7 |-> IF b = 6 THEN "PIT_interrupt"
                               ELSE IF b = 5 THEN "keyboard_interrupt" ELSE "Nowhere"]

\* The commands of the bees from CMD 1 on.
Exports == <<<<"print", "clear", "plain", "plain">>,
             [c \in 1 .. 6 |-> "plain"],
             <<>>,
             <<"registerInterrupt">>,
             <<"is_there_data", "get_key">>,
             <<"sleep", "register_handler", "get_ticks", "set_frequency">>,
             <<"kmalloc", "kfree">>>>

Code == [idle |-> <<>>, start_init |-> start_init, interrupt_init |-> interrupt_init,
         keyboard_init |-> keyboard_init, PIT_init |-> PIT_init, memory_init |-> memory_init,
         plain |-> plain, print |-> print, clear |-> clear,
         registerInterrupt |-> registerInterrupt,
         is_there_data |-> is_there_data, get_key |-> get_key,
         sleep |-> sleep, register_handler |-> register_handler,
         get_ticks |-> get_ticks, set_frequency |-> set_frequency,
         kmalloc |-> kmalloc, kfree |-> kfree,
         isr_handler |-> isr_handler, PIT_interrupt |-> PIT_interrupt,
         keyboard_interrupt |-> keyboard_interrupt, tick_handler |-> tick_handler,
         Nowhere |-> Nowhere]

\* The priorities in the metadata of the bees.
Priority == <<0, 0, 255, 0, 1, 1, 0>>

-----------------------------------------------------------------------------
(* What the theorems about Core suppose of code that is not in the          *)
(* repository.                                                              *)

Requests == [op : {"syscall"}, id : Nat, cmd : Nat, args : Seq(Nat)]

\* A registered tick handler asks the queen for storage and CoreData, no more.
QuietHandler == tick_handler \in Seq(Requests)
                /\ \A k \in DOMAIN tick_handler :
                      tick_handler[k].id = 0 /\ tick_handler[k].cmd \in {2, 3}

\* A further call of system_start asks for no less storage than the bee needs, does
\* not call the queen in place of the memory manager, and if it calls a command of
\* a bee there is one; it registers no interrupt and has kmalloc store nothing.
Ordinary(s) ==
    /\ s.id = 0 => s.cmd \notin {4, 5}
    /\ s.id = 0 /\ s.cmd = 1 =>
          Len(s.args) = 2 /\ (s.args[1] \in 1 .. 7 => s.args[2] >= Size[s.args[1]])
    /\ s.id \in 1 .. 7 =>
          IF s.cmd = 0 THEN Exports[s.id] # <<>> ELSE s.cmd \in DOMAIN Exports[s.id]
    /\ s.id = 4 => s.cmd = 0
    /\ s.id = 7 /\ s.cmd = 1 => Len(s.args) = 2 /\ s.args[2] = 0
    /\ s.id = 7 /\ s.cmd = 2 => Len(s.args) = 1

OrdinaryCalls == Extra \in Seq(Requests) /\ \A k \in DOMAIN Extra : Ordinary(Extra[k])

Orderly == QuietHandler /\ OrdinaryCalls
=============================================================================
