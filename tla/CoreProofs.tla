----------------------------- MODULE CoreProofs -----------------------------
(***************************************************************************)
(* Proofs about Core for any sizes of storage and heap, any order of the   *)
(* init functions in which each is called once, any further calls of       *)
(* system_start that are Ordinary and any tick handler that asks the queen *)
(* for addresses only.                                                     *)
(***************************************************************************)
EXTENDS Core, SequenceTheorems, WellFoundedInduction, FiniteSetTheorems, TLAPS

\* Code outside interrupts, at the bottom of the stack or called from there, and
\* code of interrupts.
Inits    == {"idle", "start_init", "interrupt_init", "keyboard_init", "PIT_init", "memory_init"}
Commands == {"plain", "print", "clear", "registerInterrupt", "is_there_data", "get_key",
             "sleep", "register_handler", "get_ticks", "set_frequency", "kmalloc", "kfree"}
Irqs     == {"isr_handler", "PIT_interrupt", "keyboard_interrupt", "tick_handler"}
Codes    == Inits \cup Commands \cup Irqs

\* The step at which a command reads its arguments, if it does.
ArgsAt(c) == IF c \in {"registerInterrupt", "get_key"} THEN 2 ELSE 1

Numbers(s) == s.id \in Nat /\ s.cmd \in Nat /\ s.args \in Seq(Nat)

\* Step a of code c is one that only this code has, and only there.
Placed(c, a, s) ==
    /\ s.op = "args" <=> c \in Commands /\ a = ArgsAt(c)
    /\ s.op = "install" <=> c = "registerInterrupt" /\ a = 3
    /\ s.op = "kmalloc" => c = "kmalloc" /\ a = 2
    /\ s.op = "kfree" => c = "kfree" /\ a = 2
    /\ s.op = "heap" <=> c = "memory_init" /\ a = 4
    /\ s.op = "idt" => c = "interrupt_init"
    /\ s.op = "fields" => c \in {"PIT_init", "keyboard_init"} /\ a = 3
    /\ s.op = "unmask0" => c = "PIT_init" /\ a = 5
    /\ s.op = "unmask1" => c = "keyboard_init" /\ a = 5
    /\ s.op = "callback" => c = "PIT_interrupt"
    /\ s.op = "handler" => c = "isr_handler"
    /\ s.op = "again" => c = "start_init" /\ a > 1
    /\ c \in {"PIT_init", "keyboard_init"} /\ a = 4 => s.op = "syscall"
    /\ c = "memory_init" /\ a \in {3, 5} => s.op = "syscall"

\* It calls what code c may call.
Allowed(c, a, s) ==
    /\ s.id \in 1 .. 7 =>
          /\ c \in Inits \/ (c = "print" /\ a = 2 /\ s.id = 2 /\ s.cmd = 1)
          /\ IF s.cmd = 0 THEN Exports[s.id] # <<>> ELSE s.cmd \in DOMAIN Exports[s.id]
    /\ s.id = 4 /\ s.cmd # 0 => s.args \in {<<13, 4>>, <<32, 6>>, <<33, 5>>}
    /\ s.id = 7 /\ s.cmd = 1 => Len(s.args) = 2 /\ s.args[2] = 0
    /\ s.id = 0 /\ s.cmd = 1 =>
          /\ c \in Inits /\ Len(s.args) = 2
          /\ s.args[1] \in 1 .. 7 => s.args[2] >= Size[s.args[1]]
          /\ c = "memory_init" => a = 1
    /\ s.id = 0 /\ s.cmd = 4 <=> c = "memory_init" /\ a = 3
    /\ s.id = 0 /\ s.cmd = 5 <=> c = "memory_init" /\ a = 5
    /\ c = "PIT_init" /\ a = 4 => s = Sys(4, 1, <<32, 6>>)
    /\ c = "keyboard_init" /\ a = 4 => s = Sys(4, 1, <<33, 5>>)

Fits(c, a, s) ==
    /\ Numbers(s)
    /\ Placed(c, a, s)
    /\ s.op = "syscall" => Allowed(c, a, s)

Proper(c) == /\ Len(Code[c]) \in Nat
             /\ \A a \in 1 .. Len(Code[c]) : Fits(c, a, Code[c][a])

\* The places at which a code has a certain step.
Special(c, a) == \/ c \in Commands /\ a = ArgsAt(c)
                 \/ c = "registerInterrupt" /\ a = 3
                 \/ c = "memory_init" /\ a \in {3, 4, 5}
                 \/ c \in {"PIT_init", "keyboard_init"} /\ a = 4

-----------------------------------------------------------------------------

\* The assumption on what is asked for, by itself.
LEMMA Sizes == Size \in [1 .. 7 -> Nat] /\ Comb \in Nat /\ Buf \in Nat
  BY CoreAssumption

\* Arrays of up to two numbers, such as the calls pass.
LEMMA Arrays ==
    /\ <<>> \in Seq(Nat)
    /\ \A x \in Nat : <<x>> \in Seq(Nat)
    /\ \A x, y \in Nat : <<x, y>> \in Seq(Nat) /\ Len(<<x, y>>) = 2
                         /\ <<x, y>>[1] = x /\ <<x, y>>[2] = y
  OBVIOUS

\* The commands of every bee.
LEMMA ExportsAre ==
    /\ Exports[1] = <<"print", "clear", "plain", "plain">>
    /\ Exports[2] = [c \in 1 .. 6 |-> "plain"]
    /\ Exports[3] = <<>>
    /\ Exports[4] = <<"registerInterrupt">>
    /\ Exports[5] = <<"is_there_data", "get_key">>
    /\ Exports[6] = <<"sleep", "register_handler", "get_ticks", "set_frequency">>
    /\ Exports[7] = <<"kmalloc", "kfree">>
  BY DEF Exports

\* Their numbers.
LEMMA Commanded ==
    /\ DOMAIN Exports[1] = 1 .. 4 /\ DOMAIN Exports[2] = 1 .. 6 /\ DOMAIN Exports[3] = {}
    /\ DOMAIN Exports[4] = {1} /\ DOMAIN Exports[5] = 1 .. 2 /\ DOMAIN Exports[6] = 1 .. 4
    /\ DOMAIN Exports[7] = 1 .. 2
  <1>1. DOMAIN <<"registerInterrupt">> = {1}
    OBVIOUS
  <1>2. DOMAIN <<>> = {}
    OBVIOUS
  <1>. QED  BY <1>1, <1>2, ExportsAre

\* What the commands are.
LEMMA CommandsAre ==
    ASSUME NEW b \in 1 .. 7, NEW cmd \in DOMAIN Exports[b]
    PROVE  /\ Exports[b][cmd] \in Commands
           /\ Exports[b][cmd] = "registerInterrupt" <=> b = 4
           /\ b = 4 => cmd = 1
           /\ Exports[b][cmd] = "kmalloc" <=> b = 7 /\ cmd = 1
           /\ Exports[b][cmd] = "print" => b = 1
  <1>. USE ExportsAre, Commanded DEF Commands
  <1>1. CASE b = 1  BY <1>1
  <1>2. CASE b = 2  BY <1>2
  <1>3. CASE b = 3  BY <1>3
  <1>4. CASE b = 4  BY <1>4
  <1>5. CASE b = 5  BY <1>5
  <1>6. CASE b = 6  BY <1>6
  <1>7. CASE b = 7  BY <1>7
  <1>. QED  BY <1>1, <1>2, <1>3, <1>4, <1>5, <1>6, <1>7

\* A call that is Ordinary may be made by any init function.
LEMMA OrdinaryFits ==
    ASSUME NEW s \in Requests, Ordinary(s), NEW c \in Inits, NEW a \in Nat, ~Special(c, a),
           c = "memory_init" => a = 1
    PROVE  Fits(c, a, s)
  <1>1. Numbers(s) /\ s.op = "syscall"
    BY DEF Requests, Numbers
  <1>2. Placed(c, a, s)
    BY <1>1 DEF Placed, Special
  <1>3. Allowed(c, a, s)
    BY <1>1 DEF Allowed, Ordinary, Special
  <1>. QED  BY <1>1, <1>2, <1>3 DEF Fits

\* Any code may ask the queen for addresses.
LEMMA AddressFits ==
    ASSUME NEW s \in Requests, s.id = 0, s.cmd \in {2, 3}, NEW c \in Codes, NEW a \in Nat,
           ~Special(c, a)
    PROVE  Fits(c, a, s)
  <1>1. Numbers(s) /\ s.op = "syscall"
    BY DEF Requests, Numbers
  <1>2. Placed(c, a, s)
    BY <1>1 DEF Placed, Special
  <1>3. Allowed(c, a, s)
    BY DEF Allowed, Special
  <1>. QED  BY <1>1, <1>2, <1>3 DEF Fits

\* A request for the storage of the bee it belongs to.
LEMMA AllocFits ==
    ASSUME NEW b \in 1 .. 7, NEW c \in Inits, NEW a \in Nat, ~Special(c, a),
           c = "memory_init" => a = 1
    PROVE  Fits(c, a, Sys(0, 1, <<b, Size[b]>>))
  <1>1. Size[b] \in Nat /\ <<b, Size[b]>> \in Seq(Nat)
    BY Sizes, Arrays
  <1>. DEFINE s == Sys(0, 1, <<b, Size[b]>>)
  <1>2. s \in Requests /\ s.id = 0 /\ s.cmd = 1 /\ s.args = <<b, Size[b]>>
    BY <1>1 DEF Sys, Requests
  <1>3. Ordinary(s)
    BY <1>1, <1>2, Arrays DEF Ordinary
  <1>. QED  BY <1>2, <1>3, OrdinaryFits

\* One for its address.
LEMMA OwnFits ==
    ASSUME NEW b \in Nat, NEW cmd \in {2, 3}, NEW c \in Codes, NEW a \in Nat, ~Special(c, a)
    PROVE  Fits(c, a, Sys(0, cmd, <<b>>))
  <1>1. <<b>> \in Seq(Nat) /\ cmd \in Nat
    BY Arrays
  <1>2. Sys(0, cmd, <<b>>) \in Requests /\ Sys(0, cmd, <<b>>).id = 0 /\ Sys(0, cmd, <<b>>).cmd = cmd
    BY <1>1 DEF Sys, Requests
  <1>. QED  BY <1>2, AddressFits

\* Any other step.
LEMMA DoFits ==
    ASSUME NEW op, op # "syscall", NEW c, NEW a, Placed(c, a, Do(op))
    PROVE  Fits(c, a, Do(op))
  BY Arrays DEF Do, Numbers, Fits

\* The operation of a step that is no call.
LEMMA DoIs == ASSUME NEW op PROVE Do(op).op = op
  BY DEF Do

\* The code of PIT_init is proper.
LEMMA PIT_init_proper == Proper("PIT_init")
  <1>1. Code["PIT_init"] = PIT_init
    BY DEF Code
  <1>2. /\ Len(PIT_init) = 5
        /\ PIT_init[1] = Sys(0, 1, <<6, Size[6]>>)
        /\ PIT_init[2] = Sys(0, 2, <<6>>)
        /\ PIT_init[3] = Do("fields")
        /\ PIT_init[4] = Sys(4, 1, <<32, 6>>)
        /\ PIT_init[5] = Do("unmask0")
    BY DEF PIT_init
  <1>. SUFFICES ASSUME NEW a \in 1 .. 5
               PROVE  Fits("PIT_init", a, PIT_init[a])
    BY <1>1, <1>2 DEF Proper
  <1>0. "PIT_init" \in Codes /\ ("PIT_init" \in Inits)
    BY DEF Codes, Inits, Commands, Irqs
  <1>3. CASE a = 1  BY <1>2, <1>3, <1>0, AllocFits DEF Special, Commands, ArgsAt
  <1>4. CASE a = 2  BY <1>2, <1>4, <1>0, OwnFits DEF Special, Commands, ArgsAt
  <1>5. CASE a = 3  BY <1>2, <1>5, DoFits, DoIs DEF Placed, Commands, ArgsAt
  <1>6. CASE a = 4
    <2>. DEFINE s == Sys(4, 1, <<32, 6>>)
    <2>1. s \in Requests /\ s.id = 4 /\ s.cmd = 1 /\ s.args = <<32, 6>>
      BY Arrays DEF Sys, Requests
    <2>2. Numbers(s) /\ s.op = "syscall"
      BY <2>1 DEF Requests, Numbers
    <2>0. s = Sys(4, 1, <<32, 6>>)
      OBVIOUS
    <2>. HIDE DEF s
    <2>3. Placed("PIT_init", 4, s)
      BY <2>2 DEF Placed, Commands, ArgsAt
    <2>4. Allowed("PIT_init", 4, s)
      BY <2>0, <2>1, Commanded DEF Allowed, Inits
    <2>. QED  BY <1>2, <1>6, <2>2, <2>3, <2>4 DEF Fits, s
  <1>7. CASE a = 5  BY <1>2, <1>7, DoFits, DoIs DEF Placed, Commands, ArgsAt
  <1>. QED  BY <1>3, <1>4, <1>5, <1>6, <1>7

\* The code of keyboard_init is proper.
LEMMA keyboard_init_proper == Proper("keyboard_init")
  <1>1. Code["keyboard_init"] = keyboard_init
    BY DEF Code
  <1>2. /\ Len(keyboard_init) = 5
        /\ keyboard_init[1] = Sys(0, 1, <<5, Size[5]>>)
        /\ keyboard_init[2] = Sys(0, 2, <<5>>)
        /\ keyboard_init[3] = Do("fields")
        /\ keyboard_init[4] = Sys(4, 1, <<33, 5>>)
        /\ keyboard_init[5] = Do("unmask1")
    BY DEF keyboard_init
  <1>. SUFFICES ASSUME NEW a \in 1 .. 5
               PROVE  Fits("keyboard_init", a, keyboard_init[a])
    BY <1>1, <1>2 DEF Proper
  <1>0. "keyboard_init" \in Codes /\ ("keyboard_init" \in Inits)
    BY DEF Codes, Inits, Commands, Irqs
  <1>3. CASE a = 1  BY <1>2, <1>3, <1>0, AllocFits DEF Special, Commands, ArgsAt
  <1>4. CASE a = 2  BY <1>2, <1>4, <1>0, OwnFits DEF Special, Commands, ArgsAt
  <1>5. CASE a = 3  BY <1>2, <1>5, DoFits, DoIs DEF Placed, Commands, ArgsAt
  <1>6. CASE a = 4
    <2>. DEFINE s == Sys(4, 1, <<33, 5>>)
    <2>1. s \in Requests /\ s.id = 4 /\ s.cmd = 1 /\ s.args = <<33, 5>>
      BY Arrays DEF Sys, Requests
    <2>2. Numbers(s) /\ s.op = "syscall"
      BY <2>1 DEF Requests, Numbers
    <2>0. s = Sys(4, 1, <<33, 5>>)
      OBVIOUS
    <2>. HIDE DEF s
    <2>3. Placed("keyboard_init", 4, s)
      BY <2>2 DEF Placed, Commands, ArgsAt
    <2>4. Allowed("keyboard_init", 4, s)
      BY <2>0, <2>1, Commanded DEF Allowed, Inits
    <2>. QED  BY <1>2, <1>6, <2>2, <2>3, <2>4 DEF Fits, s
  <1>7. CASE a = 5  BY <1>2, <1>7, DoFits, DoIs DEF Placed, Commands, ArgsAt
  <1>. QED  BY <1>3, <1>4, <1>5, <1>6, <1>7

\* The code of interrupt_init is proper.
LEMMA interrupt_init_proper == Proper("interrupt_init")
  <1>1. Code["interrupt_init"] = interrupt_init
    BY DEF Code
  <1>2. /\ Len(interrupt_init) = 6
        /\ interrupt_init[1] = Sys(0, 1, <<4, Size[4]>>)
        /\ interrupt_init[2] = Sys(0, 2, <<4>>)
        /\ interrupt_init[3] = Do("cli")
        /\ interrupt_init[4] = Do("idt")
        /\ interrupt_init[5] = Do("sti")
        /\ interrupt_init[6] = Sys(4, 1, <<13, 4>>)
    BY DEF interrupt_init
  <1>. SUFFICES ASSUME NEW a \in 1 .. 6
               PROVE  Fits("interrupt_init", a, interrupt_init[a])
    BY <1>1, <1>2 DEF Proper
  <1>0. "interrupt_init" \in Codes /\ ("interrupt_init" \in Inits)
    BY DEF Codes, Inits, Commands, Irqs
  <1>3. CASE a = 1  BY <1>2, <1>3, <1>0, AllocFits DEF Special, Commands, ArgsAt
  <1>4. CASE a = 2  BY <1>2, <1>4, <1>0, OwnFits DEF Special, Commands, ArgsAt
  <1>5. CASE a = 3  BY <1>2, <1>5, DoFits, DoIs DEF Placed, Commands, ArgsAt
  <1>6. CASE a = 4  BY <1>2, <1>6, DoFits, DoIs DEF Placed, Commands, ArgsAt
  <1>7. CASE a = 5  BY <1>2, <1>7, DoFits, DoIs DEF Placed, Commands, ArgsAt
  <1>8. CASE a = 6
    <2>. DEFINE s == Sys(4, 1, <<13, 4>>)
    <2>1. s \in Requests /\ s.id = 4 /\ s.cmd = 1 /\ s.args = <<13, 4>>
      BY Arrays DEF Sys, Requests
    <2>2. Numbers(s) /\ s.op = "syscall"
      BY <2>1 DEF Requests, Numbers
    <2>0. s = Sys(4, 1, <<13, 4>>)
      OBVIOUS
    <2>. HIDE DEF s
    <2>3. Placed("interrupt_init", 6, s)
      BY <2>2 DEF Placed, Commands, ArgsAt
    <2>4. Allowed("interrupt_init", 6, s)
      BY <2>0, <2>1, Commanded DEF Allowed, Inits
    <2>. QED  BY <1>2, <1>8, <2>2, <2>3, <2>4 DEF Fits, s
  <1>. QED  BY <1>3, <1>4, <1>5, <1>6, <1>7, <1>8

\* The code of memory_init is proper.
LEMMA memory_init_proper == Proper("memory_init")
  <1>1. Code["memory_init"] = memory_init
    BY DEF Code
  <1>2. /\ Len(memory_init) = 5
        /\ memory_init[1] = Sys(0, 1, <<7, Size[7]>>)
        /\ memory_init[2] = Sys(0, 2, <<7>>)
        /\ memory_init[3] = Sys(0, 4, <<>>)
        /\ memory_init[4] = Do("heap")
        /\ memory_init[5] = Sys(0, 5, <<>>)
    BY DEF memory_init
  <1>. SUFFICES ASSUME NEW a \in 1 .. 5
               PROVE  Fits("memory_init", a, memory_init[a])
    BY <1>1, <1>2 DEF Proper
  <1>0. "memory_init" \in Codes /\ ("memory_init" \in Inits)
    BY DEF Codes, Inits, Commands, Irqs
  <1>3. CASE a = 1  BY <1>2, <1>3, <1>0, AllocFits DEF Special, Commands, ArgsAt
  <1>4. CASE a = 2  BY <1>2, <1>4, <1>0, OwnFits DEF Special, Commands, ArgsAt
  <1>5. CASE a = 3
    <2>. DEFINE s == Sys(0, 4, <<>>)
    <2>1. s \in Requests /\ s.id = 0 /\ s.cmd = 4 /\ s.args = <<>>
      BY Arrays DEF Sys, Requests
    <2>2. Numbers(s) /\ s.op = "syscall"
      BY <2>1 DEF Requests, Numbers
    <2>0. s = Sys(0, 4, <<>>)
      OBVIOUS
    <2>. HIDE DEF s
    <2>3. Placed("memory_init", 3, s)
      BY <2>2 DEF Placed, Commands, ArgsAt
    <2>4. Allowed("memory_init", 3, s)
      BY <2>0, <2>1, Commanded DEF Allowed, Inits
    <2>. QED  BY <1>2, <1>5, <2>2, <2>3, <2>4 DEF Fits, s
  <1>6. CASE a = 4  BY <1>2, <1>6, DoFits, DoIs DEF Placed, Commands, ArgsAt
  <1>7. CASE a = 5
    <2>. DEFINE s == Sys(0, 5, <<>>)
    <2>1. s \in Requests /\ s.id = 0 /\ s.cmd = 5 /\ s.args = <<>>
      BY Arrays DEF Sys, Requests
    <2>2. Numbers(s) /\ s.op = "syscall"
      BY <2>1 DEF Requests, Numbers
    <2>0. s = Sys(0, 5, <<>>)
      OBVIOUS
    <2>. HIDE DEF s
    <2>3. Placed("memory_init", 5, s)
      BY <2>2 DEF Placed, Commands, ArgsAt
    <2>4. Allowed("memory_init", 5, s)
      BY <2>0, <2>1, Commanded DEF Allowed, Inits
    <2>. QED  BY <1>2, <1>7, <2>2, <2>3, <2>4 DEF Fits, s
  <1>. QED  BY <1>3, <1>4, <1>5, <1>6, <1>7

\* The code of plain is proper.
LEMMA plain_proper == Proper("plain")
  <1>1. Code["plain"] = plain
    BY DEF Code
  <1>2. /\ Len(plain) = 1
        /\ plain[1] = Do("args")
    BY DEF plain
  <1>. SUFFICES ASSUME NEW a \in 1 .. 1
               PROVE  Fits("plain", a, plain[a])
    BY <1>1, <1>2 DEF Proper
  <1>0. "plain" \in Codes /\ ("plain" \in Commands)
    BY DEF Codes, Inits, Commands, Irqs
  <1>3. CASE a = 1  BY <1>2, <1>3, DoFits, DoIs DEF Placed, Commands, ArgsAt
  <1>. QED  BY <1>3

\* The code of clear is proper.
LEMMA clear_proper == Proper("clear")
  <1>1. Code["clear"] = clear
    BY DEF Code
  <1>2. /\ Len(clear) = 0
    BY DEF clear
  <1>. SUFFICES ASSUME NEW a \in 1 .. 0
               PROVE  Fits("clear", a, clear[a])
    BY <1>1, <1>2 DEF Proper
  <1>0. "clear" \in Codes /\ ("clear" \in Commands)
    BY DEF Codes, Inits, Commands, Irqs
  <1>. QED  OBVIOUS

\* The code of registerInterrupt is proper.
LEMMA registerInterrupt_proper == Proper("registerInterrupt")
  <1>1. Code["registerInterrupt"] = registerInterrupt
    BY DEF Code
  <1>2. /\ Len(registerInterrupt) = 4
        /\ registerInterrupt[1] = Do("cli")
        /\ registerInterrupt[2] = Do("args")
        /\ registerInterrupt[3] = Do("install")
        /\ registerInterrupt[4] = Do("sti")
    BY DEF registerInterrupt
  <1>. SUFFICES ASSUME NEW a \in 1 .. 4
               PROVE  Fits("registerInterrupt", a, registerInterrupt[a])
    BY <1>1, <1>2 DEF Proper
  <1>0. "registerInterrupt" \in Codes /\ ("registerInterrupt" \in Commands)
    BY DEF Codes, Inits, Commands, Irqs
  <1>3. CASE a = 1  BY <1>2, <1>3, DoFits, DoIs DEF Placed, Commands, ArgsAt
  <1>4. CASE a = 2  BY <1>2, <1>4, DoFits, DoIs DEF Placed, Commands, ArgsAt
  <1>5. CASE a = 3  BY <1>2, <1>5, DoFits, DoIs DEF Placed, Commands, ArgsAt
  <1>6. CASE a = 4  BY <1>2, <1>6, DoFits, DoIs DEF Placed, Commands, ArgsAt
  <1>. QED  BY <1>3, <1>4, <1>5, <1>6

\* The code of is_there_data is proper.
LEMMA is_there_data_proper == Proper("is_there_data")
  <1>1. Code["is_there_data"] = is_there_data
    BY DEF Code
  <1>2. /\ Len(is_there_data) = 2
        /\ is_there_data[1] = Do("args")
        /\ is_there_data[2] = Do("look")
    BY DEF is_there_data
  <1>. SUFFICES ASSUME NEW a \in 1 .. 2
               PROVE  Fits("is_there_data", a, is_there_data[a])
    BY <1>1, <1>2 DEF Proper
  <1>0. "is_there_data" \in Codes /\ ("is_there_data" \in Commands)
    BY DEF Codes, Inits, Commands, Irqs
  <1>3. CASE a = 1  BY <1>2, <1>3, DoFits, DoIs DEF Placed, Commands, ArgsAt
  <1>4. CASE a = 2  BY <1>2, <1>4, DoFits, DoIs DEF Placed, Commands, ArgsAt
  <1>. QED  BY <1>3, <1>4

\* The code of get_key is proper.
LEMMA get_key_proper == Proper("get_key")
  <1>1. Code["get_key"] = get_key
    BY DEF Code
  <1>2. /\ Len(get_key) = 4
        /\ get_key[1] = Do("cli")
        /\ get_key[2] = Do("args")
        /\ get_key[3] = Do("look")
        /\ get_key[4] = Do("sti")
    BY DEF get_key
  <1>. SUFFICES ASSUME NEW a \in 1 .. 4
               PROVE  Fits("get_key", a, get_key[a])
    BY <1>1, <1>2 DEF Proper
  <1>0. "get_key" \in Codes /\ ("get_key" \in Commands)
    BY DEF Codes, Inits, Commands, Irqs
  <1>3. CASE a = 1  BY <1>2, <1>3, DoFits, DoIs DEF Placed, Commands, ArgsAt
  <1>4. CASE a = 2  BY <1>2, <1>4, DoFits, DoIs DEF Placed, Commands, ArgsAt
  <1>5. CASE a = 3  BY <1>2, <1>5, DoFits, DoIs DEF Placed, Commands, ArgsAt
  <1>6. CASE a = 4  BY <1>2, <1>6, DoFits, DoIs DEF Placed, Commands, ArgsAt
  <1>. QED  BY <1>3, <1>4, <1>5, <1>6

\* The code of sleep is proper.
LEMMA sleep_proper == Proper("sleep")
  <1>1. Code["sleep"] = sleep
    BY DEF Code
  <1>2. /\ Len(sleep) = 3
        /\ sleep[1] = Do("args")
        /\ sleep[2] = Do("start")
        /\ sleep[3] = Do("wait")
    BY DEF sleep
  <1>. SUFFICES ASSUME NEW a \in 1 .. 3
               PROVE  Fits("sleep", a, sleep[a])
    BY <1>1, <1>2 DEF Proper
  <1>0. "sleep" \in Codes /\ ("sleep" \in Commands)
    BY DEF Codes, Inits, Commands, Irqs
  <1>3. CASE a = 1  BY <1>2, <1>3, DoFits, DoIs DEF Placed, Commands, ArgsAt
  <1>4. CASE a = 2  BY <1>2, <1>4, DoFits, DoIs DEF Placed, Commands, ArgsAt
  <1>5. CASE a = 3  BY <1>2, <1>5, DoFits, DoIs DEF Placed, Commands, ArgsAt
  <1>. QED  BY <1>3, <1>4, <1>5

\* The code of register_handler is proper.
LEMMA register_handler_proper == Proper("register_handler")
  <1>1. Code["register_handler"] = register_handler
    BY DEF Code
  <1>2. /\ Len(register_handler) = 2
        /\ register_handler[1] = Do("args")
        /\ register_handler[2] = Do("hook")
    BY DEF register_handler
  <1>. SUFFICES ASSUME NEW a \in 1 .. 2
               PROVE  Fits("register_handler", a, register_handler[a])
    BY <1>1, <1>2 DEF Proper
  <1>0. "register_handler" \in Codes /\ ("register_handler" \in Commands)
    BY DEF Codes, Inits, Commands, Irqs
  <1>3. CASE a = 1  BY <1>2, <1>3, DoFits, DoIs DEF Placed, Commands, ArgsAt
  <1>4. CASE a = 2  BY <1>2, <1>4, DoFits, DoIs DEF Placed, Commands, ArgsAt
  <1>. QED  BY <1>3, <1>4

\* The code of get_ticks is proper.
LEMMA get_ticks_proper == Proper("get_ticks")
  <1>1. Code["get_ticks"] = get_ticks
    BY DEF Code
  <1>2. /\ Len(get_ticks) = 2
        /\ get_ticks[1] = Do("args")
        /\ get_ticks[2] = Do("look")
    BY DEF get_ticks
  <1>. SUFFICES ASSUME NEW a \in 1 .. 2
               PROVE  Fits("get_ticks", a, get_ticks[a])
    BY <1>1, <1>2 DEF Proper
  <1>0. "get_ticks" \in Codes /\ ("get_ticks" \in Commands)
    BY DEF Codes, Inits, Commands, Irqs
  <1>3. CASE a = 1  BY <1>2, <1>3, DoFits, DoIs DEF Placed, Commands, ArgsAt
  <1>4. CASE a = 2  BY <1>2, <1>4, DoFits, DoIs DEF Placed, Commands, ArgsAt
  <1>. QED  BY <1>3, <1>4

\* The code of set_frequency is proper.
LEMMA set_frequency_proper == Proper("set_frequency")
  <1>1. Code["set_frequency"] = set_frequency
    BY DEF Code
  <1>2. /\ Len(set_frequency) = 2
        /\ set_frequency[1] = Do("args")
        /\ set_frequency[2] = Do("look")
    BY DEF set_frequency
  <1>. SUFFICES ASSUME NEW a \in 1 .. 2
               PROVE  Fits("set_frequency", a, set_frequency[a])
    BY <1>1, <1>2 DEF Proper
  <1>0. "set_frequency" \in Codes /\ ("set_frequency" \in Commands)
    BY DEF Codes, Inits, Commands, Irqs
  <1>3. CASE a = 1  BY <1>2, <1>3, DoFits, DoIs DEF Placed, Commands, ArgsAt
  <1>4. CASE a = 2  BY <1>2, <1>4, DoFits, DoIs DEF Placed, Commands, ArgsAt
  <1>. QED  BY <1>3, <1>4

\* The code of kmalloc is proper.
LEMMA kmalloc_proper == Proper("kmalloc")
  <1>1. Code["kmalloc"] = kmalloc
    BY DEF Code
  <1>2. /\ Len(kmalloc) = 2
        /\ kmalloc[1] = Do("args")
        /\ kmalloc[2] = Do("kmalloc")
    BY DEF kmalloc
  <1>. SUFFICES ASSUME NEW a \in 1 .. 2
               PROVE  Fits("kmalloc", a, kmalloc[a])
    BY <1>1, <1>2 DEF Proper
  <1>0. "kmalloc" \in Codes /\ ("kmalloc" \in Commands)
    BY DEF Codes, Inits, Commands, Irqs
  <1>3. CASE a = 1  BY <1>2, <1>3, DoFits, DoIs DEF Placed, Commands, ArgsAt
  <1>4. CASE a = 2  BY <1>2, <1>4, DoFits, DoIs DEF Placed, Commands, ArgsAt
  <1>. QED  BY <1>3, <1>4

\* The code of kfree is proper.
LEMMA kfree_proper == Proper("kfree")
  <1>1. Code["kfree"] = kfree
    BY DEF Code
  <1>2. /\ Len(kfree) = 2
        /\ kfree[1] = Do("args")
        /\ kfree[2] = Do("kfree")
    BY DEF kfree
  <1>. SUFFICES ASSUME NEW a \in 1 .. 2
               PROVE  Fits("kfree", a, kfree[a])
    BY <1>1, <1>2 DEF Proper
  <1>0. "kfree" \in Codes /\ ("kfree" \in Commands)
    BY DEF Codes, Inits, Commands, Irqs
  <1>3. CASE a = 1  BY <1>2, <1>3, DoFits, DoIs DEF Placed, Commands, ArgsAt
  <1>4. CASE a = 2  BY <1>2, <1>4, DoFits, DoIs DEF Placed, Commands, ArgsAt
  <1>. QED  BY <1>3, <1>4

\* The code of print is proper.
LEMMA print_proper == Proper("print")
  <1>1. Code["print"] = print
    BY DEF Code
  <1>2. /\ Len(print) = 2
        /\ print[1] = Do("args")
        /\ print[2] = Sys(2, 1, <<1>>)
    BY DEF print
  <1>. SUFFICES ASSUME NEW a \in 1 .. 2
               PROVE  Fits("print", a, print[a])
    BY <1>1, <1>2 DEF Proper
  <1>0. "print" \in Codes /\ ("print" \in Commands)
    BY DEF Codes, Inits, Commands, Irqs
  <1>3. CASE a = 1  BY <1>2, <1>3, DoFits, DoIs DEF Placed, Commands, ArgsAt
  <1>4. CASE a = 2
    <2>. DEFINE s == Sys(2, 1, <<1>>)
    <2>1. s \in Requests /\ s.id = 2 /\ s.cmd = 1 /\ s.args = <<1>>
      BY Arrays DEF Sys, Requests
    <2>2. Numbers(s) /\ s.op = "syscall"
      BY <2>1 DEF Requests, Numbers
    <2>0. s = Sys(2, 1, <<1>>)
      OBVIOUS
    <2>. HIDE DEF s
    <2>3. Placed("print", 2, s)
      BY <2>2 DEF Placed, Commands, ArgsAt
    <2>4. Allowed("print", 2, s)
      BY <2>0, <2>1, Commanded DEF Allowed, Inits
    <2>. QED  BY <1>2, <1>4, <2>2, <2>3, <2>4 DEF Fits, s
  <1>. QED  BY <1>3, <1>4

\* The code of isr_handler is proper.
LEMMA isr_handler_proper == Proper("isr_handler")
  <1>1. Code["isr_handler"] = isr_handler
    BY DEF Code
  <1>2. /\ Len(isr_handler) = 4
        /\ isr_handler[1] = Sys(0, 2, <<4>>)
        /\ isr_handler[2] = Sys(0, 3, <<4>>)
        /\ isr_handler[3] = Do("handler")
        /\ isr_handler[4] = Do("eoi")
    BY DEF isr_handler
  <1>. SUFFICES ASSUME NEW a \in 1 .. 4
               PROVE  Fits("isr_handler", a, isr_handler[a])
    BY <1>1, <1>2 DEF Proper
  <1>0. "isr_handler" \in Codes /\ ("isr_handler" \in Irqs)
    BY DEF Codes, Inits, Commands, Irqs
  <1>3. CASE a = 1  BY <1>2, <1>3, <1>0, OwnFits DEF Special, Commands, ArgsAt
  <1>4. CASE a = 2  BY <1>2, <1>4, <1>0, OwnFits DEF Special, Commands, ArgsAt
  <1>5. CASE a = 3  BY <1>2, <1>5, DoFits, DoIs DEF Placed, Commands, ArgsAt
  <1>6. CASE a = 4  BY <1>2, <1>6, DoFits, DoIs DEF Placed, Commands, ArgsAt
  <1>. QED  BY <1>3, <1>4, <1>5, <1>6

\* The code of PIT_interrupt is proper.
LEMMA PIT_interrupt_proper == Proper("PIT_interrupt")
  <1>1. Code["PIT_interrupt"] = PIT_interrupt
    BY DEF Code
  <1>2. /\ Len(PIT_interrupt) = 3
        /\ PIT_interrupt[1] = Sys(0, 2, <<6>>)
        /\ PIT_interrupt[2] = Do("tick")
        /\ PIT_interrupt[3] = Do("callback")
    BY DEF PIT_interrupt
  <1>. SUFFICES ASSUME NEW a \in 1 .. 3
               PROVE  Fits("PIT_interrupt", a, PIT_interrupt[a])
    BY <1>1, <1>2 DEF Proper
  <1>0. "PIT_interrupt" \in Codes /\ ("PIT_interrupt" \in Irqs)
    BY DEF Codes, Inits, Commands, Irqs
  <1>3. CASE a = 1  BY <1>2, <1>3, <1>0, OwnFits DEF Special, Commands, ArgsAt
  <1>4. CASE a = 2  BY <1>2, <1>4, DoFits, DoIs DEF Placed, Commands, ArgsAt
  <1>5. CASE a = 3  BY <1>2, <1>5, DoFits, DoIs DEF Placed, Commands, ArgsAt
  <1>. QED  BY <1>3, <1>4, <1>5

\* The code of keyboard_interrupt is proper.
LEMMA keyboard_interrupt_proper == Proper("keyboard_interrupt")
  <1>1. Code["keyboard_interrupt"] = keyboard_interrupt
    BY DEF Code
  <1>2. /\ Len(keyboard_interrupt) = 2
        /\ keyboard_interrupt[1] = Sys(0, 2, <<5>>)
        /\ keyboard_interrupt[2] = Do("put")
    BY DEF keyboard_interrupt
  <1>. SUFFICES ASSUME NEW a \in 1 .. 2
               PROVE  Fits("keyboard_interrupt", a, keyboard_interrupt[a])
    BY <1>1, <1>2 DEF Proper
  <1>0. "keyboard_interrupt" \in Codes /\ ("keyboard_interrupt" \in Irqs)
    BY DEF Codes, Inits, Commands, Irqs
  <1>3. CASE a = 1  BY <1>2, <1>3, <1>0, OwnFits DEF Special, Commands, ArgsAt
  <1>4. CASE a = 2  BY <1>2, <1>4, DoFits, DoIs DEF Placed, Commands, ArgsAt
  <1>. QED  BY <1>3, <1>4

\* The code of idle is proper.
LEMMA idle_proper == Proper("idle")
  <1>1. Len(Code["idle"]) = 0
    BY DEF Code
  <1>. QED  BY <1>1 DEF Proper

\* A tick handler that asks the queen for addresses only is proper.
LEMMA tick_handler_proper ==
    ASSUME QuietHandler
    PROVE  Proper("tick_handler")
  <1>1. Code["tick_handler"] = tick_handler
    BY DEF Code
  <1>2. SUFFICES ASSUME NEW a \in 1 .. Len(tick_handler)
                 PROVE  Fits("tick_handler", a, tick_handler[a])
    BY <1>1 DEF Proper, QuietHandler
  <1>3. /\ tick_handler[a] \in Requests
        /\ tick_handler[a].id = 0 /\ tick_handler[a].cmd \in {2, 3}
    BY DEF QuietHandler
  <1>4. "tick_handler" \in Codes /\ ~Special("tick_handler", a) /\ a \in Nat
    BY DEF Special, Commands, Inits, Irqs, Codes
  <1>. QED  BY <1>3, <1>4, AddressFits

\* So is the init function of the start bee, with further calls that are Ordinary.
LEMMA start_init_proper ==
    ASSUME OrdinaryCalls
    PROVE  Proper("start_init")
  <1>1. Code["start_init"] = start_init
    BY DEF Code
  <1>. DEFINE n == Len(Extra)
  <1>2. n \in Nat /\ Extra \in Seq(Requests)
    BY DEF OrdinaryCalls
  <1>3. /\ Len(start_init) = n + 8
        /\ start_init[1] = Sys(0, 1, <<3, Size[3]>>) /\ start_init[2] = Sys(0, 2, <<3>>)
        /\ start_init[3] = Sys(7, 1, <<Comb, 0>>) /\ start_init[4] = Sys(7, 1, <<Buf, 0>>)
        /\ start_init[5] = Sys(1, 2, <<>>) /\ start_init[6] = Sys(1, 4, <<2>>)
        /\ \A k \in 1 .. n : start_init[k + 6] = Extra[k]
        /\ start_init[n + 7] = Sys(6, 1, <<500>>) /\ start_init[n + 8] = Do("again")
    BY <1>2 DEF start_init, start_setup
  <1>. SUFFICES ASSUME NEW a \in 1 .. (n + 8)
                PROVE  Fits("start_init", a, start_init[a])
    BY <1>1, <1>2, <1>3 DEF Proper
  <1>. HIDE DEF n
  <1>4. "start_init" \in Inits /\ ~Special("start_init", a) /\ a \in Nat /\ "start_init" \in Codes
    BY <1>2 DEF Special, Commands, Inits, Codes
  <1>5. CASE a = 1
    <2>1. Fits("start_init", 1, Sys(0, 1, <<3, Size[3]>>))
      BY <1>4, <1>5, AllocFits
    <2>. QED  BY <1>3, <1>5, <2>1
  <1>6. CASE a = 2  BY <1>3, <1>4, <1>6, OwnFits
  <1>7. CASE a \in {3, 4, 5, 6} \/ a = n + 7
    <2>. DEFINE s == start_init[a]
    <2>1. /\ s \in Requests
          /\ \/ s.id = 7 /\ s.cmd = 1 /\ Len(s.args) = 2 /\ s.args[2] = 0
             \/ s.id = 1 /\ s.cmd \in {2, 4}
             \/ s.id = 6 /\ s.cmd = 1
      <3>1. CASE a = 3
        <4>1. s = Sys(7, 1, <<Comb, 0>>)  BY <1>3, <3>1
        <4>. HIDE DEF s
        <4>. QED  BY <4>1, Sizes, Arrays DEF Sys, Requests
      <3>2. CASE a = 4
        <4>1. s = Sys(7, 1, <<Buf, 0>>)  BY <1>3, <3>2
        <4>. HIDE DEF s
        <4>. QED  BY <4>1, Sizes, Arrays DEF Sys, Requests
      <3>3. CASE a = 5
        <4>1. s = Sys(1, 2, <<>>)  BY <1>3, <3>3
        <4>. HIDE DEF s
        <4>. QED  BY <4>1, Arrays DEF Sys, Requests
      <3>4. CASE a = 6
        <4>1. s = Sys(1, 4, <<2>>)  BY <1>3, <3>4
        <4>. HIDE DEF s
        <4>. QED  BY <4>1, Arrays DEF Sys, Requests
      <3>5. CASE a = n + 7
        <4>1. s = Sys(6, 1, <<500>>)  BY <1>3, <3>5
        <4>. HIDE DEF s
        <4>. QED  BY <4>1, Arrays DEF Sys, Requests
      <3>. QED  BY <1>7, <3>1, <3>2, <3>3, <3>4, <3>5
    <2>. HIDE DEF s
    <2>2. Ordinary(s)
      BY <2>1, Commanded DEF Ordinary
    <2>. QED  BY <1>4, <2>1, <2>2, OrdinaryFits DEF s
  <1>8. CASE a \in 7 .. (n + 6)
    <2>1. start_init[a] = Extra[a - 6] /\ a - 6 \in 1 .. n
      BY <1>2, <1>3, <1>8
    <2>2. Extra[a - 6] \in Requests /\ Ordinary(Extra[a - 6])
      BY <1>2, <2>1 DEF OrdinaryCalls, n
    <2>. QED  BY <1>4, <2>1, <2>2, OrdinaryFits
  <1>9. CASE a = n + 8
    <2>1. start_init[a] = Do("again") /\ Do("again").op = "again" /\ a > 1 /\ a # 4
      BY <1>2, <1>3, <1>9, DoIs
    <2>2. Placed("start_init", a, Do("again"))
      BY <2>1 DEF Placed, Commands
    <2>. QED  BY <2>1, <2>2, DoFits
  <1>. QED  BY <1>2, <1>5, <1>6, <1>7, <1>8, <1>9

\* All code is proper.
LEMMA CodeProper ==
    ASSUME Orderly, NEW c \in Codes
    PROVE  Proper(c)
  BY idle_proper, start_init_proper, interrupt_init_proper, keyboard_init_proper, PIT_init_proper,
     memory_init_proper, plain_proper, print_proper, clear_proper, registerInterrupt_proper,
     is_there_data_proper, get_key_proper, sleep_proper, register_handler_proper, get_ticks_proper,
     set_frequency_proper, kmalloc_proper, kfree_proper, isr_handler_proper, PIT_interrupt_proper,
     keyboard_interrupt_proper, tick_handler_proper
     DEF Codes, Inits, Commands, Irqs, Orderly

-----------------------------------------------------------------------------
(* The inductive invariant.                                                 *)

Frames == [bee : 0 .. 7, code : Codes, at : Nat, want : Words, saw : Words, global : Nat,
           eax : {NONE, NO_MODULE, NO_CMD, Unset}]

Typed ==
    /\ order \in Orders /\ turn \in 1 .. (Len(order) + 1)
    /\ stack \in Seq(Frames)
    /\ node \in [1 .. 7 -> [ptr : Words, global : Nat]]
    /\ MEMORY \in Nat \ {0} /\ heap \in Nat
    /\ allocF \in {"alloc", "core_alloc"}
    /\ blocks \subseteq [lo : Nat, hi : Nat, to : 0 .. 7]
    /\ ready \in [1 .. 7 -> Nat]
    /\ handler \in [{13, 32, 33} -> 0 .. 7]
    /\ unmasked \subseteq {32, 33}
    /\ IFlag \in BOOLEAN /\ ticked \in BOOLEAN /\ hooked \in BOOLEAN

\* The frame f may be the k-th on the stack.
InPlace(f, k) ==
    /\ f.at \in 1 .. (Len(Code[f.code]) + 1)
    /\ f.code \in Inits => k = 1
    /\ f.code \in Commands =>
          /\ f.bee \in 1 .. 7
          /\ k = 2 \/ (k = 3 /\ f.bee = 2 /\ f.code = "plain")
    /\ f.code \notin Commands => f.saw = NoArray

\* The init function at the bottom is that of the bee whose turn it was.
Running == stack # <<>> /\ stack[1].code \in Inits =>
               /\ turn > 1
               /\ stack[1].bee = order[turn - 1]
               /\ stack[1].code = InitOf[order[turn - 1]]

\* A command finds what its caller has passed where core->ptr leads.
Finds(f) == f.code \in Commands =>
    IF f.at <= ArgsAt(f.code) THEN f.saw = NoArray /\ node[f.bee].ptr = f.want
                              ELSE f.saw = f.want

\* The bee whose interrupt has vector v.
BeeOf(v) == IF v = 32 THEN 6 ELSE 5

\* An interrupt is served only by the handler of its bee.
Serves(f) == f.code = "isr_handler" =>
    \E v \in {32, 33} : f.want = Array(0, <<v>>) /\ handler[v] = BeeOf(v)

Called == Len(stack) > 1 /\ stack[2].code \in Commands
\* The step at which the init function has called the command above it.
made == Code[stack[1].code][stack[1].at - 1]

\* A command directly above an init function is one it has called, or kmalloc on
\* behalf of core_alloc.
Linked ==
    Called =>
        LET f == stack[2]
        IN  /\ stack[1].at > 1
            /\ made.op = "syscall"
            /\ \/ /\ made.id = f.bee
                  /\ made.cmd \in DOMAIN Exports[f.bee] /\ f.code = Exports[f.bee][made.cmd]
                  /\ f.want = Array(1, made.args)
               \/ /\ made.id = 0 /\ made.cmd = 1 /\ f.bee = 7 /\ f.code = "kmalloc"
                  /\ f.want = Array(1, <<made.args[2], made.args[1]>>)
                  /\ made.args[1] \in 1 .. 7 /\ allocF = "core_alloc"
                  /\ f.at <= 2 => node[made.args[1]].global = 0

\* A line is let through when the handler of its bee is registered.
Vectored ==
    /\ \A v \in unmasked : handler[v] = BeeOf(v)
    /\ stack # <<>> /\ ~Called /\ stack[1].at > 4 =>
          /\ stack[1].code = "PIT_init" => handler[32] = 6
          /\ stack[1].code = "keyboard_init" => handler[33] = 5
    /\ Called /\ stack[2].code = "registerInterrupt" /\ stack[2].at > 3 =>
          handler[stack[2].want.args[1]] = stack[2].want.args[2]

\* The storage of b was laid out by the bump allocator, or is in a block.
Bumped(b) == Hi(b) <= MEMORY
Granted(b) == \E e \in blocks : e.to = b /\ e.lo + HEADER <= Lo(b) /\ Hi(b) <= e.hi

Stored ==
    /\ \A b \in 1 .. 7 : node[b].global # 0 =>
          /\ Bumped(b) \/ Granted(b)
          /\ \A c \in 1 .. 7 \ {b} : node[c].global # 0 => Apart(Lo(b), Hi(b), Lo(c), Hi(c))
    /\ \A e, f \in blocks : e # f => Apart(e.lo, e.hi, f.lo, f.hi)
    /\ \A e \in blocks : e.to # 0 => allocF = "core_alloc" /\ heap <= e.lo

\* The heap begins behind everything the bump allocator has given away, from when
\* the memory manager has laid it out, and the bump allocator is not used then.
Behind ==
    /\ allocF = "core_alloc" \/ ready[7] # 0 =>
          MEMORY <= heap /\ \E k \in 1 .. (turn - 1) : order[k] = 7
    /\ ready[7] # 0 /\ allocF = "alloc" =>
          stack # <<>> /\ stack[1].code = "memory_init" /\ stack[1].at = 5
    /\ stack # <<>> /\ stack[1].code = "memory_init" =>
          /\ stack[1].at <= 5 => allocF = "alloc"
          /\ stack[1].at > 3 => MEMORY <= heap
          /\ stack[1].at <= 4 => ready[7] = 0

\* All of it.
IInv == /\ Typed
        /\ \A k \in DOMAIN stack : InPlace(stack[k], k)
        /\ \A k \in DOMAIN stack : Finds(stack[k]) /\ Serves(stack[k])
        /\ Running
        /\ Linked
        /\ Vectored
        /\ Stored
        /\ Behind

-----------------------------------------------------------------------------

\* The running function goes a step further as g.
Onto(g) == /\ g \in Frames /\ g.bee = top.bee /\ g.code = top.code /\ g.want = top.want
           /\ g.at = top.at + 1
           /\ g.saw = IF step.op = "args" THEN node[top.bee].ptr ELSE top.saw

\* The functions below it stay where they are.
Continues(g) == /\ Onto(g) /\ stack' \in Seq(Frames)
                /\ Len(stack') >= Len(stack)
                /\ stack'[Len(stack)] = g
                /\ \A k \in 1 .. (Len(stack) - 1) : stack'[k] = stack[k]
\* That is all that changes on the stack; or it calls a function with the frame h.
Moves(g)     == Continues(g) /\ Len(stack') = Len(stack)
Enters(g, h) == Continues(g) /\ Len(stack') = Len(stack) + 1 /\ stack'[Len(stack) + 1] = h

\* The running function is at a step of its code.
Stepping == stack # <<>> /\ top.at <= Len(Code[top.code])

\* The running function has a frame, of which the invariant holds.
LEMMA TopIs ==
    ASSUME IInv, stack # <<>>
    PROVE  /\ Len(stack) \in Nat \ {0} /\ Len(stack) \in DOMAIN stack
           /\ top \in Frames /\ InPlace(top, Len(stack)) /\ Finds(top) /\ Serves(top)
  <1>0. stack \in Seq(Frames)
    BY DEF IInv, Typed
  <1>1. Len(stack) \in Nat \ {0} /\ Len(stack) \in DOMAIN stack
    BY <1>0
  <1>2. top \in Frames
    BY <1>1 DEF IInv, Typed, top
  <1>. QED  BY <1>1, <1>2 DEF IInv, top

\* Its step is one that its code may have there, and there is a place after it.
LEMMA StepFits ==
    ASSUME IInv, Orderly, Stepping
    PROVE  /\ Fits(top.code, top.at, step)
           /\ top.at \in Nat \ {0} /\ top.at + 1 \in 1 .. (Len(Code[top.code]) + 1)
           /\ top.code \in Codes
  <1>1. top \in Frames /\ InPlace(top, Len(stack))
    BY TopIs DEF Stepping
  <1>2. top.code \in Codes /\ top.at \in Nat
    BY <1>1 DEF Frames
  <1>3. top.at \in 1 .. (Len(Code[top.code]) + 1)
    BY <1>1 DEF InPlace
  <1>4. Len(Code[top.code]) \in Int
    BY <1>2, CodeProper DEF Proper
  <1>5. top.at \in 1 .. Len(Code[top.code])
    BY <1>3, <1>4 DEF Stepping
  <1>. QED  BY <1>2, <1>4, <1>5, CodeProper DEF Proper, step

\* The stack with another frame for the running function, and with one more on that.
LEMMA Stacked ==
    ASSUME IInv, stack # <<>>, NEW g \in Frames, NEW h \in Frames
    PROVE  LET n == Len(stack)
               s == [stack EXCEPT ![n] = g]
               t == Append(s, h)
           IN  /\ s \in Seq(Frames) /\ Len(s) = n /\ s[n] = g
               /\ \A k \in 1 .. (n - 1) : s[k] = stack[k]
               /\ t \in Seq(Frames) /\ Len(t) = n + 1 /\ t[n] = g /\ t[n + 1] = h
               /\ \A k \in 1 .. (n - 1) : t[k] = stack[k]
  <1>1. stack \in Seq(Frames)
    BY DEF IInv, Typed
  <1>. DEFINE n == Len(stack)
              s == [stack EXCEPT ![n] = g]
  <1>2. n \in Nat \ {0}
    BY <1>1
  <1>3. /\ s \in Seq(Frames) /\ Len(s) = n /\ s[n] = g
        /\ \A k \in 1 .. (n - 1) : s[k] = stack[k]
    BY <1>1, <1>2
  <1>. HIDE DEF s, n
  <1>. DEFINE t == Append(s, h)
  <1>4. /\ t \in Seq(Frames) /\ Len(t) = n + 1 /\ t[n + 1] = h
        /\ \A k \in 1 .. n : t[k] = s[k]
    BY <1>2, <1>3
  <1>. HIDE DEF t
  <1>5. t[n] = g /\ \A k \in 1 .. (n - 1) : t[k] = stack[k]
    BY <1>2, <1>3, <1>4
  <1>. QED  BY <1>3, <1>4, <1>5 DEF s, n, t

\* A stack whose last frame is replaced by that of the next step, and one that has a
\* further frame on that.
LEMMA MovesTo ==
    ASSUME IInv, Stepping, NEW g, Onto(g), stack' = [stack EXCEPT ![Len(stack)] = g]
    PROVE  Moves(g)
  <1>1. g \in Frames /\ stack # <<>>
    BY DEF Onto, Stepping
  <1>2. /\ stack' \in Seq(Frames) /\ Len(stack') = Len(stack) /\ stack'[Len(stack)] = g
        /\ \A k \in 1 .. (Len(stack) - 1) : stack'[k] = stack[k]
    BY <1>1, Stacked
  <1>3. Len(stack) \in Nat
    BY <1>1, TopIs
  <1>4. \A m \in Nat : m >= m
    OBVIOUS
  <1>5. Len(stack') >= Len(stack)
    BY <1>2, <1>3, <1>4, Zenon
  <1>6. Continues(g)
    BY <1>2, <1>5 DEF Continues
  <1>. QED  BY <1>2, <1>6 DEF Moves

LEMMA EntersTo ==
    ASSUME IInv, Stepping, NEW g, Onto(g), NEW h \in Frames,
           stack' = Append([stack EXCEPT ![Len(stack)] = g], h)
    PROVE  Enters(g, h)
  <1>1. g \in Frames /\ stack # <<>>
    BY DEF Onto, Stepping
  <1>2. /\ stack' \in Seq(Frames) /\ Len(stack') = Len(stack) + 1 /\ stack'[Len(stack)] = g
        /\ stack'[Len(stack) + 1] = h
        /\ \A k \in 1 .. (Len(stack) - 1) : stack'[k] = stack[k]
    BY <1>1, Stacked
  <1>3. Len(stack) \in Nat
    BY <1>1, TopIs
  <1>4. Len(stack') >= Len(stack)
    BY <1>2, <1>3
  <1>5. Continues(g)
    BY <1>2, <1>4 DEF Continues
  <1>. QED  BY <1>2, <1>5 DEF Enters

\* What the operators for a step do to the stack.
LEMMA StepMoves ==
    ASSUME IInv, Orderly, Stepping, Step, step.op # "args"
    PROVE  LET g == [top EXCEPT !.at = @ + 1] IN Moves(g) /\ g.saw = top.saw
  <1>. DEFINE g == [top EXCEPT !.at = @ + 1]
  <1>1. top \in Frames /\ top.at + 1 \in Nat
    BY TopIs, StepFits DEF Stepping
  <1>2. /\ g \in Frames /\ g.bee = top.bee /\ g.code = top.code /\ g.want = top.want
        /\ g.at = top.at + 1 /\ g.saw = top.saw
    BY <1>1 DEF Frames
  <1>3. stack' = [stack EXCEPT ![Len(stack)] = g]
    BY DEF Step, Onward, top
  <1>. HIDE DEF g
  <1>4. Onto(g)
    BY <1>2 DEF Onto
  <1>5. Moves(g)
    BY <1>3, <1>4, MovesTo
  <1>. QED  BY <1>2, <1>5 DEF g

\* As StepMoves, for a step that the queen has answered.
LEMMA AnswerMoves ==
    ASSUME IInv, Orderly, Stepping, NEW e \in {NONE, NO_MODULE, NO_CMD, Unset}, Answer(e),
           step.op # "args"
    PROVE  Moves([top EXCEPT !.at = @ + 1, !.eax = e])
  <1>. DEFINE g == [top EXCEPT !.at = @ + 1, !.eax = e]
  <1>1. top \in Frames /\ top.at + 1 \in Nat
    BY TopIs, StepFits DEF Stepping
  <1>2. /\ g \in Frames /\ g.bee = top.bee /\ g.code = top.code /\ g.want = top.want
        /\ g.at = top.at + 1 /\ g.saw = top.saw
    BY <1>1 DEF Frames
  <1>3. stack' = [stack EXCEPT ![Len(stack)] = g]
    BY DEF Answer, Onward, top
  <1>. HIDE DEF g
  <1>4. Onto(g)
    BY <1>2 DEF Onto
  <1>5. Moves(g)
    BY <1>3, <1>4, MovesTo
  <1>. QED  BY <1>2, <1>5 DEF g

\* As StepMoves, for a step that calls a function.
LEMMA EnterEnters ==
    ASSUME IInv, Orderly, Stepping, NEW h \in Frames, Enter(h), step.op # "args"
    PROVE  Enters([top EXCEPT !.at = @ + 1], h)
  <1>. DEFINE g == [top EXCEPT !.at = @ + 1]
  <1>1. top \in Frames /\ top.at + 1 \in Nat
    BY TopIs, StepFits DEF Stepping
  <1>2. /\ g \in Frames /\ g.bee = top.bee /\ g.code = top.code /\ g.want = top.want
        /\ g.at = top.at + 1 /\ g.saw = top.saw
    BY <1>1 DEF Frames
  <1>3. stack' = Append([stack EXCEPT ![Len(stack)] = g], h)
    BY DEF Enter, Onward, top
  <1>. HIDE DEF g
  <1>4. Onto(g)
    BY <1>2 DEF Onto
  <1>5. Enters(g, h)
    BY <1>3, <1>4, EntersTo
  <1>. QED  BY <1>5 DEF g

\* As StepMoves, for a step that calls a function through the dispatcher.
LEMMA AnsweredEnters ==
    ASSUME IInv, Orderly, Stepping, NEW h \in Frames, NEW e \in {NONE, NO_MODULE, NO_CMD, Unset},
           EnterAnswered(h, e), step.op # "args"
    PROVE  Enters([top EXCEPT !.at = @ + 1, !.eax = e], h)
  <1>. DEFINE g == [top EXCEPT !.at = @ + 1, !.eax = e]
  <1>1. top \in Frames /\ top.at + 1 \in Nat
    BY TopIs, StepFits DEF Stepping
  <1>2. /\ g \in Frames /\ g.bee = top.bee /\ g.code = top.code /\ g.want = top.want
        /\ g.at = top.at + 1 /\ g.saw = top.saw
    BY <1>1 DEF Frames
  <1>3. stack' = Append([stack EXCEPT ![Len(stack)] = g], h)
    BY DEF EnterAnswered, Onward, top
  <1>. HIDE DEF g
  <1>4. Onto(g)
    BY <1>2 DEF Onto
  <1>5. Enters(g, h)
    BY <1>3, <1>4, EntersTo
  <1>. QED  BY <1>5 DEF g

-----------------------------------------------------------------------------
(* A step of the running function.                                          *)

\* A step leaves every frame in its place, and the same init function at the bottom.
LEMMA MoveInPlace ==
    ASSUME IInv, Orderly, Stepping, NEW g, Moves(g), order' = order, turn' = turn
    PROVE  /\ \A k \in DOMAIN stack' : InPlace(stack'[k], k)
           /\ Running'
  <1>. DEFINE n == Len(stack)
  <1>1. n \in Nat \ {0} /\ DOMAIN stack = 1 .. n /\ DOMAIN stack' = 1 .. n
    BY TopIs DEF Stepping, Moves, Continues, IInv, Typed
  <1>2. InPlace(g, n)
    <2>1. InPlace(top, n)
      BY TopIs DEF Stepping
    <2>2. /\ g.at \in 1 .. (Len(Code[g.code]) + 1)
          /\ g.code = top.code /\ g.bee = top.bee
      BY StepFits DEF Moves, Continues, Onto
    <2>3. g.code \notin Commands => g.saw = NoArray
      <3>. SUFFICES ASSUME top.code \notin Commands PROVE g.saw = NoArray
        BY <2>2
      <3>1. step.op # "args"
        BY StepFits DEF Fits, Placed
      <3>. QED  BY <2>1, <3>1 DEF Moves, Continues, Onto, InPlace
    <2>. QED  BY <2>1, <2>2, <2>3 DEF InPlace
  <1>3. \A k \in 1 .. (n - 1) : stack'[k] = stack[k]
    BY DEF Moves, Continues
  <1>4. stack'[n] = g
    BY DEF Moves, Continues
  <1>5. \A k \in DOMAIN stack : InPlace(stack[k], k)
    BY DEF IInv
  <1>6. stack'[1].code = stack[1].code /\ stack'[1].bee = stack[1].bee
    BY <1>1, <1>3, <1>4 DEF Moves, Continues, Onto, top
  <1>7. Running'
    BY <1>1, <1>6 DEF IInv, Running
  <1>. HIDE DEF n
  <1>. QED  BY <1>1, <1>2, <1>3, <1>4, <1>5, <1>7

\* A step that leaves every CoreData.ptr alone leaves the commands the arrays of their callers;
\* the one that reads its array reads the right one.
LEMMA MoveFinds ==
    ASSUME IInv, Orderly, Stepping, NEW g, Moves(g),
           \A b \in 1 .. 7 : node'[b].ptr = node[b].ptr
    PROVE  (\A k \in DOMAIN stack : Finds(stack[k]))'
  <1>. DEFINE n == Len(stack)
  <1>1. n \in Nat \ {0} /\ DOMAIN stack = 1 .. n /\ DOMAIN stack' = 1 .. n
    BY TopIs DEF Stepping, Moves, Continues, IInv, Typed
  <1>. HIDE DEF n
  <1>2. SUFFICES ASSUME NEW k \in 1 .. n, stack'[k].code \in Commands
                 PROVE  IF stack'[k].at <= ArgsAt(stack'[k].code)
                        THEN stack'[k].saw = NoArray /\ node'[stack'[k].bee].ptr = stack'[k].want
                        ELSE stack'[k].saw = stack'[k].want
    BY <1>1 DEF Finds
  <1>3. CASE k < n
    <2>1. stack'[k] = stack[k] /\ k \in DOMAIN stack
      BY <1>1, <1>3 DEF Moves, Continues, n
    <2>2. Finds(stack[k]) /\ stack[k].bee \in 1 .. 7
      BY <1>2, <2>1 DEF IInv, InPlace
    <2>. QED  BY <1>2, <2>1, <2>2 DEF Finds
  <1>4. CASE k = n
    <2>1. stack'[k] = g /\ Onto(g)
      BY <1>4 DEF Moves, Continues, n
    <2>2. Finds(top) /\ top.bee \in 1 .. 7 /\ top.code \in Commands
      BY <1>2, <2>1, TopIs DEF Onto, InPlace, Stepping
    <2>3. step.op = "args" <=> top.at = ArgsAt(top.code)
      BY <2>2, StepFits DEF Fits, Placed
    <2>4. top.at \in Nat /\ ArgsAt(top.code) \in Nat
      BY StepFits DEF ArgsAt
    <2>. QED  BY <1>2, <2>1, <2>2, <2>3, <2>4 DEF Finds, Onto
  <1>. QED  BY <1>1, <1>3, <1>4

\* A step that takes no handler away leaves the interrupts served.
LEMMA MoveServes ==
    ASSUME IInv, Stepping, NEW g, Moves(g),
           \A v \in {32, 33} : handler[v] = BeeOf(v) => handler'[v] = BeeOf(v)
    PROVE  (\A k \in DOMAIN stack : Serves(stack[k]))'
  <1>. DEFINE n == Len(stack)
  <1>1. n \in Nat \ {0} /\ DOMAIN stack = 1 .. n /\ DOMAIN stack' = 1 .. n
    BY TopIs DEF Stepping, Moves, Continues, IInv, Typed
  <1>. HIDE DEF n
  <1>2. SUFFICES ASSUME NEW k \in 1 .. n PROVE Serves(stack[k])'
    BY <1>1
  <1>3. stack'[k].code = stack[k].code /\ stack'[k].want = stack[k].want
    BY <1>1 DEF Moves, Continues, Onto, n, top
  <1>4. Serves(stack[k])
    BY <1>1 DEF IInv
  <1>. QED  BY <1>3, <1>4 DEF Serves

\* A step that leaves the storage alone leaves every command linked to the call it serves.
LEMMA MoveLinked ==
    ASSUME IInv, Orderly, Stepping, NEW g, Moves(g), allocF' = allocF,
           \A b \in 1 .. 7 : node'[b].global = node[b].global
    PROVE  Called' = Called /\ Linked'
  <1>. DEFINE n == Len(stack)
  <1>1. n \in Nat \ {0} /\ Len(stack') = n
    BY TopIs DEF Stepping, Moves, Continues
  <1>. HIDE DEF n
  <1>2. Called' = Called
    BY <1>1 DEF Called, Moves, Continues, Onto, n, top
  <1>3. ASSUME Called PROVE Linked'
    <2>1. n > 1 /\ stack'[1] = stack[1] /\ made' = made
      BY <1>1, <1>3 DEF Called, Moves, Continues, n, made
    <2>2. /\ stack'[2].bee = stack[2].bee /\ stack'[2].code = stack[2].code
          /\ stack'[2].want = stack[2].want
      BY <1>1, <2>1 DEF Moves, Continues, Onto, n, top
    <2>3. stack'[2].at <= 2 => stack[2].at <= 2
      BY <1>1, <2>1, StepFits DEF Moves, Continues, Onto, n, top
    <2>4. Linked
      BY DEF IInv
    <2>. QED  BY <1>3, <2>1, <2>2, <2>3, <2>4 DEF Linked
  <1>. QED  BY <1>2, <1>3 DEF Linked

\* A step that neither registers nor unmasks leaves the lines that are let through a handler.
LEMMA MoveVectored ==
    ASSUME IInv, Orderly, Stepping, NEW g, Moves(g), UNCHANGED <<handler, unmasked>>,
           step.op # "install", ~(top.code \in {"PIT_init", "keyboard_init"} /\ top.at = 4)
    PROVE  Vectored'
  <1>. DEFINE n == Len(stack)
  <1>1. n \in Nat \ {0} /\ Len(stack') = n
    BY TopIs DEF Stepping, Moves, Continues
  <1>. HIDE DEF n
  <1>2. Called' = Called
    BY <1>1 DEF Called, Moves, Continues, Onto, n, top
  <1>3. Vectored /\ top.at \in Nat
    BY StepFits DEF IInv
  <1>4. ASSUME stack' # <<>>, ~Called, stack'[1].at > 4
        PROVE  /\ stack'[1].code = "PIT_init" => handler[32] = 6
               /\ stack'[1].code = "keyboard_init" => handler[33] = 5
    <2>1. CASE n = 1
      <3>1. stack[1] = top /\ stack'[1] = g
        BY <2>1 DEF n, top, Moves, Continues
      <3>2. stack'[1].code = top.code /\ stack'[1].at = top.at + 1
        BY <3>1 DEF Moves, Continues, Onto
      <3>. QED  BY <1>3, <1>4, <3>1, <3>2 DEF Vectored, Stepping
    <2>2. CASE n > 1
      BY <1>1, <1>3, <1>4, <2>2 DEF Vectored, Moves, Continues, n, Stepping
    <2>. QED  BY <1>1, <2>1, <2>2
  <1>5. ASSUME Called, stack'[2].code = "registerInterrupt", stack'[2].at > 3
        PROVE  handler[stack'[2].want.args[1]] = stack'[2].want.args[2]
    <2>1. CASE n = 2
      <3>1. stack[2] = top /\ stack'[2] = g
        BY <2>1 DEF n, top, Moves, Continues
      <3>2. stack'[2].code = top.code /\ stack'[2].at = top.at + 1 /\ stack'[2].want = top.want
        BY <3>1 DEF Moves, Continues, Onto
      <3>3. top.at # 3
        BY <1>5, <3>2, StepFits DEF Fits, Placed
      <3>. QED  BY <1>3, <1>5, <3>1, <3>2, <3>3 DEF Vectored
    <2>2. CASE n > 2
      BY <1>1, <1>3, <1>5, <2>2 DEF Vectored, Moves, Continues, n
    <2>. QED  BY <1>1, <1>5, <2>1, <2>2 DEF Called, n
  <1>. QED  BY <1>2, <1>3, <1>4, <1>5 DEF Vectored

\* A step of no concern to the allocators leaves the heap behind what they have given away.
LEMMA MoveBehind ==
    ASSUME IInv, Orderly, Stepping, NEW g, Continues(g),
           UNCHANGED <<order, turn, MEMORY, heap, allocF>>, ready'[7] = ready[7],
           ~(top.code = "memory_init" /\ top.at \in {3, 4, 5})
    PROVE  Behind'
  <1>. DEFINE n == Len(stack)
  <1>1. n \in Nat \ {0} /\ Len(stack') >= n /\ Len(stack') \in Nat
    BY TopIs DEF Stepping, Continues
  <1>. HIDE DEF n
  <1>2. Behind /\ top.at \in Nat
    BY StepFits DEF IInv
  <1>3. stack # <<>> /\ stack' # <<>>
    BY <1>1 DEF Stepping
  <1>4. CASE n = 1
    <2>1. stack[1] = top /\ stack'[1] = g
      BY <1>4 DEF n, top, Continues
    <2>2. stack'[1].code = top.code /\ stack'[1].at = top.at + 1
      BY <2>1 DEF Continues, Onto
    <2>. QED  BY <1>2, <1>3, <2>1, <2>2 DEF Behind
  <1>5. CASE n > 1
    <2>1. stack'[1] = stack[1]
      BY <1>1, <1>5 DEF Continues, n
    <2>. QED  BY <1>2, <1>3, <2>1 DEF Behind
  <1>. QED  BY <1>1, <1>4, <1>5

\* No block is given away, and none given back that is the storage of a bee.
FreedOnly == blocks' \subseteq blocks /\ \A e \in blocks : e.to # 0 => e \in blocks'

\* The storage of the bees is apart as long as neither it nor the heap changes.
LEMMA StoredStays ==
    ASSUME IInv, UNCHANGED <<MEMORY, heap, allocF>>, FreedOnly,
           \A b \in 1 .. 7 : node'[b].global = node[b].global
    PROVE  Stored'
  <1>1. \A b \in 1 .. 7 : node[b].global # 0 => (Bumped(b) \/ Granted(b))'
    BY DEF IInv, Stored, Bumped, Granted, Lo, Hi, FreedOnly
  <1>. QED  BY <1>1 DEF IInv, Stored, Lo, Hi, FreedOnly

\* Types, for the steps that change the stack and the flags only.
LEMMA TypedStays ==
    ASSUME IInv, UNCHANGED <<order, turn, node, MEMORY, heap, allocF, ready, handler>>, FreedOnly,
           stack' \in Seq(Frames), unmasked' \subseteq {32, 33},
           IFlag' \in BOOLEAN, ticked' \in BOOLEAN, hooked' \in BOOLEAN
    PROVE  Typed'
  BY DEF IInv, Typed, FreedOnly

\* Most steps change nothing that the invariant is about.
LEMMA QuietMove ==
    ASSUME IInv, Orderly, Stepping, NEW g, Moves(g),
           UNCHANGED <<order, turn, node, MEMORY, heap, allocF, ready, handler, unmasked>>, FreedOnly,
           IFlag' \in BOOLEAN, ticked' \in BOOLEAN, hooked' \in BOOLEAN,
           step.op # "install",
           ~(top.code \in {"PIT_init", "keyboard_init"} /\ top.at = 4),
           ~(top.code = "memory_init" /\ top.at \in {3, 4, 5})
    PROVE  IInv'
  <1>1. Typed'
    <2>1. stack' \in Seq(Frames) /\ unmasked' \subseteq {32, 33}
      BY DEF Moves, Continues, IInv, Typed
    <2>. QED  BY <2>1, TypedStays
  <1>2. (\A k \in DOMAIN stack : InPlace(stack[k], k))' /\ Running'
    BY MoveInPlace
  <1>3. (\A k \in DOMAIN stack : Finds(stack[k]))'
    BY MoveFinds
  <1>4. (\A k \in DOMAIN stack : Serves(stack[k]))'
    BY MoveServes
  <1>5. Linked'
    BY MoveLinked
  <1>6. Vectored'
    BY MoveVectored
  <1>7. Stored'
    BY StoredStays
  <1>8. Behind'
    BY MoveBehind DEF Moves
  <1>. QED  BY <1>1, <1>2, <1>3, <1>4, <1>5, <1>6, <1>7, <1>8 DEF IInv

-----------------------------------------------------------------------------
(* A call.                                                                  *)

\* A call makes the stack longer by one.
LEMMA EntersLength ==
    ASSUME IInv, Stepping, NEW g, NEW h, Enters(g, h)
    PROVE  /\ Len(stack) \in Nat \ {0} /\ DOMAIN stack = 1 .. Len(stack)
           /\ DOMAIN stack' = 1 .. (Len(stack) + 1) /\ Len(stack') = Len(stack) + 1
           /\ stack # <<>> /\ stack' # <<>>
  <1>1. stack \in Seq(Frames) /\ stack' \in Seq(Frames) /\ Len(stack') = Len(stack) + 1
    BY DEF Enters, Continues, IInv, Typed
  <1>2. stack # <<>>
    BY DEF Stepping
  <1>. QED  BY <1>1, <1>2

\* Of a function of the interrupt, from another one.
LEMMA IrqEnters ==
    ASSUME IInv, Orderly, Stepping, top.code \in Irqs, NEW g, NEW h, Enters(g, h),
           h.code \in Irqs \ {"isr_handler"}, h.saw = NoArray, h.at = 1,
           UNCHANGED <<order, turn, node, MEMORY, heap, allocF, blocks, ready, handler, unmasked>>,
           UNCHANGED <<IFlag, ticked, hooked>>
    PROVE  IInv'
  <1>. DEFINE n == Len(stack)
  <1>1. /\ n \in Nat \ {0} /\ DOMAIN stack = 1 .. n /\ DOMAIN stack' = 1 .. (n + 1)
        /\ Len(stack') = n + 1 /\ stack # <<>> /\ stack' # <<>>
    BY EntersLength
  <1>. HIDE DEF n
  <1>2. /\ g.code = top.code /\ g.saw = top.saw /\ g.want = top.want
        /\ g.at \in 1 .. (Len(Code[g.code]) + 1)
    <2>1. step.op # "args"
      BY StepFits DEF Fits, Placed, Irqs, Commands
    <2>. QED  BY <2>1, StepFits DEF Enters, Continues, Onto
  <1>3. InPlace(top, n) /\ Serves(top)
    BY TopIs DEF Stepping, n
  <1>4. g.code \notin Commands /\ h.code \notin Commands /\ g.code \notin Inits /\ h.code \notin Inits
    BY <1>2 DEF Irqs, Commands, Inits
  <1>5. stack'[n] = g /\ stack'[n + 1] = h /\ \A k \in 1 .. (n - 1) : stack'[k] = stack[k]
    BY DEF Enters, Continues, n
  <1>6. Typed'
    BY TypedStays DEF Enters, Continues, IInv, Typed
  <1>7. (\A k \in DOMAIN stack : InPlace(stack[k], k))'
    <2>1. InPlace(g, n)
      BY <1>2, <1>3, <1>4 DEF InPlace
    <2>2. InPlace(h, n + 1)
      <3>1. Len(Code[h.code]) \in Nat
        BY CodeProper DEF Proper, Codes
      <3>. QED  BY <1>4, <3>1 DEF InPlace
    <2>. QED  BY <1>1, <1>5, <2>1, <2>2 DEF IInv
  <1>8. (\A k \in DOMAIN stack : Finds(stack[k]))'
    BY <1>1, <1>4, <1>5 DEF IInv, Finds
  <1>9. (\A k \in DOMAIN stack : Serves(stack[k]))'
    <2>1. Serves(g)' /\ Serves(h)'
      BY <1>2, <1>3 DEF Serves
    <2>. QED  BY <1>1, <1>5, <2>1 DEF IInv, Serves
  <1>10. n = 1 => stack[1].code \notin Inits /\ stack'[1].code \notin Inits
    BY <1>2, <1>4, <1>5 DEF top, n
  <1>11. n > 1 => stack'[1] = stack[1]
    BY <1>1, <1>5
  <1>12. Running'
    BY <1>1, <1>10, <1>11 DEF IInv, Running
  <1>13. /\ Called' = Called
         /\ Called => n > 2 /\ stack'[2] = stack[2] /\ stack'[1] = stack[1]
    <2>1. CASE n = 1
      BY <1>1, <1>4, <1>5, <2>1 DEF Called, n
    <2>2. CASE n = 2
      BY <1>1, <1>2, <1>4, <1>5, <2>2 DEF Called, n, top
    <2>3. CASE n > 2
      BY <1>1, <1>5, <2>3 DEF Called, n
    <2>. QED  BY <1>1, <2>1, <2>2, <2>3
  <1>14. Linked'
    BY <1>13 DEF IInv, Linked, made
  <1>15. Vectored'
    <2>1. stack'[1].code \in Inits => stack'[1] = stack[1]
      BY <1>1, <1>10, <1>11
    <2>. QED  BY <1>1, <1>13, <2>1 DEF IInv, Vectored, Inits
  <1>16. Stored'
    BY StoredStays DEF FreedOnly
  <1>17. Behind'
    <2>1. top.code # "memory_init"
      BY DEF Irqs
    <2>. QED  BY <2>1, MoveBehind DEF Enters
  <1>. QED  BY <1>6, <1>7, <1>8, <1>9, <1>12, <1>14, <1>15, <1>16, <1>17 DEF IInv

\* Of a command, through the dispatcher.
LEMMA CommandEnters ==
    ASSUME IInv, Orderly, Stepping, step.op = "syscall", NEW g, NEW h, Enters(g, h),
           h.code \in Commands, h.bee \in 1 .. 7, h.saw = NoArray, h.at = 1, h.want \in Words,
           \/ top.code \in Inits
           \/ top.code = "print" /\ top.at = 2 /\ h.bee = 2 /\ h.code = "plain",
           top.code \in Inits =>
              \/ /\ step.id = h.bee
                 /\ step.cmd \in DOMAIN Exports[h.bee] /\ h.code = Exports[h.bee][step.cmd]
                 /\ h.want = Array(1, step.args)
              \/ /\ step.id = 0 /\ step.cmd = 1 /\ h.bee = 7 /\ h.code = "kmalloc"
                 /\ h.want = Array(1, <<step.args[2], step.args[1]>>)
                 /\ step.args[1] \in 1 .. 7 /\ allocF = "core_alloc"
                 /\ node[step.args[1]].global = 0,
           ~(top.code = "memory_init" /\ top.at \in {3, 4, 5}),
           node' = [node EXCEPT ![h.bee].ptr = h.want],
           UNCHANGED <<order, turn, MEMORY, heap, allocF, blocks, ready, handler, unmasked>>,
           UNCHANGED <<IFlag, ticked, hooked>>
    PROVE  IInv'
  <1>. DEFINE n == Len(stack)
  <1>1. /\ n \in Nat \ {0} /\ DOMAIN stack = 1 .. n /\ DOMAIN stack' = 1 .. (n + 1)
        /\ Len(stack') = n + 1 /\ stack # <<>> /\ stack' # <<>>
    BY EntersLength
  <1>. HIDE DEF n
  <1>2. /\ g.code = top.code /\ g.bee = top.bee /\ g.saw = top.saw /\ g.want = top.want
        /\ g.at = top.at + 1 /\ g.at \in 1 .. (Len(Code[g.code]) + 1)
    BY StepFits DEF Enters, Continues, Onto
  <1>3. InPlace(top, n) /\ Serves(top) /\ Finds(top) /\ top.at \in Nat
    BY TopIs, StepFits DEF Stepping, n
  <1>4. stack'[n] = g /\ stack'[n + 1] = h /\ \A k \in 1 .. (n - 1) : stack'[k] = stack[k]
    BY DEF Enters, Continues, n
  <1>5. stack[n] = top
    BY DEF top, n
  <1>6. \/ n = 1 /\ top.code \in Inits
        \/ n = 2 /\ top.code = "print" /\ top.at = 2 /\ h.bee = 2 /\ h.code = "plain"
    <2>1. CASE top.code \in Inits
      BY <1>3, <2>1 DEF InPlace
    <2>2. CASE top.code = "print"
      BY <1>3, <2>2 DEF InPlace, Commands, Inits
    <2>. QED  BY <2>1, <2>2
  <1>7. /\ node' \in [1 .. 7 -> [ptr : Words, global : Nat]]
        /\ \A b \in 1 .. 7 : node'[b].global = node[b].global
        /\ node'[h.bee].ptr = h.want
    <2>1. node \in [1 .. 7 -> [ptr : Words, global : Nat]]
      BY DEF IInv, Typed
    <2>. QED  BY <2>1
  <1>8. Typed'
    BY <1>7 DEF Enters, Continues, IInv, Typed
  <1>9. (\A k \in DOMAIN stack : InPlace(stack[k], k))'
    <2>1. InPlace(g, n)
      BY <1>2, <1>3 DEF InPlace
    <2>2. InPlace(h, n + 1)
      <3>1. Len(Code[h.code]) \in Nat
        BY CodeProper DEF Proper, Codes
      <3>2. h.code \notin Inits
        BY DEF Inits, Commands
      <3>. QED  BY <1>6, <3>1, <3>2 DEF InPlace
    <2>3. \A k \in 1 .. (n - 1) : InPlace(stack'[k], k)
      BY <1>1, <1>4 DEF IInv
    <2>. QED  BY <1>1, <1>4, <2>1, <2>2, <2>3
  <1>10. (\A k \in DOMAIN stack : Finds(stack[k]))'
    <2>1. Finds(h)'
      BY <1>7 DEF Finds, ArgsAt
    <2>2. Finds(g)'
      <3>1. CASE n = 1
        BY <1>2, <1>6, <3>1 DEF Finds, Inits, Commands
      <3>2. CASE n = 2
        BY <1>2, <1>3, <1>6, <3>2 DEF Finds, ArgsAt
      <3>. QED  BY <1>6, <3>1, <3>2
    <2>3. n = 2 => stack[1].code \notin Commands
      BY <1>1 DEF IInv, InPlace
    <2>. QED  BY <1>1, <1>4, <1>6, <2>1, <2>2, <2>3 DEF Finds
  <1>11. (\A k \in DOMAIN stack : Serves(stack[k]))'
    <2>1. Serves(g)' /\ Serves(h)'
      BY <1>2, <1>3 DEF Serves, Commands
    <2>. QED  BY <1>1, <1>4, <2>1 DEF IInv, Serves
  <1>12. stack'[1].code = stack[1].code /\ stack'[1].bee = stack[1].bee
    BY <1>1, <1>2, <1>4, <1>5
  <1>13. Running'
    BY <1>1, <1>12 DEF IInv, Running
  <1>14. ASSUME n = 1 PROVE Linked' /\ Vectored'
    <2>1. /\ Called' /\ stack'[1] = g /\ stack'[2] = h /\ stack'[1].at > 1
          /\ made' = step
      <3>1. stack'[1] = g /\ stack'[2] = h /\ Len(stack') = 2
        BY <1>1, <1>4, <1>14
      <3>2. g.code = top.code /\ g.at - 1 = top.at /\ g.at > 1
        BY <1>2, <1>3, StepFits
      <3>3. made' = Code[g.code][g.at - 1]
        BY <3>1 DEF made
      <3>4. made' = step
        BY <3>2, <3>3 DEF step
      <3>. QED  BY <3>1, <3>2, <3>4 DEF Called
    <2>2. Linked'
      BY <1>6, <1>7, <1>14, <2>1 DEF Linked, Inits
    <2>3. Vectored'
      BY <2>1 DEF IInv, Vectored
    <2>. QED  BY <2>2, <2>3
  <1>15. ASSUME n = 2 PROVE Linked' /\ Vectored'
    <2>1. /\ Called /\ Called' /\ stack'[1] = stack[1] /\ stack'[2] = g /\ stack[2] = top
          /\ made' = made
      BY <1>1, <1>2, <1>4, <1>5, <1>6, <1>15 DEF Called, made, Commands
    <2>2. Linked'
      BY <1>2, <1>6, <1>15, <2>1 DEF IInv, Linked
    <2>3. Vectored'
      BY <1>2, <1>6, <1>15, <2>1 DEF IInv, Vectored
    <2>. QED  BY <2>2, <2>3
  <1>16. Stored'
    BY <1>7, StoredStays DEF FreedOnly
  <1>17. Behind'
    BY MoveBehind DEF Enters
  <1>. QED  BY <1>6, <1>8, <1>9, <1>10, <1>11, <1>13, <1>14, <1>15, <1>16, <1>17 DEF IInv

-----------------------------------------------------------------------------
(* The actions.                                                             *)

\* A function that is at a step is at a step of its code.
LEMMA AtIs ==
    ASSUME NEW op, At(op)
    PROVE  Stepping /\ step.op = op
  BY DEF At, Stepping

\* What stands at the places that need care.
LEMMA Where ==
    ASSUME IInv, Orderly, Stepping
    PROVE  /\ top.code = "PIT_init" /\ top.at = 4 => step = Sys(4, 1, <<32, 6>>)
           /\ top.code = "keyboard_init" /\ top.at = 4 => step = Sys(4, 1, <<33, 5>>)
           /\ top.code = "memory_init" /\ top.at = 3 => step.op = "syscall" /\ step.id = 0 /\ step.cmd = 4
           /\ top.code = "memory_init" /\ top.at = 4 => step.op = "heap"
           /\ top.code = "memory_init" /\ top.at = 5 => step.op = "syscall" /\ step.id = 0 /\ step.cmd = 5
  BY StepFits DEF Fits, Placed, Allowed

\* What an init function that runs needs is on the disk.
LEMMA Companions ==
    ASSUME IInv, stack # <<>>, top.code \in {"PIT_init", "keyboard_init"}
    PROVE  Present(4)
  <1>1. stack[1] = top /\ top.code \in Inits
    BY TopIs DEF InPlace, Inits, top
  <1>0. order \in Orders /\ order \in Seq(1 .. 7)
    BY CoreAssumption DEF IInv, Typed
  <1>2. turn - 1 \in DOMAIN order /\ top.code = InitOf[order[turn - 1]]
    <2>1. turn > 1 /\ turn \in 1 .. (Len(order) + 1) /\ top.code = InitOf[order[turn - 1]]
      BY <1>1 DEF IInv, Running, Typed
    <2>. QED  BY <1>0, <2>1
  <1>3. order[turn - 1] \in {5, 6}
    <2>1. order[turn - 1] \in 1 .. 7
      BY <1>0, <1>2
    <2>. QED  BY <1>2, <2>1 DEF InitOf
  <1>4. 4 \in Range(order)
    BY <1>0, <1>2, <1>3, CoreAssumption DEF Range
  <1>. QED  BY <1>4 DEF Present, Range

\* Calls that the queen answers and that change nothing else keep the invariant.
LEMMA QuietAnswers ==
    ASSUME IInv, Orderly,
           Core_alloc_again \/ Core_data \/ Core_no_module \/ Core_no_cmd
    PROVE  IInv'
  <1>1. Stepping /\ step.op = "syscall"
    BY AtIs DEF Core_alloc_again, Core_data, Core_no_module, Core_no_cmd, Call
  <1>2. PICK e \in {NONE, NO_MODULE, NO_CMD, Unset} : Answer(e)
    BY DEF Core_alloc_again, Core_data, Core_no_module, Core_no_cmd
  <1>3. PICK g : Moves(g)
    BY <1>1, <1>2, AnswerMoves
  <1>4. ~(top.code \in {"PIT_init", "keyboard_init"} /\ top.at = 4)
    <2>. SUFFICES ASSUME top.code \in {"PIT_init", "keyboard_init"}, top.at = 4 PROVE FALSE
      OBVIOUS
    <2>1. step.id = 4 /\ step.cmd = 1
      BY <1>1, Where DEF Sys
    <2>2. Present(4)
      BY <1>1, Companions DEF Stepping
    <2>. QED  BY <2>1, <2>2 DEF Core_alloc_again, Core_data, Core_no_module, Core_no_cmd, Call, Target
  <1>5. ~(top.code = "memory_init" /\ top.at \in {3, 4, 5})
    BY <1>1, Where DEF Core_alloc_again, Core_data, Core_no_module, Core_no_cmd, Call
  <1>. QED
    BY <1>1, <1>3, <1>4, <1>5, QuietMove
    DEF Core_alloc_again, Core_data, Core_no_module, Core_no_cmd, queen, irqs, bees, IInv, Typed, FreedOnly

\* So do steps that change no more than a flag.
LEMMA QuietSteps ==
    ASSUME IInv, Orderly,
           \/ Cli \/ Sti \/ Look \/ StartSleep \/ Tick \/ SleepOver \/ Hook
           \/ EndOfInterrupt \/ KmallocFails \/ Kfree
    PROVE  IInv'
  <1>. USE DEF Cli, Sti, Look, StartSleep, Tick, SleepOver, Hook, EndOfInterrupt, KmallocFails, Kfree
  <1>1. Stepping /\ step.op \in {"cli", "sti", "look", "put", "start", "tick", "wait", "hook",
                                 "eoi", "kmalloc", "kfree"}
    BY AtIs
  <1>2. Step
    OBVIOUS
  <1>3. PICK g : Moves(g)
    BY <1>1, <1>2, StepMoves
  <1>4. ~(top.code \in {"PIT_init", "keyboard_init"} /\ top.at = 4)
    BY <1>1, StepFits DEF Fits, Placed
  <1>5. ~(top.code = "memory_init" /\ top.at \in {3, 4, 5})
    BY <1>1, Where
  <1>6. /\ UNCHANGED <<order, turn, node, MEMORY, heap, allocF, ready, handler, unmasked>>
        /\ IFlag' \in BOOLEAN /\ ticked' \in BOOLEAN /\ hooked' \in BOOLEAN
    BY DEF queen, irqs, bees, IInv, Typed
  <1>7. FreedOnly
    BY DEF queen, irqs, bees, FreedOnly
  <1>. QED  BY <1>1, <1>3, <1>4, <1>5, <1>6, <1>7, QuietMove

\* So does CMD 2, with which a function learns where its storage is.
LEMMA StorageKeeps ==
    ASSUME IInv, Orderly, Core_storage
    PROVE  IInv'
  <1>1. Stepping /\ step.op = "syscall" /\ step.id = 0 /\ step.cmd = 2
    BY AtIs DEF Core_storage, Call
  <1>. DEFINE g == [top EXCEPT !.at = @ + 1, !.eax = NONE, !.global = node[step.args[1]].global]
  <1>2. top \in Frames /\ top.at + 1 \in Nat
    BY <1>1, TopIs, StepFits DEF Stepping
  <1>3. node[step.args[1]].global \in Nat
    <2>1. order \in Seq(1 .. 7)
      BY CoreAssumption DEF IInv, Typed
    <2>2. step.args[1] \in 1 .. 7
      BY <2>1 DEF Core_storage, Present
    <2>. QED  BY <2>2 DEF IInv, Typed
  <1>4. /\ g \in Frames /\ g.bee = top.bee /\ g.code = top.code /\ g.want = top.want
        /\ g.at = top.at + 1 /\ g.saw = top.saw
    BY <1>2, <1>3 DEF Frames
  <1>5. stack' = [stack EXCEPT ![Len(stack)] = g]
    BY DEF Core_storage, Onward, top
  <1>. HIDE DEF g
  <1>6. Moves(g)
    <2>1. Onto(g)
      BY <1>1, <1>4 DEF Onto
    <2>. QED  BY <1>1, <1>5, <2>1, MovesTo
  <1>7. ~(top.code \in {"PIT_init", "keyboard_init"} /\ top.at = 4)
    BY <1>1, Where DEF Sys
  <1>8. ~(top.code = "memory_init" /\ top.at \in {3, 4, 5})
    BY <1>1, Where
  <1>. QED
    BY <1>1, <1>6, <1>7, <1>8, QuietMove DEF Core_storage, queen, irqs, bees, IInv, Typed, FreedOnly

\* A bee that is there is one of the seven.
LEMMA PresentIs ==
    ASSUME IInv, NEW b, Present(b)
    PROVE  b \in 1 .. 7
  <1>1. order \in Seq(1 .. 7)
    BY CoreAssumption DEF IInv, Typed
  <1>. QED  BY <1>1 DEF Present

\* A call of a command keeps the invariant: the command will find its array, because no
\* other command of its bee is on the stack.
LEMMA DispatchKeeps ==
    ASSUME IInv, Orderly, Core_dispatch
    PROVE  IInv'
  <1>1. Stepping /\ step.op = "syscall" /\ step.id \in 1 .. 7
    BY AtIs, PresentIs DEF Core_dispatch
  <1>2. Allowed(top.code, top.at, step) /\ Numbers(step)
    BY <1>1, StepFits DEF Fits
  <1>3. step.cmd \in DOMAIN Exports[step.id]
    BY <1>1, <1>2 DEF Core_dispatch, Allowed, Numbers
  <1>. DEFINE h == Callee(step.id, step.cmd, Passed)
  <1>4. Passed \in Words /\ Passed = Array(Len(stack), step.args)
    BY <1>1, <1>2, TopIs DEF Passed, Array, Words, Numbers, Stepping
  <1>5. /\ h \in Frames /\ h.bee = step.id /\ h.code = Exports[step.id][step.cmd]
        /\ h.saw = NoArray /\ h.at = 1 /\ h.want = Passed /\ h.code \in Commands
    <2>1. Exports[step.id][step.cmd] \in Commands
      BY <1>1, <1>3, CommandsAre
    <2>2. NoArray \in Words
      BY Arrays DEF NoArray, Array, Words
    <2>3. node[step.id].global \in Nat
      BY <1>1 DEF IInv, Typed
    <2>. QED  BY <1>1, <1>4, <2>1, <2>2, <2>3 DEF Callee, Frame, Frames, Codes
  <1>6. EnterAnswered(h, NONE)
    BY <1>3 DEF Core_dispatch
  <1>. HIDE DEF h
  <1>7. PICK g : Enters(g, h)
    BY <1>1, <1>5, <1>6, AnsweredEnters
  <1>8. \/ top.code \in Inits
        \/ top.code = "print" /\ top.at = 2 /\ h.bee = 2 /\ h.code = "plain"
    BY <1>1, <1>2, <1>5, ExportsAre DEF Allowed
  <1>9. top.code \in Inits => h.want = Array(1, step.args)
    <2>1. top.code \in Inits => Len(stack) = 1
      BY <1>1, TopIs DEF InPlace, Stepping
    <2>. QED  BY <1>4, <1>5, <2>1
  <1>10. ~(top.code = "memory_init" /\ top.at \in {3, 4, 5})
    BY <1>1, Where
  <1>11. node' = [node EXCEPT ![h.bee].ptr = h.want]
    BY <1>5 DEF Core_dispatch, SetCoreData
  <1>12. /\ UNCHANGED <<order, turn, MEMORY, heap, allocF, blocks, ready, handler, unmasked>>
         /\ UNCHANGED <<IFlag, ticked, hooked>>
    BY DEF Core_dispatch, irqs, bees
  <1>. QED
    BY <1>1, <1>3, <1>4, <1>5, <1>7, <1>8, <1>9, <1>10, <1>11, <1>12, CommandEnters

\* So does an allocation that the queen has passed on to kmalloc.
LEMMA AllocHeapKeeps ==
    ASSUME IInv, Orderly, Core_alloc_heap
    PROVE  IInv'
  <1>1. Stepping /\ step.op = "syscall" /\ step.id = 0 /\ step.cmd = 1 /\ step.args[1] \in 1 .. 7
    BY AtIs, PresentIs DEF Core_alloc_heap, Call
  <1>2. /\ top.code \in Inits /\ Numbers(step) /\ Len(step.args) = 2
    BY <1>1, StepFits DEF Fits, Allowed
  <1>3. Len(stack) = 1
    BY <1>1, <1>2, TopIs DEF InPlace, Stepping
  <1>. DEFINE array == Array(Len(stack), <<step.args[2], step.args[1]>>)
              h == Callee(7, 1, array)
  <1>4. array \in Words /\ array = Array(1, <<step.args[2], step.args[1]>>)
    <2>1. step.args[1] \in Nat /\ step.args[2] \in Nat
      BY <1>2 DEF Numbers
    <2>. QED  BY <1>3, <2>1, Arrays DEF Array, Words
  <1>. HIDE DEF array
  <1>5. /\ h \in Frames /\ h.bee = 7 /\ h.code = "kmalloc"
        /\ h.saw = NoArray /\ h.at = 1 /\ h.want = array /\ h.code \in Commands
    <2>1. Exports[7][1] = "kmalloc" /\ "kmalloc" \in Commands
      BY ExportsAre DEF Commands
    <2>2. NoArray \in Words
      BY Arrays DEF NoArray, Array, Words
    <2>3. node[7].global \in Nat
      BY DEF IInv, Typed
    <2>. QED  BY <1>4, <2>1, <2>2, <2>3 DEF Callee, Frame, Frames, Codes
  <1>6. EnterAnswered(h, NONE)
    BY DEF Core_alloc_heap, array
  <1>. HIDE DEF h
  <1>7. PICK g : Enters(g, h)
    BY <1>1, <1>5, <1>6, AnsweredEnters
  <1>8. /\ allocF = "core_alloc" /\ node[step.args[1]].global = 0
        /\ node' = [node EXCEPT ![h.bee].ptr = h.want]
    BY <1>5 DEF Core_alloc_heap, Refused, SetCoreData, array
  <1>9. ~(top.code = "memory_init" /\ top.at \in {3, 4, 5})
    BY <1>1, Where
  <1>10. /\ UNCHANGED <<order, turn, MEMORY, heap, allocF, blocks, ready, handler, unmasked>>
         /\ UNCHANGED <<IFlag, ticked, hooked>>
    BY DEF Core_alloc_heap, irqs, bees
  <1>11. /\ step.id = 0 /\ step.cmd = 1 /\ h.bee = 7 /\ h.code = "kmalloc"
         /\ h.want = Array(1, <<step.args[2], step.args[1]>>)
         /\ step.args[1] \in 1 .. 7 /\ allocF = "core_alloc"
         /\ node[step.args[1]].global = 0
    BY <1>1, <1>4, <1>5, <1>8
  <1>12. h.want \in Words /\ h.bee \in 1 .. 7
    BY <1>4, <1>5
  <1>. QED
    BY <1>1, <1>2, <1>5, <1>7, <1>8, <1>9, <1>10, <1>11, <1>12, CommandEnters

\* So does one by the bump allocator: the words at MEMORY are behind those of all bees.
LEMMA AllocBumpKeeps ==
    ASSUME IInv, Orderly, Core_alloc_bump
    PROVE  IInv'
  <1>. DEFINE b == step.args[1]
              z == step.args[2]
  <1>1. Stepping /\ step.op = "syscall" /\ step.id = 0 /\ step.cmd = 1 /\ b \in 1 .. 7
    BY AtIs, PresentIs DEF Core_alloc_bump, Call
  <1>2. /\ top.code \in Inits /\ z >= Size[b] /\ z \in Nat
        /\ top.code = "memory_init" => top.at = 1
    <2>1. Allowed(top.code, top.at, step) /\ step.args \in Seq(Nat)
      BY <1>1, StepFits DEF Fits, Numbers
    <2>2. /\ top.code \in Inits /\ Len(step.args) = 2 /\ z >= Size[b]
          /\ top.code = "memory_init" => top.at = 1
      BY <1>1, <2>1 DEF Allowed
    <2>. QED  BY <2>1, <2>2
  <1>3. /\ node[b].global = 0 /\ allocF = "alloc" /\ MEMORY \in Nat \ {0}
        /\ node' = [node EXCEPT ![b].global = MEMORY]
        /\ MEMORY' = MEMORY + z
        /\ UNCHANGED <<order, turn, allocF, handler, unmasked, IFlag>>
        /\ UNCHANGED <<heap, blocks, ticked, hooked>>
        /\ ready' = Cleared(z)
    BY DEF Core_alloc_bump, Refused, alloc, irqs, IInv, Typed
  <1>0. /\ ready' \in [1 .. 7 -> Nat] /\ (ready[7] = 0 => ready'[7] = 0)
    <2>1. ready \in [1 .. 7 -> Nat]
      BY DEF IInv, Typed
    <2>. QED  BY <1>3, <2>1 DEF Cleared
  <1>4. Answer(NONE)
    BY DEF Core_alloc_bump
  <1>5. PICK g : Moves(g)
    BY <1>1, <1>4, AnswerMoves
  <1>. HIDE DEF b, z
  <1>6. Len(stack) = 1 /\ Len(stack') = 1 /\ stack[1] = top /\ stack'[1] = g
    BY <1>1, <1>2, <1>5, TopIs DEF InPlace, Stepping, Moves, Continues, top
  <1>7. /\ node' \in [1 .. 7 -> [ptr : Words, global : Nat]]
        /\ \A c \in 1 .. 7 : node'[c].ptr = node[c].ptr
        /\ node'[b].global = MEMORY
        /\ \A c \in 1 .. 7 \ {b} : node'[c].global = node[c].global
    <2>1. node \in [1 .. 7 -> [ptr : Words, global : Nat]]
      BY DEF IInv, Typed
    <2>. QED  BY <1>1, <1>3, <2>1
  <1>8. Typed'
    <2>1. MEMORY' \in Nat \ {0} /\ stack' \in Seq(Frames)
      BY <1>2, <1>3, <1>5 DEF Moves, Continues
    <2>. QED  BY <1>0, <1>3, <1>7, <2>1 DEF IInv, Typed
  <1>9. (\A k \in DOMAIN stack : InPlace(stack[k], k))' /\ Running'
    BY <1>1, <1>3, <1>5, MoveInPlace
  <1>10. (\A k \in DOMAIN stack : Finds(stack[k]))'
    BY <1>1, <1>5, <1>7, MoveFinds
  <1>11. (\A k \in DOMAIN stack : Serves(stack[k]))'
    BY <1>1, <1>3, <1>5, MoveServes
  <1>12. Linked'
    BY <1>6 DEF Linked, Called
  <1>13. Vectored'
    BY <1>1, <1>3, <1>5, MoveVectored, Where DEF Sys
  <1>14. Stored'
    <2>1. \A c \in 1 .. 7 \ {b} : node[c].global # 0 => Bumped(c)
      BY <1>3 DEF IInv, Stored, Granted
    <2>2. /\ Size \in [1 .. 7 -> Nat] /\ \A c \in 1 .. 7 : node[c].global \in Nat
      BY Sizes DEF IInv, Typed
    <2>3. \A c \in 1 .. 7 : node'[c].global # 0 => Bumped(c)'
      BY <1>1, <1>2, <1>3, <1>7, <2>1, <2>2 DEF Bumped, Lo, Hi
    <2>4. \A c, d \in 1 .. 7 : c # d /\ node'[c].global # 0 /\ node'[d].global # 0
                                 => Apart(Lo(c), Hi(c), Lo(d), Hi(d))'
      <3>. SUFFICES ASSUME NEW c \in 1 .. 7, NEW d \in 1 .. 7, c # d,
                           node'[c].global # 0, node'[d].global # 0
                    PROVE  Apart(Lo(c), Hi(c), Lo(d), Hi(d))'
        OBVIOUS
      <3>1. CASE c # b /\ d # b
        BY <1>7, <3>1 DEF IInv, Stored, Lo, Hi
      <3>2. CASE c = b
        BY <1>7, <2>1, <2>2, <3>2 DEF Bumped, Lo, Hi, Apart
      <3>3. CASE d = b
        BY <1>7, <2>1, <2>2, <3>3 DEF Bumped, Lo, Hi, Apart
      <3>. QED  BY <3>1, <3>2, <3>3
    <2>. QED  BY <1>3, <2>3, <2>4 DEF IInv, Stored
  <1>15. Behind'
    <2>1. stack # <<>> /\ stack' # <<>> /\ stack'[1].code = top.code /\ stack'[1].at = top.at + 1
          /\ top.at \in Nat
      BY <1>1, <1>5, <1>6, StepFits DEF Moves, Continues, Onto, Stepping
    <2>2. Behind
      BY DEF IInv
    <2>3. ready[7] = 0
      BY <1>2, <1>3, <1>6, <2>2 DEF Behind
    <2>. QED  BY <1>0, <1>2, <1>3, <1>6, <2>1, <2>2, <2>3 DEF Behind
  <1>. QED  BY <1>8, <1>9, <1>10, <1>11, <1>12, <1>13, <1>14, <1>15 DEF IInv

\* An init function is at the bottom of the stack, and is that of its bee.
LEMMA InitAlone ==
    ASSUME IInv, stack # <<>>, top.code \in Inits
    PROVE  /\ Len(stack) = 1 /\ stack[1] = top /\ ~Called
           /\ turn - 1 \in DOMAIN order /\ order[turn - 1] = top.bee
           /\ top.bee \in 1 .. 7 /\ top.code = InitOf[top.bee]
           /\ top.code = "memory_init" => top.bee = 7
           /\ top.code \in {"PIT_init", "keyboard_init"} => top.bee \in {5, 6}
  <1>1. Len(stack) = 1 /\ stack[1] = top
    BY TopIs DEF InPlace, top
  <1>2. order \in Seq(1 .. 7)
    BY CoreAssumption DEF IInv, Typed
  <1>3. turn > 1 /\ turn \in 1 .. (Len(order) + 1) /\ top.bee = order[turn - 1]
        /\ top.code = InitOf[order[turn - 1]]
    BY <1>1 DEF IInv, Running, Typed
  <1>4. turn - 1 \in DOMAIN order /\ order[turn - 1] \in 1 .. 7
    BY <1>2, <1>3
  <1>5. /\ top.code = "memory_init" => top.bee = 7
        /\ top.code \in {"PIT_init", "keyboard_init"} => top.bee \in {5, 6}
    BY <1>3, <1>4 DEF InitOf
  <1>. QED  BY <1>1, <1>3, <1>4, <1>5 DEF Called

\* What the memory manager's init function does to the heap and the allocator
\* finds no block that holds the storage of a bee.
LEMMA MemoryInit ==
    ASSUME IInv, Orderly, Stepping, top.code = "memory_init", NEW g, Moves(g)
    PROVE  /\ Len(stack) = 1 /\ stack'[1] = g /\ g.code = "memory_init" /\ g.at = top.at + 1
           /\ stack' # <<>> /\ ~Called' /\ turn - 1 \in 1 .. (turn - 1) /\ order[turn - 1] = 7
           /\ top.at <= 5 => allocF = "alloc" /\ \A e \in blocks : e.to = 0
           /\ top.at > 3 => MEMORY <= heap
           /\ top.at <= 4 => ready[7] = 0
  <1>1. /\ Len(stack) = 1 /\ stack[1] = top /\ order[turn - 1] = 7 /\ turn - 1 \in DOMAIN order
        /\ stack # <<>>
    BY InitAlone DEF Inits, Stepping
  <1>2. turn - 1 \in 1 .. (turn - 1)
    <2>1. order \in Seq(1 .. 7)
      BY CoreAssumption DEF IInv, Typed
    <2>. QED  BY <1>1, <2>1
  <1>3. /\ stack'[1] = g /\ g.code = "memory_init" /\ g.at = top.at + 1
        /\ stack' \in Seq(Frames) /\ Len(stack') = 1
    BY <1>1 DEF Moves, Continues, Onto
  <1>4. stack' # <<>> /\ ~Called'
    <2>1. ~(Len(stack') > 1)
      BY <1>3
    <2>2. Len(stack') # Len(<<>>)
      BY <1>3
    <2>. QED  BY <2>1, <2>2 DEF Called
  <1>5. Behind /\ Stored
    BY DEF IInv
  <1>. QED  BY <1>1, <1>2, <1>3, <1>4, <1>5 DEF Behind, Stored

\* So does CMD 4: the memory manager has given no storage away by then.
LEMMA EndKeeps ==
    ASSUME IInv, Orderly, Core_end
    PROVE  IInv'
  <1>1. Stepping /\ step.op = "syscall" /\ step.id = 0 /\ step.cmd = 4 /\ Answer(NONE)
    BY AtIs DEF Core_end, Call
  <1>2. top.code = "memory_init" /\ top.at = 3
    BY <1>1, StepFits DEF Fits, Allowed
  <1>3. PICK g : Moves(g)
    BY <1>1, AnswerMoves
  <1>4. /\ heap' = MEMORY
        /\ UNCHANGED <<order, turn, node, MEMORY, allocF, handler, unmasked, IFlag>>
        /\ UNCHANGED <<blocks, ready, ticked, hooked>>
    BY DEF Core_end, queen, irqs
  <1>5. Typed'
    BY <1>3, <1>4 DEF Moves, Continues, IInv, Typed
  <1>6. (\A k \in DOMAIN stack : InPlace(stack[k], k))' /\ Running'
    BY <1>1, <1>3, <1>4, MoveInPlace
  <1>7. (\A k \in DOMAIN stack : Finds(stack[k]))'
    BY <1>1, <1>3, <1>4, MoveFinds
  <1>8. (\A k \in DOMAIN stack : Serves(stack[k]))'
    BY <1>1, <1>3, <1>4, MoveServes
  <1>9. Linked'
    BY <1>1, <1>3, <1>4, MoveLinked
  <1>10. Vectored'
    BY <1>1, <1>2, <1>3, <1>4, MoveVectored
  <1>11. Stored'
    <2>1. \A e \in blocks : e.to = 0
      BY <1>1, <1>2, <1>3, MemoryInit
    <2>. QED  BY <1>4, <2>1 DEF IInv, Stored, Bumped, Granted, Lo, Hi
  <1>12. Behind'
    <2>1. MEMORY \in Nat
      BY DEF IInv, Typed
    <2>. QED  BY <1>1, <1>2, <1>3, <1>4, <2>1, MemoryInit DEF Behind
  <1>. QED  BY <1>5, <1>6, <1>7, <1>8, <1>9, <1>10, <1>11, <1>12 DEF IInv

\* So does CMD 5: the heap is laid out by then.
LEMMA SetAllocKeeps ==
    ASSUME IInv, Orderly, Core_set_alloc
    PROVE  IInv'
  <1>1. Stepping /\ step.op = "syscall" /\ step.id = 0 /\ step.cmd = 5 /\ Answer(NONE)
    BY AtIs DEF Core_set_alloc, Call
  <1>2. top.code = "memory_init" /\ top.at = 5
    BY <1>1, StepFits DEF Fits, Allowed
  <1>3. PICK g : Moves(g)
    BY <1>1, AnswerMoves
  <1>4. /\ allocF' = "core_alloc"
        /\ UNCHANGED <<order, turn, node, MEMORY, handler, unmasked, IFlag>>
        /\ UNCHANGED <<heap, blocks, ready, ticked, hooked>>
    BY DEF Core_set_alloc, bees, irqs
  <1>5. Typed'
    BY <1>3, <1>4 DEF Moves, Continues, IInv, Typed
  <1>6. (\A k \in DOMAIN stack : InPlace(stack[k], k))' /\ Running'
    BY <1>1, <1>3, <1>4, MoveInPlace
  <1>7. (\A k \in DOMAIN stack : Finds(stack[k]))'
    BY <1>1, <1>3, <1>4, MoveFinds
  <1>8. (\A k \in DOMAIN stack : Serves(stack[k]))'
    BY <1>1, <1>3, <1>4, MoveServes
  <1>9. Linked'
    BY <1>1, <1>2, <1>3, MemoryInit DEF Linked
  <1>10. Vectored'
    BY <1>1, <1>2, <1>3, <1>4, MoveVectored
  <1>11. Stored'
    <2>1. \A e \in blocks : e.to = 0
      BY <1>1, <1>2, <1>3, MemoryInit
    <2>. QED  BY <1>4, <2>1 DEF IInv, Stored, Bumped, Granted, Lo, Hi
  <1>12. Behind'
    BY <1>1, <1>2, <1>3, <1>4, MemoryInit DEF Behind
  <1>. QED  BY <1>5, <1>6, <1>7, <1>8, <1>9, <1>10, <1>11, <1>12 DEF IInv

\* Rounding up loses nothing.
LEMMA Ceiling ==
    ASSUME NEW n \in Nat, NEW u \in Nat \ {0}
    PROVE  (n + u - 1) \div u \in Nat /\ ((n + u - 1) \div u) * u >= n
  <1>. DEFINE m == n + u - 1
              q == m \div u
              r == m % u
  <1>1. m \in Nat
    OBVIOUS
  <1>2. q \in Nat /\ r \in 0 .. (u - 1) /\ m = u * q + r
    BY <1>1
  <1>3. u * q = q * u
    BY <1>2
  <1>. QED  BY <1>2, <1>3

\* So does laying out the heap, which never moves it before MEMORY.
LEMMA LayOutKeeps ==
    ASSUME IInv, Orderly, LayOutHeap
    PROVE  IInv'
  <1>1. Stepping /\ step.op = "heap" /\ Step
    BY AtIs DEF LayOutHeap
  <1>2. top.code = "memory_init" /\ top.at = 4
    BY <1>1, StepFits DEF Fits, Placed
  <1>3. PICK g : Moves(g)
    BY <1>1, StepMoves
  <1>4. /\ heap' = RoundUp(heap + HEADER) /\ ready' = [ready EXCEPT ![7] = top.global]
        /\ UNCHANGED <<order, turn, node, MEMORY, allocF, handler, unmasked, IFlag>>
        /\ UNCHANGED <<blocks, ticked, hooked>>
    BY DEF LayOutHeap, queen, irqs
  <1>5. heap' \in Nat /\ heap' >= heap
    <2>1. heap + HEADER \in Nat /\ heap + HEADER >= heap /\ UNIT \in Nat \ {0} /\ heap \in Nat
      BY CoreAssumption DEF IInv, Typed
    <2>2. /\ (heap + HEADER + UNIT - 1) \div UNIT \in Nat
          /\ ((heap + HEADER + UNIT - 1) \div UNIT) * UNIT >= heap + HEADER
      BY <2>1, Ceiling
    <2>. QED  BY <1>4, <2>1, <2>2 DEF RoundUp
  <1>6. Typed'
    <2>1. top.global \in Nat
      BY <1>1, TopIs DEF Stepping, Frames
    <2>. QED  BY <1>3, <1>4, <1>5, <2>1 DEF Moves, Continues, IInv, Typed
  <1>7. (\A k \in DOMAIN stack : InPlace(stack[k], k))' /\ Running'
    BY <1>1, <1>3, <1>4, MoveInPlace
  <1>8. (\A k \in DOMAIN stack : Finds(stack[k]))'
    BY <1>1, <1>3, <1>4, MoveFinds
  <1>9. (\A k \in DOMAIN stack : Serves(stack[k]))'
    BY <1>1, <1>3, <1>4, MoveServes
  <1>10. Linked'
    BY <1>1, <1>3, <1>4, MoveLinked
  <1>11. Vectored'
    BY <1>1, <1>2, <1>3, <1>4, MoveVectored
  <1>12. Stored'
    <2>1. \A e \in blocks : e.to = 0
      BY <1>1, <1>2, <1>3, MemoryInit
    <2>. QED  BY <1>4, <2>1 DEF IInv, Stored, Bumped, Granted, Lo, Hi
  <1>13. Behind'
    <2>1. MEMORY \in Nat /\ heap \in Nat
      BY DEF IInv, Typed
    <2>. QED  BY <1>1, <1>2, <1>3, <1>4, <1>5, <2>1, MemoryInit DEF Behind
  <1>. QED  BY <1>6, <1>7, <1>8, <1>9, <1>10, <1>11, <1>12, <1>13 DEF IInv

\* A step of an init function that gives no bee another array.
LEMMA InitMoves ==
    ASSUME IInv, Orderly, Stepping, top.code \in Inits, NEW g, Moves(g),
           UNCHANGED <<order, turn>>, \A b \in 1 .. 7 : node'[b].ptr = node[b].ptr
    PROVE  /\ Len(stack) = 1 /\ stack[1] = top /\ ~Called
           /\ stack'[1] = g /\ g.code = top.code /\ g.at = top.at + 1 /\ top.at \in Nat
           /\ stack' # <<>> /\ ~Called' /\ stack' \in Seq(Frames)
           /\ (\A k \in DOMAIN stack : InPlace(stack[k], k))' /\ Running'
           /\ (\A k \in DOMAIN stack : Finds(stack[k]) /\ Serves(stack[k]))'
           /\ Linked'
  <1>1. Len(stack) = 1 /\ stack[1] = top /\ ~Called /\ top.at \in Nat
    BY InitAlone, StepFits DEF Stepping
  <1>2. /\ stack'[1] = g /\ g.code = top.code /\ g.at = top.at + 1
        /\ stack' \in Seq(Frames) /\ Len(stack') = 1
    BY <1>1 DEF Moves, Continues, Onto
  <1>3. stack' # <<>> /\ ~Called' /\ DOMAIN stack' = {1}
    <2>1. ~(Len(stack') > 1) /\ Len(stack') # Len(<<>>) /\ DOMAIN stack' = {1}
      BY <1>2
    <2>. QED  BY <2>1 DEF Called
  <1>4. (\A k \in DOMAIN stack : InPlace(stack[k], k))' /\ Running'
    BY MoveInPlace
  <1>5. g.code \notin Commands /\ g.code # "isr_handler"
    BY <1>2 DEF Inits, Commands
  <1>6. (\A k \in DOMAIN stack : Finds(stack[k]) /\ Serves(stack[k]))'
    BY <1>2, <1>3, <1>5 DEF Finds, Serves
  <1>7. Linked'
    BY <1>3 DEF Linked
  <1>. QED  BY <1>1, <1>2, <1>3, <1>4, <1>6, <1>7

\* Clearing the table of handlers keeps the invariant: it masks all lines as well, and no
\* interrupt is being served while an init function runs.
LEMMA IdtInitKeeps ==
    ASSUME IInv, Orderly, IdtInit
    PROVE  IInv'
  <1>1. Stepping /\ step.op = "idt" /\ Step
    BY AtIs DEF IdtInit
  <1>2. top.code = "interrupt_init"
    BY <1>1, StepFits DEF Fits, Placed
  <1>3. PICK g : Moves(g)
    BY <1>1, StepMoves
  <1>4. /\ handler' = [v \in DOMAIN handler |-> 0] /\ unmasked' = {}
        /\ ready' = [ready EXCEPT ![4] = top.global]
        /\ UNCHANGED <<order, turn, node, MEMORY, allocF, IFlag, heap, blocks, ticked, hooked>>
    BY DEF IdtInit, queen
  <1>5. top.code \in Inits
    BY <1>2 DEF Inits
  <1>6. /\ stack'[1] = g /\ g.code = top.code /\ ~Called' /\ stack' \in Seq(Frames)
        /\ (\A k \in DOMAIN stack : InPlace(stack[k], k))' /\ Running'
        /\ (\A k \in DOMAIN stack : Finds(stack[k]) /\ Serves(stack[k]))'
        /\ Linked'
    BY <1>1, <1>3, <1>4, <1>5, InitMoves
  <1>7. Typed'
    <2>1. top.global \in Nat
      BY <1>1, TopIs DEF Stepping, Frames
    <2>2. ready' \in [1 .. 7 -> Nat] /\ handler' \in [{13, 32, 33} -> 0 .. 7]
      <3>1. ready \in [1 .. 7 -> Nat] /\ handler \in [{13, 32, 33} -> 0 .. 7]
        BY DEF IInv, Typed
      <3>. QED  BY <1>4, <2>1, <3>1
    <2>. QED  BY <1>4, <1>6, <2>2 DEF IInv, Typed
  <1>8. Vectored'
    BY <1>2, <1>4, <1>6 DEF Vectored
  <1>9. Stored'
    BY <1>4, StoredStays DEF FreedOnly
  <1>10. Behind'
    <2>1. ready'[7] = ready[7]
      BY <1>4 DEF IInv, Typed
    <2>. QED  BY <1>1, <1>2, <1>3, <1>4, <2>1, MoveBehind DEF Moves
  <1>. QED  BY <1>6, <1>7, <1>8, <1>9, <1>10 DEF IInv

\* Filling in the fields of a bee's storage keeps the invariant.
LEMMA FillInKeeps ==
    ASSUME IInv, Orderly, FillIn
    PROVE  IInv'
  <1>1. Stepping /\ step.op = "fields" /\ Step
    BY AtIs DEF FillIn
  <1>2. top.code \in {"PIT_init", "keyboard_init"} /\ top.at = 3
    BY <1>1, StepFits DEF Fits, Placed
  <1>3. PICK g : Moves(g)
    BY <1>1, StepMoves
  <1>4. /\ ready' = [ready EXCEPT ![top.bee] = top.global]
        /\ UNCHANGED <<order, turn, node, MEMORY, allocF, handler, unmasked, IFlag>>
        /\ UNCHANGED <<heap, blocks, ticked, hooked>>
    BY DEF FillIn, queen, irqs
  <1>5. top.code \in Inits
    BY <1>2 DEF Inits
  <1>6. /\ stack' \in Seq(Frames)
        /\ (\A k \in DOMAIN stack : InPlace(stack[k], k))' /\ Running'
        /\ (\A k \in DOMAIN stack : Finds(stack[k]) /\ Serves(stack[k]))'
        /\ Linked'
    BY <1>1, <1>3, <1>4, <1>5, InitMoves
  <1>7. top.bee \in {5, 6} /\ top.global \in Nat
    BY <1>1, <1>2, <1>5, InitAlone, TopIs DEF Stepping, Frames
  <1>8. ready' \in [1 .. 7 -> Nat] /\ ready'[7] = ready[7]
    <2>1. ready \in [1 .. 7 -> Nat]
      BY DEF IInv, Typed
    <2>. QED  BY <1>4, <1>7, <2>1
  <1>9. Typed'
    BY <1>4, <1>6, <1>8 DEF IInv, Typed
  <1>10. Vectored'
    BY <1>1, <1>2, <1>3, <1>4, MoveVectored
  <1>11. Stored'
    BY <1>4, StoredStays DEF FreedOnly
  <1>12. Behind'
    BY <1>1, <1>2, <1>3, <1>4, <1>8, MoveBehind DEF Moves
  <1>. QED  BY <1>6, <1>9, <1>10, <1>11, <1>12 DEF IInv

\* Unmasking keeps the invariant: the call before it has registered the handler.
LEMMA UnmaskKeeps ==
    ASSUME IInv, Orderly,
           pic_unmask_irq(32, "unmask0") \/ pic_unmask_irq(33, "unmask1")
    PROVE  IInv'
  <1>1. PICK v \in {32, 33} : /\ Stepping /\ Step /\ unmasked' = unmasked \cup {v}
                              /\ step.op = IF v = 32 THEN "unmask0" ELSE "unmask1"
    BY AtIs DEF pic_unmask_irq
  <1>2. /\ top.at = 5
        /\ top.code = IF v = 32 THEN "PIT_init" ELSE "keyboard_init"
    BY <1>1, StepFits DEF Fits, Placed
  <1>0. step.op # "args" /\ step.op # "install"
    BY <1>1
  <1>3. PICK g : Moves(g)
    BY <1>0, <1>1, StepMoves
  <1>4. /\ UNCHANGED <<order, turn, node, MEMORY, allocF, handler, IFlag>>
        /\ UNCHANGED <<heap, blocks, ready, ticked, hooked>>
    BY DEF pic_unmask_irq, queen, bees
  <1>5. top.code \in Inits
    BY <1>2 DEF Inits
  <1>6. /\ Len(stack) = 1 /\ stack[1] = top /\ ~Called
        /\ stack'[1] = g /\ g.code = top.code /\ ~Called' /\ stack' \in Seq(Frames)
        /\ (\A k \in DOMAIN stack : InPlace(stack[k], k))' /\ Running'
        /\ (\A k \in DOMAIN stack : Finds(stack[k]) /\ Serves(stack[k]))'
        /\ Linked'
    BY <1>1, <1>3, <1>4, <1>5, InitMoves
  <1>7. Typed'
    BY <1>1, <1>4, <1>6 DEF IInv, Typed
  <1>8. Vectored /\ stack # <<>>
    BY <1>1 DEF IInv, Stepping
  <1>9. handler[v] = BeeOf(v)
    BY <1>2, <1>6, <1>8 DEF Vectored, BeeOf
  <1>10. Vectored'
    BY <1>1, <1>2, <1>4, <1>6, <1>8, <1>9 DEF Vectored, BeeOf
  <1>11. Stored'
    BY <1>4, StoredStays DEF FreedOnly
  <1>12. Behind'
    BY <1>1, <1>2, <1>3, <1>4, MoveBehind DEF Moves
  <1>. QED  BY <1>6, <1>7, <1>10, <1>11, <1>12 DEF IInv

\* Reading the array keeps the invariant.
LEMMA ReadKeeps ==
    ASSUME IInv, Orderly, ReadArgs
    PROVE  IInv'
  <1>1. Stepping /\ step.op = "args"
    BY AtIs DEF ReadArgs
  <1>2. top.code \in Commands
    BY <1>1, StepFits DEF Fits, Placed
  <1>3. top \in Frames /\ top.at + 1 \in Nat /\ InPlace(top, Len(stack))
    BY <1>1, TopIs, StepFits DEF Stepping
  <1>4. node[top.bee].ptr \in Words
    BY <1>2, <1>3 DEF InPlace, IInv, Typed
  <1>. DEFINE g == [top EXCEPT !.at = @ + 1, !.saw = node[top.bee].ptr]
  <1>5. /\ g \in Frames /\ g.bee = top.bee /\ g.code = top.code /\ g.want = top.want
        /\ g.at = top.at + 1 /\ g.saw = node[top.bee].ptr
    BY <1>3, <1>4 DEF Frames
  <1>6. stack' = [stack EXCEPT ![Len(stack)] = g]
    BY DEF ReadArgs, Onward, top
  <1>. HIDE DEF g
  <1>7. Moves(g)
    <2>1. Onto(g)
      BY <1>1, <1>5 DEF Onto
    <2>. QED  BY <1>1, <1>6, <2>1, MovesTo
  <1>8. top.code \notin {"PIT_init", "keyboard_init", "memory_init"}
    BY <1>2 DEF Commands
  <1>. QED
    BY <1>1, <1>7, <1>8, QuietMove DEF ReadArgs, queen, irqs, bees, IInv, Typed, FreedOnly

\* The call that the command on the init function serves is one that the init
\* function may make.
LEMMA MadeFits ==
    ASSUME IInv, Orderly, Called
    PROVE  /\ stack[2].bee \in 1 .. 7 /\ made.op = "syscall" /\ Numbers(made)
           /\ Fits(stack[1].code, stack[1].at - 1, made)
           /\ Allowed(stack[1].code, stack[1].at - 1, made)
           /\ stack[1].at > 1 /\ stack[1].at \in Nat
  <1>1. stack \in Seq(Frames) /\ Len(stack) > 1
    BY DEF IInv, Typed, Called
  <1>2. 1 \in DOMAIN stack /\ 2 \in DOMAIN stack /\ stack[1] \in Frames
    BY <1>1
  <1>3. InPlace(stack[1], 1) /\ InPlace(stack[2], 2)
    BY <1>2 DEF IInv
  <1>4. stack[1].code \in Codes /\ stack[1].at \in Nat
    BY <1>2 DEF Frames
  <1>5. Proper(stack[1].code)
    BY <1>4, CodeProper
  <1>6. stack[1].at > 1 /\ made.op = "syscall"
    BY DEF IInv, Linked
  <1>7. stack[1].at - 1 \in 1 .. Len(Code[stack[1].code])
    BY <1>3, <1>4, <1>5, <1>6 DEF InPlace, Proper
  <1>8. Fits(stack[1].code, stack[1].at - 1, made)
    BY <1>5, <1>7 DEF Proper, made
  <1>. QED  BY <1>3, <1>4, <1>6, <1>8 DEF Called, InPlace, Fits

\* registerInterrupt is called for the vectors and bees that the tables are made
\* for.
LEMMA Registers ==
    ASSUME IInv, Orderly, Called, stack[2].code = "registerInterrupt"
    PROVE  /\ stack[2].want.args \in {<<13, 4>>, <<32, 6>>, <<33, 5>>}
           /\ stack[2].want.args = made.args
  <1>1. Linked /\ stack[2].bee \in 1 .. 7 /\ Allowed(stack[1].code, stack[1].at - 1, made)
    BY MadeFits DEF IInv
  <1>2. /\ made.id = stack[2].bee
        /\ made.cmd \in DOMAIN Exports[stack[2].bee]
        /\ stack[2].code = Exports[stack[2].bee][made.cmd]
        /\ stack[2].want = Array(1, made.args)
    BY <1>1 DEF Linked
  <1>3. made.id = 4 /\ made.cmd = 1
    BY <1>1, <1>2, CommandsAre
  <1>. QED  BY <1>1, <1>2, <1>3 DEF Allowed, Array

\* Registering a handler keeps the invariant, and takes away no handler of a line that is let
\* through.
LEMMA InstallKeeps ==
    ASSUME IInv, Orderly, Install
    PROVE  IInv'
  <1>1. Stepping /\ step.op = "install" /\ Step
    BY AtIs DEF Install
  <1>2. top.code = "registerInterrupt" /\ top.at = 3
    BY <1>1, StepFits DEF Fits, Placed
  <1>3. InPlace(top, Len(stack)) /\ Finds(top) /\ Len(stack) \in Nat
    BY <1>1, TopIs DEF Stepping
  <1>4. Len(stack) = 2 /\ stack[2] = top /\ Called
    <2>1. top.code \in Commands /\ top.code # "plain"
      BY <1>2 DEF Commands
    <2>2. Len(stack) = 2
      BY <1>3, <2>1 DEF InPlace
    <2>3. stack[2] = top
      BY <2>2 DEF top
    <2>. QED  BY <2>1, <2>2, <2>3 DEF Called
  <1>. DEFINE v == top.want.args[1]
              b == top.want.args[2]
  <1>5. top.want.args \in {<<13, 4>>, <<32, 6>>, <<33, 5>>}
    BY <1>2, <1>4, Registers
  <1>6. (v = 13 /\ b = 4) \/ (v = 32 /\ b = 6) \/ (v = 33 /\ b = 5)
    <2>. DEFINE a == top.want.args
    <2>1. a \in {<<13, 4>>, <<32, 6>>, <<33, 5>>}
      BY <1>5
    <2>. HIDE DEF a
    <2>2. (a[1] = 13 /\ a[2] = 4) \/ (a[1] = 32 /\ a[2] = 6) \/ (a[1] = 33 /\ a[2] = 5)
      <3>1. CASE a = <<13, 4>>  BY <3>1
      <3>2. CASE a = <<32, 6>>  BY <3>2
      <3>3. CASE a = <<33, 5>>  BY <3>3
      <3>. QED  BY <2>1, <3>1, <3>2, <3>3
    <2>. QED  BY <2>2 DEF a
  <1>7. top.saw = top.want
    BY <1>2, <1>3 DEF Finds, Commands, ArgsAt
  <1>8. /\ handler' = [handler EXCEPT ![v] = b]
        /\ UNCHANGED <<order, turn, node, MEMORY, allocF, unmasked, IFlag>>
        /\ UNCHANGED <<heap, blocks, ready, ticked, hooked>>
    BY <1>7 DEF Install, queen, bees
  <1>9. PICK g : Moves(g)
    BY <1>1, StepMoves
  <1>. HIDE DEF v, b
  <1>10. /\ handler' \in [{13, 32, 33} -> 0 .. 7] /\ handler'[v] = b
         /\ \A w \in {32, 33} : handler[w] = BeeOf(w) => handler'[w] = BeeOf(w)
    <2>1. handler \in [{13, 32, 33} -> 0 .. 7]
      BY DEF IInv, Typed
    <2>. QED  BY <1>6, <1>8, <2>1 DEF BeeOf
  <1>11. Typed'
    BY <1>8, <1>9, <1>10 DEF Moves, Continues, IInv, Typed
  <1>12. (\A k \in DOMAIN stack : InPlace(stack[k], k))' /\ Running'
    BY <1>1, <1>8, <1>9, MoveInPlace
  <1>13. (\A k \in DOMAIN stack : Finds(stack[k]))'
    BY <1>1, <1>8, <1>9, MoveFinds
  <1>14. (\A k \in DOMAIN stack : Serves(stack[k]))'
    BY <1>1, <1>9, <1>10, MoveServes
  <1>15. Called' /\ Linked'
    BY <1>1, <1>4, <1>8, <1>9, MoveLinked
  <1>16. Vectored'
    <2>1. stack'[2].want = top.want
      BY <1>4, <1>9 DEF Moves, Continues, Onto
    <2>2. \A w \in unmasked' : handler'[w] = BeeOf(w)
      <3>1. unmasked' = unmasked /\ unmasked \subseteq {32, 33}
        BY <1>8 DEF IInv, Typed
      <3>2. \A w \in unmasked : handler[w] = BeeOf(w)
        BY DEF IInv, Vectored
      <3>. QED  BY <1>10, <3>1, <3>2
    <2>. QED  BY <1>10, <1>15, <2>1, <2>2 DEF Vectored, v, b
  <1>17. Stored'
    BY <1>8, StoredStays DEF FreedOnly
  <1>18. Behind'
    BY <1>1, <1>2, <1>8, <1>9, MoveBehind DEF Moves
  <1>. QED  BY <1>11, <1>12, <1>13, <1>14, <1>15, <1>16, <1>17, <1>18 DEF IInv

\* A set of numbers that is not empty has a least one.
LEMMA Smallest ==
    ASSUME NEW S, S \subseteq Nat, S # {}
    PROVE  Min(S) \in S /\ \A y \in S : Min(S) =< y
  <1>. DEFINE R == OpToRel(<, Nat)
  <1>1. IsWellFoundedOn(R, Nat)
    BY NatLessThanWellFounded
  <1>2. \A x, y \in Nat : x < y => <<x, y>> \in R
    BY DEF OpToRel
  <1>. HIDE DEF R
  <1>3. PICK x \in S : \A y \in S : ~(<<y, x>> \in R)
    BY <1>1, WFMin, Zenon
  <1>4. \A y \in S : ~(y < x)
    BY <1>2, <1>3, Zenon
  <1>5. \A y \in S : x =< y
    BY <1>4
  <1>. QED  BY <1>5 DEF Min

\* A gap is behind the start of the heap, apart from every block, and has room for
\* what was asked for and a header.
LEMMA Gapped ==
    ASSUME IInv, NEW z \in Nat, Gaps(Need(z)) # {}
    PROVE  LET lo == Min(Gaps(Need(z)))
               hi == lo + Need(z) * UNIT
           IN  /\ lo \in Nat /\ hi \in Nat /\ heap <= lo /\ lo + HEADER + z <= hi
               /\ \A e \in blocks : Apart(lo, hi, e.lo, e.hi)
  <1>1. /\ UNIT \in Nat \ {0} /\ HEADER \in Nat /\ Units \in Nat /\ heap \in Nat
    BY CoreAssumption DEF IInv, Typed
  <1>2. Need(z) \in Nat /\ Need(z) * UNIT >= z + HEADER
    <2>1. z + HEADER \in Nat
      BY <1>1
    <2>2. /\ (z + HEADER + UNIT - 1) \div UNIT \in Nat
          /\ ((z + HEADER + UNIT - 1) \div UNIT) * UNIT >= z + HEADER
      BY <1>1, <2>1, Ceiling
    <2>. QED  BY <2>2 DEF Need
  <1>. DEFINE n == Need(z)
  <1>3. Need(z) * UNIT \in Nat
    BY <1>1, <1>2
  <1>. HIDE DEF n
  <1>4. \A u \in 0 .. (Units - n) : heap + u * UNIT \in Nat /\ heap <= heap + u * UNIT
    <2>. SUFFICES ASSUME NEW u \in 0 .. (Units - n)
                  PROVE  heap + u * UNIT \in Nat /\ heap <= heap + u * UNIT
      OBVIOUS
    <2>1. u \in Nat
      BY <1>1, <1>2 DEF n
    <2>2. u * UNIT \in Nat
      BY <1>1, <2>1
    <2>. QED  BY <1>1, <2>2
  <1>5. /\ Gaps(n) \subseteq Nat
        /\ \A lo \in Gaps(n) : heap <= lo /\ \A e \in blocks : Apart(lo, lo + n * UNIT, e.lo, e.hi)
    BY <1>4 DEF Gaps
  <1>6. Min(Gaps(n)) \in Gaps(n)
    BY <1>5, Smallest DEF n
  <1>7. /\ Min(Gaps(n)) \in Nat /\ heap <= Min(Gaps(n))
        /\ \A e \in blocks : Apart(Min(Gaps(n)), Min(Gaps(n)) + n * UNIT, e.lo, e.hi)
    BY <1>5, <1>6
  <1>. QED  BY <1>1, <1>2, <1>3, <1>7 DEF n

\* What kmalloc has been asked for: memory, or the storage of a bee that has none.
LEMMA Asked ==
    ASSUME IInv, Orderly, Called, stack[2].code = "kmalloc", stack[2].at = 2
    PROVE  /\ stack[2].saw.args[1] \in Nat
           /\ \/ stack[2].saw.args[2] = 0
              \/ /\ stack[2].saw.args[2] \in 1 .. 7
                 /\ stack[2].saw.args[1] >= Size[stack[2].saw.args[2]]
                 /\ node[stack[2].saw.args[2]].global = 0
                 /\ allocF = "core_alloc"
  <1>. DEFINE f == stack[2]
  <1>1. Finds(f)
    <2>1. stack \in Seq(Frames) /\ Len(stack) > 1
      BY DEF IInv, Typed, Called
    <2>2. 2 \in DOMAIN stack
      BY <2>1
    <2>. QED  BY <2>2 DEF IInv
  <1>2. f.saw = f.want
    BY <1>1 DEF Finds, Commands, ArgsAt
  <1>3. Linked /\ f.bee \in 1 .. 7 /\ Allowed(stack[1].code, stack[1].at - 1, made)
        /\ Numbers(made) /\ made.op = "syscall"
    BY MadeFits DEF IInv
  <1>4. CASE /\ made.id = f.bee
             /\ made.cmd \in DOMAIN Exports[f.bee] /\ f.code = Exports[f.bee][made.cmd]
             /\ f.want = Array(1, made.args)
    <2>1. made.id = 7 /\ made.cmd = 1
      BY <1>3, <1>4, CommandsAre
    <2>2. Len(made.args) = 2 /\ made.args[2] = 0 /\ made.args[1] \in Nat
      BY <1>3, <2>1 DEF Allowed, Numbers
    <2>. QED  BY <1>2, <1>4, <2>2 DEF Array
  <1>5. CASE /\ made.id = 0 /\ made.cmd = 1 /\ f.bee = 7 /\ f.code = "kmalloc"
             /\ f.want = Array(1, <<made.args[2], made.args[1]>>)
             /\ made.args[1] \in 1 .. 7 /\ allocF = "core_alloc"
             /\ f.at <= 2 => node[made.args[1]].global = 0
    <2>1. Len(made.args) = 2 /\ made.args[2] >= Size[made.args[1]]
          /\ made.args[1] \in Nat /\ made.args[2] \in Nat
      <3>1. made.id = 0 /\ made.cmd = 1
        BY <1>5
      <3>2. Len(made.args) = 2 /\ made.args[2] >= Size[made.args[1]]
        BY <1>3, <1>5, <3>1 DEF Allowed
      <3>3. made.args \in Seq(Nat)
        BY <1>3 DEF Numbers
      <3>. QED  BY <3>2, <3>3
    <2>2. f.saw.args[1] = made.args[2] /\ f.saw.args[2] = made.args[1]
      BY <1>2, <1>5 DEF Array
    <2>. QED  BY <1>5, <2>1, <2>2
  <1>. QED  BY <1>3, <1>4, <1>5 DEF Linked

\* Giving away a block keeps the invariant: it is apart from the other blocks and behind all
\* storage outside them.
LEMMA KmallocKeeps ==
    ASSUME IInv, Orderly, Kmalloc
    PROVE  IInv'
  <1>1. Stepping /\ step.op = "kmalloc" /\ Step
    BY AtIs DEF Kmalloc
  <1>2. top.code = "kmalloc" /\ top.at = 2
    BY <1>1, StepFits DEF Fits, Placed
  <1>3. InPlace(top, Len(stack)) /\ Len(stack) \in Nat
    BY <1>1, TopIs DEF Stepping
  <1>4. Len(stack) = 2 /\ stack[2] = top /\ Called
    <2>1. top.code \in Commands /\ top.code # "plain"
      BY <1>2 DEF Commands
    <2>2. Len(stack) = 2
      BY <1>3, <2>1 DEF InPlace
    <2>3. stack[2] = top
      BY <2>2 DEF top
    <2>. QED  BY <2>1, <2>2, <2>3 DEF Called
  <1>5. PICK z \in Nat, to \in 0 .. 7 :
           /\ z = top.saw.args[1] /\ to = top.saw.args[2]
           /\ \/ to = 0
              \/ to \in 1 .. 7 /\ z >= Size[to] /\ node[to].global = 0 /\ allocF = "core_alloc"
    <2>1. stack[2].code = "kmalloc" /\ stack[2].at = 2
      BY <1>2, <1>4
    <2>2. /\ stack[2].saw.args[1] \in Nat
          /\ \/ stack[2].saw.args[2] = 0
             \/ /\ stack[2].saw.args[2] \in 1 .. 7
                /\ stack[2].saw.args[1] >= Size[stack[2].saw.args[2]]
                /\ node[stack[2].saw.args[2]].global = 0
                /\ allocF = "core_alloc"
      BY <1>4, <2>1, Asked
    <2>3. top.saw.args[2] \in 0 .. 7
      BY <1>4, <2>2
    <2>. QED  BY <1>4, <2>2, <2>3
  <1>. DEFINE lo == Min(Gaps(Need(z)))
              hi == lo + Need(z) * UNIT
              e  == Block(lo, Need(z) * UNIT, to)
  <1>6. Gaps(Need(z)) # {}
    BY <1>5 DEF Kmalloc
  <1>7. /\ lo \in Nat /\ hi \in Nat /\ heap <= lo /\ lo + HEADER + z <= hi
        /\ \A d \in blocks : Apart(lo, hi, d.lo, d.hi)
    BY <1>5, <1>6, Gapped
  <1>8. e.lo = lo /\ e.hi = hi /\ e.to = to /\ e = [lo |-> lo, hi |-> hi, to |-> to]
    BY DEF Block
  <1>9. /\ blocks' = blocks \cup {e}
        /\ node' = IF to = 0 THEN node ELSE [node EXCEPT ![to].global = lo + HEADER]
        /\ UNCHANGED <<order, turn, MEMORY, allocF, handler, unmasked, IFlag>>
        /\ UNCHANGED <<heap, ready, ticked, hooked>>
    BY <1>5 DEF Kmalloc, irqs
  <1>10. PICK g : Moves(g)
    BY <1>1, StepMoves
  <1>. HIDE DEF lo, hi, e
  <1>11. /\ HEADER \in Nat /\ heap \in Nat /\ MEMORY \in Nat /\ Size \in [1 .. 7 -> Nat]
         /\ node \in [1 .. 7 -> [ptr : Words, global : Nat]]
         /\ \A d \in blocks : d.lo \in Nat /\ d.hi \in Nat
    BY CoreAssumption DEF IInv, Typed
  <1>12. /\ node' \in [1 .. 7 -> [ptr : Words, global : Nat]]
         /\ \A c \in 1 .. 7 : node'[c].ptr = node[c].ptr
         /\ \A c \in 1 .. 7 : c # to => node'[c].global = node[c].global
         /\ to # 0 => node'[to].global = lo + HEADER
    <2>1. CASE to = 0
      BY <1>9, <1>11, <2>1
    <2>2. CASE to \in 1 .. 7
      <3>1. lo + HEADER \in Nat /\ node' = [node EXCEPT ![to].global = lo + HEADER]
        BY <1>7, <1>9, <1>11, <2>2
      <3>2. node[to] \in [ptr : Words, global : Nat]
        BY <1>11, <2>2
      <3>. QED  BY <1>11, <2>2, <3>1, <3>2
    <2>. QED  BY <1>5, <2>1, <2>2
  <1>13. Typed'
    <2>1. e \in [lo : Nat, hi : Nat, to : 0 .. 7]
      BY <1>5, <1>7, <1>8
    <2>. QED  BY <1>9, <1>10, <1>12, <2>1 DEF Moves, Continues, IInv, Typed
  <1>14. (\A k \in DOMAIN stack : InPlace(stack[k], k))' /\ Running'
    BY <1>1, <1>9, <1>10, MoveInPlace
  <1>15. (\A k \in DOMAIN stack : Finds(stack[k]))'
    BY <1>1, <1>10, <1>12, MoveFinds
  <1>16. (\A k \in DOMAIN stack : Serves(stack[k]))'
    BY <1>1, <1>9, <1>10, MoveServes
  <1>17. Linked'
    <2>1. stack'[1] = stack[1] /\ made' = made /\ stack'[2] = g
      BY <1>4, <1>10 DEF Moves, Continues, made
    <2>2. g.bee = top.bee /\ g.code = top.code /\ g.want = top.want /\ g.at = 3
      BY <1>2, <1>10 DEF Moves, Continues, Onto
    <2>. QED  BY <1>4, <1>9, <2>1, <2>2 DEF IInv, Linked
  <1>18. Vectored'
    BY <1>1, <1>2, <1>9, <1>10, MoveVectored
  <1>19. Stored'
    <2>1. ASSUME to # 0, NEW c \in 1 .. 7, c # to, node[c].global # 0
          PROVE  Apart(Lo(c), Hi(c), lo + HEADER, lo + HEADER + Size[to])
      <3>1. to \in 1 .. 7 /\ z >= Size[to] /\ MEMORY <= heap
        BY <1>5, <2>1 DEF IInv, Behind
      <3>2. lo <= lo + HEADER /\ lo + HEADER + Size[to] <= hi
        BY <1>5, <1>7, <1>11, <3>1
      <3>3. Bumped(c) \/ Granted(c)
        BY <2>1 DEF IInv, Stored
      <3>4. CASE Bumped(c)
        BY <1>7, <1>11, <3>1, <3>2, <3>4 DEF Bumped, Apart, Lo, Hi
      <3>5. CASE Granted(c)
        <4>1. PICK d \in blocks : d.lo + HEADER <= Lo(c) /\ Hi(c) <= d.hi
          BY <3>5 DEF Granted
        <4>2. Apart(lo, hi, d.lo, d.hi)
          BY <1>7
        <4>. QED  BY <1>7, <1>11, <3>1, <3>2, <4>1, <4>2 DEF Apart, Lo, Hi
      <3>. QED  BY <3>3, <3>4, <3>5
    <2>2. to # 0 => Lo(to)' = lo + HEADER /\ Hi(to)' = lo + HEADER + Size[to] /\ to \in 1 .. 7
      BY <1>5, <1>12 DEF Lo, Hi
    <2>3. \A c \in 1 .. 7 : c # to => Lo(c)' = Lo(c) /\ Hi(c)' = Hi(c)
      BY <1>12 DEF Lo, Hi
    <2>4. ASSUME NEW c \in 1 .. 7, node'[c].global # 0
          PROVE  (Bumped(c) \/ Granted(c))'
      <3>1. CASE c = to
        <4>1. e \in blocks' /\ e.to = to /\ e.lo + HEADER <= Lo(to)' /\ Hi(to)' <= e.hi
          BY <1>5, <1>7, <1>8, <1>9, <1>11, <2>2, <3>1
        <4>. QED  BY <3>1, <4>1 DEF Granted
      <3>2. CASE c # to
        BY <1>9, <1>12, <2>3, <2>4, <3>2 DEF IInv, Stored, Bumped, Granted
      <3>. QED  BY <3>1, <3>2
    <2>5. ASSUME NEW c \in 1 .. 7, NEW d \in 1 .. 7 \ {c}, node'[c].global # 0, node'[d].global # 0
          PROVE  Apart(Lo(c), Hi(c), Lo(d), Hi(d))'
      <3>1. CASE c = to
        <4>1. Apart(Lo(d), Hi(d), Lo(to)', Hi(to)') /\ Lo(d)' = Lo(d) /\ Hi(d)' = Hi(d)
          BY <1>12, <2>1, <2>2, <2>3, <2>5, <3>1
        <4>. QED  BY <3>1, <4>1 DEF Apart
      <3>2. CASE d = to
        <4>1. Apart(Lo(c), Hi(c), Lo(to)', Hi(to)') /\ Lo(c)' = Lo(c) /\ Hi(c)' = Hi(c)
          BY <1>12, <2>1, <2>2, <2>3, <2>5, <3>2
        <4>. QED  BY <3>2, <4>1 DEF Apart
      <3>3. CASE c # to /\ d # to
        BY <1>12, <2>3, <2>5, <3>3 DEF IInv, Stored, Apart
      <3>. QED  BY <3>1, <3>2, <3>3
    <2>6. \A d, f \in blocks' : d # f => Apart(d.lo, d.hi, f.lo, f.hi)
      BY <1>7, <1>8, <1>9 DEF IInv, Stored, Apart
    <2>7. \A d \in blocks' : d.to # 0 => allocF' = "core_alloc" /\ heap' <= d.lo
      BY <1>5, <1>7, <1>8, <1>9 DEF IInv, Stored
    <2>. QED  BY <2>4, <2>5, <2>6, <2>7 DEF Stored
  <1>20. Behind'
    BY <1>1, <1>2, <1>9, <1>10, MoveBehind DEF Moves
  <1>. QED  BY <1>13, <1>14, <1>15, <1>16, <1>17, <1>18, <1>19, <1>20 DEF IInv

\* Calling the tick handler keeps the invariant.
LEMMA CallbackKeeps ==
    ASSUME IInv, Orderly, Callback
    PROVE  IInv'
  <1>1. Stepping /\ step.op = "callback"
    BY AtIs DEF Callback
  <1>2. top.code = "PIT_interrupt"
    BY <1>1, StepFits DEF Fits, Placed
  <1>3. /\ UNCHANGED <<order, turn, node, MEMORY, heap, allocF, blocks, ready, handler, unmasked>>
        /\ UNCHANGED <<IFlag, ticked, hooked>>
    BY DEF Callback, queen, irqs, bees
  <1>4. CASE hooked
    <2>. DEFINE h == Frame(0, "tick_handler", NoArray, 0)
    <2>1. /\ h \in Frames /\ h.saw = NoArray /\ h.at = 1
          /\ h.code \in Irqs \ {"isr_handler"}
      BY Arrays DEF Frame, Frames, NoArray, Array, Words, Codes, Irqs
    <2>2. Enter(h)
      BY <1>4 DEF Callback
    <2>. HIDE DEF h
    <2>3. PICK g : Enters(g, h)
      BY <1>1, <2>1, <2>2, EnterEnters
    <2>4. top.code \in Irqs
      BY <1>2 DEF Irqs
    <2>. QED  BY <1>1, <1>3, <2>1, <2>3, <2>4, IrqEnters
  <1>5. CASE ~hooked
    <2>1. Step
      BY <1>5 DEF Callback
    <2>2. PICK g : Moves(g)
      BY <1>1, <2>1, StepMoves
    <2>. QED  BY <1>1, <1>2, <1>3, <2>2, QuietMove DEF IInv, Typed, FreedOnly
  <1>. QED  BY <1>4, <1>5

\* Calling the handler of a vector keeps the invariant: it is the function of its bee.
LEMMA HandleKeeps ==
    ASSUME IInv, Orderly, Handle
    PROVE  IInv'
  <1>1. Stepping /\ step.op = "handler"
    BY AtIs DEF Handle
  <1>2. top.code = "isr_handler"
    BY <1>1, StepFits DEF Fits, Placed
  <1>3. /\ UNCHANGED <<order, turn, node, MEMORY, heap, allocF, blocks, ready, handler, unmasked>>
        /\ UNCHANGED <<IFlag, ticked, hooked>>
    BY DEF Handle, queen, irqs, bees
  <1>4. PICK v \in {32, 33} : top.want = Array(0, <<v>>) /\ handler[v] = BeeOf(v)
    BY <1>1, <1>2, TopIs DEF Serves, Stepping
  <1>. DEFINE b == BeeOf(v)
              h == Frame(b, HandlerOf[b], NoArray, 0)
  <1>5. handler[top.want.args[1]] = b
    BY <1>4 DEF Array
  <1>6. b \in {5, 6} /\ HandlerOf[b] \in Irqs \ {"isr_handler"}
    BY DEF BeeOf, HandlerOf, Irqs
  <1>7. Enter(h)
    BY <1>5, <1>6 DEF Handle
  <1>8. h \in Frames /\ h.saw = NoArray /\ h.at = 1 /\ h.code \in Irqs \ {"isr_handler"}
    BY <1>6, Arrays DEF Frame, Frames, NoArray, Array, Words, Codes
  <1>. HIDE DEF h, b
  <1>9. PICK g : Enters(g, h)
    BY <1>1, <1>7, <1>8, EnterEnters
  <1>10. top.code \in Irqs
    BY <1>2 DEF Irqs
  <1>. QED  BY <1>1, <1>3, <1>8, <1>9, <1>10, IrqEnters

\* Going round the loop of system_start keeps the invariant.
LEMMA AgainKeeps ==
    ASSUME IInv, Orderly, Again
    PROVE  IInv'
  <1>1. Stepping /\ step.op = "again"
    BY AtIs DEF Again
  <1>2. top.code = "start_init" /\ top.at > 1
    BY <1>1, StepFits DEF Fits, Placed
  <1>. DEFINE g == [top EXCEPT !.at = @ - 1]
  <1>3. top \in Frames /\ top.at \in Nat /\ InPlace(top, Len(stack)) /\ Len(Code[top.code]) \in Nat
    BY <1>1, TopIs, StepFits, CodeProper DEF Proper, Stepping
  <1>4. Len(stack) = 1 /\ stack[1] = top /\ stack # <<>>
    BY <1>1, <1>2, InitAlone DEF Inits, Stepping
  <1>5. top.at - 1 \in Nat
    BY <1>2, <1>3
  <1>6. /\ g \in Frames /\ g.bee = top.bee /\ g.code = top.code /\ g.want = top.want
        /\ g.at = top.at - 1 /\ g.saw = top.saw
    BY <1>3, <1>5 DEF Frames
  <1>7. stack' = [stack EXCEPT ![Len(stack)] = g]
    BY DEF Again, top
  <1>. HIDE DEF g
  <1>8. stack' \in Seq(Frames) /\ Len(stack') = 1 /\ stack'[1] = g
    BY <1>4, <1>6, <1>7, Stacked
  <1>9. DOMAIN stack' = {1} /\ stack' # <<>> /\ ~(Len(stack') > 1)
    <2>1. Len(stack') # Len(<<>>)
      BY <1>8
    <2>. QED  BY <1>8, <2>1
  <1>10. /\ UNCHANGED <<order, turn, node, MEMORY, heap, allocF, blocks, ready, handler, unmasked>>
         /\ UNCHANGED <<IFlag, ticked, hooked>>
    BY DEF Again, queen, irqs, bees
  <1>11. Typed'
    BY <1>8, <1>10, TypedStays DEF IInv, Typed
  <1>12. (\A k \in DOMAIN stack : InPlace(stack[k], k))'
    <2>1. InPlace(g, 1)
      BY <1>2, <1>3, <1>4, <1>6 DEF InPlace
    <2>. QED  BY <1>8, <1>9, <2>1
  <1>13. (\A k \in DOMAIN stack : Finds(stack[k]) /\ Serves(stack[k]))'
    BY <1>2, <1>6, <1>8, <1>9 DEF Finds, Serves, Commands
  <1>14. Running'
    BY <1>4, <1>6, <1>8, <1>10 DEF IInv, Running
  <1>15. Linked'
    BY <1>9 DEF Linked, Called
  <1>16. Vectored'
    BY <1>2, <1>6, <1>8, <1>9, <1>10 DEF IInv, Vectored, Called
  <1>17. Stored'
    BY <1>10, StoredStays DEF FreedOnly
  <1>18. Behind'
    BY <1>2, <1>4, <1>6, <1>8, <1>10 DEF IInv, Behind
  <1>. QED  BY <1>11, <1>12, <1>13, <1>14, <1>15, <1>16, <1>17, <1>18 DEF IInv

\* When registerInterrupt returns to the init function of the PIT or the keyboard
\* bee, the handler of that bee is registered.
LEMMA Registered ==
    ASSUME IInv, Orderly, Called, stack[1].at > 4, stack[2].at = Len(Code[stack[2].code]) + 1
    PROVE  /\ stack[1].code = "PIT_init" => handler[32] = 6
           /\ stack[1].code = "keyboard_init" => handler[33] = 5
  <1>. SUFFICES ASSUME stack[1].code \in {"PIT_init", "keyboard_init"}
                PROVE  \/ stack[1].code = "PIT_init" /\ handler[32] = 6
                       \/ stack[1].code = "keyboard_init" /\ handler[33] = 5
    OBVIOUS
  <1>1. /\ stack[2].bee \in 1 .. 7 /\ made.op = "syscall"
        /\ Allowed(stack[1].code, stack[1].at - 1, made)
        /\ stack[1].at \in Nat
    BY MadeFits
  <1>2. stack[1].at = 5
    <2>1. Len(Code[stack[1].code]) = 5
      BY DEF Code, PIT_init, keyboard_init
    <2>2. stack[1].at \in 1 .. 6
      <3>1. stack \in Seq(Frames) /\ Len(stack) > 1
        BY DEF IInv, Typed, Called
      <3>2. 1 \in DOMAIN stack
        BY <3>1
      <3>3. stack[1].at \in 1 .. (Len(Code[stack[1].code]) + 1)
        BY <3>2 DEF IInv, InPlace
      <3>. QED  BY <2>1, <3>3
    <2>3. stack[1].at # 6
      <3>. SUFFICES ASSUME stack[1].at = 6 PROVE FALSE
        OBVIOUS
      <3>1. made = Code[stack[1].code][5]
        BY DEF made
      <3>2. made \in {Do("unmask0"), Do("unmask1")}
        BY <3>1 DEF Code, PIT_init, keyboard_init
      <3>. QED  BY <1>1, <3>2, DoIs
    <2>. QED  BY <1>1, <2>2, <2>3
  <1>3. made = IF stack[1].code = "PIT_init" THEN Sys(4, 1, <<32, 6>>) ELSE Sys(4, 1, <<33, 5>>)
    BY <1>1, <1>2 DEF Allowed
  <1>4. /\ made.id = 4 /\ made.cmd = 1
        /\ made.args = IF stack[1].code = "PIT_init" THEN <<32, 6>> ELSE <<33, 5>>
    BY <1>3 DEF Sys
  <1>5. stack[2].code = "registerInterrupt"
    <2>1. Linked /\ Exports[4][1] = "registerInterrupt"
      BY ExportsAre DEF IInv
    <2>. QED  BY <1>4, <2>1 DEF Linked
  <1>6. stack[2].at = 5
    BY <1>5 DEF Code, registerInterrupt
  <1>7. handler[stack[2].want.args[1]] = stack[2].want.args[2] /\ stack[2].want.args = made.args
    BY <1>5, <1>6, Registers DEF IInv, Vectored
  <1>8. CASE stack[1].code = "PIT_init"
    <2>1. made.args[1] = 32 /\ made.args[2] = 6
      BY <1>4, <1>8
    <2>. QED  BY <1>7, <1>8, <2>1
  <1>9. CASE stack[1].code = "keyboard_init"
    <2>1. made.args[1] = 33 /\ made.args[2] = 5
      BY <1>4, <1>9
    <2>. QED  BY <1>7, <1>9, <2>1
  <1>. QED  BY <1>8, <1>9

\* The stack without its last frame.
LEMMA Fronts ==
    ASSUME stack \in Seq(Frames), stack # <<>>
    PROVE  /\ Front(stack) \in Seq(Frames) /\ Len(Front(stack)) = Len(stack) - 1
           /\ \A k \in 1 .. (Len(stack) - 1) : Front(stack)[k] = stack[k]
  <1>1. Len(stack) \in Nat \ {0}
    OBVIOUS
  <1>2. \A k \in 1 .. (Len(stack) - 1) : stack[k] \in Frames
    <2>1. \A k \in 1 .. (Len(stack) - 1) : k \in DOMAIN stack
      BY <1>1
    <2>. QED  BY <2>1
  <1>3. /\ Len(SubSeq(stack, 1, Len(stack) - 1)) = Len(stack) - 1
        /\ SubSeq(stack, 1, Len(stack) - 1) \in Seq(Frames)
        /\ \A k \in 1 .. (Len(stack) - 1) : SubSeq(stack, 1, Len(stack) - 1)[k] = stack[k]
    <2>. DEFINE m == Len(stack) - 1
                t == SubSeq(stack, 1, m)
    <2>1. m \in Nat /\ 1 \in Int /\ \A k \in 1 .. m : stack[k] \in Frames
      BY <1>1, <1>2
    <2>. HIDE DEF m
    <2>2. /\ t \in Seq(Frames)
          /\ Len(t) = IF 1 <= m THEN m - 1 + 1 ELSE 0
          /\ \A k \in 1 .. (m - 1 + 1) : t[k] = stack[1 + k - 1]
      BY <2>1, SubSeqProperties
    <2>. HIDE DEF t
    <2>3. Len(t) = m /\ \A k \in 1 .. m : t[k] = stack[k]
      BY <2>1, <2>2
    <2>. QED  BY <2>2, <2>3 DEF m, t
  <1>. QED  BY <1>3 DEF Front

\* A return keeps the invariant: what the function below relies on has been done.
LEMMA ReturnKeeps ==
    ASSUME IInv, Orderly, Return
    PROVE  IInv'
  <1>. DEFINE n == Len(stack)
  <1>1. stack # <<>> /\ top.at > Len(Code[top.code]) /\ stack' = Front(stack)
    BY DEF Return
  <1>2. /\ UNCHANGED <<order, turn, node, MEMORY, heap, allocF, blocks, ready, handler, unmasked>>
        /\ UNCHANGED <<ticked, hooked>> /\ IFlag' \in BOOLEAN
    BY DEF Return, queen, bees, IInv, Typed
  <1>3. /\ n \in Nat \ {0} /\ DOMAIN stack = 1 .. n /\ stack \in Seq(Frames)
        /\ stack' \in Seq(Frames) /\ Len(stack') = n - 1 /\ DOMAIN stack' = 1 .. (n - 1)
        /\ \A k \in 1 .. (n - 1) : stack'[k] = stack[k]
        /\ stack[n] = top
    <2>1. stack \in Seq(Frames)
      BY DEF IInv, Typed
    <2>2. n \in Nat \ {0} /\ DOMAIN stack = 1 .. n
      BY <1>1, <2>1
    <2>3. /\ stack' \in Seq(Frames) /\ Len(stack') = n - 1
          /\ \A k \in 1 .. (n - 1) : stack'[k] = stack[k]
      BY <1>1, <2>1, Fronts
    <2>4. DOMAIN stack' = 1 .. (n - 1)
      BY <2>3
    <2>. QED  BY <2>1, <2>2, <2>3, <2>4 DEF top
  <1>. HIDE DEF n
  <1>4. stack' # <<>> => n > 1
    <2>. SUFFICES ASSUME n = 1 PROVE stack' = <<>>
      BY <1>3
    <2>. QED  BY <1>3
  <1>5. top.at = Len(Code[top.code]) + 1
    <2>1. top \in Frames /\ InPlace(top, n)
      BY <1>1, TopIs DEF n
    <2>2. Len(Code[top.code]) \in Nat
      BY <2>1, CodeProper DEF Frames, Proper
    <2>. QED  BY <1>1, <2>1, <2>2 DEF InPlace
  <1>6. Typed'
    BY <1>2, <1>3, TypedStays DEF IInv, Typed
  <1>7. (\A k \in DOMAIN stack : InPlace(stack[k], k))'
    BY <1>3 DEF IInv
  <1>8. (\A k \in DOMAIN stack : Finds(stack[k]) /\ Serves(stack[k]))'
    BY <1>2, <1>3 DEF IInv, Finds, Serves
  <1>9. stack' # <<>> => stack'[1] = stack[1]
    BY <1>3, <1>4
  <1>10. Running'
    BY <1>1, <1>2, <1>9 DEF IInv, Running
  <1>11. /\ Called' => n > 2 /\ stack'[2] = stack[2] /\ stack'[1] = stack[1]
         /\ Called' => Called /\ made' = made
    <2>1. Called' => n > 2
      BY <1>3 DEF Called
    <2>2. Called' => stack'[2] = stack[2] /\ stack'[1] = stack[1]
      BY <1>3, <2>1
    <2>. QED  BY <2>1, <2>2 DEF Called, made, n
  <1>12. Linked'
    BY <1>2, <1>11 DEF IInv, Linked
  <1>13. Vectored'
    <2>1. ASSUME stack' # <<>>, ~Called', stack[1].at > 4
          PROVE  /\ stack[1].code = "PIT_init" => handler[32] = 6
                 /\ stack[1].code = "keyboard_init" => handler[33] = 5
      <3>1. CASE Called
        <4>1. n = 2
          <5>1. n > 1
            BY <1>4, <2>1
          <5>2. n > 2 => stack'[2] = stack[2] /\ Len(stack') > 1
            BY <1>3
          <5>. QED  BY <1>3, <2>1, <3>1, <5>1, <5>2 DEF Called
        <4>2. stack[2].at = Len(Code[stack[2].code]) + 1
          BY <1>3, <1>5, <4>1
        <4>. QED  BY <2>1, <3>1, <4>2, Registered
      <3>2. CASE ~Called
        BY <1>1, <2>1, <3>2 DEF IInv, Vectored
      <3>. QED  BY <3>1, <3>2
    <2>. QED  BY <1>2, <1>9, <1>11, <2>1 DEF IInv, Vectored
  <1>14. Stored'
    BY <1>2, StoredStays DEF FreedOnly
  <1>15. Behind'
    <2>1. stack[1].code = "memory_init" /\ stack[1].at = 5 => stack' # <<>>
      <3>. SUFFICES ASSUME stack[1].code = "memory_init", stack[1].at = 5, n = 1 PROVE FALSE
        <4>1. n > 1 => Len(stack') # Len(<<>>)
          BY <1>3
        <4>. QED  BY <1>3, <4>1
      <3>1. top.code = "memory_init" /\ top.at = 5
        BY <1>3
      <3>2. Len(Code[top.code]) = 5
        BY <3>1 DEF Code, memory_init
      <3>3. top.at = 5 + 1
        BY <1>5, <3>2
      <3>. QED  BY <3>1, <3>3
    <2>. QED  BY <1>1, <1>2, <1>9, <2>1 DEF IInv, Behind
  <1>. QED  BY <1>6, <1>7, <1>8, <1>10, <1>12, <1>13, <1>14, <1>15 DEF IInv

\* Calling the next init function keeps the invariant: none is called twice.
LEMMA RunKeeps ==
    ASSUME IInv, Orderly, RunInit
    PROVE  IInv'
  <1>. DEFINE b == order[turn]
              f == Frame(b, InitOf[b], NoArray, 0)
  <1>1. /\ order \in Seq(1 .. 7) /\ turn \in Nat \ {0} /\ turn \in DOMAIN order
        /\ \A j, k \in DOMAIN order : j # k => order[j] # order[k]
    <2>1. /\ order \in Seq(1 .. 7) /\ turn \in 1 .. (Len(order) + 1) /\ turn <= Len(order)
          /\ \A j, k \in DOMAIN order : j # k => order[j] # order[k]
      BY CoreAssumption DEF RunInit, IInv, Typed
    <2>. QED  BY <2>1
  <1>2. b \in 1 .. 7
    BY <1>1
  <1>3. /\ InitOf[b] \in Inits
        /\ InitOf[b] = "memory_init" => b = 7
    BY <1>2 DEF InitOf, Inits
  <1>4. /\ f \in Frames /\ f.bee = b /\ f.code = InitOf[b] /\ f.at = 1 /\ f.saw = NoArray
    BY <1>2, <1>3, Arrays DEF Frame, Frames, NoArray, Array, Words, Codes
  <1>5. /\ stack = <<>> /\ stack' = <<f>> /\ turn' = turn + 1
        /\ UNCHANGED <<order, node, MEMORY, heap, allocF, blocks, ready, handler, unmasked>>
        /\ UNCHANGED <<IFlag, ticked, hooked>>
    BY DEF RunInit, queen, irqs, bees
  <1>. HIDE DEF f
  <1>6. /\ stack' \in Seq(Frames) /\ Len(stack') = 1 /\ stack'[1] = f /\ DOMAIN stack' = {1}
        /\ stack' # <<>>
    BY <1>4, <1>5
  <1>7. turn' \in 1 .. (Len(order) + 1)
    BY <1>1, <1>5
  <1>8. Typed'
    BY <1>5, <1>6, <1>7 DEF IInv, Typed
  <1>9. (\A k \in DOMAIN stack : InPlace(stack[k], k))'
    <2>1. Len(Code[f.code]) \in Nat
      BY <1>3, <1>4, CodeProper DEF Codes, Proper
    <2>2. InPlace(f, 1)
      BY <1>3, <1>4, <2>1 DEF InPlace, Inits, Commands
    <2>. QED  BY <1>6, <2>2
  <1>10. (\A k \in DOMAIN stack : Finds(stack[k]) /\ Serves(stack[k]))'
    BY <1>3, <1>4, <1>6 DEF Finds, Serves, Commands, Inits
  <1>11. Running'
    BY <1>1, <1>4, <1>5, <1>6 DEF Running
  <1>12. ~Called'
    BY <1>6 DEF Called
  <1>13. Linked'
    BY <1>12 DEF Linked
  <1>14. Vectored'
    BY <1>4, <1>5, <1>6, <1>12 DEF IInv, Vectored
  <1>15. Stored'
    BY <1>5, StoredStays DEF FreedOnly
  <1>16. Behind'
    <2>1. Behind
      BY DEF IInv
    <2>2. ready[7] # 0 => allocF = "core_alloc"
      BY <1>5, <2>1 DEF IInv, Behind, Typed
    <2>3. \A k \in 1 .. (turn - 1) : k \in 1 .. (turn' - 1) /\ k \in DOMAIN order /\ order[k] # b
      BY <1>1, <1>5
    <2>4. f.code = "memory_init" => allocF # "core_alloc"
      BY <1>3, <1>4, <2>1, <2>3 DEF Behind
    <2>5. allocF \in {"alloc", "core_alloc"}
      BY DEF IInv, Typed
    <2>. QED  BY <1>4, <1>5, <1>6, <2>1, <2>2, <2>3, <2>4, <2>5 DEF Behind
  <1>. QED  BY <1>8, <1>9, <1>10, <1>11, <1>13, <1>14, <1>15, <1>16 DEF IInv

\* An interrupt keeps the invariant: it comes on a line that has a handler.
LEMMA InterruptKeeps ==
    ASSUME IInv, Orderly, NEW v \in {32, 33}, Interrupt(v)
    PROVE  IInv'
  <1>. DEFINE n == Len(stack)
              f == Frame(4, "isr_handler", Array(0, <<v>>), 0)
  <1>1. /\ stack' = Append(stack, f) /\ v \in unmasked /\ IFlag' = FALSE
        /\ UNCHANGED <<order, turn, node, MEMORY, heap, allocF, blocks, ready, handler, unmasked>>
        /\ UNCHANGED <<ticked, hooked>>
    BY DEF Interrupt, queen, bees
  <1>2. /\ f \in Frames /\ f.code = "isr_handler" /\ f.at = 1 /\ f.saw = NoArray
        /\ f.want = Array(0, <<v>>)
    BY Arrays DEF Frame, Frames, NoArray, Array, Words, Codes, Irqs
  <1>. HIDE DEF f
  <1>3. /\ n \in Nat /\ DOMAIN stack = 1 .. n /\ stack \in Seq(Frames)
        /\ stack' \in Seq(Frames) /\ Len(stack') = n + 1 /\ DOMAIN stack' = 1 .. (n + 1)
        /\ stack'[n + 1] = f /\ stack' # <<>>
        /\ \A k \in 1 .. n : stack'[k] = stack[k]
    <2>1. stack \in Seq(Frames)
      BY DEF IInv, Typed
    <2>. QED  BY <1>1, <1>2, <2>1
  <1>4. stack = <<>> <=> n = 0
    BY <1>3
  <1>. HIDE DEF n
  <1>5. f.code \notin Inits /\ f.code \notin Commands
    BY <1>2 DEF Inits, Commands
  <1>6. Typed'
    BY <1>1, <1>3, TypedStays DEF IInv, Typed
  <1>7. (\A k \in DOMAIN stack : InPlace(stack[k], k))'
    <2>1. Len(Code[f.code]) \in Nat
      BY <1>2, CodeProper DEF Codes, Irqs, Proper
    <2>2. InPlace(f, n + 1)
      BY <1>2, <1>5, <2>1 DEF InPlace
    <2>. QED  BY <1>3, <2>2 DEF IInv
  <1>8. (\A k \in DOMAIN stack : Finds(stack[k]) /\ Serves(stack[k]))'
    <2>1. Finds(f)' /\ Serves(f)'
      <3>1. handler[v] = BeeOf(v)
        BY <1>1 DEF IInv, Vectored
      <3>. QED  BY <1>1, <1>2, <1>5, <3>1 DEF Finds, Serves
    <2>2. \A k \in 1 .. n : Finds(stack[k])' /\ Serves(stack[k])'
      BY <1>1, <1>3 DEF IInv, Finds, Serves
    <2>. QED  BY <1>3, <2>1, <2>2 DEF Finds, Serves
  <1>9. stack'[1].code \in Inits => stack # <<>> /\ stack'[1] = stack[1]
    BY <1>3, <1>4, <1>5
  <1>10. Running'
    BY <1>1, <1>9 DEF IInv, Running
  <1>11. /\ Called' = Called
         /\ Called => stack'[2] = stack[2] /\ stack'[1] = stack[1]
    <2>1. CASE n > 1
      BY <1>3, <2>1 DEF Called, n
    <2>2. CASE n = 1
      BY <1>3, <1>5, <2>2 DEF Called, n
    <2>3. CASE n = 0
      BY <1>3, <2>3 DEF Called, n
    <2>. QED  BY <1>3, <2>1, <2>2, <2>3
  <1>12. Linked'
    BY <1>1, <1>11 DEF IInv, Linked, made
  <1>13. Vectored'
    BY <1>1, <1>9, <1>11 DEF IInv, Vectored, Inits
  <1>14. Stored'
    BY <1>1, StoredStays DEF FreedOnly
  <1>15. Behind'
    <2>1. stack # <<>> => stack'[1] = stack[1]
      BY <1>3, <1>4
    <2>. QED  BY <1>1, <1>3, <1>9, <2>1 DEF IInv, Behind, Inits
  <1>. QED  BY <1>6, <1>7, <1>8, <1>10, <1>12, <1>13, <1>14, <1>15 DEF IInv

-----------------------------------------------------------------------------
(* The invariant holds.                                                     *)

\* The invariant holds at the start.
LEMMA Beginning ==
    ASSUME Init
    PROVE  IInv
  <1>. USE DEF Init
  <1>1. order \in Seq(1 .. 7)
    BY CoreAssumption
  <1>2. Len(order) \in Nat
    BY <1>1
  <1>3. NoArray \in Words
    BY Arrays DEF NoArray, Array, Words
  <1>4. Typed
    <2>1. node \in [1 .. 7 -> [ptr : Words, global : Nat]] /\ stack \in Seq(Frames)
      BY <1>3
    <2>2. turn \in 1 .. (Len(order) + 1) /\ MEMORY \in Nat \ {0}
      BY <1>2, CoreAssumption
    <2>3. /\ ready \in [1 .. 7 -> Nat] /\ handler \in [{13, 32, 33} -> 0 .. 7]
          /\ blocks \subseteq [lo : Nat, hi : Nat, to : 0 .. 7]
          /\ unmasked \subseteq {32, 33} /\ heap \in Nat
      OBVIOUS
    <2>. QED  BY <2>1, <2>2, <2>3 DEF Typed
  <1>5. DOMAIN stack = {} /\ ~Called
    BY DEF Called
  <1>6. \A b \in 1 .. 7 : node[b].global = 0 /\ ready[b] = 0
    OBVIOUS
  <1>7. Running /\ Linked /\ Vectored /\ Behind /\ Stored
    BY <1>5, <1>6 DEF Running, Linked, Vectored, Behind, Stored
  <1>. QED  BY <1>4, <1>5, <1>7 DEF IInv

\* It holds as long as nothing changes.
LEMMA Unchanged ==
    ASSUME IInv, UNCHANGED vars
    PROVE  IInv'
  <1>1. /\ UNCHANGED <<order, turn, stack, node, MEMORY, allocF, handler, unmasked, IFlag>>
        /\ UNCHANGED <<heap, blocks, ready, ticked, hooked>>
    BY DEF vars, queen, irqs, bees
  <1>2. Typed'
    BY <1>1 DEF IInv, Typed
  <1>3. (\A k \in DOMAIN stack : InPlace(stack[k], k))'
    BY <1>1 DEF IInv
  <1>4. (\A k \in DOMAIN stack : Finds(stack[k]) /\ Serves(stack[k]))'
    BY <1>1 DEF IInv, Finds, Serves
  <1>5. Running' /\ Behind'
    BY <1>1 DEF IInv, Running, Behind
  <1>6. Linked'
    BY <1>1 DEF IInv, Linked, Called, made
  <1>7. Vectored'
    BY <1>1 DEF IInv, Vectored, Called
  <1>8. Stored'
    BY <1>1, StoredStays DEF FreedOnly
  <1>. QED  BY <1>2, <1>3, <1>4, <1>5, <1>6, <1>7, <1>8 DEF IInv

\* Every step keeps it.
LEMMA Keeps ==
    ASSUME IInv, Orderly, [Next]_vars
    PROVE  IInv'
  <1>1. CASE Core_interrupt_handler
    BY <1>1, AllocBumpKeeps, AllocHeapKeeps, QuietAnswers, StorageKeeps, EndKeeps, SetAllocKeeps,
       DispatchKeeps DEF Core_interrupt_handler
  <1>2. CASE ReadArgs  BY <1>2, ReadKeeps
  <1>3. CASE \/ Cli \/ Sti \/ Look \/ StartSleep \/ Tick \/ SleepOver \/ Hook
             \/ EndOfInterrupt \/ KmallocFails \/ Kfree
    BY <1>3, QuietSteps
  <1>4. CASE LayOutHeap  BY <1>4, LayOutKeeps
  <1>5. CASE IdtInit  BY <1>5, IdtInitKeeps
  <1>6. CASE FillIn  BY <1>6, FillInKeeps
  <1>7. CASE pic_unmask_irq(32, "unmask0") \/ pic_unmask_irq(33, "unmask1")
    BY <1>7, UnmaskKeeps
  <1>8. CASE Install  BY <1>8, InstallKeeps
  <1>9. CASE Kmalloc  BY <1>9, KmallocKeeps
  <1>10. CASE Callback  BY <1>10, CallbackKeeps
  <1>11. CASE Handle  BY <1>11, HandleKeeps
  <1>12. CASE Again  BY <1>12, AgainKeeps
  <1>13. CASE Return  BY <1>13, ReturnKeeps
  <1>14. CASE RunInit  BY <1>14, RunKeeps
  <1>15. CASE \E v \in {32, 33} : Interrupt(v)
    BY <1>15, InterruptKeeps
  <1>16. CASE Halt \/ UNCHANGED vars
    BY <1>16, Unchanged DEF Halt
  <1>. QED
    BY <1>1, <1>2, <1>3, <1>4, <1>5, <1>6, <1>7, <1>8, <1>9, <1>10, <1>11, <1>12, <1>13, <1>14,
       <1>15, <1>16 DEF Next, Execute

\* The invariant holds in every reachable state, in whatever order the init functions run,
\* whatever further calls system_start makes and wherever an interrupt comes.
THEOREM Inductive ==
    ASSUME Orderly
    PROVE  Spec => []IInv
  <1>1. Init => IInv
    BY Beginning
  <1>2. IInv /\ [Next]_vars => IInv'
    BY Keeps
  <1>. QED  BY <1>1, <1>2, PTL DEF Spec

-----------------------------------------------------------------------------
(* What follows from it.                                                    *)

\* Every frame runs code that exists, at one of its steps or at its end, and the tables hold
\* bees and addresses.
THEOREM TypeCorrect ==
    ASSUME Orderly
    PROVE  Spec => []TypeOK
  <1>1. IInv => TypeOK
    <2>. SUFFICES ASSUME IInv PROVE TypeOK
      OBVIOUS
    <2>0. Typed
      BY DEF IInv
    <2>1. ASSUME NEW k \in DOMAIN stack
          PROVE  /\ stack[k].bee \in 0 .. 7
                 /\ stack[k].code \in DOMAIN Code
                 /\ stack[k].at \in 1 .. (Len(Code[stack[k].code]) + 1)
                 /\ stack[k].want \in Words /\ stack[k].saw \in Words
                 /\ stack[k].global \in Nat
                 /\ stack[k].eax \in {NONE, NO_MODULE, NO_CMD, Unset}
      <3>1. stack[k] \in Frames
        <4>1. stack \in Seq(Frames)
          BY <2>0 DEF Typed
        <4>. QED  BY <2>1, <4>1
      <3>2. Codes \subseteq DOMAIN Code
        BY DEF Codes, Inits, Commands, Irqs, Code
      <3>3. InPlace(stack[k], k)
        BY DEF IInv
      <3>. QED  BY <3>1, <3>2, <3>3 DEF Frames, InPlace
    <2>2. \A b \in blocks : b.lo \in Nat /\ b.hi \in Nat /\ b.to \in 0 .. 7
      <3>1. blocks \subseteq [lo : Nat, hi : Nat, to : 0 .. 7]
        BY <2>0, Zenon DEF Typed
      <3>. QED  BY <3>1
    <2>3. IFlag \in BOOLEAN /\ ticked \in BOOLEAN /\ hooked \in BOOLEAN
      BY <2>0, Zenon DEF Typed
    <2>4. MEMORY \in Nat \ {0}
      BY <2>0, Zenon DEF Typed
    <2>5. {IFlag, ticked, hooked} \subseteq BOOLEAN
      BY <2>3
    <2>. QED  BY <2>0, <2>1, <2>2, <2>4, <2>5 DEF TypeOK, Typed
  <1>. QED  BY <1>1, Inductive, PTL

\* A command reads the array of its own caller from CoreData.ptr, whatever calls and interrupts
\* come between the queen's store and the command's read.
THEOREM ArgumentsIntact ==
    ASSUME Orderly
    PROVE  Spec => []ArgsIntact
  <1>1. IInv => ArgsIntact
    <2>. SUFFICES ASSUME IInv, NEW k \in DOMAIN stack, stack[k].saw # NoArray
                  PROVE  stack[k].saw = stack[k].want
      BY DEF ArgsIntact
    <2>1. InPlace(stack[k], k) /\ Finds(stack[k])
      BY DEF IInv
    <2>. QED  BY <2>1 DEF InPlace, Finds
  <1>. QED  BY <1>1, Inductive, PTL

\* No interrupt comes for which no handler is registered, and no call goes to an address that
\* is no function.
THEOREM AlwaysSomewhere ==
    ASSUME Orderly
    PROVE  Spec => []NeverNowhere
  <1>1. IInv => NeverNowhere
    <2>. SUFFICES ASSUME IInv, NEW k \in DOMAIN stack
                  PROVE  stack[k].code # "Nowhere"
      BY DEF NeverNowhere
    <2>1. stack[k] \in Frames
      <3>1. stack \in Seq(Frames)
        BY DEF IInv, Typed
      <3>. QED  BY <3>1
    <2>. QED  BY <2>1 DEF Frames, Codes, Inits, Commands, Irqs
  <1>. QED  BY <1>1, Inductive, PTL

\* The storage of every bee is its own, under both allocators and across the switch from one
\* to the other.
THEOREM StorageIsApart ==
    ASSUME Orderly
    PROVE  Spec => []StorageApart
  <1>1. IInv => StorageApart
    <2>. SUFFICES ASSUME IInv, NEW b \in 1 .. 7, node[b].global # 0, ready[7] # 0
                  PROVE  \/ Apart(Lo(b), Hi(b), heap, heap + Units * UNIT)
                         \/ Granted(b)
      BY DEF IInv, Stored, StorageApart, Granted
    <2>1. Bumped(b) \/ Granted(b)
      BY DEF IInv, Stored
    <2>2. MEMORY <= heap
      BY DEF IInv, Behind
    <2>3. MEMORY \in Nat /\ heap \in Nat /\ Hi(b) \in Nat
      <3>1. node[b].global \in Nat /\ Size[b] \in Nat
        BY Sizes DEF IInv, Typed
      <3>2. MEMORY \in Nat /\ heap \in Nat
        BY DEF IInv, Typed
      <3>. QED  BY <3>1, <3>2 DEF Hi
    <2>. QED  BY <2>1, <2>2, <2>3 DEF Bumped, Apart
  <1>. QED  BY <1>1, Inductive, PTL

\* Commands of the display and of the memory manager never run inside each other.
THEOREM NotInsideEachOther ==
    ASSUME Orderly
    PROVE  Spec => []OneAtATime
  <1>1. IInv => OneAtATime
    <2>. SUFFICES ASSUME IInv, NEW b \in {1, 7}
                  PROVE  Cardinality({k \in DOMAIN stack :
                             stack[k].bee = b /\ stack[k].code \in Range(Exports[b])}) <= 1
      BY DEF OneAtATime
    <2>. DEFINE S == {k \in DOMAIN stack :
                          stack[k].bee = b /\ stack[k].code \in Range(Exports[b])}
    <2>1. S \subseteq {2}
      <3>. SUFFICES ASSUME NEW k \in DOMAIN stack, stack[k].bee = b,
                           stack[k].code \in Range(Exports[b])
                    PROVE  k = 2
        OBVIOUS
      <3>1. PICK cmd \in DOMAIN Exports[b] : stack[k].code = Exports[b][cmd]
        BY DEF Range
      <3>2. stack[k].code \in Commands
        BY <3>1, CommandsAre
      <3>3. InPlace(stack[k], k)
        BY DEF IInv
      <3>. QED  BY <3>2, <3>3 DEF InPlace
    <2>. HIDE DEF S
    <2>2. Cardinality({2}) = 1 /\ IsFiniteSet({2})
      BY FS_Singleton
    <2>3. Cardinality(S) <= Cardinality({2})
      BY <2>1, <2>2, FS_Subset
    <2>. QED  BY <2>2, <2>3 DEF S
  <1>. QED  BY <1>1, Inductive, PTL

-----------------------------------------------------------------------------
(* The storage of the bees is ready whenever it is used.                     *)

\* The init functions that obtain storage and fill it in, and the step from which on it is
\* filled in.
Starters == {"interrupt_init", "keyboard_init", "PIT_init", "memory_init"}
FilledAt(c) == IF c \in {"interrupt_init", "memory_init"} THEN 5 ELSE 4

\* The commands of the bees that have storage, and the functions of interrupts with the bee
\* each belongs to.
Users == Commands \ {"plain", "print", "clear"}
Servers == {"isr_handler", "PIT_interrupt", "keyboard_interrupt"}
ServerOf(c) == IF c = "isr_handler" THEN 4 ELSE IF c = "PIT_interrupt" THEN 6 ELSE 5

\* The bee of a starter, and the steps that fill its storage in.
OwnerOf(c) == IF c = "interrupt_init" THEN 4 ELSE IF c = "keyboard_init" THEN 5
              ELSE IF c = "PIT_init" THEN 6 ELSE 7
Fillers == {"fields", "heap", "idt"}

\* A function has the storage of its bee, from the start or from its first step on, and the
\* bee has filled it in.
Knows(f, r) ==
    /\ f.code \in Users => f.bee \in 4 .. 7 /\ f.global = r[f.bee] /\ r[f.bee] # 0
    /\ f.code \in Servers => /\ f.bee = ServerOf(f.code)
                             /\ r[f.bee] # 0
                             /\ f.at >= 2 => f.global = r[f.bee]
Knowing == \A k \in DOMAIN stack : Knows(stack[k], ready)

\* kmalloc has not yet answered the request of the init function at the bottom.
Pending == Called /\ stack[2].code = "kmalloc" /\ stack[2].at <= 2

\* The init function at the bottom has the storage from its first step on, unless kmalloc is
\* still at it, knows where it is from the second, and has filled it in in time.
Prepared ==
    stack # <<>> /\ stack[1].code \in Starters =>
        LET f == stack[1]
        IN  /\ f.at = 2 /\ ~Pending => node[f.bee].global # 0
            /\ f.at >= 3 => f.global = node[f.bee].global /\ node[f.bee].global # 0
            /\ f.at >= FilledAt(f.code) => ready[f.bee] = f.global

\* What has been filled in stays where it is, and is that of a bee on the disk.
Retained == \A b \in 1 .. 7 : ready[b] # 0 => node[b].global = ready[b] /\ Present(b)

\* A bee whose init function has returned has filled its storage in.
Finished ==
    \A k \in 1 .. (turn - 1) : order[k] \in 4 .. 7 =>
        \/ ready[order[k]] # 0
        \/ k = turn - 1 /\ stack # <<>> /\ stack[1].code \in Inits

\* So has one whose interrupt may come, and the interrupt bee, then.
Lines == /\ unmasked # {} => ready[4] # 0
         /\ \A v \in {32, 33} : handler[v] = BeeOf(v) => ready[BeeOf(v)] # 0

\* Until the init function of the start bee runs, kmalloc has given away the first units of
\* the heap, as many as the bees with storage need.
Cost(b) == IF node[b].global # 0 THEN Need(Size[b]) ELSE 0
Used == Cost(4) + Cost(5) + Cost(6)
Early == \A k \in 1 .. (turn - 1) : order[k] # 3
Packed == Early => \A e \in blocks : e.to # 0 /\ e.hi <= heap + Used * UNIT

RInv == Knowing /\ Prepared /\ Retained /\ Finished /\ Lines /\ Packed

-----------------------------------------------------------------------------
(* The code.                                                                *)

\* What step a of code c does to storage, and for whom.
Apt(c, a, s) ==
    /\ s.op \in Touches => c \in Users \/ (c \in Servers /\ a >= 2)
    /\ s.op \in Fillers => c \in Starters /\ a = FilledAt(c) - 1
    /\ c \in Users => s.op # "syscall"
    /\ c \in Servers => IF a = 1 THEN s = Sys(0, 2, <<ServerOf(c)>>)
                                 ELSE s.op = "syscall" => s.id = 0 /\ s.cmd = 3
    /\ c \in Starters =>
          /\ a = 1 => s = Sys(0, 1, <<OwnerOf(c), Size[OwnerOf(c)]>>)
          /\ a = 2 => s = Sys(0, 2, <<OwnerOf(c)>>)
          /\ a = FilledAt(c) - 1 => s.op \in Fillers
          /\ a > 2 /\ s.op = "syscall" => \/ s.id = 0 /\ s.cmd \in {4, 5}
                                          \/ s.id = 4 /\ s.cmd = 1
    /\ s.op = "syscall" /\ s.id = 4 /\ s.cmd = 1 =>
          \/ c = "PIT_init" /\ a = 4 /\ s.args = <<32, 6>>
          \/ c = "keyboard_init" /\ a = 4 /\ s.args = <<33, 5>>
          \/ c = "interrupt_init" /\ a = 6 /\ s.args = <<13, 4>>

\* The steps of the commands.
LEMMA UsersApt ==
    ASSUME NEW c \in Commands, NEW a \in 1 .. Len(Code[c])
    PROVE  Apt(c, a, Code[c][a])
  <1>. USE DEF Code, Apt, Do, Sys, Users, Commands, Servers, Starters, Fillers, Touches
  <1>1. CASE c = "plain"             BY <1>1 DEF plain
  <1>2. CASE c = "print"             BY <1>2 DEF print
  <1>3. CASE c = "clear"             BY <1>3 DEF clear
  <1>4. CASE c = "registerInterrupt" BY <1>4 DEF registerInterrupt
  <1>5. CASE c = "is_there_data"     BY <1>5 DEF is_there_data
  <1>6. CASE c = "get_key"           BY <1>6 DEF get_key
  <1>7. CASE c = "sleep"             BY <1>7 DEF sleep
  <1>8. CASE c = "register_handler"  BY <1>8 DEF register_handler
  <1>9. CASE c = "get_ticks"         BY <1>9 DEF get_ticks
  <1>10. CASE c = "set_frequency"    BY <1>10 DEF set_frequency
  <1>11. CASE c = "kmalloc"          BY <1>11 DEF kmalloc
  <1>12. CASE c = "kfree"            BY <1>12 DEF kfree
  <1>. HIDE DEF Code, Apt, Do, Sys, Users, Servers, Starters, Fillers, Touches
  <1>. QED  BY <1>1, <1>2, <1>3, <1>4, <1>5, <1>6, <1>7, <1>8, <1>9, <1>10, <1>11, <1>12
            DEF Commands

\* Those of the functions of interrupts.
LEMMA IrqsApt ==
    ASSUME QuietHandler, NEW c \in Irqs, NEW a \in 1 .. Len(Code[c])
    PROVE  Apt(c, a, Code[c][a])
  <1>1. CASE c = "tick_handler"
    <2>1. Code[c] = tick_handler
      BY <1>1 DEF Code
    <2>2. a \in 1 .. Len(tick_handler) /\ tick_handler \in Seq(Requests)
      BY <2>1 DEF QuietHandler
    <2>3. tick_handler[a] \in Requests /\ tick_handler[a].id = 0
      BY <2>2 DEF QuietHandler
    <2>4. tick_handler[a].op = "syscall"
      BY <2>3 DEF Requests
    <2>. QED
      BY <1>1, <2>1, <2>3, <2>4 DEF Apt, Users, Commands, Servers, Starters, Fillers, Touches
  <1>. USE DEF Code, Apt, Do, Sys, Users, Commands, Servers, ServerOf, Starters, Fillers, Touches
  <1>2. CASE c = "isr_handler"         BY <1>2 DEF isr_handler
  <1>3. CASE c = "PIT_interrupt"       BY <1>3 DEF PIT_interrupt
  <1>4. CASE c = "keyboard_interrupt"  BY <1>4 DEF keyboard_interrupt
  <1>. QED  BY <1>1, <1>2, <1>3, <1>4 DEF Irqs

\* Those of the init functions.
LEMMA StartersApt ==
    ASSUME NEW c \in Starters, NEW a \in 1 .. Len(Code[c])
    PROVE  Apt(c, a, Code[c][a])
  <1>. USE DEF Code, Apt, Do, Sys, Users, Commands, Servers, OwnerOf, Starters, Fillers, FilledAt,
               Touches
  <1>1. CASE c = "interrupt_init"  BY <1>1 DEF interrupt_init
  <1>2. CASE c = "keyboard_init"   BY <1>2 DEF keyboard_init
  <1>3. CASE c = "PIT_init"        BY <1>3 DEF PIT_init
  <1>4. CASE c = "memory_init"     BY <1>4 DEF memory_init
  <1>. QED  BY <1>1, <1>2, <1>3, <1>4

\* Those of the start bee, which registers no interrupt.
LEMMA StartApt ==
    ASSUME OrdinaryCalls, NEW a \in 1 .. Len(Code["start_init"])
    PROVE  Apt("start_init", a, Code["start_init"][a])
  <1>1. Code["start_init"] = start_init
    BY DEF Code
  <1>. DEFINE n == Len(Extra)
  <1>2. n \in Nat /\ Extra \in Seq(Requests)
    BY DEF OrdinaryCalls
  <1>3. /\ Len(start_init) = n + 8
        /\ start_init[1] = Sys(0, 1, <<3, Size[3]>>) /\ start_init[2] = Sys(0, 2, <<3>>)
        /\ start_init[3] = Sys(7, 1, <<Comb, 0>>) /\ start_init[4] = Sys(7, 1, <<Buf, 0>>)
        /\ start_init[5] = Sys(1, 2, <<>>) /\ start_init[6] = Sys(1, 4, <<2>>)
        /\ \A k \in 1 .. n : start_init[k + 6] = Extra[k]
        /\ start_init[n + 7] = Sys(6, 1, <<500>>) /\ start_init[n + 8] = Do("again")
    BY <1>2 DEF start_init, start_setup
  <1>4. /\ start_init[a].op \in {"syscall", "again"}
        /\ start_init[a].op = "syscall" => ~(start_init[a].id = 4 /\ start_init[a].cmd = 1)
    <2>1. CASE a \in 7 .. (n + 6)
      <3>1. start_init[a] = Extra[a - 6] /\ a - 6 \in 1 .. n
        BY <1>2, <1>3, <2>1
      <3>2. Extra[a - 6] \in Requests /\ Ordinary(Extra[a - 6])
        BY <1>2, <3>1 DEF OrdinaryCalls
      <3>. QED  BY <3>1, <3>2 DEF Ordinary, Requests
    <2>2. CASE a \in 1 .. 6
      BY <1>3, <2>2 DEF Sys
    <2>3. CASE a \in {n + 7, n + 8}
      BY <1>3, <2>3 DEF Sys, Do
    <2>. QED  BY <1>1, <1>2, <1>3, <2>1, <2>2, <2>3
  <1>. QED  BY <1>1, <1>4 DEF Apt, Users, Commands, Servers, Starters, Fillers, Touches

\* All steps of all code.
LEMMA CodeApt ==
    ASSUME Orderly, NEW c \in Codes, NEW a \in 1 .. Len(Code[c])
    PROVE  Apt(c, a, Code[c][a])
  <1>1. CASE c \in Commands  BY <1>1, UsersApt
  <1>2. CASE c \in Irqs  BY <1>2, IrqsApt DEF Orderly
  <1>3. CASE c \in Starters  BY <1>3, StartersApt
  <1>4. CASE c = "start_init"  BY <1>4, StartApt DEF Orderly
  <1>5. CASE c = "idle"
    <2>1. Len(Code[c]) = 0
      BY <1>5 DEF Code
    <2>. QED  BY <2>1
  <1>. QED  BY <1>1, <1>2, <1>3, <1>4, <1>5 DEF Codes, Inits, Starters

\* The step of the running function, then.
LEMMA StepApt ==
    ASSUME IInv, Orderly, Stepping
    PROVE  Apt(top.code, top.at, step)
  <1>1. top.code \in Codes /\ Len(Code[top.code]) \in Nat
    BY StepFits, CodeProper DEF Proper
  <1>2. top.at \in 1 .. Len(Code[top.code])
    BY <1>1, StepFits DEF Stepping
  <1>. QED  BY <1>1, <1>2, CodeApt DEF step

\* So is the call that the command above an init function serves.
LEMMA MadeApt ==
    ASSUME IInv, Orderly, Called
    PROVE  /\ Apt(stack[1].code, stack[1].at - 1, made)
           /\ stack[1].at - 1 \in 1 .. Len(Code[stack[1].code])
           /\ made = Code[stack[1].code][stack[1].at - 1] /\ stack[1] \in Frames
  <1>1. stack \in Seq(Frames) /\ Len(stack) > 1
    BY DEF IInv, Typed, Called
  <1>2. 1 \in DOMAIN stack /\ stack[1] \in Frames
    BY <1>1
  <1>3. stack[1].code \in Codes /\ Len(Code[stack[1].code]) \in Nat
    BY <1>2, CodeProper DEF Frames, Proper
  <1>4. stack[1].at - 1 \in 1 .. Len(Code[stack[1].code])
    BY <1>2, <1>3, MadeFits DEF IInv, InPlace
  <1>. QED  BY <1>2, <1>3, <1>4, CodeApt DEF made

\* The lengths of the init functions: the last step is not before the one that fills in.
LEMMA Lengths ==
    ASSUME NEW c \in Starters
    PROVE  Len(Code[c]) + 1 >= FilledAt(c) /\ FilledAt(c) \in {4, 5}
  <1>. USE DEF Code, FilledAt
  <1>1. CASE c = "interrupt_init"  BY <1>1 DEF interrupt_init
  <1>2. CASE c = "keyboard_init"   BY <1>2 DEF keyboard_init
  <1>3. CASE c = "PIT_init"        BY <1>3 DEF PIT_init
  <1>4. CASE c = "memory_init"     BY <1>4 DEF memory_init
  <1>. QED  BY <1>1, <1>2, <1>3, <1>4 DEF Starters

-----------------------------------------------------------------------------
(* The order of the init functions.                                         *)

\* A bee with a smaller priority number comes first.
LEMMA Ranked ==
    ASSUME IInv, Prioritised, NEW j \in DOMAIN order, NEW k \in DOMAIN order,
           Priority[order[j]] < Priority[order[k]]
    PROVE  j < k
  <1>1. order \in Seq(1 .. 7) /\ order \in Orders
    BY CoreAssumption DEF IInv, Typed
  <1>2. j \in Nat /\ k \in Nat /\ order[j] \in 1 .. 7 /\ order[k] \in 1 .. 7
    BY <1>1
  <1>3. j # k
    BY <1>2 DEF Priority
  <1>4. k < j => Priority[order[k]] <= Priority[order[j]]
    BY <1>1 DEF Prioritised
  <1>5. Priority[order[j]] \in Nat /\ Priority[order[k]] \in Nat
    BY <1>2 DEF Priority
  <1>. QED  BY <1>2, <1>3, <1>4, <1>5

\* The init function at the bottom is that of its bee, whose turn it was.
LEMMA Bottom ==
    ASSUME IInv, stack # <<>>, stack[1].code \in Inits
    PROVE  /\ turn - 1 \in DOMAIN order /\ turn - 1 \in 1 .. (turn - 1)
           /\ order[turn - 1] = stack[1].bee /\ stack[1].bee \in 1 .. 7 /\ Present(stack[1].bee)
           /\ stack[1].code = InitOf[stack[1].bee]
           /\ stack[1].code \in Starters => /\ stack[1].bee = OwnerOf(stack[1].code)
                                            /\ stack[1].bee \in 4 .. 7
           /\ stack[1].code = "start_init" => stack[1].bee = 3
           /\ stack[1].bee \in 4 .. 7 => stack[1].code \in Starters
  <1>1. order \in Seq(1 .. 7) /\ turn \in 1 .. (Len(order) + 1) /\ Len(order) \in Nat
    BY CoreAssumption DEF IInv, Typed
  <1>2. turn > 1 /\ stack[1].bee = order[turn - 1] /\ stack[1].code = InitOf[order[turn - 1]]
    BY DEF IInv, Running
  <1>3. turn - 1 \in DOMAIN order /\ turn - 1 \in 1 .. (turn - 1)
    BY <1>1, <1>2
  <1>4. order[turn - 1] \in 1 .. 7 /\ Present(stack[1].bee)
    BY <1>1, <1>2, <1>3 DEF Present
  <1>. QED  BY <1>2, <1>3, <1>4 DEF InitOf, Starters, OwnerOf

\* The storage of a bee whose init function ran before that at the bottom is ready.
LEMMA Before ==
    ASSUME IInv, RInv, stack # <<>>, stack[1].code \in Inits, NEW k \in DOMAIN order,
           order[k] \in 4 .. 7, k < turn - 1
    PROVE  ready[order[k]] # 0
  <1>1. order \in Seq(1 .. 7) /\ turn \in Nat
    BY CoreAssumption DEF IInv, Typed
  <1>2. k \in 1 .. (turn - 1) /\ k # turn - 1
    BY <1>1
  <1>. QED  BY <1>2 DEF RInv, Finished

\* When start_init runs, that of every bee is; when PIT_init or keyboard_init runs, that of the
\* interrupt bee.
LEMMA Ready ==
    ASSUME IInv, RInv, Prioritised, stack # <<>>
    PROVE  /\ stack[1].code = "start_init" => \A b \in 4 .. 7 : Present(b) => ready[b] # 0
           /\ stack[1].code \in {"PIT_init", "keyboard_init"} => ready[4] # 0
  <1>1. ASSUME stack[1].code = "start_init", NEW b \in 4 .. 7, Present(b)
        PROVE  ready[b] # 0
    <2>1. stack[1].code \in Inits
      BY <1>1 DEF Inits
    <2>2. PICK k \in DOMAIN order : order[k] = b
      BY <1>1 DEF Present
    <2>3. order[turn - 1] = 3 /\ turn - 1 \in DOMAIN order
      BY <1>1, <2>1, Bottom
    <2>4. Priority[b] < Priority[3]
      BY DEF Priority
    <2>5. k < turn - 1
      BY <2>2, <2>3, <2>4, Ranked
    <2>. QED  BY <2>1, <2>2, <2>5, Before
  <1>2. ASSUME stack[1].code \in {"PIT_init", "keyboard_init"}
        PROVE  ready[4] # 0
    <2>1. stack[1].code \in Inits /\ stack[1].code \in Starters
      BY <1>2 DEF Inits, Starters
    <2>2. order[turn - 1] \in {5, 6} /\ turn - 1 \in DOMAIN order
      BY <1>2, <2>1, Bottom DEF OwnerOf
    <2>3. order \in Orders
      BY DEF IInv, Typed
    <2>4. 4 \in Range(order)
      BY <2>2, <2>3, CoreAssumption DEF Range
    <2>5. PICK k \in DOMAIN order : order[k] = 4
      BY <2>4 DEF Range
    <2>6. Priority[4] < Priority[order[turn - 1]]
      BY <2>2 DEF Priority
    <2>7. k < turn - 1
      BY <2>2, <2>5, <2>6, Ranked
    <2>. QED  BY <2>1, <2>5, <2>7, Before
  <1>. QED  BY <1>1, <1>2

-----------------------------------------------------------------------------
(* What a step does.                                                        *)

\* The storage that a bee has obtained stays its storage.
Kept == \A b \in 1 .. 7 : node[b].global # 0 => node'[b].global = node[b].global

\* The running function asks the queen for the storage of bee b, or where that is.
Asks(cmd) == step.op = "syscall" /\ step.id = 0 /\ step.cmd = cmd /\ Present(step.args[1])

\* It takes a step and goes on as g.
Goes(g) ==
    /\ Stepping /\ Moves(g) /\ Kept
    /\ UNCHANGED <<order, turn>>
    /\ g.global = IF Asks(2) THEN node[step.args[1]].global ELSE top.global
    /\ Asks(1) => node'[step.args[1]].global # 0
    /\ ready' = IF step.op \in Fillers THEN [ready EXCEPT ![top.bee] = top.global] ELSE ready
    /\ step.op = "kmalloc" => Kmalloc \/ KmallocFails
    /\ (UNCHANGED heap /\ FreedOnly) \/ Kmalloc \/ Core_end \/ LayOutHeap
    /\ \/ UNCHANGED <<handler, unmasked>>
       \/ IdtInit \/ Install \/ pic_unmask_irq(32, "unmask0") \/ pic_unmask_irq(33, "unmask1")

\* It calls a command, has kmalloc called for it, or calls a function of the interrupt.
Commanding(h) == /\ step.op = "syscall" /\ step.id \in 1 .. 7 /\ Present(step.id)
                 /\ h.bee = step.id /\ h.global = node[h.bee].global
                 /\ step.cmd \in DOMAIN Exports[h.bee] /\ h.code = Exports[h.bee][step.cmd]
Allocating(h) == /\ Asks(1) /\ allocF = "core_alloc"
                 /\ h.bee = 7 /\ h.global = node[h.bee].global /\ h.code = "kmalloc"
Handling(h)   == /\ step.op \in {"callback", "handler"}
                 /\ \/ h.code = "tick_handler"
                    \/ /\ h.code \in {"PIT_interrupt", "keyboard_interrupt"}
                       /\ h.bee = ServerOf(h.code)
                       /\ \E v \in {32, 33} : h.bee = BeeOf(v) /\ handler[v] = BeeOf(v)

\* It calls a function, whose frame is h, and goes on as g afterwards.
Calls(g, h) ==
    /\ Stepping /\ Enters(g, h) /\ Kept /\ g.global = top.global /\ h.at = 1
    /\ UNCHANGED <<order, turn, ready, heap, blocks, handler, unmasked>>
    /\ Commanding(h) \/ Allocating(h) \/ Handling(h)

\* A step that the queen answers and that changes nothing that the invariant is about.
LEMMA AnswerGoes ==
    ASSUME IInv, Orderly, Stepping, step.op = "syscall",
           NEW e \in {NONE, NO_MODULE, NO_CMD, Unset}, Answer(e), Kept, ~Asks(2),
           Asks(1) => node'[step.args[1]].global # 0,
           UNCHANGED <<order, turn, ready, handler, unmasked>>,
           (UNCHANGED heap /\ FreedOnly) \/ Core_end
    PROVE  \E g : Goes(g)
  <1>. DEFINE g == [top EXCEPT !.at = @ + 1, !.eax = e]
  <1>1. Moves(g)
    BY AnswerMoves
  <1>2. g.global = top.global
    <2>1. top \in Frames
      BY TopIs DEF Stepping
    <2>. QED  BY <2>1 DEF Frames
  <1>. HIDE DEF g
  <1>3. Goes(g)
    BY <1>1, <1>2 DEF Goes, Fillers
  <1>. QED  BY <1>3

\* One that is no call.
LEMMA StepGoes ==
    ASSUME IInv, Orderly, Stepping, step.op \notin {"syscall", "args"}, Step, Kept,
           UNCHANGED <<order, turn>>,
           ready' = IF step.op \in Fillers THEN [ready EXCEPT ![top.bee] = top.global] ELSE ready,
           step.op = "kmalloc" => Kmalloc \/ KmallocFails,
           (UNCHANGED heap /\ FreedOnly) \/ Kmalloc \/ LayOutHeap,
           \/ UNCHANGED <<handler, unmasked>>
           \/ IdtInit \/ Install \/ pic_unmask_irq(32, "unmask0") \/ pic_unmask_irq(33, "unmask1")
    PROVE  \E g : Goes(g)
  <1>. DEFINE g == [top EXCEPT !.at = @ + 1]
  <1>1. Moves(g)
    BY StepMoves
  <1>2. g.global = top.global
    <2>1. top \in Frames
      BY TopIs DEF Stepping
    <2>. QED  BY <2>1 DEF Frames
  <1>. HIDE DEF g
  <1>3. Goes(g)
    BY <1>1, <1>2 DEF Goes, Asks
  <1>. QED  BY <1>3

\* What the bump allocator clears has never been filled in.
LEMMA ClearedNone ==
    ASSUME IInv, RInv, allocF = "alloc", NEW n \in Nat
    PROVE  Cleared(n) = ready
  <1>1. /\ ready \in [1 .. 7 -> Nat] /\ MEMORY \in Nat /\ Size \in [1 .. 7 -> Nat]
    BY Sizes DEF IInv, Typed
  <1>2. ASSUME NEW b \in 1 .. 7, ready[b] # 0
        PROVE  Apart(ready[b], ready[b] + Size[b], MEMORY, MEMORY + (4 * n))
    <2>1. node[b].global = ready[b]
      BY <1>2 DEF RInv, Retained
    <2>2. Bumped(b)
      BY <1>2, <2>1 DEF IInv, Stored, Granted
    <2>. QED  BY <1>1, <2>1, <2>2 DEF Bumped, Hi, Apart
  <1>3. \A b \in 1 .. 7 : Cleared(n)[b] = ready[b]
    BY <1>2 DEF Cleared
  <1>4. Cleared(n) = [b \in 1 .. 7 |-> Cleared(n)[b]]
    BY DEF Cleared
  <1>. QED  BY <1>1, <1>3, <1>4

\* The number of words that it is asked for.
LEMMA BumpAsked ==
    ASSUME IInv, Orderly, Stepping, Core_alloc_bump
    PROVE  step.args[2] \in Nat
  <1>1. step.op = "syscall" /\ step.id = 0 /\ step.cmd = 1
    BY AtIs DEF Core_alloc_bump, Call
  <1>2. Allowed(top.code, top.at, step) /\ step.args \in Seq(Nat)
    BY <1>1, StepFits DEF Fits, Numbers
  <1>3. Len(step.args) = 2
    BY <1>1, <1>2 DEF Allowed
  <1>. QED  BY <1>2, <1>3

\* The calls that the queen answers by itself.
LEMMA AnswersGo ==
    ASSUME IInv, RInv, Orderly,
           \/ Core_alloc_bump \/ Core_alloc_again \/ Core_data \/ Core_end \/ Core_set_alloc
           \/ Core_no_module \/ Core_no_cmd
    PROVE  \E g : Goes(g)
  <1>1. Stepping /\ step.op = "syscall"
    BY AtIs DEF Core_alloc_bump, Core_alloc_again, Core_data, Core_end, Core_set_alloc,
                Core_no_module, Core_no_cmd, Call
  <1>2. CASE Core_alloc_bump
    <2>. DEFINE b == step.args[1]
    <2>1. b \in 1 .. 7 /\ node[b].global = 0 /\ node' = [node EXCEPT ![b].global = MEMORY]
      BY <1>2, PresentIs DEF Core_alloc_bump, Refused
    <2>2. MEMORY # 0 /\ node \in [1 .. 7 -> [ptr : Words, global : Nat]]
      BY DEF IInv, Typed
    <2>3. Kept /\ node'[b].global # 0
      BY <2>1, <2>2 DEF Kept
    <2>4. ~Asks(2)
      BY <1>2 DEF Core_alloc_bump, Call, Asks
    <2>5. Answer(NONE) /\ UNCHANGED <<order, turn, handler, unmasked, heap, blocks>>
          /\ ready' = Cleared(step.args[2]) /\ allocF = "alloc"
      BY <1>2 DEF Core_alloc_bump, irqs
    <2>6. UNCHANGED ready /\ FreedOnly
      <3>1. step.args[2] \in Nat
        BY <1>1, <1>2, BumpAsked
      <3>. QED  BY <2>5, <3>1, ClearedNone DEF FreedOnly
    <2>. QED  BY <1>1, <2>3, <2>4, <2>5, <2>6, AnswerGoes
  <1>3. CASE \/ Core_alloc_again \/ Core_data \/ Core_set_alloc \/ Core_no_module \/ Core_no_cmd
    <2>. USE DEF Core_alloc_again, Core_data, Core_set_alloc, Core_no_module, Core_no_cmd
    <2>1. PICK e \in {NONE, NO_MODULE, NO_CMD, Unset} : Answer(e)
      BY <1>3
    <2>2. UNCHANGED <<order, turn, node, ready, handler, unmasked, heap, blocks>>
      BY <1>3 DEF queen, irqs, bees
    <2>3. ~Asks(2) /\ (Asks(1) => node[step.args[1]].global # 0)
      BY <1>3 DEF Call, Asks, Target, Refused
    <2>. QED  BY <1>1, <2>1, <2>2, <2>3, AnswerGoes DEF Kept, FreedOnly
  <1>4. CASE Core_end
    <2>1. Answer(NONE) /\ UNCHANGED <<order, turn, node, ready, handler, unmasked>>
      BY <1>4 DEF Core_end, queen, irqs
    <2>2. ~Asks(2) /\ ~Asks(1)
      BY <1>4 DEF Core_end, Call, Asks
    <2>. QED  BY <1>1, <1>4, <2>1, <2>2, AnswerGoes DEF Kept
  <1>. QED  BY <1>2, <1>3, <1>4

\* CMD 2.
LEMMA StorageGoes ==
    ASSUME IInv, Orderly, Core_storage
    PROVE  \E g : Goes(g)
  <1>1. Stepping /\ step.op = "syscall" /\ step.id = 0 /\ step.cmd = 2 /\ Present(step.args[1])
    BY AtIs DEF Core_storage, Call
  <1>. DEFINE g == [top EXCEPT !.at = @ + 1, !.eax = NONE, !.global = node[step.args[1]].global]
  <1>2. top \in Frames /\ top.at + 1 \in Nat
    BY <1>1, TopIs, StepFits DEF Stepping
  <1>3. node[step.args[1]].global \in Nat
    BY <1>1, PresentIs DEF IInv, Typed
  <1>4. /\ g \in Frames /\ g.bee = top.bee /\ g.code = top.code /\ g.want = top.want
        /\ g.at = top.at + 1 /\ g.saw = top.saw /\ g.global = node[step.args[1]].global
    BY <1>2, <1>3 DEF Frames
  <1>5. stack' = [stack EXCEPT ![Len(stack)] = g]
    BY DEF Core_storage, Onward, top
  <1>. HIDE DEF g
  <1>6. Moves(g)
    <2>1. Onto(g)
      BY <1>1, <1>4 DEF Onto
    <2>. QED  BY <1>1, <1>5, <2>1, MovesTo
  <1>7. UNCHANGED <<order, turn, node, ready, handler, unmasked, heap, blocks>>
    BY DEF Core_storage, queen, irqs, bees
  <1>8. Asks(2) /\ ~Asks(1)
    BY <1>1 DEF Asks
  <1>9. Goes(g)
    BY <1>1, <1>4, <1>6, <1>7, <1>8 DEF Goes, Kept, Fillers, FreedOnly
  <1>. QED  BY <1>9

\* The reading of the array.
LEMMA ReadGoes ==
    ASSUME IInv, Orderly, ReadArgs
    PROVE  \E g : Goes(g)
  <1>1. Stepping /\ step.op = "args"
    BY AtIs DEF ReadArgs
  <1>2. top.code \in Commands
    BY <1>1, StepFits DEF Fits, Placed
  <1>3. top \in Frames /\ top.at + 1 \in Nat /\ InPlace(top, Len(stack))
    BY <1>1, TopIs, StepFits DEF Stepping
  <1>4. node[top.bee].ptr \in Words
    BY <1>2, <1>3 DEF InPlace, IInv, Typed
  <1>. DEFINE g == [top EXCEPT !.at = @ + 1, !.saw = node[top.bee].ptr]
  <1>5. /\ g \in Frames /\ g.bee = top.bee /\ g.code = top.code /\ g.want = top.want
        /\ g.at = top.at + 1 /\ g.saw = node[top.bee].ptr /\ g.global = top.global
    BY <1>3, <1>4 DEF Frames
  <1>6. stack' = [stack EXCEPT ![Len(stack)] = g]
    BY DEF ReadArgs, Onward, top
  <1>. HIDE DEF g
  <1>7. Moves(g)
    <2>1. Onto(g)
      BY <1>1, <1>5 DEF Onto
    <2>. QED  BY <1>1, <1>6, <2>1, MovesTo
  <1>8. UNCHANGED <<order, turn, node, ready, handler, unmasked, heap, blocks>>
    BY DEF ReadArgs, queen, irqs, bees
  <1>9. Goes(g)
    BY <1>1, <1>5, <1>7, <1>8 DEF Goes, Kept, Asks, Fillers, FreedOnly
  <1>. QED  BY <1>9

\* kmalloc is at work for the init function at the bottom.
LEMMA Granting ==
    ASSUME IInv, Orderly, Stepping, step.op = "kmalloc"
    PROVE  /\ Len(stack) = 2 /\ stack[2] = top /\ Called /\ Pending
           /\ top.code = "kmalloc" /\ top.at = 2
  <1>1. top.code = "kmalloc" /\ top.at = 2
    BY StepFits DEF Fits, Placed
  <1>2. InPlace(top, Len(stack)) /\ Len(stack) \in Nat
    BY TopIs DEF Stepping
  <1>3. top.code \in Commands /\ top.code # "plain"
    BY <1>1 DEF Commands
  <1>4. Len(stack) = 2
    BY <1>2, <1>3 DEF InPlace
  <1>5. stack[2] = top
    BY <1>4 DEF top
  <1>. QED  BY <1>1, <1>3, <1>4, <1>5 DEF Called, Pending

\* Giving a block away replaces no storage.
LEMMA KmallocGoes ==
    ASSUME IInv, Orderly, Kmalloc
    PROVE  \E g : Goes(g)
  <1>1. Stepping /\ step.op = "kmalloc" /\ Step
    BY AtIs DEF Kmalloc
  <1>2. Called /\ stack[2] = top /\ top.code = "kmalloc" /\ top.at = 2
    BY <1>1, Granting
  <1>. DEFINE to == top.saw.args[2]
              p  == Min(Gaps(Need(top.saw.args[1]))) + HEADER
  <1>3. to = 0 \/ (to \in 1 .. 7 /\ node[to].global = 0)
    <2>1. stack[2].code = "kmalloc" /\ stack[2].at = 2
      BY <1>2
    <2>2. \/ stack[2].saw.args[2] = 0
          \/ stack[2].saw.args[2] \in 1 .. 7 /\ node[stack[2].saw.args[2]].global = 0
      BY <1>2, <2>1, Asked
    <2>. QED  BY <1>2, <2>2
  <1>4. /\ node' = IF to = 0 THEN node ELSE [node EXCEPT ![to].global = p]
        /\ UNCHANGED <<order, turn, ready, handler, unmasked>>
    BY DEF Kmalloc, irqs
  <1>. HIDE DEF to, p
  <1>5. Kept
    <2>1. node \in [1 .. 7 -> [ptr : Words, global : Nat]]
      BY DEF IInv, Typed
    <2>. QED  BY <1>3, <1>4, <2>1 DEF Kept
  <1>. QED  BY <1>1, <1>4, <1>5, StepGoes DEF Fillers

\* Filling in the storage of a bee is a step of its own init function.
LEMMA FillersGo ==
    ASSUME IInv, Orderly, LayOutHeap \/ IdtInit \/ FillIn
    PROVE  \E g : Goes(g)
  <1>1. Stepping /\ step.op \in Fillers /\ Step
    BY AtIs DEF LayOutHeap, IdtInit, FillIn, Fillers
  <1>2. top.code \in Starters /\ top.code \in Inits
    BY <1>1, StepApt DEF Apt, Starters, Inits
  <1>3. stack[1] = top /\ stack # <<>> /\ top.bee = OwnerOf(top.code)
    BY <1>1, <1>2, InitAlone, Bottom DEF Stepping
  <1>4. CASE LayOutHeap
    <2>1. top.code = "memory_init"
      BY <1>1, <1>4, AtIs, StepFits DEF LayOutHeap, Fits, Placed
    <2>2. top.bee = 7 /\ UNCHANGED <<order, turn, node, handler, unmasked>>
          /\ ready' = [ready EXCEPT ![7] = top.global]
      BY <1>3, <1>4, <2>1 DEF LayOutHeap, queen, irqs, OwnerOf
    <2>. QED  BY <1>1, <1>4, <2>2, StepGoes DEF Kept, Fillers
  <1>5. CASE IdtInit
    <2>1. top.code = "interrupt_init"
      BY <1>1, <1>5, AtIs, StepFits DEF IdtInit, Fits, Placed
    <2>2. top.bee = 4 /\ UNCHANGED <<order, turn, node, heap, blocks>>
          /\ ready' = [ready EXCEPT ![4] = top.global]
      BY <1>3, <1>5, <2>1 DEF IdtInit, queen, OwnerOf
    <2>. QED  BY <1>1, <1>5, <2>2, StepGoes DEF Kept, Fillers, FreedOnly
  <1>6. CASE FillIn
    <2>1. /\ UNCHANGED <<order, turn, node, heap, blocks, handler, unmasked>>
          /\ ready' = [ready EXCEPT ![top.bee] = top.global]
      BY <1>6 DEF FillIn, queen, irqs
    <2>. QED  BY <1>1, <2>1, StepGoes DEF Kept, Fillers, FreedOnly
  <1>. QED  BY <1>4, <1>5, <1>6

\* The other steps.
LEMMA OthersGo ==
    ASSUME IInv, Orderly,
           \/ Cli \/ Sti \/ Look \/ StartSleep \/ Tick \/ SleepOver \/ Hook
           \/ EndOfInterrupt \/ KmallocFails \/ Kfree \/ Install
           \/ pic_unmask_irq(32, "unmask0") \/ pic_unmask_irq(33, "unmask1")
    PROVE  \E g : Goes(g)
  <1>. USE DEF Cli, Sti, Look, StartSleep, Tick, SleepOver, Hook, EndOfInterrupt, KmallocFails,
               Kfree, Install, pic_unmask_irq
  <1>1. Stepping /\ step.op \in {"cli", "sti", "look", "put", "start", "tick", "wait", "hook",
                                 "eoi", "kmalloc", "kfree", "install", "unmask0", "unmask1"}
    BY AtIs
  <1>2. Step /\ UNCHANGED <<order, turn, node, ready, heap>> /\ FreedOnly
    BY DEF queen, irqs, bees, FreedOnly
  <1>3. step.op = "kmalloc" => KmallocFails
    BY DEF At
  <1>4. \/ UNCHANGED <<handler, unmasked>>
        \/ Install \/ pic_unmask_irq(32, "unmask0") \/ pic_unmask_irq(33, "unmask1")
    BY DEF irqs
  <1>. QED  BY <1>1, <1>2, <1>3, <1>4, StepGoes DEF Kept, Fillers

\* A call of a command.
LEMMA DispatchCalls ==
    ASSUME IInv, Orderly, Core_dispatch
    PROVE  \E g, h : Calls(g, h)
  <1>1. Stepping /\ step.op = "syscall" /\ step.id \in 1 .. 7 /\ Present(step.id)
    BY AtIs, PresentIs DEF Core_dispatch
  <1>2. Allowed(top.code, top.at, step) /\ Numbers(step)
    BY <1>1, StepFits DEF Fits
  <1>3. step.cmd \in DOMAIN Exports[step.id]
    BY <1>1, <1>2 DEF Core_dispatch, Allowed, Numbers
  <1>. DEFINE h == Callee(step.id, step.cmd, Passed)
  <1>4. Passed \in Words
    BY <1>1, <1>2, TopIs DEF Passed, Array, Words, Numbers, Stepping
  <1>5. /\ h \in Frames /\ h.bee = step.id /\ h.code = Exports[step.id][step.cmd]
        /\ h.at = 1 /\ h.global = node[step.id].global
    <2>1. Exports[step.id][step.cmd] \in Commands
      BY <1>1, <1>3, CommandsAre
    <2>2. NoArray \in Words
      BY Arrays DEF NoArray, Array, Words
    <2>3. node[step.id].global \in Nat
      BY <1>1 DEF IInv, Typed
    <2>. QED  BY <1>1, <1>4, <2>1, <2>2, <2>3 DEF Callee, Frame, Frames, Codes
  <1>6. EnterAnswered(h, NONE)
    BY <1>3 DEF Core_dispatch
  <1>. HIDE DEF h
  <1>. DEFINE g == [top EXCEPT !.at = @ + 1, !.eax = NONE]
  <1>7. Enters(g, h) /\ g.global = top.global
    <2>1. top \in Frames
      BY <1>1, TopIs DEF Stepping
    <2>2. g.global = top.global
      BY <2>1 DEF Frames
    <2>. QED  BY <1>1, <1>5, <1>6, <2>2, AnsweredEnters
  <1>. HIDE DEF g
  <1>8. Kept /\ UNCHANGED <<order, turn, ready, heap, blocks, handler, unmasked>>
    <2>1. node \in [1 .. 7 -> [ptr : Words, global : Nat]]
      BY DEF IInv, Typed
    <2>. QED  BY <1>1, <2>1 DEF Core_dispatch, SetCoreData, irqs, bees, Kept
  <1>9. Calls(g, h)
    BY <1>1, <1>3, <1>5, <1>7, <1>8 DEF Calls, Commanding
  <1>. QED  BY <1>9

\* An allocation that the queen passes on.
LEMMA AllocHeapCalls ==
    ASSUME IInv, Orderly, Core_alloc_heap
    PROVE  \E g, h : Calls(g, h)
  <1>1. Stepping /\ Asks(1) /\ step.op = "syscall" /\ allocF = "core_alloc"
    BY AtIs DEF Core_alloc_heap, Call, Asks
  <1>2. Numbers(step) /\ Len(step.args) = 2 /\ Len(stack) \in Nat
    BY <1>1, StepFits, TopIs DEF Fits, Allowed, Asks, Stepping, Core_alloc_heap, Present
  <1>. DEFINE array == Array(Len(stack), <<step.args[2], step.args[1]>>)
              h == Callee(7, 1, array)
  <1>3. array \in Words
    <2>1. step.args[1] \in Nat /\ step.args[2] \in Nat
      BY <1>2 DEF Numbers
    <2>. QED  BY <1>2, <2>1, Arrays DEF Array, Words
  <1>. HIDE DEF array
  <1>4. /\ h \in Frames /\ h.bee = 7 /\ h.code = "kmalloc" /\ h.at = 1
        /\ h.global = node[7].global
    <2>1. Exports[7][1] = "kmalloc" /\ "kmalloc" \in Codes
      BY ExportsAre DEF Commands, Codes
    <2>2. NoArray \in Words
      BY Arrays DEF NoArray, Array, Words
    <2>3. node[7].global \in Nat
      BY DEF IInv, Typed
    <2>. QED  BY <1>3, <2>1, <2>2, <2>3 DEF Callee, Frame, Frames
  <1>5. EnterAnswered(h, NONE)
    BY DEF Core_alloc_heap, array
  <1>. HIDE DEF h
  <1>. DEFINE g == [top EXCEPT !.at = @ + 1, !.eax = NONE]
  <1>6. Enters(g, h) /\ g.global = top.global
    <2>1. top \in Frames
      BY <1>1, TopIs DEF Stepping
    <2>2. g.global = top.global
      BY <2>1 DEF Frames
    <2>. QED  BY <1>1, <1>4, <1>5, <2>2, AnsweredEnters
  <1>. HIDE DEF g
  <1>7. Kept /\ UNCHANGED <<order, turn, ready, heap, blocks, handler, unmasked>>
    <2>1. node \in [1 .. 7 -> [ptr : Words, global : Nat]]
      BY DEF IInv, Typed
    <2>. QED  BY <2>1 DEF Core_alloc_heap, SetCoreData, irqs, bees, Kept
  <1>8. Calls(g, h)
    BY <1>1, <1>4, <1>6, <1>7 DEF Calls, Allocating
  <1>. QED  BY <1>8

\* A call of a function of the interrupt.
LEMMA IrqCalls ==
    ASSUME IInv, Orderly, Handle \/ (Callback /\ hooked)
    PROVE  \E g, h : Calls(g, h)
  <1>1. Stepping /\ step.op \in {"handler", "callback"} /\ step.op # "args"
    BY AtIs DEF Handle, Callback
  <1>2. PICK h \in Frames : Enter(h) /\ h.at = 1 /\ Handling(h)
    <2>1. CASE Callback /\ hooked
      <3>. DEFINE h == Frame(0, "tick_handler", NoArray, 0)
      <3>1. h \in Frames /\ h.at = 1 /\ h.code = "tick_handler"
        BY Arrays DEF Frame, Frames, NoArray, Array, Words, Codes, Irqs
      <3>2. Enter(h)
        BY <2>1 DEF Callback
      <3>. HIDE DEF h
      <3>. QED  BY <1>1, <3>1, <3>2 DEF Handling
    <2>2. CASE Handle
      <3>1. top.code = "isr_handler"
        BY <1>1, <2>2, AtIs, StepFits DEF Handle, Fits, Placed
      <3>2. PICK v \in {32, 33} : top.want = Array(0, <<v>>) /\ handler[v] = BeeOf(v)
        BY <1>1, <3>1, TopIs DEF Serves, Stepping
      <3>. DEFINE b == BeeOf(v)
                  h == Frame(b, HandlerOf[b], NoArray, 0)
      <3>3. handler[top.want.args[1]] = b
        BY <3>2 DEF Array
      <3>4. b \in {5, 6} /\ HandlerOf[b] \in {"PIT_interrupt", "keyboard_interrupt"}
            /\ b = ServerOf(HandlerOf[b])
        BY DEF BeeOf, HandlerOf, ServerOf
      <3>5. Enter(h)
        BY <2>2, <3>3, <3>4 DEF Handle
      <3>6. h \in Frames /\ h.at = 1 /\ h.bee = b /\ h.code = HandlerOf[b]
        BY <3>4, Arrays DEF Frame, Frames, NoArray, Array, Words, Codes, Irqs
      <3>. HIDE DEF h
      <3>7. Handling(h)
        BY <1>1, <3>2, <3>4, <3>6 DEF Handling
      <3>. QED  BY <3>5, <3>6, <3>7
    <2>. QED  BY <2>1, <2>2
  <1>. DEFINE g == [top EXCEPT !.at = @ + 1]
  <1>3. Enters(g, h) /\ g.global = top.global
    <2>1. top \in Frames
      BY <1>1, TopIs DEF Stepping
    <2>2. g.global = top.global
      BY <2>1 DEF Frames
    <2>. QED  BY <1>1, <1>2, <2>2, EnterEnters
  <1>. HIDE DEF g
  <1>4. UNCHANGED <<order, turn, node, ready, heap, blocks, handler, unmasked>>
    BY DEF Handle, Callback, queen, irqs, bees
  <1>5. Calls(g, h)
    BY <1>1, <1>2, <1>3, <1>4 DEF Calls, Kept
  <1>. QED  BY <1>5

\* Every step is one of these, or one that is told apart by its action.
LEMMA Kinds ==
    ASSUME IInv, RInv, Orderly, [Next]_vars
    PROVE  \/ \E g : Goes(g)
           \/ \E g, h : Calls(g, h)
           \/ Again \/ Return \/ RunInit \/ \E v \in {32, 33} : Interrupt(v)
           \/ UNCHANGED vars
  <1>1. CASE Core_interrupt_handler
    BY <1>1, AnswersGo, StorageGoes, DispatchCalls, AllocHeapCalls DEF Core_interrupt_handler
  <1>2. CASE \/ ReadArgs \/ LayOutHeap \/ IdtInit \/ FillIn \/ Kmalloc
    BY <1>2, ReadGoes, FillersGo, KmallocGoes
  <1>3. CASE \/ Cli \/ Sti \/ Look \/ StartSleep \/ Tick \/ SleepOver \/ Hook
             \/ EndOfInterrupt \/ KmallocFails \/ Kfree \/ Install
             \/ pic_unmask_irq(32, "unmask0") \/ pic_unmask_irq(33, "unmask1")
    BY <1>3, OthersGo
  <1>4. CASE Handle \/ (Callback /\ hooked)
    BY <1>4, IrqCalls
  <1>5. CASE Callback /\ ~hooked
    <2>1. Stepping /\ step.op = "callback" /\ Step
      BY <1>5, AtIs DEF Callback
    <2>2. UNCHANGED <<order, turn, node, ready, heap, blocks, handler, unmasked>>
      BY <1>5 DEF Callback, queen, irqs, bees
    <2>3. \E g : Goes(g)
      BY <2>1, <2>2, StepGoes DEF Kept, Fillers, FreedOnly
    <2>. QED  BY <2>3
  <1>6. CASE Again \/ Return \/ RunInit \/ \E v \in {32, 33} : Interrupt(v)
    BY <1>6
  <1>7. CASE Halt \/ UNCHANGED vars
    BY <1>7 DEF Halt
  <1>. QED  BY <1>1, <1>2, <1>3, <1>4, <1>5, <1>6, <1>7 DEF Next, Execute

-----------------------------------------------------------------------------
(* The invariant is kept.                                                   *)

\* What has been filled in stays filled in.
Settled == \A b \in 1 .. 7 : ready[b] # 0 => ready'[b] = ready[b]

\* The stack after a step of the running function.
LEMMA MovesLength ==
    ASSUME IInv, Stepping, NEW g, Moves(g)
    PROVE  /\ Len(stack) \in Nat \ {0} /\ DOMAIN stack = 1 .. Len(stack)
           /\ DOMAIN stack' = 1 .. Len(stack) /\ Len(stack') = Len(stack)
           /\ stack # <<>> /\ stack' # <<>>
           /\ stack'[Len(stack)] = g /\ \A k \in 1 .. (Len(stack) - 1) : stack'[k] = stack[k]
           /\ stack[Len(stack)] = top
           /\ g.code = top.code /\ g.bee = top.bee /\ g.at = top.at + 1 /\ top.at \in Nat \ {0}
  <1>1. /\ stack \in Seq(Frames) /\ stack' \in Seq(Frames) /\ Len(stack') = Len(stack)
        /\ stack'[Len(stack)] = g /\ \A k \in 1 .. (Len(stack) - 1) : stack'[k] = stack[k]
    BY DEF Moves, Continues, IInv, Typed
  <1>2. stack # <<>>
    BY DEF Stepping
  <1>3. g.code = top.code /\ g.bee = top.bee /\ g.at = top.at + 1
    BY DEF Moves, Continues, Onto
  <1>4. stack[Len(stack)] = top
    BY DEF top
  <1>5. top.at \in Nat \ {0}
    BY <1>2, TopIs DEF InPlace, Frames
  <1>. QED  BY <1>1, <1>2, <1>3, <1>4, <1>5

\* A function that fills storage in is an init function at the bottom of the stack, and knows
\* the storage of its bee.
LEMMA Filling ==
    ASSUME IInv, RInv, Orderly, Stepping, step.op \in Fillers
    PROVE  /\ Len(stack) = 1 /\ stack[1] = top /\ top.code \in Starters
           /\ top.bee \in 4 .. 7 /\ Present(top.bee)
           /\ top.at = FilledAt(top.code) - 1
           /\ top.global = node[top.bee].global /\ top.global # 0
  <1>1. top.code \in Starters /\ top.at = FilledAt(top.code) - 1 /\ top.code \in Inits
    BY StepApt DEF Apt, Starters, Inits
  <1>2. Len(stack) = 1 /\ stack[1] = top /\ stack # <<>>
    BY <1>1, InitAlone DEF Stepping
  <1>3. top.bee \in 4 .. 7 /\ Present(top.bee)
    BY <1>1, <1>2, Bottom
  <1>4. FilledAt(top.code) \in {4, 5}
    BY DEF FilledAt
  <1>5. top.at >= 3
    BY <1>1, <1>4
  <1>. QED  BY <1>1, <1>2, <1>3, <1>5 DEF RInv, Prepared

\* Storage that a bee has obtained, or has filled in, does not change.
LEMMA Steady ==
    ASSUME IInv, RInv, Orderly, [Next]_vars
    PROVE  Kept /\ Settled /\ order' = order
  <1>1. ASSUME NEW g, Goes(g) PROVE Kept /\ Settled /\ order' = order
    <2>1. Kept /\ order' = order /\ Stepping
      BY <1>1 DEF Goes
    <2>2. CASE step.op \in Fillers
      <3>1. ready' = [ready EXCEPT ![top.bee] = top.global]
        BY <1>1, <2>2 DEF Goes
      <3>2. top.global = node[top.bee].global /\ top.bee \in 1 .. 7
        BY <2>1, <2>2, Filling
      <3>3. ready \in [1 .. 7 -> Nat] /\ (ready[top.bee] # 0 => node[top.bee].global = ready[top.bee])
        BY <3>2 DEF IInv, Typed, RInv, Retained
      <3>. QED  BY <2>1, <3>1, <3>2, <3>3 DEF Settled
    <2>3. CASE step.op \notin Fillers
      BY <1>1, <2>1, <2>3 DEF Goes, Settled
    <2>. QED  BY <2>2, <2>3
  <1>2. ASSUME NEW g, NEW h, Calls(g, h) PROVE Kept /\ Settled /\ order' = order
    BY <1>2 DEF Calls, Settled
  <1>3. CASE Again \/ Return \/ RunInit \/ (\E v \in {32, 33} : Interrupt(v)) \/ UNCHANGED vars
    <2>1. UNCHANGED <<order, node, ready>>
      BY <1>3 DEF Again, Return, RunInit, Interrupt, vars, queen, bees
    <2>. QED  BY <2>1 DEF Kept, Settled
  <1>. QED  BY <1>1, <1>2, <1>3, Kinds

\* A frame knows its storage as long as that is filled in.
LEMMA KnowsStays ==
    ASSUME NEW f, NEW r, NEW s, Knows(f, r), \A b \in 1 .. 7 : r[b] # 0 => s[b] = r[b]
    PROVE  Knows(f, s)
  <1>1. CASE f.code \in Users
    <2>1. f.bee \in 1 .. 7
      BY <1>1 DEF Knows
    <2>2. f.code \notin Servers
      BY <1>1 DEF Users, Commands, Servers
    <2>. QED  BY <1>1, <2>1, <2>2 DEF Knows
  <1>2. CASE f.code \in Servers
    <2>1. f.bee \in 1 .. 7
      BY <1>2 DEF Knows, ServerOf
    <2>2. f.code \notin Users
      BY <1>2 DEF Users, Commands, Servers
    <2>. QED  BY <1>2, <2>1, <2>2 DEF Knows
  <1>. QED  BY <1>1, <1>2 DEF Knows

\* The running function knows it after its step: an interrupt's own first step finds it.
LEMMA GoesKnow ==
    ASSUME IInv, RInv, Orderly, NEW g, Goes(g)
    PROVE  Knows(g, ready)
  <1>1. Stepping /\ Moves(g)
    BY DEF Goes
  <1>2. /\ Len(stack) \in DOMAIN stack /\ stack[Len(stack)] = top
        /\ g.code = top.code /\ g.bee = top.bee /\ g.at = top.at + 1 /\ top.at \in Nat \ {0}
    BY <1>1, MovesLength
  <1>3. Knows(top, ready)
    BY <1>2 DEF RInv, Knowing
  <1>4. Apt(top.code, top.at, step)
    BY <1>1, StepApt
  <1>5. CASE g.code \in Users
    <2>1. g.global = top.global /\ g.code \notin Servers
      BY <1>2, <1>4, <1>5 DEF Apt, Goes, Asks, Users, Commands, Servers
    <2>. QED  BY <1>2, <1>3, <1>5, <2>1 DEF Knows
  <1>6. CASE g.code \in Servers
    <2>1. top.bee = ServerOf(top.code) /\ ready[top.bee] # 0 /\ top.bee \in 1 .. 7
          /\ g.code \notin Users
      BY <1>2, <1>3, <1>6 DEF Knows, ServerOf, Users, Commands, Servers
    <2>2. CASE top.at = 1
      <3>1. step = Sys(0, 2, <<top.bee>>)
        BY <1>2, <1>4, <1>6, <2>1, <2>2 DEF Apt
      <3>2. step.op = "syscall" /\ step.id = 0 /\ step.cmd = 2 /\ step.args[1] = top.bee
        BY <3>1 DEF Sys
      <3>3. Present(top.bee) /\ node[top.bee].global = ready[top.bee]
        BY <2>1 DEF RInv, Retained
      <3>4. g.global = ready[top.bee]
        BY <3>2, <3>3 DEF Goes, Asks
      <3>. QED  BY <1>2, <1>6, <2>1, <3>4 DEF Knows
    <2>3. CASE top.at # 1
      <3>1. ~Asks(2)
        BY <1>2, <1>4, <1>6, <2>3 DEF Apt, Asks
      <3>2. g.global = top.global /\ top.at >= 2
        BY <1>2, <2>3, <3>1 DEF Goes
      <3>. QED  BY <1>2, <1>3, <1>6, <2>1, <3>2 DEF Knows
    <2>. QED  BY <2>2, <2>3
  <1>. QED  BY <1>5, <1>6 DEF Knows

\* So it does after a call.
LEMMA CallerKnows ==
    ASSUME IInv, RInv, Orderly, NEW g, NEW h, Calls(g, h)
    PROVE  Knows(g, ready)
  <1>1. Stepping /\ Enters(g, h) /\ g.global = top.global
    BY DEF Calls
  <1>2. /\ Len(stack) \in DOMAIN stack /\ stack[Len(stack)] = top
    BY <1>1, EntersLength DEF top
  <1>3. Knows(top, ready)
    BY <1>2 DEF RInv, Knowing
  <1>4. g.code = top.code /\ g.bee = top.bee /\ g.at = top.at + 1 /\ top.at \in Nat \ {0}
    BY <1>1, TopIs DEF Enters, Continues, Onto, Stepping, InPlace, Frames
  <1>5. Apt(top.code, top.at, step)
    BY <1>1, StepApt
  <1>6. g.code \in Servers => top.at # 1
    <2>. SUFFICES ASSUME g.code \in Servers, top.at = 1 PROVE FALSE
      OBVIOUS
    <2>1. step.op = "syscall" /\ step.id = 0 /\ step.cmd = 2
      BY <1>4, <1>5 DEF Apt, Sys
    <2>. QED  BY <2>1 DEF Calls, Commanding, Allocating, Handling, Asks
  <1>. QED  BY <1>1, <1>3, <1>4, <1>6 DEF Knows

\* The storage of a bee whose command an init function calls is ready.
LEMMA Served ==
    ASSUME IInv, RInv, Orderly, Prioritised, Stepping, step.op = "syscall", step.id \in 4 .. 7,
           Present(step.id), step.cmd \in DOMAIN Exports[step.id], top.code \in Inits
    PROVE  ready[step.id] # 0
  <1>1. stack[1] = top /\ stack # <<>>
    BY InitAlone DEF Stepping
  <1>2. Apt(top.code, top.at, step) /\ top.at \in Nat \ {0}
    BY StepApt, StepFits
  <1>3. CASE top.code = "start_init"
    BY <1>1, <1>3, Ready
  <1>4. CASE top.code \in Starters
    <2>1. top.at > 2 /\ step.id = 4 /\ step.cmd = 1
      <3>1. top.at # 1 /\ top.at # 2
        BY <1>2, <1>4 DEF Apt, Sys
      <3>2. top.at > 2
        BY <1>2, <3>1
      <3>. QED  BY <1>2, <1>4, <3>2 DEF Apt
    <2>2. \/ top.code \in {"PIT_init", "keyboard_init"}
          \/ top.code = "interrupt_init" /\ top.at = 6
      BY <1>2, <2>1 DEF Apt
    <2>3. CASE top.code \in {"PIT_init", "keyboard_init"}
      BY <1>1, <2>1, <2>3, Ready
    <2>4. CASE top.code = "interrupt_init" /\ top.at = 6
      <3>1. top.bee = 4
        BY <1>1, <1>4, <2>4, Bottom DEF OwnerOf, Inits
      <3>2. top.at >= 3 /\ top.at >= FilledAt(top.code)
        BY <2>4 DEF FilledAt
      <3>3. ready[4] = top.global /\ top.global # 0
        BY <1>1, <1>4, <3>1, <3>2 DEF RInv, Prepared
      <3>. QED  BY <2>1, <3>3
    <2>. QED  BY <2>2, <2>3, <2>4
  <1>5. CASE top.code = "idle"
    <2>1. Len(Code[top.code]) = 0
      BY <1>5 DEF Code
    <2>. QED  BY <1>2, <2>1 DEF Stepping
  <1>. QED  BY <1>3, <1>4, <1>5 DEF Inits, Starters

\* When the memory manager gives storage away, its own is ready.
LEMMA ManagerReady ==
    ASSUME IInv, RInv, Orderly, stack # <<>>, allocF = "core_alloc"
    PROVE  ready[7] # 0
  <1>1. PICK k \in 1 .. (turn - 1) : order[k] = 7
    BY DEF IInv, Behind
  <1>2. CASE ready[7] # 0
    BY <1>2
  <1>3. CASE k = turn - 1 /\ stack[1].code \in Inits
    <2>1. stack[1].bee = 7 /\ stack[1].code = "memory_init"
      BY <1>1, <1>3, Bottom DEF InitOf
    <2>2. ~(stack[1].at <= 5)
      BY <2>1 DEF IInv, Behind
    <2>3. stack[1].at \in Nat
      <3>1. stack \in Seq(Frames)
        BY DEF IInv, Typed
      <3>2. stack[1] \in Frames
        BY <3>1
      <3>. QED  BY <3>2 DEF Frames
    <2>4. stack[1].at >= 3 /\ stack[1].at >= FilledAt(stack[1].code) /\ stack[1].code \in Starters
      BY <2>1, <2>2, <2>3 DEF FilledAt, Starters
    <2>. QED  BY <2>1, <2>4 DEF RInv, Prepared
  <1>. QED  BY <1>1, <1>2, <1>3 DEF RInv, Finished

\* A function that is called knows its storage, or will when it asks.
LEMMA CalledKnows ==
    ASSUME IInv, RInv, Orderly, Prioritised, NEW g, NEW h, Calls(g, h)
    PROVE  Knows(h, ready)
  <1>1. Stepping /\ stack # <<>> /\ h.at = 1
    BY DEF Calls, Stepping
  <1>2. ASSUME h.bee \in 1 .. 7, ready[h.bee] # 0, h.global = node[h.bee].global
        PROVE  h.global = ready[h.bee]
    BY <1>2 DEF RInv, Retained
  <1>3. CASE Commanding(h)
    <2>1. /\ step.op = "syscall" /\ h.bee = step.id /\ h.bee \in 1 .. 7 /\ Present(h.bee)
          /\ step.cmd \in DOMAIN Exports[h.bee] /\ h.code = Exports[h.bee][step.cmd]
          /\ h.global = node[h.bee].global
      BY <1>3 DEF Commanding
    <2>2. h.code \in Commands
      BY <2>1, CommandsAre
    <2>3. h.code \notin Servers
      BY <2>2 DEF Commands, Servers
    <2>4. h.code \in Users => h.bee \in 4 .. 7
      <3>1. h.bee = 1 => h.code \notin Users
        BY <2>1, ExportsAre, Commanded DEF Users
      <3>2. h.bee = 2 => h.code \notin Users
        BY <2>1, ExportsAre, Commanded DEF Users
      <3>3. h.bee # 3
        BY <2>1, Commanded
      <3>. QED  BY <2>1, <3>1, <3>2, <3>3
    <2>5. h.code \in Users => top.code \in Inits
      <3>1. Allowed(top.code, top.at, step)
        BY <1>1, <2>1, StepFits DEF Fits
      <3>. QED  BY <2>1, <2>4, <3>1 DEF Allowed
    <2>6. h.code \in Users => ready[h.bee] # 0
      BY <1>1, <2>1, <2>4, <2>5, Served
    <2>. QED  BY <1>2, <2>1, <2>3, <2>4, <2>6 DEF Knows
  <1>4. CASE Allocating(h)
    <2>1. h.bee = 7 /\ h.global = node[h.bee].global /\ h.code = "kmalloc" /\ ready[7] # 0
      BY <1>1, <1>4, ManagerReady DEF Allocating
    <2>. QED  BY <1>2, <2>1 DEF Knows, Servers
  <1>5. CASE Handling(h)
    <2>1. CASE h.code = "tick_handler"
      BY <2>1 DEF Knows, Users, Commands, Servers
    <2>2. CASE h.code \in {"PIT_interrupt", "keyboard_interrupt"}
      <3>1. PICK v \in {32, 33} : h.bee = BeeOf(v) /\ handler[v] = BeeOf(v)
        BY <1>5, <2>2 DEF Handling
      <3>2. ready[h.bee] # 0
        BY <3>1 DEF RInv, Lines
      <3>. QED  BY <1>1, <1>5, <2>2, <3>2 DEF Handling, Knows, Users, Commands
    <2>. QED  BY <1>5, <2>1, <2>2 DEF Handling
  <1>. QED  BY <1>3, <1>4, <1>5 DEF Calls

\* Every function keeps knowing its storage.
LEMMA KnowingKeeps ==
    ASSUME IInv, RInv, Orderly, Prioritised, [Next]_vars
    PROVE  Knowing'
  <1>1. Settled
    BY Steady
  <1>2. \A f : Knows(f, ready) => Knows(f, ready')
    BY <1>1, KnowsStays DEF Settled
  <1>3. SUFFICES \A k \in DOMAIN stack' : Knows(stack'[k], ready)
    BY <1>2 DEF Knowing
  <1>4. \A k \in DOMAIN stack : Knows(stack[k], ready)
    BY DEF RInv, Knowing
  <1>5. ASSUME NEW g, Goes(g) PROVE \A k \in DOMAIN stack' : Knows(stack'[k], ready)
    <2>1. Stepping /\ Moves(g)
      BY <1>5 DEF Goes
    <2>. QED  BY <1>4, <1>5, <2>1, MovesLength, GoesKnow
  <1>6. ASSUME NEW g, NEW h, Calls(g, h) PROVE \A k \in DOMAIN stack' : Knows(stack'[k], ready)
    <2>1. Stepping /\ Enters(g, h)
      BY <1>6 DEF Calls
    <2>2. /\ stack'[Len(stack)] = g /\ stack'[Len(stack) + 1] = h
          /\ \A k \in 1 .. (Len(stack) - 1) : stack'[k] = stack[k]
      BY <2>1 DEF Enters, Continues
    <2>. QED  BY <1>4, <1>6, <2>1, <2>2, EntersLength, CallerKnows, CalledKnows
  <1>7. CASE Again
    <2>1. Stepping /\ step.op = "again"
      BY <1>7, AtIs DEF Again
    <2>2. top.code = "start_init"
      BY <2>1, StepFits DEF Fits, Placed
    <2>3. Len(stack) = 1 /\ stack # <<>> /\ stack \in Seq(Frames)
      BY <2>1, <2>2, InitAlone DEF Inits, Stepping, IInv, Typed
    <2>4. DOMAIN stack' = {1} /\ stack'[1] = [stack[1] EXCEPT !.at = @ - 1]
      BY <1>7, <2>3 DEF Again
    <2>5. stack[1] = top /\ stack[1] \in Frames
      BY <2>3 DEF top
    <2>6. stack'[1].code = "start_init"
      BY <2>2, <2>4, <2>5 DEF Frames
    <2>. QED  BY <2>4, <2>6 DEF Knows, Users, Commands, Servers
  <1>8. CASE Return
    <2>1. stack \in Seq(Frames) /\ stack # <<>> /\ stack' = Front(stack)
      BY <1>8 DEF Return, IInv, Typed
    <2>2. /\ stack' \in Seq(Frames) /\ Len(stack') = Len(stack) - 1
          /\ \A k \in 1 .. (Len(stack) - 1) : stack'[k] = stack[k]
      BY <2>1, Fronts
    <2>. QED  BY <1>4, <2>1, <2>2
  <1>9. CASE RunInit
    <2>. DEFINE f == Frame(order[turn], InitOf[order[turn]], NoArray, 0)
    <2>1. stack' = <<f>> /\ f.code = InitOf[order[turn]]
      BY <1>9 DEF RunInit, Frame
    <2>2. order[turn] \in 1 .. 7
      <3>1. order \in Seq(1 .. 7) /\ turn \in 1 .. (Len(order) + 1) /\ turn <= Len(order)
        BY <1>9, CoreAssumption DEF RunInit, IInv, Typed
      <3>. QED  BY <3>1
    <2>3. f.code \in Inits
      BY <2>1, <2>2 DEF InitOf, Inits
    <2>. HIDE DEF f
    <2>4. DOMAIN stack' = {1} /\ stack'[1] = f
      BY <2>1
    <2>. QED  BY <2>3, <2>4 DEF Knows, Users, Commands, Servers, Inits
  <1>10. ASSUME NEW v \in {32, 33}, Interrupt(v)
         PROVE  \A k \in DOMAIN stack' : Knows(stack'[k], ready)
    <2>. DEFINE f == Frame(4, "isr_handler", Array(0, <<v>>), 0)
    <2>1. stack' = Append(stack, f) /\ stack \in Seq(Frames) /\ v \in unmasked
      BY <1>10 DEF Interrupt, IInv, Typed
    <2>2. f.code = "isr_handler" /\ f.bee = 4 /\ f.at = 1
      BY DEF Frame
    <2>3. Knows(f, ready)
      <3>1. ready[4] # 0
        BY <2>1 DEF RInv, Lines
      <3>. QED  BY <2>2, <3>1 DEF Knows, Users, Commands, Servers, ServerOf
    <2>. HIDE DEF f
    <2>4. /\ DOMAIN stack' = 1 .. (Len(stack) + 1) /\ stack'[Len(stack) + 1] = f
          /\ \A k \in 1 .. Len(stack) : stack'[k] = stack[k] /\ k \in DOMAIN stack
      BY <2>1
    <2>. QED  BY <1>4, <2>1, <2>3, <2>4
  <1>11. CASE UNCHANGED vars
    BY <1>4, <1>11 DEF vars
  <1>. QED  BY <1>5, <1>6, <1>7, <1>8, <1>9, <1>10, <1>11, Kinds

\* What bees have filled in is theirs, and they are on the disk.
LEMMA RetainedKeeps ==
    ASSUME IInv, RInv, Orderly, [Next]_vars
    PROVE  Retained'
  <1>1. Kept /\ Settled /\ order' = order
    BY Steady
  <1>2. SUFFICES ASSUME NEW b \in 1 .. 7, ready'[b] # 0
                 PROVE  node'[b].global = ready'[b] /\ Present(b)
    BY <1>1 DEF Retained, Present
  <1>3. CASE ready[b] # 0
    BY <1>1, <1>3 DEF Kept, Settled, RInv, Retained
  <1>4. CASE ready[b] = 0
    <2>1. ASSUME NEW g, Goes(g) PROVE node'[b].global = ready'[b] /\ Present(b)
      <3>1. step.op \in Fillers /\ ready' = [ready EXCEPT ![top.bee] = top.global] /\ Stepping
        BY <1>2, <1>4, <2>1 DEF Goes
      <3>2. /\ top.bee \in 1 .. 7 /\ Present(top.bee)
            /\ top.global = node[top.bee].global /\ top.global # 0
        BY <3>1, Filling
      <3>3. b = top.bee /\ ready'[b] = top.global
        BY <1>2, <1>4, <3>1, <3>2 DEF IInv, Typed
      <3>. QED  BY <1>1, <3>2, <3>3 DEF Kept
    <2>2. ASSUME NEW g, NEW h, Calls(g, h) PROVE FALSE
      BY <1>2, <1>4, <2>2 DEF Calls
    <2>3. CASE Again \/ Return \/ RunInit \/ (\E v \in {32, 33} : Interrupt(v)) \/ UNCHANGED vars
      <3>1. ready' = ready
        BY <2>3 DEF Again, Return, RunInit, Interrupt, vars, bees
      <3>. QED  BY <1>2, <1>4, <3>1
    <2>. QED  BY <2>1, <2>2, <2>3, Kinds
  <1>. QED  BY <1>3, <1>4

-----------------------------------------------------------------------------
(* The init function at the bottom, and the room in the heap.               *)

\* The command above an init function that runs to its end has been called by one of the
\* init functions.
LEMMA Caller ==
    ASSUME IInv, Orderly, Called, stack[2].code = "kmalloc"
    PROVE  stack[1].code \in Starters \cup {"start_init"}
  <1>1. /\ stack[2].bee \in 1 .. 7 /\ Allowed(stack[1].code, stack[1].at - 1, made)
    BY MadeFits
  <1>2. stack[1].code \in Inits \/ stack[1].code = "print"
    <2>1. (made.id \in 1 .. 7) \/ (made.id = 0 /\ made.cmd = 1)
      BY <1>1 DEF IInv, Linked
    <2>. QED  BY <1>1, <2>1 DEF Allowed
  <1>3. stack[1].code # "print"
    <2>1. stack \in Seq(Frames) /\ Len(stack) > 1
      BY DEF IInv, Typed, Called
    <2>2. InPlace(stack[1], 1)
      BY <2>1 DEF IInv
    <2>. QED  BY <2>2 DEF InPlace, Commands
  <1>4. stack[1].code # "idle"
    <2>. SUFFICES ASSUME stack[1].code = "idle" PROVE FALSE
      OBVIOUS
    <2>1. stack[1].at - 1 \in 1 .. Len(Code[stack[1].code])
      BY MadeApt
    <2>2. Len(Code[stack[1].code]) = 0
      BY DEF Code
    <2>. QED  BY <2>1, <2>2
  <1>. QED  BY <1>2, <1>3, <1>4 DEF Inits, Starters

\* While an init function that obtains storage is at the bottom, that of the start bee has not
\* been called.
LEMMA Earlier ==
    ASSUME IInv, Prioritised, stack # <<>>, stack[1].code \in Starters
    PROVE  Early
  <1>1. stack[1].code \in Inits
    BY DEF Starters, Inits
  <1>2. order[turn - 1] \in 4 .. 7 /\ turn - 1 \in DOMAIN order
    BY <1>1, Bottom
  <1>. SUFFICES ASSUME NEW k \in 1 .. (turn - 1), order[k] = 3 PROVE FALSE
    BY DEF Early
  <1>3. order \in Seq(1 .. 7) /\ turn \in 1 .. (Len(order) + 1)
    BY CoreAssumption DEF IInv, Typed
  <1>4. k \in DOMAIN order
    BY <1>3
  <1>5. Priority[order[turn - 1]] < Priority[order[k]]
    BY <1>2 DEF Priority
  <1>6. turn - 1 < k
    BY <1>2, <1>4, <1>5, Ranked
  <1>. QED  BY <1>3, <1>6

\* When kmalloc serves a bee's request for storage there is room behind the blocks that have
\* been given away.
LEMMA Room ==
    ASSUME IInv, RInv, Orderly, Prioritised, HeapSuffices, Stepping, step.op = "kmalloc",
           stack[1].code \in Starters
    PROVE  LET b == stack[1].bee
           IN  /\ b \in 4 .. 6 /\ node[b].global = 0 /\ Early /\ stack[1].at = 2
               /\ top.saw.args[1] = Size[b] /\ top.saw.args[2] = b /\ allocF = "core_alloc"
               /\ Need(Size[b]) \in Nat /\ Used \in Nat
               /\ heap + Used * UNIT \in Gaps(Need(Size[b]))
  <1>. DEFINE b == stack[1].bee
  <1>1. /\ stack[2] = top /\ Called /\ top.code = "kmalloc" /\ top.at = 2 /\ Len(stack) = 2
        /\ stack # <<>>
    BY Granting DEF Stepping
  <1>2. stack[1].code \in Inits
    BY DEF Starters, Inits
  <1>3. b \in 4 .. 7 /\ b = OwnerOf(stack[1].code)
    BY <1>1, <1>2, Bottom
  <1>4. /\ Apt(stack[1].code, stack[1].at - 1, made) /\ stack[1].at - 1 \in Nat \ {0}
        /\ stack[2].bee \in 1 .. 7 /\ made.op = "syscall" /\ stack[1].at \in Nat
    BY <1>1, MadeApt, MadeFits
  <1>5. /\ made.id = 0 /\ made.cmd = 1
        /\ stack[2].want = Array(1, <<made.args[2], made.args[1]>>)
        /\ made.args[1] \in 1 .. 7 /\ allocF = "core_alloc" /\ node[made.args[1]].global = 0
    <2>1. ~ (/\ made.id = stack[2].bee
             /\ made.cmd \in DOMAIN Exports[stack[2].bee]
             /\ stack[2].code = Exports[stack[2].bee][made.cmd])
      <3>. SUFFICES ASSUME /\ made.id = stack[2].bee
                           /\ made.cmd \in DOMAIN Exports[stack[2].bee]
                           /\ stack[2].code = Exports[stack[2].bee][made.cmd]
                    PROVE  FALSE
        OBVIOUS
      <3>1. made.id = 7
        BY <1>1, <1>4, CommandsAre
      <3>. QED  BY <1>4, <3>1 DEF Apt, Sys
    <2>2. Linked
      BY DEF IInv
    <2>. QED  BY <1>1, <2>1, <2>2 DEF Linked
  <1>6. stack[1].at - 1 = 1 /\ stack[1].at = 2
    <2>1. stack[1].at - 1 # 2
      BY <1>4, <1>5 DEF Apt, Sys
    <2>2. ~(stack[1].at - 1 > 2)
      BY <1>4, <1>5 DEF Apt
    <2>. QED  BY <1>4, <2>1, <2>2
  <1>7. made.args = <<b, Size[b]>>
    BY <1>3, <1>4, <1>6 DEF Apt, Sys
  <1>8. made.args[1] = b /\ made.args[2] = Size[b]
    BY <1>7
  <1>9. top.saw = stack[2].want
    <2>1. Finds(top)
      BY <1>1, TopIs
    <2>. QED  BY <1>1, <2>1 DEF Finds, Commands, ArgsAt
  <1>10. top.saw.args[1] = Size[b] /\ top.saw.args[2] = b
    BY <1>5, <1>8, <1>9 DEF Array
  <1>11. b # 7
    <2>. SUFFICES ASSUME b = 7 PROVE FALSE
      OBVIOUS
    <2>1. stack[1].code = "memory_init"
      BY <1>3 DEF OwnerOf, Starters
    <2>. QED  BY <1>1, <1>5, <1>6, <2>1 DEF IInv, Behind
  <1>12. Early
    BY <1>1, Earlier
  <1>13. \A c \in 1 .. 7 : Need(Size[c]) \in Nat /\ Cost(c) \in Nat /\ Cost(c) <= Need(Size[c])
    <2>. SUFFICES ASSUME NEW c \in 1 .. 7
                  PROVE  Need(Size[c]) \in Nat /\ Cost(c) \in Nat /\ Cost(c) <= Need(Size[c])
      OBVIOUS
    <2>1. Size[c] \in Nat
      BY Sizes
    <2>2. HEADER \in Nat /\ UNIT \in Nat \ {0}
      BY CoreAssumption
    <2>3. Size[c] + HEADER \in Nat
      BY <2>1, <2>2
    <2>4. Need(Size[c]) \in Nat
      BY <2>2, <2>3, Ceiling DEF Need
    <2>. QED  BY <2>4 DEF Cost
  <1>. DEFINE n == Need(Size[b])
  <1>14. Cost(b) = 0 /\ b \in 4 .. 6
    BY <1>3, <1>5, <1>8, <1>11 DEF Cost
  <1>15. Used \in Nat /\ n \in Nat /\ Used + n <= Units
    <2>0. /\ n \in Nat /\ Cost(4) \in Nat /\ Cost(5) \in Nat /\ Cost(6) \in Nat
          /\ Need(Size[4]) \in Nat /\ Need(Size[5]) \in Nat /\ Need(Size[6]) \in Nat
          /\ Cost(4) <= Need(Size[4]) /\ Cost(5) <= Need(Size[5]) /\ Cost(6) <= Need(Size[6])
      BY <1>13, <1>14
    <2>4. Units \in Nat
      BY CoreAssumption
    <2>1. CASE b = 4
      BY <1>14, <2>0, <2>1, <2>4 DEF HeapSuffices, Used
    <2>2. CASE b = 5
      BY <1>14, <2>0, <2>2, <2>4 DEF HeapSuffices, Used
    <2>3. CASE b = 6
      BY <1>14, <2>0, <2>3, <2>4 DEF HeapSuffices, Used
    <2>. QED  BY <1>14, <2>1, <2>2, <2>3
  <1>. HIDE DEF n
  <1>16. heap + Used * UNIT \in Gaps(n)
    <2>1. Used \in 0 .. (Units - n)
      BY <1>15, CoreAssumption
    <2>2. \A e \in blocks : Apart(heap + Used * UNIT, heap + Used * UNIT + n * UNIT, e.lo, e.hi)
      BY <1>12 DEF RInv, Packed, Apart
    <2>. QED  BY <2>1, <2>2 DEF Gaps
  <1>. QED  BY <1>5, <1>6, <1>8, <1>10, <1>12, <1>14, <1>15, <1>16 DEF n

\* So kmalloc finds the block, and stores a pointer that is not null.
LEMMA Granted_storage ==
    ASSUME IInv, RInv, Orderly, Prioritised, HeapSuffices, Stepping, step.op = "kmalloc",
           stack[1].code \in Starters, Kmalloc \/ KmallocFails
    PROVE  Kmalloc /\ node'[stack[1].bee].global # 0
  <1>. DEFINE b == stack[1].bee
              n == Need(Size[b])
              p == Min(Gaps(n))
  <1>1. /\ b \in 4 .. 6 /\ top.saw.args[1] = Size[b] /\ top.saw.args[2] = b
        /\ Gaps(n) # {} /\ allocF = "core_alloc"
    BY Room
  <1>2. Kmalloc
    BY <1>1 DEF KmallocFails
  <1>3. node' = [node EXCEPT ![b].global = p + HEADER]
    BY <1>1, <1>2 DEF Kmalloc
  <1>4. Size[b] \in Nat
    BY <1>1, CoreAssumption
  <1>5. p \in Nat /\ heap <= p
    BY <1>1, <1>4, Gapped
  <1>6. heap \in Nat \ {0}
    <2>1. MEMORY <= heap
      BY <1>1 DEF IInv, Behind
    <2>2. MEMORY \in Nat \ {0} /\ heap \in Nat
      BY DEF IInv, Typed
    <2>. QED  BY <2>1, <2>2
  <1>. HIDE DEF p, n, b
  <1>7. p + HEADER # 0
    <2>1. HEADER \in Nat
      BY CoreAssumption
    <2>. QED  BY <1>5, <1>6, <2>1
  <1>8. node \in [1 .. 7 -> [ptr : Words, global : Nat]]
    BY DEF IInv, Typed
  <1>9. node'[b].global = p + HEADER
    BY <1>1, <1>3, <1>8
  <1>. QED  BY <1>2, <1>7, <1>9 DEF b

\* The init function at the bottom keeps what it has as long as it is not its turn.
LEMMA PreparedStays ==
    ASSUME IInv, RInv, Kept, Settled, stack # <<>>, stack'[1] = stack[1],
           stack[1].code \in Starters /\ stack[1].at = 2 /\ Pending /\ ~Pending' =>
               node'[stack[1].bee].global # 0
    PROVE  Prepared'
  <1>. DEFINE f == stack[1]
  <1>. SUFFICES ASSUME f.code \in Starters
                PROVE  /\ f.at = 2 /\ ~Pending' => node'[f.bee].global # 0
                       /\ f.at >= 3 => f.global = node'[f.bee].global /\ node'[f.bee].global # 0
                       /\ f.at >= FilledAt(f.code) => ready'[f.bee] = f.global
    BY DEF Prepared
  <1>1. f.bee \in 1 .. 7
    BY Bottom DEF Starters, Inits
  <1>2. /\ f.at = 2 /\ ~Pending => node[f.bee].global # 0
        /\ f.at >= 3 => f.global = node[f.bee].global /\ node[f.bee].global # 0
        /\ f.at >= FilledAt(f.code) => ready[f.bee] = f.global
    BY DEF RInv, Prepared
  <1>3. f.at >= FilledAt(f.code) => f.at >= 3
    <2>1. FilledAt(f.code) \in {4, 5} /\ stack \in Seq(Frames)
      BY DEF FilledAt, IInv, Typed
    <2>2. f \in Frames
      BY <2>1
    <2>. QED  BY <2>1, <2>2 DEF Frames
  <1>. QED  BY <1>1, <1>2, <1>3 DEF Kept, Settled

\* It has what it needs after a step of its own.
LEMMA PreparedGoes ==
    ASSUME IInv, RInv, Orderly, NEW g, Goes(g), Len(stack) = 1
    PROVE  Prepared'
  <1>1. Stepping /\ Moves(g) /\ stack # <<>>
    BY DEF Goes, Stepping
  <1>2. /\ stack[1] = top /\ stack'[1] = g /\ g.code = top.code /\ g.bee = top.bee
        /\ g.at = top.at + 1 /\ top.at \in Nat \ {0} /\ ~Called
    BY <1>1, MovesLength DEF Called
  <1>. SUFFICES ASSUME g.code \in Starters
                PROVE  /\ g.at = 2 => node'[g.bee].global # 0
                       /\ g.at >= 3 => g.global = node'[g.bee].global /\ node'[g.bee].global # 0
                       /\ g.at >= FilledAt(g.code) => ready'[g.bee] = g.global
    BY <1>2 DEF Prepared
  <1>3. /\ top.bee = OwnerOf(top.code) /\ top.bee \in 1 .. 7 /\ Present(top.bee)
    BY <1>1, <1>2, Bottom DEF Starters, Inits
  <1>4. Apt(top.code, top.at, step)
    BY <1>1, StepApt
  <1>6. Kept
    BY DEF Goes
  <1>7. FilledAt(top.code) \in {4, 5}
    BY DEF FilledAt
  <1>8. CASE top.at = 1
    <2>1. step.op = "syscall" /\ step.id = 0 /\ step.cmd = 1 /\ step.args[1] = top.bee
      BY <1>2, <1>3, <1>4, <1>8 DEF Apt, Sys
    <2>2. node'[top.bee].global # 0
      BY <1>3, <2>1 DEF Goes, Asks
    <2>. QED  BY <1>2, <1>7, <1>8, <2>2
  <1>9. CASE top.at = 2
    <2>1. step.op = "syscall" /\ step.id = 0 /\ step.cmd = 2 /\ step.args[1] = top.bee
      BY <1>2, <1>3, <1>4, <1>9 DEF Apt, Sys
    <2>2. g.global = node[top.bee].global
      BY <1>3, <2>1 DEF Goes, Asks
    <2>3. node[top.bee].global # 0
      BY <1>1, <1>2, <1>9 DEF RInv, Prepared, Pending
    <2>. QED  BY <1>2, <1>3, <1>6, <1>7, <1>9, <2>2, <2>3 DEF Kept
  <1>10. CASE top.at > 2
    <2>1. g.global = top.global
      BY <1>2, <1>4, <1>10 DEF Goes, Asks, Apt
    <2>2. top.global = node[top.bee].global /\ node[top.bee].global # 0
      BY <1>1, <1>2, <1>10 DEF RInv, Prepared
    <2>3. g.at >= 3 => g.global = node'[g.bee].global /\ node'[g.bee].global # 0
      BY <1>2, <1>3, <1>6, <2>1, <2>2 DEF Kept
    <2>4. CASE top.at >= FilledAt(top.code)
      <3>1. ready[top.bee] = top.global
        BY <1>1, <1>2, <2>4 DEF RInv, Prepared
      <3>2. step.op \notin Fillers
        BY <1>2, <1>4, <1>7, <2>4 DEF Apt
      <3>. QED  BY <1>2, <1>10, <2>1, <2>3, <3>1, <3>2 DEF Goes
    <2>5. CASE top.at = FilledAt(top.code) - 1
      <3>1. step.op \in Fillers
        BY <1>2, <1>4, <2>5 DEF Apt
      <3>2. ready' = [ready EXCEPT ![top.bee] = top.global] /\ ready \in [1 .. 7 -> Nat]
        BY <3>1 DEF Goes, IInv, Typed
      <3>. QED  BY <1>2, <1>3, <1>10, <2>1, <2>3, <3>2
    <2>6. CASE top.at < FilledAt(top.code) - 1
      BY <1>2, <1>7, <1>10, <2>3, <2>6
    <2>. QED  BY <1>2, <1>7, <2>4, <2>5, <2>6
  <1>. QED  BY <1>2, <1>8, <1>9, <1>10

\* So it does after a call: kmalloc has yet to answer a request for storage.
LEMMA PreparedCalls ==
    ASSUME IInv, RInv, Orderly, NEW g, NEW h, Calls(g, h), Len(stack) = 1
    PROVE  Prepared'
  <1>1. Stepping /\ Enters(g, h) /\ stack # <<>> /\ Kept /\ ready' = ready /\ g.global = top.global
    BY DEF Calls, Stepping
  <1>2. /\ stack[1] = top /\ stack'[1] = g /\ stack'[2] = h /\ Len(stack') = 2
        /\ g.code = top.code /\ g.bee = top.bee /\ g.at = top.at + 1 /\ top.at \in Nat \ {0}
    BY <1>1, StepFits DEF Enters, Continues, Onto, top
  <1>3. CASE g.code \in Starters
    <2>1. top.bee = OwnerOf(top.code) /\ top.bee \in 1 .. 7
      BY <1>1, <1>2, <1>3, Bottom DEF Starters, Inits
    <2>2. Apt(top.code, top.at, step) /\ FilledAt(top.code) \in {4, 5}
      BY <1>1, StepApt DEF FilledAt
    <2>3. CASE top.at = 1
      <3>1. step.op = "syscall" /\ step.id = 0
        BY <1>2, <1>3, <2>2, <2>3 DEF Apt, Sys
      <3>2. Allocating(h)
        BY <3>1 DEF Calls, Commanding, Handling
      <3>3. Pending'
        BY <1>2, <3>2 DEF Calls, Allocating, Called, Pending, Commands
      <3>. QED  BY <1>2, <2>2, <2>3, <3>3 DEF Prepared
    <2>4. CASE top.at = 2
      <3>1. step.op = "syscall" /\ step.id = 0 /\ step.cmd = 2
        BY <1>2, <1>3, <2>2, <2>4 DEF Apt, Sys
      <3>. QED  BY <3>1 DEF Calls, Commanding, Allocating, Handling, Asks
    <2>5. CASE top.at > 2
      <3>1. top.global = node[top.bee].global /\ node[top.bee].global # 0
        BY <1>1, <1>2, <1>3, <2>5 DEF RInv, Prepared
      <3>2. g.global = node'[g.bee].global /\ node'[g.bee].global # 0
        BY <1>1, <1>2, <2>1, <3>1 DEF Kept
      <3>3. step.op \notin Fillers
        BY DEF Calls, Commanding, Allocating, Handling, Asks, Fillers
      <3>4. top.at # FilledAt(top.code) - 1
        BY <1>2, <1>3, <2>2, <3>3 DEF Apt
      <3>5. g.at >= FilledAt(g.code) => ready'[g.bee] = g.global
        BY <1>1, <1>2, <1>3, <2>2, <3>4 DEF RInv, Prepared
      <3>6. g.at # 2
        BY <1>2, <2>5
      <3>. QED  BY <1>2, <3>2, <3>5, <3>6 DEF Prepared
    <2>. QED  BY <1>2, <2>3, <2>4, <2>5
  <1>4. CASE g.code \notin Starters
    BY <1>2, <1>4 DEF Prepared
  <1>. QED  BY <1>3, <1>4

\* It always has what it needs.
LEMMA PreparedKeeps ==
    ASSUME IInv, RInv, Orderly, Prioritised, HeapSuffices, [Next]_vars
    PROVE  Prepared'
  <1>1. Kept /\ Settled
    BY Steady
  <1>2. ASSUME NEW g, Goes(g), Len(stack) # 1 PROVE Prepared'
    <2>1. Stepping /\ Moves(g)
      BY <1>2 DEF Goes
    <2>2. /\ Len(stack) \in Nat \ {0} /\ stack # <<>>
          /\ Len(stack') = Len(stack) /\ stack'[Len(stack)] = g
          /\ g.code = top.code /\ g.at = top.at + 1 /\ top.at \in Nat \ {0}
          /\ \A k \in 1 .. (Len(stack) - 1) : stack'[k] = stack[k]
      BY <2>1, MovesLength
    <2>3. /\ Len(stack) \in Nat /\ Len(stack) > 1 /\ stack'[1] = stack[1] /\ stack # <<>>
          /\ Len(stack') = Len(stack) /\ stack'[Len(stack)] = g
          /\ g.code = top.code /\ g.at = top.at + 1 /\ top.at \in Nat \ {0}
          /\ \A k \in 1 .. (Len(stack) - 1) : stack'[k] = stack[k]
      BY <1>2, <2>2
    <2>4. ASSUME stack[1].code \in Starters, stack[1].at = 2, Pending, ~Pending'
          PROVE  node'[stack[1].bee].global # 0
      <3>1. Len(stack) = 2
        <4>. SUFFICES ASSUME Len(stack) > 2 PROVE FALSE
          BY <2>3
        <4>1. stack'[2] = stack[2]
          BY <2>3
        <4>. QED  BY <2>3, <2>4, <4>1 DEF Pending, Called
      <3>2. stack[2] = top /\ stack'[2] = g
        BY <2>3, <3>1 DEF top
      <3>3. top.code = "kmalloc" /\ top.at = 2
        BY <2>3, <2>4, <3>1, <3>2 DEF Pending, Called
      <3>4. step.op = "kmalloc"
        BY <3>3 DEF step, Code, kmalloc, Do
      <3>. QED  BY <1>2, <2>1, <2>4, <3>4, Granted_storage DEF Goes
    <2>. QED  BY <1>1, <2>3, <2>4, PreparedStays
  <1>3. ASSUME NEW g, NEW h, Calls(g, h), Len(stack) # 1 PROVE Prepared'
    <2>1. Stepping /\ Enters(g, h)
      BY <1>3 DEF Calls
    <2>2. Len(stack) \in Nat \ {0} /\ Len(stack) # 1
      BY <1>3, <2>1, EntersLength
    <2>3. Len(stack') = Len(stack) + 1 /\ stack # <<>>
      BY <2>1, EntersLength
    <2>4. /\ stack'[Len(stack)] = g /\ g.code = top.code
          /\ \A k \in 1 .. (Len(stack) - 1) : stack'[k] = stack[k]
      BY <2>1 DEF Enters, Continues, Onto
    <2>. DEFINE n == Len(stack)
    <2>5. n \in Nat \ {0} /\ n # 1
      BY <2>2
    <2>. HIDE DEF n
    <2>6. (n = 2 \/ (n > 2 /\ 2 \in 1 .. (n - 1))) /\ 1 \in 1 .. (n - 1)
      BY <2>5
    <2>7. Len(stack) = 2 \/ (Len(stack) > 2 /\ 2 \in 1 .. (Len(stack) - 1))
      BY <2>6 DEF n
    <2>8. 1 \in 1 .. (Len(stack) - 1)
      BY <2>6 DEF n
    <2>9. Pending => Pending'
      <3>1. CASE Len(stack) > 2
        BY <2>2, <2>3, <2>4, <2>7, <3>1 DEF Pending, Called
      <3>2. CASE Len(stack) = 2
        <4>1. Stepping /\ (Commanding(h) \/ Allocating(h) \/ Handling(h))
          BY <1>3 DEF Calls
        <4>2. step.op \in {"syscall", "callback", "handler"}
          BY <4>1 DEF Commanding, Allocating, Handling, Asks
        <4>3. step.op = "syscall" => top.code \notin Users
          BY <4>1, StepApt DEF Apt
        <4>4. /\ step.op = "callback" => top.code = "PIT_interrupt"
              /\ step.op = "handler" => top.code = "isr_handler"
          BY <4>1, StepFits DEF Fits, Placed
        <4>5. top.code # "kmalloc"
          BY <4>2, <4>3, <4>4 DEF Users, Commands
        <4>6. stack[2] = top
          BY <3>2 DEF top
        <4>. QED  BY <4>5, <4>6 DEF Pending
      <3>. QED  BY <2>7, <3>1, <3>2
    <2>10. stack'[1] = stack[1]
      BY <2>4, <2>8
    <2>. QED  BY <1>1, <2>3, <2>9, <2>10, PreparedStays
  <1>4. CASE Again
    <2>1. Stepping /\ step.op = "again"
      BY <1>4, AtIs DEF Again
    <2>2. top.code = "start_init"
      BY <2>1, StepFits DEF Fits, Placed
    <2>3. Len(stack) = 1 /\ stack # <<>> /\ stack \in Seq(Frames)
      BY <2>1, <2>2, InitAlone DEF Inits, Stepping, IInv, Typed
    <2>4. stack'[1] = [stack[1] EXCEPT !.at = @ - 1] /\ stack[1] = top /\ stack[1] \in Frames
      BY <1>4, <2>3 DEF Again, top
    <2>5. stack'[1].code = "start_init"
      BY <2>2, <2>4 DEF Frames
    <2>. QED  BY <2>5 DEF Prepared, Starters
  <1>5. CASE Return
    <2>1. stack \in Seq(Frames) /\ stack # <<>> /\ stack' = Front(stack)
      BY <1>5 DEF Return, IInv, Typed
    <2>2. /\ stack' \in Seq(Frames) /\ Len(stack') = Len(stack) - 1 /\ Len(stack) \in Nat \ {0}
          /\ \A k \in 1 .. (Len(stack) - 1) : stack'[k] = stack[k]
      BY <2>1, Fronts
    <2>3. CASE Len(stack) = 1
      <3>1. stack' = <<>>
        BY <2>2, <2>3
      <3>. QED  BY <3>1 DEF Prepared
    <2>4. CASE Len(stack) > 1
      <3>1. stack'[1] = stack[1]
        BY <2>2, <2>4
      <3>2. Pending => Pending'
        <4>1. CASE Len(stack) = 2
          <5>1. stack[2] = top
            BY <4>1 DEF top
          <5>2. top.code = "kmalloc" => top.at > 2
            BY <1>5 DEF Return, Code, kmalloc
          <5>. QED  BY <2>1, <5>1, <5>2, TopIs DEF Pending, Frames
        <4>2. CASE Len(stack) > 2
          BY <2>2, <4>2 DEF Pending, Called
        <4>. QED  BY <2>2, <2>4, <4>1, <4>2
      <3>. QED  BY <1>1, <2>1, <3>1, <3>2, PreparedStays
    <2>. QED  BY <2>2, <2>3, <2>4
  <1>6. CASE RunInit
    <2>1. stack' # <<>> /\ stack'[1].at = 1
      BY <1>6 DEF RunInit, Frame
    <2>. QED  BY <2>1 DEF Prepared, FilledAt
  <1>7. ASSUME NEW v \in {32, 33}, Interrupt(v) PROVE Prepared'
    <2>. DEFINE f == Frame(4, "isr_handler", Array(0, <<v>>), 0)
    <2>1. stack' = Append(stack, f) /\ stack \in Seq(Frames)
      BY <1>7 DEF Interrupt, IInv, Typed
    <2>2. f.code = "isr_handler"
      BY DEF Frame
    <2>. HIDE DEF f
    <2>3. /\ Len(stack') = Len(stack) + 1 /\ Len(stack) \in Nat /\ stack'[Len(stack) + 1] = f
          /\ \A k \in 1 .. Len(stack) : stack'[k] = stack[k]
      BY <2>1
    <2>4. CASE stack = <<>>
      <3>1. stack'[1].code = "isr_handler"
        BY <2>1, <2>2, <2>4
      <3>. QED  BY <3>1 DEF Prepared, Starters
    <2>5. CASE stack # <<>>
      <3>1. Len(stack) > 0
        BY <2>1, <2>5
      <3>2. stack'[1] = stack[1] /\ (Pending => Pending')
        BY <2>3, <3>1 DEF Pending, Called
      <3>. QED  BY <1>1, <2>5, <3>2, PreparedStays
    <2>. QED  BY <2>4, <2>5
  <1>8. CASE UNCHANGED vars
    BY <1>8 DEF vars, queen, bees, RInv, Prepared, Pending, Called
  <1>9. ASSUME Len(stack) = 1, \/ \E g : Goes(g)
                               \/ \E g, h : Calls(g, h)
        PROVE  Prepared'
    BY <1>9, PreparedGoes, PreparedCalls
  <1>. QED  BY <1>2, <1>3, <1>4, <1>5, <1>6, <1>7, <1>8, <1>9, Kinds

\* An init function at the bottom stays there until it returns.
LEMMA BottomStays ==
    ASSUME IInv, RInv, Orderly, [Next]_vars, ~RunInit, stack # <<>>, stack[1].code \in Inits
    PROVE  /\ turn' = turn
           /\ stack' # <<>> => stack'[1].code = stack[1].code
           /\ stack' = <<>> => Return /\ Len(stack) = 1
  <1>1. ASSUME NEW g, Goes(g)
        PROVE  turn' = turn /\ stack' # <<>> /\ stack'[1].code = stack[1].code
    <2>1. Stepping /\ Moves(g) /\ turn' = turn
      BY <1>1 DEF Goes
    <2>. QED  BY <2>1, MovesLength
  <1>2. ASSUME NEW g, NEW h, Calls(g, h)
        PROVE  turn' = turn /\ stack' # <<>> /\ stack'[1].code = stack[1].code
    <2>1. Stepping /\ Enters(g, h) /\ turn' = turn
      BY <1>2 DEF Calls
    <2>2. /\ stack'[Len(stack)] = g /\ g.code = top.code
          /\ \A k \in 1 .. (Len(stack) - 1) : stack'[k] = stack[k]
      BY <2>1 DEF Enters, Continues, Onto
    <2>. QED  BY <2>1, <2>2, EntersLength DEF top
  <1>3. CASE Again
    <2>1. Stepping /\ step.op = "again" /\ turn' = turn
      BY <1>3, AtIs DEF Again
    <2>2. top.code = "start_init"
      BY <2>1, StepFits DEF Fits, Placed
    <2>3. Len(stack) = 1 /\ stack \in Seq(Frames)
      BY <2>2, InitAlone DEF Inits, IInv, Typed
    <2>4. /\ stack'[1] = [stack[1] EXCEPT !.at = @ - 1] /\ stack[1] = top /\ stack[1] \in Frames
          /\ DOMAIN stack' = {1}
      BY <1>3, <2>3 DEF Again, top
    <2>5. stack'[1].code = stack[1].code
      BY <2>4 DEF Frames
    <2>6. stack' # <<>>
      BY <2>4
    <2>. QED  BY <2>1, <2>5, <2>6
  <1>4. CASE Return
    <2>1. stack \in Seq(Frames) /\ stack' = Front(stack) /\ turn' = turn
      BY <1>4 DEF Return, IInv, Typed
    <2>2. /\ stack' \in Seq(Frames) /\ Len(stack') = Len(stack) - 1 /\ Len(stack) \in Nat \ {0}
          /\ \A k \in 1 .. (Len(stack) - 1) : stack'[k] = stack[k]
      BY <2>1, Fronts
    <2>. QED  BY <1>4, <2>1, <2>2
  <1>5. ASSUME NEW v \in {32, 33}, Interrupt(v)
        PROVE  turn' = turn /\ stack' # <<>> /\ stack'[1].code = stack[1].code
    <2>. DEFINE f == Frame(4, "isr_handler", Array(0, <<v>>), 0)
    <2>1. stack' = Append(stack, f) /\ stack \in Seq(Frames) /\ turn' = turn
      BY <1>5 DEF Interrupt, IInv, Typed
    <2>. HIDE DEF f
    <2>. QED  BY <2>1
  <1>6. CASE UNCHANGED vars
    BY <1>6 DEF vars
  <1>. QED  BY <1>1, <1>2, <1>3, <1>4, <1>5, <1>6, Kinds

\* A bee whose init function returns has filled its storage in.
LEMMA FinishedKeeps ==
    ASSUME IInv, RInv, Orderly, [Next]_vars
    PROVE  Finished'
  <1>1. Settled /\ order' = order
    BY Steady
  <1>. SUFFICES ASSUME NEW k \in 1 .. (turn' - 1), order[k] \in 4 .. 7
                PROVE  \/ ready'[order[k]] # 0
                       \/ k = turn' - 1 /\ stack' # <<>> /\ stack'[1].code \in Inits
    BY <1>1 DEF Finished
  <1>2. turn \in Nat /\ order \in Seq(1 .. 7)
    BY CoreAssumption DEF IInv, Typed
  <1>3. ready[order[k]] # 0 => ready'[order[k]] # 0
    BY <1>1 DEF Settled
  <1>4. CASE RunInit
    <2>1. turn' = turn + 1 /\ stack = <<>>
      BY <1>4 DEF RunInit
    <2>2. CASE k = turn
      <3>. DEFINE f == Frame(order[k], InitOf[order[k]], NoArray, 0)
      <3>1. stack' = <<f>> /\ f.code = InitOf[order[k]]
        BY <1>4, <2>2 DEF RunInit, Frame
      <3>. HIDE DEF f
      <3>2. stack' # <<>> /\ stack'[1].code = InitOf[order[k]]
        BY <3>1
      <3>3. InitOf[order[k]] \in Inits
        BY DEF InitOf, Inits
      <3>. QED  BY <1>2, <2>1, <2>2, <3>2, <3>3
    <2>3. CASE k # turn
      <3>1. k \in 1 .. (turn - 1)
        BY <1>2, <2>1, <2>3
      <3>. QED  BY <1>3, <2>1, <3>1 DEF RInv, Finished
    <2>. QED  BY <2>2, <2>3
  <1>5. CASE ~RunInit
    <2>1. turn' = turn
      <3>1. ASSUME NEW g, Goes(g) PROVE turn' = turn
        BY <3>1 DEF Goes
      <3>2. ASSUME NEW g, NEW h, Calls(g, h) PROVE turn' = turn
        BY <3>2 DEF Calls
      <3>3. CASE Again \/ Return \/ (\E v \in {32, 33} : Interrupt(v)) \/ UNCHANGED vars
        BY <3>3 DEF Again, Return, Interrupt, vars
      <3>. QED  BY <1>5, <3>1, <3>2, <3>3, Kinds
    <2>2. CASE k = turn - 1 /\ stack # <<>> /\ stack[1].code \in Inits
      <3>1. CASE stack' # <<>>
        BY <1>5, <2>1, <2>2, <3>1, BottomStays
      <3>2. CASE stack' = <<>>
        <4>. DEFINE f == stack[1]
        <4>1. Return /\ f = top /\ f \in Frames
          <5>1. Return /\ Len(stack) = 1
            BY <1>5, <2>2, <3>2, BottomStays
          <5>2. f = top
            BY <5>1 DEF top
          <5>. QED  BY <2>2, <5>1, <5>2, TopIs
        <4>2. order[k] = f.bee /\ f.code \in Starters
          BY <2>2, Bottom
        <4>3. f.at > Len(Code[f.code]) /\ f.at \in Nat
          BY <4>1 DEF Return, Frames
        <4>4. Len(Code[f.code]) \in Nat
          BY <4>1, CodeProper DEF Proper, Frames
        <4>5. f.at >= FilledAt(f.code) /\ f.at >= 3
          BY <4>2, <4>3, <4>4, Lengths
        <4>6. ready[f.bee] # 0
          BY <2>2, <4>2, <4>5 DEF RInv, Prepared
        <4>. QED  BY <1>3, <4>2, <4>6
      <3>. QED  BY <3>1, <3>2
    <2>. QED  BY <1>3, <2>1, <2>2 DEF RInv, Finished
  <1>. QED  BY <1>4, <1>5

\* A bee that registers its handler has filled its storage in.
LEMMA InstallReady ==
    ASSUME IInv, RInv, Orderly, Install
    PROVE  /\ top.saw.args[1] = 32 => ready[6] # 0
           /\ top.saw.args[1] = 33 => ready[5] # 0
  <1>1. Stepping /\ step.op = "install"
    BY AtIs DEF Install
  <1>2. top.code = "registerInterrupt" /\ top.at = 3
    BY <1>1, StepFits DEF Fits, Placed
  <1>3. InPlace(top, Len(stack)) /\ Finds(top) /\ Len(stack) \in Nat
    BY <1>1, TopIs DEF Stepping
  <1>4. Len(stack) = 2 /\ stack[2] = top /\ Called
    <2>1. top.code \in Commands /\ top.code # "plain"
      BY <1>2 DEF Commands
    <2>2. Len(stack) = 2
      BY <1>3, <2>1 DEF InPlace
    <2>3. stack[2] = top
      BY <2>2 DEF top
    <2>. QED  BY <2>1, <2>2, <2>3 DEF Called
  <1>5. top.saw.args = made.args
    <2>1. top.saw = top.want
      BY <1>2, <1>3 DEF Finds, Commands, ArgsAt
    <2>. QED  BY <1>2, <1>4, <2>1, Registers
  <1>6. made.id = 4 /\ made.cmd = 1 /\ made.op = "syscall"
    <2>1. Linked /\ stack[2].bee \in 1 .. 7 /\ made.op = "syscall"
      BY <1>4, MadeFits DEF IInv
    <2>2. /\ made.id = stack[2].bee
          /\ made.cmd \in DOMAIN Exports[stack[2].bee]
          /\ stack[2].code = Exports[stack[2].bee][made.cmd]
      BY <1>2, <1>4, <2>1 DEF Linked
    <2>. QED  BY <1>2, <1>4, <2>1, <2>2, CommandsAre
  <1>7. /\ Apt(stack[1].code, stack[1].at - 1, made) /\ stack[1].at \in Nat
        /\ stack # <<>>
    BY <1>1, <1>4, MadeApt, MadeFits DEF Stepping
  <1>8. \/ stack[1].code = "PIT_init" /\ stack[1].at = 5 /\ made.args = <<32, 6>>
        \/ stack[1].code = "keyboard_init" /\ stack[1].at = 5 /\ made.args = <<33, 5>>
        \/ made.args = <<13, 4>>
    BY <1>6, <1>7 DEF Apt
  <1>9. ASSUME stack[1].code \in {"PIT_init", "keyboard_init"}, stack[1].at = 5
        PROVE  ready[OwnerOf(stack[1].code)] # 0
    <2>1. stack[1].bee = OwnerOf(stack[1].code)
      BY <1>7, <1>9, Bottom DEF Starters, Inits
    <2>. QED  BY <1>7, <1>9, <2>1 DEF RInv, Prepared, Starters, FilledAt
  <1>10. CASE stack[1].code = "PIT_init" /\ stack[1].at = 5 /\ made.args = <<32, 6>>
    BY <1>5, <1>9, <1>10 DEF OwnerOf
  <1>11. CASE stack[1].code = "keyboard_init" /\ stack[1].at = 5 /\ made.args = <<33, 5>>
    BY <1>5, <1>9, <1>11 DEF OwnerOf
  <1>12. CASE made.args = <<13, 4>>
    BY <1>5, <1>12
  <1>. QED  BY <1>8, <1>10, <1>11, <1>12

\* A line is let through, and a handler called, only with the storage behind it filled in.
LEMMA LinesKeep ==
    ASSUME IInv, RInv, Orderly, Prioritised, [Next]_vars
    PROVE  Lines'
  <1>1. Settled /\ Lines
    BY Steady DEF RInv
  <1>2. /\ ready[4] # 0 => ready'[4] # 0
        /\ ready[5] # 0 => ready'[5] # 0
        /\ ready[6] # 0 => ready'[6] # 0
    BY <1>1 DEF Settled
  <1>3. CASE UNCHANGED <<handler, unmasked>>
    BY <1>1, <1>2, <1>3 DEF Lines, BeeOf, Settled
  <1>4. CASE IdtInit
    <2>1. unmasked' = {} /\ handler' = [v \in DOMAIN handler |-> 0]
      BY <1>4 DEF IdtInit
    <2>2. DOMAIN handler = {13, 32, 33}
      BY DEF IInv, Typed
    <2>3. \A v \in {32, 33} : handler'[v] = 0
      BY <2>1, <2>2
    <2>. QED  BY <2>1, <2>3 DEF Lines, BeeOf
  <1>5. CASE Install
    <2>. DEFINE w == top.saw.args[1]
    <2>1. unmasked' = unmasked /\ handler' = [handler EXCEPT ![w] = top.saw.args[2]]
      BY <1>5 DEF Install
    <2>2. handler \in [{13, 32, 33} -> 0 .. 7]
      BY DEF IInv, Typed
    <2>3. (w = 32 => ready[6] # 0) /\ (w = 33 => ready[5] # 0)
      BY <1>5, InstallReady
    <2>. HIDE DEF w
    <2>4. \A v \in {32, 33} : v # w => handler'[v] = handler[v]
      BY <2>1, <2>2
    <2>5. \A v \in {32, 33} : handler'[v] = BeeOf(v) => ready'[BeeOf(v)] # 0
      BY <1>1, <2>3, <2>4 DEF Lines, BeeOf, Settled
    <2>. QED  BY <1>1, <2>1, <2>5 DEF Lines, Settled
  <1>6. CASE pic_unmask_irq(32, "unmask0") \/ pic_unmask_irq(33, "unmask1")
    <2>1. /\ Stepping /\ step.op \in {"unmask0", "unmask1"} /\ handler' = handler
      BY <1>6, AtIs DEF pic_unmask_irq
    <2>2. top.code \in {"PIT_init", "keyboard_init"}
      BY <2>1, StepFits DEF Fits, Placed
    <2>3. stack[1] = top /\ stack # <<>>
      BY <2>1, <2>2, InitAlone DEF Inits, Stepping
    <2>4. ready[4] # 0
      BY <2>2, <2>3, Ready
    <2>. QED  BY <1>1, <2>1, <2>4 DEF Lines, BeeOf, Settled
  <1>7. ASSUME NEW g, Goes(g)
        PROVE  \/ UNCHANGED <<handler, unmasked>>
               \/ IdtInit \/ Install \/ pic_unmask_irq(32, "unmask0") \/ pic_unmask_irq(33, "unmask1")
    BY <1>7 DEF Goes
  <1>8. ASSUME NEW g, NEW h, Calls(g, h) PROVE UNCHANGED <<handler, unmasked>>
    BY <1>8 DEF Calls
  <1>9. CASE Again \/ Return \/ RunInit \/ (\E v \in {32, 33} : Interrupt(v)) \/ UNCHANGED vars
    <2>1. UNCHANGED <<handler, unmasked>>
      BY <1>9 DEF Again, Return, RunInit, Interrupt, vars, irqs
    <2>. QED  BY <1>3, <2>1
  <1>. QED  BY <1>3, <1>4, <1>5, <1>6, <1>7, <1>8, <1>9, Kinds

\* What has been asked for of the heap only grows.
LEMMA Grows ==
    ASSUME Kept, HEADER \in Nat, UNIT \in Nat \ {0}
    PROVE  /\ Used \in Nat /\ Used' \in Nat /\ Used <= Used'
           /\ \A b \in 4 .. 6 : node[b].global = 0 /\ node'[b].global # 0 =>
                 Used + Need(Size[b]) <= Used'
  <1>1. ASSUME NEW b \in 4 .. 6
        PROVE  /\ Need(Size[b]) \in Nat /\ Cost(b) \in Nat /\ Cost(b)' \in Nat
               /\ Cost(b) <= Cost(b)'
               /\ node[b].global = 0 /\ node'[b].global # 0 => Cost(b) + Need(Size[b]) <= Cost(b)'
    <2>1. Size[b] \in Nat
      BY Sizes
    <2>2. Size[b] + HEADER \in Nat
      BY <2>1
    <2>3. Need(Size[b]) \in Nat
      BY <2>2, Ceiling DEF Need
    <2>4. node[b].global # 0 => node'[b].global # 0
      BY DEF Kept
    <2>. QED  BY <2>3, <2>4 DEF Cost
  <1>2. Used = Cost(4) + Cost(5) + Cost(6) /\ Used' = Cost(4)' + Cost(5)' + Cost(6)'
    BY DEF Used
  <1>3. Used \in Nat /\ Used' \in Nat /\ Used <= Used'
    BY <1>1, <1>2
  <1>4. ASSUME NEW b \in 4 .. 6, node[b].global = 0, node'[b].global # 0
        PROVE  Used + Need(Size[b]) <= Used'
    <2>1. CASE b = 4  BY <1>1, <1>2, <1>4, <2>1
    <2>2. CASE b = 5  BY <1>1, <1>2, <1>4, <2>2
    <2>3. CASE b = 6  BY <1>1, <1>2, <1>4, <2>3
    <2>. QED  BY <2>1, <2>2, <2>3
  <1>. QED  BY <1>3, <1>4

\* More units are more words.
LEMMA Scaled ==
    ASSUME NEW x \in Nat, NEW y \in Nat, NEW n \in Nat, NEW u \in Nat, x + n <= y
    PROVE  /\ x * u \in Nat /\ y * u \in Nat /\ n * u \in Nat
           /\ (x + n) * u = x * u + n * u /\ (x + n) * u <= y * u
           /\ x * u <= y * u
  <1>. DEFINE d == y - (x + n)
  <1>1. d \in Nat /\ y = x + n + d
    OBVIOUS
  <1>. HIDE DEF d
  <1>2. x * u \in Nat /\ n * u \in Nat /\ d * u \in Nat
    BY <1>1
  <1>3. y * u = x * u + n * u + d * u /\ (x + n) * u = x * u + n * u
    BY <1>1
  <1>. QED  BY <1>2, <1>3

\* The start bee, once it has been called, has been.
LEMMA EarlyBefore ==
    ASSUME IInv, order' = order, turn' \in {turn, turn + 1}, Early'
    PROVE  Early
  <1>1. turn \in Nat
    BY CoreAssumption DEF IInv, Typed
  <1>2. ASSUME NEW k \in 1 .. (turn - 1) PROVE k \in 1 .. (turn' - 1)
    <2>1. CASE turn' = turn
      BY <2>1
    <2>2. CASE turn' = turn + 1
      BY <1>1, <2>2
    <2>. QED  BY <2>1, <2>2
  <1>. QED  BY <1>2 DEF Early

\* The blocks stay in their place when the heap stays where it is.
LEMMA PackedStays ==
    ASSUME IInv, RInv, Kept, UNCHANGED <<order, heap>>, FreedOnly, turn' \in {turn, turn + 1}
    PROVE  Packed'
  <1>. SUFFICES ASSUME Early', NEW e \in blocks
                PROVE  e.to # 0 /\ e.hi <= heap + Used' * UNIT
    BY DEF Packed, FreedOnly
  <1>1. e.to # 0 /\ e.hi <= heap + Used * UNIT
    BY EarlyBefore DEF RInv, Packed
  <1>2. HEADER \in Nat /\ UNIT \in Nat \ {0}
    BY CoreAssumption
  <1>3. heap \in Nat /\ e.hi \in Nat
    BY DEF IInv, Typed
  <1>4. Used \in Nat /\ Used' \in Nat /\ Used <= Used' /\ Used + 0 = Used
    BY <1>2, Grows
  <1>. DEFINE x == Used
              y == Used'
  <1>. HIDE DEF x, y
  <1>5. x \in Nat /\ y \in Nat /\ 0 \in Nat /\ UNIT \in Nat /\ x + 0 <= y
    BY <1>2, <1>4 DEF x, y
  <1>6. x * UNIT <= y * UNIT /\ x * UNIT \in Nat /\ y * UNIT \in Nat
    BY <1>5, Scaled
  <1>7. /\ Used * UNIT <= Used' * UNIT /\ Used * UNIT \in Nat /\ Used' * UNIT \in Nat
    BY <1>6 DEF x, y
  <1>. QED  BY <1>1, <1>3, <1>7

\* Until the memory manager has laid out the heap nothing of it is given away.
LEMMA PackedNone ==
    ASSUME IInv, RInv, Orderly, Prioritised, Core_end \/ LayOutHeap
    PROVE  Packed'
  <1>1. Stepping /\ stack # <<>>
    BY AtIs DEF Core_end, Call, LayOutHeap, Stepping
  <1>2. top.code = "memory_init" /\ top.at <= 5
    <2>1. CASE Core_end
      <3>1. step.op = "syscall" /\ step.id = 0 /\ step.cmd = 4
        BY <2>1, AtIs DEF Core_end, Call
      <3>2. Allowed(top.code, top.at, step)
        BY <1>1, <3>1, StepFits DEF Fits
      <3>. QED  BY <3>1, <3>2 DEF Allowed
    <2>2. CASE LayOutHeap
      <3>1. step.op = "heap"
        BY <2>2, AtIs DEF LayOutHeap
      <3>. QED  BY <1>1, <3>1, StepFits DEF Fits, Placed
    <2>. QED  BY <2>1, <2>2
  <1>3. PICK g : Moves(g)
    <2>1. CASE Core_end
      <3>1. step.op = "syscall" /\ Answer(NONE)
        BY <2>1, AtIs DEF Core_end, Call
      <3>. QED  BY <1>1, <3>1, AnswerMoves
    <2>2. CASE LayOutHeap
      <3>1. step.op = "heap" /\ Step
        BY <2>2, AtIs DEF LayOutHeap
      <3>. QED  BY <1>1, <3>1, StepMoves
    <2>. QED  BY <2>1, <2>2
  <1>4. Len(stack) = 1 /\ stack[1] = top /\ \A e \in blocks : e.to = 0
    BY <1>1, <1>2, <1>3, InitAlone, MemoryInit DEF Inits
  <1>5. Early
    BY <1>1, <1>2, <1>4, Earlier DEF Starters
  <1>6. blocks = {} /\ blocks' = blocks
    BY <1>4, <1>5 DEF RInv, Packed, Core_end, LayOutHeap
  <1>. QED  BY <1>6 DEF Packed

\* kmalloc takes the first gap, which is not behind the one that Room names.
LEMMA PackedGranted ==
    ASSUME IInv, RInv, Orderly, Prioritised, HeapSuffices, Kept, Kmalloc
    PROVE  Packed'
  <1>1. Stepping /\ step.op = "kmalloc" /\ stack # <<>>
    BY AtIs DEF Kmalloc, Stepping
  <1>2. /\ Called /\ stack[2] = top /\ top.code = "kmalloc" /\ UNCHANGED <<order, turn, heap>>
    BY <1>1, Granting DEF Kmalloc
  <1>3. CASE stack[1].code = "start_init"
    <2>1. order[turn - 1] = 3 /\ turn - 1 \in 1 .. (turn - 1)
      BY <1>1, <1>3, Bottom DEF Inits
    <2>2. ~Early'
      BY <1>2, <2>1 DEF Early
    <2>. QED  BY <2>2 DEF Packed
  <1>4. CASE stack[1].code \in Starters
    <2>. DEFINE b == stack[1].bee
                n == Need(Size[b])
                p == Min(Gaps(n))
    <2>1. /\ b \in 4 .. 6 /\ node[b].global = 0 /\ Early
          /\ top.saw.args[1] = Size[b] /\ top.saw.args[2] = b
          /\ n \in Nat /\ Used \in Nat /\ heap + Used * UNIT \in Gaps(n)
      BY <1>1, <1>4, Room
    <2>2. node'[b].global # 0
      BY <1>1, <1>4, Granted_storage
    <2>3. blocks' = blocks \cup {Block(p, n * UNIT, b)}
      BY <2>1 DEF Kmalloc
    <2>4. p \in Nat /\ \A lo \in Gaps(n) : p =< lo
      <3>1. \A lo \in Gaps(n) : lo \in Nat
        <4>1. HEADER \in Nat /\ UNIT \in Nat \ {0} /\ heap \in Nat /\ Units \in Nat
          BY CoreAssumption DEF IInv, Typed
        <4>. HIDE DEF n
        <4>2. ASSUME NEW u \in 0 .. (Units - n) PROVE heap + u * UNIT \in Nat
          <5>1. u \in Nat
            BY <2>1, <4>1
          <5>2. u * UNIT \in Nat
            BY <4>1, <5>1
          <5>. QED  BY <4>1, <5>2
        <4>. QED  BY <4>2 DEF Gaps
      <3>. QED  BY <2>1, <3>1, Smallest
    <2>5. /\ HEADER \in Nat /\ UNIT \in Nat \ {0} /\ heap \in Nat
      BY CoreAssumption DEF IInv, Typed
    <2>6. /\ Used' \in Nat /\ Used <= Used' /\ Used + n <= Used'
      BY <2>1, <2>2, <2>5, Grows
    <2>7. \A e \in blocks : e.to # 0 /\ e.hi <= heap + Used * UNIT /\ e.hi \in Nat
      BY <2>1 DEF RInv, Packed, IInv, Typed
    <2>8. p <= heap + Used * UNIT
      BY <2>1, <2>4
    <2>. HIDE DEF n, p
    <2>9. /\ (Used + n) * UNIT <= Used' * UNIT /\ Used' * UNIT \in Nat
          /\ (Used + n) * UNIT = Used * UNIT + n * UNIT
          /\ Used * UNIT \in Nat /\ n * UNIT \in Nat
      <3>. DEFINE v == Used
                  w == Used'
      <3>. HIDE DEF v, w
      <3>1. v \in Nat /\ w \in Nat /\ n \in Nat /\ UNIT \in Nat /\ v + n <= w
        BY <2>1, <2>5, <2>6 DEF v, w
      <3>2. /\ (v + n) * UNIT <= w * UNIT /\ w * UNIT \in Nat
            /\ (v + n) * UNIT = v * UNIT + n * UNIT
            /\ v * UNIT \in Nat /\ n * UNIT \in Nat
        BY <3>1, Scaled
      <3>. QED  BY <3>2 DEF v, w
    <2>. DEFINE x == Used * UNIT
                y == n * UNIT
                z == Used' * UNIT
    <2>10. x + y <= z /\ x \in Nat /\ y \in Nat /\ z \in Nat /\ p <= heap + x
      BY <2>8, <2>9
    <2>11. \A e \in blocks : e.to # 0 /\ e.hi <= heap + x /\ e.hi \in Nat
      BY <2>7
    <2>12. blocks' = blocks \cup {[lo |-> p, hi |-> p + y, to |-> b]}
      BY <2>3 DEF Block
    <2>13. Used' * UNIT = z
      OBVIOUS
    <2>. HIDE DEF x, y, z, b
    <2>14. p + y <= heap + z /\ b # 0
      BY <2>1, <2>4, <2>5, <2>10
    <2>15. \A e \in blocks : e.hi <= heap + z
      BY <2>5, <2>10, <2>11
    <2>16. \A e \in blocks' : e.to # 0 /\ e.hi <= heap + z
      BY <2>11, <2>12, <2>14, <2>15
    <2>. QED  BY <1>2, <2>13, <2>16 DEF Packed
  <1>. QED  BY <1>2, <1>3, <1>4, Caller

\* Blocks are given away from the front.
LEMMA PackedKeeps ==
    ASSUME IInv, RInv, Orderly, Prioritised, HeapSuffices, [Next]_vars
    PROVE  Packed'
  <1>1. Kept /\ order' = order
    BY Steady
  <1>2. ASSUME NEW g, Goes(g)
        PROVE  turn' = turn /\ ((UNCHANGED heap /\ FreedOnly) \/ Kmalloc \/ Core_end \/ LayOutHeap)
    BY <1>2 DEF Goes
  <1>3. ASSUME NEW g, NEW h, Calls(g, h) PROVE turn' = turn /\ UNCHANGED heap /\ FreedOnly
    BY <1>3 DEF Calls, FreedOnly
  <1>4. CASE Again \/ Return \/ RunInit \/ (\E v \in {32, 33} : Interrupt(v)) \/ UNCHANGED vars
    <2>1. turn' \in {turn, turn + 1} /\ UNCHANGED heap /\ FreedOnly
      BY <1>4 DEF Again, Return, RunInit, Interrupt, vars, bees, FreedOnly
    <2>. QED  BY <1>1, <2>1, PackedStays
  <1>5. CASE turn' = turn /\ UNCHANGED heap /\ FreedOnly
    BY <1>1, <1>5, PackedStays
  <1>6. CASE Kmalloc
    BY <1>1, <1>6, PackedGranted
  <1>7. CASE Core_end \/ LayOutHeap
    BY <1>7, PackedNone
  <1>. QED  BY <1>2, <1>3, <1>4, <1>5, <1>6, <1>7, Kinds

\* In the beginning nobody has storage.
LEMMA Starting ==
    ASSUME Init
    PROVE  RInv
  <1>1. stack = <<>> /\ turn = 1 /\ blocks = {} /\ unmasked = {}
        /\ handler = [v \in {13, 32, 33} |-> 0] /\ ready = [b \in 1 .. 7 |-> 0]
    BY DEF Init
  <1>2. DOMAIN stack = {} /\ 1 .. (turn - 1) = {}
    BY <1>1
  <1>3. Knowing /\ Prepared /\ Retained
    BY <1>1, <1>2 DEF Knowing, Prepared, Retained
  <1>4. Finished
    BY <1>2 DEF Finished
  <1>5. Lines /\ Packed
    BY <1>1 DEF Lines, Packed, BeeOf
  <1>. QED  BY <1>3, <1>4, <1>5 DEF RInv

-----------------------------------------------------------------------------
(* The theorems.                                                            *)

\* The invariant: every frame knows the storage of its bee, an init function at the bottom has
\* it from its second step on, what has been filled in stays, and a line is let through only
\* with the storage behind it filled in.
THEOREM StorageInductive ==
    ASSUME Orderly, Prioritised, HeapSuffices
    PROVE  Spec => [](IInv /\ RInv)
  <1>1. Init => IInv /\ RInv
    BY Beginning, Starting
  <1>2. (IInv /\ RInv) /\ [Next]_vars => (IInv /\ RInv)'
    <2>. SUFFICES ASSUME IInv, RInv, [Next]_vars PROVE IInv' /\ RInv'
      OBVIOUS
    <2>1. IInv'
      BY Keeps
    <2>2. Knowing' /\ Prepared' /\ Retained'
      BY KnowingKeeps, PreparedKeeps, RetainedKeeps
    <2>3. Finished' /\ Lines' /\ Packed'
      BY FinishedKeeps, LinesKeep, PackedKeeps
    <2>. QED  BY <2>1, <2>2, <2>3 DEF RInv
  <1>. QED  BY <1>1, <1>2, PTL DEF Spec

\* No function goes through storage that the init function of its bee has not obtained and
\* filled in, whatever interrupts come: for any disk whose init functions run by priority and a
\* heap that has room for the bees, with any Ordinary calls of system_start.
THEOREM StorageIsReady ==
    ASSUME Orderly, Prioritised, HeapSuffices
    PROVE  Spec => []StorageReady
  <1>1. IInv /\ RInv => StorageReady
    <2>. SUFFICES ASSUME IInv, RInv, Stepping
                  PROVE  /\ step.op \in Touches => top.global # 0 /\ top.global = ready[top.bee]
                         /\ step.op \in Fillers => top.global # 0
      BY DEF StorageReady, Stepping, Fillers
    <2>1. Apt(top.code, top.at, step)
      BY StepApt
    <2>2. Knows(top, ready)
      BY TopIs DEF RInv, Knowing, top, Stepping
    <2>3. ASSUME step.op \in Touches
          PROVE  top.global # 0 /\ top.global = ready[top.bee]
      BY <2>1, <2>2, <2>3 DEF Apt, Knows
    <2>4. ASSUME step.op \in Fillers PROVE top.global # 0
      BY <2>4, Filling
    <2>. QED  BY <2>3, <2>4
  <1>2. Spec => [](IInv /\ RInv)
    BY StorageInductive
  <1>. QED  BY <1>1, <1>2, PTL

=============================================================================
