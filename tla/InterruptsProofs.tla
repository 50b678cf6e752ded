-------------------------- MODULE InterruptsProofs --------------------------
(***************************************************************************)
(* Proofs about Interrupts for any devices, any exceptions, any handlers   *)
(* that enable interrupts and any depth to which interrupts nest.          *)
(***************************************************************************)
EXTENDS Interrupts, SequenceTheorems, TLAPS

\* What lies on the stack of an interrupt, and what is recorded of it.
Words  == {"eflags", "cs", "eip", "error", "zero", "int_no"}
Frames == [int_no : Vectors, line : 0 .. 16, at : {"call", "handler", "eoi", "iret"},
           words : Seq(Words), flag : BOOLEAN]

\* A frame of an interrupt from a device with its handler, or of an exception.
Sound(f) ==
    /\ \/ f.line \in Devices /\ f.int_no = 32 + f.line /\ handler[f.int_no] = "returns"
       \/ f.line = 16 /\ f.int_no \in Exceptions
    /\ f.words = Pushed(f.int_no, f.line < 16)

\* A hardware interrupt whose end has not been signalled.
Unended(f) == f.line < 16 /\ f.at # "iret"

\* Those on the stack are each more urgent than the ones below, at every
\* controller that both have come through.
Nested ==
    \A j, k \in DOMAIN frames :
        j < k /\ Unended(frames[j]) /\ Unended(frames[k]) =>
            \A m \in Upstream(frames[j].line), n \in Upstream(frames[k].line) :
                m \div 8 = n \div 8 => n < m

\* The lines in service are those an interrupt on the stack has come through and
\* not signalled the end to.
InService ==
    \A n : n \in isr <=>
              \E k \in DOMAIN frames : Unended(frames[k]) /\ n \in Upstream(frames[k].line)

\* Until the init function of the interrupt bee is through, nothing happens.
Started ==
    /\ boot \in {"reset", "idt", "on"}
    /\ boot # "on" => ~IFlag /\ frames = <<>> /\ bee = NoBee
    /\ boot = "idt" => mask = Lines
    /\ boot # "reset" => gates = [v \in Vectors |-> v] /\ base = pic_remap
    /\ boot = "reset" => gates = <<>>

\* A line that is let through has a handler.
Registered ==
    /\ handler \in [Vectors -> {"none", "stops", "returns"}]
    /\ boot = "on" => \A l \in Devices : l \notin mask => handler[32 + l] = "returns"
    /\ \/ bee = NoBee
       \/ /\ bee.line \in Devices
          /\ bee = [line |-> bee.line, at |-> bee.at]
          /\ \/ bee.at = "register"
             \/ bee.at = "unmask" /\ handler[32 + bee.line] = "returns"

\* The inductive invariant.
IInv == /\ Started
        /\ Registered
        /\ irr \subseteq Devices /\ mask \subseteq Lines /\ todo \subseteq Devices
        /\ base \in [{0, 1} -> Vectors]
        /\ IFlag \in BOOLEAN /\ halted \in BOOLEAN
        /\ frames \in Seq(Frames)
        /\ \A k \in DOMAIN frames : Sound(frames[k])
        /\ Nested
        /\ InService

-----------------------------------------------------------------------------
(* The controllers and the stubs.                                           *)

\* Devices have lines of their own, exceptions vectors below those.
LEMMA DeviceLines == Devices \subseteq 0 .. 15 /\ 2 \notin Devices /\ Exceptions \subseteq 0 .. 31
  BY InterruptsAssumption DEF Lines

\* What three words and two more begin with.
LEMMA FirstThree ==
    ASSUME NEW S, NEW a \in Seq(S), NEW b \in Seq(S), NEW c \in Seq(S), NEW d \in Seq(S),
           Len(a) = 3, Len(b) + Len(c) = 1, Len(d) = 1
    PROVE  /\ ((a \o b) \o c) \o d \in Seq(S)
           /\ Len(((a \o b) \o c) \o d) = 5
           /\ SubSeq(((a \o b) \o c) \o d, 1, 3) = a
  <1>1. a \o b \in Seq(S) /\ Len(a \o b) = 3 + Len(b)
    <2>1. a \o b \in Seq(S) /\ Len(a \o b) = Len(a) + Len(b)
      BY ConcatProperties, Zenon
    <2>. QED  BY <2>1
  <1>2. (a \o b) \o c \in Seq(S) /\ Len((a \o b) \o c) = 4
    <2>1. Len((a \o b) \o c) = Len(a \o b) + Len(c) /\ (a \o b) \o c \in Seq(S)
      BY <1>1, ConcatProperties
    <2>2. Len(b) \in Nat /\ Len(c) \in Nat
      OBVIOUS
    <2>. QED  BY <1>1, <2>1, <2>2
  <1>3. Len(((a \o b) \o c) \o d) = 4 + 1 /\ ((a \o b) \o c) \o d \in Seq(S)
    <2>1. ((a \o b) \o c) \o d \in Seq(S) /\ Len(((a \o b) \o c) \o d) = Len((a \o b) \o c) + Len(d)
      BY <1>2, ConcatProperties, Zenon
    <2>. QED  BY <1>2, <2>1
  <1>4. 1 \in 1 .. Len((a \o b) \o c) /\ 3 \in 1 .. Len((a \o b) \o c)
    BY <1>2
  <1>5. SubSeq(((a \o b) \o c) \o d, 1, 3) = SubSeq((a \o b) \o c, 1, 3)
    BY <1>2, <1>4, SubSeqOfConcat1, Zenon
  <1>6. 1 \in 1 .. Len(a \o b) /\ 3 \in 1 .. Len(a \o b) /\ 1 \in 1 .. Len(a) /\ 3 \in 1 .. Len(a)
    BY <1>1
  <1>7. SubSeq((a \o b) \o c, 1, 3) = SubSeq(a \o b, 1, 3)
    BY <1>1, <1>6, SubSeqOfConcat1, Zenon
  <1>8. SubSeq(a \o b, 1, 3) = SubSeq(a, 1, 3)
    BY <1>6, SubSeqOfConcat1, Zenon
  <1>9. SubSeq(a, 1, 3) = a
    BY SubSeqFull, Zenon
  <1>. QED  BY <1>3, <1>5, <1>7, <1>8, <1>9

\* Sequences of one and of three words.
LEMMA OneWord == ASSUME NEW S, NEW x \in S PROVE <<x>> \in Seq(S) /\ Len(<<x>>) = 1
  OBVIOUS

LEMMA ThreeWords ==
    ASSUME NEW S, NEW x \in S, NEW y \in S, NEW z \in S
    PROVE  <<x, y, z>> \in Seq(S) /\ Len(<<x, y, z>>) = 3
  OBVIOUS

\* Each stub pushes what the processor leaves out.
LEMMA WordsPushed ==
    ASSUME NEW v \in Vectors, NEW e \in BOOLEAN, e => v \in 32 .. 47
    PROVE  /\ Pushed(v, e) \in Seq(Words)
           /\ Len(Pushed(v, e)) = 5
           /\ SubSeq(Pushed(v, e), 1, 3) = <<"eflags", "cs", "eip">>
  <1>1. PushesError(v) <=> StubExpectsError(v)
    BY DEF PushesError, StubExpectsError
  <1>2. e => ~PushesError(v)
    BY DEF PushesError
  <1>. DEFINE a == <<"eflags", "cs", "eip">>
              b == IF PushesError(v) /\ ~e THEN <<"error">> ELSE <<>>
              c == IF StubExpectsError(v) THEN <<>> ELSE <<"zero">>
              d == <<"int_no">>
  <1>3. a \in Seq(Words) /\ Len(a) = 3
    <2>1. "eflags" \in Words /\ "cs" \in Words /\ "eip" \in Words
      BY DEF Words
    <2>. QED  BY <2>1, ThreeWords
  <1>4. d \in Seq(Words) /\ Len(d) = 1
    <2>1. "int_no" \in Words
      BY DEF Words
    <2>. QED  BY <2>1, OneWord
  <1>5. b \in Seq(Words) /\ c \in Seq(Words) /\ Len(b) + Len(c) = 1
    <2>1. "error" \in Words /\ "zero" \in Words
      BY DEF Words
    <2>2. /\ <<"error">> \in Seq(Words) /\ Len(<<"error">>) = 1
          /\ <<"zero">> \in Seq(Words) /\ Len(<<"zero">>) = 1
      BY <2>1, OneWord
    <2>3. <<>> \in Seq(Words) /\ Len(<<>>) = 0
      OBVIOUS
    <2>4. CASE PushesError(v)
      <3>1. b = <<"error">> /\ c = <<>>
        BY <1>1, <1>2, <2>4
      <3>. HIDE DEF b, c
      <3>. QED  BY <2>2, <2>3, <3>1
    <2>5. CASE ~PushesError(v)
      <3>1. b = <<>> /\ c = <<"zero">>
        BY <1>1, <2>5
      <3>. HIDE DEF b, c
      <3>. QED  BY <2>2, <2>3, <3>1
    <2>. QED  BY <2>4, <2>5
  <1>6. Pushed(v, e) = ((a \o b) \o c) \o d
    BY Zenon DEF Pushed
  <1>. HIDE DEF a, b, c, d
  <1>7. Pushed(v, e) \in Seq(Words) /\ Len(Pushed(v, e)) = 5 /\ SubSeq(Pushed(v, e), 1, 3) = a
    BY <1>3, <1>4, <1>5, <1>6, FirstThree
  <1>. QED  BY <1>7 DEF a

\* A line that can be delivered comes before all those in service at each
\* controller, and is one that a bee has let through.
LEMMA DeliverableLine ==
    ASSUME IInv, IFlag, NEW l \in Deliverable
    PROVE  /\ l \in Devices /\ VectorOf(l) = 32 + l /\ 32 + l \in DOMAIN gates
           /\ gates[32 + l] = 32 + l
           /\ handler[32 + l] = "returns"
           /\ \A m \in isr, n \in Upstream(l) : m \div 8 = n \div 8 => n < m
  <1>1. l \in irr /\ Upstream(l) \cap mask = {}
        /\ \A m \in isr, n \in Upstream(l) : m \div 8 = n \div 8 => n < m
    BY DEF Deliverable
  <1>2. l \in Devices /\ l \in 0 .. 15 /\ l \notin mask
    BY <1>1, DeviceLines DEF IInv, Upstream
  <1>3. boot = "on" /\ gates = [v \in Vectors |-> v] /\ base = pic_remap
    BY DEF IInv, Started
  <1>4. VectorOf(l) = 32 + l
    <2>1. CASE l < 8
      BY <1>2, <1>3, <2>1 DEF VectorOf, pic_remap
    <2>2. CASE l >= 8
      BY <1>2, <1>3, <2>2 DEF VectorOf, pic_remap
    <2>. QED  BY <1>2, <2>1, <2>2
  <1>5. 32 + l \in Vectors
    BY <1>2 DEF Vectors
  <1>. QED  BY <1>1, <1>2, <1>3, <1>4, <1>5 DEF IInv, Registered

\* The gates idt_init installs.
LEMMA AllGates == idt_init => gates' = [v \in Vectors |-> v]
  BY DEF idt_init, isr_install, irq_install, install_extra_isr, Vectors

-----------------------------------------------------------------------------
(* The stack.                                                               *)

\* The end that is signalled for a device is that of its own line, at each
\* controller it came through.
LEMMA EndsItsOwn ==
    ASSUME IInv, frames # <<>>, Unended(top)
    PROVE  Ended(top.int_no) = Upstream(top.line)
  <1>. DEFINE t == Len(frames)
              l == top.line
  <1>1. t \in DOMAIN frames /\ top = frames[t] /\ t \in Nat \ {0} /\ DOMAIN frames = 1 .. t
    BY DEF IInv, top
  <1>2. l \in Devices /\ top.int_no = 32 + l
    BY <1>1 DEF IInv, Sound, Unended
  <1>3. l \in 0 .. 15 /\ l # 2
    BY <1>2, DeviceLines
  <1>4. Upstream(l) \subseteq isr
    BY <1>1 DEF IInv, InService
  <1>5. \A k \in isr : \A n \in Upstream(l) : k \div 8 = n \div 8 => k = n \/ n < k
    <2>. SUFFICES ASSUME NEW k \in isr, NEW n \in Upstream(l), k \div 8 = n \div 8
                  PROVE  k = n \/ n < k
      OBVIOUS
    <2>1. PICK j \in DOMAIN frames : Unended(frames[j]) /\ k \in Upstream(frames[j].line)
      BY DEF IInv, InService
    <2>2. CASE j < t
      BY <1>1, <2>1, <2>2 DEF IInv, Nested
    <2>3. CASE j = t
      BY <1>1, <1>3, <2>1, <2>3 DEF Upstream
    <2>. QED  BY <1>1, <2>2, <2>3
  <1>6. isr \subseteq 0 .. 15
    <2>. SUFFICES ASSUME NEW k \in isr PROVE k \in 0 .. 15
      OBVIOUS
    <2>1. PICK j \in DOMAIN frames : Unended(frames[j]) /\ k \in Upstream(frames[j].line)
      BY DEF IInv, InService
    <2>. QED  BY <2>1, DeviceLines DEF IInv, Sound, Unended, Upstream
  <1>. HIDE DEF l, t
  <1>7. \A k \in 0 .. 15 : k \div 8 = (IF k < 8 THEN 0 ELSE 1)
    OBVIOUS
  <1>8. CASE l < 8
    <2>1. Upstream(l) = {l} /\ l \div 8 = 0
      BY <1>3, <1>7, <1>8 DEF Upstream
    <2>2. l \in FirstOf(0)
      BY <1>3, <1>4, <1>5, <1>6, <2>1 DEF FirstOf
    <2>3. \A k \in FirstOf(0) : k = l
      BY <1>3, <1>4, <1>5, <1>6, <2>1 DEF FirstOf
    <2>4. FirstOf(0) = {l}
      BY <2>2, <2>3
    <2>5. 32 + l \in 32 .. 47 /\ 32 + l \notin 40 .. 47
      BY <1>3, <1>8
    <2>6. Ended(32 + l) = {l}
      BY <2>4, <2>5 DEF Ended
    <2>. QED  BY <1>2, <2>1, <2>6 DEF l
  <1>9. CASE l >= 8
    <2>1. Upstream(l) = {2, l} /\ l \div 8 = 1 /\ 2 \div 8 = 0
      BY <1>3, <1>7, <1>9 DEF Upstream
    <2>2. 2 \in FirstOf(0) /\ l \in FirstOf(1)
      BY <1>3, <1>4, <1>5, <1>6, <2>1 DEF FirstOf
    <2>3. (\A k \in FirstOf(0) : k = 2) /\ (\A k \in FirstOf(1) : k = l)
      BY <1>3, <1>4, <1>5, <1>6, <2>1 DEF FirstOf
    <2>4. FirstOf(0) = {2} /\ FirstOf(1) = {l}
      BY <2>2, <2>3
    <2>5. 32 + l \in 32 .. 47 /\ 32 + l \in 40 .. 47
      BY <1>3, <1>9
    <2>6. Ended(32 + l) = {l} \cup {2}
      BY <2>4, <2>5 DEF Ended
    <2>. QED  BY <1>2, <2>1, <2>6 DEF l
  <1>. QED  BY <1>3, <1>8, <1>9

\* An interrupt is put on the stack.
LEMMA DeliverKeeps ==
    ASSUME IInv, NEW l \in Devices, Deliver(l)
    PROVE  IInv'
  <1>. DEFINE f == Frame(VectorOf(l), l)
              t == Len(frames)
  <1>1. /\ IFlag /\ l \in Deliverable
        /\ irr' = irr \ {l} /\ isr' = isr \cup Upstream(l)
        /\ frames' = Append(frames, f) /\ IFlag' = FALSE
        /\ UNCHANGED <<gates, handler, base, mask, boot, todo, bee, halted>>
    BY DEF Deliver
  <1>2. /\ VectorOf(l) = 32 + l /\ 32 + l \in DOMAIN gates /\ gates[32 + l] = 32 + l
        /\ handler[32 + l] = "returns"
        /\ \A m \in isr, n \in Upstream(l) : m \div 8 = n \div 8 => n < m
    BY <1>1, DeliverableLine
  <1>3. l \in 0 .. 15
    BY DeviceLines
  <1>4. /\ f = [int_no |-> 32 + l, line |-> l, at |-> "call", words |-> Pushed(32 + l, TRUE),
                flag |-> IFlag]
        /\ f \in Frames
    <2>1. (l < 16) = TRUE /\ 32 + l \in Vectors /\ l \in 0 .. 16 /\ IFlag \in BOOLEAN
      BY <1>3 DEF Vectors, IInv
    <2>2. f = [int_no |-> 32 + l, line |-> l, at |-> "call", words |-> Pushed(32 + l, TRUE),
               flag |-> IFlag]
      BY <1>2, <2>1 DEF Frame
    <2>3. Pushed(32 + l, TRUE) \in Seq(Words)
      <3>1. 32 + l \in 32 .. 47
        BY <1>3
      <3>. QED  BY <2>1, <3>1, WordsPushed, Zenon
    <2>. HIDE DEF f
    <2>4. \A i \in Vectors, n \in 0 .. 16, w \in Seq(Words), b \in BOOLEAN :
             [int_no |-> i, line |-> n, at |-> "call", words |-> w, flag |-> b] \in Frames
      BY DEF Frames
    <2>. QED  BY <2>1, <2>2, <2>3, <2>4, Zenon
  <1>. HIDE DEF f
  <1>5. Unended(f) /\ Sound(f)
    <2>1. f.line = l /\ f.int_no = 32 + l /\ f.at = "call" /\ f.words = Pushed(32 + l, TRUE)
      BY <1>4
    <2>2. (f.line < 16) = TRUE
      BY <1>3, <2>1
    <2>. QED  BY <1>2, <2>1, <2>2 DEF Unended, Sound
  <1>6. /\ frames' \in Seq(Frames) /\ t \in Nat
        /\ DOMAIN frames = 1 .. t /\ DOMAIN frames' = 1 .. (t + 1)
        /\ \A k \in 1 .. t : frames'[k] = frames[k]
        /\ frames'[t + 1] = f
    BY <1>1, <1>4, AppendProperties DEF IInv
  <1>7. Started'
    BY <1>1 DEF IInv, Started
  <1>8. Registered'
    BY <1>1 DEF IInv, Registered
  <1>9. (\A k \in DOMAIN frames : Sound(frames[k]))'
    BY <1>1, <1>5, <1>6 DEF IInv, Sound
  <1>10. Nested'
    <2>. SUFFICES ASSUME NEW j \in DOMAIN frames', NEW k \in DOMAIN frames', j < k,
                         Unended(frames'[j]), Unended(frames'[k]),
                         NEW m \in Upstream(frames'[j].line), NEW n \in Upstream(frames'[k].line),
                         m \div 8 = n \div 8
                  PROVE  n < m
      BY DEF Nested, Unended
    <2>1. CASE k <= t
      BY <1>6, <2>1 DEF IInv, Nested
    <2>2. CASE k = t + 1
      <3>1. j \in 1 .. t /\ frames'[j] = frames[j] /\ frames'[k] = f
        BY <1>6, <2>2
      <3>2. m \in isr
        BY <1>6, <3>1 DEF IInv, InService
      <3>. QED  BY <1>2, <1>4, <3>1, <3>2
    <2>. QED  BY <1>6, <2>1, <2>2
  <1>11. InService'
    <2>. SUFFICES ASSUME NEW n
                  PROVE  n \in isr' <=>
                         \E k \in DOMAIN frames' : Unended(frames'[k]) /\ n \in Upstream(frames'[k].line)
      BY DEF InService, Unended
    <2>1. n \in isr <=> \E k \in 1 .. t : Unended(frames[k]) /\ n \in Upstream(frames[k].line)
      BY <1>6 DEF IInv, InService
    <2>2. (\E k \in DOMAIN frames' : Unended(frames'[k]) /\ n \in Upstream(frames'[k].line))
            <=> \/ \E k \in 1 .. t : Unended(frames[k]) /\ n \in Upstream(frames[k].line)
                \/ n \in Upstream(l)
      BY <1>4, <1>5, <1>6
    <2>. QED  BY <1>1, <2>1, <2>2
  <1>12. /\ irr' \subseteq Devices /\ mask' \subseteq Lines /\ todo' \subseteq Devices
         /\ base' \in [{0, 1} -> Vectors] /\ IFlag' \in BOOLEAN /\ halted' \in BOOLEAN
    BY <1>1 DEF IInv
  <1>. QED  BY <1>6, <1>7, <1>8, <1>9, <1>10, <1>11, <1>12 DEF IInv

\* What remains of a stack whose innermost frame is at another place.
LEMMA TopMoves ==
    ASSUME NEW a \in {"call", "handler", "eoi", "iret"}, frames \in Seq(Frames), frames # <<>>,
           frames' = [frames EXCEPT ![Len(frames)].at = a]
    PROVE  /\ frames' \in Seq(Frames) /\ DOMAIN frames' = DOMAIN frames /\ Len(frames') = Len(frames)
           /\ \A k \in DOMAIN frames : k # Len(frames) => frames'[k] = frames[k]
           /\ frames'[Len(frames)].at = a
           /\ \A k \in DOMAIN frames :
                 /\ frames'[k].line = frames[k].line /\ frames'[k].int_no = frames[k].int_no
                 /\ frames'[k].words = frames[k].words
  <1>. DEFINE t == Len(frames)
              f == frames[t]
              g == [f EXCEPT !.at = a]
  <1>1. t \in 1 .. t /\ DOMAIN frames = 1 .. t /\ f \in Frames
    OBVIOUS
  <1>2. \A r \in Frames :
           /\ [r EXCEPT !.at = a] \in Frames /\ [r EXCEPT !.at = a].at = a
           /\ [r EXCEPT !.at = a].line = r.line /\ [r EXCEPT !.at = a].int_no = r.int_no
           /\ [r EXCEPT !.at = a].words = r.words
    BY DEF Frames
  <1>3. g \in Frames /\ g.at = a /\ g.line = f.line /\ g.int_no = f.int_no /\ g.words = f.words
    BY <1>1, <1>2, Zenon
  <1>4. frames' = [frames EXCEPT ![t] = g]
    BY Zenon
  <1>. HIDE DEF g
  <1>5. /\ [frames EXCEPT ![t] = g] \in Seq(Frames) /\ Len([frames EXCEPT ![t] = g]) = t
        /\ \A j \in 1 .. t : [frames EXCEPT ![t] = g][j] = IF j = t THEN g ELSE frames[j]
    BY <1>1, <1>3, ExceptSeq
  <1>6. DOMAIN frames' = 1 .. t
    BY <1>4, <1>5
  <1>. QED  BY <1>1, <1>3, <1>4, <1>5, <1>6

\* The innermost interrupt goes on, and whether its end has been signalled stays.
LEMMA GoesOn ==
    ASSUME IInv, frames # <<>>, NEW a \in {"call", "handler", "eoi", "iret"},
           a = "iret" <=> top.at = "iret",
           frames' = [frames EXCEPT ![Len(frames)].at = a],
           UNCHANGED <<gates, handler, pic, boot, todo, bee, IFlag, halted>>
    PROVE  IInv'
  <1>. DEFINE t == Len(frames)
  <1>1. t \in DOMAIN frames /\ top = frames[t] /\ t \in Nat \ {0} /\ DOMAIN frames = 1 .. t
    BY DEF IInv, top
  <1>2. /\ frames' \in Seq(Frames) /\ DOMAIN frames' = DOMAIN frames
        /\ \A k \in DOMAIN frames : k # t => frames'[k] = frames[k]
        /\ frames'[t].at = a
        /\ \A k \in DOMAIN frames :
              /\ frames'[k].line = frames[k].line /\ frames'[k].int_no = frames[k].int_no
              /\ frames'[k].words = frames[k].words
    BY <1>1, TopMoves DEF IInv
  <1>3. \A k \in DOMAIN frames : frames'[k].at = "iret" <=> frames[k].at = "iret"
    BY <1>1, <1>2
  <1>4. \A k \in DOMAIN frames : Unended(frames'[k]) <=> Unended(frames[k])
    BY <1>2, <1>3 DEF Unended
  <1>5. Started' /\ Registered'
    BY DEF IInv, Started, Registered, pic
  <1>6. (\A k \in DOMAIN frames : Sound(frames[k]))'
    BY <1>2, <1>3 DEF IInv, Sound
  <1>7. Nested'
    BY <1>2, <1>3, <1>4 DEF IInv, Nested, Unended
  <1>8. InService'
    BY <1>2, <1>3, <1>4 DEF IInv, InService, Unended, pic
  <1>. QED  BY <1>2, <1>5, <1>6, <1>7, <1>8 DEF IInv, pic

\* The innermost interrupt signals its end, and ends nobody else's.
LEMMA EndKeeps ==
    ASSUME IInv, EndOfInterrupt
    PROVE  IInv'
  <1>. DEFINE t == Len(frames)
              E == Ended(top.int_no)
  <1>1. t \in DOMAIN frames /\ top = frames[t] /\ t \in Nat \ {0} /\ DOMAIN frames = 1 .. t
    BY DEF IInv, top, EndOfInterrupt, At
  <1>2. /\ top.at = "eoi" /\ isr' = isr \ E
        /\ UNCHANGED <<gates, handler, base, mask, irr, IFlag, boot, todo, bee, halted>>
    BY DEF EndOfInterrupt, At
  <1>3. /\ frames' \in Seq(Frames) /\ DOMAIN frames' = DOMAIN frames
        /\ \A k \in DOMAIN frames : k # t => frames'[k] = frames[k]
        /\ frames'[t].at = "iret"
        /\ \A k \in DOMAIN frames :
              /\ frames'[k].line = frames[k].line /\ frames'[k].int_no = frames[k].int_no
              /\ frames'[k].words = frames[k].words
    BY <1>1, TopMoves DEF EndOfInterrupt, IInv
  <1>4. \A k \in DOMAIN frames : Unended(frames'[k]) <=> Unended(frames[k]) /\ k # t
    BY <1>3 DEF Unended
  <1>5. Started' /\ Registered'
    BY <1>1, <1>2 DEF IInv, Started, Registered
  <1>6. (\A k \in DOMAIN frames : Sound(frames[k]))'
    BY <1>2, <1>3 DEF IInv, Sound
  <1>7. Nested'
    BY <1>3, <1>4 DEF IInv, Nested, Unended
  <1>8. \A n : n \in E => ~ \E k \in DOMAIN frames : k # t /\ Unended(frames[k]) /\ n \in Upstream(frames[k].line)
    <2>. SUFFICES ASSUME NEW n \in E, NEW k \in DOMAIN frames, k # t, Unended(frames[k]),
                         n \in Upstream(frames[k].line)
                  PROVE  FALSE
      OBVIOUS
    <2>1. CASE top.line < 16
      <3>1. Unended(top)
        BY <1>2, <2>1 DEF Unended
      <3>2. n \in Upstream(top.line)
        BY <1>1, <3>1, EndsItsOwn
      <3>3. n \in Nat
        BY <1>1, DeviceLines, <3>1, <3>2 DEF IInv, Sound, Unended, Upstream
      <3>4. k < t
        BY <1>1
      <3>5. n < n
        BY <1>1, <3>1, <3>2, <3>4 DEF IInv, Nested
      <3>. QED  BY <3>3, <3>5
    <2>2. CASE ~(top.line < 16)
      <3>1. top.int_no \in 0 .. 31
        <4>1. Sound(top)
          BY <1>1 DEF IInv
        <4>2. top.line \notin Devices
          <5>1. \A x \in Devices : x < 16
            BY DeviceLines
          <5>. QED  BY <2>2, <5>1, Zenon
        <4>. QED  BY <4>1, <4>2, DeviceLines DEF Sound
      <3>2. top.int_no \notin 32 .. 47 /\ top.int_no \notin 40 .. 47
        <4>1. \A x \in 0 .. 31 : x \notin 32 .. 47 /\ x \notin 40 .. 47
          OBVIOUS
        <4>. QED  BY <3>1, <4>1, Zenon
      <3>. QED  BY <3>2 DEF Ended
    <2>. QED  BY <2>1, <2>2
  <1>9. Unended(top) => Upstream(top.line) = E
    BY <1>1, EndsItsOwn
  <1>10. \A n : n \in isr' <=> \E k \in DOMAIN frames : k # t /\ Unended(frames[k]) /\ n \in Upstream(frames[k].line)
    <2>. HIDE DEF E
    <2>1. \A n : n \in isr <=> \E k \in DOMAIN frames : Unended(frames[k]) /\ n \in Upstream(frames[k].line)
      BY DEF IInv, InService
    <2>. QED  BY <1>1, <1>2, <1>8, <1>9, <2>1
  <1>11. InService'
    BY <1>3, <1>4, <1>10 DEF InService, Unended
  <1>. QED  BY <1>2, <1>3, <1>5, <1>6, <1>7, <1>11 DEF IInv

\* The innermost interrupt is over.
LEMMA IretKeeps ==
    ASSUME IInv, iret
    PROVE  IInv'
  <1>. DEFINE t == Len(frames)
  <1>1. t \in DOMAIN frames /\ top = frames[t] /\ t \in Nat \ {0} /\ DOMAIN frames = 1 .. t
    BY DEF IInv, top, iret, At
  <1>2. /\ top.at = "iret" /\ IFlag' = top.flag
        /\ UNCHANGED <<gates, handler, base, mask, irr, isr, boot, todo, bee, halted>>
    BY DEF iret, At, pic
  <1>3. /\ frames' \in Seq(Frames) /\ DOMAIN frames' = 1 .. (t - 1)
        /\ \A k \in 1 .. (t - 1) : frames'[k] = frames[k]
    <2>1. frames' = Front(frames) /\ frames \in Seq(Frames) /\ frames # <<>>
      BY DEF iret, At, IInv
    <2>. QED  BY <1>1, <2>1 DEF Front
  <1>4. ~Unended(frames[t])
    BY <1>1, <1>2 DEF Unended
  <1>5. IFlag' \in BOOLEAN
    <2>1. frames[t] \in Frames
      BY <1>1 DEF IInv
    <2>2. \A r \in Frames : r.flag \in BOOLEAN
      BY DEF Frames
    <2>. QED  BY <1>1, <1>2, <2>1, <2>2, Zenon
  <1>6. Started' /\ Registered'
    BY <1>1, <1>2 DEF IInv, Started, Registered
  <1>7. (\A k \in DOMAIN frames : Sound(frames[k]))'
    BY <1>1, <1>2, <1>3 DEF IInv, Sound
  <1>8. Nested'
    <2>1. \A k \in 1 .. (t - 1) : k \in DOMAIN frames
      BY <1>1
    <2>. QED  BY <1>3, <2>1 DEF IInv, Nested, Unended
  <1>9. \A k \in DOMAIN frames : Unended(frames[k]) => k \in 1 .. (t - 1)
    BY <1>1, <1>4
  <1>10. InService'
    BY <1>1, <1>2, <1>3, <1>9 DEF IInv, InService, Unended
  <1>. QED  BY <1>2, <1>3, <1>5, <1>6, <1>7, <1>8, <1>10 DEF IInv

\* An exception, which comes in the code of a bee.
LEMMA FaultKeeps ==
    ASSUME IInv, NEW v \in Exceptions, Fault(v)
    PROVE  IInv'
  <1>. DEFINE f == Frame(v, 16)
  <1>1. /\ boot = "on" /\ frames = <<>> /\ frames' = Append(frames, f) /\ IFlag' = FALSE
        /\ UNCHANGED <<gates, handler, base, mask, irr, isr, boot, todo, bee, halted>>
    BY DEF Fault, pic
  <1>2. v \in Vectors /\ gates[v] = v
    <2>1. v \in 0 .. 31
      BY DeviceLines
    <2>2. v \in Vectors
      BY <2>1 DEF Vectors
    <2>. QED  BY <1>1, <2>2 DEF IInv, Started
  <1>3. /\ f = [int_no |-> v, line |-> 16, at |-> "call", words |-> Pushed(v, FALSE), flag |-> IFlag]
        /\ f \in Frames
    <2>1. (16 < 16) = FALSE /\ 16 \in 0 .. 16 /\ IFlag \in BOOLEAN
      BY DEF IInv
    <2>2. f = [int_no |-> v, line |-> 16, at |-> "call", words |-> Pushed(v, FALSE), flag |-> IFlag]
      BY <1>2, <2>1 DEF Frame
    <2>3. Pushed(v, FALSE) \in Seq(Words)
      BY <1>2, WordsPushed, Zenon
    <2>. HIDE DEF f
    <2>4. \A i \in Vectors, n \in 0 .. 16, w \in Seq(Words), b \in BOOLEAN :
             [int_no |-> i, line |-> n, at |-> "call", words |-> w, flag |-> b] \in Frames
      BY DEF Frames
    <2>. QED  BY <1>2, <2>1, <2>2, <2>3, <2>4, Zenon
  <1>. HIDE DEF f
  <1>4. ~Unended(f) /\ Sound(f)
    <2>1. f.line = 16 /\ f.int_no = v /\ f.words = Pushed(v, FALSE)
      BY <1>3
    <2>2. (f.line < 16) = FALSE
      BY <2>1
    <2>. QED  BY <2>1, <2>2 DEF Unended, Sound
  <1>5. frames' \in Seq(Frames) /\ DOMAIN frames' = {1} /\ frames'[1] = f
    BY <1>1, <1>3
  <1>6. Started' /\ Registered'
    BY <1>1 DEF IInv, Started, Registered
  <1>7. (\A k \in DOMAIN frames : Sound(frames[k]))'
    BY <1>1, <1>4, <1>5 DEF Sound
  <1>8. Nested'
    BY <1>4, <1>5 DEF Nested, Unended
  <1>9. \A n : n \notin isr
    BY <1>1 DEF IInv, InService
  <1>10. InService'
    BY <1>1, <1>4, <1>5, <1>9 DEF InService, Unended
  <1>. QED  BY <1>1, <1>5, <1>6, <1>7, <1>8, <1>10 DEF IInv

\* While no interrupt is being served, none is in service, and an init function
\* changes nothing of the stack.
LEMMA MainKeeps ==
    ASSUME IInv, frames = <<>>, UNCHANGED <<isr, frames>>
    PROVE  /\ frames' \in Seq(Frames) /\ (\A k \in DOMAIN frames : Sound(frames[k]))'
           /\ Nested' /\ InService'
  <1>1. DOMAIN frames = {} /\ frames' = frames
    OBVIOUS
  <1>2. \A n : n \notin isr
    BY <1>1 DEF IInv, InService
  <1>3. InService'
    BY <1>1, <1>2 DEF InService
  <1>. QED  BY <1>1, <1>3 DEF IInv, Nested

\* The steps of the init functions.
LEMMA InitBeesKeep ==
    ASSUME IInv, InitBees
    PROVE  IInv'
  <1>. DEFINE Typed == /\ irr \subseteq Devices /\ mask \subseteq Lines /\ todo \subseteq Devices
                       /\ base \in [{0, 1} -> Vectors]
                       /\ IFlag \in BOOLEAN /\ halted \in BOOLEAN
  <1>1. frames = <<>> /\ UNCHANGED <<isr, frames>>
    BY DEF InitBees, idt_init, bee_init, registerInterrupt, pic_unmask_irq, StartBee, Main, pic
  <1>2. /\ frames' \in Seq(Frames) /\ (\A k \in DOMAIN frames : Sound(frames[k]))'
        /\ Nested' /\ InService'
    BY <1>1, MainKeeps
  <1>3. Started' /\ Registered' /\ Typed'
    <2>1. CASE idt_init
      <3>1. Started'
        BY <1>1, <2>1, AllGates DEF IInv, Started, idt_init, pic_remap
      <3>2. Registered'
        BY <2>1 DEF IInv, Started, Registered, idt_init
      <3>3. base' \in [{0, 1} -> Vectors]
        BY <2>1 DEF idt_init, pic_remap, Vectors
      <3>. QED  BY <2>1, <3>1, <3>2, <3>3 DEF IInv, idt_init
    <2>2. CASE bee_init
      <3>1. Started'
        BY <2>2 DEF IInv, Started, bee_init, pic
      <3>2. Registered'
        <4>1. \A l \in Devices : l \in mask
          BY <2>2, DeviceLines DEF IInv, Started, bee_init, Lines
        <4>2. handler' \in [Vectors -> {"none", "stops", "returns"}]
          BY <2>2 DEF IInv, Registered, bee_init
        <4>. QED  BY <2>2, <4>1, <4>2 DEF IInv, Started, Registered, bee_init, pic
      <3>. QED  BY <2>2, <3>1, <3>2 DEF IInv, bee_init, pic
    <2>3. ASSUME NEW l \in Devices, StartBee(l) PROVE Started' /\ Registered' /\ Typed'
      <3>1. Started'
        BY <2>3 DEF IInv, Started, StartBee, pic
      <3>2. Registered'
        BY <2>3 DEF IInv, Registered, StartBee, pic
      <3>. QED  BY <2>3, <3>1, <3>2 DEF IInv, StartBee, pic
    <2>4. CASE registerInterrupt
      <3>1. bee # NoBee /\ bee.line \in Devices /\ bee' = [line |-> bee.line, at |-> "unmask"]
        BY <2>4 DEF IInv, Registered, registerInterrupt, NoBee
      <3>2. Started'
        BY <1>1, <2>4, <3>1 DEF IInv, Started, registerInterrupt, pic
      <3>3. Registered'
        <4>1. Slot(bee.line) \in Vectors /\ Slot(bee.line) = 32 + bee.line
          <5>1. \A l \in Devices : 32 + l \in Vectors
            BY DeviceLines DEF Vectors
          <5>. QED  BY <3>1, <5>1, Zenon DEF Slot
        <4>2. /\ handler' \in [Vectors -> {"none", "stops", "returns"}]
              /\ handler'[32 + bee.line] = "returns"
              /\ \A v \in Vectors : handler[v] = "returns" => handler'[v] = "returns"
          BY <2>4, <4>1 DEF IInv, Registered, registerInterrupt
        <4>3. \A l \in Devices : 32 + l \in Vectors
          BY DeviceLines DEF Vectors
        <4>. QED  BY <2>4, <3>1, <4>2, <4>3 DEF IInv, Registered, registerInterrupt, pic
      <3>. QED  BY <2>4, <3>2, <3>3 DEF IInv, registerInterrupt, pic
    <2>5. CASE pic_unmask_irq
      <3>1. /\ bee # NoBee /\ bee.line \in Devices /\ handler[32 + bee.line] = "returns"
        BY <2>5 DEF IInv, Registered, pic_unmask_irq, NoBee
      <3>2. boot = "on"
        BY <3>1 DEF IInv, Started
      <3>3. Started'
        BY <2>5, <3>2 DEF IInv, Started, pic_unmask_irq
      <3>4. \A l \in Devices : l \notin mask' => l \notin mask \/ l = bee.line
        BY <2>5, <3>1, InterruptsAssumption, DeviceLines DEF pic_unmask_irq
      <3>5. Registered'
        BY <2>5, <3>1, <3>2, <3>4 DEF IInv, Registered, pic_unmask_irq
      <3>. QED  BY <2>5, <3>3, <3>5 DEF IInv, pic_unmask_irq
    <2>. QED  BY <2>1, <2>2, <2>3, <2>4, <2>5 DEF InitBees
  <1>. QED  BY <1>2, <1>3 DEF IInv

-----------------------------------------------------------------------------
(* The invariant.                                                           *)

\* It holds at the start.
LEMMA Initially == Init => IInv
  <1>. SUFFICES ASSUME Init PROVE IInv
    OBVIOUS
  <1>1. Started
    BY DEF Init, Started
  <1>2. Registered
    BY DEF Init, Registered
  <1>3. base \in [{0, 1} -> Vectors]
    BY DEF Init, Vectors
  <1>4. frames \in Seq(Frames) /\ DOMAIN frames = {} /\ isr = {}
    BY DEF Init
  <1>5. Nested /\ InService /\ \A k \in DOMAIN frames : Sound(frames[k])
    BY <1>4 DEF Nested, InService
  <1>. QED  BY <1>1, <1>2, <1>3, <1>4, <1>5 DEF Init, IInv

\* Every step keeps it.
LEMMA Inductive == IInv /\ [Next]_vars => IInv'
  <1>. SUFFICES ASSUME IInv, [Next]_vars PROVE IInv'
    OBVIOUS
  <1>1. ASSUME UNCHANGED <<gates, handler, base, mask, isr, boot, todo, bee, frames>>,
               irr' \subseteq Devices, IFlag' \in BOOLEAN, halted' \in BOOLEAN,
               boot # "on" => IFlag' = IFlag
        PROVE  IInv'
    <2>1. Started' /\ Registered'
      BY <1>1 DEF IInv, Started, Registered
    <2>2. Nested' /\ InService' /\ (\A k \in DOMAIN frames : Sound(frames[k]))'
      BY <1>1 DEF IInv, Nested, InService, Sound
    <2>. QED  BY <1>1, <2>1, <2>2 DEF IInv
  <1>2. ASSUME NEW l \in Devices, Raise(l) PROVE IInv'
    BY <1>1, <1>2 DEF Raise, IInv
  <1>3. ASSUME NEW l \in Devices, Deliver(l) PROVE IInv'
    BY <1>3, DeliverKeeps
  <1>4. ASSUME NEW v \in Exceptions, Fault(v) PROVE IInv'
    BY <1>4, FaultKeeps
  <1>5. CASE isr_handler
    BY <1>5, GoesOn DEF isr_handler, At
  <1>6. CASE handle_exception \/ UNHANDLED_INTERRUPT \/ UNCHANGED vars \/ Stay
    BY <1>1, <1>6 DEF handle_exception, UNHANDLED_INTERRUPT, Stay, vars, pic, IInv
  <1>7. CASE HandlerReturns
    BY <1>7, GoesOn DEF HandlerReturns, At
  <1>8. CASE EndOfInterrupt
    BY <1>8, EndKeeps
  <1>9. CASE iret
    BY <1>9, IretKeeps
  <1>10. CASE HandlerEnables
    <2>1. boot = "on"
      BY <1>10 DEF HandlerEnables, At, IInv, Started
    <2>. QED  BY <1>1, <1>10, <2>1 DEF HandlerEnables, pic, IInv
  <1>11. CASE InitBees
    BY <1>11, InitBeesKeep
  <1>. QED
    BY <1>2, <1>3, <1>4, <1>5, <1>6, <1>7, <1>8, <1>9, <1>10, <1>11 DEF Next, Serve

\* So it always holds.
LEMMA Invariance == Spec => []IInv
  BY Initially, Inductive, PTL DEF Spec

-----------------------------------------------------------------------------

\* The vector and the line of an interrupt on the stack.
LEMMA FrameFields ==
    ASSUME frames \in Seq(Frames)
    PROVE  \A k \in DOMAIN frames : frames[k].int_no \in Vectors /\ frames[k].line \in 0 .. 16
  <1>1. \A r \in Frames : r.int_no \in Vectors /\ r.line \in 0 .. 16
    BY DEF Frames
  <1>2. \A k \in DOMAIN frames : frames[k] \in Frames
    OBVIOUS
  <1>. QED  BY <1>1, <1>2, Zenon

\* The variables keep their types.
THEOREM TypeCorrect == Spec => []TypeOK
  <1>1. IInv => TypeOK
    <2>. SUFFICES ASSUME IInv PROVE TypeOK
      OBVIOUS
    <2>1. DOMAIN gates \subseteq Vectors /\ \A v \in DOMAIN gates : gates[v] \in Vectors
      BY DEF IInv, Started
    <2>2. bee.line \in Devices \cup {16} /\ bee.at \in {"none", "register", "unmask"}
      BY DEF IInv, Registered, NoBee
    <2>3. isr \subseteq Devices \cup {2}
      BY DEF IInv, InService, Sound, Unended, Upstream
    <2>4. \A k \in DOMAIN frames : frames[k].int_no \in Vectors /\ frames[k].line \in 0 .. 16
      BY FrameFields DEF IInv
    <2>. QED  BY <2>1, <2>2, <2>3, <2>4 DEF IInv, TypeOK, Started, Registered
  <1>. QED  BY <1>1, Invariance, PTL

\* Whatever a device interrupts, and in whatever order the bees have been
\* started, its handler has been registered and its gate leads there.
THEOREM DevicesHandled == Spec => []DeviceHandled
  <1>1. IInv => DeviceHandled
    <2>. SUFFICES ASSUME IInv PROVE DeviceHandled
      OBVIOUS
    <2>1. \A k \in DOMAIN frames : frames[k].line < 16 => handler[frames[k].int_no] = "returns"
      BY DEF IInv, Sound
    <2>2. IFlag => \A l \in Deliverable : VectorOf(l) \in DOMAIN gates
      BY DeliverableLine
    <2>. QED  BY <2>1, <2>2 DEF DeviceHandled
  <1>. QED  BY <1>1, Invariance, PTL

\* However deep interrupts nest, and wherever handlers enable them, the lines in
\* service are those of the interrupts on the stack.
THEOREM ServiceIsStack == Spec => []ServiceMatchesStack
  <1>1. IInv => ServiceMatchesStack
    <2>. SUFFICES ASSUME IInv PROVE ServiceMatchesStack
      OBVIOUS
    <2>. DEFINE On == {k \in DOMAIN frames : frames[k].line < 16 /\ frames[k].at # "iret"}
    <2>1. \A k : k \in On <=> k \in DOMAIN frames /\ Unended(frames[k])
      BY DEF Unended
    <2>. HIDE DEF On
    <2>2. isr = UNION {Upstream(frames[k].line) : k \in On}
      BY <2>1 DEF IInv, InService
    <2>3. \A j, k \in On : j # k => frames[j].line # frames[k].line
      <3>. SUFFICES ASSUME NEW j \in On, NEW k \in On, j < k, frames[j].line = frames[k].line
                    PROVE  FALSE
        BY <2>1 DEF IInv
      <3>. DEFINE n == frames[k].line
      <3>1. n \in Upstream(n) /\ n \in Nat
        <4>1. n \in Devices
          BY <2>1 DEF IInv, Sound, Unended
        <4>2. \A x \in Devices : x \in Upstream(x) /\ x \in Nat
          BY DeviceLines DEF Upstream
        <4>. QED  BY <4>1, <4>2, Zenon
      <3>2. n < n
        BY <2>1, <3>1 DEF IInv, Nested
      <3>. QED  BY <3>1, <3>2
    <2>. QED  BY <2>2, <2>3 DEF ServiceMatchesStack, On
  <1>. QED  BY <1>1, Invariance, PTL

\* For every vector the words the stub pushes make up for what the processor does
\* or does not push, so that iret finds its frame.
THEOREM IretFindsFrame == Spec => []StackBalanced
  <1>1. IInv => StackBalanced
    <2>. SUFFICES ASSUME IInv, frames # <<>>
                  PROVE  SubSeq(top.words, 1, Len(top.words) - 2) = <<"eflags", "cs", "eip">>
      BY DEF StackBalanced
    <2>1. Sound(top) /\ top.int_no \in Vectors
      <3>1. Len(frames) \in DOMAIN frames
        BY DEF IInv
      <3>. QED  BY <3>1, FrameFields, Zenon DEF IInv, top
    <2>2. (top.line < 16) \in BOOLEAN /\ ((top.line < 16) => top.int_no \in 32 .. 47)
      <3>1. (top.line < 16) \in BOOLEAN
        OBVIOUS
      <3>2. \A x \in Devices : 32 + x \in 32 .. 47
        BY DeviceLines
      <3>3. ~(16 < 16)
        OBVIOUS
      <3>. QED  BY <2>1, <3>1, <3>2, <3>3, Zenon DEF Sound
    <2>3. /\ Len(top.words) = 5
          /\ SubSeq(top.words, 1, 3) = <<"eflags", "cs", "eip">>
      BY <2>1, <2>2, WordsPushed DEF Sound
    <2>4. Len(top.words) - 2 = 3
      BY <2>3
    <2>. QED  BY <2>3, <2>4, Zenon
  <1>. QED  BY <1>1, Invariance, PTL

=============================================================================
