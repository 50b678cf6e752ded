--------------------------- MODULE KeyboardProofs ---------------------------
(***************************************************************************)
(* Proofs about Keyboard for a ring of any size, any keys and any number   *)
(* of bytes that wait at the controller.                                   *)
(***************************************************************************)
EXTENDS Keyboard, SequenceTheorems, TLAPS

\* While get_key is between its cli and its sti no interrupt comes, and an event
\* it has copied is still in the ring.
Closed == /\ pc \in {"compare", "advance"} => ~IFlag
          /\ pc = "advance" => head # tail

\* The inductive invariant.
IInv == /\ TypeOK
        /\ port \in Seq(Byte)
        /\ Closed

-----------------------------------------------------------------------------
(* Remainders.                                                              *)

\* The remainder of a number that is less than two sizes.
LEMMA Remainder ==
    ASSUME NEW n \in 0 .. (2 * SIZE - 1)
    PROVE  n % SIZE = IF n < SIZE THEN n ELSE n - SIZE
  <1>1. SIZE \in Nat \ {0, 1}
    BY KeyboardAssumption
  <1>2. CASE n < SIZE
    BY <1>1, <1>2
  <1>3. CASE n >= SIZE
    BY <1>1, <1>3
  <1>. QED  BY <1>1, <1>2, <1>3

\* An index moves to the next one.
LEMMA StepInIndex ==
    ASSUME NEW i \in Index
    PROVE  /\ Step(i) \in Index
           /\ Step(i) = IF i = SIZE - 1 THEN 0 ELSE i + 1
  <1>1. SIZE \in Nat \ {0, 1}
    BY KeyboardAssumption
  <1>2. i + 1 \in 0 .. (2 * SIZE - 1)
    BY <1>1 DEF Index
  <1>. QED  BY <1>1, <1>2, Remainder DEF Step, Index

\* How many events there are between two indices.
Between(h, t) == IF t <= h THEN h - t ELSE h + SIZE - t

\* Between is the remainder in Pending, less than a whole ring.
LEMMA Distance ==
    ASSUME NEW h \in Index, NEW t \in Index
    PROVE  /\ (h + SIZE - t) % SIZE = Between(h, t)
           /\ Between(h, t) \in 0 .. (SIZE - 1)
           /\ Between(h, t) = 0 <=> h = t
  <1>1. SIZE \in Nat \ {0, 1}
    BY KeyboardAssumption
  <1>2. h + SIZE - t \in 0 .. (2 * SIZE - 1)
    BY <1>1 DEF Index
  <1>. QED  BY <1>1, <1>2, Remainder DEF Between, Index

\* Where the event number i of those between two indices lies.
Place(t, i) == IF t + i - 1 < SIZE THEN t + i - 1 ELSE t + i - 1 - SIZE

\* Place is the remainder in Pending, a place of the ring.
LEMMA Places ==
    ASSUME NEW t \in Index, NEW i \in 1 .. SIZE
    PROVE  /\ (t + i - 1) % SIZE = Place(t, i)
           /\ Place(t, i) \in Index
  <1>1. SIZE \in Nat \ {0, 1}
    BY KeyboardAssumption
  <1>2. t + i - 1 \in 0 .. (2 * SIZE - 1)
    BY <1>1 DEF Index
  <1>. QED  BY <1>1, <1>2, Remainder DEF Place, Index

\* Pending without remainders.
Ring(b, h, t) == [i \in 1 .. Between(h, t) |-> b[Place(t, i)]]

\* Ring says the same as Pending does with remainders.
LEMMA RingIs ==
    ASSUME NEW b \in [Index -> Event \cup {Junk}], NEW h \in Index, NEW t \in Index
    PROVE  /\ [i \in 1 .. ((h + SIZE - t) % SIZE) |-> b[(t + i - 1) % SIZE]] = Ring(b, h, t)
           /\ Ring(b, h, t) \in Seq(Event \cup {Junk})
           /\ Len(Ring(b, h, t)) = Between(h, t)
  <1>1. SIZE \in Nat \ {0, 1}
    BY KeyboardAssumption
  <1>2. /\ (h + SIZE - t) % SIZE = Between(h, t)
        /\ Between(h, t) \in 0 .. (SIZE - 1)
    BY Distance
  <1>3. \A i \in 1 .. Between(h, t) :
            (t + i - 1) % SIZE = Place(t, i) /\ Place(t, i) \in Index
    BY <1>1, <1>2, Places
  <1>4. [i \in 1 .. ((h + SIZE - t) % SIZE) |-> b[(t + i - 1) % SIZE]] = Ring(b, h, t)
    BY <1>2, <1>3 DEF Ring
  <1>5. \A i \in 1 .. Between(h, t) : b[Place(t, i)] \in Event \cup {Junk}
    BY <1>3
  <1>. QED  BY <1>2, <1>4, <1>5 DEF Ring

\* The same of the ring as it is.
LEMMA PendingIs ==
    ASSUME IInv
    PROVE  /\ Pending = Ring(buffer, head, tail)
           /\ Pending \in Seq(Event \cup {Junk})
           /\ Len(Pending) = Between(head, tail)
           /\ Between(head, tail) \in 0 .. (SIZE - 1)
           /\ Between(head, tail) = 0 <=> head = tail
  <1>1. head \in Index /\ tail \in Index /\ buffer \in [Index -> Event \cup {Junk}]
    BY DEF IInv, TypeOK
  <1>2. Pending = Ring(buffer, head, tail)
    BY <1>1, RingIs DEF Pending
  <1>3. /\ Ring(buffer, head, tail) \in Seq(Event \cup {Junk})
        /\ Len(Ring(buffer, head, tail)) = Between(head, tail)
    BY <1>1, RingIs
  <1>. QED  BY <1>1, <1>2, <1>3, Distance

-----------------------------------------------------------------------------
(* The invariant.                                                           *)

\* The handler ends with a byte the controller held, and leaves fewer.
LEMMA TwoReads ==
    ASSUME NEW p \in Seq(Byte), p # <<>>
    PROVE  /\ Second(p) \in Byte
           /\ Rest(p) \in Seq(Byte)
           /\ Len(Rest(p)) <= Len(p)
  <1>1. Len(p) \in Nat \ {0} /\ \A i \in 1 .. Len(p) : p[i] \in Byte
    OBVIOUS
  <1>2. Second(p) \in Byte
    BY <1>1 DEF Second
  <1>3. Rest(p) \in Seq(Byte)
    BY <1>1 DEF Rest
  <1>4. Len(Rest(p)) <= Len(p)
    BY <1>1 DEF Rest
  <1>. QED  BY <1>2, <1>3, <1>4

\* What a byte makes of shift, and the event it becomes.
LEMMA EventOfByte ==
    ASSUME NEW b \in Byte, shift \in BOOLEAN
    PROVE  Shift(b) \in BOOLEAN /\ KeyEvent(b) \in Event
  <1>1. b.code \in Codes /\ b.released \in BOOLEAN
    BY KeyboardAssumption DEF Byte
  <1>. QED  BY <1>1 DEF Shift, KeyEvent, Event

\* It holds at the start.
LEMMA Initially == Init => IInv
  <1>1. 0 \in Index
    BY KeyboardAssumption DEF Index
  <1>2. <<>> \in Seq(Byte) /\ Len(<<>>) <= PortMax
    BY KeyboardAssumption
  <1>. QED  BY <1>1, <1>2 DEF Init, IInv, TypeOK, Closed

\* Every step keeps it.
LEMMA Inductive == IInv /\ [Next]_vars => IInv'
  <1>. SUFFICES ASSUME IInv, [Next]_vars PROVE IInv'
    OBVIOUS
  <1>. USE DEF IInv, TypeOK, Closed
  <1>1. ASSUME NEW b \in Byte, KeyStroke(b) PROVE IInv'
    <2>1. port' \in Seq(Byte) /\ Len(port') <= PortMax
      BY <1>1, KeyboardAssumption DEF KeyStroke
    <2>. QED  BY <1>1, <2>1 DEF KeyStroke, store
  <1>2. CASE interrupt_handler
    <2>1. Second(port) \in Byte /\ Rest(port) \in Seq(Byte) /\ Len(Rest(port)) <= PortMax
      BY <1>2, TwoReads, KeyboardAssumption DEF interrupt_handler
    <2>2. Shift(Second(port)) \in BOOLEAN /\ KeyEvent(Second(port)) \in Event
      BY <2>1, EventOfByte
    <2>3. Step(head) \in Index
      BY StepInIndex
    <2>. QED  BY <1>2, <2>1, <2>2, <2>3 DEF interrupt_handler
  <1>3. CASE get_key
    BY <1>3 DEF get_key, store
  <1>4. CASE is_there_data
    BY <1>4 DEF is_there_data, store
  <1>5. CASE get_key_none
    BY <1>5 DEF get_key_none, store
  <1>6. CASE get_key_read
    BY <1>6 DEF get_key_read, store
  <1>7. CASE get_key_advance
    BY <1>7, StepInIndex DEF get_key_advance
  <1>8. CASE is_there_data_answer
    <2>1. 0 \in Index
      BY KeyboardAssumption DEF Index
    <2>. QED  BY <1>8, <2>1 DEF is_there_data_answer, store, Differ
  <1>9. CASE UNCHANGED vars
    BY <1>9 DEF vars, store
  <1>. QED
    BY <1>1, <1>2, <1>3, <1>4, <1>5, <1>6, <1>7, <1>8, <1>9 DEF Next, Command

\* So it always holds.
LEMMA Invariance == Spec => []IInv
  BY Initially, Inductive, PTL DEF Spec

\* The indices stay in the ring, what lies there is an event or has never been
\* written, and no more bytes wait than the controller holds.
THEOREM TypeCorrect == Spec => []TypeOK
  <1>1. IInv => TypeOK
    BY DEF IInv
  <1>. QED  BY <1>1, Invariance, PTL

-----------------------------------------------------------------------------
(* The refinement of KeyQueue.                                              *)

\* An interrupt adds its event to the queue, or empties a full one.
LEMMA InterruptPresses ==
    ASSUME IInv, interrupt_handler, IInv'
    PROVE  Queue!Press(KeyEvent(Second(port)))
  <1>. DEFINE e == KeyEvent(Second(port))
              n == Between(head, tail)
  <1>1. SIZE \in Nat \ {0, 1} /\ head \in Index /\ tail \in Index
    BY KeyboardAssumption DEF IInv, TypeOK
  <1>2. /\ pc # "advance" /\ pc' # "advance"
        /\ UNCHANGED <<tail, pc, seen, out, said>>
        /\ buffer' = [buffer EXCEPT ![head] = e]
        /\ head' = IF head = SIZE - 1 THEN 0 ELSE head + 1
    BY <1>1, StepInIndex DEF IInv, Closed, interrupt_handler
  <1>3. /\ Pending = Ring(buffer, head, tail)
        /\ Pending \in Seq(Event \cup {Junk})
        /\ Len(Pending) = n /\ n \in 0 .. (SIZE - 1)
    BY PendingIs
  <1>4. head' \in Index /\ tail' = tail /\ buffer' \in [Index -> Event \cup {Junk}]
    BY <1>2 DEF IInv, TypeOK
  <1>5. Pending' = Ring(buffer', head', tail)
    BY <1>1, <1>4, RingIs DEF Pending
  <1>6. CASE n = SIZE - 1
    <2>1. Between(head', tail) = 0
      BY <1>1, <1>2, <1>6 DEF Between, Index
    <2>2. Pending' = <<>>
      BY <1>5, <2>1 DEF Ring
    <2>. QED  BY <1>2, <1>3, <1>6, <2>2 DEF Queue!Press
  <1>7. CASE n # SIZE - 1
    <2>1. Between(head', tail) = n + 1
      BY <1>1, <1>2, <1>7 DEF Between, Index
    <2>2. \A i \in 1 .. n : Place(tail, i) \in Index /\ Place(tail, i) # head
      BY <1>1, <1>3 DEF Place, Between, Index
    <2>3. Place(tail, n + 1) = head
      BY <1>1, <1>3 DEF Place, Between, Index
    <2>4. Pending' = Append(Pending, e)
      <3>1. e \in Event
        BY TwoReads, EventOfByte DEF interrupt_handler, IInv, TypeOK
      <3>2. /\ Append(Pending, e) \in Seq(Event \cup {Junk})
            /\ Len(Append(Pending, e)) = n + 1
            /\ \A i \in 1 .. n : Append(Pending, e)[i] = Pending[i]
            /\ Append(Pending, e)[n + 1] = e
        BY <1>3, <3>1, AppendProperties
      <3>3. /\ Pending' \in Seq(Event \cup {Junk})
            /\ Len(Pending') = n + 1
            /\ \A i \in 1 .. (n + 1) : Pending'[i] = buffer'[Place(tail, i)]
        BY <1>1, <1>4, <1>5, <2>1, RingIs DEF Ring
      <3>4. \A i \in 1 .. n : buffer'[Place(tail, i)] = Pending[i]
        BY <1>2, <1>3, <2>2 DEF IInv, TypeOK, Ring
      <3>5. buffer'[Place(tail, n + 1)] = e
        BY <1>1, <1>2, <2>3 DEF IInv, TypeOK
      <3>6. \A i \in 1 .. (n + 1) : Pending'[i] = Append(Pending, e)[i]
        BY <1>3, <3>2, <3>3, <3>4, <3>5
      <3>. QED  BY <3>2, <3>3, <3>6, SeqEqual
    <2>. QED  BY <1>2, <1>3, <1>7, <2>4 DEF Queue!Press
  <1>. QED  BY <1>6, <1>7

\* get_key takes the oldest event when it copies it.
LEMMA ReadTakes ==
    ASSUME IInv, get_key_read
    PROVE  Queue!Take
  <1>. DEFINE n == Between(head, tail)
  <1>1. SIZE \in Nat \ {0, 1} /\ head \in Index /\ tail \in Index
    BY KeyboardAssumption DEF IInv, TypeOK
  <1>2. /\ pc = "compare" /\ pc' = "advance" /\ head # tail /\ out' = buffer[tail]
        /\ UNCHANGED <<buffer, head, tail, seen, said>>
    BY DEF get_key_read, store
  <1>3. /\ Pending = Ring(buffer, head, tail)
        /\ Pending \in Seq(Event \cup {Junk})
        /\ Len(Pending) = n /\ n \in 1 .. (SIZE - 1)
    BY <1>2, PendingIs
  <1>4. Pending' = Pending
    BY <1>2 DEF Pending
  <1>5. Pending # <<>> /\ Head(Pending) = buffer[tail]
    BY <1>1, <1>3 DEF Ring, Place, Index
  <1>6. SubSeq(Pending, 2, Len(Pending)) = Tail(Pending)
    BY <1>3
  <1>. QED  BY <1>2, <1>4, <1>5, <1>6 DEF Queue!Take

\* Moving tail takes the event that has been copied out of the ring, which the
\* queue has lost before.
LEMMA AdvanceKeeps ==
    ASSUME IInv, get_key_advance
    PROVE  UNCHANGED Queue!vars
  <1>. DEFINE n == Between(head, tail)
  <1>1. SIZE \in Nat \ {0, 1} /\ head \in Index /\ tail \in Index
    BY KeyboardAssumption DEF IInv, TypeOK
  <1>2. /\ pc = "advance" /\ pc' = "idle" /\ head # tail
        /\ tail' = IF tail = SIZE - 1 THEN 0 ELSE tail + 1
        /\ UNCHANGED <<buffer, head, seen, out, said>>
    BY <1>1, StepInIndex DEF get_key_advance, IInv, Closed
  <1>3. /\ Pending = Ring(buffer, head, tail)
        /\ Pending \in Seq(Event \cup {Junk})
        /\ Len(Pending) = n /\ n \in 1 .. (SIZE - 1)
    BY <1>2, PendingIs
  <1>4. tail' \in Index /\ buffer \in [Index -> Event \cup {Junk}]
    BY <1>1, <1>2 DEF Index, IInv, TypeOK
  <1>5. Pending' = Ring(buffer, head, tail')
    <2>1. Pending' = [i \in 1 .. ((head + SIZE - tail') % SIZE) |->
                         buffer[(tail' + i - 1) % SIZE]]
      BY <1>2 DEF Pending
    <2>. QED  BY <1>1, <1>4, <2>1, RingIs
  <1>6. Between(head, tail') = n - 1
    BY <1>1, <1>2 DEF Between, Index
  <1>7. \A i \in 1 .. (n - 1) : Place(tail', i) = Place(tail, i + 1)
    BY <1>1, <1>2, <1>3 DEF Place, Between, Index
  <1>8. SubSeq(Pending, 2, Len(Pending)) = [i \in 1 .. (n - 1) |-> Pending[i + 1]]
    BY <1>3
  <1>9. \A i \in 1 .. (n - 1) : Pending[i + 1] = buffer[Place(tail, i + 1)]
    BY <1>3 DEF Ring
  <1>10. Pending' = SubSeq(Pending, 2, Len(Pending))
    BY <1>5, <1>6, <1>7, <1>8, <1>9 DEF Ring
  <1>. QED  BY <1>2, <1>10 DEF Queue!vars

\* The ring is empty when its two indices are the same.
LEMMA EmptyRing ==
    ASSUME IInv
    PROVE  Pending = <<>> <=> head = tail
  BY PendingIs DEF Ring

\* Every step of the keyboard is a step of the queue or leaves it unchanged.
LEMMA StepRefines ==
    ASSUME IInv, IInv', [Next]_vars
    PROVE  [Queue!Next]_(Queue!vars)
  <1>1. ASSUME NEW b \in Byte, KeyStroke(b) PROVE UNCHANGED Queue!vars
    BY <1>1 DEF KeyStroke, store, Pending, Differ, Queue!vars
  <1>2. CASE interrupt_handler
    <2>1. KeyEvent(Second(port)) \in Event
      BY <1>2, TwoReads, EventOfByte DEF interrupt_handler, IInv, TypeOK
    <2>. QED  BY <1>2, <2>1, InterruptPresses DEF Queue!Next
  <1>3. CASE get_key
    BY <1>3 DEF get_key, store, Pending, Differ, Queue!vars
  <1>4. CASE is_there_data
    <2>1. Pending' = Pending
      BY <1>4 DEF is_there_data, store, Pending
    <2>. QED  BY <1>4, <2>1, EmptyRing DEF is_there_data, store, Differ, Queue!Ask, Queue!Next
  <1>5. CASE get_key_none
    <2>1. Pending' = Pending
      BY <1>5 DEF get_key_none, store, Pending
    <2>. QED
      BY <1>5, <2>1, EmptyRing DEF get_key_none, store, Differ, Queue!TakeNone, Queue!Next
  <1>6. CASE get_key_read
    BY <1>6, ReadTakes DEF Queue!Next
  <1>7. CASE get_key_advance
    BY <1>7, AdvanceKeeps
  <1>8. CASE is_there_data_answer
    BY <1>8 DEF is_there_data_answer, store, Pending, Differ, Queue!vars
  <1>9. CASE UNCHANGED vars
    BY <1>9 DEF vars, store, Pending, Differ, Queue!vars
  <1>. QED
    BY <1>1, <1>2, <1>3, <1>4, <1>5, <1>6, <1>7, <1>8, <1>9 DEF Next, Command

\* The ring the interrupt writes and the commands read is a queue, however long
\* it is and between whichever two accesses an interrupt comes: no event is
\* handed out twice or out of order.
THEOREM KeyboardImplementsQueue == Spec => ImplementsQueue
  <1>1. Init => Queue!Init
    <2>1. 0 \in Index
      BY KeyboardAssumption DEF Index
    <2>2. Init => Pending = <<>>
      BY <2>1, EmptyRing, Initially DEF Init
    <2>. QED  BY <2>2 DEF Init, Queue!Init
  <1>2. IInv /\ IInv' /\ [Next]_vars => [Queue!Next]_(Queue!vars)
    BY StepRefines
  <1>. QED  BY <1>1, <1>2, Invariance, PTL DEF Spec, ImplementsQueue, Queue!Spec

=============================================================================
