-------------------------------- MODULE Util --------------------------------
(***************************************************************************)
(* The util bee (bees/util/util.c): the conversions of numbers to text,    *)
(* pow, memcpy and memset, over every argument.  The widths of the three   *)
(* kinds of integers are parameters, so that small ones can be gone        *)
(* through completely; text is a sequence of character codes.              *)
(***************************************************************************)
EXTENDS Integers, Sequences, FiniteSetsExt, SequencesExt

CONSTANTS
    Bits,     \* "I8", "U8", ... -> the width of the type
    Exponents,\* second arguments of pow
    ADDRESSES \* a bound on the memory that memcpy and memset work on

\* The powers of two.
TwoTo[n \in Nat] == IF n = 0 THEN 1 ELSE 2 * TwoTo[n - 1]

WORD  == TwoTo[Bits["U32"]]   \* an int of the processor
Types == DOMAIN Bits

ASSUME UtilAssumption ==
    /\ Types = {"I8", "U8", "I16", "U16", "I32", "U32"}
    /\ \A t \in Types : Bits[t] \in Nat \ {0} /\ Bits[t] % 4 = 0 /\ Bits[t] <= Bits["U32"]
    /\ Bits["I32"] = Bits["U32"]
    /\ Exponents \subseteq Int /\ ADDRESSES \in Nat

VARIABLES
    call,   \* the command and its arguments, none between calls
    text,   \* what num_to_str, num_to_hex or num_to_bin has put in its buffer
    number, \* *num1 of pow
    memory  \* the bytes before and after memcpy or memset

vars == <<call, text, number, memory>>

Signed(t) == t \in {"I8", "I16", "I32"}

\* Conversions: a word to a number of type t, and a number to the unsigned word.
Cast(t, n) ==
    LET m == n % TwoTo[Bits[t]]
    IN IF Signed(t) /\ 2 * m >= TwoTo[Bits[t]] THEN m - TwoTo[Bits[t]] ELSE m
Word(n) == n % WORD

-----------------------------------------------------------------------------
(* Numbers to text.                                                         *)

\* '0' to '9', 'A' to 'F', and '-'.
Char(d) == IF d < 10 THEN 48 + d ELSE 55 + d
Minus == 45

\* The digits of n > 0 to a base in temp_buffer, the last one first.
Digits(base) ==
    LET d[n \in Nat] == IF n = 0 THEN <<>> ELSE <<Char(n % base)>> \o d[n \div base]
    IN d

\* temp_buffer is filled up with '0'.
Padded(s, n) == s \o [k \in 1 .. (n - Len(s)) |-> Char(0)]

num_to_str_unsigned(n) ==
    IF n = 0 THEN <<Char(0)>> ELSE Reverse(Digits(10)[n])

\* num is an int, min is unsigned, and size masks the width of the type: of a
\* negative number that is narrower than an int it leaves a positive one.  A
\* mutant leaves out the case of the least number, whose negation is itself.
num_to_str_signed_plain(t, n) ==
    LET num == Cast("I32", Word(n) % TwoTo[Bits[t]])
        abs == IF num < 0 THEN Cast("I32", 0 - num) ELSE num
    IN IF num = 0 THEN <<Char(0)>>
       ELSE (IF num < 0 THEN <<Minus>> ELSE <<>>)
            \o (IF abs > 0 THEN Reverse(Digits(10)[abs]) ELSE <<>>)

num_to_str_signed(t, n) ==
    LET num   == Cast("I32", Word(n) % TwoTo[Bits[t]])
        max   == TwoTo[Bits[t] - 1] - 1
        least == Word(num) = Word(0 - TwoTo[Bits[t] - 1])
        abs   == IF least THEN max ELSE IF num < 0 THEN 0 - num ELSE num
        txt   == (IF least \/ num < 0 THEN <<Minus>> ELSE <<>>) \o Reverse(Digits(10)[abs])
    IN IF num = 0 THEN <<Char(0)>>
       ELSE [txt EXCEPT ![Len(txt)] = @ + (IF least THEN 1 ELSE 0)]

num_to_str(t, n) ==
    IF Signed(t) THEN num_to_str_signed(t, Cast(t, n)) ELSE num_to_str_unsigned(Cast(t, n))

\* The signed types are cut to their width as well.
Masked(t, n) == n % TwoTo[Bits[t]]

\* A mutant that does not fill up.
num_to_hex_short(t, n) ==
    IF Masked(t, n) = 0 THEN <<Char(0)>> ELSE Reverse(Digits(16)[Masked(t, n)])
num_to_hex(t, n) ==
    IF Masked(t, n) = 0 THEN <<Char(0)>>
    ELSE Reverse(Padded(Digits(16)[Masked(t, n)], Bits[t] \div 4))

num_to_bin(t, n) == Reverse(Padded(Digits(2)[Masked(t, n)], Bits[t]))

-----------------------------------------------------------------------------
(* pow, memcpy and memset.                                                  *)

\* The loop that doubles a number.  It has become 0 after as many times as it
\* has bits.
Doubled(t, n, times) ==
    LET d[k \in Nat] == IF k = 0 THEN n ELSE Cast(t, 2 * d[k - 1])
    IN IF times < 0 THEN n ELSE d[Min({times, Bits[t]})]

\* *num1 is set to 0 if num2 is negative and then doubled num2 - 1 times, which
\* is computed without a sign for U32.  A mutant counts to num2.
pow_once_more(t, n, e) ==
    LET num2 == Cast(t, e)
    IN Doubled(t, IF num2 < 0 THEN 0 ELSE Cast(t, n), IF t = "U32" THEN Word(num2) ELSE num2)
pow(t, n, e) ==
    LET num2 == Cast(t, e)
    IN Doubled(t, IF num2 < 0 THEN 0 ELSE Cast(t, n), IF t = "U32" THEN Word(num2 - 1) ELSE num2 - 1)

Address == 0 .. (ADDRESSES - 1)

\* Byte after byte, from the first to the last; a mutant from the last.
memcpy_backwards(m, dst, src, n) ==
    LET c[k \in 0 .. n] == IF k = 0 THEN m ELSE [c[k - 1] EXCEPT ![dst + n - k] = c[k - 1][src + n - k]]
    IN c[n]
memcpy(m, dst, src, n) ==
    LET c[k \in 0 .. n] == IF k = 0 THEN m ELSE [c[k - 1] EXCEPT ![dst + k - 1] = c[k - 1][src + k - 1]]
    IN c[n]

memset(m, ptr, value, n) == [a \in Address |-> IF a \in ptr .. (ptr + n - 1) THEN value ELSE m[a]]

-----------------------------------------------------------------------------

None == [cmd |-> "none"]

\* Memory whose bytes can be told apart.
Fresh == [a \in Address |-> a]

Init ==
    /\ call = None
    /\ text = <<>>
    /\ number = 0
    /\ memory = Fresh

Convert(cmd, t, n) ==
    /\ call' = [cmd |-> cmd, type |-> t, num |-> n]
    /\ text' = CASE cmd = "str" -> num_to_str(t, n)
                 [] cmd = "hex" -> num_to_hex(t, n)
                 [] cmd = "bin" -> num_to_bin(t, n)
    /\ UNCHANGED <<number, memory>>

Pow(t, n, e) ==
    /\ call' = [cmd |-> "pow", type |-> t, num |-> n, exponent |-> e]
    /\ number' = pow(t, n, e)
    /\ UNCHANGED <<text, memory>>

Copy(dst, src, n) ==
    /\ call' = [cmd |-> "memcpy", dst |-> dst, src |-> src, size |-> n]
    /\ memory' = memcpy(memory, dst, src, n)
    /\ UNCHANGED <<text, number>>

Set(ptr, value, n) ==
    /\ call' = [cmd |-> "memset", dst |-> ptr, value |-> value, size |-> n]
    /\ memory' = memset(memory, ptr, value, n)
    /\ UNCHANGED <<text, number>>

\* The command has returned and the caller has used the result.
Used ==
    /\ call # None
    /\ call' = None /\ text' = <<>> /\ number' = 0 /\ memory' = Fresh

\* The numbers a caller can pass: every word.
Call ==
    \/ \E t \in Types, n \in 0 .. (WORD - 1) :
          \/ \E cmd \in {"str", "hex", "bin"} : Convert(cmd, t, n)
          \/ \E e \in Exponents : Pow(t, n, e)
    \/ \E a, b \in Address : \E n \in 0 .. (ADDRESSES - Max({a, b})) : Copy(a, b, n)
    \/ \E a \in Address : \E n \in 0 .. (ADDRESSES - a) : Set(a, ADDRESSES, n)

Next == (call = None /\ Call) \/ Used

Spec == Init /\ [][Next]_vars

-----------------------------------------------------------------------------
(* Properties.                                                              *)

\* The number that a text stands for, read to a base.
Digit(c) == IF c < 58 THEN c - 48 ELSE c - 55
Read(base, s) ==
    LET r[k \in 0 .. Len(s)] == IF k = 0 THEN 0 ELSE (r[k - 1] * base) + Digit(s[k])
    IN r[Len(s)]
ReadSigned(s) == IF s # <<>> /\ s[1] = Minus THEN 0 - Read(10, Tail(s)) ELSE Read(10, s)

Plain(base, s) == s # <<>> /\ \A k \in DOMAIN s : s[k] \in {Char(d) : d \in 0 .. (base - 1)}

\* The decimal text of a number reads back as the number and begins with no
\* needless zero.
Decimal(t) ==
    call.cmd = "str" /\ call.type = t =>
        /\ Plain(10, IF text[1] = Minus THEN Tail(text) ELSE text)
        /\ ReadSigned(text) = Cast(t, call.num)
        /\ text[1] = Char(0) => Len(text) = 1

\* For the types as wide as a word and for the unsigned ones: also for the
\* least number and for all other limits of the types.
DecimalReadsBack == \A t \in {"U8", "U16", "U32", "I32"} : Decimal(t)

\* The same for the narrow signed types.
NarrowReadsBack == \A t \in {"I8", "I16"} : Decimal(t)

\* Hexadecimal and binary text reads back as the bits of the number and has a
\* digit for every four bits or for every one; the one exception is 0.
BitsReadBack ==
    /\ call.cmd = "hex" =>
          /\ Plain(16, text) /\ Read(16, text) = Masked(call.type, call.num)
          /\ Len(text) = Bits[call.type] \div 4 \/ Masked(call.type, call.num) = 0
    /\ call.cmd = "bin" =>
          /\ Plain(2, text) /\ Read(2, text) = Masked(call.type, call.num)
          /\ Len(text) = Bits[call.type]

\* pow gives the powers of two, cut to the width of the type: doubling the base
\* once less than the exponent is right for that base.
PowersOfTwo ==
    call.cmd = "pow" /\ call.num = 2 /\ Cast(call.type, call.exponent) > 0 =>
        number = Cast(call.type, TwoTo[Min({Cast(call.type, call.exponent), Bits[call.type]})])

\* memcpy moves the bytes as they were unless the destination begins inside the
\* source, and changes no others; memset sets its bytes and changes no others.
MemoryRight ==
    /\ call.cmd = "memcpy" /\ call.dst \notin (call.src + 1) .. (call.src + call.size - 1) =>
          \A a \in Address :
              memory[a] = IF a \in call.dst .. (call.dst + call.size - 1)
                          THEN a - call.dst + call.src ELSE a
    /\ call.cmd = "memset" =>
          \A a \in Address :
              memory[a] = IF a >= call.dst /\ a < call.dst + call.size
                          THEN call.value ELSE a
=============================================================================
