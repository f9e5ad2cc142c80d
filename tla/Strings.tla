------------------------------- MODULE Strings ------------------------------
(***************************************************************************)
(* The conversions and comparisons of sys/string.c, which libc/string.c    *)
(* and libc/printf.c repeat: pure functions, checked against definitions   *)
(* that say what they are to compute.                                      *)
(*                                                                         *)
(* A string is the sequence of its character codes, without the NUL.       *)
(* A recursive function stands for a loop: its value at k is the variable  *)
(* after k rounds.                                                         *)
(***************************************************************************)
EXTENDS Integers, Sequences

CONSTANTS
    IntHalf,     \* an int lies in -IntHalf .. IntHalf - 1
    HexDigits,   \* digits of the longest number that printHex() prints
    Alphabet,    \* the characters that strings are made of
    MaxLen       \* the longest string

\* What the values of the constants are to satisfy.
StringsAssumption ==
    /\ IntHalf \in Nat \ {0} /\ HexDigits \in Nat \ {0} /\ MaxLen \in Nat
    /\ Alphabet \subseteq 1 .. 127

VARIABLES
    fn,       \* the function that is called
    arg,      \* its arguments
    ret       \* what it has returned: nothing, or one value

vars == <<fn, arg, ret>>

Minus == 45
Plus  == 43
Zero  == 48
IsDigit(c) == c \in Zero .. Zero + 9

Int32(n)  == ((n + IntHalf) % (2 * IntHalf)) - IntHalf
Ints      == -IntHalf .. IntHalf - 1
Strings   == UNION {[1 .. n -> Alphabet] : n \in 0 .. MaxLen}
HexRange  == 0 .. 16 ^ HexDigits - 1

-----------------------------------------------------------------------------
(***************************************************************************)
(* Mutated forms, used to show that the properties notice such a slip.     *)
(***************************************************************************)
\* The sign is a character of the number.
SignNotSkipped(str) == 1

-----------------------------------------------------------------------------
(***************************************************************************)
(* atoi().                                                                 *)
(***************************************************************************)
Signed(str) == str # <<>> /\ str[1] \in {Minus, Plus}
Sign(str)   == IF str # <<>> /\ str[1] = Minus THEN -1 ELSE 1

\* Where the digits begin.
First(str) == IF Signed(str) THEN 2 ELSE 1

\* bad is -1 in the C library and 0 in the kernel.
atoi(str, bad) ==
    LET ans[i \in First(str) - 1 .. Len(str)] ==
            IF i < First(str) THEN 0 ELSE Int32(ans[i - 1] * 10 + str[i] - Zero)
    IN  IF \A i \in First(str) .. Len(str) : IsDigit(str[i])
        THEN Int32(ans[Len(str)] * Sign(str))
        ELSE bad

(***************************************************************************)
(* itoa(), printLong() and printHex(): the digits of a number from the     *)
(* right, as long as something is left of it.                              *)
(***************************************************************************)
Abs(val) == IF val >= 0 THEN val ELSE -val

\* The digits, least significant first; 0 has one digit.
DigitsOf(n, base) ==
    LET left[k \in 0 .. n + 1] == IF k = 0 THEN n ELSE left[k - 1] \div base
        count == CHOOSE k \in 1 .. n + 1 : left[k] = 0 /\ \A j \in 1 .. k - 1 : left[j] # 0
    IN  [k \in 1 .. count |-> left[k - 1] % base]

Reversed(s) == [k \in DOMAIN s |-> s[Len(s) + 1 - k]]

Text(digits) == [k \in DOMAIN digits |-> Zero + digits[k]]

itoa(val) ==
    LET text == Text(Reversed(DigitsOf(Abs(val), 10)))
    IN  IF val < 0 THEN <<Minus>> \o text ELSE text

HexBuffer == HexDigits + 3

\* The digits of x, and the lowest index of buf that is stored to.
printHex(x, include_prefix) ==
    LET digits == Reversed(DigitsOf(x, 16))
        i == HexBuffer - 1 - Len(digits)
    IN  [digits |-> digits, low |-> IF include_prefix THEN i - 2 ELSE i]

(***************************************************************************)
(* o_to_d(), and pow() for its places.                                     *)
(***************************************************************************)
Place(i) == 8 ^ i

o_to_d(n) ==
    LET digits == DigitsOf(n, 10)
        ans[i \in 0 .. Len(digits)] ==
            IF i = 0 THEN 0 ELSE Int32(ans[i - 1] + digits[i] * Place(i - 1))
    IN  IF n > 0 THEN ans[Len(digits)] ELSE 0

(***************************************************************************)
(* strcmp() and kstrcmp().                                                 *)
(***************************************************************************)
CharAt(s, i) == IF i \in DOMAIN s THEN s[i] ELSE 0

\* The loop stops at character i.
Stops(s1, s2, i) == i > Len(s1) \/ i > Len(s2) \/ s1[i] # s2[i]

strcmp(s1, s2) ==
    LET i == CHOOSE k \in 1 .. Len(s1) + 1 :
                 Stops(s1, s2, k) /\ \A j \in 1 .. k - 1 : ~Stops(s1, s2, j)
    IN  CharAt(s1, i) - CharAt(s2, i)

-----------------------------------------------------------------------------
Init ==
    /\ \/ fn \in {"atoi", "o_to_d"} /\ arg \in Strings
       \/ fn = "itoa" /\ arg \in Ints
       \/ fn = "printHex" /\ arg \in HexRange
       \/ fn = "strcmp" /\ arg \in Strings \X Strings
    /\ ret = <<>>

Call(name, result) ==
    /\ fn = name /\ ret = <<>>
    /\ ret' = <<result>>
    /\ UNCHANGED <<fn, arg>>

Next ==
    \/ Call("atoi", atoi(arg, -1))
    \/ Call("o_to_d", o_to_d(atoi(arg, 0)))    \* the size in a tar header
    \/ Call("itoa", itoa(arg))
    \/ Call("printHex", printHex(arg, TRUE))
    \/ Call("strcmp", strcmp(arg[1], arg[2]))

Spec == Init /\ [][Next]_vars

-----------------------------------------------------------------------------
(***************************************************************************)
(* Properties.                                                             *)
(***************************************************************************)
Returned(name) == fn = name /\ ret # <<>>
Result == Head(ret)

\* The number that digits, most significant first, stand for in a base.
Number(digits, base) ==
    LET sum[k \in 0 .. Len(digits)] ==
            IF k = 0 THEN 0 ELSE sum[k - 1] + digits[k] * base ^ (Len(digits) - k)
    IN  sum[Len(digits)]

DigitsIn(str, base) == \A i \in DOMAIN str : str[i] \in Zero .. Zero + base - 1
ValueIn(str, base)  == Number([i \in DOMAIN str |-> str[i] - Zero], base)
Negative(str)       == str # <<>> /\ Head(str) = Minus
Unsigned(str)       == IF Negative(str) \/ (str # <<>> /\ Head(str) = Plus) THEN Tail(str) ELSE str

\* atoi() returns the number that an optional sign and decimal digits stand for,
\* when an int can hold it, and -1 for every other string; the empty string and
\* a sign alone count as 0.
AtoiReads ==
    Returned("atoi") =>
        LET digits == Unsigned(arg)
            value  == (IF Negative(arg) THEN -1 ELSE 1) * ValueIn(digits, 10)
        IN  /\ ~DigitsIn(digits, 10) => Result = -1
            /\ DigitsIn(digits, 10) /\ value \in Ints => Result = value

\* atoi() reads what itoa() writes, for every int, the least one included.
ItoaRoundTrip == Returned("itoa") => atoi(Result, IntHalf) = arg

\* The size that o_to_d(atoi()) finds in a tar header is the octal number there,
\* as long as its digits read as a decimal number fit an int.
SizeDecoded ==
    Returned("o_to_d") /\ arg # <<>> /\ DigitsIn(arg, 8) /\ ValueIn(arg, 10) \in Ints
        => Result = ValueIn(arg, 8)

\* printHex() prints the digits of its argument, without a leading zero, and the
\* longest number with its prefix just fits the buffer.
HexInBuffer ==
    Returned("printHex") =>
        /\ Number(Result.digits, 16) = arg
        /\ Result.digits[1] # 0 \/ Result.digits = <<0>>
        /\ Result.low >= 0

\* s1 is before s2 in the dictionary.
Before(s1, s2) ==
    \E k \in 1 .. Len(s2) :
        /\ k <= Len(s1) + 1
        /\ \A j \in 1 .. k - 1 : s1[j] = s2[j]
        /\ k = Len(s1) + 1 \/ s1[k] < s2[k]

\* strcmp() and kstrcmp() return 0 for equal strings alone, and their sign is the
\* order of the dictionary.
StrcmpOrders ==
    Returned("strcmp") =>
        /\ Result = 0 <=> arg[1] = arg[2]
        /\ Result < 0 <=> Before(arg[1], arg[2])

\* Every conversion and comparison returns what it is to compute, for all
\* strings and numbers within the bounds.
ConversionsCorrect ==
    AtoiReads /\ ItoaRoundTrip /\ SizeDecoded /\ HexInBuffer /\ StrcmpOrders
=============================================================================
