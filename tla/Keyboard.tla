------------------------------ MODULE Keyboard ------------------------------
(***************************************************************************)
(* The keyboard driver: sys/keyboard.c.                                    *)
(*                                                                         *)
(* A key that goes down or up puts scan codes on the wire; every code      *)
(* raises an interrupt, whose handler tracks the modifier keys in          *)
(* specialChars and hands the string of any other key to the terminal.     *)
(*                                                                         *)
(* specialChars is the set of the bits that are on.                        *)
(***************************************************************************)
EXTENDS Naturals, Sequences, FiniteSets

CONSTANTS
    Pressed,   \* the scan codes of the ordinary keys that are used
    MaxWire    \* bound on the codes that wait for their interrupt

\* What the values of the constants are to satisfy.
KeyboardAssumption == Pressed \subseteq 1 .. 127 /\ MaxWire \in Nat

VARIABLES
    specialChars,  \* the modifier bits
    ctrs,          \* the string handed to printInputChar() by the last interrupt
    sc,            \* the scan code of the last interrupt
    wire,          \* codes on their way
    held,          \* history: the modifier keys that are down
    presses        \* history: parity of the presses of each lock key

vars == <<specialChars, ctrs, sc, wire, held, presses>>

CAPS    == "CAPS"
LSHIFT  == "LSHIFT"
RSHIFT  == "RSHIFT"
LCNTRL  == "LCNTRL"
RCNTRL  == "RCNTRL"
NUMLOCK == "NUMLOCK"
special_key == {CAPS, LSHIFT, RSHIFT, LCNTRL, RCNTRL, NUMLOCK}

isKey(k)       == k \in specialChars
isShiftEnabled == isKey(LSHIFT) \/ isKey(RSHIFT)
isCntrl        == isKey(RCNTRL) \/ isKey(LCNTRL)

-----------------------------------------------------------------------------
(***************************************************************************)
(* Mutated forms, used to show that the properties notice such a slip.     *)
(***************************************************************************)
\* The break code of the right shift key is not handled.
BitsKept(k) == specialChars

\* Tab is written like Enter.
TabAsEnter == <<"\\", "r">>

-----------------------------------------------------------------------------
(***************************************************************************)
(* The key table.                                                          *)
(***************************************************************************)

\* A row of keys with consecutive scan codes.
Row(first, plain, shifted) ==
    [s \in first .. first + Len(plain) - 1 |->
        [plain |-> plain[s - first + 1], shifted |-> shifted[s - first + 1]]]

DigitRow == Row(2, <<"1", "2", "3", "4", "5", "6", "7", "8", "9", "0", "-", "=">>,
                   <<"!", "@", "#", "$", "%", "^", "&", "*", "(", ")", "_", "+">>)
TopLetters == Row(16, <<"q", "w", "e", "r", "t", "y", "u", "i", "o", "p">>,
                      <<"Q", "W", "E", "R", "T", "Y", "U", "I", "O", "P">>)
Brackets == Row(26, <<"[", "]">>, <<"{", "}">>)
HomeLetters == Row(30, <<"a", "s", "d", "f", "g", "h", "j", "k", "l">>,
                       <<"A", "S", "D", "F", "G", "H", "J", "K", "L">>)
Quotes == Row(39, <<";", "\"", "backquote">>, <<":", "'", "~">>)
Backslash == Row(43, <<"\\">>, <<"|">>)
BottomLetters == Row(44, <<"z", "x", "c", "v", "b", "n", "m">>,
                         <<"Z", "X", "C", "V", "B", "N", "M">>)
Stops == Row(51, <<",", ".", "/">>, <<"<", ">", "?">>)

\* The keypad, which is silent without Num Lock.
KeypadStar == [s \in {55} |-> "*"]
Keypad == [s \in 71 .. 83 |->
    <<"7", "8", "9", "-", "4", "5", "6", "+", "1", "2", "3", "0", ".">>[s - 70]]

\* F1 to F10, F11 and F12.
FunctionKeys == [s \in 59 .. 68 |->
    IF s = 68 THEN <<"F", "1", "0">>
    ELSE <<"F", <<"1", "2", "3", "4", "5", "6", "7", "8", "9">>[s - 58]>>]
LateFunctionKeys == [s \in 87 .. 88 |-> <<"F", "1", IF s = 87 THEN "1" ELSE "2">>]

BackspaceKey == 14
TabKey       == 15
EnterKey     == 28
HKey         == 35
SpaceKey     == 57

BackspaceString == <<"^", "H">>
TabString       == <<"\\", "t">>
EnterString     == <<"\\", "r">>

\* isKey(CAPS) ^ isShiftEnabled() is an exclusive or of different bits: it is 0
\* only when both are.
shouldCapitalizeLetters == isKey(CAPS) \/ isShiftEnabled

\* The entry of key s in one of the rows: letters look at Caps Lock as well.
Letter(row, s) == <<IF shouldCapitalizeLetters THEN row[s].shifted ELSE row[s].plain>>
Symbol(row, s) == <<IF isShiftEnabled THEN row[s].shifted ELSE row[s].plain>>
OnKeypad(row, s) == IF isKey(NUMLOCK) THEN <<row[s]>> ELSE <<>>

\* What the switch in handleNormalScanCodes() makes of code s: a string, or
\* nothing.
KeyString(s) ==
    CASE s \in DOMAIN DigitRow         -> Symbol(DigitRow, s)
      [] s = BackspaceKey              -> BackspaceString
      [] s = TabKey                    -> TabString
      [] s \in DOMAIN TopLetters       -> Letter(TopLetters, s)
      [] s \in DOMAIN Brackets         -> Symbol(Brackets, s)
      [] s = EnterKey                  -> EnterString
      [] s \in DOMAIN HomeLetters      -> Letter(HomeLetters, s)
      [] s \in DOMAIN Quotes           -> Symbol(Quotes, s)
      [] s \in DOMAIN Backslash        -> Symbol(Backslash, s)
      [] s \in DOMAIN BottomLetters    -> Letter(BottomLetters, s)
      [] s \in DOMAIN Stops            -> Symbol(Stops, s)
      [] s \in DOMAIN KeypadStar       -> OnKeypad(KeypadStar, s)
      [] s = SpaceKey                  -> <<" ">>
      [] s \in DOMAIN FunctionKeys     -> FunctionKeys[s]
      [] s \in DOMAIN Keypad           -> OnKeypad(Keypad, s)
      [] s \in DOMAIN LateFunctionKeys -> LateFunctionKeys[s]
      [] OTHER                         -> <<>>

\* Ctrl puts a ^ in front of a string that has none.
handleNormalScanCodes(s) ==
    LET str == KeyString(s)
    IN  IF str # <<>> /\ isCntrl /\ Head(str) # "^" THEN <<"^">> \o str ELSE str

-----------------------------------------------------------------------------
(***************************************************************************)
(* The interrupt handler.                                                  *)
(***************************************************************************)
Without(k) == specialChars \ {k}
Toggled(k) == IF isKey(k) THEN specialChars \ {k} ELSE specialChars \cup {k}

\* The bits that the special codes set or clear: printAscii().
Bits(s) ==
    CASE s = 42  -> specialChars \cup {LSHIFT}
      [] s = 170 -> Without(LSHIFT)
      [] s = 54  -> specialChars \cup {RSHIFT}
      [] s = 182 -> Without(RSHIFT)
      [] s = 29  -> specialChars \cup {LCNTRL, RCNTRL}
      [] s = 157 -> specialChars \ {LCNTRL, RCNTRL}
      [] s = 58  -> Toggled(CAPS)
      [] s = 69  -> Toggled(NUMLOCK)
      [] OTHER   -> specialChars

SpecialCodes == {42, 170, 54, 182, 29, 157, 58, 69}

keyboard_intr_handler ==
    /\ wire # <<>>
    /\ sc' = Head(wire)
    /\ wire' = Tail(wire)
    /\ specialChars' = Bits(sc')
    /\ ctrs' = IF sc' \in SpecialCodes THEN <<>> ELSE handleNormalScanCodes(sc')
    /\ UNCHANGED <<held, presses>>

-----------------------------------------------------------------------------
(***************************************************************************)
(* The keyboard itself: scan code set 1.  The right Ctrl key sends the     *)
(* code of the left one behind a prefix; a break code is the make code     *)
(* with the top bit set.                                                   *)
(***************************************************************************)
Prefix == 224
MakeCodes(k) ==
    CASE k = LSHIFT  -> <<42>>
      [] k = RSHIFT  -> <<54>>
      [] k = LCNTRL  -> <<29>>
      [] k = RCNTRL  -> <<Prefix, 29>>
      [] k = CAPS    -> <<58>>
      [] k = NUMLOCK -> <<69>>
BreakCodes(k) == [i \in DOMAIN MakeCodes(k) |->
    IF MakeCodes(k)[i] = Prefix THEN Prefix ELSE MakeCodes(k)[i] + 128]

Send(codes) == Len(wire \o codes) <= MaxWire /\ wire' = wire \o codes

Down(k) ==
    /\ k \notin held
    /\ Send(MakeCodes(k))
    /\ held' = held \cup {k}
    /\ presses' = IF k \in {CAPS, NUMLOCK} THEN [presses EXCEPT ![k] = 1 - @] ELSE presses
    /\ UNCHANGED <<specialChars, ctrs, sc>>

Up(k) ==
    /\ k \in held
    /\ Send(BreakCodes(k))
    /\ held' = held \ {k}
    /\ UNCHANGED <<specialChars, ctrs, sc, presses>>

\* An ordinary key goes down and up.
Stroke(s) ==
    /\ Send(<<s, s + 128>>)
    /\ UNCHANGED <<specialChars, ctrs, sc, held, presses>>

-----------------------------------------------------------------------------
Init ==
    /\ specialChars = {}
    /\ ctrs = <<>>
    /\ sc = 0
    /\ wire = <<>>
    /\ held = {}
    /\ presses = [k \in {CAPS, NUMLOCK} |-> 0]

Next ==
    \/ keyboard_intr_handler
    \/ \E k \in special_key : Down(k) \/ Up(k)
    \/ \E s \in Pressed : Stroke(s)

Spec == Init /\ [][Next]_vars
-----------------------------------------------------------------------------
(***************************************************************************)
(* Properties.                                                             *)
(***************************************************************************)

\* When every code has been handled, a shift bit is on exactly while its key is
\* down, some Ctrl bit is on only while a Ctrl key is down, and a lock bit is on
\* after an odd number of presses, whatever was pressed in between.
ModifiersFollowKeys ==
    wire = <<>> =>
        /\ \A k \in {LSHIFT, RSHIFT} : isKey(k) <=> k \in held
        /\ isCntrl => held \cap {LCNTRL, RCNTRL} # {}
        /\ \A k \in {CAPS, NUMLOCK} : isKey(k) <=> presses[k] = 1
=============================================================================
