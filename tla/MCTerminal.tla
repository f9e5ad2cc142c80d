----------------------------- MODULE MCTerminal -----------------------------
(***************************************************************************)
(* Terminal and Keyboard in one run.  The driver hands strings to the      *)
(* terminal and shares no variable with it.  "part" says which of the two  *)
(* moves in a behaviour: the terminal, for any order of the strings in     *)
(* Inputs, or the driver, for any order of keys.  LineControl ties the     *)
(* strings that the driver makes to the way the terminal reads them.       *)
(***************************************************************************)
EXTENDS Terminal

CONSTANTS Pressed, MaxWire

VARIABLES part, specialChars, ctrs, sc, wire, held, presses

K == INSTANCE Keyboard

ASSUME DriverAssumption == K!KeyboardAssumption

\* Two letters, one of them also with Ctrl, Backspace and Enter.
Keys == {<<"a">>, <<"b">>, <<"^", "b">>, <<"^", "H">>, <<"\\", "r">>}

keyVars == <<specialChars, ctrs, sc, wire, held, presses>>
all == <<vars, part, keyVars>>

MCInit == Init /\ K!Init /\ part \in {"terminal", "keyboard"}

MCNext ==
    \/ part = "terminal" /\ Next /\ UNCHANGED <<part, keyVars>>
    \/ part = "keyboard" /\ K!Next /\ UNCHANGED <<part, vars>>

\* As in Terminal, a read that has begun goes on.
MCSpec ==
    /\ MCInit /\ [][MCNext]_all
    /\ WF_all(part = "terminal" /\ ReaderStep /\ UNCHANGED <<part, keyVars>>)

-----------------------------------------------------------------------------
\* When every scan code has been handled, the modifier bits agree with the keys
\* that are down, whatever was pressed in between.
ModifiersFollowKeys == part = "keyboard" => K!ModifiersFollowKeys

\* on_new_char_recvd() ends a line for the Enter key alone, and not with Ctrl; it
\* erases a character for Backspace and for Ctrl with a capital H.  No other key
\* makes a string that it takes for one of them, under any modifiers.
LineControl ==
    part = "keyboard" =>
        /\ IsEnter(ctrs) <=> sc = K!EnterKey /\ ~K!isCntrl
        /\ IsBackspace(ctrs) <=>
                sc = K!BackspaceKey \/ (sc = K!HKey /\ K!isCntrl /\ K!shouldCapitalizeLetters)
=============================================================================
