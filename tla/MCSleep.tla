------------------------------ MODULE MCSleep -------------------------------
(***************************************************************************)
(* Sleep and Strings in one run.  bin/sleep makes numbers of its arguments *)
(* with atoi(), and the two share no variable.  A behaviour is either one  *)
(* of the timer and bin/sleep, where fn is "none", or one call of a        *)
(* function of Strings.                                                    *)
(***************************************************************************)
EXTENDS Sleep

CONSTANTS IntHalf, HexDigits, Alphabet, MaxLen

VARIABLES fn, arg, ret

S == INSTANCE Strings

ASSUME ConversionsAssumption == S!StringsAssumption

\* One or two arguments, invalid ones among them.
ArgumentLists == {<<a>> : a \in 0 .. Word - 1} \cup ((0 .. 2) \X {1, Word - 1, Word - 2})

callVars == <<fn, arg, ret>>
all == <<vars, callVars>>

NoCall == fn = "none" /\ arg = 0 /\ ret = <<>>

MCInit == Init /\ (NoCall \/ S!Init)

MCNext ==
    \/ fn = "none" /\ Next /\ UNCHANGED callVars
    \/ fn # "none" /\ S!Next /\ UNCHANGED vars

\* As in Sleep, the timer never stops and the program runs.
MCSpec ==
    /\ MCInit /\ [][MCNext]_all
    /\ WF_all(fn = "none" /\ pit_intr_handler /\ UNCHANGED callVars)
    /\ WF_all(fn = "none" /\ (main_done \/ sleep \/ poll) /\ UNCHANGED callVars)

-----------------------------------------------------------------------------
\* atoi(), itoa(), o_to_d(), printHex() and strcmp() agree with what they are to
\* compute.
ConversionsCorrect == S!ConversionsCorrect
=============================================================================
