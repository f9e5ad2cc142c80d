--------------------------- MODULE LineDiscipline ---------------------------
(***************************************************************************)
(* What read(stdin) promises its caller, without buffers or interrupts:    *)
(* the characters typed since the call began, less the erased ones, up to  *)
(* Enter or to the length that was asked for.  Keys that are pressed while *)
(* nobody reads have no effect.                                            *)
(***************************************************************************)
EXTENDS Naturals, Sequences

CONSTANTS
    Chars,   \* what a key can add to a line
    Lens,    \* the lengths that a caller asks for
    None     \* no line has been returned

VARIABLES
    phase,   \* "idle", "typing", or "ended": the line is complete
    line,    \* the line so far
    want,    \* the length that was asked for
    result   \* the line that the last read returned

vars == <<phase, line, want, result>>

Init == phase = "idle" /\ line = <<>> /\ want = 0 /\ result = None

Read(n) ==
    /\ phase = "idle"
    /\ IF n = 0 THEN phase' = "idle" /\ result' = <<>> ELSE phase' = "typing" /\ result' = None
    /\ line' = <<>> /\ want' = n

Type(c) ==
    /\ phase = "typing"
    /\ line' = Append(line, c)
    /\ phase' = IF Len(line') = want THEN "ended" ELSE "typing"
    /\ UNCHANGED <<want, result>>

Erase ==
    /\ phase = "typing" /\ line # <<>>
    /\ line' = SubSeq(line, 1, Len(line) - 1)
    /\ UNCHANGED <<phase, want, result>>

Enter ==
    /\ phase = "typing"
    /\ phase' = "ended"
    /\ UNCHANGED <<line, want, result>>

Return ==
    /\ phase = "ended"
    /\ phase' = "idle" /\ result' = line
    /\ line' = <<>> /\ want' = 0

Next ==
    \/ \E n \in Lens : Read(n)
    \/ \E c \in Chars : Type(c)
    \/ Erase
    \/ Enter
    \/ Return

Spec == Init /\ [][Next]_vars
=============================================================================
