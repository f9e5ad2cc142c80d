------------------------------ MODULE Terminal ------------------------------
(***************************************************************************)
(* The input side of the terminal: sys/terminal.c.                         *)
(*                                                                         *)
(* terminal_read() runs in the kernel with interrupts enabled and polls    *)
(* index, which the keyboard interrupt moves.  Every access to the         *)
(* volatile index is a step of its own; the interrupt handler runs with    *)
(* interrupts disabled and is one step.                                    *)
(*                                                                         *)
(* term_buf and buf have cells outside the arrays that the program         *)
(* declares: they belong to somebody else and hold Outside until a store   *)
(* goes astray.                                                            *)
(***************************************************************************)
EXTENDS Integers, Sequences

CONSTANTS
    TERM_BUF_SIZE,
    MaxIndex,   \* bound on index, at least TERM_BUF_SIZE
    MaxAhead,   \* bound on index while nobody reads
    Lens,       \* the lengths that callers ask for
    Inputs,     \* the strings that the keyboard driver hands over
    Before,     \* what the byte in front of term_buf may hold
    Paced,      \* no key comes before the reader has looked at the last one
    NUL,
    Outside,    \* a cell of somebody else, as it was
    None

ASSUME TerminalAssumption ==
    /\ TERM_BUF_SIZE \in Nat \ {0}
    /\ MaxIndex \in Nat /\ MaxAhead \in Nat
    /\ MaxAhead <= MaxIndex /\ TERM_BUF_SIZE <= MaxIndex
    /\ Lens \subseteq 0 .. TERM_BUF_SIZE
    /\ Inputs \subseteq Seq(STRING) /\ <<>> \notin Inputs
    /\ Paced \in BOOLEAN

VARIABLES
    term_buf,    \* the typed characters
    index,       \* how many there are
    pc,          \* where the reader is
    last_index,  \* the reader's last look at index
    len,         \* the length that the reader asked for
    val,         \* the character between its load and its store
    buf,         \* the reader's buffer
    ret          \* what the read returned

vars == <<term_buf, index, pc, last_index, len, val, buf, ret>>
reader == <<last_index, len, val, buf, ret>>

Newline == "newline"

\* term_buf[i], for any i that the reader computes.
Fetch(i, c) == IF i \in DOMAIN term_buf THEN c = term_buf[i] ELSE c \in Before

\* A cell of the arrays, before anything was stored there.
Fresh(i, size) == IF i \in 0 .. size - 1 THEN NUL ELSE Outside

-----------------------------------------------------------------------------
(***************************************************************************)
(* Mutated forms, used to show that the properties notice such a slip.     *)
(***************************************************************************)
\* The poll loop stops one character late.
FullLate(i) == i = len + 1

\* The returned length counts the newline.
LengthWithNewline(i) == i

\* The poll loop does not look for the newline.
NewlineIgnored(c) == FALSE

-----------------------------------------------------------------------------
(***************************************************************************)
(* The keyboard interrupt.                                                 *)
(***************************************************************************)

\* Byte i of a string that ends with a NUL.
CharAt(ctrs, i) == IF i < Len(ctrs) THEN ctrs[i + 1] ELSE NUL

IsBackspace(ctrs) == CharAt(ctrs, 1) = "H" /\ CharAt(ctrs, 0) = "^"
IsEnter(ctrs)     == CharAt(ctrs, 1) = "r" /\ CharAt(ctrs, 0) = "\\"

\* The character that a key adds to term_buf.
Added(ctrs) == IF IsEnter(ctrs) THEN Newline ELSE CharAt(ctrs, 0)

IndexAfterErase == index - 1

\* When a key may come.
KeyMayCome ==
    /\ pc = "idle" => index < MaxAhead
    /\ Paced => pc = "idle" \/ (pc = "poll" /\ last_index = index)

LineEmpty == index = 0

\* Backspace clears the cell behind the erased character, and moves index.
Backspace ==
    IF LineEmpty
    THEN UNCHANGED <<term_buf, index>>
    ELSE /\ term_buf' = [term_buf EXCEPT ![index] = NUL]
         /\ index' = IndexAfterErase

on_new_char_recvd(ctrs) ==
    /\ KeyMayCome
    /\ \/ IsBackspace(ctrs) /\ Backspace
       \/ /\ ~IsBackspace(ctrs)
          /\ index < MaxIndex
          /\ term_buf' = [term_buf EXCEPT ![index] = Added(ctrs)]
          /\ index' = index + 1
    /\ UNCHANGED <<pc, reader>>

-----------------------------------------------------------------------------
(***************************************************************************)
(* terminal_read().                                                        *)
(***************************************************************************)
Goto(from, to) == pc = from /\ pc' = to

\* The call; the caller has cleared its buffer.  A read of length 0 returns 0.
terminal_read(n) ==
    /\ Goto("idle", IF n = 0 THEN "idle" ELSE "clear")
    /\ len' = n
    /\ ret' = IF n = 0 THEN 0 ELSE None
    /\ buf' = [i \in -1 .. MaxIndex |-> Fresh(i, n)]
    /\ UNCHANGED <<term_buf, index, last_index, val>>

\* reset_term_inp_buffer(): memset, then index = 0.  It runs at the start of a
\* read and at its end.
reset_clear ==
    /\ Goto("clear", "zero")
    /\ term_buf' = [i \in DOMAIN term_buf |-> IF i < TERM_BUF_SIZE THEN NUL ELSE term_buf[i]]
    /\ UNCHANGED <<index, reader>>

reset_index ==
    /\ Goto("zero", IF ret = None THEN "first" ELSE "idle")
    /\ index' = 0
    /\ UNCHANGED <<term_buf, reader>>

first_index ==
    /\ Goto("first", "poll")
    /\ last_index' = index
    /\ UNCHANGED <<term_buf, index, len, val, buf, ret>>

poll ==
    /\ Goto("poll", "latch")
    /\ last_index # index
    /\ UNCHANGED <<term_buf, index, reader>>

latch ==
    /\ Goto("latch", "test")
    /\ last_index' = index
    /\ UNCHANGED <<term_buf, index, len, val, buf, ret>>

EndsLine(c) == c = Newline

\* if (term_buf[index - 1] == '\n')
test ==
    /\ \E c \in Before \cup {term_buf[i] : i \in DOMAIN term_buf} :
         /\ Fetch(index - 1, c)
         /\ Goto("test", IF EndsLine(c) THEN "end" ELSE "load")
    /\ UNCHANGED <<term_buf, index, reader>>

\* The length of a line that ended when index was i.
LineLength(i) == i - 1

end ==
    /\ Goto("end", "clear")
    /\ ret' = LineLength(index)
    /\ UNCHANGED <<term_buf, index, last_index, len, val, buf>>

\* buf[index - 1] = term_buf[index - 1], a load and a store.
load ==
    /\ Goto("load", "store")
    /\ Fetch(index - 1, val')
    /\ UNCHANGED <<term_buf, index, last_index, len, buf, ret>>

store ==
    /\ Goto("store", "full")
    /\ buf' = [buf EXCEPT ![index - 1] = val]
    /\ val' = NUL
    /\ UNCHANGED <<term_buf, index, last_index, len, ret>>

IsFull(i) == i = len

full ==
    /\ Goto("full", IF IsFull(index) THEN "clear" ELSE "poll")
    /\ ret' = IF IsFull(index) THEN len ELSE ret
    /\ UNCHANGED <<term_buf, index, last_index, len, val, buf>>

-----------------------------------------------------------------------------
Init ==
    /\ term_buf = [i \in 0 .. MaxIndex |-> Fresh(i, TERM_BUF_SIZE)]
    /\ index = 0
    /\ pc = "idle"
    /\ last_index = 0
    /\ len = 0
    /\ val = NUL
    /\ buf = [i \in -1 .. MaxIndex |-> Outside]
    /\ ret = None

\* The steps of a read that has begun.
ReaderStep ==
    \/ reset_clear \/ reset_index \/ first_index
    \/ poll \/ latch \/ test \/ end \/ load \/ store \/ full

Next ==
    \/ \E ctrs \in Inputs : on_new_char_recvd(ctrs)
    \/ \E n \in Lens : terminal_read(n)
    \/ ReaderStep

\* The reader keeps running: nothing can take the processor from it.
Spec == Init /\ [][Next]_vars /\ WF_vars(ReaderStep)
-----------------------------------------------------------------------------
(***************************************************************************)
(* Properties.                                                             *)
(***************************************************************************)

\* The reader has not yet answered.
Reading == pc # "idle" /\ ret = None

\* The reader has reset the buffer and polls.
Polling == Reading /\ pc \notin {"clear", "zero", "first"}

\* Enter is the last key that was pressed, and the reader has not seen to it.
EnterPending == Polling /\ index > 0 /\ term_buf[index - 1] = Newline

\* The line in term_buf, without its newline.
Typed == [i \in 1 .. (IF EnterPending THEN index - 1 ELSE index) |-> term_buf[i - 1]]

\* terminal_read() implements the line discipline: with keys that come one at a
\* time it returns in buf what was typed and not erased, up to Enter or to the
\* length that was asked for, and nothing of what was typed before the call.
LD == INSTANCE LineDiscipline WITH
    Chars  <- {CharAt(ctrs, 0) : ctrs \in Inputs},
    phase  <- IF ~Reading THEN "idle"
              ELSE IF EnterPending \/ (Polling /\ index = len) THEN "ended" ELSE "typing",
    line   <- IF Polling THEN Typed ELSE <<>>,
    want   <- IF Reading THEN len ELSE 0,
    result <- IF ret = None THEN None ELSE [i \in 1 .. ret |-> buf[i - 1]]
LineDisciplineSpec == LD!Spec

\* With keys that come one at a time no store of the reader or of the interrupt
\* handler lies behind the end of its array: the exact test index == len stops
\* the read in time.
NoOverrun ==
    /\ \A i \in TERM_BUF_SIZE .. MaxIndex : term_buf[i] = Outside
    /\ \A i \in len .. MaxIndex : buf[i] = Outside

\* The reader that waits for the next key has missed no Enter.
NoLineMissed ==
    pc = "poll" /\ last_index = index => \A i \in 0 .. index - 1 : term_buf[i] # Newline

\* A key press that ends a line makes the read return.
EnterReturns == EnterPending ~> pc = "idle"
=============================================================================
