--------------------------- MODULE TerminalProofs ---------------------------
(***************************************************************************)
(* With keys that come one at a time, terminal_read() and the keyboard     *)
(* interrupt stay inside their buffers and the reader misses no Enter, for *)
(* every buffer size and every length that callers ask for.                *)
(***************************************************************************)
EXTENDS Terminal, TLAPS

(***************************************************************************)
(* NoOverrun and NoLineMissed speak of the cells and of the reader that    *)
(* waits.  The invariant follows one key through the reader: while it is   *)
(* looked at no other comes, so last_index and index agree, index has not  *)
(* passed len, and only the last character can be a newline.               *)
(***************************************************************************)
Looking == {"test", "end", "load", "store", "full"}
Waiting == pc = "poll" /\ last_index = index

\* What a cell may hold.
Cells == {NUL, Outside, Newline} \cup Before \cup {CharAt(ctrs, 0) : ctrs \in Inputs}

Shape ==
    /\ index \in 0 .. MaxIndex /\ len \in 0 .. TERM_BUF_SIZE
    /\ term_buf \in [0 .. MaxIndex -> Cells]
    /\ buf \in [-1 .. MaxIndex -> Cells]
    /\ val \in Cells
    /\ pc \in {"idle", "clear", "zero", "first", "poll", "latch"} \cup Looking

Progress ==
    /\ pc = "idle" => index <= MaxAhead
    /\ pc \in {"clear", "zero"} /\ ret = None => len > 0
    /\ pc = "first" => index = 0 /\ len > 0
    /\ pc \in {"poll", "latch"} \cup Looking => len > 0 /\ index <= len
    /\ pc \in Looking => last_index = index
    /\ Waiting => index < len

Clean(n) == \A i \in 0 .. n - 1 : term_buf[i] # Newline

Lines ==
    /\ pc \in {"poll", "latch", "test"} => Clean(index - 1)
    /\ Waiting \/ pc \in {"load", "store", "full"} => Clean(index)

IInv == Shape /\ Progress /\ NoOverrun /\ Lines

\* Keys come one at a time, and while nobody reads no more of them than fit.
OneAtATime == Paced /\ MaxAhead <= TERM_BUF_SIZE

-----------------------------------------------------------------------------
\* What a key adds to term_buf is a character.
LEMMA CellsFacts ==
    /\ NUL \in Cells /\ Outside \in Cells
    /\ \A ctrs \in Inputs : Added(ctrs) \in Cells
BY DEF Cells, Added

\* What is read from term_buf is a character.
LEMMA FetchFacts ==
    ASSUME Shape, NEW i, NEW c, Fetch(i, c)
    PROVE  c \in Cells
BY DEF Shape, Fetch, Cells

\* memset() leaves zeros inside the buffer and nothing outside.
LEMMA FreshFacts ==
    \A i, n : Fresh(i, n) \in Cells /\ (n \in Int /\ i \in Int /\ i >= n => Fresh(i, n) = Outside)
BY CellsFacts DEF Fresh

\* Nobody reads at the start and the buffer is empty.
LEMMA IInvInit == Init => IInv
<1> SUFFICES ASSUME Init PROVE IInv
  OBVIOUS
<1> USE TerminalAssumption DEF Init
<1>1. Shape
  BY CellsFacts, FreshFacts DEF Shape
<1>2. NoOverrun
  <2>1. \A i \in TERM_BUF_SIZE .. MaxIndex : i \in 0 .. MaxIndex /\ i >= TERM_BUF_SIZE /\ i \in Int
    OBVIOUS
  <2>2. \A i \in TERM_BUF_SIZE .. MaxIndex : term_buf[i] = Outside
    BY <2>1, FreshFacts
  <2>3. \A i \in len .. MaxIndex : buf[i] = Outside
    OBVIOUS
  <2> QED BY <2>2, <2>3 DEF NoOverrun
<1>3. Progress /\ Lines
  BY DEF Progress, Lines, Waiting, Looking
<1> QED BY <1>1, <1>2, <1>3 DEF IInv

\* A cell of term_buf below its end is overwritten.
LEMMA PutChar ==
    ASSUME Shape, NoOverrun, NEW c \in Cells, index < TERM_BUF_SIZE,
           term_buf' = [term_buf EXCEPT ![index] = c], UNCHANGED <<buf, len>>
    PROVE  /\ term_buf' \in [0 .. MaxIndex -> Cells]
           /\ NoOverrun'
           /\ \A i \in 0 .. index - 1 : term_buf'[i] = term_buf[i]
<1> USE TerminalAssumption DEF Shape
<1>1. term_buf' \in [0 .. MaxIndex -> Cells]
  OBVIOUS
<1>2. \A i \in 0 .. MaxIndex : i # index => term_buf'[i] = term_buf[i]
  OBVIOUS
<1>3. \A i \in TERM_BUF_SIZE .. MaxIndex : i \in 0 .. MaxIndex /\ i # index
  OBVIOUS
<1>4. NoOverrun'
  BY <1>2, <1>3 DEF NoOverrun
<1> QED BY <1>1, <1>2, <1>4

\* A key that comes is stored inside term_buf, and it is the only character that
\* the reader has not looked at.
LEMMA IInvKey ==
    ASSUME OneAtATime, IInv, NEW ctrs \in Inputs, on_new_char_recvd(ctrs)
    PROVE  IInv'
<1> USE TerminalAssumption
<1>1. UNCHANGED <<pc, last_index, len, val, buf, ret>>
  BY DEF on_new_char_recvd, reader
<1>2. (pc = "idle" /\ index < MaxAhead) \/ Waiting
  BY DEF on_new_char_recvd, KeyMayCome, OneAtATime, Waiting
<1>3. index < TERM_BUF_SIZE
  BY <1>2 DEF IInv, Shape, Progress, OneAtATime
<1>4. CASE UNCHANGED <<term_buf, index>>
  BY <1>1, <1>4 DEF IInv, Shape, Progress, NoOverrun, Lines, Clean, Waiting
<1>5. ASSUME NEW c \in Cells, term_buf' = [term_buf EXCEPT ![index] = c],
             index' \in {index - 1, index + 1}, index' \in 0 .. MaxIndex
      PROVE  IInv'
  <2>1. /\ term_buf' \in [0 .. MaxIndex -> Cells]
        /\ NoOverrun'
        /\ \A i \in 0 .. index - 1 : term_buf'[i] = term_buf[i]
    BY <1>1, <1>3, <1>5, PutChar DEF IInv
  <2>2. Shape'
    BY <1>1, <1>5, <2>1 DEF IInv, Shape
  <2>3. Progress'
    BY <1>1, <1>2, <1>5 DEF IInv, Shape, Progress, Waiting, Looking
  <2>4. Lines'
    <3>1. pc = "idle" => Lines'
      BY <1>1 DEF Lines, Waiting
    <3>2. ASSUME Waiting PROVE \A i \in 0 .. (index' - 1) - 1 : term_buf'[i] # Newline
      <4>1. \A i \in 0 .. (index' - 1) - 1 : i \in 0 .. index - 1
        <5>1. index \in Int /\ (index' = index - 1 \/ index' = index + 1)
          BY <1>5 DEF IInv, Shape
        <5> QED BY <5>1
      <4>2. \A i \in 0 .. index - 1 : term_buf[i] # Newline
        BY <3>2 DEF IInv, Lines, Clean
      <4> QED BY <2>1, <4>1, <4>2
    <3>3. Waiting => ~Waiting' /\ pc' = "poll"
      BY <1>1, <1>5 DEF IInv, Shape, Waiting
    <3>4. Waiting => Lines'
      BY <3>2, <3>3 DEF Lines, Clean
    <3> QED BY <1>2, <3>1, <3>4
  <2> QED BY <2>1, <2>2, <2>3, <2>4 DEF IInv
<1>6. CASE IsBackspace(ctrs) /\ Backspace
  <2>1. CASE index = 0
    BY <1>4, <1>6, <2>1 DEF Backspace, LineEmpty
  <2>2. CASE index # 0
    BY <1>5, <1>6, <2>2, CellsFacts DEF Backspace, LineEmpty, IndexAfterErase, IInv, Shape
  <2> QED BY <2>1, <2>2
<1>7. CASE /\ index < MaxIndex
           /\ term_buf' = [term_buf EXCEPT ![index] = Added(ctrs)]
           /\ index' = index + 1
  <2>1. index' \in 0 .. MaxIndex /\ index' \in {index - 1, index + 1}
    BY <1>7 DEF IInv, Shape
  <2>2. Added(ctrs) \in Cells
    BY CellsFacts
  <2> QED BY <1>5, <1>7, <2>1, <2>2
<1> QED BY <1>6, <1>7 DEF on_new_char_recvd

\* The call gives the reader a buffer of the length that it asks for.
LEMMA IInvRead ==
    ASSUME IInv, NEW n \in Lens, terminal_read(n)
    PROVE  IInv'
<1> USE TerminalAssumption
<1>1. pc = "idle" /\ pc' = (IF n = 0 THEN "idle" ELSE "clear") /\ len' = n
  BY DEF terminal_read, Goto
<1>2. buf' = [i \in -1 .. MaxIndex |-> Fresh(i, n)] /\ UNCHANGED <<term_buf, index, val>>
  BY DEF terminal_read
<1>3. n \in 0 .. TERM_BUF_SIZE
  OBVIOUS
<1>4. Shape'
  BY <1>1, <1>2, <1>3, FreshFacts DEF IInv, Shape
<1>5. NoOverrun'
  <2>1. \A i \in n .. MaxIndex : buf'[i] = Outside
    BY <1>2, <1>3, FreshFacts
  <2> QED BY <1>1, <1>2, <2>1 DEF IInv, NoOverrun
<1>6. Progress' /\ Lines'
  BY <1>1, <1>2, <1>3 DEF IInv, Progress, Lines, Waiting, Looking
<1> QED BY <1>4, <1>5, <1>6 DEF IInv

\* The reset touches no cell behind the end of term_buf.
LEMMA IInvClear == IInv /\ reset_clear => IInv'
<1> SUFFICES ASSUME IInv, reset_clear PROVE IInv'
  OBVIOUS
<1> USE TerminalAssumption
<1>1. pc = "clear" /\ pc' = "zero" /\ UNCHANGED <<index, last_index, len, val, buf, ret>>
  BY DEF reset_clear, Goto, reader
<1>2. term_buf' = [i \in 0 .. MaxIndex |-> IF i < TERM_BUF_SIZE THEN NUL ELSE term_buf[i]]
  BY DEF reset_clear, IInv, Shape
<1>3. Shape'
  BY <1>1, <1>2, CellsFacts DEF IInv, Shape
<1>4. NoOverrun'
  BY <1>1, <1>2 DEF IInv, NoOverrun
<1>5. Progress' /\ Lines'
  BY <1>1 DEF IInv, Progress, Lines, Waiting, Looking
<1> QED BY <1>3, <1>4, <1>5 DEF IInv

\* A character that is copied lands inside the caller's buffer, or in front of it.
LEMMA IInvStore == IInv /\ store => IInv'
<1> SUFFICES ASSUME IInv, store PROVE IInv'
  OBVIOUS
<1> USE TerminalAssumption
<1>1. /\ pc = "store" /\ pc' = "full"
      /\ buf' = [buf EXCEPT ![index - 1] = val] /\ val' = NUL
      /\ UNCHANGED <<term_buf, index, last_index, len, ret>>
  BY DEF store, Goto
<1>2. index <= len
  BY <1>1 DEF IInv, Progress, Looking
<1>3. Shape'
  BY <1>1, CellsFacts DEF IInv, Shape, Looking
<1>4. \A i \in len .. MaxIndex : buf'[i] = buf[i]
  BY <1>1, <1>2 DEF IInv, Shape
<1>5. NoOverrun'
  BY <1>1, <1>4 DEF IInv, NoOverrun
<1> QED
  BY <1>1, <1>3, <1>5 DEF IInv, Progress, Lines, Clean, Waiting, Looking

\* The reader goes on only when the last character is no newline.
LEMMA IInvTest == IInv /\ test => IInv'
<1> SUFFICES ASSUME IInv, test PROVE IInv'
  OBVIOUS
<1> USE TerminalAssumption DEF IInv, Shape, Looking
<1>1. PICK c : Fetch(index - 1, c) /\ Goto("test", IF EndsLine(c) THEN "end" ELSE "load")
  BY DEF test
<1>2. UNCHANGED <<term_buf, index, last_index, len, val, buf, ret>>
  BY DEF test, reader
<1>3. pc = "test" /\ pc' \in {"end", "load"}
  BY <1>1 DEF Goto
<1>4. pc' = "load" => Clean(index)
  <2> SUFFICES ASSUME pc' = "load", NEW i \in 0 .. index - 1 PROVE term_buf[i] # Newline
    BY DEF Clean
  <2>1. c # Newline
    BY <1>1 DEF Goto, EndsLine
  <2>2. CASE i = index - 1
    BY <1>1, <2>1, <2>2 DEF Fetch
  <2>3. CASE i # index - 1
    BY <1>3, <2>3 DEF Lines, Clean
  <2> QED BY <2>2, <2>3
<1> QED
  BY <1>2, <1>3, <1>4 DEF Progress, NoOverrun, Lines, Clean, Waiting

\* Every step of the reader and every key keeps the invariant.
LEMMA IInvNext == OneAtATime => (IInv /\ [Next]_vars => IInv')
<1> SUFFICES ASSUME OneAtATime, IInv, [Next]_vars PROVE IInv'
  OBVIOUS
<1> USE TerminalAssumption
<1>1. ASSUME NEW ctrs \in Inputs, on_new_char_recvd(ctrs) PROVE IInv'
  BY <1>1, IInvKey
<1>2. ASSUME NEW n \in Lens, terminal_read(n) PROVE IInv'
  BY <1>2, IInvRead
<1>3. CASE reset_clear
  BY <1>3, IInvClear
<1>4. CASE test
  BY <1>4, IInvTest
<1>5. CASE store
  BY <1>5, IInvStore
<1> USE DEF IInv, Shape, Progress, NoOverrun, Lines, Clean, Waiting, Looking
<1>6. CASE reset_index
  BY <1>6 DEF reset_index, Goto, reader
<1>7. CASE first_index
  BY <1>7 DEF first_index, Goto
<1>8. CASE poll
  BY <1>8 DEF poll, Goto, reader
<1>9. CASE latch
  BY <1>9 DEF latch, Goto
<1>10. CASE end
  BY <1>10 DEF end, Goto
<1>11. CASE load
  <2>1. val' \in Cells
    BY <1>11, FetchFacts DEF load
  <2> QED BY <1>11, <2>1 DEF load, Goto
<1>12. CASE full
  BY <1>12 DEF full, Goto, IsFull
<1>13. CASE UNCHANGED vars
  BY <1>13 DEF vars
<1> QED
  BY <1>1, <1>2, <1>3, <1>4, <1>5, <1>6, <1>7, <1>8, <1>9, <1>10, <1>11, <1>12, <1>13
  DEF Next, ReaderStep

-----------------------------------------------------------------------------
\* With keys that come one at a time neither terminal_read() nor the interrupt
\* handler stores behind the end of its buffer, however large the buffers are.
THEOREM BuffersNotOverrun == OneAtATime => (Spec => []NoOverrun)
<1> SUFFICES ASSUME OneAtATime PROVE Spec => []NoOverrun
  OBVIOUS
<1>1. IInv /\ [Next]_vars => IInv'
  BY IInvNext
<1>2. IInv => NoOverrun
  BY DEF IInv
<1> QED
  BY <1>1, <1>2, IInvInit, PTL DEF Spec

\* With keys that come one at a time the reader that waits has missed no Enter.
THEOREM EnterNotMissed == OneAtATime => (Spec => []NoLineMissed)
<1> SUFFICES ASSUME OneAtATime PROVE Spec => []NoLineMissed
  OBVIOUS
<1>1. IInv /\ [Next]_vars => IInv'
  BY IInvNext
<1>2. IInv => NoLineMissed
  BY DEF IInv, Lines, Clean, Waiting, NoLineMissed
<1> QED
  BY <1>1, <1>2, IInvInit, PTL DEF Spec
=============================================================================
