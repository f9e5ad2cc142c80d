--------------------------- MODULE ConsoleProofs ----------------------------
(***************************************************************************)
(* The cursor of Console stays on the screen, for every size of the        *)
(* screen and every interleaving of keys with a print.                     *)
(***************************************************************************)
EXTENDS Console, TLAPS

(***************************************************************************)
(* CursorOnScreen is not inductive: it says nothing of a register between  *)
(* its load and its use.  A register keeps what it read, and every value   *)
(* that the cursor has had was on the screen; the column that is going to  *)
(* be incremented was found not to be the last one.                        *)
(***************************************************************************)
RegistersOnScreen ==
    /\ pc \in {"row1", "store"} => column \in Columns
    /\ pc \in {"store", "down"} => row \in Rows
    /\ pc = "advance" => column \in Columns /\ ~LastColumn(column)

IInv ==
    /\ currentRow \in Rows /\ currentColumn \in Columns
    /\ RegistersOnScreen

\* The row below a row of the screen, or the top, is on the screen.
LEMMA NextRowOnScreen ==
    \A r \in Rows : NextRow(r) \in Rows
BY ConsoleAssumption DEF NextRow, LastRow, Rows

\* The left margin is on the screen, and a column that is not the last one has a
\* column to its right.
LEMMA ColumnsOnScreen ==
    /\ 0 \in Columns
    /\ \A k \in Columns : ~LastColumn(k) => k + 1 \in Columns
BY ConsoleAssumption DEF LastColumn, Columns

\* The interrupt handler's printChar() keeps the cursor on the screen.
LEMMA PrintCharOnScreen ==
    ASSUME NEW x, IInv, printChar(x)
    PROVE  currentRow' \in Rows /\ currentColumn' \in Columns
<1>1. currentRow' \in Rows
  BY NextRowOnScreen DEF IInv, printChar
<1>2. currentColumn' \in Columns
  <2>1. CASE EndsRow(x, currentColumn)
    BY <2>1, ColumnsOnScreen DEF printChar
  <2>2. CASE ~EndsRow(x, currentColumn)
    BY <2>2, ColumnsOnScreen DEF IInv, printChar, EndsRow
  <2> QED BY <2>1, <2>2
<1> QED BY <1>1, <1>2

\* Backspace keeps the cursor on the screen: it goes up a row only from the left
\* margin of a row that is not the first.
LEMMA BackspaceOnScreen ==
    ASSUME IInv, handle_video_mem_backspace
    PROVE  currentRow' \in Rows /\ currentColumn' \in Columns
BY ConsoleAssumption
   DEF IInv, handle_video_mem_backspace, RowAfterErase, Rows, Columns

\* The cursor starts in the upper left corner.
LEMMA IInvInit == Init => IInv
BY ConsoleAssumption DEF Init, IInv, RegistersOnScreen, Rows, Columns

\* Every step of the writer and of the interrupt keeps cursor and registers on the
\* screen.
LEMMA IInvNext == IInv /\ [Next]_vars => IInv'
<1> SUFFICES ASSUME IInv, [Next]_vars PROVE IInv'
  OBVIOUS
<1> USE DEF IInv, RegistersOnScreen, LastColumn
<1>1. ASSUME NEW x \in Chars, echo(x) PROVE IInv'
  BY <1>1, PrintCharOnScreen DEF echo, registers
<1>2. CASE handle_video_mem_backspace
  BY <1>2, BackspaceOnScreen DEF handle_video_mem_backspace, registers
<1>3. CASE reset_term_inp_buffer
  BY <1>3 DEF reset_term_inp_buffer, registers, cursor
<1>4. ASSUME NEW s \in Texts, terminal_write(s) PROVE IInv'
  BY <1>4 DEF terminal_write, Goto, registers, cursor
<1>5. CASE va_start
  BY <1>5 DEF va_start, Goto, registers, cursor
<1>6. CASE va_arg
  BY <1>6 DEF va_arg, registers, cursor
<1>7. CASE load_column
  BY <1>7 DEF load_column, Goto, cursor
<1>8. CASE load_row
  BY <1>8 DEF load_row, Goto, cursor
<1>9. CASE store_char
  BY <1>9 DEF store_char, Goto, registers, cursor
<1>10. CASE test_column
  BY <1>10 DEF test_column, cursor
<1>11. CASE advance
  BY <1>11, ColumnsOnScreen DEF advance, Goto, ColumnStored, registers
<1>12. CASE test_row
  BY <1>12 DEF test_row, Goto, cursor
<1>13. CASE down
  BY <1>13, NextRowOnScreen DEF down, Goto, registers
<1>14. CASE resetVideoMemory
  BY <1>14 DEF resetVideoMemory, Goto, registers, cursor
<1>15. CASE margin
  BY <1>15, ColumnsOnScreen DEF margin, Goto, registers
<1>16. CASE next_char
  BY <1>16 DEF next_char, Goto, registers, cursor
<1>17. CASE UNCHANGED vars
  BY <1>17 DEF vars
<1> QED
  BY <1>1, <1>2, <1>3, <1>4, <1>5, <1>6, <1>7, <1>8, <1>9, <1>10, <1>11, <1>12, <1>13,
     <1>14, <1>15, <1>16, <1>17 DEF Next

\* The cursor and the cell that kprintf() is about to write are on the screen,
\* however large it is and whenever keys come.
THEOREM CursorStaysOnScreen == Spec => []CursorOnScreen
<1>1. IInv => CursorOnScreen
  BY DEF IInv, RegistersOnScreen, CursorOnScreen
<1> QED
  BY <1>1, IInvInit, IInvNext, PTL DEF Spec
=============================================================================
