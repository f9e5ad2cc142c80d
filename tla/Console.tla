------------------------------ MODULE Console -------------------------------
(***************************************************************************)
(* The text screen: sys/kprintf.c, and terminal_write() of sys/terminal.c. *)
(*                                                                         *)
(* A system call prints with interrupts enabled, and the keyboard          *)
(* interrupt echoes through the same kprintf(): both use the cursor        *)
(* currentRow, currentColumn and the argument list args, which are         *)
(* globals.  The system call takes one step for each load or store of      *)
(* them, in the order of the compiled code, where a value that has been    *)
(* tested is the value that is incremented.  The interrupt is one step.    *)
(***************************************************************************)
EXTENDS Integers, Sequences

CONSTANTS
    VIDEO_MEM_ROWS, VIDEO_MEM_COLUMNS,
    Letters,    \* what is printed, apart from newlines
    MaxWrite,   \* bound on the length of one write
    MaxTyped    \* bound on the keys since the last read

ASSUME ConsoleAssumption ==
    /\ VIDEO_MEM_ROWS \in Nat \ {0} /\ VIDEO_MEM_COLUMNS \in Nat \ {0}
    /\ MaxWrite \in Nat /\ MaxTyped \in Nat

VARIABLES
    screen,         \* the video memory: rows of cells
    currentRow, currentColumn,
    args,           \* "own": the system call's argument list, unread; or "read"
    str,            \* what the system call has yet to print
    pc,             \* where in kprintf() the system call is
    c,              \* its character
    row, column,    \* its registers
    typedAt,        \* history: where the keys in the terminal's buffer were echoed
    out             \* history: the text since the screen was last blank, or Mixed

vars == <<screen, currentRow, currentColumn, args, str, pc, c, row, column, out, typedAt>>
registers == <<c, row, column>>

cursor  == <<currentRow, currentColumn>>
Newline == "newline"
Space   == "space"
Rows    == 0 .. VIDEO_MEM_ROWS - 1
Columns == 0 .. VIDEO_MEM_COLUMNS - 1
Chars   == Letters \cup {Newline}
Blank   == [r \in Rows |-> [k \in Columns |-> Space]]
Gone    == <<-1, -1>>    \* a key that is no longer the last thing on the screen
Mixed   == <<Space>>     \* a key came in the middle of a write
AllGone(n) == [i \in 1 .. n |-> Gone]

-----------------------------------------------------------------------------
(***************************************************************************)
(* Mutated forms, used to show that the properties notice such a slip.     *)
(***************************************************************************)
\* currentColumn++ loads the column again after the test.
ColumnLoadedAgain == currentColumn + 1

\* A full line moves the cursor down a row more.
RowSkipped(r) == IF r = VIDEO_MEM_ROWS - 1 THEN 0 ELSE r + 2

\* Backspace at the left margin stays in its row.
RowKeptByErase == currentRow

-----------------------------------------------------------------------------
(***************************************************************************)
(* printChar() as a whole, for the interrupt handler.                      *)
(***************************************************************************)
LastRow(r)    == r = VIDEO_MEM_ROWS - 1
LastColumn(k) == k = VIDEO_MEM_COLUMNS - 1
NextRow(r)    == IF LastRow(r) THEN 0 ELSE r + 1

\* Character x moves the cursor to the next row.
EndsRow(x, k) == x = Newline \/ LastColumn(k)

\* The cells after x is put at the cursor.
Put(x) == IF x = Newline THEN screen ELSE [screen EXCEPT ![currentRow][currentColumn] = x]

\* Behind the last row the screen is blanked and printing goes on at its top.
Scrolls(x) == EndsRow(x, currentColumn) /\ LastRow(currentRow)

printChar(x) ==
    /\ screen' = IF Scrolls(x) THEN Blank ELSE Put(x)
    /\ currentRow' = IF EndsRow(x, currentColumn) THEN NextRow(currentRow) ELSE currentRow
    /\ currentColumn' = IF EndsRow(x, currentColumn) THEN 0 ELSE currentColumn + 1

\* The text after x was printed.
Printed(x) == IF out = Mixed THEN Mixed ELSE Append(out, x)

\* The keyboard interrupt echoes a key with kprintf(), which leaves args read.
echo(x) ==
    /\ printChar(x)
    /\ args' = "read"
    /\ Len(typedAt) < MaxTyped
    /\ typedAt' = IF pc # "idle" \/ x = Newline \/ Scrolls(x) THEN AllGone(Len(typedAt) + 1)
                  ELSE Append(typedAt, cursor)
    /\ out' = IF pc # "idle" THEN Mixed ELSE IF Scrolls(x) THEN <<>> ELSE Printed(x)
    /\ UNCHANGED <<str, pc, registers>>

RowAfterErase == currentRow - 1

\* The keyboard interrupt for Backspace, when the line has a character.
handle_video_mem_backspace ==
    /\ typedAt # <<>>
    /\ typedAt' = SubSeq(typedAt, 1, Len(typedAt) - 1)
    /\ out' = IF pc = "idle" /\ typedAt[Len(typedAt)] # Gone /\ out # Mixed
              THEN SubSeq(out, 1, Len(out) - 1) ELSE Mixed
    /\ IF currentColumn = 0 /\ currentRow = 0
       THEN UNCHANGED <<screen, currentRow, currentColumn>>
       ELSE /\ currentColumn' = IF currentColumn = 0 THEN VIDEO_MEM_COLUMNS - 1
                                ELSE currentColumn - 1
            /\ currentRow' = IF currentColumn = 0 THEN RowAfterErase ELSE currentRow
            /\ screen' = [screen EXCEPT ![currentRow'][currentColumn'] = Space]
    /\ UNCHANGED <<args, str, pc, registers>>

\* A read begins or ends.
reset_term_inp_buffer ==
    /\ typedAt # <<>>
    /\ typedAt' = <<>>
    /\ UNCHANGED <<screen, cursor, args, str, pc, registers, out>>

-----------------------------------------------------------------------------
(***************************************************************************)
(* A system call that prints.                                              *)
(***************************************************************************)
Goto(from, to) == pc = from /\ pc' = to

\* The call: a buffer of at least one character.
terminal_write(s) ==
    /\ Goto("idle", "start")
    /\ str' = s
    /\ typedAt' = AllGone(Len(typedAt))
    /\ UNCHANGED <<screen, cursor, args, registers, out>>

\* kprintf("%c", str[i]): va_start().
va_start ==
    /\ Goto("start", "arg")
    /\ args' = "own"
    /\ UNCHANGED <<screen, cursor, str, registers, out, typedAt>>

\* va_arg(): the list of a handler that has returned yields whatever its frame
\* holds by now.
va_arg ==
    /\ pc = "arg"
    /\ IF args = "own" THEN c' = Head(str) ELSE c' \in Chars
    /\ pc' = IF c' = Newline THEN "row" ELSE "column1"
    /\ args' = "read"
    /\ UNCHANGED <<screen, cursor, str, row, column, out, typedAt>>

\* getAddress(currentRow, currentColumn): the column is loaded first.
load_column ==
    /\ Goto("column1", "row1")
    /\ column' = currentColumn
    /\ UNCHANGED <<screen, cursor, args, str, c, row, out, typedAt>>

load_row ==
    /\ Goto("row1", "store")
    /\ row' = currentRow
    /\ UNCHANGED <<screen, cursor, args, str, c, column, out, typedAt>>

store_char ==
    /\ Goto("store", "column")
    /\ screen' = [screen EXCEPT ![row][column] = c]
    /\ out' = Printed(c)
    /\ UNCHANGED <<cursor, args, str, registers, typedAt>>

test_column ==
    /\ pc = "column"
    /\ column' = currentColumn
    /\ pc' = IF LastColumn(column') THEN "row" ELSE "advance"
    /\ UNCHANGED <<screen, cursor, args, str, c, row, out, typedAt>>

\* What currentColumn++ stores.
ColumnStored == column + 1

advance ==
    /\ Goto("advance", "next")
    /\ currentColumn' = ColumnStored
    /\ UNCHANGED <<screen, currentRow, args, str, registers, out, typedAt>>

test_row ==
    /\ Goto("row", "down")
    /\ row' = currentRow
    /\ UNCHANGED <<screen, cursor, args, str, c, column, out, typedAt>>

\* currentRow++, or back to the top.
down ==
    /\ Goto("down", IF LastRow(row) THEN "clear" ELSE "margin")
    /\ currentRow' = NextRow(row)
    /\ out' = IF c = Newline THEN Printed(c) ELSE out
    /\ UNCHANGED <<screen, currentColumn, args, str, registers, typedAt>>

\* memcpy() and then resetVideoMemory(), which leaves nothing of the copy.
resetVideoMemory ==
    /\ Goto("clear", "margin")
    /\ screen' = Blank
    /\ out' = IF out = Mixed THEN Mixed ELSE <<>>
    /\ UNCHANGED <<cursor, args, str, registers, typedAt>>

margin ==
    /\ Goto("margin", "next")
    /\ currentColumn' = 0
    /\ UNCHANGED <<screen, currentRow, args, str, registers, out, typedAt>>

\* The next character, or the end of the call.
next_char ==
    /\ Goto("next", IF Len(str) = 1 THEN "idle" ELSE "start")
    /\ str' = Tail(str)
    /\ UNCHANGED <<screen, cursor, args, registers, out, typedAt>>

-----------------------------------------------------------------------------
\* boot() blanks the screen before it starts the kernel.
Init ==
    /\ screen = Blank
    /\ currentRow = 0 /\ currentColumn = 0
    /\ args = "read"
    /\ str = <<>>
    /\ pc = "idle"
    /\ c = Space /\ row = 0 /\ column = 0
    /\ out = <<>>
    /\ typedAt = <<>>

Texts == UNION {[1 .. n -> Chars] : n \in 1 .. MaxWrite}

Next ==
    \/ \E x \in Chars : echo(x)
    \/ handle_video_mem_backspace
    \/ reset_term_inp_buffer
    \/ \E s \in Texts : terminal_write(s)
    \/ va_start \/ va_arg \/ load_column \/ load_row \/ store_char
    \/ test_column \/ advance \/ test_row \/ down \/ resetVideoMemory \/ margin
    \/ next_char

Spec == Init /\ [][Next]_vars

-----------------------------------------------------------------------------
(***************************************************************************)
(* Properties.                                                             *)
(***************************************************************************)

\* The cursor and the cell that kprintf() is about to write are on the screen, at
\* whatever point the keyboard interrupt moves the cursor.
CursorOnScreen ==
    /\ currentRow \in Rows /\ currentColumn \in Columns
    /\ pc = "store" => row \in Rows /\ column \in Columns

\* What a screen shows after the text t, which does not fill it: an endless strip
\* of cells, in which a newline moves on to the next multiple of the row length.
Strip(t) ==
    LET At[i \in 0 .. Len(t)] ==   \* the cell behind the first i characters
          IF i = 0 THEN 0
          ELSE IF t[i] = Newline
          THEN (At[i - 1] \div VIDEO_MEM_COLUMNS + 1) * VIDEO_MEM_COLUMNS
          ELSE At[i - 1] + 1
    IN  At

Shown(t) ==
    [r \in Rows |-> [k \in Columns |->
        LET here == {i \in DOMAIN t : t[i] # Newline
                         /\ Strip(t)[i - 1] = r * VIDEO_MEM_COLUMNS + k}
        IN  IF here = {} THEN Space ELSE t[CHOOSE i \in here : TRUE]]]

\* Between two writes the screen shows the text since the last scroll, printed and
\* typed, broken into rows, and the cursor is behind it, unless a key came in the
\* middle of a write.
ScreenShowsOutput ==
    pc = "idle" /\ out # Mixed =>
        /\ screen = Shown(out)
        /\ currentRow * VIDEO_MEM_COLUMNS + currentColumn = Strip(out)[Len(out)]

\* The cursor is in the cell behind the last character that was typed since the
\* last write and not erased, and that character is still shown: so Backspace
\* erases on the screen the character that leaves the terminal's buffer.
EraseFindsCharacter ==
    LET last == typedAt[Len(typedAt)]
    IN  pc = "idle" /\ typedAt # <<>> /\ last # Gone =>
            /\ currentRow * VIDEO_MEM_COLUMNS + currentColumn
                 = last[1] * VIDEO_MEM_COLUMNS + last[2] + 1
            /\ screen[last[1]][last[2]] # Space
=============================================================================
