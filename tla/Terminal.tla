------------------------------ MODULE Terminal ------------------------------
(***************************************************************************)
(* A terminal as packages/tui/src/tui.ts uses it: the rows of the screen,  *)
(* the row of the cursor, and how many rows scrolled out of the screen.    *)
(* The text of a row is one value; lines never exceed the width, and the   *)
(* column is 0 whenever something is written.                              *)
(***************************************************************************)
EXTENDS Integers, Sequences

CONSTANTS Blank,     \* an empty row
          Shell,     \* a row that was there before
          Garbled    \* a row where one text was written over another

RowsOf(text, n) == [i \in 1..n |-> text]

\* CSI n A and CSI n B stop at the edges of the screen; a negative n is the other.
Down(t, n) ==
    LET row == t.row + n
    IN [t EXCEPT !.row = IF row < 0 THEN 0 ELSE IF row >= Len(t.rows) THEN Len(t.rows) - 1 ELSE row]

\* CR LF, n times: it scrolls at the bottom.
Newlines(t, n) ==
    LET h == Len(t.rows)
        scroll == IF t.row + n < h THEN 0 ELSE t.row + n - (h - 1)
    IN [rows |-> [i \in 1..h |-> IF i + scroll <= h THEN t.rows[i + scroll] ELSE Blank],
        row |-> t.row + n - scroll, scrolled |-> t.scrolled + scroll]

\* CSI 2 J, CSI H, CSI 3 J.
ClearAll(t) == [rows |-> RowsOf(Blank, Len(t.rows)), row |-> 0, scrolled |-> 0]

\* Lines, CR LF between two of them; each row is erased first (CSI 2 K), or
\* assumed to be clean.
WriteLines(t, lines, erases) ==
    LET n == Len(lines)
        u == Newlines(t, n - 1)
        LineOn(i) == i - 1 - u.row + n
    IN IF n = 0 THEN t
       ELSE [u EXCEPT !.rows = [i \in 1..Len(@) |->
                IF LineOn(i) \notin 1..n THEN @[i]
                ELSE IF erases \/ @[i] = Blank THEN lines[LineOn(i)] ELSE Garbled]]

\* n rows are erased, from the cursor down, and the cursor moves with them.
EraseRows(t, n) ==
    Down([t EXCEPT !.rows = [i \in 1..Len(@) |-> IF i - 1 \in t.row..(t.row + n - 1) THEN Blank ELSE @[i]]],
         n - 1)
=============================================================================
