--------------------------- MODULE TuiRenderProofs ---------------------------
(***************************************************************************)
(* Theorems about TuiRender: a render that was requested is on its way,    *)
(* and however little of each frame is written, the screen shows it.       *)
(***************************************************************************)
EXTENDS TuiRender, WellFoundedInduction, TLAPS

Row == Texts \union {Blank, Shell, Garbled}
Screen(h) == [rows : [1..h -> Row], row : 0..(h - 1), scrolled : Nat]

(***************************************************************************)
(* The terminal                                                            *)
(***************************************************************************)

LEMMA ScreenHeight ==
    ASSUME NEW h \in Nat, NEW t \in Screen(h)
    PROVE  Len(t.rows) = h /\ t.rows \in Seq(Row)
<1>1. t.rows \in [1..h -> Row]
  BY DEF Screen
<1>2. t.rows \in Seq(Row)
  BY <1>1
<1>. QED
  BY <1>1, <1>2

\* A move of the cursor, which is as asked where that is on the screen.
LEMMA DownFacts ==
    ASSUME NEW h \in Nat \ {0}, NEW t \in Screen(h), NEW n \in Int
    PROVE  /\ Down(t, n) \in Screen(h)
           /\ Down(t, n).rows = t.rows /\ Down(t, n).scrolled = t.scrolled
           /\ t.row + n \in 0..(h - 1) => Down(t, n).row = t.row + n
           /\ t.row + n < 0 => Down(t, n).row = 0
           /\ t.row + n >= h => Down(t, n).row = h - 1
<1>1. Len(t.rows) = h
  BY ScreenHeight
<1>2. t.row \in 0..(h - 1) /\ t.rows \in [1..h -> Row] /\ t.scrolled \in Nat
  BY DEF Screen
<1>3. Down(t, n) = [rows |-> t.rows, scrolled |-> t.scrolled,
                    row |-> IF t.row + n < 0 THEN 0 ELSE IF t.row + n >= h THEN h - 1 ELSE t.row + n]
  BY <1>1 DEF Down, Screen
<1>. QED
  BY <1>2, <1>3 DEF Screen

Scrolled(row, n, h) == MaxOf(0, row + n - (h - 1))

\* New lines move the cursor as far as the screen reaches, and scroll the rest.
LEMMA NewlinesFacts ==
    ASSUME NEW h \in Nat \ {0}, NEW t \in Screen(h), NEW n \in Nat
    PROVE  LET s == Scrolled(t.row, n, h)
           IN /\ Newlines(t, n) \in Screen(h)
              /\ s \in Nat
              /\ Newlines(t, n).row = t.row + n - s
              /\ \A i \in 1..h : Newlines(t, n).rows[i] = IF i + s <= h THEN t.rows[i + s] ELSE Blank
<1>. DEFINE s == Scrolled(t.row, n, h)
<1>1. Len(t.rows) = h
  BY ScreenHeight
<1>2. t.row \in 0..(h - 1) /\ t.rows \in [1..h -> Row] /\ t.scrolled \in Nat
  BY DEF Screen
<1>3. s \in Nat /\ s = IF t.row + n < h THEN 0 ELSE t.row + n - (h - 1)
  BY <1>2 DEF Scrolled, MaxOf
<1>4. Newlines(t, n) = [rows |-> [i \in 1..h |-> IF i + s <= h THEN t.rows[i + s] ELSE Blank],
                        row |-> t.row + n - s, scrolled |-> t.scrolled + s]
  BY <1>1, <1>3 DEF Newlines
<1>5. [i \in 1..h |-> IF i + s <= h THEN t.rows[i + s] ELSE Blank] \in [1..h -> Row]
  <2>. SUFFICES ASSUME NEW i \in 1..h PROVE (IF i + s <= h THEN t.rows[i + s] ELSE Blank) \in Row
    OBVIOUS
  <2>1. i + s <= h => i + s \in 1..h
    BY <1>3
  <2>. QED
    BY <2>1, <1>2 DEF Row
<1>6. t.row + n - s \in 0..(h - 1) /\ t.scrolled + s \in Nat
  BY <1>2, <1>3
<1>7. Newlines(t, n) \in Screen(h)
  BY <1>4, <1>5, <1>6 DEF Screen
<1>. QED
  BY <1>3, <1>4, <1>7

\* Lines that are written stand below each other, and the rest scrolls.
LEMMA WriteFacts ==
    ASSUME NEW h \in Nat \ {0}, NEW t \in Screen(h), NEW lines \in Seq(Row), NEW erases \in BOOLEAN,
           lines # <<>>
    PROVE  LET n == Len(lines)
               s == Scrolled(t.row, n - 1, h)
               w == WriteLines(t, lines, erases)
               Under(i) == IF i + s <= h THEN t.rows[i + s] ELSE Blank
           IN /\ w \in Screen(h)
              /\ n \in Nat \ {0} /\ s \in Nat
              /\ w.row = t.row + n - 1 - s
              /\ \A i \in 1..h : w.rows[i] =
                    IF i + s - t.row \in 1..n
                    THEN IF erases \/ Under(i) = Blank THEN lines[i + s - t.row] ELSE Garbled
                    ELSE Under(i)
<1>. DEFINE n == Len(lines)
            s == Scrolled(t.row, n - 1, h)
            w == WriteLines(t, lines, erases)
            Under(i) == IF i + s <= h THEN t.rows[i + s] ELSE Blank
            u == Newlines(t, n - 1)
            Written(i) == IF i + s - t.row \in 1..n
                          THEN IF erases \/ Under(i) = Blank THEN lines[i + s - t.row] ELSE Garbled
                          ELSE Under(i)
<1>1. n \in Nat \ {0} /\ n - 1 \in Nat
  OBVIOUS
<1>2. /\ u \in Screen(h) /\ s \in Nat /\ u.row = t.row + (n - 1) - s
      /\ \A i \in 1..h : u.rows[i] = Under(i)
  BY <1>1, NewlinesFacts
<1>3. t.row \in 0..(h - 1) /\ u.rows \in [1..h -> Row] /\ Len(u.rows) = h
  BY <1>2, ScreenHeight DEF Screen
<1>4. \A i \in 1..h : i - 1 - u.row + n = i + s - t.row
  BY <1>1, <1>2, <1>3
<1>5. w = [u EXCEPT !.rows = [i \in 1..h |-> Written(i)]]
  <2>1. w = [u EXCEPT !.rows = [i \in 1..Len(u.rows) |->
                IF i - 1 - u.row + n \notin 1..n THEN u.rows[i]
                ELSE IF erases \/ u.rows[i] = Blank THEN lines[i - 1 - u.row + n] ELSE Garbled]]
    BY <1>1, <1>2, Zenon DEF WriteLines, Screen
  <2>2. \A i \in 1..h :
            (IF i - 1 - u.row + n \notin 1..n THEN u.rows[i]
             ELSE IF erases \/ u.rows[i] = Blank THEN lines[i - 1 - u.row + n] ELSE Garbled) = Written(i)
    BY <1>2, <1>4
  <2>3. [i \in 1..h |->
                IF i - 1 - u.row + n \notin 1..n THEN u.rows[i]
                ELSE IF erases \/ u.rows[i] = Blank THEN lines[i - 1 - u.row + n] ELSE Garbled]
        = [i \in 1..h |-> Written(i)]
    BY <2>2, Zenon
  <2>. QED
    BY <2>1, <2>3, <1>3
<1>6. \A i \in 1..h : Written(i) \in Row
  <2>. SUFFICES ASSUME NEW i \in 1..h PROVE Written(i) \in Row
    OBVIOUS
  <2>1. Under(i) \in Row
    BY <1>2, <1>3
  <2>2. i + s - t.row \in 1..n => lines[i + s - t.row] \in Row
    BY <1>1
  <2>3. Garbled \in Row
    BY DEF Row
  <2>. QED
    BY <2>1, <2>2, <2>3
<1>7. [i \in 1..h |-> Written(i)] \in [1..h -> Row]
  BY <1>6
<1>8. w \in Screen(h) /\ w.row = u.row /\ \A i \in 1..h : w.rows[i] = Written(i)
  BY <1>2, <1>5, <1>7 DEF Screen
<1>9. w.row = t.row + n - 1 - s
  BY <1>1, <1>2, <1>3, <1>8
<1>. QED
  BY <1>1, <1>2, <1>8, <1>9

\* Rows that are erased before they are written.
LEMMA OverwriteFacts ==
    ASSUME NEW h \in Nat \ {0}, NEW t \in Screen(h), NEW lines \in Seq(Row), lines # <<>>
    PROVE  LET n == Len(lines)
               s == Scrolled(t.row, n - 1, h)
               w == WriteLines(t, lines, TRUE)
           IN /\ w \in Screen(h) /\ s \in Nat
              /\ w.row = t.row + n - 1 - s
              /\ \A i \in 1..h : w.rows[i] =
                    IF i + s - t.row \in 1..n THEN lines[i + s - t.row]
                    ELSE IF i + s <= h THEN t.rows[i + s] ELSE Blank
<1>1. TRUE \in BOOLEAN
  OBVIOUS
<1>. DEFINE n == Len(lines)
            s == Scrolled(t.row, n - 1, h)
            w == WriteLines(t, lines, TRUE)
            Under(i) == IF i + s <= h THEN t.rows[i + s] ELSE Blank
<1>2. /\ w \in Screen(h) /\ s \in Nat /\ w.row = t.row + n - 1 - s
      /\ \A i \in 1..h : w.rows[i] =
            IF i + s - t.row \in 1..n
            THEN IF TRUE \/ Under(i) = Blank THEN lines[i + s - t.row] ELSE Garbled
            ELSE Under(i)
  BY <1>1, WriteFacts
<1>. QED
  BY <1>2

LEMMA RowsOfFacts ==
    ASSUME NEW k \in Nat, NEW text \in {Blank, Shell, Garbled}
    PROVE  /\ RowsOf(text, k) \in [1..k -> Row] /\ RowsOf(text, k) \in Seq(Row) /\ Len(RowsOf(text, k)) = k
           /\ \A i \in 1..k : RowsOf(text, k)[i] = text
<1>1. RowsOf(text, k) = [i \in 1..k |-> text] /\ RowsOf(text, k) \in [1..k -> Row]
  BY DEF RowsOf, Row
<1>2. RowsOf(text, k) \in Seq(Row)
  BY <1>1
<1>. QED
  BY <1>1, <1>2

LEMMA ClearFacts ==
    ASSUME NEW h \in Nat \ {0}, NEW t \in Screen(h)
    PROVE  /\ ClearAll(t) \in Screen(h) /\ ClearAll(t).row = 0
           /\ \A i \in 1..h : ClearAll(t).rows[i] = Blank
<1>1. ClearAll(t) = [rows |-> [i \in 1..h |-> Blank], row |-> 0, scrolled |-> 0]
  BY ScreenHeight DEF ClearAll, RowsOf
<1>2. [i \in 1..h |-> Blank] \in [1..h -> Row]
  BY DEF Row
<1>. DEFINE rows == [i \in 1..h |-> Blank]
<1>3. /\ [rows |-> rows, row |-> 0, scrolled |-> 0].rows = rows
      /\ [rows |-> rows, row |-> 0, scrolled |-> 0].row = 0
  OBVIOUS
<1>4. \A i \in 1..h : rows[i] = Blank
  OBVIOUS
<1>5. rows \in [1..h -> Row] /\ 0 \in 0..(h - 1) /\ 0 \in Nat
  BY <1>2
<1>6. ClearAll(t) = [rows |-> rows, row |-> 0, scrolled |-> 0]
  BY <1>1
<1>. HIDE DEF rows
<1>7. ClearAll(t) \in Screen(h)
  BY <1>5, <1>6 DEF Screen
<1>. QED
  BY <1>3, <1>4, <1>6, <1>7, Zenon

LEMMA EraseFacts ==
    ASSUME NEW h \in Nat \ {0}, NEW t \in Screen(h), NEW n \in Nat \ {0}, t.row + n <= h
    PROVE  /\ EraseRows(t, n) \in Screen(h) /\ EraseRows(t, n).row = t.row + n - 1
           /\ \A i \in 1..h : EraseRows(t, n).rows[i] =
                  IF i - 1 \in t.row..(t.row + n - 1) THEN Blank ELSE t.rows[i]
<1>. DEFINE Left(i) == IF i - 1 \in t.row..(t.row + n - 1) THEN Blank ELSE t.rows[i]
            e == [t EXCEPT !.rows = [i \in 1..h |-> Left(i)]]
<1>1. t.row \in 0..(h - 1) /\ t.rows \in [1..h -> Row] /\ Len(t.rows) = h
  BY ScreenHeight DEF Screen
<1>2. [i \in 1..h |-> Left(i)] \in [1..h -> Row]
  BY <1>1 DEF Row
<1>3. e \in Screen(h) /\ e.row = t.row /\ \A i \in 1..h : e.rows[i] = Left(i)
  BY <1>2 DEF Screen
<1>4. EraseRows(t, n) = Down(e, n - 1)
  BY <1>1 DEF EraseRows, Screen
<1>5. n - 1 \in Int /\ e.row + (n - 1) \in 0..(h - 1)
  BY <1>1, <1>3
<1>6. Down(e, n - 1) \in Screen(h) /\ Down(e, n - 1).rows = e.rows /\ Down(e, n - 1).row = e.row + (n - 1)
  BY <1>3, <1>5, DownFacts
<1>7. e.row + (n - 1) = t.row + n - 1
  BY <1>1, <1>3
<1>. QED
  BY <1>3, <1>4, <1>6, <1>7

(***************************************************************************)
(* Frames, and the lines that changed                                      *)
(***************************************************************************)

LEMMA LeastOf ==
    ASSUME NEW S \in SUBSET Nat, S # {}
    PROVE  Min(S) \in S /\ \A y \in S : Min(S) <= y
<1>1. PICK x \in S : \A y \in S : ~(<<y, x>> \in OpToRel(<, Nat))
  BY WFMin, NatLessThanWellFounded
<1>2. \A y \in S : x <= y
  <2>. SUFFICES ASSUME NEW y \in S PROVE x <= y
    OBVIOUS
  <2>1. <<y, x>> \in Nat \X Nat
    OBVIOUS
  <2>2. ~(y < x)
    BY <1>1, <2>1 DEF OpToRel
  <2>. QED
    BY <2>2
<1>. QED
  BY <1>1, <1>2 DEF Min

LEMMA GreatestOf ==
    ASSUME NEW k \in Nat, NEW S \in SUBSET (0..k), S # {}
    PROVE  Max(S) \in S /\ \A y \in S : y <= Max(S)
<1>. DEFINE D == {k - x : x \in S}
<1>1. D \in SUBSET Nat /\ D # {}
  <2>1. \A x \in S : k - x \in Nat
    OBVIOUS
  <2>. QED
    BY <2>1
<1>2. Min(D) \in D /\ \A y \in D : Min(D) <= y
  BY <1>1, LeastOf
<1>3. PICK x \in S : Min(D) = k - x
  BY <1>2
<1>4. \A y \in S : y <= x
  <2>. SUFFICES ASSUME NEW y \in S PROVE y <= x
    OBVIOUS
  <2>1. k - y \in D
    OBVIOUS
  <2>2. k - x <= k - y
    BY <1>2, <1>3, <2>1
  <2>3. x \in 0..k /\ y \in 0..k
    OBVIOUS
  <2>. QED
    BY <2>2, <2>3
<1>. QED
  BY <1>4 DEF Max

\* Lines of a frame, and the line of its cursor.
LEMMA FrameFacts ==
    ASSUME scenario \in Scenarios, height \in Nat, NEW frame \in Frames
    PROVE  /\ frame.lines \in Seq(Texts) /\ frame.lines \in Seq(Row)
           /\ Len(frame.lines) \in Nat /\ Len(frame.lines) <= scenario.lines
           /\ frame.cursor \in Int
           /\ frame.cursor = -1 \/ frame.cursor \in 0..(Len(frame.lines) - 1)
<1>1. scenario.lines \in Nat
  BY RenderAssumption
<1>2. PICK n \in 0..scenario.lines :
          frame \in [lines : [1..n -> Texts],
                     cursor : {-1} \union (IF scenario.cursor THEN MaxOf(0, n - height)..(n - 1) ELSE {})]
  BY DEF Frames
<1>3. frame.lines \in Seq(Texts) /\ Len(frame.lines) = n /\ frame.lines \in Seq(Row)
  <2>1. frame.lines \in [1..n -> Texts] /\ n \in Nat
    BY <1>1, <1>2
  <2>2. frame.lines \in [1..n -> Row]
    BY <2>1 DEF Row
  <2>. QED
    BY <2>1, <2>2
<1>4. MaxOf(0, n - height) \in Nat
  BY <1>1 DEF MaxOf
<1>. QED
  BY <1>1, <1>2, <1>3, <1>4

\* Before the first line that changed, and after the last, the lines are as they were.
LEMMA ChangedFacts ==
    ASSUME previousLines \in Seq(Texts), NEW frame, frame.lines \in Seq(Texts), ChangedLines(frame) # {}
    PROVE  LET n == Len(frame.lines)
               m == Len(previousLines)
               f == FirstChanged(frame)
               l == LastChanged(frame)
           IN /\ f \in Nat /\ l \in Nat /\ f <= l
              /\ f < n \/ f < m
              /\ f <= n /\ f <= m
              /\ l < n \/ l < m
              /\ n # m => l = MaxOf(n, m) - 1
              /\ n = m => f < n /\ l < n
              /\ \A i \in 1..n : i <= f => i <= m /\ frame.lines[i] = previousLines[i]
              /\ \A i \in 1..n : i > l + 1 => i <= m /\ frame.lines[i] = previousLines[i]
<1>. DEFINE n == Len(frame.lines)
            m == Len(previousLines)
            C == ChangedLines(frame)
            f == FirstChanged(frame)
            l == LastChanged(frame)
            k == MaxOf(n, m) - 1
<1>1. n \in Nat /\ m \in Nat /\ MaxOf(n, m) \in {n, m} /\ MaxOf(n, m) >= n /\ MaxOf(n, m) >= m
      /\ MinOf(n, m) \in {n, m} /\ MinOf(n, m) <= n /\ MinOf(n, m) <= m
  BY DEF MaxOf, MinOf
<1>2. C = {i \in 0..k : i >= MinOf(n, m) \/ frame.lines[i + 1] # previousLines[i + 1]}
  BY DEF ChangedLines
<1>3. C \in SUBSET (0..k) /\ k \in Nat /\ C \in SUBSET Nat
  BY <1>1, <1>2
<1>4. f \in C /\ \A y \in C : f <= y
  BY <1>3, LeastOf DEF FirstChanged
<1>5. l \in C /\ \A y \in C : y <= l
  BY <1>3, GreatestOf DEF LastChanged
<1>6. f \in Nat /\ l \in Nat /\ f <= l /\ f <= k /\ l <= k
  BY <1>3, <1>4, <1>5
<1>7. n # m => k \in C /\ MinOf(n, m) \in C
  BY <1>1, <1>2, <1>3
<1>8. f <= MinOf(n, m)
  BY <1>1, <1>3, <1>4, <1>6, <1>7
<1>9. \A i \in 1..n : i <= f \/ i > l + 1 => i <= m /\ frame.lines[i] = previousLines[i]
  <2>. SUFFICES ASSUME NEW i \in 1..n, i <= f \/ i > l + 1
                PROVE  i <= m /\ frame.lines[i] = previousLines[i]
    OBVIOUS
  <2>1. i - 1 \notin C
    BY <1>4, <1>5, <1>6
  <2>2. i - 1 \in 0..k
    BY <1>1
  <2>3. ~(i - 1 >= MinOf(n, m)) /\ frame.lines[(i - 1) + 1] = previousLines[(i - 1) + 1]
    BY <1>2, <2>1, <2>2
  <2>. QED
    BY <1>1, <2>3
<1>10. f <= n /\ f <= m /\ (n = m => f < n /\ l < n) /\ (f < n \/ f < m) /\ (l < n \/ l < m)
  BY <1>1, <1>6, <1>8
<1>11. n # m => l = MaxOf(n, m) - 1
  BY <1>1, <1>5, <1>6, <1>7
<1>. QED
  BY <1>6, <1>9, <1>10, <1>11

(***************************************************************************)
(* The invariant                                                           *)
(***************************************************************************)

LastOf(lines) == MaxOf(0, Len(lines) - 1)

TypeInv ==
    /\ scenario \in Scenarios
    /\ height \in scenario.heights /\ term \in Screen(height) /\ width \in 1..2
    /\ renderRequested \in BOOLEAN /\ renderTimer \in BOOLEAN /\ stopped \in BOOLEAN
    /\ ticks \in Seq({"schedule", "force"})
    /\ previousLines \in Seq(Texts) /\ Len(previousLines) <= scenario.lines
    /\ previousWidth \in Int /\ previousHeight \in Int /\ maxLinesRendered \in Nat
    /\ hardwareCursorRow \in 0..LastOf(previousLines)
    /\ previousViewportTop \in 0..LastOf(previousLines)

\* The screen t of h rows shows the lines from "top" on, in its rows from T on.
Shows(t, h, lines, top, T) ==
    /\ T \in 0..(h - 1) /\ Len(lines) <= top + h - T
    /\ T > 0 => top = 0
    /\ \A i \in 1..h :
           IF i <= T THEN t.rows[i] \in {Shell, Blank}
           ELSE t.rows[i] = IF top + i - T <= Len(lines) THEN lines[top + i - T] ELSE Blank

ViewInv ==
    /\ previousHeight = 0 <=> previousWidth = 0
    /\ previousHeight = 0 => previousLines = <<>>
    /\ previousViewportTop <= hardwareCursorRow
    /\ ~stopped /\ (Current \/ previousHeight = 0) =>
           Shows(term, height, previousLines, previousViewportTop, TopRow)
    /\ NothingBelowExit

TickInv ==
    /\ stops \in 0..scenario.stops /\ (stopped => scenario.stops # 0)
    /\ RequestedIsComing

(***************************************************************************)
(* Types                                                                   *)
(***************************************************************************)

\* What each way to render leaves.
Drawn(frame) ==
    /\ term' \in Screen(height) /\ width' = width
    /\ previousLines' = frame.lines /\ previousWidth' = width /\ previousHeight' = height
    /\ hardwareCursorRow' \in 0..LastOf(frame.lines)
    /\ previousViewportTop' \in 0..LastOf(frame.lines)
    /\ maxLinesRendered' \in Nat

LEMMA HeightIsNat ==
    ASSUME TypeInv
    PROVE  height \in Nat \ {0}
BY RenderAssumption DEF TypeInv

LEMMA RenderedDraws ==
    ASSUME TypeInv, NEW frame \in Frames, NEW t \in Screen(height), NEW row \in 0..LastOf(frame.lines),
           NEW top \in 0..LastOf(frame.lines), NEW most \in Nat, Rendered(frame, t, row, top, most)
    PROVE  Drawn(frame)
<1>. DEFINE target == IF frame.cursor = -1 THEN row ELSE frame.cursor
<1>1. height \in Nat \ {0} /\ scenario \in Scenarios
  BY HeightIsNat DEF TypeInv
<1>2. target \in 0..LastOf(frame.lines)
  BY <1>1, FrameFacts DEF LastOf, MaxOf
<1>3. Down(t, target - row) \in Screen(height)
  <2>1. target - row \in Int
    BY <1>2
  <2>. QED
    BY <1>1, <2>1, DownFacts
<1>4. term' \in Screen(height)
  BY <1>3 DEF Rendered, Screen
<1>. QED
  BY <1>2, <1>4 DEF Rendered, Drawn

\* Terminal operations keep the screen a screen.
LEMMA StaysScreen ==
    ASSUME NEW h \in Nat \ {0}, NEW t \in Screen(h)
    PROVE  /\ \A n \in Int : Down(t, n) \in Screen(h)
           /\ \A n \in Nat : Newlines(t, n) \in Screen(h)
           /\ ClearAll(t) \in Screen(h)
           /\ \A lines \in Seq(Row), erases \in BOOLEAN : WriteLines(t, lines, erases) \in Screen(h)
           /\ \A n \in Int : EraseRows(t, n) \in Screen(h)
<1>1. \A lines \in Seq(Row), erases \in BOOLEAN : WriteLines(t, lines, erases) \in Screen(h)
  <2>. SUFFICES ASSUME NEW lines \in Seq(Row), NEW erases \in BOOLEAN
                PROVE  WriteLines(t, lines, erases) \in Screen(h)
    OBVIOUS
  <2>1. CASE lines = <<>>
    BY <2>1 DEF WriteLines
  <2>2. CASE lines # <<>>
    BY <2>2, WriteFacts
  <2>. QED
    BY <2>1, <2>2
<1>2. \A n \in Int : EraseRows(t, n) \in Screen(h)
  <2>. SUFFICES ASSUME NEW n \in Int PROVE EraseRows(t, n) \in Screen(h)
    OBVIOUS
  <2>. DEFINE Left(i) == IF i - 1 \in t.row..(t.row + n - 1) THEN Blank ELSE t.rows[i]
              e == [t EXCEPT !.rows = [i \in 1..h |-> Left(i)]]
  <2>1. t.rows \in [1..h -> Row] /\ Len(t.rows) = h
    BY ScreenHeight DEF Screen
  <2>2. [i \in 1..h |-> Left(i)] \in [1..h -> Row]
    BY <2>1 DEF Row
  <2>3. e \in Screen(h)
    BY <2>2 DEF Screen
  <2>4. EraseRows(t, n) = Down(e, n - 1)
    BY <2>1 DEF EraseRows, Screen
  <2>. QED
    BY <2>3, <2>4, DownFacts
<1>. QED
  BY <1>1, <1>2, DownFacts, NewlinesFacts, ClearFacts

LEMMA FullDraws ==
    ASSUME TypeInv, NEW frame \in Frames, NEW clear \in BOOLEAN, FullRender(frame, clear)
    PROVE  Drawn(frame)
<1>. DEFINE n == Len(frame.lines)
            t == IF clear THEN ClearAll(term) ELSE term
            most == IF clear THEN n ELSE MaxOf(maxLinesRendered, n)
<1>1. height \in Nat \ {0} /\ scenario \in Scenarios /\ term \in Screen(height) /\ maxLinesRendered \in Nat
  BY HeightIsNat DEF TypeInv
<1>2. frame.lines \in Seq(Row) /\ n \in Nat
  BY <1>1, FrameFacts
<1>3. t \in Screen(height)
  BY <1>1, StaysScreen
<1>4. WriteLines(t, frame.lines, FALSE) \in Screen(height)
  BY <1>1, <1>2, <1>3, StaysScreen
<1>5. /\ MaxOf(0, n - 1) \in 0..LastOf(frame.lines) /\ MaxOf(0, n - height) \in 0..LastOf(frame.lines)
      /\ most \in Nat
  BY <1>1, <1>2 DEF MaxOf, LastOf
<1>6. Rendered(frame, WriteLines(t, frame.lines, FALSE), MaxOf(0, n - 1), MaxOf(0, n - height), most)
  BY DEF FullRender
<1>. QED
  BY <1>4, <1>5, <1>6, RenderedDraws

LEMMA doRenderDraws ==
    ASSUME TypeInv, NEW frame \in Frames,
           \/ RenderFirst(frame) \/ RenderAgain(frame) \/ RenderSame(frame) \/ RenderDeleted(frame)
           \/ RenderUnseen(frame) \/ RenderShrunk(frame) \/ RenderVisible(frame) \/ RenderChanged(frame)
    PROVE  Drawn(frame)
<1>. DEFINE n == Len(frame.lines)
            m == Len(previousLines)
<1>1. /\ height \in Nat \ {0} /\ scenario \in Scenarios /\ term \in Screen(height) /\ maxLinesRendered \in Nat
      /\ previousLines \in Seq(Texts) /\ m \in Nat
      /\ hardwareCursorRow \in 0..LastOf(previousLines) /\ previousViewportTop \in 0..LastOf(previousLines)
  BY HeightIsNat DEF TypeInv
<1>2. frame.lines \in Seq(Row) /\ frame.lines \in Seq(Texts) /\ n \in Nat
  BY <1>1, FrameFacts
<1>3. MaxOf(maxLinesRendered, n) \in Nat /\ n - 1 \in Int
  BY <1>1, <1>2 DEF MaxOf
<1>4. CASE RenderFirst(frame) \/ RenderAgain(frame) \/ RenderShrunk(frame)
  BY <1>4, FullDraws DEF RenderFirst, RenderAgain, RenderShrunk
<1>5. CASE RenderSame(frame)
  <2>1. n = m
    <3>1. ChangedLines(frame) = {}
      BY <1>5 DEF RenderSame, Unchanged
    <3>2. CASE n # m
      <4>1. /\ MinOf(n, m) \in 0..(MaxOf(n, m) - 1) /\ MinOf(n, m) >= MinOf(n, m)
        BY <1>1, <1>2, <3>2 DEF MinOf, MaxOf
      <4>2. MinOf(n, m) \in ChangedLines(frame)
        BY <4>1 DEF ChangedLines
      <4>. QED
        BY <3>1, <4>2
    <3>. QED
      BY <3>2
  <2>2. LastOf(previousLines) = LastOf(frame.lines)
    BY <2>1 DEF LastOf
  <2>3. Rendered(frame, term, hardwareCursorRow, previousViewportTop, maxLinesRendered)
    BY <1>5 DEF RenderSame
  <2>. QED
    BY <1>1, <2>2, <2>3, RenderedDraws
<1>6. CASE RenderDeleted(frame)
  <2>. DEFINE extra == -Growth(frame)
              target == MaxOf(0, n - 1)
              below == IF n = 0 THEN 0 ELSE 1
              erased == EraseRows(Down(Down(term, target - hardwareCursorRow), below), extra)
              t == Down(erased, -(extra - 1 + below))
  <2>1. CASE target < previousViewportTop \/ extra > height
    BY <1>6, <2>1, FullDraws DEF RenderDeleted
  <2>2. CASE ~(target < previousViewportTop \/ extra > height)
    <3>1. extra \in Int /\ target \in Int /\ below \in Int /\ -(extra - 1 + below) \in Int
      BY <1>1, <1>2 DEF Growth, MaxOf
    <3>2. target - hardwareCursorRow \in Int
      BY <1>1, <3>1
    <3>3. Down(term, target - hardwareCursorRow) \in Screen(height)
      BY <1>1, <3>2, StaysScreen
    <3>4. Down(Down(term, target - hardwareCursorRow), below) \in Screen(height)
      BY <1>1, <3>1, <3>3, StaysScreen
    <3>5. erased \in Screen(height)
      BY <1>1, <3>1, <3>4, StaysScreen
    <3>6. t \in Screen(height)
      BY <1>1, <3>1, <3>5, StaysScreen
    <3>7. target \in 0..LastOf(frame.lines) /\ previousViewportTop \in 0..LastOf(frame.lines)
      BY <1>1, <1>2, <2>2 DEF LastOf, MaxOf
    <3>8. Rendered(frame, t, target, previousViewportTop, maxLinesRendered)
      BY <1>6, <2>2 DEF RenderDeleted
    <3>. QED
      BY <1>1, <3>6, <3>7, <3>8, RenderedDraws
  <2>. QED
    BY <2>1, <2>2
<1>7. CASE RenderUnseen(frame)
  <2>1. LastOf(previousLines) = LastOf(frame.lines)
    BY <1>1, <1>2, <1>7 DEF RenderUnseen, Growth, LastOf
  <2>2. Rendered(frame, term, hardwareCursorRow, previousViewportTop, maxLinesRendered)
    BY <1>7 DEF RenderUnseen
  <2>. QED
    BY <1>1, <2>1, <2>2, RenderedDraws
<1>8. CASE RenderVisible(frame)
  <2>. DEFINE top == MaxOf(0, n - height)
              grows == Growth(frame) > 0
              bottom == Down(term, height - 1 - OnScreen(hardwareCursorRow - previousViewportTop))
              scrolled == IF grows THEN Newlines(bottom, Growth(frame)) ELSE term
              row == IF grows THEN n - 1 ELSE hardwareCursorRow
              from == Down(scrolled, -OnScreen(row - top))
              lines == SubSeq(frame.lines, top + 1, n)
  <2>1. ChangedAbove(frame) /\ Growth(frame) \in Nat /\ Growth(frame) = n - m
    BY <1>1, <1>2, <1>8 DEF RenderVisible, Growth
  <2>2. n > 0
    <3>1. ChangedLines(frame) # {} /\ FirstChanged(frame) < MinOf(n, previousViewportTop)
      BY <2>1 DEF ChangedAbove, Changed
    <3>2. FirstChanged(frame) \in Nat
      BY <1>1, <1>2, <3>1, ChangedFacts
    <3>. QED
      BY <1>1, <1>2, <3>1, <3>2 DEF MinOf
  <2>3. top \in 0..LastOf(frame.lines) /\ n - 1 \in 0..LastOf(frame.lines) /\ row \in Int
    BY <1>1, <1>2, <2>2 DEF MaxOf, LastOf
  <2>4. \A r \in Int : OnScreen(r) \in Int
    BY <1>1 DEF OnScreen, MaxOf, MinOf
  <2>5. /\ hardwareCursorRow - previousViewportTop \in Int
        /\ height - 1 - OnScreen(hardwareCursorRow - previousViewportTop) \in Int
        /\ row - top \in Int /\ -OnScreen(row - top) \in Int
    <3>1. hardwareCursorRow - previousViewportTop \in Int /\ row - top \in Int
      BY <1>1, <2>3
    <3>2. OnScreen(hardwareCursorRow - previousViewportTop) \in Int /\ OnScreen(row - top) \in Int
      BY <2>4, <3>1
    <3>. QED
      BY <1>1, <3>1, <3>2
  <2>6. bottom \in Screen(height)
    BY <1>1, <2>5, StaysScreen
  <2>7. scrolled \in Screen(height)
    BY <1>1, <2>1, <2>6, StaysScreen
  <2>8. from \in Screen(height)
    BY <1>1, <2>5, <2>7, StaysScreen
  <2>9. lines \in Seq(Row)
    BY <1>2, <2>3
  <2>10. WriteLines(from, lines, TRUE) \in Screen(height)
    BY <1>1, <2>8, <2>9, StaysScreen
  <2>11. Rendered(frame, WriteLines(from, lines, TRUE), n - 1, top, MaxOf(maxLinesRendered, n))
    BY <1>8 DEF RenderVisible
  <2>. QED
    BY <1>3, <2>3, <2>10, <2>11, RenderedDraws
<1>9. CASE RenderChanged(frame)
  <2>. DEFINE gone == MaxOf(0, -Growth(frame))
              first == FirstChanged(frame)
              last == MinOf(LastChanged(frame), n - 1)
              appends == Growth(frame) > 0 /\ first = Len(previousLines) /\ first > 0
              target == IF appends THEN first - 1 ELSE first
              scroll == MaxOf(0, target - (previousViewportTop + height - 1))
              bottom == Down(term, height - 1 - OnScreen(hardwareCursorRow - previousViewportTop))
              moved == IF scroll > 0 THEN Newlines(bottom, scroll) ELSE Down(term, target - hardwareCursorRow)
              fresh == Newlines(moved, IF appends THEN 1 ELSE 0)
              lines == SubSeq(frame.lines, first + 1, last + 1)
              written == WriteLines(fresh, lines, TRUE)
              under == Newlines(Down(written, n - 1 - last), 1)
              erased == WriteLines(under, RowsOf(Blank, gone), TRUE)
              row == IF gone > 0 THEN n - 1 ELSE last
              top == MaxOf(previousViewportTop + scroll, row - height + 1)
              t == IF gone > 0 THEN Down(erased, -gone) ELSE written
  <2>1. Changed(frame) /\ first >= previousViewportTop /\ first < n
        /\ Rendered(frame, t, row, top, MaxOf(maxLinesRendered, n))
    BY <1>9 DEF RenderChanged
  <2>2. first \in Nat /\ LastChanged(frame) \in Nat /\ first <= LastChanged(frame)
    BY <1>1, <1>2, <2>1, ChangedFacts DEF Changed
  <2>3. last \in first..(n - 1) /\ gone \in Nat /\ target \in 0..first /\ scroll \in Nat
    BY <1>1, <1>2, <2>1, <2>2 DEF MinOf, MaxOf, Growth
  <2>4. row \in 0..LastOf(frame.lines) /\ top \in 0..LastOf(frame.lines)
    <3>1. LastOf(frame.lines) = n - 1 /\ row \in 0..(n - 1)
      BY <1>2, <2>1, <2>2, <2>3 DEF MaxOf, LastOf
    <3>2. previousViewportTop + scroll \in 0..(n - 1)
      <4>1. /\ previousViewportTop \in Nat /\ height \in Nat \ {0}
            /\ first \in Nat /\ first < n /\ previousViewportTop <= first /\ target \in 0..first
        BY <1>1, <2>1, <2>2, <2>3
      <4>. HIDE DEF target, first
      <4>. QED
        BY <1>2, <4>1 DEF MaxOf
    <3>3. row - height + 1 <= n - 1 /\ row - height + 1 \in Int
      BY <1>1, <1>2, <3>1
    <3>4. top \in 0..(n - 1)
      BY <3>2, <3>3 DEF MaxOf
    <3>. QED
      BY <3>1, <3>4
  <2>5. /\ height - 1 - OnScreen(hardwareCursorRow - previousViewportTop) \in Int
        /\ target - hardwareCursorRow \in Int /\ n - 1 - last \in Int /\ -gone \in Int
    BY <1>1, <1>2, <2>3 DEF OnScreen, MaxOf, MinOf
  <2>6. bottom \in Screen(height)
    BY <1>1, <2>5, StaysScreen
  <2>7. moved \in Screen(height)
    BY <1>1, <2>3, <2>5, <2>6, StaysScreen
  <2>8. fresh \in Screen(height)
    BY <1>1, <2>7, StaysScreen
  <2>9. lines \in Seq(Row)
    BY <1>2, <2>2, <2>3
  <2>10. written \in Screen(height)
    BY <1>1, <2>8, <2>9, StaysScreen
  <2>11. Down(written, n - 1 - last) \in Screen(height)
    BY <1>1, <2>5, <2>10, StaysScreen
  <2>12. under \in Screen(height)
    BY <1>1, <2>11, StaysScreen
  <2>13. RowsOf(Blank, gone) \in Seq(Row)
    BY <2>3, RowsOfFacts
  <2>14. erased \in Screen(height)
    BY <1>1, <2>12, <2>13, StaysScreen
  <2>15. t \in Screen(height)
    BY <1>1, <2>5, <2>10, <2>14, StaysScreen
  <2>. QED
    BY <1>3, <2>1, <2>4, <2>15, RenderedDraws
<1>. QED
  BY <1>4, <1>5, <1>6, <1>7, <1>8, <1>9

LEMMA SeqIsFunction ==
    ASSUME NEW S, NEW s \in Seq(S), NEW h, Len(s) = h
    PROVE  s \in [1..h -> S]
OBVIOUS

LEMMA ConcatFacts ==
    ASSUME NEW S, NEW s \in Seq(S), NEW b \in Seq(S), NEW h \in Nat, Len(s) + Len(b) = h
    PROVE  /\ s \o b \in [1..h -> S]
           /\ \A i \in 1..h : (s \o b)[i] = IF i <= Len(s) THEN s[i] ELSE b[i - Len(s)]
<1>1. Len(s \o b) = h /\ s \o b \in Seq(S) /\ Len(s) \in Nat /\ Len(b) \in Nat
  OBVIOUS
<1>2. \A i \in 1..h : (s \o b)[i] = IF i <= Len(s) THEN s[i] ELSE b[i - Len(s)]
  BY <1>1
<1>3. s \o b \in [1..h -> S]
  BY <1>1, SeqIsFunction, Zenon
<1>. QED
  BY <1>2, <1>3

\* The screen that the UI starts on.
StartScreen(r, h) == [rows |-> RowsOf(Shell, r) \o RowsOf(Blank, h - r), row |-> r, scrolled |-> 0]

LEMMA StartFacts ==
    ASSUME NEW h \in Nat \ {0}, NEW r \in 0..(h - 1)
    PROVE  /\ StartScreen(r, h) \in Screen(h) /\ StartScreen(r, h).row = r
           /\ \A i \in 1..h : StartScreen(r, h).rows[i] = IF i <= r THEN Shell ELSE Blank
<1>. DEFINE s == RowsOf(Shell, r)
            b == RowsOf(Blank, h - r)
<1>1. s \in Seq(Row) /\ Len(s) = r /\ \A i \in 1..r : s[i] = Shell
  BY RowsOfFacts
<1>2. b \in Seq(Row) /\ Len(b) = h - r /\ \A i \in 1..(h - r) : b[i] = Blank
  <2>1. h - r \in Nat
    OBVIOUS
  <2>. QED
    BY <2>1, RowsOfFacts
<1>3. Len(s) + Len(b) = h /\ h \in Nat
  BY <1>1, <1>2
<1>4. s \o b \in [1..h -> Row] /\ \A i \in 1..h : (s \o b)[i] = IF i <= Len(s) THEN s[i] ELSE b[i - Len(s)]
  BY <1>1, <1>2, <1>3, ConcatFacts
<1>5. \A i \in 1..h : (s \o b)[i] = IF i <= r THEN Shell ELSE Blank
  BY <1>1, <1>2, <1>4
<1>6. StartScreen(r, h) = [rows |-> s \o b, row |-> r, scrolled |-> 0]
  BY DEF StartScreen
<1>. HIDE DEF s, b
<1>. QED
  BY <1>4, <1>5, <1>6 DEF Screen

LEMMA TypeInit ==
    ASSUME Init
    PROVE  TypeInv
<1>1. PICK h \in scenario.heights : \E r \in 0..(h - 1) :
           /\ home = r
           /\ term = [rows |-> RowsOf(Shell, r) \o RowsOf(Blank, h - r), row |-> r, scrolled |-> 0]
  BY DEF Init
<1>2. h \in Nat \ {0} /\ scenario \in Scenarios /\ scenario.lines \in Nat
  BY RenderAssumption DEF Init
<1>3. height = h /\ term \in Screen(h)
  BY <1>1, <1>2, StartFacts, ScreenHeight DEF StartScreen, height
<1>4. ticks \in Seq({"schedule", "force"})
  BY DEF Init
<1>5. previousLines = <<>> /\ Len(previousLines) = 0
  BY DEF Init
<1>6. hardwareCursorRow \in 0..LastOf(previousLines) /\ previousViewportTop \in 0..LastOf(previousLines)
  BY <1>5 DEF Init, LastOf, MaxOf
<1>7. previousLines \in Seq(Texts) /\ Len(previousLines) <= scenario.lines
  BY <1>2, <1>5
<1>8. height \in scenario.heights /\ term \in Screen(height)
  BY <1>1, <1>3
<1>. QED
  <2>1. /\ width = 1 /\ renderRequested = TRUE /\ renderTimer = FALSE /\ stopped = FALSE
        /\ previousWidth = 0 /\ previousHeight = 0 /\ maxLinesRendered = 0
    BY DEF Init
  <2>2. width \in 1..2 /\ previousWidth \in Int /\ previousHeight \in Int /\ maxLinesRendered \in Nat
    BY <2>1
  <2>3. renderRequested \in BOOLEAN /\ renderTimer \in BOOLEAN /\ stopped \in BOOLEAN
    BY <2>1
  <2>. QED
    BY <1>2, <1>4, <1>6, <1>7, <1>8, <2>2, <2>3, Zenon DEF TypeInv

\* What start(), stop() and a resize leave on the terminal is a screen, too.
LEMMA PlainScreen ==
    ASSUME NEW h \in Nat \ {0}, NEW r \in 0..(h - 1), NEW text \in {Shell, Garbled},
           term' = [rows |-> RowsOf(text, h), row |-> r, scrolled |-> 0]
    PROVE  term' \in Screen(h) /\ height' = h
<1>1. RowsOf(text, h) \in [1..h -> Row]
  BY DEF RowsOf, Row
<1>2. term' \in Screen(h)
  BY <1>1 DEF Screen
<1>. QED
  BY <1>2, ScreenHeight DEF height

LEMMA StopScreen ==
    ASSUME TypeInv, stop
    PROVE  term' \in Screen(height) /\ height' = height
<1>1. height \in Nat \ {0} /\ term \in Screen(height) /\ Len(previousLines) \in Nat /\ hardwareCursorRow \in Int
  BY HeightIsNat DEF TypeInv
<1>2. Len(previousLines) - hardwareCursorRow \in Int
  BY <1>1
<1>3. Down(term, Len(previousLines) - hardwareCursorRow) \in Screen(height)
  BY <1>1, <1>2, StaysScreen
<1>4. Newlines(Down(term, Len(previousLines) - hardwareCursorRow), 1) \in Screen(height)
  BY <1>1, <1>3, StaysScreen
<1>5. term' \in Screen(height)
  BY <1>1, <1>4 DEF stop, Screen
<1>6. Len(term'.rows) = height
  BY <1>1, <1>5, ScreenHeight
<1>. QED
  BY <1>5, <1>6 DEF height

\* A frame, rendered in any way.
DrawnTypes ==
    /\ height' = height /\ term' \in Screen(height) /\ width' \in 1..2
    /\ previousLines' \in Seq(Texts) /\ Len(previousLines') <= scenario.lines
    /\ previousWidth' \in Int /\ previousHeight' \in Int /\ maxLinesRendered' \in Nat
    /\ hardwareCursorRow' \in 0..LastOf(previousLines')
    /\ previousViewportTop' \in 0..LastOf(previousLines')

LEMMA DrawnKeepsTypes ==
    ASSUME TypeInv, doRender
    PROVE  DrawnTypes
<1>1. height \in Nat \ {0} /\ scenario \in Scenarios /\ width \in 1..2
  BY HeightIsNat DEF TypeInv
<1>2. PICK frame \in Frames : Drawn(frame)
  BY doRenderDraws DEF doRender
<1>3. frame.lines \in Seq(Texts) /\ Len(frame.lines) <= scenario.lines
  BY <1>1, FrameFacts
<1>4. Len(term'.rows) = height
  BY <1>1, <1>2, ScreenHeight DEF Drawn
<1>5. height' = height
  BY <1>4 DEF height
<1>. QED
  BY <1>1, <1>2, <1>3, <1>5 DEF Drawn, DrawnTypes

LEMMA TypeStep ==
    ASSUME TypeInv, [Next]_vars
    PROVE  TypeInv'
<1>. USE DEF TypeInv
<1>1. /\ height \in Nat \ {0} /\ ticks \in Seq({"schedule", "force"})
      /\ \A x \in {"schedule", "force"} : Append(ticks, x) \in Seq({"schedule", "force"})
      /\ ticks # <<>> => Tail(ticks) \in Seq({"schedule", "force"})
      /\ scenario.lines \in Nat /\ \A h \in scenario.heights : h \in Nat \ {0}
  BY HeightIsNat, RenderAssumption
<1>2. Forgotten => /\ previousLines' \in Seq(Texts) /\ Len(previousLines') <= scenario.lines
                   /\ previousWidth' \in Int /\ previousHeight' \in Int /\ maxLinesRendered' \in Nat
                   /\ hardwareCursorRow' \in 0..LastOf(previousLines')
                   /\ previousViewportTop' \in 0..LastOf(previousLines')
                   /\ renderTimer' \in BOOLEAN /\ renderRequested' \in BOOLEAN
  <2>. SUFFICES ASSUME Forgotten
                PROVE  /\ previousLines' \in Seq(Texts) /\ Len(previousLines') <= scenario.lines
                       /\ previousWidth' \in Int /\ previousHeight' \in Int /\ maxLinesRendered' \in Nat
                       /\ hardwareCursorRow' \in 0..LastOf(previousLines')
                       /\ previousViewportTop' \in 0..LastOf(previousLines')
                       /\ renderTimer' \in BOOLEAN /\ renderRequested' \in BOOLEAN
    OBVIOUS
  <2>1. /\ previousLines' = <<>> /\ previousWidth' = -1 /\ previousHeight' = -1 /\ maxLinesRendered' = 0
        /\ hardwareCursorRow' = 0 /\ previousViewportTop' = 0 /\ renderTimer' = FALSE /\ renderRequested' = TRUE
    BY DEF Forgotten
  <2>2. Len(previousLines') = 0 /\ LastOf(previousLines') = 0
    BY <2>1 DEF LastOf, MaxOf
  <2>. QED
    <3>1. previousLines' \in Seq(Texts) /\ Len(previousLines') <= scenario.lines
      BY <1>1, <2>1, <2>2
    <3>2. hardwareCursorRow' \in 0..LastOf(previousLines') /\ previousViewportTop' \in 0..LastOf(previousLines')
      BY <2>1, <2>2
    <3>3. previousWidth' \in Int /\ previousHeight' \in Int /\ maxLinesRendered' \in Nat
      BY <2>1
    <3>4. renderTimer' \in BOOLEAN /\ renderRequested' \in BOOLEAN
      BY <2>1
    <3>. QED
      BY <3>1, <3>2, <3>3, <3>4, Zenon
<1>3. CASE requestRender
  BY <1>1, <1>3 DEF requestRender, Requested, screenVars, renderVars, height
<1>4. CASE forceRender
  BY <1>1, <1>2, <1>4 DEF forceRender, screenVars, height
<1>5. CASE scheduleRender
  BY <1>1, <1>5 DEF scheduleRender, screenVars, renderVars, height
<1>6. ASSUME NEW rest \in Seq({"schedule", "force"}), Render(rest), UNCHANGED <<scenario, stopped>>,
             renderTimer' \in BOOLEAN
      PROVE  TypeInv'
  <2>1. DrawnTypes
    BY <1>6, DrawnKeepsTypes DEF Render
  <2>2. renderRequested' \in BOOLEAN /\ ticks' \in Seq({"schedule", "force"})
    <3>1. PICK again \in {FALSE, repeats > 0} :
              renderRequested' = again /\ ticks' = IF again THEN Append(rest, "schedule") ELSE rest
      BY <1>6 DEF Render
    <3>2. again \in BOOLEAN
      <4>1. (repeats > 0) \in BOOLEAN
        OBVIOUS
      <4>. QED
        BY <3>1, <4>1, Zenon
    <3>3. Append(rest, "schedule") \in Seq({"schedule", "force"})
      BY <1>6
    <3>. QED
      BY <1>6, <3>1, <3>2, <3>3
  <2>. QED
    BY <1>6, <2>1, <2>2 DEF DrawnTypes
<1>7. CASE ForcedTick
  <2>1. CASE stopped \/ ~renderRequested
    BY <1>1, <1>7, <2>1 DEF ForcedTick, Skip, screenVars, renderVars, height
  <2>2. CASE ~(stopped \/ ~renderRequested)
    BY <1>1, <1>6, <1>7, <2>2 DEF ForcedTick
  <2>. QED
    BY <2>1, <2>2
<1>8. CASE TimerFires
  <2>1. CASE stopped \/ ~renderRequested
    BY <1>1, <1>8, <2>1 DEF TimerFires, Skip, screenVars, renderVars, height
  <2>2. CASE ~(stopped \/ ~renderRequested)
    <3>1. Render(<<>>) /\ UNCHANGED <<scenario, stopped>> /\ renderTimer' \in BOOLEAN
      BY <1>8, <2>2 DEF TimerFires, Render
    <3>2. <<>> \in Seq({"schedule", "force"})
      BY <1>1, <1>8 DEF TimerFires
    <3>. QED
      BY <1>6, <3>1, <3>2
  <2>. QED
    BY <2>1, <2>2
<1>9. CASE Resize
  <2>1. PICK h \in scenario.heights, w \in 1..2 : \E r \in 0..(h - 1) :
           term' = [rows |-> RowsOf(Garbled, h), row |-> r, scrolled |-> 0] /\ width' = w
    BY <1>9 DEF Resize
  <2>2. term' \in Screen(h) /\ height' = h
    BY <1>1, <2>1, PlainScreen
  <2>. QED
    BY <1>1, <1>9, <2>1, <2>2 DEF Resize, Requested, renderVars
<1>10. CASE stop
  BY <1>10, StopScreen DEF stop, renderVars
<1>11. CASE start
  <2>1. PICK h \in scenario.heights : \E r \in 0..(h - 1) :
           term' = [rows |-> RowsOf(Shell, h), row |-> r, scrolled |-> 0]
    BY <1>11 DEF start
  <2>2. term' \in Screen(h) /\ height' = h
    BY <1>1, <2>1, PlainScreen
  <2>3. CASE scenario.forces
    <3>1. ticks' \in Seq({"schedule", "force"})
      <4>1. ticks' = Append(IF renderRequested THEN ticks ELSE Append(ticks, "schedule"), "force")
        BY <1>11, <2>3 DEF start
      <4>2. (IF renderRequested THEN ticks ELSE Append(ticks, "schedule")) \in Seq({"schedule", "force"})
        BY <1>1
      <4>. QED
        BY <4>1, <4>2
    <3>. QED
      BY <1>2, <1>11, <2>1, <2>2, <2>3, <3>1 DEF start
  <2>4. CASE ~scenario.forces
    BY <1>1, <1>11, <2>1, <2>2, <2>4 DEF start, Requested, renderVars
  <2>. QED
    BY <2>3, <2>4
<1>12. CASE UNCHANGED vars
  BY <1>12 DEF vars, screenVars, bounds, scheduleVars, renderVars, height
<1>. QED
  BY <1>3, <1>4, <1>5, <1>7, <1>8, <1>9, <1>10, <1>11, <1>12 DEF Next

\* The state of the UI and of the terminal keeps its types, for terminals of any
\* height, frames of any length and any order of requests, resizes and stops.
THEOREM TypeCorrect == Spec => []TypeOK
<1>1. Init => TypeInv
  BY TypeInit
<1>2. TypeInv /\ [Next]_vars => TypeInv'
  BY TypeStep
<1>3. TypeInv => TypeOK
  <2>. SUFFICES ASSUME TypeInv PROVE TypeOK
    OBVIOUS
  <2>1. term.row \in 0..(height - 1)
    BY DEF TypeInv, Screen
  <2>2. hardwareCursorRow \in 0..scenario.lines /\ previousViewportTop \in 0..scenario.lines
    <3>1. scenario.lines \in Nat /\ Len(previousLines) \in Nat /\ Len(previousLines) <= scenario.lines
      BY RenderAssumption DEF TypeInv
    <3>2. LastOf(previousLines) \in Nat /\ LastOf(previousLines) <= scenario.lines
      BY <3>1 DEF LastOf, MaxOf
    <3>. QED
      BY <3>1, <3>2 DEF TypeInv
  <2>. QED
    BY <2>1, <2>2, Zenon DEF TypeInv, TypeOK
<1>. QED
  BY <1>1, <1>2, <1>3, PTL DEF Spec

(***************************************************************************)
(* Requests                                                                *)
(***************************************************************************)

\* Whoever calls start() after stop() calls requestRender(true), as
\* interactive-mode.ts does.
Restarts == scenario.forces \/ scenario.stops = 0

LEMMA TickInit ==
    ASSUME Init
    PROVE  TickInv
<1>1. stops = scenario.stops /\ scenario.stops \in Nat /\ stopped = FALSE /\ ticks = <<"schedule">>
  BY RenderAssumption DEF Init
<1>2. ticks # <<>>
  BY <1>1
<1>. QED
  BY <1>1, <1>2 DEF TickInv, RequestedIsComing

LEMMA TickStep ==
    ASSUME Restarts, TypeInv, TickInv, [Next]_vars
    PROVE  TickInv' /\ Restarts'
<1>1. /\ scenario.stops \in Nat /\ (scenario.stops # 0 => scenario.forces)
      /\ ticks \in Seq({"schedule", "force"})
  BY RenderAssumption DEF Restarts, TypeInv
<1>0. SUFFICES TickInv' /\ scenario' = scenario
  BY DEF Restarts
<1>2. \A s \in Seq({"schedule", "force"}) : \A x : Append(s, x) # <<>>
  OBVIOUS
<1>3. Requested /\ UNCHANGED <<renderTimer, stopped>> /\ (renderRequested => RequestedIsComing) =>
          RequestedIsComing'
  BY <1>1, <1>2 DEF Requested, RequestedIsComing
<1>. USE DEF TickInv
<1>4. CASE requestRender
  BY <1>3, <1>4 DEF requestRender, bounds
<1>5. CASE forceRender
  <2>1. ticks' # <<>> /\ UNCHANGED <<scenario, stops, stopped>>
    BY <1>1, <1>2, <1>5 DEF forceRender, bounds
  <2>. QED
    BY <2>1 DEF RequestedIsComing
<1>6. CASE scheduleRender
  BY <1>6 DEF scheduleRender, bounds, RequestedIsComing
<1>7. ASSUME NEW rest \in Seq({"schedule", "force"}), Render(rest), renderRequested' => ticks' # <<>> \/ renderTimer',
             UNCHANGED <<scenario, stops, stopped>>
      PROVE  TickInv' /\ scenario' = scenario
  BY <1>7 DEF RequestedIsComing
<1>8. \A rest \in Seq({"schedule", "force"}) : Render(rest) /\ renderRequested' => ticks' # <<>>
  BY <1>2 DEF Render
<1>9. CASE ForcedTick
  <2>1. CASE stopped \/ ~renderRequested
    BY <1>9, <2>1 DEF ForcedTick, Skip, RequestedIsComing
  <2>2. CASE ~(stopped \/ ~renderRequested)
    <3>1. Tail(ticks) \in Seq({"schedule", "force"})
      BY <1>1, <1>9 DEF ForcedTick
    <3>2. Render(Tail(ticks)) /\ UNCHANGED <<scenario, stops, stopped>>
      BY <1>9, <2>2 DEF ForcedTick
    <3>. QED
      BY <1>7, <1>8, <3>1, <3>2
  <2>. QED
    BY <2>1, <2>2
<1>10. CASE TimerFires
  <2>1. CASE stopped \/ ~renderRequested
    BY <1>10, <2>1 DEF TimerFires, Skip, RequestedIsComing
  <2>2. CASE ~(stopped \/ ~renderRequested)
    <3>1. <<>> \in Seq({"schedule", "force"})
      BY <1>1, <1>10 DEF TimerFires
    <3>2. Render(<<>>) /\ UNCHANGED <<scenario, stops, stopped>>
      BY <1>10, <2>2 DEF TimerFires
    <3>. QED
      BY <1>7, <1>8, <3>1, <3>2
  <2>. QED
    BY <2>1, <2>2
<1>11. CASE Resize
  BY <1>3, <1>11 DEF Resize
<1>12. CASE stop
  BY <1>1, <1>12 DEF stop, RequestedIsComing
<1>13. CASE start
  <2>1. scenario.forces /\ UNCHANGED <<scenario, stops>> /\ ~stopped'
    BY <1>1, <1>13 DEF start, bounds
  <2>2. ticks' # <<>>
    <3>1. ticks' = Append(IF renderRequested THEN ticks ELSE Append(ticks, "schedule"), "force")
      BY <1>13, <2>1 DEF start
    <3>2. (IF renderRequested THEN ticks ELSE Append(ticks, "schedule")) \in Seq({"schedule", "force"})
      BY <1>1
    <3>. QED
      BY <1>2, <3>1, <3>2
  <2>. QED
    BY <2>1, <2>2 DEF RequestedIsComing
<1>14. CASE UNCHANGED vars
  BY <1>14 DEF vars, bounds, scheduleVars, RequestedIsComing
<1>. QED
  BY <1>4, <1>5, <1>6, <1>9, <1>10, <1>11, <1>12, <1>13, <1>14 DEF Next

\* A render that was requested is on its way: a timer or a callback will start it,
\* so that requestRender() may rely on it and return.
THEOREM RequestedIsComingHolds == Spec /\ Restarts => []RequestedIsComing
<1>1. Init => TypeInv /\ TickInv
  BY TypeInit, TickInit
<1>2. Restarts /\ TypeInv /\ TickInv /\ [Next]_vars => (Restarts /\ TypeInv /\ TickInv)'
  BY TypeStep, TickStep
<1>3. TickInv => RequestedIsComing
  BY DEF TickInv
<1>. QED
  BY <1>1, <1>2, <1>3, PTL DEF Spec

(***************************************************************************)
(* What the screen shows                                                   *)
(***************************************************************************)

\* The screen shows the lines that were rendered last, and the cursor is on it.
OnView ==
    /\ previousViewportTop <= hardwareCursorRow
    /\ Shows(term, height, previousLines, previousViewportTop, TopRow)

LEMMA RenderedShows ==
    ASSUME TypeInv, ~scenario.unseen, NEW frame \in Frames, NEW t \in Screen(height),
           NEW row \in 0..LastOf(frame.lines), NEW top \in 0..LastOf(frame.lines), NEW most \in Nat,
           Rendered(frame, t, row, top, most),
           NEW T \in Int, t.row = T + row - top, Shows(t, height, frame.lines, top, T)
    PROVE  OnView'
<1>. DEFINE target == IF frame.cursor = -1 THEN row ELSE frame.cursor
            n == Len(frame.lines)
<1>1. height \in Nat \ {0} /\ scenario \in Scenarios /\ t.row \in Int
  BY HeightIsNat DEF TypeInv, Screen
<1>2. target \in 0..LastOf(frame.lines) /\ n \in Nat /\ LastOf(frame.lines) = IF n = 0 THEN 0 ELSE n - 1
  BY <1>1, FrameFacts DEF LastOf, MaxOf
<1>3. target >= top
  BY DEF Rendered
<1>4. t.row + (target - row) = T + target - top
  BY <1>1, <1>2
<1>5. T + target - top \in 0..(height - 1)
  <2>1. T \in 0..(height - 1) /\ n <= top + height - T /\ (T > 0 => top = 0)
    BY DEF Shows
  <2>. HIDE DEF target, n
  <2>. QED
    BY <1>1, <1>2, <1>3, <2>1
<1>6. Down(t, target - row).row = T + target - top /\ Down(t, target - row).rows = t.rows
      /\ Down(t, target - row) \in Screen(height)
  <2>1. target - row \in Int
    BY <1>2
  <2>. QED
    BY <1>1, <1>4, <1>5, <2>1, DownFacts
<1>7. term'.row = T + target - top /\ term'.rows = t.rows
  BY <1>6 DEF Rendered, Screen
<1>8. Drawn(frame)
  BY RenderedDraws
<1>9. height' = height /\ previousLines' = frame.lines /\ hardwareCursorRow' = target /\ previousViewportTop' = top
  BY <1>1, <1>8, ScreenHeight DEF Drawn, Rendered, height
<1>10. TopRow' = T
  BY <1>2, <1>7, <1>9 DEF TopRow
<1>. QED
  BY <1>3, <1>7, <1>9, <1>10 DEF OnView, Shows

\* A screen that was cleared.
LEMMA ClearedShows ==
    ASSUME TypeInv, ~scenario.unseen, NEW frame \in Frames, FullRender(frame, TRUE)
    PROVE  OnView'
<1>. DEFINE n == Len(frame.lines)
            h == height
            t == ClearAll(term)
            w == WriteLines(t, frame.lines, FALSE)
            row == MaxOf(0, n - 1)
            top == MaxOf(0, n - h)
<1>1. h \in Nat \ {0} /\ scenario \in Scenarios /\ term \in Screen(h)
  BY HeightIsNat DEF TypeInv
<1>2. frame.lines \in Seq(Row) /\ n \in Nat
  BY <1>1, FrameFacts
<1>3. t \in Screen(h) /\ t.row = 0 /\ \A i \in 1..h : t.rows[i] = Blank
  BY <1>1, ClearFacts
<1>4. row \in 0..LastOf(frame.lines) /\ top \in 0..LastOf(frame.lines)
  BY <1>1, <1>2 DEF MaxOf, LastOf
<1>5. Rendered(frame, w, row, top, n)
  BY DEF FullRender
<1>. HIDE DEF t
<1>6. w \in Screen(h) /\ 0 \in Int /\ w.row = 0 + row - top /\ Shows(w, h, frame.lines, top, 0)
  <2>1. CASE n = 0
    <3>1. w = t /\ row = 0 /\ top = 0
      BY <1>1, <2>1 DEF WriteLines, MaxOf
    <3>. HIDE DEF w, row, top
    <3>. QED
      BY <1>1, <1>3, <2>1, <3>1 DEF Shows
  <2>2. CASE n # 0
    <3>. DEFINE s == Scrolled(t.row, n - 1, h)
    <3>1. frame.lines # <<>>
      BY <2>2
    <3>2. /\ w \in Screen(h) /\ s \in Nat /\ w.row = t.row + n - 1 - s
          /\ \A i \in 1..h : w.rows[i] =
                IF i + s - t.row \in 1..n
                THEN IF FALSE \/ (IF i + s <= h THEN t.rows[i + s] ELSE Blank) = Blank
                     THEN frame.lines[i + s - t.row] ELSE Garbled
                ELSE IF i + s <= h THEN t.rows[i + s] ELSE Blank
      <4>1. t \in Screen(h)
        BY <1>3
      <4>. QED
        BY <1>1, <1>2, <3>1, <4>1, WriteFacts
    <3>3. s = top /\ row = n - 1 /\ n \in Nat
      BY <1>1, <1>2, <1>3, <2>2 DEF Scrolled, MaxOf
    <3>. HIDE DEF s, top, row, w
    <3>4. \A i \in 1..h : w.rows[i] = IF i + s <= n THEN frame.lines[s + i] ELSE Blank
      BY <1>1, <1>3, <3>2, <3>3
    <3>5. n <= s + h
      BY <1>1, <1>2, <1>3, <2>2 DEF s, Scrolled, MaxOf
    <3>. QED
      BY <1>1, <1>3, <3>2, <3>3, <3>4, <3>5 DEF Shows
  <2>. QED
    BY <2>1, <2>2
<1>. HIDE DEF w, row, top
<1>. QED
  BY <1>2, <1>4, <1>5, <1>6, RenderedShows

\* The first frame goes below what was there before.
LEMMA FirstShows ==
    ASSUME TypeInv, ~scenario.unseen, OnView, previousLines = <<>>, NEW frame \in Frames, FullRender(frame, FALSE)
    PROVE  OnView'
<1>. DEFINE n == Len(frame.lines)
            h == height
            r == term.row
            w == WriteLines(term, frame.lines, FALSE)
            row == MaxOf(0, n - 1)
            top == MaxOf(0, n - h)
            s == Scrolled(r, n - 1, h)
<1>1. h \in Nat \ {0} /\ scenario \in Scenarios /\ term \in Screen(h) /\ r \in 0..(h - 1) /\ maxLinesRendered \in Nat
  BY HeightIsNat DEF TypeInv, Screen
<1>2. frame.lines \in Seq(Row) /\ n \in Nat
  BY <1>1, FrameFacts
<1>3. \A i \in 1..h : IF i <= r THEN term.rows[i] \in {Shell, Blank} ELSE term.rows[i] = Blank
  <2>1. hardwareCursorRow = 0 /\ previousViewportTop = 0 /\ Len(previousLines) = 0
    BY DEF TypeInv, LastOf, MaxOf
  <2>2. TopRow = r
    BY <1>1, <2>1 DEF TopRow
  <2>. QED
    BY <1>1, <2>1, <2>2 DEF OnView, Shows
<1>4. row \in 0..LastOf(frame.lines) /\ top \in 0..LastOf(frame.lines) /\ MaxOf(maxLinesRendered, n) \in Nat
  BY <1>1, <1>2 DEF MaxOf, LastOf
<1>5. Rendered(frame, w, row, top, MaxOf(maxLinesRendered, n))
  BY DEF FullRender
<1>6. PICK T \in Int : w \in Screen(h) /\ w.row = T + row - top /\ Shows(w, h, frame.lines, top, T)
  <2>1. CASE n = 0
    <3>1. w = term /\ row = 0 /\ top = 0
      BY <1>1, <2>1 DEF WriteLines, MaxOf
    <3>. HIDE DEF w, row, top, r
    <3>2. Shows(w, h, frame.lines, top, r)
      BY <1>1, <1>3, <2>1, <3>1 DEF Shows, r
    <3>3. w.row = r + row - top /\ r \in Int
      BY <1>1, <3>1 DEF r
    <3>. QED
      BY <1>1, <3>1, <3>2, <3>3
  <2>2. CASE n # 0
    <3>. DEFINE T == r - s + top
                Under(i) == IF i + s <= h THEN term.rows[i + s] ELSE Blank
    <3>1. frame.lines # <<>>
      BY <2>2
    <3>2. /\ w \in Screen(h) /\ s \in Nat /\ w.row = r + n - 1 - s
          /\ \A i \in 1..h : w.rows[i] =
                IF i + s - r \in 1..n
                THEN IF FALSE \/ Under(i) = Blank THEN frame.lines[i + s - r] ELSE Garbled
                ELSE Under(i)
      BY <1>1, <1>2, <3>1, WriteFacts
    <3>. HIDE DEF w, r
    <3>3. /\ row = n - 1 /\ top \in Nat /\ T \in 0..(h - 1) /\ n <= top + h - T /\ (T > 0 => top = 0)
          /\ w.row = T + row - top /\ T = r - s + top /\ r \in 0..(h - 1)
      <4>1. s = (IF r + n - h > 0 THEN r + n - h ELSE 0) /\ top = (IF n - h > 0 THEN n - h ELSE 0) /\ row = n - 1
            /\ r \in 0..(h - 1) /\ T = r - s + top
        BY <1>1, <1>2, <2>2 DEF Scrolled, MaxOf, r
      <4>2. s \in Nat /\ w.row = r + n - 1 - s
        BY <3>2
      <4>. HIDE DEF s, top, row, T
      <4>3. h \in Nat \ {0} /\ n \in Nat \ {0}
        BY <1>1, <1>2, <2>2
      <4>. HIDE DEF h, n
      <4>. QED
        BY <4>1, <4>2, <4>3
    <3>. HIDE DEF s, top, row, T
    <3>4. \A i \in 1..h : i > T => Under(i) = Blank /\ i + s - r = top + i - T /\ top + i - T >= 1
      <4>. SUFFICES ASSUME NEW i \in 1..h, i > T
                    PROVE  Under(i) = Blank /\ i + s - r = top + i - T /\ top + i - T >= 1
        OBVIOUS
      <4>1. i + s - r = top + i - T /\ top + i - T >= 1 /\ i + s > r /\ i + s \in Nat
        BY <1>1, <3>2, <3>3
      <4>. QED
        BY <1>1, <1>3, <4>1 DEF r
    <3>5. \A i \in 1..h : i <= T => Under(i) \in {Shell, Blank} /\ i + s - r \notin 1..n
      BY <1>1, <1>3, <3>2, <3>3
    <3>6. T \in Int
      BY <3>3
    <3>7. Shows(w, h, frame.lines, top, T)
      <4>. HIDE DEF T, s, top, row, w, Under
      <4>1. \A i \in 1..h : i <= T => w.rows[i] \in {Shell, Blank}
        BY <3>2, <3>5
      <4>2. \A i \in 1..h : i > T => w.rows[i] = IF top + i - T <= n THEN frame.lines[top + i - T] ELSE Blank
        <5>. SUFFICES ASSUME NEW i \in 1..h, i > T
                      PROVE  w.rows[i] = IF top + i - T <= n THEN frame.lines[top + i - T] ELSE Blank
          OBVIOUS
        <5>1. Under(i) = Blank /\ i + s - r = top + i - T /\ top + i - T >= 1 /\ top + i - T \in Int
          BY <3>3, <3>4
        <5>2. top + i - T \in 1..n <=> top + i - T <= n
          BY <1>2, <5>1
        <5>. QED
          BY <3>2, <5>1, <5>2
      <4>. QED
        BY <1>1, <3>3, <4>1, <4>2 DEF Shows
    <3>. QED
      BY <3>2, <3>3, <3>6, <3>7
  <2>. QED
    BY <2>1, <2>2
<1>. QED
  BY <1>4, <1>5, <1>6, RenderedShows

\* The lines that are on the screen did not change.
LEMMA KeptShows ==
    ASSUME NEW h \in Nat, NEW t, NEW old \in Seq(Texts), NEW new \in Seq(Texts), NEW top \in Nat, NEW T,
           Shows(t, h, old, top, T), Len(old) = Len(new),
           \A i \in 1..Len(old) : i > top => new[i] = old[i]
    PROVE  Shows(t, h, new, top, T)
<1>1. T \in 0..(h - 1) /\ Len(old) <= top + h - T /\ (T > 0 => top = 0) /\ Len(old) \in Nat
  BY DEF Shows
<1>2. ASSUME NEW i \in 1..h, i > T
      PROVE  t.rows[i] = IF top + i - T <= Len(new) THEN new[top + i - T] ELSE Blank
  <2>1. t.rows[i] = IF top + i - T <= Len(old) THEN old[top + i - T] ELSE Blank
    BY <1>1, <1>2 DEF Shows
  <2>2. top + i - T > top /\ top + i - T \in Nat
    BY <1>1, <1>2
  <2>. QED
    BY <1>1, <2>1, <2>2
<1>. QED
  BY <1>1, <1>2 DEF Shows

LEMMA ViewFacts ==
    ASSUME TypeInv, OnView
    PROVE  LET m == Len(previousLines)
               hw == hardwareCursorRow
               top == previousViewportTop
           IN /\ term \in Screen(height) /\ height \in Nat \ {0} /\ m \in Nat
              /\ previousLines \in Seq(Texts)
              /\ hw \in Nat /\ top \in Nat /\ top <= hw /\ (m > 0 => hw < m) /\ (m = 0 => hw = 0)
              /\ TopRow \in 0..(height - 1) /\ m <= top + height - TopRow /\ (TopRow > 0 => top = 0)
              /\ term.row = TopRow + hw - top /\ term.row \in 0..(height - 1)
              /\ hw \in 0..LastOf(previousLines) /\ top \in 0..LastOf(previousLines)
<1>1. /\ term \in Screen(height) /\ height \in Nat \ {0} /\ Len(previousLines) \in Nat
      /\ previousLines \in Seq(Texts)
      /\ hardwareCursorRow \in 0..LastOf(previousLines) /\ previousViewportTop \in 0..LastOf(previousLines)
  BY HeightIsNat DEF TypeInv
<1>2. LastOf(previousLines) = IF Len(previousLines) = 0 THEN 0 ELSE Len(previousLines) - 1
  BY <1>1 DEF LastOf, MaxOf
<1>3. term.row \in 0..(height - 1)
  BY <1>1 DEF Screen
<1>4. TopRow = term.row - (hardwareCursorRow - previousViewportTop)
  BY DEF TopRow
<1>5. /\ TopRow \in 0..(height - 1) /\ Len(previousLines) <= previousViewportTop + height - TopRow
      /\ TopRow > 0 => previousViewportTop = 0
      /\ previousViewportTop <= hardwareCursorRow
  BY DEF OnView, Shows
<1>6. term.row = TopRow + hardwareCursorRow - previousViewportTop
  BY <1>1, <1>3, <1>4
<1>. QED
  BY <1>1, <1>2, <1>3, <1>5, <1>6

LEMMA SameShows ==
    ASSUME TypeInv, ~scenario.unseen, OnView, NEW frame \in Frames, RenderSame(frame) \/ RenderUnseen(frame)
    PROVE  OnView'
<1>. DEFINE n == Len(frame.lines)
            m == Len(previousLines)
            top == previousViewportTop
<1>1. /\ term \in Screen(height) /\ height \in Nat \ {0} /\ m \in Nat /\ previousLines \in Seq(Texts)
      /\ top \in Nat /\ scenario \in Scenarios /\ TopRow \in Int
      /\ term.row = TopRow + hardwareCursorRow - top /\ maxLinesRendered \in Nat
      /\ hardwareCursorRow \in 0..LastOf(previousLines) /\ top \in 0..LastOf(previousLines)
  BY ViewFacts DEF TypeInv
<1>2. frame.lines \in Seq(Texts) /\ n \in Nat
  BY <1>1, FrameFacts
<1>3. Rendered(frame, term, hardwareCursorRow, top, maxLinesRendered)
  BY DEF RenderSame, RenderUnseen
<1>4. n = m /\ \A i \in 1..n : i > top => frame.lines[i] = previousLines[i]
  <2>1. CASE RenderSame(frame)
    <3>1. ChangedLines(frame) = {}
      BY <2>1 DEF RenderSame, Unchanged
    <3>2. \A i \in 0..(MaxOf(n, m) - 1) : ~(i >= MinOf(n, m)) /\ frame.lines[i + 1] = previousLines[i + 1]
      BY <3>1 DEF ChangedLines
    <3>3. n = m
      <4>1. CASE n # m
        <5>1. MinOf(n, m) \in 0..(MaxOf(n, m) - 1) /\ MinOf(n, m) >= MinOf(n, m)
          BY <1>1, <1>2, <4>1 DEF MinOf, MaxOf
        <5>. QED
          BY <3>2, <5>1
      <4>. QED
        BY <4>1
    <3>4. ASSUME NEW i \in 1..n PROVE frame.lines[i] = previousLines[i]
      <4>1. i - 1 \in 0..(MaxOf(n, m) - 1) /\ (i - 1) + 1 = i
        BY <1>1, <1>2, <3>3 DEF MaxOf
      <4>. QED
        BY <3>2, <4>1
    <3>. QED
      BY <3>3, <3>4
  <2>2. CASE RenderUnseen(frame)
    <3>1. Changed(frame) /\ LastChanged(frame) < top /\ n = m
      BY <1>1, <1>2, <2>2 DEF RenderUnseen, ChangedAbove, Growth
    <3>2. LastChanged(frame) \in Nat /\ \A i \in 1..n : i > LastChanged(frame) + 1 =>
              i <= m /\ frame.lines[i] = previousLines[i]
      BY <1>1, <1>2, <3>1, ChangedFacts DEF Changed
    <3>3. \A i \in 1..n : i > top => i > LastChanged(frame) + 1
      BY <1>1, <3>1, <3>2
    <3>. QED
      BY <3>1, <3>2, <3>3
  <2>. QED
    BY <2>1, <2>2
<1>5. Shows(term, height, frame.lines, top, TopRow)
  <2>1. Shows(term, height, previousLines, top, TopRow)
    BY DEF OnView
  <2>. QED
    BY <1>1, <1>2, <1>4, <2>1, KeptShows
<1>6. LastOf(frame.lines) = LastOf(previousLines)
  BY <1>4 DEF LastOf
<1>. QED
  BY <1>1, <1>3, <1>5, <1>6, RenderedShows

\* Rows of lines that are gone are erased.
LEMMA ErasedShows ==
    ASSUME NEW h \in Nat \ {0}, NEW t, NEW old \in Seq(Texts), NEW new \in Seq(Texts), NEW top \in Nat, NEW T,
           Shows(t, h, old, top, T), Len(new) <= Len(old), top <= Len(new),
           \A i \in 1..Len(new) : new[i] = old[i],
           NEW e,
           \A i \in 1..h : e.rows[i] =
               IF i - 1 \in (T + Len(new) - top)..(T + Len(old) - top - 1) THEN Blank ELSE t.rows[i]
    PROVE  Shows(e, h, new, top, T)
<1>. DEFINE n == Len(new)
            m == Len(old)
<1>1. T \in 0..(h - 1) /\ m <= top + h - T /\ (T > 0 => top = 0) /\ m \in Nat /\ n \in Nat /\ n <= m
  BY DEF Shows
<1>2. ASSUME NEW i \in 1..h, i > T
      PROVE  e.rows[i] = IF top + i - T <= n THEN new[top + i - T] ELSE Blank
  <2>. DEFINE k == top + i - T
  <2>1. t.rows[i] = IF k <= m THEN old[k] ELSE Blank
    BY <1>1, <1>2 DEF Shows
  <2>2. k \in Nat \ {0} /\ (i - 1 \in (T + n - top)..(T + m - top - 1) <=> k > n /\ k <= m)
    <3>. HIDE DEF n, m
    <3>1. n \in Nat /\ m \in Nat /\ T \in Nat /\ top \in Nat /\ i \in Nat /\ i > T
      BY <1>1, <1>2
    <3>2. k \in Nat \ {0}
      BY <3>1
    <3>3. i - 1 >= T + n - top <=> k > n
      BY <3>1
    <3>4. i - 1 <= T + m - top - 1 <=> k <= m
      BY <3>1
    <3>5. i - 1 \in (T + n - top)..(T + m - top - 1) <=> i - 1 >= T + n - top /\ i - 1 <= T + m - top - 1
      BY <3>1
    <3>. HIDE DEF k
    <3>. QED
      BY <3>2, <3>3, <3>4, <3>5
  <2>3. e.rows[i] = IF k > n /\ k <= m THEN Blank ELSE t.rows[i]
    BY <2>2
  <2>. HIDE DEF k
  <2>4. e.rows[i] = IF k <= n THEN new[k] ELSE Blank
    BY <1>1, <2>1, <2>2, <2>3
  <2>. QED
    BY <2>4 DEF k
<1>3. ASSUME NEW i \in 1..h, i <= T
      PROVE  e.rows[i] \in {Shell, Blank}
  <2>1. i - 1 \notin (T + n - top)..(T + m - top - 1)
    BY <1>1, <1>3
  <2>2. e.rows[i] = t.rows[i]
    BY <2>1
  <2>3. t.rows[i] \in {Shell, Blank}
    BY <1>3 DEF Shows
  <2>. QED
    BY <2>2, <2>3
<1>. QED
  BY <1>1, <1>2, <1>3 DEF Shows

LEMMA DeletedShows ==
    ASSUME TypeInv, ~scenario.unseen, OnView, NEW frame \in Frames, RenderDeleted(frame)
    PROVE  OnView'
<1>. DEFINE n == Len(frame.lines)
            m == Len(previousLines)
            h == height
            hw == hardwareCursorRow
            top == previousViewportTop
            T == TopRow
            extra == -Growth(frame)
            target == MaxOf(0, n - 1)
            below == IF n = 0 THEN 0 ELSE 1
            t1 == Down(term, target - hw)
            t2 == Down(t1, below)
            e == EraseRows(t2, extra)
            t == Down(e, -(extra - 1 + below))
<1>1. CASE target < top \/ extra > h
  BY <1>1, ClearedShows DEF RenderDeleted
<1>2. CASE ~(target < top \/ extra > h)
  <2>1. /\ term \in Screen(h) /\ h \in Nat \ {0} /\ m \in Nat /\ previousLines \in Seq(Texts)
        /\ hw \in Nat /\ top \in Nat /\ top <= hw /\ (m > 0 => hw < m)
        /\ T \in 0..(h - 1) /\ m <= top + h - T /\ (T > 0 => top = 0)
        /\ term.row = T + hw - top /\ scenario \in Scenarios /\ maxLinesRendered \in Nat
    BY ViewFacts DEF TypeInv
  <2>2. frame.lines \in Seq(Texts) /\ n \in Nat
    BY <2>1, FrameFacts
  <2>3. n < m /\ \A i \in 1..n : frame.lines[i] = previousLines[i]
    <3>1. Changed(frame) /\ FirstChanged(frame) >= n
      BY DEF RenderDeleted
    <3>2. LET f == FirstChanged(frame)
          IN f \in Nat /\ (f < n \/ f < m) /\ \A i \in 1..n : i <= f => frame.lines[i] = previousLines[i]
      BY <2>1, <2>2, <3>1, ChangedFacts DEF Changed
    <3>. QED
      BY <2>1, <2>2, <3>1, <3>2
  <2>4. /\ extra = m - n /\ target \in Nat /\ target >= top
        /\ below \in {0, 1} /\ target + below = n /\ n >= top
        /\ h \in Nat \ {0} /\ m \in Nat /\ n \in Nat /\ n < m /\ hw \in Nat /\ top \in Nat
        /\ T \in 0..(h - 1) /\ m <= top + h - T /\ term.row = T + hw - top
    <3>1. target = (IF n = 0 THEN 0 ELSE n - 1) /\ extra = m - n
      BY <2>1, <2>2 DEF Growth, MaxOf
    <3>2. n = 0 => top = 0
      BY <1>2, <2>1, <3>1
    <3>. HIDE DEF target, extra, T, h
    <3>. QED
      BY <1>2, <2>1, <2>2, <2>3, <3>1, <3>2
  <2>5. Rendered(frame, t, target, top, maxLinesRendered)
    BY <1>2 DEF RenderDeleted
  <2>6. Shows(term, h, previousLines, top, T)
    BY DEF OnView
  <2>7. target \in 0..LastOf(frame.lines) /\ top \in 0..LastOf(frame.lines)
    BY <2>1, <2>2, <2>4 DEF LastOf, MaxOf
  <2>. HIDE DEF T, h, extra, target, below, m, n, hw, top
  <2>8. t1 \in Screen(h) /\ t1.row = T + target - top /\ t1.rows = term.rows
    <3>1. target - hw \in Int /\ term.row + (target - hw) = T + target - top /\ T + target - top \in 0..(h - 1)
      BY <2>4
    <3>. QED
      BY <2>1, <3>1, DownFacts
  <2>9. t2 \in Screen(h) /\ t2.row = T + n - top /\ t2.rows = term.rows
    <3>1. below \in Int /\ t1.row + below = T + n - top /\ T + n - top \in 0..(h - 1)
      BY <2>4, <2>8
    <3>. HIDE DEF t1
    <3>. QED
      BY <2>1, <2>8, <3>1, DownFacts
  <2>10. /\ e \in Screen(h) /\ e.row = T + m - top - 1
         /\ \A i \in 1..h : e.rows[i] =
                IF i - 1 \in (T + n - top)..(T + m - top - 1) THEN Blank ELSE term.rows[i]
    <3>. HIDE DEF t2
    <3>1. extra \in Nat \ {0} /\ t2.row + extra <= h /\ t2.row + extra - 1 = T + m - top - 1
      BY <2>4, <2>9
    <3>2. /\ e \in Screen(h) /\ e.row = t2.row + extra - 1
          /\ \A i \in 1..h : e.rows[i] =
                 IF i - 1 \in t2.row..(t2.row + extra - 1) THEN Blank ELSE t2.rows[i]
      BY <2>1, <2>9, <3>1, EraseFacts
    <3>. QED
      BY <2>9, <3>1, <3>2
  <2>11. t \in Screen(h) /\ t.row = T + target - top /\ t.rows = e.rows
    <3>. HIDE DEF e
    <3>1. /\ -(extra - 1 + below) \in Int
          /\ e.row + -(extra - 1 + below) = T + target - top /\ T + target - top \in 0..(h - 1)
      BY <2>4, <2>10
    <3>. QED
      BY <2>1, <2>10, <3>1, DownFacts
  <2>. HIDE DEF t, e
  <2>12. Shows(t, h, frame.lines, top, T)
    <3>1. \A i \in 1..h : t.rows[i] =
                IF i - 1 \in (T + n - top)..(T + m - top - 1) THEN Blank ELSE term.rows[i]
      BY <2>10, <2>11
    <3>2. n <= m /\ top <= n
      BY <2>4
    <3>3. /\ h \in Nat \ {0} /\ previousLines \in Seq(Texts) /\ top \in Nat
      BY <2>1
    <3>4. \A i \in 1..n : frame.lines[i] = previousLines[i]
      BY <2>3
    <3>5. /\ Len(frame.lines) <= Len(previousLines) /\ top <= Len(frame.lines)
          /\ \A i \in 1..Len(frame.lines) : frame.lines[i] = previousLines[i]
      BY <3>2, <3>4 DEF n, m
    <3>6. \A i \in 1..h : t.rows[i] =
              IF i - 1 \in (T + Len(frame.lines) - top)..(T + Len(previousLines) - top - 1)
              THEN Blank ELSE term.rows[i]
      BY <3>1 DEF n, m
    <3>7. frame.lines \in Seq(Texts)
      BY <2>2
    <3>. QED
      BY <2>6, <3>3, <3>5, <3>6, <3>7, ErasedShows, ZenonT(60)
  <2>13. T \in Int
    BY <2>1
  <2>. QED
    BY <2>1, <2>5, <2>7, <2>11, <2>12, <2>13, RenderedShows DEF h, top
<1>. QED
  BY <1>1, <1>2

\* The whole screen is written again.
LEMMA VisibleShows ==
    ASSUME TypeInv, ~scenario.unseen, ~scenario.short, OnView, NEW frame \in Frames, RenderVisible(frame)
    PROVE  OnView'
<1>. DEFINE n == Len(frame.lines)
            m == Len(previousLines)
            h == height
            hw == hardwareCursorRow
            old == previousViewportTop
            top == MaxOf(0, n - h)
            grows == Growth(frame) > 0
            bottom == Down(term, h - 1 - OnScreen(hw - old))
            scrolled == IF grows THEN Newlines(bottom, Growth(frame)) ELSE term
            row == IF grows THEN n - 1 ELSE hw
            from == Down(scrolled, -OnScreen(row - top))
            lines == SubSeq(frame.lines, top + 1, n)
            w == WriteLines(from, lines, TRUE)
<1>1. /\ term \in Screen(h) /\ h \in Nat \ {0} /\ m \in Nat /\ previousLines \in Seq(Texts)
      /\ hw \in Nat /\ old \in Nat /\ old <= hw /\ (m > 0 => hw < m)
      /\ TopRow \in 0..(h - 1) /\ m <= old + h - TopRow /\ (TopRow > 0 => old = 0)
      /\ term.row = TopRow + hw - old /\ term.row \in 0..(h - 1) /\ scenario \in Scenarios /\ maxLinesRendered \in Nat
  BY ViewFacts DEF TypeInv
<1>2. frame.lines \in Seq(Texts) /\ frame.lines \in Seq(Row) /\ n \in Nat
  BY <1>1, FrameFacts
<1>3. /\ ChangedAbove(frame) /\ Growth(frame) = n - m /\ n >= m /\ (grows <=> n > m)
      /\ (grows /\ n < h => FALSE)
      /\ Rendered(frame, w, n - 1, top, MaxOf(maxLinesRendered, n))
  <2>1. ChangedAbove(frame) /\ Growth(frame) >= 0 /\ (grows /\ n < h => scenario.short)
        /\ Rendered(frame, w, n - 1, top, MaxOf(maxLinesRendered, n))
    BY DEF RenderVisible
  <2>2. Growth(frame) = n - m
    BY DEF Growth
  <2>3. n \in Nat /\ m \in Nat
    BY <1>1, <1>2
  <2>. HIDE DEF w, n, m, top
  <2>4. n >= m /\ (grows <=> n > m) /\ (grows /\ n < h => FALSE)
    BY <2>1, <2>2, <2>3
  <2>. QED
    BY <2>1, <2>2, <2>4
<1>4. n > 0 /\ old > 0
  <2>1. ChangedLines(frame) # {} /\ FirstChanged(frame) < MinOf(n, old)
    BY <1>3 DEF ChangedAbove, Changed
  <2>2. FirstChanged(frame) \in Nat
    BY <1>1, <1>2, <2>1, ChangedFacts
  <2>. QED
    BY <1>1, <1>2, <2>1, <2>2 DEF MinOf
<1>5. /\ h \in Nat \ {0} /\ n \in Nat \ {0} /\ m \in Nat /\ hw \in Nat /\ old \in Nat /\ old <= hw
      /\ TopRow = 0 /\ term.row = hw - old /\ hw - old \in 0..(h - 1)
      /\ top = (IF n > h THEN n - h ELSE 0) /\ (grows => n >= h /\ n > m) /\ (~grows => n = m /\ n <= old + h)
      /\ row \in Int
  BY <1>1, <1>2, <1>3, <1>4 DEF MaxOf
<1>6. \A r \in Int : OnScreen(r) = IF r < 0 THEN 0 ELSE IF r < h THEN r ELSE h - 1
  BY <1>5 DEF OnScreen, MaxOf, MinOf
<1>7. bottom \in Screen(h) /\ bottom.row = h - 1
  <2>1. /\ h - 1 - OnScreen(hw - old) \in Int /\ term.row + (h - 1 - OnScreen(hw - old)) = h - 1
        /\ h - 1 \in 0..(h - 1)
    BY <1>5, <1>6
  <2>. QED
    BY <1>1, <2>1, DownFacts
<1>8. from \in Screen(h) /\ from.row = 0 /\ (n < h => from.rows = term.rows)
  <2>1. CASE grows
    <3>1. Growth(frame) \in Nat /\ Scrolled(h - 1, Growth(frame), h) = Growth(frame)
      BY <1>1, <1>2, <1>3, <1>5 DEF Scrolled, MaxOf
    <3>. HIDE DEF bottom
    <3>2. scrolled \in Screen(h) /\ scrolled.row = h - 1
      <4>1. /\ Newlines(bottom, Growth(frame)) \in Screen(h)
            /\ Newlines(bottom, Growth(frame)).row =
                  bottom.row + Growth(frame) - Scrolled(bottom.row, Growth(frame), h)
        BY <1>1, <1>7, <3>1, NewlinesFacts
      <4>2. Newlines(bottom, Growth(frame)).row = h - 1
        BY <1>5, <1>7, <3>1, <4>1
      <4>. QED
        BY <2>1, <4>1, <4>2
    <3>3. row - top = h - 1 /\ row - top \in Int
      BY <1>5, <2>1
    <3>4. -OnScreen(row - top) \in Int /\ scrolled.row + -OnScreen(row - top) = 0 /\ 0 \in 0..(h - 1)
      BY <1>5, <1>6, <3>2, <3>3
    <3>. HIDE DEF scrolled
    <3>5. from \in Screen(h) /\ from.row = 0
      BY <1>1, <3>2, <3>4, DownFacts
    <3>. QED
      BY <1>5, <2>1, <3>5
  <2>2. CASE ~grows
    <3>1. row = hw /\ scrolled = term /\ hw - top \in Int /\ hw - top >= term.row
      BY <1>5, <2>2
    <3>2. -OnScreen(hw - top) \in Int /\ term.row + -OnScreen(hw - top) <= 0
      BY <1>5, <1>6, <3>1
    <3>3. /\ Down(term, -OnScreen(hw - top)) \in Screen(h) /\ Down(term, -OnScreen(hw - top)).row = 0
          /\ Down(term, -OnScreen(hw - top)).rows = term.rows
      <4>1. term.row + -OnScreen(hw - top) = 0 => term.row + -OnScreen(hw - top) \in 0..(h - 1)
        BY <1>5
      <4>2. term.row + -OnScreen(hw - top) = 0 \/ term.row + -OnScreen(hw - top) < 0
        BY <1>5, <3>2
      <4>. QED
        BY <1>1, <3>2, <4>1, <4>2, DownFacts
    <3>. QED
      BY <3>1, <3>3
  <2>. QED
    BY <2>1, <2>2
<1>9. /\ lines \in Seq(Row) /\ Len(lines) = n - top /\ lines # <<>>
      /\ \A k \in 1..(n - top) : lines[k] = frame.lines[top + k]
  <2>1. top + 1 \in 1..n /\ top \in Nat
    BY <1>5
  <2>. HIDE DEF top
  <2>2. lines \in Seq(Row) /\ Len(lines) = n - top /\ \A k \in 1..(n - top) : lines[k] = frame.lines[top + k]
    BY <1>2, <2>1
  <2>3. Len(lines) # 0
    BY <1>2, <2>1, <2>2
  <2>. HIDE DEF lines
  <2>4. lines # <<>>
    BY <2>3
  <2>. QED
    BY <2>2, <2>4
<1>. HIDE DEF from, lines, top, h
<1>10. /\ w \in Screen(h) /\ w.row = n - top - 1
       /\ \A i \in 1..h : w.rows[i] = IF i <= n - top THEN frame.lines[top + i] ELSE from.rows[i]
  <2>1. Scrolled(from.row, Len(lines) - 1, h) = 0
    <3>1. from.row + (Len(lines) - 1) <= h - 1 /\ from.row \in Int /\ Len(lines) - 1 \in Int /\ h \in Int
      BY <1>5, <1>8, <1>9
    <3>2. \A x, y, z \in Int : x + y <= z - 1 => Scrolled(x, y, z) = 0
      BY DEF Scrolled, MaxOf
    <3>. QED
      BY <3>1, <3>2, Zenon
  <2>. DEFINE s == Scrolled(from.row, Len(lines) - 1, h)
  <2>2. /\ w \in Screen(h) /\ w.row = from.row + Len(lines) - 1 - s
        /\ \A i \in 1..h : w.rows[i] =
                IF i + s - from.row \in 1..Len(lines) THEN lines[i + s - from.row]
                ELSE IF i + s <= h THEN from.rows[i + s] ELSE Blank
    <3>1. h \in Nat \ {0} /\ from \in Screen(h) /\ lines \in Seq(Row) /\ lines # <<>>
      BY <1>1, <1>8, <1>9
    <3>. QED
      BY <3>1, OverwriteFacts
  <2>7. s = 0
    BY <2>1
  <2>. HIDE DEF s
  <2>3. n - top \in Nat
    BY <1>5
  <2>. HIDE DEF w
  <2>4. \A i \in 1..h : w.rows[i] = IF i <= n - top THEN lines[i] ELSE from.rows[i]
    BY <1>5, <1>8, <1>9, <2>2, <2>3, <2>7
  <2>5. w.row = n - top - 1
    BY <1>5, <1>8, <1>9, <2>2, <2>7
  <2>6. \A i \in 1..h : i <= n - top => lines[i] = frame.lines[top + i]
    BY <1>9, <2>3
  <2>. QED
    BY <2>2, <2>4, <2>5, <2>6
<1>. HIDE DEF w, n, m
<1>11. Shows(w, h, frame.lines, top, 0)
  <2>1. ASSUME NEW i \in 1..h PROVE w.rows[i] = IF top + i - 0 <= n THEN frame.lines[top + i - 0] ELSE Blank
    <3>1. CASE i <= n - top
      <4>1. top + i - 0 <= n /\ top + i - 0 = top + i
        BY <1>5, <3>1
      <4>. QED
        BY <1>10, <3>1, <4>1
    <3>2. CASE ~(i <= n - top)
      <4>1. n < h /\ top = 0 /\ ~(top + i - 0 <= n) /\ i > n
        BY <1>5, <3>2
      <4>2. w.rows[i] = term.rows[i]
        BY <1>8, <1>10, <3>2, <4>1
      <4>3. term.rows[i] = IF old + i - 0 <= m THEN previousLines[old + i - 0] ELSE Blank
        BY <1>5, <2>1 DEF OnView, Shows, h, m
      <4>4. ~(old + i - 0 <= m)
        BY <1>5, <4>1
      <4>. QED
        BY <4>1, <4>2, <4>3, <4>4
    <3>. QED
      BY <3>1, <3>2
  <2>2. 0 \in 0..(h - 1) /\ n <= top + h - 0
    BY <1>5
  <2>. QED
    BY <2>1, <2>2 DEF Shows, n
<1>12. n - 1 \in 0..LastOf(frame.lines) /\ top \in 0..LastOf(frame.lines) /\ MaxOf(maxLinesRendered, n) \in Nat
  BY <1>1, <1>5 DEF LastOf, MaxOf, n
<1>13. w.row = 0 + (n - 1) - top /\ 0 \in Int
  BY <1>5, <1>10
<1>. QED
  BY <1>3, <1>10, <1>11, <1>12, <1>13, RenderedShows DEF h

\* The lines of "new" but those from "first" to "last" are as in "old".
KeptLines(old, new, first, last) ==
    \A i \in 1..Len(new) : i <= first \/ i > last + 1 => i <= Len(old) /\ new[i] = old[i]
ShiftedRows(t1, t, n, h) == \A i \in 1..h : t1.rows[i] = IF i + n <= h THEN t.rows[i + n] ELSE Blank
PartOf(lines, new, first, last) ==
    /\ lines \in Seq(Row) /\ Len(lines) = last - first + 1
    /\ \A k \in 1..(last - first + 1) : lines[k] = new[first + k]

\* Lines are written over those on the screen, which scrolls if that is needed.
LEMMA OverwrittenShows ==
    ASSUME NEW h \in Nat \ {0}, NEW t \in Screen(h), NEW old \in Seq(Texts), NEW new \in Seq(Texts),
           NEW top \in Nat, NEW T \in 0..(h - 1), Shows(t, h, old, top, T),
           NEW first \in Nat, NEW last \in Nat, top <= first, first <= last, first <= Len(old),
           last < Len(new), Len(old) <= Len(new), Len(new) # Len(old) => last = Len(new) - 1,
           KeptLines(old, new, first, last),
           NEW t1 \in Screen(h), NEW s1 \in Nat,
           t1.row + s1 = T + first - top, s1 > 0 => t1.row = h - 1,
           ShiftedRows(t1, t, s1, h), NEW lines, PartOf(lines, new, first, last)
    PROVE  LET w == WriteLines(t1, lines, TRUE)
               newTop == MaxOf(top, last - h + 1)
           IN /\ w \in Screen(h) /\ newTop \in Nat
              /\ Shows(w, h, new, newTop, w.row - last + newTop)
<1>. DEFINE w == WriteLines(t1, lines, TRUE)
            newTop == MaxOf(top, last - h + 1)
            T2 == w.row - last + newTop
            s2 == Scrolled(t1.row, last - first, h)
            s == s1 + s2
            m == Len(old)
            n == Len(new)
            Under(i) == IF i + s <= h THEN t.rows[i + s] ELSE Blank
<1>1. T \in 0..(h - 1) /\ m <= top + h - T /\ (T > 0 => top = 0)
  BY DEF Shows
<1>2. m \in Nat /\ n \in Nat /\ t1.row \in 0..(h - 1) /\ m <= n
  BY DEF Screen
<1>3. lines \in Seq(Row) /\ lines # <<>> /\ Len(lines) = last - first + 1 /\ Len(lines) - 1 = last - first
  <2>1. lines \in Seq(Row) /\ Len(lines) = last - first + 1
    BY DEF PartOf
  <2>2. Len(lines) # 0 /\ Len(lines) - 1 = last - first
    BY <2>1
  <2>. QED
    BY <2>1, <2>2
<1>4. /\ w \in Screen(h) /\ s2 \in Nat /\ w.row = t1.row + Len(lines) - 1 - s2
      /\ \A i \in 1..h : w.rows[i] =
            IF i + s2 - t1.row \in 1..Len(lines) THEN lines[i + s2 - t1.row]
            ELSE IF i + s2 <= h THEN t1.rows[i + s2] ELSE Blank
  <2>1. s2 = Scrolled(t1.row, Len(lines) - 1, h)
    BY <1>3
  <2>. DEFINE q == Scrolled(t1.row, Len(lines) - 1, h)
  <2>2. /\ w \in Screen(h) /\ q \in Nat /\ w.row = t1.row + Len(lines) - 1 - q
        /\ \A i \in 1..h : w.rows[i] =
              IF i + q - t1.row \in 1..Len(lines) THEN lines[i + q - t1.row]
              ELSE IF i + q <= h THEN t1.rows[i + q] ELSE Blank
    <3>1. lines \in Seq(Row) /\ lines # <<>>
      BY <1>3
    <3>. QED
      BY <3>1, OverwriteFacts
  <2>3. s2 = q
    BY <2>1
  <2>. HIDE DEF s2, q, w
  <2>. QED
    BY <2>2, <2>3
<1>5. /\ s2 \in Nat /\ s \in Nat /\ t1.row + (last - first) - s2 = T + last - top - s
      /\ newTop \in Nat /\ newTop >= top /\ T2 = T - s + newTop - top
      /\ T2 \in 0..(h - 1) /\ (T2 > 0 => newTop = 0)
      /\ n <= newTop + h - T2
  <2>. DEFINE r1 == t1.row
  <2>1. w.row = r1 + (last - first) - s2
    BY <1>2, <1>3, <1>4
  <2>2. s2 \in Nat /\ s2 = IF r1 + (last - first) > h - 1 THEN r1 + (last - first) - (h - 1) ELSE 0
    <3>1. s2 = Scrolled(r1, last - first, h) /\ r1 \in 0..(h - 1)
      BY <1>2
    <3>. HIDE DEF s2, r1
    <3>. QED
      BY <3>1 DEF Scrolled, MaxOf
  <2>3. newTop \in Nat /\ newTop >= top /\ newTop = IF top >= last - h + 1 THEN top ELSE last - h + 1
    BY DEF MaxOf
  <2>4. r1 \in 0..(h - 1) /\ r1 + s1 = T + first - top /\ (s1 > 0 => r1 = h - 1)
    BY <1>2
  <2>5. last < n /\ m <= n /\ (n # m => last = n - 1)
    OBVIOUS
  <2>. HIDE DEF r1, s2, newTop, w, m, n
  <2>6. s \in Nat /\ r1 + (last - first) - s2 = T + last - top - s /\ T2 = T - s + newTop - top
    BY <2>1, <2>2, <2>3, <2>4
  <2>7. s = IF T + last - top > h - 1 THEN T + last - top - (h - 1) ELSE 0
    BY <2>2, <2>4
  <2>. HIDE DEF s, T2
  <2>8. T2 \in 0..(h - 1) /\ (T2 > 0 => newTop = 0)
    BY <1>1, <2>3, <2>6, <2>7
  <2>9. n <= top + h - T + s
    BY <1>1, <1>2, <2>5, <2>6, <2>7
  <2>10. n <= newTop + h - T2
    BY <1>2, <2>3, <2>6, <2>8, <2>9
  <2>. QED
    BY <2>2, <2>3, <2>6, <2>8, <2>10 DEF r1
<1>11. \A i \in 1..h : i > T => t.rows[i] = IF top + i - T <= m THEN old[top + i - T] ELSE Blank
  <2>1. \A i \in 1..h : IF i <= T THEN t.rows[i] \in {Shell, Blank}
                         ELSE t.rows[i] = IF top + i - T <= m THEN old[top + i - T] ELSE Blank
    BY DEF Shows
  <2>2. \A i \in 1..h : i > T => ~(i <= T)
    OBVIOUS
  <2>. QED
    BY <2>1, <2>2
<1>10. s = s1 + s2
  OBVIOUS
<1>. HIDE DEF m, n, s, s2, newTop, T2, w
<1>6. ASSUME NEW i \in 1..h
      PROVE  w.rows[i] = IF i + s - T + top \in (first + 1)..(last + 1) THEN new[i + s - T + top] ELSE Under(i)
  <2>. DEFINE k == i + s2 - t1.row
  <2>1. k \in Int /\ first + k = i + s - T + top /\ Len(lines) = last - first + 1
    <3>1. Len(lines) = last - first + 1
      BY <1>3
    <3>2. k \in Int /\ first + k = i + s - T + top
      <4>1. /\ s2 \in Nat /\ s = s1 + s2 /\ t1.row \in Int /\ t1.row = T + first - top - s1
            /\ T \in Int
        <5>1. s2 \in Nat /\ s = s1 + s2
          BY <1>5, <1>10
        <5>2. t1.row \in Int /\ T \in Int
          BY <1>2
        <5>3. t1.row = T + first - top - s1
          BY <5>2
        <5>. QED
          BY <5>1, <5>2, <5>3
      <4>. QED
        BY <4>1
    <3>. QED
      BY <3>1, <3>2
  <2>2. w.rows[i] = IF k \in 1..Len(lines) THEN lines[k] ELSE IF i + s2 <= h THEN t1.rows[i + s2] ELSE Blank
    BY <1>4
  <2>3. (IF i + s2 <= h THEN t1.rows[i + s2] ELSE Blank) = Under(i)
    <3>1. CASE i + s2 <= h
      <4>1. i + s2 \in 1..h /\ i + s2 + s1 = i + s
        BY <1>5, <1>10, <3>1
      <4>. QED
        BY <3>1, <4>1 DEF ShiftedRows
    <3>2. CASE ~(i + s2 <= h)
      <4>1. ~(i + s <= h)
        BY <1>5, <1>10, <3>2
      <4>. QED
        BY <3>2, <4>1
    <3>. QED
      BY <3>1, <3>2
  <2>. HIDE DEF k, Under
  <2>4. k \in 1..Len(lines) => lines[k] = new[first + k]
    BY <2>1 DEF PartOf
  <2>5. k \in 1..Len(lines) <=> first + k \in (first + 1)..(last + 1)
    BY <2>1
  <2>. QED
    BY <2>1, <2>2, <2>3, <2>4, <2>5
<1>7. ASSUME NEW i \in 1..h, i <= T2
      PROVE  w.rows[i] \in {Shell, Blank}
  <2>1. newTop = 0 /\ top = 0 /\ i + s \in 1..h /\ i + s <= T /\ i + s - T + top \notin (first + 1)..(last + 1)
    BY <1>1, <1>2, <1>5, <1>7
  <2>2. w.rows[i] = t.rows[i + s]
    BY <1>6, <2>1
  <2>. QED
    BY <2>1, <2>2 DEF Shows
<1>8. ASSUME NEW i \in 1..h, i > T2
      PROVE  w.rows[i] = IF newTop + i - T2 <= n THEN new[newTop + i - T2] ELSE Blank
  <2>. DEFINE L == i + s - T + top
  <2>1. L = newTop + i - T2 /\ L \in Nat /\ L > newTop /\ L > top /\ i + s > T /\ i + s \in Nat
    BY <1>1, <1>5, <1>8
  <2>2. CASE L \in (first + 1)..(last + 1)
    <3>1. L <= n
      BY <1>1, <1>2, <2>2 DEF n
    <3>. HIDE DEF L
    <3>. QED
      BY <1>6, <2>1, <2>2, <3>1 DEF L
  <2>3. CASE L \notin (first + 1)..(last + 1)
    <3>1. w.rows[i] = Under(i)
      BY <1>6, <2>3
    <3>2. CASE L <= n
      <4>1. L <= m /\ new[L] = old[L]
        <5>1. L \in 1..n /\ (L <= first \/ L > last + 1)
          BY <2>1, <2>3, <3>2
        <5>. QED
          BY <5>1 DEF KeptLines, m, n
      <4>2. i + s \in 1..h /\ top + (i + s) - T = L
        BY <1>1, <1>2, <1>5, <2>1, <4>1
      <4>3. t.rows[i + s] = IF top + (i + s) - T <= m THEN old[top + (i + s) - T] ELSE Blank
        BY <1>11, <2>1, <4>2
      <4>. HIDE DEF L
      <4>4. Under(i) = old[L]
        BY <4>1, <4>2, <4>3
      <4>. QED
        BY <2>1, <3>1, <3>2, <4>1, <4>4
    <3>3. CASE ~(L <= n)
      <4>1. Under(i) = Blank
        <5>1. CASE i + s <= h
          <6>1. i + s \in 1..h /\ ~(top + (i + s) - T <= m)
            BY <1>1, <1>2, <1>5, <2>1, <3>3, <5>1
          <6>2. t.rows[i + s] = Blank
            BY <1>11, <2>1, <6>1
          <6>. QED
            BY <5>1, <6>2
        <5>2. CASE ~(i + s <= h)
          BY <5>2
        <5>. QED
          BY <5>1, <5>2
      <4>. HIDE DEF L
      <4>. QED
        BY <2>1, <3>1, <3>3, <4>1
    <3>. QED
      BY <3>2, <3>3
  <2>. QED
    BY <2>2, <2>3
<1>9. Shows(w, h, new, newTop, T2)
  <2>1. \A i \in 1..h :
            IF i <= T2 THEN w.rows[i] \in {Shell, Blank}
            ELSE w.rows[i] = IF newTop + i - T2 <= n THEN new[newTop + i - T2] ELSE Blank
    <3>1. \A i \in 1..h : i > T2 <=> ~(i <= T2)
      BY <1>5
    <3>. QED
      BY <1>7, <1>8, <3>1
  <2>. QED
    BY <1>5, <2>1 DEF Shows, n
<1>. QED
  BY <1>4, <1>5, <1>9 DEF T2, newTop, w

LEMMA ChangedShows ==
    ASSUME TypeInv, ~scenario.unseen, OnView, NEW frame \in Frames, RenderChanged(frame)
    PROVE  OnView'
<1>. DEFINE n == Len(frame.lines)
            m == Len(previousLines)
            h == height
            hw == hardwareCursorRow
            top == previousViewportTop
            T == TopRow
            gone == MaxOf(0, -Growth(frame))
            first == FirstChanged(frame)
            last == MinOf(LastChanged(frame), n - 1)
            appends == Growth(frame) > 0 /\ first = m /\ first > 0
            target == IF appends THEN first - 1 ELSE first
            scroll == MaxOf(0, target - (top + h - 1))
            bottom == Down(term, h - 1 - OnScreen(hw - top))
            moved == IF scroll > 0 THEN Newlines(bottom, scroll) ELSE Down(term, target - hw)
            more == IF appends THEN 1 ELSE 0
            fresh == Newlines(moved, more)
            lines == SubSeq(frame.lines, first + 1, last + 1)
            written == WriteLines(fresh, lines, TRUE)
            under == Newlines(Down(written, n - 1 - last), 1)
            blanks == RowsOf(Blank, gone)
            erased == WriteLines(under, blanks, TRUE)
            row == IF gone > 0 THEN n - 1 ELSE last
            newTop == MaxOf(top + scroll, row - h + 1)
            t == IF gone > 0 THEN Down(erased, -gone) ELSE written
<1>1. /\ term \in Screen(h) /\ h \in Nat \ {0} /\ m \in Nat /\ previousLines \in Seq(Texts)
      /\ hw \in Nat /\ top \in Nat /\ top <= hw /\ (m > 0 => hw < m) /\ (m = 0 => hw = 0)
      /\ T \in 0..(h - 1) /\ m <= top + h - T /\ (T > 0 => top = 0)
      /\ term.row = T + hw - top /\ scenario \in Scenarios /\ maxLinesRendered \in Nat
  BY ViewFacts DEF TypeInv
<1>2. frame.lines \in Seq(Texts) /\ frame.lines \in Seq(Row) /\ n \in Nat
  BY <1>1, FrameFacts
<1>3. Changed(frame) /\ first >= top /\ first < n /\ Rendered(frame, t, row, newTop, MaxOf(maxLinesRendered, n))
  BY DEF RenderChanged
<1>4. LET l == LastChanged(frame)
      IN /\ first \in Nat /\ l \in Nat /\ first <= l /\ first <= n /\ first <= m
         /\ (n # m => l = MaxOf(n, m) - 1) /\ (n = m => l < n)
         /\ \A i \in 1..n : i <= first => i <= m /\ frame.lines[i] = previousLines[i]
         /\ \A i \in 1..n : i > l + 1 => i <= m /\ frame.lines[i] = previousLines[i]
  BY <1>1, <1>2, <1>3, ChangedFacts DEF Changed
<1>5. Growth(frame) = n - m
  BY DEF Growth
<1>6. /\ last \in Nat /\ first <= last /\ last < n /\ (n # m => last = n - 1) /\ (n = m => last = LastChanged(frame))
      /\ gone \in Nat /\ (n < m => gone = m - n) /\ (n >= m => gone = 0)
  <2>1. n > m => LastChanged(frame) = n - 1
    BY <1>1, <1>2, <1>4 DEF MaxOf
  <2>2. n < m => LastChanged(frame) = m - 1
    BY <1>1, <1>2, <1>4 DEF MaxOf
  <2>3. LastChanged(frame) \in Nat /\ first \in Nat /\ first <= LastChanged(frame) /\ first < n
    BY <1>3, <1>4
  <2>4. last = IF LastChanged(frame) < n - 1 THEN LastChanged(frame) ELSE n - 1
    BY DEF MinOf
  <2>5. gone = IF n - m < 0 THEN m - n ELSE 0
    BY <1>1, <1>2, <1>5 DEF MaxOf
  <2>6. n = m => LastChanged(frame) < n
    BY <1>4
  <2>. HIDE DEF first, last, gone, n, m
  <2>. QED
    BY <1>1, <1>2, <2>1, <2>2, <2>3, <2>4, <2>5, <2>6
<1>7. /\ first \in Nat /\ target \in Nat /\ more \in {0, 1} /\ target + more = first /\ target >= top
      /\ T + target - top \in 0..(h - 1) /\ scroll = 0
  <2>1. appends <=> n > m /\ first = m /\ first > 0
    BY <1>1, <1>2, <1>5
  <2>2. first \in Nat /\ first >= top /\ first <= m /\ first < n
    BY <1>3, <1>4
  <2>3. first = m => n > m
    BY <1>1, <1>2, <2>2
  <2>. HIDE DEF appends, first, n, m, h, T
  <2>4. target \in Nat /\ more \in {0, 1} /\ target + more = first
    BY <1>1, <2>1, <2>2
  <2>9. m \in Nat
    BY <1>1
  <2>5. target < m \/ (m = 0 /\ target = 0 /\ top = 0)
    <3>1. CASE first = m /\ first > 0
      <4>1. target = first - 1
        BY <2>1, <2>3, <3>1
      <4>2. first \in Nat /\ m \in Nat /\ first = m
        BY <2>2, <2>9, <3>1
      <4>3. first - 1 < m
        BY <4>2
      <4>4. target < m
        BY <4>1, <4>3, Zenon
      <4>. QED
        BY <4>4, Zenon
    <3>2. CASE ~(first = m /\ first > 0)
      <4>1. target = first
        BY <2>1, <3>2
      <4>2. m = 0 => top = 0
        BY <1>1
      <4>3. first < m \/ (m = 0 /\ first = 0)
        <5>1. first \in Nat /\ m \in Nat /\ first <= m /\ (first = m => ~(first > 0))
          BY <2>2, <2>9, <3>2
        <5>. QED
          BY <5>1
      <4>. QED
        BY <4>1, <4>2, <4>3, Zenon
    <3>. QED
      BY <3>1, <3>2
  <2>6. target >= top
    BY <1>1, <2>1, <2>2
  <2>. HIDE DEF target
  <2>7. T + target - top \in 0..(h - 1)
    BY <1>1, <2>4, <2>5, <2>6
  <2>8. scroll = 0
    BY <1>1, <2>4, <2>7 DEF MaxOf
  <2>. QED
    BY <2>2, <2>4, <2>6, <2>7, <2>8
<1>. HIDE DEF T, h, gone, first, last, target, scroll, more
<1>8. moved \in Screen(h) /\ moved.row = T + target - top /\ moved.rows = term.rows
  <2>1. target - hw \in Int /\ term.row + (target - hw) = T + target - top
    BY <1>1, <1>7
  <2>2. moved = Down(term, target - hw)
    BY <1>7
  <2>3. h \in Nat \ {0} /\ term \in Screen(h) /\ term.row + (target - hw) \in 0..(h - 1)
    BY <1>1, <1>7, <2>1
  <2>4. LET d == Down(term, target - hw)
        IN d \in Screen(h) /\ d.row = T + target - top /\ d.rows = term.rows
    BY <2>1, <2>3, DownFacts
  <2>. HIDE DEF moved
  <2>. QED
    BY <2>2, <2>4
<1>. DEFINE s1 == Scrolled(moved.row, more, h)
<1>. HIDE DEF moved
<1>9. /\ fresh \in Screen(h) /\ s1 \in Nat /\ fresh.row + s1 = T + first - top /\ (s1 > 0 => fresh.row = h - 1)
      /\ ShiftedRows(fresh, term, s1, h)
  <2>1. more \in Nat
    BY <1>7
  <2>2. /\ fresh \in Screen(h) /\ s1 \in Nat /\ fresh.row = moved.row + more - s1
        /\ \A i \in 1..h : fresh.rows[i] = IF i + s1 <= h THEN moved.rows[i + s1] ELSE Blank
    BY <1>1, <1>8, <2>1, NewlinesFacts
  <2>3. s1 = IF moved.row + more > h - 1 THEN moved.row + more - (h - 1) ELSE 0
    BY <1>1, <1>7, <1>8 DEF Scrolled, MaxOf
  <2>4. fresh.row + s1 = T + first - top /\ (s1 > 0 => fresh.row = h - 1)
    <3>. HIDE DEF fresh, s1
    <3>. QED
      BY <1>1, <1>7, <1>8, <2>2, <2>3
  <2>. QED
    BY <1>8, <2>2, <2>4 DEF ShiftedRows
<1>10. /\ PartOf(lines, frame.lines, first, last)
  <2>1. first + 1 \in 1..n /\ last + 1 \in 1..n /\ first <= last /\ first \in Nat /\ last \in Nat
    BY <1>2, <1>6, <1>7
  <2>2. /\ lines \in Seq(Row) /\ Len(lines) = (last + 1) - (first + 1) + 1
        /\ \A k \in 1..((last + 1) - (first + 1) + 1) : lines[k] = frame.lines[(first + 1) + k - 1]
    BY <1>2, <2>1
  <2>3. (last + 1) - (first + 1) + 1 = last - first + 1
    BY <2>1
  <2>4. \A k \in 1..(last - first + 1) : (first + 1) + k - 1 = first + k
    BY <2>1
  <2>. HIDE DEF lines
  <2>. QED
    BY <2>2, <2>3, <2>4 DEF PartOf
<1>11. Shows(term, h, previousLines, top, T)
  BY DEF OnView, h, T
<1>. HIDE DEF fresh, lines, s1
<1>12. CASE n >= m
  <2>1. gone = 0 /\ t = written /\ row = last
    <3>1. gone = 0 /\ ~(gone > 0)
      BY <1>6, <1>12
    <3>. HIDE DEF written, erased
    <3>. QED
      BY <3>1
  <2>2. KeptLines(previousLines, frame.lines, first, last)
    <3>1. \A i \in 1..n : i > last + 1 => i <= m /\ frame.lines[i] = previousLines[i]
      <4>1. CASE n = m
        BY <1>4, <1>6, <4>1
      <4>2. CASE n # m
        BY <1>2, <1>6, <4>2
      <4>. QED
        BY <4>1, <4>2
    <3>. QED
      BY <1>4, <3>1 DEF KeptLines, first
  <2>3. newTop = MaxOf(top, last - h + 1)
    BY <1>1, <1>7, <2>1
  <2>4. /\ written \in Screen(h) /\ newTop \in Nat
        /\ Shows(written, h, frame.lines, newTop, written.row - last + newTop)
    <3>1. /\ first \in Nat /\ last \in Nat /\ top <= first /\ first <= last /\ first <= Len(previousLines)
          /\ last < Len(frame.lines) /\ Len(previousLines) <= Len(frame.lines)
          /\ (Len(frame.lines) # Len(previousLines) => last = Len(frame.lines) - 1)
      BY <1>3, <1>4, <1>6, <1>7, <1>12 DEF first
    <3>2. /\ fresh \in Screen(h) /\ s1 \in Nat /\ fresh.row + s1 = T + first - top /\ (s1 > 0 => fresh.row = h - 1)
          /\ ShiftedRows(fresh, term, s1, h)
      BY <1>9
    <3>3. h \in Nat \ {0} /\ term \in Screen(h) /\ previousLines \in Seq(Texts) /\ frame.lines \in Seq(Texts)
          /\ top \in Nat /\ T \in 0..(h - 1)
      BY <1>1, <1>2
    <3>4. LET w == WriteLines(fresh, lines, TRUE)
              nt == MaxOf(top, last - h + 1)
          IN w \in Screen(h) /\ nt \in Nat /\ Shows(w, h, frame.lines, nt, w.row - last + nt)
      BY <1>10, <1>11, <2>2, <3>1, <3>2, <3>3, OverwrittenShows
    <3>. HIDE DEF newTop
    <3>. QED
      BY <2>3, <3>4
  <2>. DEFINE T2 == written.row - last + newTop
  <2>5. T2 \in Int /\ written.row = T2 + last - newTop
    <3>. HIDE DEF written, newTop
    <3>1. written.row \in Int
      BY <1>1, <2>4 DEF Screen
    <3>. QED
      BY <1>6, <2>4, <3>1
  <2>6. last \in 0..LastOf(frame.lines) /\ newTop \in 0..LastOf(frame.lines) /\ MaxOf(maxLinesRendered, n) \in Nat
    <3>1. LastOf(frame.lines) = n - 1
      BY <1>2, <1>6 DEF LastOf, MaxOf
    <3>2. newTop = top \/ newTop = last - h + 1
      BY <2>3 DEF MaxOf
    <3>3. top <= n - 1
      BY <1>1, <1>2, <1>3, <1>6, <1>7 DEF first
    <3>. HIDE DEF newTop
    <3>4. newTop <= n - 1
      BY <1>1, <1>2, <1>6, <3>2, <3>3
    <3>. QED
      BY <1>1, <1>2, <1>6, <2>4, <3>1, <3>4 DEF MaxOf
  <2>. HIDE DEF written, newTop, T2
  <2>7. Rendered(frame, written, last, newTop, MaxOf(maxLinesRendered, n))
    BY <1>3, <2>1
  <2>8. Shows(written, h, frame.lines, newTop, T2)
    BY <2>4 DEF T2
  <2>. QED
    BY <2>4, <2>5, <2>6, <2>7, <2>8, RenderedShows DEF h
<1>13. CASE n < m
  \* The screen shows "mixed" when the lines are written, and those below are to be erased.
  <2>. DEFINE mixed == [i \in 1..m |-> IF i <= n THEN frame.lines[i] ELSE previousLines[i]]
  <2>1. mixed \in Seq(Texts) /\ Len(mixed) = m
    <3>1. \A i \in 1..m : (IF i <= n THEN frame.lines[i] ELSE previousLines[i]) \in Texts
      BY <1>1, <1>2
    <3>2. mixed \in [1..m -> Texts] /\ m \in Nat
      BY <1>1, <3>1
    <3>. HIDE DEF m
    <3>. QED
      BY <3>2
  <2>2. /\ \A i \in 1..m : i <= n => mixed[i] = frame.lines[i]
        /\ \A i \in 1..m : i > n => mixed[i] = previousLines[i]
    BY <1>1, <1>2
  <2>. HIDE DEF mixed
  <2>3. last = n - 1 /\ n \in Nat \ {0} /\ gone = m - n
    BY <1>1, <1>2, <1>6, <1>13
  <2>4. /\ first \in Nat /\ last \in Nat /\ top <= first /\ first <= last /\ first <= Len(previousLines)
        /\ last < Len(mixed) /\ Len(previousLines) <= Len(mixed)
        /\ (Len(mixed) # Len(previousLines) => last = Len(mixed) - 1)
    <3>1. first \in Nat /\ last \in Nat /\ first <= last /\ last < n /\ n \in Nat /\ m \in Nat
      BY <1>1, <1>2, <1>6, <1>7
    <3>2. top <= first /\ first <= m
      BY <1>1, <1>3, <1>4, <3>1 DEF first
    <3>3. last < m
      BY <1>13, <3>1
    <3>. QED
      BY <2>1, <3>1, <3>2, <3>3
  <2>5. KeptLines(previousLines, mixed, first, last)
    <3>1. \A i \in 1..m : i > last + 1 => i > n
      BY <1>1, <1>2, <2>3
    <3>2. \A i \in 1..m : i <= first => i \in 1..n /\ i <= n
      BY <1>1, <1>2, <2>3, <2>4
    <3>3. \A i \in 1..n : i <= first => frame.lines[i] = previousLines[i]
      BY <1>4 DEF first
    <3>4. \A i \in 1..m : i <= first \/ i > last + 1 => mixed[i] = previousLines[i]
      BY <2>2, <3>1, <3>2, <3>3
    <3>5. \A i \in 1..m : i <= m
      BY <1>1
    <3>. QED
      BY <2>1, <3>4, <3>5 DEF KeptLines
  <2>6. PartOf(lines, mixed, first, last)
    <3>1. \A k \in 1..(last - first + 1) : first + k \in 1..m /\ first + k <= n
      BY <1>1, <1>2, <1>13, <2>3, <2>4
    <3>. QED
      BY <1>10, <2>2, <3>1 DEF PartOf
  <2>7. MaxOf(top, last - h + 1) = top
    BY <1>1, <1>13, <2>3 DEF MaxOf
  <2>8. LET w == written
        IN w \in Screen(h) /\ Shows(w, h, mixed, top, w.row - last + top)
    <3>1. h \in Nat \ {0} /\ term \in Screen(h) /\ previousLines \in Seq(Texts)
          /\ top \in Nat /\ T \in 0..(h - 1)
      BY <1>1
    <3>2. LET w == WriteLines(fresh, lines, TRUE)
              nt == MaxOf(top, last - h + 1)
          IN w \in Screen(h) /\ nt \in Nat /\ Shows(w, h, mixed, nt, w.row - last + nt)
      BY <1>9, <1>11, <2>1, <2>4, <2>5, <2>6, <3>1, OverwrittenShows
    <3>. QED
      BY <2>7, <3>2
  <2>. DEFINE T2 == written.row - last + top
  <2>. HIDE DEF written
  <2>9. T2 \in 0..(h - 1) /\ m <= top + h - T2 /\ T2 \in Int /\ written.row = T2 + n - 1 - top
    <3>1. T2 \in 0..(h - 1) /\ m <= top + h - T2
      BY <2>1, <2>8 DEF Shows
    <3>2. written.row \in 0..(h - 1)
      BY <2>8 DEF Screen
    <3>3. written.row = T2 + n - 1 - top
      BY <1>1, <2>3, <3>2
    <3>. HIDE DEF T2
    <3>. QED
      BY <1>1, <3>1, <3>3
  <2>. HIDE DEF T2, m, n, top, blanks
  <2>10. under \in Screen(h) /\ under.row = T2 + n - top
         /\ \A i \in 1..h : under.rows[i] = written.rows[i]
    <3>. DEFINE d == Down(written, n - 1 - last)
    <3>1. n - 1 - last \in Int /\ written.row + (n - 1 - last) = written.row /\ written.row \in 0..(h - 1)
      BY <1>1, <2>3, <2>8, <2>9 DEF Screen
    <3>2. d \in Screen(h) /\ d.row = written.row /\ d.rows = written.rows
      BY <1>1, <2>8, <3>1, DownFacts
    <3>. HIDE DEF d
    <3>9. h \in Nat \ {0} /\ m \in Nat /\ n \in Nat \ {0} /\ top \in Nat /\ n < m
      BY <1>1, <1>13, <2>3
    <3>3. d.row + 1 = T2 + n - top /\ d.row + 1 <= h - 1 /\ d.row \in Nat
      <4>1. d.row = T2 + n - 1 - top /\ d.row \in 0..(h - 1)
        BY <2>9, <3>1, <3>2
      <4>2. T2 \in Int /\ m <= top + h - T2
        BY <2>9
      <4>. QED
        BY <3>9, <4>1, <4>2
    <3>. DEFINE q == Scrolled(d.row, 1, h)
    <3>4. q = 0
      BY <1>1, <3>3 DEF Scrolled, MaxOf
    <3>5. /\ Newlines(d, 1) \in Screen(h) /\ Newlines(d, 1).row = d.row + 1 - q
          /\ \A i \in 1..h : Newlines(d, 1).rows[i] = IF i + q <= h THEN d.rows[i + q] ELSE Blank
      <4>1. h \in Nat \ {0} /\ d \in Screen(h) /\ 1 \in Nat
        BY <3>2, <3>9
      <4>. HIDE DEF d
      <4>. QED
        BY <4>1, NewlinesFacts
    <3>. HIDE DEF q
    <3>6. \A i \in 1..h : Newlines(d, 1).rows[i] = d.rows[i]
      BY <1>1, <3>4, <3>5
    <3>7. \A i \in 1..h : Newlines(d, 1).rows[i] = written.rows[i]
      BY <3>2, <3>6
    <3>8. Newlines(d, 1).row = T2 + n - top
      BY <1>1, <3>3, <3>4, <3>5
    <3>. QED
      BY <3>2, <3>5, <3>7, <3>8 DEF d
  <2>. HIDE DEF under
  <2>11. /\ erased \in Screen(h) /\ erased.row = T2 + m - top - 1
         /\ \A i \in 1..h : erased.rows[i] =
                IF i - 1 \in (T2 + n - top)..(T2 + m - top - 1) THEN Blank ELSE written.rows[i]
    <3>1. gone \in Nat \ {0}
      BY <1>1, <1>13, <2>3
    <3>2. blanks \in Seq(Row) /\ Len(blanks) = gone /\ (\A k \in 1..gone : blanks[k] = Blank)
      BY <3>1, RowsOfFacts DEF blanks
    <3>3. blanks # <<>>
      BY <3>1, <3>2
    <3>. DEFINE q == Scrolled(under.row, Len(blanks) - 1, h)
    <3>4. q = 0
      <4>1. under.row + (Len(blanks) - 1) = T2 + n - top + (gone - 1)
        BY <2>10, <3>2
      <4>2. T2 \in Int /\ m \in Nat /\ n \in Nat /\ top \in Nat /\ gone = m - n /\ h \in Nat /\ m <= top + h - T2
        BY <1>1, <1>2, <2>3, <2>9
      <4>3. under.row \in Int /\ Len(blanks) - 1 \in Int /\ h \in Int
        BY <2>10, <3>2, <4>2
      <4>4. ~(under.row + (Len(blanks) - 1) > h - 1)
        BY <4>1, <4>2
      <4>5. \A x, y, z \in Int : ~(x + y > z - 1) => Scrolled(x, y, z) = 0
        BY DEF Scrolled, MaxOf
      <4>. QED
        BY <4>3, <4>4, <4>5, Zenon
    <3>5. /\ erased \in Screen(h) /\ erased.row = under.row + Len(blanks) - 1 - q
          /\ \A i \in 1..h : erased.rows[i] =
                IF i + q - under.row \in 1..Len(blanks) THEN blanks[i + q - under.row]
                ELSE IF i + q <= h THEN under.rows[i + q] ELSE Blank
      BY <1>1, <2>10, <3>2, <3>3, OverwriteFacts
    <3>. HIDE DEF q, erased
    <3>6. erased.row = T2 + m - top - 1
      <4>1. erased.row = T2 + n - top + gone - 1 - 0
        BY <2>10, <3>2, <3>4, <3>5
      <4>2. T2 \in Int /\ m \in Nat /\ n \in Nat /\ top \in Nat /\ gone = m - n
        BY <1>1, <1>2, <2>3, <2>9
      <4>. QED
        BY <4>1, <4>2
    <3>7. ASSUME NEW i \in 1..h
          PROVE  erased.rows[i] = IF i - 1 \in (T2 + n - top)..(T2 + m - top - 1) THEN Blank ELSE written.rows[i]
      <4>1. i + q = i /\ i + q <= h
        BY <1>1, <3>4
      <4>2. erased.rows[i] = IF i - under.row \in 1..gone THEN blanks[i - under.row] ELSE under.rows[i]
        <5>1. erased.rows[i] = IF i + q - under.row \in 1..Len(blanks) THEN blanks[i + q - under.row]
                               ELSE IF i + q <= h THEN under.rows[i + q] ELSE Blank
          BY <3>5
        <5>2. i + q = i /\ i <= h /\ Len(blanks) = gone
          BY <3>2, <4>1
        <5>3. q = 0 /\ i \in Int /\ under.row \in Int /\ gone \in Int
          BY <1>6, <2>10, <3>4 DEF Screen
        <5>. QED
          BY <5>1, <5>2, <5>3
      <4>3. i - under.row \in 1..gone <=> i - 1 \in (T2 + n - top)..(T2 + m - top - 1)
        <5>1. /\ T2 \in Int /\ n \in Nat /\ m \in Nat /\ top \in Nat /\ i \in Int
              /\ under.row = T2 + n - top /\ gone = m - n
          BY <1>1, <1>2, <2>3, <2>9, <2>10
        <5>. DEFINE x == T2 + n - top
        <5>2. x \in Int /\ T2 + m - top - 1 = x + (m - n) - 1
          BY <5>1
        <5>. HIDE DEF x
        <5>3. i - x \in 1..(m - n) <=> i - 1 \in x..(x + (m - n) - 1)
          BY <5>1, <5>2
        <5>. QED
          BY <5>1, <5>2, <5>3, Zenon DEF x
      <4>. QED
        BY <2>10, <3>2, <4>2, <4>3
    <3>. QED
      BY <3>5, <3>6, <3>7
  <2>. HIDE DEF erased
  <2>12. /\ gone > 0 /\ row = n - 1 /\ newTop = top /\ t = Down(erased, -gone)
    <3>1. gone > 0
      BY <1>1, <1>13, <2>3
    <3>2. newTop = MaxOf(top, last - h + 1)
      <4>1. n - 1 = last /\ top + 0 = top
        BY <1>1, <2>3
      <4>. QED
        BY <1>7, <3>1, <4>1
    <3>. QED
      BY <2>7, <3>1, <3>2
  <2>13. t \in Screen(h) /\ t.row = T2 + (n - 1) - top /\ t.rows = erased.rows
    <3>1. /\ -gone \in Int /\ erased.row + -gone = T2 + (n - 1) - top /\ T2 + (n - 1) - top \in 0..(h - 1)
      BY <1>1, <2>3, <2>8, <2>9, <2>11 DEF Screen
    <3>. HIDE DEF t
    <3>. QED
      BY <1>1, <2>11, <2>12, <3>1, DownFacts
  <2>. HIDE DEF t, row, newTop
  <2>14. Shows(t, h, frame.lines, top, T2)
    <3>1. \A i \in 1..h : t.rows[i] =
              IF i - 1 \in (T2 + n - top)..(T2 + m - top - 1) THEN Blank ELSE written.rows[i]
      BY <2>11, <2>13
    <3>2. n <= m /\ top <= n /\ h \in Nat \ {0} /\ top \in Nat
      BY <1>1, <1>2, <1>3, <1>13, <2>3, <2>4
    <3>3. \A i \in 1..n : frame.lines[i] = mixed[i]
      <4>1. \A i \in 1..n : i \in 1..m /\ i <= n
        BY <1>1, <1>2, <1>13
      <4>. QED
        BY <2>2, <4>1
    <3>4. Shows(written, h, mixed, top, T2) /\ Len(mixed) = m /\ Len(frame.lines) = n
      BY <2>1, <2>8 DEF T2, n
    <3>5. T2 \in 0..(h - 1)
      BY <2>9
    <3>6. /\ Len(frame.lines) <= Len(mixed) /\ top <= Len(frame.lines)
          /\ \A i \in 1..Len(frame.lines) : frame.lines[i] = mixed[i]
      BY <3>2, <3>3, <3>4, Zenon
    <3>8. \A i \in 1..h : t.rows[i] =
              IF i - 1 \in (T2 + Len(frame.lines) - top)..(T2 + Len(mixed) - top - 1)
              THEN Blank ELSE written.rows[i]
      BY <3>1, <3>4, Zenon
    <3>9. Shows(written, h, mixed, top, T2)
      BY <3>4
    <3>7. h \in Nat \ {0} /\ mixed \in Seq(Texts) /\ frame.lines \in Seq(Texts) /\ top \in Nat
      BY <1>2, <2>1, <3>2
    <3>. HIDE DEF n, m
    <3>. QED
      BY <3>6, <3>7, <3>8, <3>9, ErasedShows, ZenonT(60)
  <2>15. n - 1 \in 0..LastOf(frame.lines) /\ top \in 0..LastOf(frame.lines) /\ MaxOf(maxLinesRendered, n) \in Nat
    BY <1>1, <1>2, <2>3, <2>4 DEF LastOf, MaxOf, n
  <2>16. Rendered(frame, t, n - 1, top, MaxOf(maxLinesRendered, n))
    BY <1>3, <2>12
  <2>. QED
    BY <2>9, <2>13, <2>14, <2>15, <2>16, RenderedShows DEF h, top
<1>. QED
  <2>1. n >= m \/ n < m
    BY <1>1, <1>2
  <2>. QED
    BY <1>12, <1>13, <2>1

\* Unless the size differs from the one of the last render, the screen shows it.
LEMMA SameSizeShows ==
    ASSUME TypeInv, ViewInv, ~stopped, ~Resized
    PROVE  OnView
<1>1. previousHeight = 0 \/ Current
  BY DEF ViewInv, Resized, Current
<1>. QED
  BY <1>1 DEF ViewInv, OnView

\* However a frame is rendered, the screen shows it.
LEMMA doRenderShows ==
    ASSUME TypeInv, ViewInv, ~stopped, ~scenario.unseen, ~scenario.short, doRender
    PROVE  OnView'
<1>1. PICK frame \in Frames :
        \/ RenderFirst(frame) \/ RenderAgain(frame) \/ RenderSame(frame) \/ RenderDeleted(frame)
        \/ RenderUnseen(frame) \/ RenderShrunk(frame) \/ RenderVisible(frame) \/ RenderChanged(frame)
  BY DEF doRender
<1>2. CASE RenderFirst(frame)
  <2>1. previousLines = <<>> /\ ~Resized /\ FullRender(frame, FALSE)
    BY <1>2 DEF RenderFirst, FirstRender
  <2>2. OnView
    BY <2>1, SameSizeShows
  <2>. QED
    BY <2>1, <2>2, FirstShows
<1>3. CASE RenderAgain(frame)
  <2>1. FullRender(frame, TRUE)
    BY <1>3 DEF RenderAgain
  <2>. QED
    BY <2>1, ClearedShows
<1>4. CASE RenderShrunk(frame)
  <2>1. FullRender(frame, TRUE)
    BY <1>4 DEF RenderShrunk
  <2>. QED
    BY <2>1, ClearedShows
<1>5. CASE RenderSame(frame) \/ RenderUnseen(frame)
  <2>1. ~Resized
    BY <1>5 DEF RenderSame, RenderUnseen, Unchanged, ChangedAbove, Changed
  <2>2. OnView
    BY <2>1, SameSizeShows
  <2>. QED
    BY <1>5, <2>2, SameShows
<1>6. CASE RenderDeleted(frame)
  <2>1. ~Resized
    BY <1>6 DEF RenderDeleted, Changed
  <2>2. OnView
    BY <2>1, SameSizeShows
  <2>. QED
    BY <1>6, <2>2, DeletedShows
<1>7. CASE RenderVisible(frame)
  <2>1. ~Resized
    BY <1>7 DEF RenderVisible, ChangedAbove, Changed
  <2>2. OnView
    BY <2>1, SameSizeShows
  <2>. QED
    BY <1>7, <2>2, VisibleShows
<1>8. CASE RenderChanged(frame)
  <2>1. ~Resized
    BY <1>8 DEF RenderChanged, Changed
  <2>2. OnView
    BY <2>1, SameSizeShows
  <2>. QED
    BY <1>8, <2>2, ChangedShows
<1>. QED
  BY <1>1, <1>2, <1>3, <1>4, <1>5, <1>6, <1>7, <1>8

LEMMA ViewInit ==
    ASSUME Init
    PROVE  ViewInv
<1>1. PICK h \in scenario.heights : \E r \in 0..(h - 1) :
           /\ home = r
           /\ term = [rows |-> RowsOf(Shell, r) \o RowsOf(Blank, h - r), row |-> r, scrolled |-> 0]
  BY DEF Init
<1>2. PICK r \in 0..(h - 1) : term = StartScreen(r, h)
  BY <1>1 DEF StartScreen
<1>3. h \in Nat \ {0} /\ height = h
  BY <1>1, RenderAssumption, TypeInit, ScreenHeight, <1>2, StartFacts DEF Init, height
<1>4. /\ previousLines = <<>> /\ previousHeight = 0 /\ previousWidth = 0 /\ ~stopped
      /\ hardwareCursorRow = 0 /\ previousViewportTop = 0 /\ Len(previousLines) = 0
  BY DEF Init
<1>5. term.row = r /\ \A i \in 1..h : term.rows[i] = IF i <= r THEN Shell ELSE Blank
  BY <1>2, <1>3, StartFacts
<1>6. TopRow = r
  BY <1>3, <1>4, <1>5 DEF TopRow
<1>7. Shows(term, height, previousLines, previousViewportTop, TopRow)
  <2>1. r \in Nat /\ r <= h - 1 /\ Len(previousLines) <= previousViewportTop + h - r
    BY <1>3, <1>4
  <2>2. \A i \in 1..h :
            IF i <= r THEN term.rows[i] \in {Shell, Blank}
            ELSE term.rows[i] = IF previousViewportTop + i - r <= Len(previousLines)
                                THEN previousLines[previousViewportTop + i - r] ELSE Blank
    <3>1. \A i \in 1..h : ~(i <= r) => ~(0 + i - r <= 0)
      BY <1>3
    <3>. QED
      BY <1>4, <1>5, <3>1
  <2>. QED
    BY <1>3, <1>4, <1>6, <2>1, <2>2 DEF Shows
<1>. QED
  BY <1>4, <1>7 DEF ViewInv, NothingBelowExit

\* stop() leaves blank rows from the cursor on.
LEMMA StopShows ==
    ASSUME TypeInv, OnView, stop
    PROVE  \A row \in term'.row..(height' - 1) : term'.rows[row + 1] = Blank
<1>. DEFINE n == Len(previousLines)
            h == height
            hw == hardwareCursorRow
            top == previousViewportTop
            T == TopRow
            d == Down(term, n - hw)
            e == Newlines(d, 1)
<1>1. /\ term \in Screen(h) /\ h \in Nat \ {0} /\ n \in Nat /\ hw \in Nat /\ top \in Nat
      /\ T \in 0..(h - 1) /\ n <= top + h - T /\ term.row = T + hw - top /\ (n = 0 => hw = 0) /\ top <= hw
      /\ (n > 0 => hw < n)
  BY ViewFacts
<1>2. height' = h
  BY StopScreen
<1>3. \A i \in 1..h : i > T /\ top + i - T > n => term.rows[i] = Blank
  <2>1. \A i \in 1..h : IF i <= T THEN term.rows[i] \in {Shell, Blank}
                        ELSE term.rows[i] = IF top + i - T <= n THEN previousLines[top + i - T] ELSE Blank
    BY DEF OnView, Shows
  <2>2. \A i \in 1..h : i > T /\ top + i - T > n => ~(i <= T) /\ ~(top + i - T <= n)
    BY <1>1
  <2>. QED
    BY <2>1, <2>2
<1>4. CASE previousLines = <<>>
  <2>1. term' = term /\ n = 0
    BY <1>4 DEF stop
  <2>. HIDE DEF n, hw, top, T, h
  <2>2. term.row = T /\ hw = 0 /\ top = 0
    BY <1>1, <2>1
  <2>3. ASSUME NEW row \in term.row..(h - 1)
        PROVE  term.rows[row + 1] = Blank
    <3>1. row + 1 \in 1..h /\ row + 1 > T /\ top + (row + 1) - T > n
      BY <1>1, <2>1, <2>2
    <3>. QED
      BY <1>3, <3>1
  <2>. QED
    BY <1>2, <2>1, <2>3
<1>5. CASE previousLines # <<>>
  <2>1. term'.rows = e.rows /\ term'.row = e.row
    <3>1. term' = [e EXCEPT !.scrolled = IF scenario.counts THEN @ ELSE 0]
      BY <1>5 DEF stop
    <3>2. e = [rows |-> e.rows, row |-> e.row, scrolled |-> e.scrolled]
      BY DEF Newlines
    <3>. HIDE DEF e
    <3>. QED
      BY <3>1, <3>2
  <2>2. n > 0
    BY <1>5, <1>1 DEF TypeInv
  <2>. DEFINE p == T + n - top
  <2>. HIDE DEF n, hw, top, T, h
  <2>3. p \in 1..h /\ p > T /\ n - hw \in Int /\ term.row + (n - hw) = p
    BY <1>1, <2>2
  <2>4. d \in Screen(h) /\ d.rows = term.rows /\ d.row = IF p = h THEN h - 1 ELSE p
    <3>1. p \in 0..(h - 1) \/ p = h
      BY <1>1, <2>3
    <3>2. p = h => p >= h
      BY <1>1
    <3>3. p \in 0..(h - 1) => p # h
      BY <1>1
    <3>. HIDE DEF p, d
    <3>4. d \in Screen(h) /\ d.rows = term.rows /\ (p \in 0..(h - 1) => d.row = p) /\ (p >= h => d.row = h - 1)
      BY <1>1, <2>3, DownFacts DEF d
    <3>. QED
      BY <3>1, <3>2, <3>3, <3>4
  <2>. DEFINE q == Scrolled(d.row, 1, h)
  <2>5. /\ q \in Nat /\ e.row = d.row + 1 - q
        /\ \A i \in 1..h : e.rows[i] = IF i + q <= h THEN d.rows[i + q] ELSE Blank
    <3>1. h \in Nat \ {0} /\ d \in Screen(h) /\ 1 \in Nat
      BY <1>1, <2>4
    <3>. HIDE DEF d
    <3>. QED
      BY <3>1, NewlinesFacts
  <2>. HIDE DEF d, e, p
  <2>6. d.row \in 0..(h - 1) /\ q = IF d.row = h - 1 THEN 1 ELSE 0
    <3>1. d.row \in 0..(h - 1)
      BY <1>1, <2>3, <2>4
    <3>. QED
      BY <1>1, <3>1 DEF Scrolled, MaxOf
  <2>. HIDE DEF q
  <2>7. ASSUME NEW row \in e.row..(h - 1)
        PROVE  e.rows[row + 1] = Blank
    <3>1. row + 1 \in 1..h /\ row + 1 > d.row + 1 - q
      BY <1>1, <2>5, <2>6
    <3>2. e.rows[row + 1] = IF row + 1 + q <= h THEN d.rows[row + 1 + q] ELSE Blank
      BY <2>5, <3>1
    <3>3. CASE row + 1 + q <= h
      <4>1. row + 1 + q \in 1..h /\ row + 1 + q > p
        BY <1>1, <2>3, <2>4, <2>6, <3>1, <3>3
      <4>2. row + 1 + q > T /\ top + (row + 1 + q) - T > n
        BY <1>1, <2>3, <4>1 DEF p
      <4>3. term.rows[row + 1 + q] = Blank
        BY <1>3, <4>1, <4>2
      <4>. QED
        BY <2>4, <3>2, <3>3, <4>3
    <3>4. CASE ~(row + 1 + q <= h)
      BY <3>2, <3>4
    <3>. QED
      BY <3>3, <3>4
  <2>. QED
    BY <1>2, <2>1, <2>7
<1>. QED
  BY <1>4, <1>5

\* The corners the theorems are not about: a cursor in a line that is not on the
\* screen, a frame that shrinks below the screen's height while lines are added
\* above it, a size that is back when the render comes.
Usual == Restarts /\ ~scenario.unseen /\ ~scenario.short /\ ~scenario.bounces

LEMMA ViewStep ==
    ASSUME Usual, TypeInv, TickInv, ViewInv, [Next]_vars
    PROVE  ViewInv' /\ Usual'
<1>1. height \in Nat \ {0} /\ width \in 1..2 /\ \A h \in scenario.heights : h \in Nat \ {0}
  BY HeightIsNat, RenderAssumption DEF TypeInv
<1>2. TickInv' /\ Restarts' /\ TypeInv'
  BY TickStep, TypeStep DEF Usual
<1>3. scenario' = scenario
  BY DEF Next, vars, requestRender, forceRender, scheduleRender, ForcedTick, TimerFires, Resize, stop, start
<1>4. Usual'
  BY <1>2, <1>3 DEF Usual
<1>. SUFFICES ViewInv'
  BY <1>4
<1>5. UNCHANGED <<screenVars, renderVars, stopped>> => ViewInv'
  BY DEF screenVars, renderVars, ViewInv, Shows, Current, TopRow, NothingBelowExit, height
\* The next render clears the screen.
<1>6. Forgotten /\ height' \in Nat => ViewInv'
  <2>. SUFFICES ASSUME Forgotten, height' \in Nat
                PROVE  ViewInv'
    OBVIOUS
  <2>1. /\ previousLines' = <<>> /\ previousWidth' = -1 /\ previousHeight' = -1
        /\ hardwareCursorRow' = 0 /\ previousViewportTop' = 0
    BY DEF Forgotten
  <2>2. ~Current' /\ previousHeight' # 0 /\ previousWidth' # 0
    BY <2>1 DEF Current
  <2>. QED
    BY <2>1, <2>2 DEF ViewInv, NothingBelowExit
<1>7. ASSUME doRender, ~stopped, UNCHANGED stopped
      PROVE  ViewInv'
  <2>1. OnView'
    BY <1>7, doRenderShows DEF Usual
  <2>2. previousHeight' = height /\ previousWidth' = width
    BY <1>7, doRenderDraws DEF doRender, Drawn
  <2>3. previousHeight' # 0 /\ previousWidth' # 0
    BY <1>1, <2>2
  <2>. QED
    BY <1>7, <2>1, <2>3 DEF ViewInv, OnView, NothingBelowExit
<1>8. CASE requestRender
  BY <1>5, <1>8 DEF requestRender
<1>9. CASE forceRender
  BY <1>1, <1>6, <1>9 DEF forceRender, screenVars, height
<1>10. CASE scheduleRender
  BY <1>5, <1>10 DEF scheduleRender
<1>11. CASE ForcedTick
  <2>1. CASE stopped \/ ~renderRequested
    BY <1>5, <1>11, <2>1 DEF ForcedTick, Skip
  <2>2. CASE ~(stopped \/ ~renderRequested)
    BY <1>7, <1>11, <2>2 DEF ForcedTick, Render
  <2>. QED
    BY <2>1, <2>2
<1>12. CASE TimerFires
  <2>1. CASE stopped \/ ~renderRequested
    BY <1>5, <1>12, <2>1 DEF TimerFires, Skip
  <2>2. CASE ~(stopped \/ ~renderRequested)
    BY <1>7, <1>12, <2>2 DEF TimerFires, Render
  <2>. QED
    BY <2>1, <2>2
<1>13. CASE Resize
  <2>1. PICK h \in scenario.heights, w \in 1..2 : \E r \in 0..(h - 1) :
           /\ <<h, w>> # <<previousHeight, previousWidth>>
           /\ term' = [rows |-> RowsOf(Garbled, h), row |-> r, scrolled |-> 0]
           /\ width' = w
    BY <1>13 DEF Resize, Usual
  <2>2. height' = h
    BY <1>1, <2>1, PlainScreen
  <2>3. previousHeight # 0 /\ ~stopped' /\ UNCHANGED renderVars
    BY <1>13 DEF Resize, Usual
  <2>4. ~Current'
    BY <2>1, <2>2, <2>3 DEF Current, renderVars
  <2>. QED
    BY <2>3, <2>4 DEF ViewInv, renderVars, NothingBelowExit
<1>14. CASE stop
  <2>1. stopped' /\ ~stopped /\ UNCHANGED <<width, renderVars>> /\ height' = height
    BY <1>14, StopScreen DEF stop
  <2>2. Current' => Current
    BY <2>1 DEF Current, renderVars
  <2>3. Current => OnView
    BY <2>1 DEF ViewInv, OnView
  <2>4. NothingBelowExit'
    BY <1>14, <2>2, <2>3, StopShows DEF NothingBelowExit
  <2>. QED
    BY <2>1, <2>4 DEF ViewInv, renderVars
<1>15. CASE start
  <2>1. Forgotten
    <3>1. stopped
      BY <1>15 DEF start
    <3>2. scenario.forces
      BY <3>1 DEF TickInv, Usual, Restarts
    <3>. QED
      BY <1>15, <3>2 DEF start
  <2>2. height' \in Nat
    BY <1>2, RenderAssumption DEF TypeInv
  <2>. QED
    BY <1>6, <2>1, <2>2
<1>16. CASE UNCHANGED vars
  BY <1>5, <1>16 DEF vars, scheduleVars
<1>. QED
  BY <1>8, <1>9, <1>10, <1>11, <1>12, <1>13, <1>14, <1>15, <1>16 DEF Next

\* The inductive invariant, with the hypotheses that no step changes.
ScreenInv == Usual /\ TypeInv /\ TickInv /\ ViewInv

LEMMA ScreenInvHolds == Spec /\ Usual => []ScreenInv
<1>1. Init /\ Usual => ScreenInv
  BY TypeInit, TickInit, ViewInit DEF ScreenInv
<1>2. ScreenInv /\ [Next]_vars => ScreenInv'
  BY TypeStep, TickStep, ViewStep DEF ScreenInv, Usual
<1>. QED
  BY <1>1, <1>2, PTL DEF Spec

\* The screen shows the lines of the last frame from previousViewportTop on, each
\* on a row of its own, and nothing else, however little of the frame was written:
\* for terminals of any height and frames of any length.
THEOREM ScreenIsViewportHolds == Spec /\ Usual => []ScreenIsViewport
<1>1. ScreenInv => ScreenIsViewport
  <2>. SUFFICES ASSUME ScreenInv, Current, ~stopped
                PROVE  /\ TopRow \in 0..(height - 1)
                       /\ Len(previousLines) <= previousViewportTop + height - TopRow
                       /\ \A row \in 0..(height - 1) :
                              LET line == previousViewportTop + row - TopRow + 1
                              IN IF row < TopRow THEN term.rows[row + 1] \in {Shell, Blank}
                                 ELSE term.rows[row + 1] =
                                          IF line <= Len(previousLines) THEN previousLines[line] ELSE Blank
    BY DEF ScreenIsViewport
  <2>1. Shows(term, height, previousLines, previousViewportTop, TopRow)
    BY DEF ScreenInv, ViewInv
  <2>2. height \in Nat \ {0} /\ previousViewportTop \in Nat /\ TopRow \in 0..(height - 1)
    <3>1. OnView /\ TypeInv
      BY <2>1 DEF ScreenInv, ViewInv, OnView
    <3>. QED
      BY <3>1, ViewFacts
  <2>3. ASSUME NEW row \in 0..(height - 1)
        PROVE  LET line == previousViewportTop + row - TopRow + 1
               IN IF row < TopRow THEN term.rows[row + 1] \in {Shell, Blank}
                  ELSE term.rows[row + 1] =
                           IF line <= Len(previousLines) THEN previousLines[line] ELSE Blank
    <3>. DEFINE i == row + 1
    <3>1. /\ i \in 1..height /\ (i <= TopRow <=> row < TopRow)
          /\ previousViewportTop + i - TopRow = previousViewportTop + row - TopRow + 1
      BY <2>2
    <3>2. IF i <= TopRow THEN term.rows[i] \in {Shell, Blank}
          ELSE term.rows[i] = IF previousViewportTop + i - TopRow <= Len(previousLines)
                              THEN previousLines[previousViewportTop + i - TopRow] ELSE Blank
      BY <2>1, <3>1 DEF Shows
    <3>. HIDE DEF i
    <3>3. IF row < TopRow THEN term.rows[i] \in {Shell, Blank}
          ELSE term.rows[i] = IF previousViewportTop + row - TopRow + 1 <= Len(previousLines)
                              THEN previousLines[previousViewportTop + row - TopRow + 1] ELSE Blank
      BY <3>1, <3>2
    <3>. QED
      BY <3>3 DEF i
  <2>. QED
    BY <2>1, <2>3 DEF Shows
<1>. QED
  BY <1>1, ScreenInvHolds, PTL

\* What the shell writes after stop() does not run into the lines.
THEOREM NothingBelowExitHolds == Spec /\ Usual => []NothingBelowExit
<1>1. ScreenInv => NothingBelowExit
  BY DEF ScreenInv, ViewInv
<1>. QED
  BY <1>1, ScreenInvHolds, PTL
=============================================================================
