------------------------------ MODULE TuiRender ------------------------------
(***************************************************************************)
(* The terminal UI (packages/tui/src/tui.ts): when requestRender() leads   *)
(* to a render, and doRender(), which writes no more to the terminal than  *)
(* has changed since the lines it rendered last.                           *)
(*                                                                         *)
(* The lines are what components and overlays return, any frame after any  *)
(* other.  Rows and lines count from 0, as they do in the code.  Images    *)
(* and Termux are left out; a line is at most as wide as the terminal.     *)
(***************************************************************************)
EXTENDS Terminal, SequencesExt

CONSTANTS
    Texts,       \* lines
    Scenarios    \* what may happen in a behaviour, as a set of records:
                 \*   heights      heights the terminal may have
                 \*   lines        bound: lines of a frame
                 \*   cursor       whether a component shows the cursor
                 \*   unseen       whether that may be in a line that is not on the screen
                 \*   short        whether a frame that does not fill the screen may follow
                 \*                one that changes, and adds, lines above it
                 \*   clearOnShrink  the setting
                 \*   resizes      bound: resizes of the terminal
                 \*   bounces      whether the size may be back when the render comes
                 \*   stops        bound: calls of stop(), each followed by start()
                 \*   repeats      bound: requests made while a frame is rendered
                 \*   forces       whether start() is followed by requestRender(true)
                 \*   counts       whether the rows that scrolled out are counted

ASSUME RenderAssumption ==
    Scenarios \subseteq
        [heights : SUBSET (Nat \ {0}), lines : Nat, cursor : BOOLEAN, unseen : BOOLEAN, short : BOOLEAN,
         clearOnShrink : BOOLEAN, resizes : Nat, bounces : BOOLEAN, stops : Nat, repeats : Nat,
         forces : BOOLEAN, counts : BOOLEAN]

VARIABLES
    scenario,
    term, width,           \* the terminal; its height is the number of its rows
    home,                  \* history: the row of the terminal's buffer where line 0 is
    resizes, stops, repeats,   \* left of the scenario's bounds
    \* --- when to render
    renderRequested, renderTimer, stopped,
    ticks,                 \* the callbacks of process.nextTick: "schedule", "force"
    \* --- what was rendered
    previousLines, previousWidth, previousHeight,
    hardwareCursorRow,     \* the line the cursor is on
    previousViewportTop,   \* the line at the top of the screen
    maxLinesRendered

screenVars == <<term, width, home>>
scheduleVars == <<renderRequested, renderTimer, stopped, ticks>>
renderVars == <<previousLines, previousWidth, previousHeight, hardwareCursorRow,
                previousViewportTop, maxLinesRendered>>
bounds == <<resizes, stops, repeats>>
vars == <<scenario, screenVars, bounds, scheduleVars, renderVars>>

height == Len(term.rows)
MaxOf(a, b) == IF a > b THEN a ELSE b
MinOf(a, b) == IF a < b THEN a ELSE b
OnScreen(row) == MaxOf(0, MinOf(height - 1, row))

(***************************************************************************)
(* A frame: its lines, and the line with the cursor marker, which is       *)
(* looked for in the last "height" lines only; -1 if there is none         *)
(***************************************************************************)
Frames ==
    UNION {[lines : [1..n -> Texts],
            cursor : {-1} \union (IF scenario.cursor THEN MaxOf(0, n - height)..(n - 1) ELSE {})] :
              n \in 0..scenario.lines}

(***************************************************************************)
(* doRender: each strategy writes to the terminal, knows then which line   *)
(* the cursor is on and which is at the top, and ends with Rendered        *)
(***************************************************************************)
\* Mutant: the row the cursor was moved to for the input method is not kept.
Rendered_ForgetsCursor(frame, t, row, top, most) ==
    LET target == IF frame.cursor = -1 THEN row ELSE frame.cursor
    IN /\ target >= top \/ scenario.unseen
       /\ term' = [Down(t, target - row) EXCEPT !.scrolled = IF scenario.counts THEN @ ELSE 0]
       /\ hardwareCursorRow' = row
       /\ previousViewportTop' = top /\ maxLinesRendered' = most
       /\ previousLines' = frame.lines
       /\ previousWidth' = width /\ previousHeight' = height
       /\ UNCHANGED width

\* positionHardwareCursor, and what is kept for the next render.
Rendered(frame, t, row, top, most) ==
    LET target == IF frame.cursor = -1 THEN row ELSE frame.cursor
    IN /\ target >= top \/ scenario.unseen
       /\ term' = [Down(t, target - row) EXCEPT !.scrolled = IF scenario.counts THEN @ ELSE 0]
       /\ hardwareCursorRow' = target
       /\ previousViewportTop' = top
       /\ maxLinesRendered' = most
       /\ previousLines' = frame.lines
       /\ previousWidth' = width /\ previousHeight' = height
       /\ UNCHANGED width

FullRender(frame, clear) ==
    LET n == Len(frame.lines)
        t == IF clear THEN ClearAll(term) ELSE term
    IN /\ Rendered(frame, WriteLines(t, frame.lines, FALSE), MaxOf(0, n - 1), MaxOf(0, n - height),
                   IF clear THEN n ELSE MaxOf(maxLinesRendered, n))
       /\ home' = IF clear THEN 0 ELSE term.row + (IF scenario.counts THEN term.scrolled ELSE 0)

Resized == \/ previousWidth # 0 /\ previousWidth # width
           \/ previousHeight # 0 /\ previousHeight # height
FirstRender == previousLines = <<>> /\ ~Resized
\* clearOnShrink (nothing is cleared under an overlay, as if it were off).
Shrinks(frame) == scenario.clearOnShrink /\ Len(frame.lines) < maxLinesRendered

RenderFirst(frame) == FirstRender /\ FullRender(frame, FALSE)
RenderAgain(frame) == ~FirstRender /\ (Resized \/ Shrinks(frame)) /\ FullRender(frame, TRUE)

\* What is left is to compare the lines; one that is appended or gone differs.
ChangedLines(frame) ==
    LET n == Len(frame.lines)
        m == Len(previousLines)
    IN {i \in 0..(MaxOf(n, m) - 1) : i >= MinOf(n, m) \/ frame.lines[i + 1] # previousLines[i + 1]}
Unchanged(frame) == ~FirstRender /\ ~Resized /\ ~Shrinks(frame) /\ ChangedLines(frame) = {}
Changed(frame) == ~FirstRender /\ ~Resized /\ ~Shrinks(frame) /\ ChangedLines(frame) # {}
FirstChanged(frame) == Min(ChangedLines(frame))
LastChanged(frame) == Max(ChangedLines(frame))
Growth(frame) == Len(frame.lines) - Len(previousLines)

RenderSame(frame) ==
    /\ Unchanged(frame)
    /\ Rendered(frame, term, hardwareCursorRow, previousViewportTop, maxLinesRendered)
    /\ UNCHANGED home

\* Only lines at the end are gone: the cursor goes to the new last line, and
\* the rows below are erased, if they are on the screen.
RenderDeleted(frame) ==
    LET n == Len(frame.lines)
        extra == -Growth(frame)
        target == MaxOf(0, n - 1)
        below == IF n = 0 THEN 0 ELSE 1
        erased == EraseRows(Down(Down(term, target - hardwareCursorRow), below), extra)
    IN /\ Changed(frame) /\ FirstChanged(frame) >= n
       /\ IF target < previousViewportTop \/ extra > height
          THEN FullRender(frame, TRUE)
          ELSE /\ Rendered(frame, Down(erased, -(extra - 1 + below)), target, previousViewportTop,
                           maxLinesRendered)
               /\ UNCHANGED home

ChangedAbove(frame) ==
    Changed(frame) /\ FirstChanged(frame) < MinOf(Len(frame.lines), previousViewportTop)

\* Nothing changed but lines above the screen, and none moved.
RenderUnseen(frame) ==
    /\ ChangedAbove(frame) /\ LastChanged(frame) < previousViewportTop /\ Growth(frame) = 0
    /\ Rendered(frame, term, hardwareCursorRow, previousViewportTop, maxLinesRendered)
    /\ UNCHANGED home

RenderShrunk(frame) == ChangedAbove(frame) /\ Growth(frame) < 0 /\ FullRender(frame, TRUE)

\* The screen scrolls by as many lines as were added, and is written again.
RenderVisible(frame) ==
    LET n == Len(frame.lines)
        top == MaxOf(0, n - height)
        grows == Growth(frame) > 0
        bottom == Down(term, height - 1 - OnScreen(hardwareCursorRow - previousViewportTop))
        scrolled == IF grows THEN Newlines(bottom, Growth(frame)) ELSE term
        row == IF grows THEN n - 1 ELSE hardwareCursorRow
        start == Down(scrolled, -OnScreen(row - top))
    IN /\ ChangedAbove(frame) /\ Growth(frame) >= 0
       /\ grows \/ LastChanged(frame) >= previousViewportTop
       /\ grows /\ n < height => scenario.short
       /\ Rendered(frame, WriteLines(start, SubSeq(frame.lines, top + 1, n), TRUE), n - 1, top,
                   MaxOf(maxLinesRendered, n))
       /\ UNCHANGED home

\* From the first changed line to the last, scrolling if the first is below the
\* screen; rows of lines that are gone are erased.
RenderChanged(frame) ==
    LET n == Len(frame.lines)
        gone == MaxOf(0, -Growth(frame))
        first == FirstChanged(frame)
        last == MinOf(LastChanged(frame), n - 1)
        appends == Growth(frame) > 0 /\ first = Len(previousLines) /\ first > 0
        target == IF appends THEN first - 1 ELSE first
        scroll == MaxOf(0, target - (previousViewportTop + height - 1))
        bottom == Down(term, height - 1 - OnScreen(hardwareCursorRow - previousViewportTop))
        moved == IF scroll > 0 THEN Newlines(bottom, scroll) ELSE Down(term, target - hardwareCursorRow)
        written == WriteLines(Newlines(moved, IF appends THEN 1 ELSE 0),
                              SubSeq(frame.lines, first + 1, last + 1), TRUE)
        erased == WriteLines(Newlines(Down(written, n - 1 - last), 1), RowsOf(Blank, gone), TRUE)
        row == IF gone > 0 THEN n - 1 ELSE last
    IN /\ Changed(frame) /\ first >= previousViewportTop /\ first < n
       /\ Rendered(frame, IF gone > 0 THEN Down(erased, -gone) ELSE written, row,
                   MaxOf(previousViewportTop + scroll, row - height + 1), MaxOf(maxLinesRendered, n))
       /\ UNCHANGED home

doRender ==
    \E frame \in Frames :
        \/ RenderFirst(frame) \/ RenderAgain(frame) \/ RenderSame(frame) \/ RenderDeleted(frame)
        \/ RenderUnseen(frame) \/ RenderShrunk(frame) \/ RenderVisible(frame) \/ RenderChanged(frame)

(***************************************************************************)
(* When to render                                                          *)
(***************************************************************************)
Init ==
    /\ scenario \in Scenarios
    /\ \E h \in scenario.heights : \E r \in 0..(h - 1) :
           /\ home = r
           /\ term = [rows |-> RowsOf(Shell, r) \o RowsOf(Blank, h - r), row |-> r, scrolled |-> 0]
    /\ width = 1 /\ resizes = scenario.resizes /\ stops = scenario.stops
    /\ repeats = scenario.repeats
    /\ renderRequested = TRUE /\ ticks = <<"schedule">>      \* start()
    /\ renderTimer = FALSE /\ stopped = FALSE
    /\ previousLines = <<>> /\ previousWidth = 0 /\ previousHeight = 0
    /\ hardwareCursorRow = 0 /\ previousViewportTop = 0 /\ maxLinesRendered = 0

Requested ==
    /\ renderRequested' = TRUE
    /\ ticks' = IF renderRequested THEN ticks ELSE Append(ticks, "schedule")

requestRender ==
    /\ ~renderRequested /\ Requested
    /\ UNCHANGED <<scenario, screenVars, bounds, renderTimer, stopped, renderVars>>

\* Sizes of -1 make the next render clear the screen.
Forgotten ==
    /\ previousLines' = <<>> /\ previousWidth' = -1 /\ previousHeight' = -1
    /\ hardwareCursorRow' = 0 /\ maxLinesRendered' = 0 /\ previousViewportTop' = 0
    /\ renderTimer' = FALSE /\ renderRequested' = TRUE

\* Mutant: the callback is only queued when nothing was requested before.
forceRender_Early ==
    /\ "force" \notin Range(ticks) /\ ~stopped
    /\ Forgotten /\ ticks' = IF renderRequested THEN ticks ELSE Append(ticks, "force")
    /\ UNCHANGED <<scenario, screenVars, bounds, stopped>>

\* requestRender(true); once is enough, until its callback has run.
forceRender ==
    /\ "force" \notin Range(ticks) /\ ~stopped
    /\ Forgotten /\ ticks' = Append(ticks, "force")
    /\ UNCHANGED <<scenario, screenVars, bounds, stopped>>

scheduleRender ==
    /\ ticks # <<>> /\ Head(ticks) = "schedule"
    /\ renderTimer' = (renderTimer \/ (~stopped /\ renderRequested))
    /\ ticks' = Tail(ticks)
    /\ UNCHANGED <<scenario, screenVars, bounds, renderRequested, stopped, renderVars>>

\* doRender; components may ask for the next frame while they render this one.
Render(rest) ==
    /\ doRender
    /\ \E again \in {FALSE, repeats > 0} :
           /\ repeats' = repeats - (IF again THEN 1 ELSE 0)
           /\ renderRequested' = again
           /\ ticks' = IF again THEN Append(rest, "schedule") ELSE rest
Skip(rest) == ticks' = rest /\ UNCHANGED <<screenVars, repeats, renderRequested, renderVars>>

ForcedTick ==
    /\ ticks # <<>> /\ Head(ticks) = "force"
    /\ IF stopped \/ ~renderRequested THEN Skip(Tail(ticks)) ELSE Render(Tail(ticks))
    /\ UNCHANGED <<scenario, resizes, stops, renderTimer, stopped>>

\* Timers fire when all callbacks of nextTick have run.
TimerFires ==
    /\ renderTimer /\ ticks = <<>>
    /\ IF stopped \/ ~renderRequested THEN Skip(<<>>) ELSE Render(<<>>)
    /\ renderTimer' = (~stopped /\ renderRequested /\ renderRequested')
    /\ UNCHANGED <<scenario, resizes, stops, stopped>>

\* What a terminal leaves on its screen when its size changes is not known.
Resize ==
    /\ resizes > 0 /\ ~stopped
    /\ previousHeight # 0 \/ scenario.bounces
    /\ \E h \in scenario.heights, w \in 1..2 : \E r \in 0..(h - 1) :
           /\ <<h, w>> # <<height, width>>
           /\ scenario.bounces \/ <<h, w>> # <<previousHeight, previousWidth>>
           /\ term' = [rows |-> RowsOf(Garbled, h), row |-> r, scrolled |-> 0]
           /\ width' = w
    /\ resizes' = resizes - 1
    /\ Requested
    /\ UNCHANGED <<scenario, home, stops, repeats, renderTimer, stopped, renderVars>>

\* Mutant: the cursor is moved down without a new line.
stop_NoNewline ==
    /\ ~stopped /\ stops > 0 /\ "force" \notin Range(ticks)
    /\ stopped' = TRUE /\ stops' = stops - 1
    /\ renderTimer' = FALSE
    /\ term' = IF previousLines = <<>> THEN term
               ELSE Down(term, Len(previousLines) - hardwareCursorRow)
    /\ UNCHANGED <<scenario, width, home, resizes, repeats, renderRequested, ticks, renderVars>>

\* The cursor is left below the lines.  (No caller stops when it has just
\* forced a render.)
stop ==
    /\ ~stopped /\ stops > 0 /\ "force" \notin Range(ticks)
    /\ stopped' = TRUE /\ stops' = stops - 1
    /\ renderTimer' = FALSE
    /\ term' = IF previousLines = <<>> THEN term
               ELSE [Newlines(Down(term, Len(previousLines) - hardwareCursorRow), 1) EXCEPT
                        !.scrolled = IF scenario.counts THEN @ ELSE 0]
    /\ UNCHANGED <<scenario, width, home, resizes, repeats, renderRequested, ticks, renderVars>>

\* Another program has used the terminal.
start ==
    /\ stopped /\ stopped' = FALSE
    /\ \E h \in scenario.heights : \E r \in 0..(h - 1) :
              term' = [rows |-> RowsOf(Shell, h), row |-> r, scrolled |-> 0]
    /\ IF scenario.forces
       THEN /\ Forgotten
            /\ ticks' = Append(IF renderRequested THEN ticks ELSE Append(ticks, "schedule"), "force")
       ELSE Requested /\ UNCHANGED <<renderTimer, renderVars>>
    /\ UNCHANGED <<scenario, width, home, bounds>>

Next ==
    \/ requestRender \/ forceRender \/ scheduleRender \/ ForcedTick \/ TimerFires
    \/ Resize \/ stop \/ start

Spec == Init /\ [][Next]_vars

-----------------------------------------------------------------------------
TypeOK ==
    /\ scenario \in Scenarios
    /\ height \in scenario.heights /\ term.row \in 0..(height - 1) /\ width \in 1..2
    /\ renderRequested \in BOOLEAN /\ renderTimer \in BOOLEAN /\ stopped \in BOOLEAN
    /\ ticks \in Seq({"schedule", "force"})
    /\ previousLines \in Seq(Texts)
    /\ hardwareCursorRow \in 0..scenario.lines /\ previousViewportTop \in 0..scenario.lines

Current == previousHeight = height /\ previousWidth = width
TopRow == term.row - (hardwareCursorRow - previousViewportTop)    \* where the top line is shown

\* Whatever frames were rendered one after another, and however little of them
\* was written, the screen shows the lines from previousViewportTop on, each on
\* a row of its own, and nothing else: no line of an earlier frame, above them
\* at most what was there before.  The cursor is where the code takes it to be
\* (doRender: "hardwareCursorRow tracks actual terminal cursor position").
ScreenIsViewport ==
    Current /\ ~stopped =>
        /\ TopRow \in 0..(height - 1)
        /\ Len(previousLines) <= previousViewportTop + height - TopRow
        /\ \A row \in 0..(height - 1) :
               LET line == previousViewportTop + row - TopRow + 1
               IN IF row < TopRow THEN term.rows[row + 1] \in {Shell, Blank}
                  ELSE term.rows[row + 1] =
                           IF line <= Len(previousLines) THEN previousLines[line] ELSE Blank

\* stop() leaves the cursor below the lines: what the shell writes next does not
\* run into them ("Move cursor to the end of the content to prevent
\* overwriting/artifacts on exit").
NothingBelowExit ==
    Current /\ stopped => \A row \in term.row..(height - 1) : term.rows[row + 1] = Blank

\* The screen and the rows that scrolled out of it are one buffer, in which each
\* line has one row: no line is in the history and on the screen.
HistoryInStep ==
    Current /\ ~stopped => term.scrolled + term.row = home + hardwareCursorRow

\* A render that was requested is on its way, unless the UI is stopped: later
\* requests return early and rely on it.
RequestedIsComing == renderRequested /\ ~stopped => renderTimer \/ ticks # <<>>
=============================================================================
