------------------------------- MODULE TuiScreen -------------------------------
(***************************************************************************)
(* One row of the terminal as Application::Tick repaints it: widgets draw  *)
(* a new frame, and RenderFrameDiff sends the terminal what differs from   *)
(* the frame before. Rows do not interact, so one stands for all; escape   *)
(* sequences are left out.                                                 *)
(***************************************************************************)
EXTENDS FrameBuffer

CONSTANT FramesOf       \* for each width the terminal may have the frames that are drawn

VARIABLES
    screen,         \* what each column of the terminal shows
    previous,       \* previous_frame_, or None
    dropped,        \* a frame was forgotten while the terminal showed it
    painted         \* the frame of the last repaint

screenVars == <<screen, previous, dropped, painted>>

--------------------------------------------------------------------------------
(* The terminal. A glyph printed over half of a wide one leaves no         *)
(* dependable contents in the other half.                                  *)

Shows(glyph, half, style) == [glyph |-> glyph, half |-> half, style |-> style]
Garbage == Shows(None, 1, Plain)

Torn(s, x) ==
    LET cell == s[x]
        other == IF Width(cell.glyph) = 1 THEN x
                 ELSE IF cell.half = 1 THEN x + 1 ELSE x - 1
    IN  [i \in DOMAIN s |-> IF i \in {x, other} THEN Garbage ELSE s[i]]

PrintStyledCell(s, x, glyph, style) ==
    LET columns == [i \in 1..Width(glyph) |-> x + i - 1]
        torn == FoldLeft(Torn, s, columns)
    IN  [i \in DOMAIN s |-> IF i \in x..(x + Width(glyph) - 1) THEN Shows(glyph, i - x + 1, style) ELSE torn[i]]

\* What the screen shows when it shows frame f.
Image(f) ==
    [x \in DOMAIN f |->
        LET a == FindCellAnchorX(f, x) IN Shows(f[a].glyph, x - a + 1, f[a].style)]

CellsEquivalent(now, old) == now = old

\* One cell of the diff, at column x of the walk.
DiffCell(f, old, acc, x) ==
    IF x # acc.next THEN acc
    ELSE IF CellsEquivalent(f[x], old[x]) THEN [acc EXCEPT !.next = IF f[x].continuation THEN x + 1 ELSE x + f[x].width]
    ELSE IF f[x].continuation THEN [acc EXCEPT !.next = x + 1]
    ELSE LET printed == PrintStyledCell(acc.screen, x, f[x].glyph, f[x].style)
             shrinks == ~old[x].continuation /\ old[x].width > f[x].width
         IN  [next |-> x + f[x].width,
              screen |-> IF shrinks THEN PrintStyledCell(printed, x + f[x].width, Space, Plain) ELSE printed]

\* Without a previous frame of the same size every cell is printed.
WholeCell(f, acc, x) ==
    IF x # acc.next THEN acc
    ELSE [next |-> x + (IF f[x].continuation THEN 1 ELSE f[x].width),
          screen |-> IF f[x].continuation THEN acc.screen ELSE PrintStyledCell(acc.screen, x, f[x].glyph, f[x].style)]

RenderFrameDiff(s, f, old) ==
    LET start == [next |-> 1, screen |-> s]
        columns == [x \in DOMAIN f |-> x]
    IN  IF old = None \/ Len(old) # Len(f) THEN FoldLeft(LAMBDA acc, x : WholeCell(f, acc, x), start, columns).screen
        ELSE FoldLeft(LAMBDA acc, x : DiffCell(f, old, acc, x), start, columns).screen

--------------------------------------------------------------------------------
\* Tick: the widgets draw into a new frame, the difference is sent.
Repaint ==
    \E f \in FramesOf[Len(screen)] :
        LET old == IF previous # None /\ Len(previous) = Len(f) THEN previous ELSE BlankFrame(Len(f)) IN
            /\ screen' = RenderFrameDiff(screen, f, old)
            /\ previous' = f /\ painted' = f
            /\ UNCHANGED dropped

\* RenderFrameDiff called without a previous frame, as the examples do.
PaintWhole ==
    \E f \in FramesOf[Len(screen)] :
        /\ screen' = RenderFrameDiff(screen, f, None)
        /\ previous' = f /\ painted' = f /\ dropped' = FALSE

SetRoot ==
    /\ previous # None
    /\ previous' = None /\ dropped' = TRUE
    /\ UNCHANGED <<screen, painted>>

\* The terminal gets another width: what it shows beyond is lost. The next
\* repaint comes before the width changes again.
Resize ==
    /\ painted # None
    /\ \E w \in DOMAIN FramesOf \ {Len(screen)} :
          LET cut == IF w < Len(screen) /\ screen[w + 1].half = 2 THEN Torn(screen, w) ELSE screen IN
              screen' = [x \in 1..w |-> IF x \in DOMAIN screen THEN cut[x] ELSE Shows(Space, 1, Plain)]
    /\ painted' = None /\ dropped' = TRUE
    /\ UNCHANGED previous

Init ==
    /\ \E w \in DOMAIN FramesOf : screen = Image(BlankFrame(w))
    /\ previous = None /\ dropped = FALSE /\ painted = None

Next == Repaint \/ PaintWhole \/ SetRoot \/ Resize
Spec == Init /\ [][Next]_screenVars

--------------------------------------------------------------------------------
\* After a repaint the terminal shows the frame, column by column, whatever
\* wide glyphs were drawn over one another in this frame or the one before;
\* after the previous frame was dropped (SetRoot, a resize) at least
\* everything the frame holds that is not blank (PutStyled, RenderFrameDiff).
ScreenShowsFrame ==
    previous # None /\ previous = painted =>
        \A x \in DOMAIN screen :
            screen[x] = Image(previous)[x] \/ (dropped /\ previous[x] = BlankCell)
================================================================================
