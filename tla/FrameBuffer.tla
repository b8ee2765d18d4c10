------------------------------ MODULE FrameBuffer ------------------------------
(***************************************************************************)
(* tuix::FrameBuffer, one row of it: glyphs of one or two columns that     *)
(* widgets draw over one another. Columns are counted from 1.              *)
(***************************************************************************)
EXTENDS Integers, Sequences, SequencesExt

CONSTANTS
    WidthOf,        \* the glyphs, with EstimateDisplayWidth of each
    Plain,          \* the style of a cleared cell
    Space, None

Width(glyph) == IF glyph \in {Space, None} THEN 1 ELSE WidthOf[glyph]

\* A wide glyph's second column is a continuation cell.
BlankCell == [glyph |-> Space, width |-> 1, continuation |-> FALSE, style |-> Plain]
BlankFrame(w) == [x \in 1..w |-> BlankCell]

FindCellAnchorX(f, x) == CHOOSE a \in 1..x : (a = 1 \/ ~f[a].continuation) /\ \A i \in (a + 1)..x : f[i].continuation
ClearAnchor(f, a) == [x \in DOMAIN f |-> IF x \in a..(a + f[a].width - 1) THEN BlankCell ELSE f[x]]

\* The glyph and its continuation cells, over whatever is there.
Placed(f, x, glyph, style) ==
    [i \in DOMAIN f |->
        IF i = x THEN [glyph |-> glyph, width |-> Width(glyph), continuation |-> FALSE, style |-> style]
        ELSE IF i \in x..(x + Width(glyph) - 1) THEN [BlankCell EXCEPT !.continuation = TRUE, !.style = style]
        ELSE f[i]]

\* A mutant of PutStyled: only the columns of the new glyph change.
PutOver(f, x, glyph, style) == Placed(f, x, glyph, style)

\* Every glyph the new one touches is cleared as a whole.
PutStyled(f, x, glyph, style) ==
    LET covered == SelectSeq([i \in 1..Width(glyph) |-> x + i - 1], LAMBDA i : i \in DOMAIN f)
        cleared == FoldLeft(LAMBDA g, i : ClearAnchor(g, FindCellAnchorX(g, i)), f, covered)
    IN  Placed(cleared, x, glyph, style)

\* DrawUtf8StyledClipped: left to right, until a glyph would pass the bounds.
DrawGlyph(d, acc, glyph) ==
    IF acc.full \/ acc.col + Width(glyph) > d.x + d.width THEN [acc EXCEPT !.full = TRUE]
    ELSE [acc EXCEPT !.frame = PutStyled(@, acc.col, glyph, d.style), !.col = @ + Width(glyph)]
Draw(f, d) == FoldLeft(LAMBDA acc, glyph : DrawGlyph(d, acc, glyph), [frame |-> f, col |-> d.x, full |-> FALSE], d.text).frame

\* The frames of a width: what widgets draw, one after the other, each inside its bounds.
Fits(drawings, w) == \A i \in DOMAIN drawings : drawings[i].x + drawings[i].width <= w + 1
DrawnFrames(screens, w) == {FoldLeft(Draw, BlankFrame(w), drawings) : drawings \in {ds \in screens : Fits(ds, w)}}
================================================================================
