--------------------------------- MODULE TuiApp ---------------------------------
(***************************************************************************)
(* tuix::Application: one Tick settles the focus, takes one input event,   *)
(* hands it to one widget and lays the tree out for a repaint; between     *)
(* ticks the program shows, hides, enables and focuses widgets. Geometry   *)
(* is one column of rows (HorizontalLayout is the same along the other     *)
(* axis); what widgets draw is TuiScreen's.                                *)
(***************************************************************************)
EXTENDS Integers, FiniteSets, Sequences, SequencesExt

CONSTANTS
    Widgets, KindOf, Children, Focusable,
    Gap, Padding, Weight,   \* of layouts and, for Weight, of their children
    Roots, Heights, Events, None,
    MaxChanges      \* changes the program makes between the ticks

VARIABLES
    root, visible, enabled,
    flagged,        \* widgets whose focused_ is set
    focus,          \* focused_widget_
    bounds,         \* rows of each widget at the last layout: [from, size]
    height, lastHeight, repaint, running,
    acted,          \* the widget that handled the last event, or None
    left,           \* widgets the focus left while they were hidden or disabled
    changes         \* counts up to MaxChanges

appVars == <<root, visible, enabled, flagged, focus, bounds, height, lastHeight, repaint, running, acted, left,
             changes>>

IsLayout(w) == KindOf[w] \in {"vertical", "panel"}
Usable(w) == w \in visible \cap enabled

Tree[n \in 0..Cardinality(Widgets)] ==
    [w \in Widgets |-> IF n = 0 THEN {w} ELSE {w} \cup UNION {Tree[n - 1][Children[w][i]] : i \in DOMAIN Children[w]}]
Under(w) == Tree[Cardinality(Widgets)][w]

--------------------------------------------------------------------------------
(* Layout: every child gets its share of the rows left, rounded up.        *)

\* The rows of a layout that its children share.
Inner(w, size) ==
    LET taken == 2 * Padding[w] + Gap[w] * (Len(Children[w]) - 1) IN IF size > taken THEN size - taken ELSE 0

Share(rest, weight, weights) == ((rest * weight) + weights - 1) \div weights

VerticalSpans(w, from, size) ==
    LET kids == Children[w]
        total == FoldLeft(LAMBDA sum, k : sum + Weight[k], 0, kids)
        Step(acc, k) ==
            LET last == Len(acc.spans) + 1 = Len(kids)
                n == IF last THEN acc.rest ELSE Share(acc.rest, Weight[k], acc.weights)
            IN  [rest |-> acc.rest - n, weights |-> acc.weights - Weight[k], y |-> acc.y + n + Gap[w],
                 spans |-> Append(acc.spans, [from |-> acc.y, size |-> n])]
    IN  FoldLeft(Step, [rest |-> Inner(w, size), weights |-> total, y |-> from + Padding[w], spans |-> <<>>], kids).spans

PanelSpans(w, from, size) ==
    [i \in DOMAIN Children[w] |->
        IF size <= 2 THEN [from |-> from, size |-> 0] ELSE [from |-> from + 1, size |-> size - 2]]

RECURSIVE LayOut(_, _, _)
LayOut(b, w, span) ==
    LET spans == CASE KindOf[w] = "vertical" -> VerticalSpans(w, span.from, span.size)
                   [] KindOf[w] = "panel" -> PanelSpans(w, span.from, span.size)
                   [] OTHER -> <<>>
    IN  FoldLeft(LAMBDA acc, i : LayOut(acc, Children[w][i], spans[i]), [b EXCEPT ![w] = span],
                 [i \in DOMAIN spans |-> i])

HitTest(w, y) == w \in visible /\ y >= bounds[w].from /\ y < bounds[w].from + bounds[w].size

--------------------------------------------------------------------------------
(* Walks over the tree: focus order, pointer, events.                      *)

RECURSIVE Collect(_)
CollectFocusables(w) ==
    IF ~Usable(w) THEN <<>>
    ELSE (IF w \in Focusable THEN <<w>> ELSE <<>>) \o Collect(Children[w])
Collect(ws) == IF ws = <<>> THEN <<>> ELSE CollectFocusables(ws[1]) \o Collect(Tail(ws))

First(found) == LET some == SelectSeq(found, LAMBDA w : w # None) IN IF some = <<>> THEN None ELSE some[1]

RECURSIVE FindFocusedWidget(_)
FindFocusedWidget(w) ==
    IF ~Usable(w) THEN None
    ELSE IF w \in flagged THEN w
    ELSE First([i \in DOMAIN Children[w] |-> FindFocusedWidget(Children[w][i])])

RECURSIVE FindWidgetAt(_, _)
FindWidgetAt(w, y) ==
    IF ~Usable(w) \/ ~HitTest(w, y) THEN None
    ELSE LET found == First(Reverse([i \in DOMAIN Children[w] |-> FindWidgetAt(Children[w][i], y)])) IN
             IF found = None THEN w ELSE found

IsKey(e) == e.type = "key"
IsMouse(e) == e.type = "mouse"

\* HandleEvent of the widgets that are no layouts.
ButtonHandles(w, e, marked) ==
    Usable(w) /\ \/ IsKey(e) /\ w \in marked /\ e.key = "enter"
                 \/ IsMouse(e) /\ HitTest(w, e.y)
InputHandles(w, e, marked) == IsKey(e) /\ w \in marked /\ e.key \in {"char", "left"}
ListHandles(w, e, marked) ==
    \/ IsKey(e) /\ w \in marked /\ e.key \in {"up", "down"}
    \/ IsMouse(e) /\ HitTest(w, e.y)
Handles(w, e, marked) ==
    CASE KindOf[w] = "button" -> ButtonHandles(w, e, marked)
      [] KindOf[w] = "input" -> InputHandles(w, e, marked)
      [] KindOf[w] = "list" -> ListHandles(w, e, marked)
      [] OTHER -> FALSE

\* The widget below w that takes the event, or None (Layout::HandleEvent).
RECURSIVE Taker(_, _, _)
Taker(w, e, marked) ==
    IF ~IsLayout(w) THEN IF Handles(w, e, marked) THEN w ELSE None
    ELSE LET kids == SelectSeq(Children[w], Usable)
             Ask(ws) == First([i \in DOMAIN ws |-> Taker(ws[i], e, marked)])
             pointed == IF IsMouse(e) THEN SelectSeq(Reverse(kids), LAMBDA k : HitTest(k, e.y)) ELSE <<>>
             focused == IF IsKey(e) THEN SelectSeq(kids, LAMBDA k : k \in marked) ELSE <<>>
         IN  First(<<Ask(pointed), Ask(focused), Ask(kids)>>)

--------------------------------------------------------------------------------
(* The focus. A focus is [widget, flagged].                                *)

\* A mutant of SetFocused: the widget before keeps its mark.
KeepsFlags(f, w) ==
    IF (w # None /\ (w \notin Focusable \/ ~Usable(w))) \/ w = f.widget THEN f
    ELSE [widget |-> w, flagged |-> f.flagged \cup ({w} \ {None})]

SetFocused(f, w) ==
    IF (w # None /\ (w \notin Focusable \/ ~Usable(w))) \/ w = f.widget THEN f
    ELSE [widget |-> w, flagged |-> (f.flagged \ {f.widget}) \cup ({w} \ {None})]

\* What Tick does about the focus before it asks for input: a widget that is
\* hidden or disabled itself loses the focus and keeps its mark.
Settled ==
    IF focus # None /\ Usable(focus) THEN [widget |-> focus, flagged |-> flagged]
    ELSE LET found == FindFocusedWidget(root)
             order == CollectFocusables(root)
         IN  IF found # None THEN [widget |-> found, flagged |-> flagged]
             ELSE IF order = <<>> THEN [widget |-> None, flagged |-> flagged]
             ELSE SetFocused([widget |-> None, flagged |-> flagged], order[1])

\* Tick gives the focus to the first widget that can have it.
FocusClaimed ==
    /\ focus = None \/ ~Usable(focus)
    /\ FindFocusedWidget(root) = None /\ CollectFocusables(root) # <<>>

Neighbour(n, i, back) == IF back THEN (IF i = 1 THEN n ELSE i - 1) ELSE (i % n) + 1

Moved(f, back) ==
    LET order == CollectFocusables(root)
        at == {i \in DOMAIN order : order[i] = f.widget}
        i == IF at = {} THEN 1 ELSE CHOOSE j \in at : \A k \in at : j <= k
    IN  IF order = <<>> THEN f ELSE SetFocused(f, order[Neighbour(Len(order), i, back)])

\* What one event makes of the focus, and the widget that handles it.
Handled(f, e) ==
    LET Direct(g, w) == LET taker == IF w = None THEN None ELSE Taker(w, e, g.flagged) IN
                            IF taker # None THEN taker ELSE Taker(root, e, g.flagged)
        arrows == {"up", "down", "left", "right"}
        moves == IsKey(e) /\ \/ e.key \in {"tab", "backtab"} /\ Len(CollectFocusables(root)) > 0
                             \/ e.key \in arrows /\ Len(CollectFocusables(root)) > 1
        target == FindWidgetAt(root, e.y)
        pointed == IF target = None THEN f ELSE SetFocused(f, target)
    IN  IF moves THEN [focus |-> Moved(f, e.key \in {"backtab", "up", "left"}), taker |-> None]
        ELSE IF IsMouse(e) THEN [focus |-> pointed, taker |-> Direct(pointed, target)]
        ELSE IF IsKey(e) THEN [focus |-> f, taker |-> Direct(f, f.widget)]
        ELSE [focus |-> f, taker |-> None]

SetFocus(f) == focus' = f.widget /\ flagged' = f.flagged

--------------------------------------------------------------------------------
Repainted(due) ==
    IF due \/ height # lastHeight
    THEN bounds' = LayOut(bounds, root, [from |-> 0, size |-> height]) /\ lastHeight' = height /\ repaint' = FALSE
    ELSE UNCHANGED <<bounds, lastHeight, repaint>>

Lost(f) == IF focus # None /\ f.widget # focus /\ ~Usable(focus) THEN {focus} ELSE {}

TickEvent ==
    /\ running
    /\ \E e \in Events :
        LET f == Settled
            h == Handled(f, e)
        IN  /\ SetFocus(h.focus) /\ acted' = h.taker
            /\ left' = left \cup Lost(f)
            /\ Repainted(TRUE)
    /\ UNCHANGED <<root, visible, enabled, height, running, changes>>

TickEscape ==
    /\ running /\ running' = FALSE
    /\ SetFocus(Settled) /\ acted' = None /\ left' = left \cup Lost(Settled)
    /\ Repainted(repaint \/ FocusClaimed)
    /\ UNCHANGED <<root, visible, enabled, height, changes>>

TickNoEvent ==
    /\ running
    /\ SetFocus(Settled) /\ acted' = None /\ left' = left \cup Lost(Settled)
    /\ Repainted(repaint \/ FocusClaimed)
    /\ UNCHANGED <<root, visible, enabled, height, running, changes>>

\* A failing poll ends the tick before the repaint.
TickPollError ==
    /\ running
    /\ SetFocus(Settled) /\ acted' = None /\ left' = left \cup Lost(Settled)
    /\ repaint' = (repaint \/ FocusClaimed)
    /\ UNCHANGED <<root, visible, enabled, bounds, height, lastHeight, running, changes>>

SetRoot ==
    /\ changes < MaxChanges /\ changes' = changes + 1
    /\ \E r \in Roots \ {root} : root' = r
    /\ focus' = None /\ flagged' = flagged \ {focus}
    /\ lastHeight' = 0 /\ repaint' = TRUE
    /\ UNCHANGED <<visible, enabled, bounds, height, running, acted, left>>

SetFocusedWidget ==
    \E w \in Under(root) \cup {None} :
        LET f == SetFocused([widget |-> focus, flagged |-> flagged], w) IN
            /\ f.widget # focus
            /\ SetFocus(f) /\ repaint' = TRUE
            /\ UNCHANGED <<root, visible, enabled, bounds, height, lastHeight, running, acted, left, changes>>

Toggled(S, w) == IF w \in S THEN S \ {w} ELSE S \cup {w}

SetVisible ==
    /\ changes < MaxChanges /\ changes' = changes + 1
    /\ \E w \in Widgets \ Roots : visible' = Toggled(visible, w)
    /\ acted' = None
    /\ UNCHANGED <<root, enabled, flagged, focus, bounds, height, lastHeight, repaint, running, left>>

SetEnabled ==
    /\ changes < MaxChanges /\ changes' = changes + 1
    /\ \E w \in Focusable : enabled' = Toggled(enabled, w)
    /\ acted' = None
    /\ UNCHANGED <<root, visible, flagged, focus, bounds, height, lastHeight, repaint, running, left>>

ResizeTerminal ==
    /\ changes < MaxChanges /\ changes' = changes + 1
    /\ \E h \in Heights \ {height} : height' = h
    /\ UNCHANGED <<root, visible, enabled, flagged, focus, bounds, lastHeight, repaint, running, acted, left>>

Init ==
    /\ root \in Roots /\ height \in Heights
    /\ visible = Widgets /\ enabled = Widgets
    /\ flagged = {} /\ focus = None /\ left = {} /\ acted = None
    /\ bounds = [w \in Widgets |-> [from |-> 0, size |-> 0]]
    /\ lastHeight = 0 /\ repaint = TRUE /\ running = TRUE /\ changes = 0

Next == TickEvent \/ TickEscape \/ TickNoEvent \/ TickPollError \/ SetRoot \/ SetFocusedWidget
        \/ SetVisible \/ SetEnabled \/ ResizeTerminal
Spec == Init /\ [][Next]_appVars

--------------------------------------------------------------------------------
\* The widget Application holds the focus for is marked as focused; another
\* widget is marked only if it was hidden or disabled when it lost the focus;
\* and a widget that handles an event is shown and enabled itself (Tick,
\* SetFocusedWidget, SetRoot).
FocusSound ==
    /\ focus # None => focus \in flagged
    /\ flagged \subseteq {focus} \cup left
    /\ acted # None => Usable(acted)

\* Tab alone reaches every widget that can have the focus, from any widget
\* and whatever was hidden or disabled before (Tick).
TabVisitsAll ==
    LET order == CollectFocusables(root)
        Next1(seq) == Append(seq, Moved(Last(seq), FALSE))
        visited == FoldLeft(LAMBDA seq, w : Next1(seq), <<Settled>>, order)
    IN  {order[i] : i \in DOMAIN order} \subseteq {visited[i].widget : i \in DOMAIN visited}

Overlap(a, b) == a.size > 0 /\ b.size > 0 /\ a.from < b.from + b.size /\ b.from < a.from + a.size

\* After a layout the children of a vertical layout share its rows: none
\* reaches outside, no two overlap, and whenever there is a row to share,
\* none is left over (VerticalLayout::Layout, Panel::Layout).
RowsAreShared ==
    lastHeight > 0 =>
        \A w \in Under(root) : KindOf[w] = "vertical" =>
            LET kids == Children[w]
                Size(i) == bounds[kids[i]].size
            IN  /\ \A i \in DOMAIN kids : Size(i) > 0 =>
                       /\ bounds[kids[i]].from >= bounds[w].from
                       /\ bounds[kids[i]].from + Size(i) <= bounds[w].from + bounds[w].size
                /\ \A i, j \in DOMAIN kids : i # j => ~Overlap(bounds[kids[i]], bounds[kids[j]])
                /\ LET free == bounds[w].size - 2 * Padding[w] - Gap[w] * (Len(kids) - 1) IN
                       free > 0 => FoldLeft(LAMBDA n, k : n + bounds[k].size, 0, kids) = free
================================================================================
