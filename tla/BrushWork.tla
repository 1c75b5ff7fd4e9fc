------------------------------- MODULE BrushWork -------------------------------
(***************************************************************************)
(* BrushWork: the mouse callbacks of the window with the canvas, which     *)
(* paint with a tool buffer, next to the panel that chooses tool and       *)
(* colour.  GLUT calls the callbacks of both windows from one loop, in any *)
(* order; the panel's keyboard works while the mouse draws.                *)
(***************************************************************************)
EXTENDS Canvas, BrushPanel, Float32, Sequences

CONSTANTS
    Points,         \* where the mouse goes, on the canvas or off
    NoColor,        \* the colour of a tool buffer that has not been given one
    NoTool,         \* the value m_activeTool happens to have at first
    MaxStrokes      \* bound on the events of the mouse that paint

ASSUME PointsAreWhole == Points \subseteq Int \X Int

VARIABLES
    pixels,         \* the canvas
    m_drag,         \* the left button is down
    m_prev,         \* m_prevX, m_prevY
    m_activeTool,   \* the tool last applied
    toolColor,      \* m_red, m_green and m_blue of the tool buffer
    heart,          \* the entries of the heart's mask that memory decides
    running,
    strokeColor,    \* what the panel showed when the left button went down
    strokes         \* the events that painted so far

appVars == <<pixels, m_drag, m_prev, m_activeTool, toolColor, heart, running, strokeColor, strokes>>
vars == <<appVars, panelVars>>

Shown(color) == IF \A c \in Channels : color[c] = 0 THEN Black ELSE color

Init ==
    /\ PanelInit
    /\ pixels = [p \in Pixels |-> {Background}]
    /\ m_drag = FALSE
    /\ m_prev = <<0, 0>>
    /\ m_activeTool = NoTool
    /\ toolColor = NoColor
    /\ heart \in [Unassigned -> Intensities]
    /\ running = TRUE
    /\ strokeColor = NoColor
    /\ strokes = 0

SquareRoot(n) == CHOOSE r \in 0 .. n : r * r <= n /\ (r + 1) * (r + 1) > n

Distance(p, q) ==
    SquareRoot((p[1] - q[1]) * (p[1] - q[1]) + (p[2] - q[2]) * (p[2] - q[2]))

(* p + ((float) i / (float) distance) * (q - p), as an int.                *)
Between(p, q, i, distance) ==
    IF i = 0 \/ p = q THEN p
    ELSE IF q > p THEN PlusToInt(p, 1, TimesInt(Quotient(i, distance), q - p))
    ELSE PlusToInt(p, -1, TimesInt(Quotient(i, distance), p - q))

RangeOfColumns == MaskCol[m_activeTool] \div 2    \* mistake: the columns decide

(* Half of the rows of the tool that was applied last, which is the tool   *)
(* chosen now unless that has changed during the stroke.                   *)
StampRange == MaskRow[m_activeTool] \div 2

(* The points a drag to q is stamped at: those that fill in the way, if it *)
(* is longer than the range, and q.                                        *)
Stamps(q) ==
    LET distance == Distance(m_prev, q)
        n == IF distance > StampRange THEN (distance - 1) \div StampRange + 1 ELSE 0
    IN  [k \in 1 .. n + 1 |->
            IF k = n + 1 THEN q
            ELSE <<Between(m_prev[1], q[1], (k - 1) * StampRange, distance),
                   Between(m_prev[2], q[2], (k - 1) * StampRange, distance)>>]

(* The canvas once the tool has been applied at one point after the other. *)
Painted(points, color) ==
    LET after[k \in 0 .. Len(points)] ==
            IF k = 0 THEN pixels
            ELSE Stamped(after[k - 1], m_curTool, points[k], color, heart)
    IN  after[Len(points)]

ApplyTool(points) ==
    /\ pixels' = Painted(points, toolColor')
    /\ m_activeTool' = m_curTool

MouseUsable == running /\ strokes < MaxStrokes /\ strokes' = strokes + 1

LeftMouseDown(p) ==
    /\ MouseUsable /\ ~m_drag
    /\ toolColor' = Shown(m_curColor)
    /\ strokeColor' = Shown(float_val)
    /\ ApplyTool(<<p>>)
    /\ m_prev' = p
    /\ m_drag' = TRUE
    /\ UNCHANGED <<heart, running, panelVars>>

DragInNewColor(q) ==    \* mistake: the colour is taken again at every drag
    /\ MouseUsable /\ m_drag
    /\ toolColor' = Shown(m_curColor)
    /\ ApplyTool(Stamps(q))
    /\ m_prev' = q
    /\ UNCHANGED <<m_drag, heart, running, strokeColor, panelVars>>

MouseDragged(q) ==
    /\ MouseUsable /\ m_drag
    /\ UNCHANGED toolColor
    /\ ApplyTool(Stamps(q))
    /\ m_prev' = q
    /\ UNCHANGED <<m_drag, heart, running, strokeColor, panelVars>>

(* mouseMoved and the other buttons do nothing.                            *)
LeftMouseUp ==
    /\ running /\ m_drag
    /\ m_drag' = FALSE
    /\ UNCHANGED <<pixels, m_prev, m_activeTool, toolColor, heart, running, strokeColor, strokes, panelVars>>

(* Nothing in the panel matters once the last stroke has been painted.     *)
Panel == running /\ strokes < MaxStrokes /\ PanelNext /\ UNCHANGED appVars

Quit ==
    /\ running
    /\ running' = FALSE
    /\ UNCHANGED <<pixels, m_drag, m_prev, m_activeTool, toolColor, heart, strokeColor, strokes, panelVars>>

Next ==
    \/ \E p \in Points : LeftMouseDown(p) \/ MouseDragged(p)
    \/ LeftMouseUp
    \/ Panel
    \/ Quit

Spec == Init /\ [][Next]_vars

-------------------------------------------------------------------------------
(* The panel shows the colour that will be painted with: each spinner has  *)
(* the number of its live variable and knows it (gluiControl sets the      *)
(* variables of a preset, BrushWorkApp.cpp:152-191, and the spinners only  *)
(* after it), and no spinner is off limits.                                *)
PanelShowsColor ==
    /\ float_val = m_curColor /\ last_live_float = m_curColor
    /\ m_curColor \in [Channels -> 0 .. FloatHigh]

(* What a stroke adds to a pixel, from the press of the button to its      *)
(* release, is the colour that the panel showed at the press, or the       *)
(* eraser's background, whatever happens in the panel during the stroke.   *)
StrokeHasOneColor ==
    [][\A p \in Pixels : pixels'[p] \ pixels[p] \subseteq {strokeColor', Background}]_vars

Touched(t, point) ==
    {Target(t, point, cell) : cell \in {c \in Cells(t) : Mask(t, c, heart) # "none"}}

Near(p, q, gap) == p[1] - q[1] \in -gap .. gap /\ p[2] - q[2] \in -gap .. gap

(* Consecutive stamps of a drag leave no gap wider than allowed between    *)
(* the pixels they touch, the pixels of the stroke so far included.        *)
Joined(points, gap) ==
    \A k \in 1 .. Len(points) - 1 :
        \E p \in Touched(m_curTool, points[k]), q \in Touched(m_curTool, points[k + 1]) :
            Near(p, q, gap)

Drags == m_drag /\ strokes' # strokes
Path(q) == <<m_prev>> \o Stamps(q)

(* A fast drag is filled in (BrushWorkApp.cpp:56): with a tool wider than  *)
(* the pen its stamps touch or overlap, in every direction, also when      *)
(* rounding has moved one, as long as the tool is not changed on the way.  *)
DragIsFilledIn ==
    [][Drags /\ m_curTool = m_activeTool /\ m_curTool \notin {Pen, Special} =>
          Joined(Path(m_prev'), 1)]_vars
===============================================================================
