-------------------------------- MODULE Canvas --------------------------------
(***************************************************************************)
(* BrushWork's pixel buffer, colours and tools: what one application of a  *)
(* tool at a point does to the canvas.  A colour is the set of the pure    *)
(* colours mixed in it, and an entry of a mask is one of three intensities:*)
(* "none" (0) leaves a pixel alone, "full" (1) replaces its colour, "some" *)
(* blends the two.                                                         *)
(***************************************************************************)
EXTENDS Integers, FiniteSets

CONSTANTS
    Width, Height,       \* of the canvas
    MaskRow, MaskCol,    \* the size of each tool's mask
    Outline,             \* the entries of the heart's mask that are assigned
    Background, Black    \* pure colours: the canvas's, and the one without luminance

Tools == 0 .. 5
Pen == 0
Eraser == 1
SprayCan == 2
CalligraphyPen == 3
Highlighter == 4
Special == 5

ASSUME CanvasAssumption ==
    /\ Width \in 1 .. 64 /\ Height \in 1 .. 64
    /\ MaskRow \in [Tools -> Nat \ {0, 1}] /\ MaskCol \in [Tools -> Nat \ {0, 1}]
    /\ Outline \subseteq (0 .. MaskRow[Special] - 1) \X (0 .. MaskCol[Special] - 1)

Intensities == {"none", "some", "full"}
Pixels == (0 .. Width - 1) \X (0 .. Height - 1)
Cells(t) == (0 .. MaskRow[t] - 1) \X (0 .. MaskCol[t] - 1)

(* The entries closer to the middle than half the mask's size.             *)
InCircle(t, cell) ==
    LET r == MaskRow[t] \div 2
    IN  (cell[1] - r) * (cell[1] - r) + (cell[2] - r) * (cell[2] - r) < r * r

(* The tools' masks.  A tool's constructor makes it, but what the heart's  *)
(* does not assign is left to the memory it got: heart.                    *)
Mask(t, cell, heart) ==
    CASE t \in {Pen, Eraser} -> IF InCircle(t, cell) THEN "full" ELSE "none"
      [] t = SprayCan -> IF InCircle(t, cell) THEN "some" ELSE "none"
      [] t = CalligraphyPen -> "full"
      [] t = Highlighter -> "some"
      [] t = Special -> IF cell \in Outline THEN "full" ELSE heart[cell]

Unassigned == Cells(Special) \ Outline

(* createColorData: the eraser paints with the background, the highlighter *)
(* in proportion to the luminance of the pixel.                            *)
Blended(old, t, intensity, toolColor) ==
    LET new == IF t = Eraser THEN {Background} ELSE {toolColor}
    IN  IF intensity = "none" \/ (t = Highlighter /\ old = {Black}) THEN old
        ELSE IF intensity = "full" THEN new
        ELSE old \cup new

(* The pixel that an entry of the mask falls on: the row, which goes with  *)
(* x, is centred by the columns and the column, with y, by the rows.       *)
Target(t, point, cell) ==
    <<point[1] + cell[1] - MaskCol[t] \div 2, point[2] + cell[2] - MaskRow[t] \div 2>>

(* The entry of the mask that falls on a pixel.                            *)
Source(t, point, p) ==
    <<p[1] - point[1] + MaskCol[t] \div 2, p[2] - point[2] + MaskRow[t] \div 2>>

(* applyTool at a point, on or off the canvas.                             *)
Stamped(pixels, t, point, toolColor, heart) ==
    [p \in Pixels |->
        LET cell == Source(t, point, p)
        IN  IF cell \in Cells(t)
            THEN Blended(pixels[p], t, Mask(t, cell, heart), toolColor)
            ELSE pixels[p]]
===============================================================================
