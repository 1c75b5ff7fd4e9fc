--------------------------- MODULE CourseWork_proofs ---------------------------
(***************************************************************************)
(* Proofs about BrushWork, PriorityQueue and MergeSort.                    *)
(*                                                                         *)
(* BrushWork, for a canvas of any size, any masks, points, channels and    *)
(* preset colours: the panel shows the colour that will be painted with,   *)
(* and a stroke has the one colour it showed at the press.                 *)
(*                                                                         *)
(* PriorityQueue, for any elements, priorities and length: while its two   *)
(* fields know the highest priority, remove takes the right element, and   *)
(* only the adds that LosesTrack names make them lose it.                  *)
(*                                                                         *)
(* MergeSort, for arrays of any length: mergeSort sorts them.              *)
(***************************************************************************)
EXTENDS BrushWork, PriorityQueue, MergeSort, FiniteSetTheorems, SequenceTheorems,
    WellFoundedInduction, TLAPS

-------------------------------------------------------------------------------
(* BrushWork: the invariant.                                               *)

(* What a deactivated text field gives a spinner is a number.              *)
PanelInv ==
    /\ PanelShowsColor
    /\ m_curTool \in Tools
    /\ typed \in [Channels -> Steps \cup {NotTyped}]

(* The tool buffer has the colour of the stroke, and during a stroke there *)
(* is a tool that was applied last, whose mask tells how far apart the     *)
(* stamps of a drag are.                                                   *)
BrushInv ==
    /\ PanelInv
    /\ toolColor = strokeColor
    /\ m_prev \in Int \X Int
    /\ m_drag => m_activeTool \in Tools

-------------------------------------------------------------------------------
(* The panel.                                                              *)

LEMMA ClampInLimits == ASSUME NEW v \in Int PROVE Clamp(v) \in 0 .. FloatHigh
  BY PanelAssumption DEF Clamp

(* gluiControl makes every spinner and what it knows of its live variable  *)
(* agree with the live variable, whatever they were.                       *)
LEMMA GluiControlShows ==
    ASSUME NEW color \in [Channels -> Int], gluiControl(color)
    PROVE  PanelShowsColor' /\ typed' \in [Channels -> Steps \cup {NotTyped}]
  <1> DEFINE shown == [c \in Channels |-> Clamp(color[c])]
  <1>1. DOMAIN color = Channels /\ \A c \in Channels : color[c] \in Int
    OBVIOUS
  <1>2. shown \in [Channels -> 0 .. FloatHigh]
    BY <1>1, ClampInLimits
  <1>3. float_val' = shown /\ m_curColor' = shown /\ last_live_float' = shown
    BY <1>1 DEF gluiControl, SetFloatVals
  <1>4. typed' \in [Channels -> Steps \cup {NotTyped}]
    BY <1>1 DEF gluiControl, SetFloatVals
  <1> HIDE DEF shown
  <1> QED BY <1>2, <1>3, <1>4 DEF PanelShowsColor

LEMMA CountedIsColor == ASSUME PanelInv PROVE Counted \in [Channels -> Int]
  <1>1. \A c \in Channels : m_curColor[c] \in Int
    BY PanelAssumption DEF PanelInv, PanelShowsColor
  <1>2. \A c \in Channels : typed[c] # NotTyped => typed[c] \in Int
    BY PanelAssumption DEF PanelInv
  <1>3. \A c \in Channels : (IF typed[c] = NotTyped THEN m_curColor[c] ELSE typed[c]) \in Int
    BY <1>1, <1>2
  <1> QED BY <1>3 DEF Counted

LEMMA PanelStep == ASSUME PanelInv, PanelNext PROVE PanelInv'
  <1>1. Counted \in [Channels -> Int]
    BY CountedIsColor
  <1>2. ASSUME NEW t \in RadioButtons, SelectTool(t) PROVE PanelInv'
    <2>1. m_curTool' \in Tools
      BY <1>2 DEF SelectTool, RadioButtons, Tools
    <2> QED BY <1>1, <1>2, <2>1, GluiControlShows DEF SelectTool, PanelInv
  <1>3. ASSUME NEW b \in DOMAIN Presets, Preset(b) PROVE PanelInv'
    <2>1. Presets[b] \in [Channels -> Int]
      BY PanelAssumption
    <2> QED BY <1>3, <2>1, GluiControlShows DEF Preset, PanelInv
  <1>4. ASSUME NEW c \in Channels, NEW v \in Steps, Spin(c, v) PROVE PanelInv'
    <2> DEFINE color == [Counted EXCEPT ![c] = v]
    <2>1. color \in [Channels -> Int]
      BY <1>1, PanelAssumption
    <2>2. gluiControl(color) /\ m_curTool' = m_curTool
      BY <1>4 DEF Spin
    <2> HIDE DEF color
    <2> QED BY <2>1, <2>2, GluiControlShows DEF PanelInv
  <1>5. ASSUME NEW c \in Channels, NEW v \in Steps, Type(c, v) PROVE PanelInv'
    <2>1. typed' \in [Channels -> Steps \cup {NotTyped}]
      BY <1>5 DEF Type, PanelInv
    <2> QED BY <1>5, <2>1 DEF Type, PanelInv, PanelShowsColor
  <1>6. ASSUME Deactivate PROVE PanelInv'
    BY <1>1, <1>6, GluiControlShows DEF Deactivate, PanelInv
  <1> QED BY <1>2, <1>3, <1>4, <1>5, <1>6 DEF PanelNext

-------------------------------------------------------------------------------
(* The stamps of a drag.                                                   *)

(* Every number has a root: none of the numbers whose square is not above  *)
(* it would be the last one otherwise.                                     *)
LEMMA SquareRootIsNat == ASSUME NEW n \in Nat PROVE SquareRoot(n) \in 0 .. n
  <1> DEFINE Root(r) == r * r <= n /\ (r + 1) * (r + 1) > n
             over == {r \in Nat : r * r > n}
  <1>1. \E r \in 0 .. n : Root(r)
    <2>1. over \subseteq Nat /\ n + 1 \in over
      <3>1. (n + 1) * (n + 1) = n * n + 2 * n + 1 /\ n * n \in Nat
        OBVIOUS
      <3> QED BY <3>1
    <2>2. PICK m \in over : \A k \in over : ~(<<k, m>> \in OpToRel(<, Nat))
      <3> HIDE DEF over
      <3> QED BY <2>1, NatLessThanWellFounded, WFMin
    <2>3. m \in Nat /\ m * m > n /\ m # 0
      <3>1. m \in Nat /\ m * m > n
        OBVIOUS
      <3>2. m = 0 => m * m = 0
        OBVIOUS
      <3> HIDE DEF over
      <3> QED BY <3>1, <3>2
    <2>4. m - 1 \in Nat /\ m - 1 \notin over
      <3>1. m - 1 \in Nat /\ m - 1 < m
        BY <2>3
      <3> HIDE DEF over
      <3>2. <<m - 1, m>> \in OpToRel(<, Nat)
        BY <2>3, <3>1 DEF OpToRel
      <3> QED BY <2>2, <3>1, <3>2
    <2> DEFINE r == m - 1
    <2>5. r \in Nat /\ r * r <= n /\ (r + 1) * (r + 1) > n
      <3>1. r + 1 = m /\ r \in Nat
        BY <2>3
      <3>2. r * r \in Nat /\ ~(r * r > n)
        BY <2>4
      <3> QED BY <2>3, <3>1, <3>2
    <2> HIDE DEF r
    <2>6. r <= n
      <3>1. r = 0 \/ r <= r * r
        BY <2>5
      <3> QED BY <2>5, <3>1
    <2> QED BY <2>5, <2>6
  <1>2. (CHOOSE r \in 0 .. n : Root(r)) \in 0 .. n
    <2> HIDE DEF Root
    <2> QED BY <1>1
  <1> QED BY <1>2 DEF SquareRoot

LEMMA DistanceIsNat ==
    ASSUME NEW p \in Int \X Int, NEW q \in Int \X Int
    PROVE  Distance(p, q) \in Nat
  <1> DEFINE x == p[1] - q[1]
             y == p[2] - q[2]
  <1>1. x \in Int /\ y \in Int
    OBVIOUS
  <1>2. Distance(p, q) = SquareRoot(x * x + y * y)
    BY DEF Distance
  <1> HIDE DEF x, y
  <1>3. x * x \in Nat /\ y * y \in Nat
    BY <1>1
  <1> DEFINE n == x * x + y * y
  <1>4. n \in Nat
    BY <1>3
  <1> HIDE DEF n
  <1>5. SquareRoot(n) \in Nat
    BY <1>4, SquareRootIsNat
  <1> QED BY <1>2, <1>5 DEF n

(* A drag is stamped at a positive number of points.                       *)
LEMMA StampsAreFinite ==
    ASSUME BrushInv, m_drag, NEW q \in Int \X Int
    PROVE  Len(Stamps(q)) \in Nat
  <1> DEFINE distance == Distance(m_prev, q)
             n == IF distance > StampRange THEN (distance - 1) \div StampRange + 1 ELSE 0
             point(k) ==
                IF k = n + 1 THEN q
                ELSE <<Between(m_prev[1], q[1], (k - 1) * StampRange, distance),
                       Between(m_prev[2], q[2], (k - 1) * StampRange, distance)>>
             range == {point(k) : k \in 1 .. n + 1}
  <1>1. distance \in Nat
    BY DistanceIsNat DEF BrushInv
  <1>2. StampRange \in Nat \ {0}
    <2>1. MaskRow[m_activeTool] \in Nat \ {0, 1}
      BY CanvasAssumption DEF BrushInv
    <2> QED BY <2>1 DEF StampRange
  <1>3. Stamps(q) = [k \in 1 .. n + 1 |-> point(k)]
    BY DEF Stamps
  <1>4. n + 1 \in Nat
    <2> HIDE DEF distance
    <2>1. distance > StampRange => (distance - 1) \div StampRange \in Nat
      <3> DEFINE i == distance - 1
                 d == StampRange
      <3>1. distance > StampRange => i \in Nat
        BY <1>1, <1>2
      <3>2. d \in Nat \ {0}
        BY <1>2
      <3> HIDE DEF i, d
      <3>3. i \in Nat => i \div d \in Nat
        BY <3>2
      <3> QED BY <3>1, <3>3 DEF i, d
    <2> QED BY <2>1
  <1> HIDE DEF distance, n, point
  <1>5. \A k \in 1 .. n + 1 : point(k) \in range
    OBVIOUS
  <1> HIDE DEF range
  <1>6. [k \in 1 .. n + 1 |-> point(k)] \in Seq(range)
    BY <1>4, <1>5, IsASeq
  <1> QED BY <1>3, <1>6, LenProperties
-------------------------------------------------------------------------------
(* What is painted.                                                        *)

LEMMA BlendAdds ==
    ASSUME NEW old, NEW t, NEW intensity, NEW color
    PROVE  Blended(old, t, intensity, color) \subseteq old \cup {color, Background}
  <1> DEFINE new == IF t = Eraser THEN {Background} ELSE {color}
  <1>1. new \subseteq {color, Background}
    OBVIOUS
  <1>2. Blended(old, t, intensity, color) \in {old, new, old \cup new}
    BY DEF Blended
  <1> HIDE DEF new
  <1> QED BY <1>1, <1>2

LEMMA StampAdds ==
    ASSUME NEW before, NEW t, NEW point, NEW color, NEW mask, NEW p \in Pixels
    PROVE  Stamped(before, t, point, color, mask)[p] \subseteq before[p] \cup {color, Background}
  <1> DEFINE cell == Source(t, point, p)
             intensity == Mask(t, cell, mask)
             blended == Blended(before[p], t, intensity, color)
  <1>1. Stamped(before, t, point, color, mask)[p]
            = IF cell \in Cells(t) THEN blended ELSE before[p]
    BY DEF Stamped
  <1>2. blended \subseteq before[p] \cup {color, Background}
    <2> HIDE DEF intensity
    <2> QED BY BlendAdds
  <1> HIDE DEF cell, blended
  <1> QED BY <1>1, <1>2

(* However many points a tool is applied at, all it adds to a pixel is the *)
(* colour of the tool buffer or the background.  The recursive definition  *)
(* defines a function, as no number is the least one for which it does     *)
(* not, and no application is the first one that adds anything else.       *)
LEMMA PaintedAdds ==
    ASSUME NEW points, Len(points) \in Nat, NEW color, NEW p \in Pixels
    PROVE  Painted(points, color)[p] \ pixels[p] \subseteq {color, Background}
  <1> DEFINE n == Len(points)
             StampAt(canvas, k) == Stamped(canvas, m_curTool, points[k], color, heart)
             Defines(f, m) == f = [k \in 0 .. m |-> IF k = 0 THEN pixels ELSE StampAt(f[k - 1], k)]
             undefined == {m \in Nat : ~\E f : Defines(f, m)}
  <1>1. undefined = {}
    <2> SUFFICES ASSUME undefined # {} PROVE FALSE
      OBVIOUS
    <2>1. PICK m \in undefined : \A k \in undefined : ~(<<k, m>> \in OpToRel(<, Nat))
      <3> undefined \subseteq Nat
        OBVIOUS
      <3> HIDE DEF undefined
      <3> QED BY NatLessThanWellFounded, WFMin
    <2>2. m \in Nat /\ ~\E f : Defines(f, m)
      OBVIOUS
    <2>3. m # 0
      <3> SUFFICES ASSUME m = 0 PROVE FALSE
        OBVIOUS
      <3>1. Defines([k \in 0 .. 0 |-> pixels], 0)
        <4> HIDE DEF StampAt
        <4> QED OBVIOUS
      <3> QED BY <2>2, <3>1
    <2>4. m - 1 \in Nat /\ m - 1 \notin undefined
      <3>1. m - 1 \in Nat /\ m - 1 < m
        BY <2>2, <2>3
      <3> HIDE DEF undefined
      <3>2. <<m - 1, m>> \in OpToRel(<, Nat)
        BY <2>2, <3>1 DEF OpToRel
      <3> QED BY <2>1, <3>1, <3>2
    <2>5. PICK f : Defines(f, m - 1)
      BY <2>4
    <2> DEFINE g == [k \in 0 .. m |-> IF k = m THEN StampAt(f[m - 1], m) ELSE f[k]]
    <2>6. Defines(g, m)
      <3> HIDE DEF StampAt
      <3>1. \A k \in 0 .. m - 1 : f[k] = IF k = 0 THEN pixels ELSE StampAt(f[k - 1], k)
        BY <2>2, <2>5
      <3>2. ASSUME NEW k \in 0 .. m
            PROVE  g[k] = IF k = 0 THEN pixels ELSE StampAt(g[k - 1], k)
        <4>1. CASE k = m
          <5>1. g[k - 1] = f[m - 1] /\ g[k] = StampAt(f[m - 1], m)
            BY <2>2, <2>3, <4>1
          <5> QED BY <2>3, <4>1, <5>1
        <4>2. CASE k # m
          <5>1. k \in 0 .. m - 1 /\ g[k] = f[k] /\ (k # 0 => g[k - 1] = f[k - 1])
            BY <2>2, <4>2
          <5> QED BY <3>1, <5>1
        <4> QED BY <4>1, <4>2
      <3>3. g = [k \in 0 .. m |-> g[k]]
        OBVIOUS
      <3> HIDE DEF g
      <3>4. [k \in 0 .. m |-> g[k]]
                = [k \in 0 .. m |-> IF k = 0 THEN pixels ELSE StampAt(g[k - 1], k)]
        BY <3>2
      <3> QED BY <3>3, <3>4
    <2> QED BY <2>2, <2>6
  <1> DEFINE after == CHOOSE f : Defines(f, n)
  <1>2. Defines(after, n)
    <2>1. \E f : Defines(f, n)
      BY <1>1
    <2> HIDE DEF Defines
    <2> QED BY <2>1
  <1>3. Painted(points, color) = after[n]
    BY DEF Painted
  <1>4. /\ after[0] = pixels
        /\ \A k \in 1 .. n : after[k] = StampAt(after[k - 1], k)
    <2> HIDE DEF after, StampAt
    <2> QED BY <1>2
  <1> HIDE DEF after
  <1> DEFINE Good(canvas) == canvas[p] \ pixels[p] \subseteq {color, Background}
             bad == {k \in 0 .. n : ~Good(after[k])}
  <1>5. bad = {}
    <2> SUFFICES ASSUME bad # {} PROVE FALSE
      OBVIOUS
    <2>1. PICK m \in bad : \A k \in bad : ~(<<k, m>> \in OpToRel(<, Nat))
      <3> bad \subseteq Nat
        OBVIOUS
      <3> HIDE DEF bad
      <3> QED BY NatLessThanWellFounded, WFMin
    <2>2. m \in 0 .. n /\ ~Good(after[m])
      OBVIOUS
    <2>3. m # 0
      BY <1>4, <2>2
    <2>4. m - 1 \in 0 .. n /\ m - 1 \notin bad
      <3>1. m - 1 \in Nat /\ m - 1 < m /\ m - 1 \in 0 .. n
        BY <2>2, <2>3
      <3> HIDE DEF bad
      <3>2. <<m - 1, m>> \in OpToRel(<, Nat)
        BY <2>2, <3>1 DEF OpToRel
      <3> QED BY <2>1, <3>1, <3>2
    <2> DEFINE before == after[m - 1]
    <2>5. Good(before)
      BY <2>4
    <2> HIDE DEF before
    <2>6. StampAt(before, m)[p] \subseteq before[p] \cup {color, Background}
      BY StampAdds
    <2>7. after[m] = StampAt(before, m)
      <3> HIDE DEF StampAt
      <3> QED BY <1>4, <2>2, <2>3 DEF before
    <2> HIDE DEF StampAt
    <2>8. Good(after[m])
      BY <2>5, <2>6, <2>7
    <2> QED BY <2>2, <2>8
  <1> QED BY <1>3, <1>5

-------------------------------------------------------------------------------
(* BrushInv is inductive, and a step that paints adds only the stroke's    *)
(* colour and the background.                                              *)

StrokeAdds ==
    \A p \in Pixels : pixels'[p] \ pixels[p] \subseteq {strokeColor', Background}

LEMMA Initially == ASSUME Init PROVE BrushInv
  <1>1. m_curColor \in [Channels -> 0 .. FloatHigh]
    <2>1. 0 \in 0 .. FloatHigh
      BY PanelAssumption
    <2> QED BY <2>1 DEF Init, PanelInit
  <1>2. typed \in [Channels -> Steps \cup {NotTyped}]
    BY DEF Init, PanelInit
  <1>3. m_curTool \in Tools
    BY DEF Init, PanelInit, Tools
  <1> QED BY <1>1, <1>2, <1>3 DEF Init, PanelInit, BrushInv, PanelInv, PanelShowsColor

LEMMA PanelKept == ASSUME PanelInv, UNCHANGED panelVars PROVE PanelInv'
  BY DEF panelVars, PanelInv, PanelShowsColor

LEMMA Press ==
    ASSUME BrushInv, NEW q \in Points, LeftMouseDown(q)
    PROVE  BrushInv' /\ StrokeAdds
  <1>1. toolColor' = strokeColor'
    BY DEF LeftMouseDown, BrushInv, PanelInv, PanelShowsColor
  <1>2. m_prev' \in Int \X Int /\ m_activeTool' \in Tools
    BY PointsAreWhole DEF LeftMouseDown, ApplyTool, BrushInv, PanelInv
  <1>3. PanelInv'
    BY PanelKept DEF LeftMouseDown, BrushInv
  <1>4. StrokeAdds
    <2> DEFINE points == <<q>>
    <2>1. Len(points) \in Nat /\ pixels' = Painted(points, toolColor')
      BY DEF LeftMouseDown, ApplyTool
    <2> HIDE DEF points
    <2>2. PICK color : color = toolColor'
      OBVIOUS
    <2>3. \A p \in Pixels : Painted(points, color)[p] \ pixels[p] \subseteq {color, Background}
      BY <2>1, PaintedAdds
    <2>4. pixels' = Painted(points, color)
      BY <2>1, <2>2
    <2> QED BY <1>1, <2>2, <2>3, <2>4 DEF StrokeAdds
  <1> QED BY <1>1, <1>2, <1>3, <1>4 DEF BrushInv

LEMMA Drag ==
    ASSUME BrushInv, NEW q \in Points, MouseDragged(q)
    PROVE  BrushInv' /\ StrokeAdds
  <1>1. toolColor' = toolColor /\ strokeColor' = strokeColor /\ toolColor = strokeColor
    BY DEF MouseDragged, BrushInv
  <1>2. m_prev' \in Int \X Int /\ m_activeTool' \in Tools
    BY PointsAreWhole DEF MouseDragged, ApplyTool, BrushInv, PanelInv
  <1>3. PanelInv'
    BY PanelKept DEF MouseDragged, BrushInv
  <1>4. StrokeAdds
    <2> DEFINE points == Stamps(q)
    <2>1. Len(points) \in Nat
      BY StampsAreFinite, PointsAreWhole DEF MouseDragged
    <2>2. pixels' = Painted(points, toolColor)
      BY <1>1 DEF MouseDragged, ApplyTool
    <2> HIDE DEF points
    <2>3. \A p \in Pixels :
              Painted(points, toolColor)[p] \ pixels[p] \subseteq {toolColor, Background}
      BY <2>1, PaintedAdds
    <2> QED BY <1>1, <2>2, <2>3 DEF StrokeAdds
  <1> QED BY <1>1, <1>2, <1>3, <1>4 DEF BrushInv

LEMMA BrushStep ==
    ASSUME BrushInv, [Next]_vars
    PROVE  BrushInv' /\ StrokeAdds
  <1>1. ASSUME UNCHANGED <<pixels, m_prev, toolColor, strokeColor, m_activeTool>>, PanelInv',
               m_drag' => m_drag
        PROVE  BrushInv' /\ StrokeAdds
    BY <1>1 DEF BrushInv, StrokeAdds
  <1>2. ASSUME LeftMouseUp PROVE BrushInv' /\ StrokeAdds
    <2>1. PanelInv'
      BY <1>2, PanelKept DEF LeftMouseUp, BrushInv
    <2> QED BY <1>1, <1>2, <2>1 DEF LeftMouseUp
  <1>3. ASSUME Panel PROVE BrushInv' /\ StrokeAdds
    <2>1. PanelInv'
      BY <1>3, PanelStep DEF Panel, BrushInv
    <2> QED BY <1>1, <1>3, <2>1 DEF Panel, appVars
  <1>4. ASSUME Quit PROVE BrushInv' /\ StrokeAdds
    <2>1. PanelInv'
      BY <1>4, PanelKept DEF Quit, BrushInv
    <2> QED BY <1>1, <1>4, <2>1 DEF Quit
  <1>5. ASSUME UNCHANGED vars PROVE BrushInv' /\ StrokeAdds
    <2>1. PanelInv'
      BY <1>5, PanelKept DEF vars, BrushInv
    <2> QED BY <1>1, <1>5, <2>1 DEF vars, appVars
  <1> QED BY <1>2, <1>3, <1>4, <1>5, Press, Drag DEF Next

(* The panel shows the colour that is painted with, whatever is typed,     *)
(* clicked and chosen in it, in any order.                                 *)
THEOREM PanelIsRight == Spec => []PanelShowsColor
  <1>1. Init => BrushInv
    BY Initially
  <1>2. BrushInv /\ [Next]_vars => BrushInv'
    BY BrushStep
  <1>3. BrushInv => PanelShowsColor
    BY DEF BrushInv, PanelInv
  <1> QED BY <1>1, <1>2, <1>3, PTL DEF Spec

(* A stroke adds the colour shown at the press of the button, or the       *)
(* eraser's background, to any pixel, at any number of points, though the  *)
(* panel changes tool and colour meanwhile.                                *)
THEOREM StrokeIsOneColor == Spec => StrokeHasOneColor
  <1>1. Init => BrushInv
    BY Initially
  <1>2. BrushInv /\ [Next]_vars => BrushInv'
    BY BrushStep
  <1>3. BrushInv /\ [Next]_vars
            => [\A p \in Pixels : pixels'[p] \ pixels[p] \subseteq {strokeColor', Background}]_vars
    BY BrushStep DEF StrokeAdds
  <1> QED BY <1>1, <1>2, <1>3, PTL DEF Spec, StrokeHasOneColor

-------------------------------------------------------------------------------
(* PriorityQueue: the invariant.                                           *)

(* The lists are of one length, and nextPriority is below maxPriority      *)
(* unless there is no next one: Known does not say the latter, and without *)
(* it a remove could take the last element of both priorities.             *)
QueueInv ==
    /\ queue \in Seq(Elements)
    /\ priorityIndex \in Seq(Priorities)
    /\ Len(queue) = Len(priorityIndex)
    /\ maxPriority \in Nat
    /\ nextPriority \in Nat
    /\ nextPriority < maxPriority \/ nextPriority = 0

-------------------------------------------------------------------------------
(* What the helpers of the model return.                                   *)

(* A list without one of its elements has the others, in their order.      *)
LEMMA WithoutShifts ==
    ASSUME NEW S, NEW list \in Seq(S), NEW i \in 1..Len(list)
    PROVE  /\ Without(list, i) \in Seq(S)
           /\ Len(Without(list, i)) = Len(list) - 1
           /\ \A j \in 1 .. Len(list) - 1 :
                  Without(list, i)[j] = list[IF j < i THEN j ELSE j + 1]
  <1> DEFINE n == Len(list) - 1
             from(j) == list[IF j < i THEN j ELSE j + 1]
  <1>1. Len(list) \in Nat /\ n \in Nat /\ \A j \in 1..Len(list) : list[j] \in S
    BY LenProperties, ElementOfSeq
  <1>2. \A j \in 1..n : from(j) \in S
    BY <1>1
  <1>3. Without(list, i) = [j \in 1..n |-> from(j)]
    BY DEF Without
  <1> HIDE DEF from, n
  <1>4. [j \in 1..n |-> from(j)] \in Seq(S)
    BY <1>1, <1>2, IsASeq
  <1>5. Len([j \in 1..n |-> from(j)]) = n
    BY <1>1, <1>4, LenProperties
  <1> QED BY <1>3, <1>4, <1>5 DEF from, n

(* Every set of numbers that has some element and a bound has a greatest   *)
(* element.                                                                *)
LEMMA GreatestExists ==
    ASSUME NEW bound \in Nat, NEW S, S \subseteq 0..bound, S # {}
    PROVE  \E p \in S : \A q \in S : q <= p
  <1> DEFINE gaps == {bound - p : p \in S}
  <1>1. gaps \subseteq Nat /\ gaps # {}
    <2>1. \A p \in S : p \in Nat /\ bound - p \in Nat
      OBVIOUS
    <2>2. PICK p \in S : TRUE
      OBVIOUS
    <2>3. bound - p \in gaps
      OBVIOUS
    <2> QED BY <2>1, <2>3
  <1>2. PICK g \in gaps : \A h \in gaps : ~(<<h, g>> \in OpToRel(<, Nat))
    BY <1>1, NatLessThanWellFounded, WFMin
  <1>3. \A h \in gaps : g <= h
    <2> SUFFICES ASSUME NEW h \in gaps PROVE g <= h
      OBVIOUS
    <2> HIDE DEF gaps
    <2>1. g \in Nat /\ h \in Nat
      BY <1>1
    <2>2. ~(<<h, g>> \in Nat \X Nat /\ h < g)
      BY <1>2 DEF OpToRel
    <2> QED BY <2>1, <2>2
  <1>4. PICK p \in S : g = bound - p
    OBVIOUS
  <1>5. \A q \in S : q <= p
    BY <1>3, <1>4
  <1> QED BY <1>5

(* The scan for the next priority finds the greatest one below top, and 0  *)
(* when there is none.                                                     *)
LEMMA NextBelowIsGreatest ==
    ASSUME QueueInv, NEW top \in Nat
    PROVE  /\ NextBelow(top) \in Nat
           /\ NextBelow(top) < top \/ NextBelow(top) = 0
           /\ NextBelow(top) > 0 => Queued(NextBelow(top))
           /\ \A j \in Indices :
                  priorityIndex[j] \in Nat /\ priorityIndex[j] < top
                      => priorityIndex[j] <= NextBelow(top)
  <1>1. \A j \in Indices : priorityIndex[j] \in Int
    BY PriorityAssumption, ElementOfSeq DEF QueueInv, Indices
  <1>2. Below(top) \subseteq 0..top /\ 0 \in Below(top)
    BY <1>1 DEF Below
  <1>3. \E p \in Below(top) : \A q \in Below(top) : q <= p
    BY <1>2, GreatestExists
  <1>4. NextBelow(top) \in Below(top) /\ \A q \in Below(top) : q <= NextBelow(top)
    BY <1>3 DEF NextBelow
  <1>5. \A j \in Indices :
            priorityIndex[j] \in Nat /\ priorityIndex[j] < top => priorityIndex[j] \in Below(top)
    BY <1>1 DEF Below
  <1>6. NextBelow(top) > 0 => NextBelow(top) < top /\ Queued(NextBelow(top))
    BY <1>1, <1>2, <1>4 DEF Below, Queued
  <1> QED BY <1>2, <1>4, <1>5, <1>6

-------------------------------------------------------------------------------
(* QueueInv is inductive.                                                  *)

LEMMA ListTypes ==
    ASSUME QueueInv
    PROVE  /\ Len(priorityIndex) \in Nat
           /\ Indices = 1..Len(queue)
           /\ \A j \in Indices : queue[j] \in Elements /\ priorityIndex[j] \in Int
           /\ (queue # <<>>) = (Len(priorityIndex) > 0)
  <1>1. Len(priorityIndex) \in Nat /\ Indices = 1..Len(queue)
    BY LenProperties DEF QueueInv, Indices
  <1>2. \A j \in Indices : queue[j] \in Elements /\ priorityIndex[j] \in Int
    BY PriorityAssumption, ElementOfSeq DEF QueueInv, Indices
  <1>3. (queue # <<>>) = (Len(queue) > 0)
    BY EmptySeq DEF QueueInv
  <1> QED BY <1>1, <1>2, <1>3 DEF QueueInv

(* What an add leaves, element by element.                                 *)
LEMMA AddAppends ==
    ASSUME QueueInv, NEW e \in Elements, NEW p \in Priorities, addWithPriority(e, p)
    PROVE  /\ p \in Int
           /\ Len(priorityIndex') = Len(priorityIndex) + 1
           /\ Indices' = Indices \cup {Len(priorityIndex) + 1}
           /\ \A j \in Indices : priorityIndex'[j] = priorityIndex[j]
           /\ priorityIndex'[Len(priorityIndex')] = p
           /\ QueueInv'
  <1>1. /\ queue' \in Seq(Elements) /\ Len(queue') = Len(queue) + 1
        /\ priorityIndex' \in Seq(Priorities) /\ Len(priorityIndex') = Len(priorityIndex) + 1
        /\ \A j \in 1..Len(priorityIndex) : priorityIndex'[j] = priorityIndex[j]
        /\ priorityIndex'[Len(priorityIndex) + 1] = p
    BY AppendProperties DEF addWithPriority, QueueInv
  <1>2. /\ maxPriority' = IF p >= maxPriority THEN p ELSE maxPriority
        /\ nextPriority' = IF p < maxPriority' /\ p > nextPriority THEN p ELSE nextPriority
    BY DEF addWithPriority
  <1>3. p \in Int /\ maxPriority' \in Nat /\ nextPriority' \in Nat
    BY <1>2, PriorityAssumption DEF QueueInv
  <1>4. nextPriority' < maxPriority' \/ nextPriority' = 0
    BY <1>2, <1>3 DEF QueueInv
  <1> QED BY <1>1, <1>3, <1>4, ListTypes DEF QueueInv, Indices

(* What taking the element at i leaves, element by element.                *)
LEMMA TakeShifts ==
    ASSUME QueueInv, NEW i \in Indices, Take(i)
    PROVE  /\ queue' \in Seq(Elements) /\ priorityIndex' \in Seq(Priorities)
           /\ Len(queue') = Len(queue) - 1 /\ Len(priorityIndex') = Len(queue) - 1
           /\ \A j \in Indices' : \E k \in Indices \ {i} : priorityIndex'[j] = priorityIndex[k]
           /\ \A k \in Indices \ {i} : \E j \in Indices' : priorityIndex'[j] = priorityIndex[k]
  <1>1. /\ queue' \in Seq(Elements) /\ Len(queue') = Len(queue) - 1
        /\ priorityIndex' \in Seq(Priorities) /\ Len(priorityIndex') = Len(queue) - 1
        /\ \A j \in 1 .. Len(queue) - 1 :
               priorityIndex'[j] = priorityIndex[IF j < i THEN j ELSE j + 1]
    <2>1. i \in 1..Len(queue) /\ i \in 1..Len(priorityIndex)
      BY ListTypes DEF Indices
    <2> QED BY <2>1, WithoutShifts DEF Take, QueueInv
  <1>2. Indices' = 1 .. Len(queue) - 1 /\ Indices = 1..Len(queue) /\ Len(queue) \in Nat
    BY <1>1, ListTypes DEF Indices, QueueInv
  <1>3. \A j \in Indices' : \E k \in Indices \ {i} : priorityIndex'[j] = priorityIndex[k]
    <2> SUFFICES ASSUME NEW j \in Indices'
                 PROVE  \E k \in Indices \ {i} : priorityIndex'[j] = priorityIndex[k]
      OBVIOUS
    <2>1. (IF j < i THEN j ELSE j + 1) \in Indices \ {i}
      BY <1>2
    <2> QED BY <1>1, <1>2, <2>1
  <1>4. \A k \in Indices \ {i} : \E j \in Indices' : priorityIndex'[j] = priorityIndex[k]
    <2> SUFFICES ASSUME NEW k \in Indices, k # i
                 PROVE  \E j \in Indices' : priorityIndex'[j] = priorityIndex[k]
      OBVIOUS
    <2> DEFINE j == IF k < i THEN k ELSE k - 1
    <2>1. j \in Indices' /\ (IF j < i THEN j ELSE j + 1) = k
      BY <1>2
    <2> HIDE DEF j
    <2> QED BY <1>1, <1>2, <2>1
  <1> QED BY <1>1, <1>3, <1>4

LEMMA RefreshInv ==
    ASSUME QueueInv, Refresh
    PROVE  /\ maxPriority' \in Nat
           /\ nextPriority' \in Nat
           /\ nextPriority' < maxPriority' \/ nextPriority' = 0
  <1>1. nextPriority \in Nat
    BY DEF QueueInv
  <1> QED BY <1>1, NextBelowIsGreatest DEF Refresh, QueueInv

LEMMA InitInv == QueueInit => QueueInv
  BY EmptySeq DEF QueueInit, QueueInv

LEMMA NextInv == QueueInv /\ [QueueNext]_queueVars => QueueInv'
  <1> SUFFICES ASSUME QueueInv, [QueueNext]_queueVars PROVE QueueInv'
    OBVIOUS
  <1>1. ASSUME NEW e \in Elements, NEW p \in Priorities, addWithPriority(e, p) PROVE QueueInv'
    BY <1>1, AddAppends
  <1>2. CASE remove
    <2>1. CASE queue = <<>> /\ UNCHANGED <<queue, priorityIndex, maxPriority, nextPriority>>
      BY <2>1 DEF QueueInv
    <2>2. ASSUME Refresh, NEW i \in Indices, Take(i) PROVE QueueInv'
      BY <2>2, RefreshInv, TakeShifts DEF QueueInv
    <2>3. CASE Refresh /\ UNCHANGED <<queue, priorityIndex>>
      BY <2>3, RefreshInv DEF QueueInv
    <2> QED BY <1>2, <2>1, <2>2, <2>3 DEF remove
  <1>3. CASE UNCHANGED queueVars
    BY <1>3 DEF queueVars, QueueInv
  <1> QED BY <1>1, <1>2, <1>3 DEF QueueNext

-------------------------------------------------------------------------------
(* The highest priority after Refresh, while the fields know it.           *)
LEMMA RefreshFindsHighest ==
    ASSUME QueueInv, Known, queue # <<>>, Refresh
    PROVE  /\ Queued(maxPriority')
           /\ \A j \in Indices : priorityIndex[j] <= maxPriority'
           /\ \A j \in Indices : priorityIndex[j] = maxPriority' \/ priorityIndex[j] <= nextPriority'
           /\ nextPriority' > 0 => Queued(nextPriority')
  <1> /\ nextPriority \in Nat /\ maxPriority \in Nat
      /\ \A j \in Indices : priorityIndex[j] \in Int
    BY ListTypes DEF QueueInv
  <1>1. CASE Queued(maxPriority)
    BY <1>1 DEF Refresh, Known
  <1>2. CASE ~Queued(maxPriority)
    <2>1. maxPriority' = nextPriority /\ nextPriority' = NextBelow(nextPriority)
      BY <1>2 DEF Refresh
    <2>2. \A j \in Indices : priorityIndex[j] \in Nat /\ priorityIndex[j] <= nextPriority
      BY <1>2 DEF Known, Queued
    <2>3. Queued(nextPriority)
      <3>1. CASE nextPriority > 0
        BY <3>1 DEF Known
      <3>2. CASE nextPriority = 0
        <4>1. 1 \in Indices
          BY ListTypes DEF Indices
        <4> QED BY <2>2, <3>2, <4>1 DEF Queued
      <3> QED BY <3>1, <3>2
    <2> QED BY <2>1, <2>2, <2>3, NextBelowIsGreatest
  <1> QED BY <1>1, <1>2

LEMMA TakesFirstHighest ==
    ASSUME QueueInv, Known, queue # <<>>, remove
    PROVE  \E i \in Indices :
              /\ FirstWith(maxPriority', i) /\ Take(i)
              /\ Highest(priorityIndex[i])
              /\ \A j \in 1 .. i - 1 : priorityIndex[j] < priorityIndex[i]
  <1>1. Refresh /\ Queued(maxPriority')
    BY RefreshFindsHighest DEF remove
  <1>2. PICK i \in Indices : FirstWith(maxPriority', i) /\ Take(i)
    BY <1>1 DEF remove
  <1>3. \A j \in Indices : priorityIndex[j] \in Int /\ priorityIndex[j] <= priorityIndex[i]
    BY <1>1, <1>2, RefreshFindsHighest, ListTypes DEF FirstWith
  <1>4. \A j \in 1 .. i - 1 : j \in Indices /\ priorityIndex[j] # priorityIndex[i]
    BY <1>2, ListTypes DEF FirstWith, Indices
  <1>5. \A j \in 1 .. i - 1 : priorityIndex[j] < priorityIndex[i]
    BY <1>3, <1>4
  <1> QED BY <1>2, <1>3, <1>5 DEF Highest, Queued

(* While the fields know the highest priority, remove returns the first of *)
(* the elements that have it and takes only that one away                  *)
(* (PriorityQueue.java:28, remove).                                        *)
THEOREM RemovesInOrder == QueueSpec => RemoveTakesFirstHighest
  <1>1. QueueInv /\ [QueueNext]_queueVars =>
            [Known /\ queue # <<>> /\ Len(queue') <= Len(queue) =>
                \E i \in Indices :
                    /\ Highest(priorityIndex[i])
                    /\ \A j \in 1 .. i - 1 : priorityIndex[j] < priorityIndex[i]
                    /\ returned' = queue[i]
                    /\ queue' = Without(queue, i) /\ priorityIndex' = Without(priorityIndex, i)]_queueVars
    <2> SUFFICES ASSUME QueueInv, QueueNext, Known, queue # <<>>, Len(queue') <= Len(queue)
                 PROVE  \E i \in Indices :
                          /\ Highest(priorityIndex[i])
                          /\ \A j \in 1 .. i - 1 : priorityIndex[j] < priorityIndex[i]
                          /\ returned' = queue[i]
                          /\ queue' = Without(queue, i)
                          /\ priorityIndex' = Without(priorityIndex, i)
      OBVIOUS
    <2>1. remove
      <3>1. ASSUME NEW e \in Elements, NEW p \in Priorities, addWithPriority(e, p) PROVE FALSE
        BY <3>1, AddAppends, ListTypes DEF QueueInv
      <3> QED BY <3>1 DEF QueueNext
    <2> QED BY <2>1, TakesFirstHighest DEF Take
  <1> QED BY InitInv, NextInv, <1>1, PTL DEF QueueSpec, RemoveTakesFirstHighest

(* The fields lose track of the highest priority only by an add above      *)
(* maxPriority while one above nextPriority is queued, or of a negative    *)
(* priority; no remove makes them (PriorityQueue.java:19, 28).             *)
THEOREM KeepsTrack == QueueSpec => StaysKnown
  <1>1. QueueInv /\ [QueueNext]_queueVars =>
            [Known => \/ Known'
                      \/ /\ Len(priorityIndex') > Len(priorityIndex)
                         /\ LosesTrack(priorityIndex'[Len(priorityIndex')])]_queueVars
    <2> SUFFICES ASSUME QueueInv, QueueNext, Known
                 PROVE  \/ Known'
                        \/ /\ Len(priorityIndex') > Len(priorityIndex)
                           /\ LosesTrack(priorityIndex'[Len(priorityIndex')])
      OBVIOUS
    <2>1. ASSUME NEW e \in Elements, NEW p \in Priorities, addWithPriority(e, p), ~LosesTrack(p)
          PROVE  Known'
      <3>1. /\ maxPriority' = IF p >= maxPriority THEN p ELSE maxPriority
            /\ nextPriority' = IF p < maxPriority' /\ p > nextPriority THEN p ELSE nextPriority
        BY <2>1 DEF addWithPriority
      <3>2. /\ p \in Nat /\ maxPriority \in Nat /\ nextPriority \in Nat
            /\ p > maxPriority => \A j \in Indices : priorityIndex[j] <= nextPriority
            /\ \A j \in Indices : priorityIndex[j] \in Int
        BY <2>1, AddAppends, ListTypes DEF QueueInv, LosesTrack
      <3>3. \A j \in Indices' :
                priorityIndex'[j] = p \/ \E k \in Indices : priorityIndex'[j] = priorityIndex[k]
        BY <2>1, AddAppends, ListTypes DEF QueueInv
      <3>4. \A q : Queued(q) \/ q = p => Queued(q)'
        BY <2>1, AddAppends, ListTypes DEF Queued
      <3>5. \A k \in Indices : /\ priorityIndex[k] >= 0
                              /\ \/ priorityIndex[k] = maxPriority'
                                 \/ priorityIndex[k] <= nextPriority'
        BY <3>1, <3>2 DEF Known
      <3>6. p >= 0 /\ (p = maxPriority' \/ p <= nextPriority')
        BY <3>1, <3>2
      <3>7. nextPriority' <= maxPriority' /\ (nextPriority' > 0 => Queued(nextPriority)' )
        BY <3>1, <3>2, <3>4 DEF Known
      <3> QED BY <3>3, <3>5, <3>6, <3>7 DEF Known
    <2>2. CASE remove
      <3>1. CASE queue = <<>>
        <4>1. UNCHANGED <<priorityIndex, maxPriority, nextPriority>>
          BY <2>2, <3>1 DEF remove
        <4> QED BY <4>1 DEF Known, Queued, Indices
      <3>2. CASE queue # <<>>
        <4>1. PICK i \in Indices : FirstWith(maxPriority', i) /\ Take(i)
          BY <2>2, <3>2, TakesFirstHighest
        <4>2. Refresh
          BY <2>2, <3>2 DEF remove
        <4>3. \A k \in Indices :
                  /\ priorityIndex[k] >= 0
                  /\ priorityIndex[k] = maxPriority' \/ priorityIndex[k] <= nextPriority'
          BY <3>2, <4>2, RefreshFindsHighest DEF Known
        <4>4. nextPriority' <= maxPriority'
          BY <4>2, RefreshInv
        <4>5. nextPriority' > 0 => Queued(nextPriority)'
          <5> SUFFICES ASSUME nextPriority' > 0 PROVE Queued(nextPriority)'
            OBVIOUS
          <5>1. PICK k \in Indices : priorityIndex[k] = nextPriority'
            BY <3>2, <4>2, RefreshFindsHighest DEF Queued
          <5>2. k # i
            BY <4>1, <4>2, <5>1, RefreshInv DEF FirstWith
          <5> QED BY <4>1, <5>1, <5>2, TakeShifts DEF Queued
        <4> QED BY <4>1, <4>3, <4>4, <4>5, TakeShifts DEF Known
      <3> QED BY <3>1, <3>2
    <2> QED
      <3>1. ASSUME NEW e \in Elements, NEW p \in Priorities, addWithPriority(e, p), LosesTrack(p)
            PROVE  /\ Len(priorityIndex') > Len(priorityIndex)
                   /\ LosesTrack(priorityIndex'[Len(priorityIndex')])
        BY <3>1, AddAppends, ListTypes
      <3> QED BY <2>1, <2>2, <3>1 DEF QueueNext
  <1> QED BY InitInv, NextInv, <1>1, PTL DEF QueueSpec, StaysKnown

-------------------------------------------------------------------------------
(* MergeSort.                                                              *)

(* Induction over a set of numbers.                                        *)
LEMMA CountUp ==
    ASSUME NEW S, 0 \in S, \A n \in Nat : n \in S => n + 1 \in S
    PROVE  \A n \in Nat : n \in S
  <1> DEFINE T == Nat \ S
  <1>1. T = {}
    <2> SUFFICES ASSUME T # {} PROVE FALSE
      OBVIOUS
    <2>1. PICK m \in T : \A k \in T : ~(<<k, m>> \in OpToRel(<, Nat))
      <3> T \subseteq Nat
        OBVIOUS
      <3> HIDE DEF T
      <3> QED BY NatLessThanWellFounded, WFMin
    <2>2. m \in Nat /\ m # 0 /\ m - 1 \in Nat /\ m - 1 < m
      OBVIOUS
    <2>3. <<m - 1, m>> \in OpToRel(<, Nat)
      BY <2>2 DEF OpToRel
    <2>4. m - 1 \in S
      BY <2>1, <2>2, <2>3
    <2>5. (m - 1) + 1 = m
      BY <2>2
    <2> QED BY <2>2, <2>4, <2>5
  <1> QED BY <1>1

(* ... from all smaller ones.                                              *)
LEMMA CountFromBelow ==
    ASSUME NEW S, \A n \in Nat : (\A m \in Nat : m < n => m \in S) => n \in S
    PROVE  \A n \in Nat : n \in S
  <1> DEFINE T == {n \in Nat : \A m \in Nat : m < n => m \in S}
  <1>1. 0 \in T
    OBVIOUS
  <1>2. ASSUME NEW n \in Nat, n \in T PROVE n + 1 \in T
    <2>1. n \in S
      BY <1>2
    <2>2. \A m \in Nat : m < n + 1 => m < n \/ m = n
      OBVIOUS
    <2> QED BY <1>2, <2>1, <2>2
  <1>3. \A n \in Nat : n \in T
    <2> HIDE DEF T
    <2> QED BY <1>1, <1>2, CountUp
  <1> QED BY <1>3

-------------------------------------------------------------------------------
(* What merge takes.                                                       *)

IntSeq == Seq(Int)
Ascending(s) == \A i \in 1 .. Len(s) - 1 : s[i] <= s[i + 1]

(* The next i of merge's loop, after i of array1 and j of array2.          *)
NextTaken(a, b, i, j) ==
    IF i < Len(a) /\ (j = Len(b) \/ a[i + 1] <= b[j + 1]) THEN i + 1 ELSE i

LEMMA TakenDefined ==
    ASSUME NEW a \in IntSeq, NEW b \in IntSeq
    PROVE  LET t == Taken(a, b)
           IN  /\ t[0] = 0
               /\ \A k \in 1 .. Len(a) + Len(b) :
                    t[k] = NextTaken(a, b, t[k - 1], k - 1 - t[k - 1])
  <1> DEFINE Step(i, k) == NextTaken(a, b, i, k - 1 - i)
             Defines(f, m) == f = [k \in 0 .. m |-> IF k = 0 THEN 0 ELSE Step(f[k - 1], k)]
             defined == {m \in Nat : \E f : Defines(f, m)}
             n == Len(a) + Len(b)
  <1>1. 0 \in defined
    <2>1. Defines([k \in 0 .. 0 |-> 0], 0)
      <3> HIDE DEF Step
      <3> QED OBVIOUS
    <2> QED BY <2>1
  <1>2. ASSUME NEW m \in Nat, m \in defined PROVE m + 1 \in defined
    <2>1. PICK f : Defines(f, m)
      BY <1>2
    <2> DEFINE g == [k \in 0 .. m + 1 |-> IF k = m + 1 THEN Step(f[m], m + 1) ELSE f[k]]
    <2>2. Defines(g, m + 1)
      <3> HIDE DEF Step
      <3>1. \A k \in 0 .. m : f[k] = IF k = 0 THEN 0 ELSE Step(f[k - 1], k)
        BY <2>1
      <3>2. ASSUME NEW k \in 0 .. m + 1 PROVE g[k] = IF k = 0 THEN 0 ELSE Step(g[k - 1], k)
        <4>1. CASE k = m + 1
          <5>1. k - 1 = m /\ k # 0
            BY <4>1
          <5>2. g[k - 1] = f[m] /\ g[k] = Step(f[m], m + 1)
            BY <4>1, <5>1
          <5> QED BY <4>1, <5>1, <5>2
        <4>2. CASE k # m + 1
          <5>1. k \in 0 .. m /\ g[k] = f[k] /\ (k # 0 => g[k - 1] = f[k - 1])
            BY <4>2
          <5> QED BY <3>1, <5>1
        <4> QED BY <4>1, <4>2
      <3>3. g = [k \in 0 .. m + 1 |-> g[k]]
        OBVIOUS
      <3> HIDE DEF g
      <3>4. [k \in 0 .. m + 1 |-> g[k]]
                = [k \in 0 .. m + 1 |-> IF k = 0 THEN 0 ELSE Step(g[k - 1], k)]
        BY <3>2
      <3> QED BY <3>3, <3>4
    <2>3. \E h : Defines(h, m + 1)
      <3> HIDE DEF g, Defines
      <3> QED BY <2>2
    <2> HIDE DEF g, Defines
    <2> QED BY <2>3
  <1>3. n \in Nat /\ n \in defined
    <2>1. \A m \in Nat : m \in defined
      <3> HIDE DEF defined
      <3> QED BY <1>1, <1>2, CountUp
    <2> QED BY <2>1, LenProperties DEF IntSeq
  <1> DEFINE t == CHOOSE f : Defines(f, n)
  <1>4. Defines(t, n)
    <2>1. \E f : Defines(f, n)
      BY <1>3
    <2> HIDE DEF Defines
    <2> QED BY <2>1
  <1>5. Taken(a, b) = t
    BY DEF Taken, NextTaken
  <1>6. t[0] = 0 /\ \A k \in 1 .. n : t[k] = Step(t[k - 1], k)
    <2> HIDE DEF t, Step
    <2> QED BY <1>3, <1>4
  <1> QED BY <1>5, <1>6

LEMMA TakenInRange ==
    ASSUME NEW a \in IntSeq, NEW b \in IntSeq
    PROVE  \A k \in 0 .. Len(a) + Len(b) :
              Taken(a, b)[k] \in 0 .. Len(a) /\ k - Taken(a, b)[k] \in 0 .. Len(b)
  <1> DEFINE t == Taken(a, b)
             n == Len(a) + Len(b)
             InRange(k) == t[k] \in 0 .. Len(a) /\ k - t[k] \in 0 .. Len(b)
             S == {k \in Nat : k <= n => InRange(k)}
  <1>1. Len(a) \in Nat /\ Len(b) \in Nat /\ n \in Nat
    BY LenProperties DEF IntSeq
  <1>2. t[0] = 0 /\ \A k \in 1 .. n : t[k] = NextTaken(a, b, t[k - 1], k - 1 - t[k - 1])
    BY TakenDefined
  <1> HIDE DEF t
  <1>3. 0 \in S
    BY <1>1, <1>2
  <1>4. ASSUME NEW k \in Nat, k \in S PROVE k + 1 \in S
    <2> SUFFICES ASSUME k + 1 <= n PROVE InRange(k + 1)
      OBVIOUS
    <2>1. InRange(k)
      BY <1>1, <1>4
    <2>2. k + 1 \in 1 .. n /\ (k + 1) - 1 = k
      BY <1>1
    <2>3. t[k + 1] = NextTaken(a, b, t[k], k - t[k])
      BY <1>2, <2>2
    <2> DEFINE i == t[k]
    <2>4. i \in 0 .. Len(a) /\ k - i \in 0 .. Len(b)
      BY <2>1
    <2> HIDE DEF i
    <2>5. t[k + 1] = NextTaken(a, b, i, k - i)
      BY <2>3 DEF i
    <2>6. t[k + 1] = i + 1 => i < Len(a)
      BY <1>1, <2>4, <2>5 DEF NextTaken
    <2>7. t[k + 1] # i + 1 => t[k + 1] = i /\ k - i < Len(b)
      BY <1>1, <2>4, <2>5 DEF NextTaken
    <2> QED BY <1>1, <2>4, <2>6, <2>7
  <1>5. \A k \in Nat : k \in S
    <2> HIDE DEF S
    <2> QED BY <1>3, <1>4, CountUp
  <1>6. \A k \in 0 .. n : k \in Nat /\ k <= n
    BY <1>1
  <1> HIDE DEF n
  <1>7. \A k \in 0 .. n : InRange(k)
    BY <1>5, <1>6
  <1> QED BY <1>7 DEF n, t

(* Merge's element k is the next of array1 or the next of array2.          *)
TakesFirst(a, b, k) ==
    LET i == Taken(a, b)[k - 1]
        j == k - 1 - i
    IN  /\ i < Len(a) /\ (j = Len(b) \/ a[i + 1] <= b[j + 1])
        /\ Taken(a, b)[k] = i + 1
        /\ merge(a, b)[k] = a[i + 1]

TakesSecond(a, b, k) ==
    LET i == Taken(a, b)[k - 1]
        j == k - 1 - i
    IN  /\ j < Len(b) /\ (i = Len(a) \/ b[j + 1] < a[i + 1])
        /\ Taken(a, b)[k] = i
        /\ merge(a, b)[k] = b[j + 1]

LEMMA TakesEither ==
    ASSUME NEW a \in IntSeq, NEW b \in IntSeq, NEW k \in 1 .. Len(a) + Len(b)
    PROVE  TakesFirst(a, b, k) \/ TakesSecond(a, b, k)
  <1> DEFINE t == Taken(a, b)
             i == t[k - 1]
             j == k - 1 - i
  <1>1. Len(a) \in Nat /\ Len(b) \in Nat
    BY LenProperties DEF IntSeq
  <1>2. k - 1 \in 0 .. Len(a) + Len(b)
    BY <1>1
  <1>3. t[k] = NextTaken(a, b, t[k - 1], k - 1 - t[k - 1])
    BY TakenDefined
  <1>4. t[k - 1] \in 0 .. Len(a) /\ k - 1 - t[k - 1] \in 0 .. Len(b)
    BY <1>2, TakenInRange
  <1>5. merge(a, b)[k] = IF t[k] > t[k - 1] THEN a[t[k]] ELSE b[k - t[k]]
    BY DEF merge
  <1>6. \A m \in 1 .. Len(a) : a[m] \in Int
    BY ElementOfSeq DEF IntSeq
  <1>7. \A m \in 1 .. Len(b) : b[m] \in Int
    BY ElementOfSeq DEF IntSeq
  <1> HIDE DEF t
  <1>8. t[k] = NextTaken(a, b, i, j) /\ i \in 0 .. Len(a) /\ j \in 0 .. Len(b) /\ k = i + j + 1
    BY <1>3, <1>4
  <1>9. CASE i < Len(a) /\ (j = Len(b) \/ a[i + 1] <= b[j + 1])
    <2>1. t[k] = i + 1
      BY <1>8, <1>9 DEF NextTaken
    <2>2. t[k] > t[k - 1]
      BY <1>8, <2>1
    <2>3. merge(a, b)[k] = a[i + 1]
      BY <1>5, <2>1, <2>2
    <2> QED BY <1>9, <2>1, <2>3 DEF TakesFirst, t
  <1>10. CASE ~(i < Len(a) /\ (j = Len(b) \/ a[i + 1] <= b[j + 1]))
    <2>1. t[k] = i
      BY <1>8, <1>10 DEF NextTaken
    <2>2. ~(t[k] > t[k - 1]) /\ k - t[k] = j + 1
      BY <1>8, <2>1
    <2>3. merge(a, b)[k] = b[j + 1]
      BY <1>5, <2>2
    <2>4. j < Len(b)
      <3> HIDE DEF i, j
      <3> QED BY <1>1, <1>8, <1>10
    <2>5. i = Len(a) \/ b[j + 1] < a[i + 1]
      <3>1. i # Len(a) => a[i + 1] \in Int /\ b[j + 1] \in Int
        <4> HIDE DEF i, j
        <4> QED BY <1>1, <1>6, <1>7, <1>8, <2>4
      <3> HIDE DEF i, j
      <3> QED BY <1>1, <1>8, <1>10, <2>4, <3>1
    <2> QED BY <2>1, <2>3, <2>4, <2>5 DEF TakesSecond, t
  <1> QED BY <1>9, <1>10

LEMMA MergeIsSeq ==
    ASSUME NEW a \in IntSeq, NEW b \in IntSeq
    PROVE  merge(a, b) \in IntSeq /\ Len(merge(a, b)) = Len(a) + Len(b)
  <1>1. Len(a) \in Nat /\ Len(b) \in Nat
    BY LenProperties DEF IntSeq
  <1>2. \A k \in 1 .. Len(a) + Len(b) : merge(a, b)[k] \in Int
    <2> SUFFICES ASSUME NEW k \in 1 .. Len(a) + Len(b) PROVE merge(a, b)[k] \in Int
      OBVIOUS
    <2> DEFINE i == Taken(a, b)[k - 1]
               j == k - 1 - i
    <2>1. i \in 0 .. Len(a) /\ j \in 0 .. Len(b)
      <3>1. k - 1 \in 0 .. Len(a) + Len(b)
        BY <1>1
      <3> QED BY <3>1, TakenInRange
    <2>2. \/ i < Len(a) /\ merge(a, b)[k] = a[i + 1]
          \/ j < Len(b) /\ merge(a, b)[k] = b[j + 1]
      BY TakesEither DEF TakesFirst, TakesSecond
    <2> HIDE DEF i, j
    <2>3. i < Len(a) => i + 1 \in 1 .. Len(a)
      BY <1>1, <2>1
    <2>4. j < Len(b) => j + 1 \in 1 .. Len(b)
      BY <1>1, <2>1
    <2> QED BY <2>2, <2>3, <2>4, ElementOfSeq DEF IntSeq
  <1> DEFINE m == merge(a, b)
             n == Len(a) + Len(b)
  <1>3. m = [k \in 1 .. n |-> m[k]] /\ n \in Nat
    BY <1>1 DEF merge
  <1> HIDE DEF m
  <1>4. \A k \in 1 .. n : m[k] \in Int
    BY <1>2 DEF m
  <1>5. m \in [1 .. n -> Int]
    <2> HIDE DEF n
    <2> QED BY <1>3, <1>4
  <1>6. m \in Seq(Int) /\ Len(m) = n
    <2> HIDE DEF n
    <2> QED BY <1>3, <1>5
  <1> QED BY <1>6 DEF m, IntSeq

LEMMA MergeAscends ==
    ASSUME NEW a \in IntSeq, NEW b \in IntSeq, Ascending(a), Ascending(b)
    PROVE  Ascending(merge(a, b))
  <1> DEFINE m == merge(a, b)
  <1>1. Len(a) \in Nat /\ Len(b) \in Nat /\ Len(m) = Len(a) + Len(b)
    BY LenProperties, MergeIsSeq DEF IntSeq
  <1> SUFFICES ASSUME NEW k \in 1 .. Len(m) - 1 PROVE m[k] <= m[k + 1]
    BY DEF Ascending
  <1>2. k \in 1 .. Len(a) + Len(b) /\ k + 1 \in 1 .. Len(a) + Len(b) /\ k - 1 \in 0 .. Len(a) + Len(b)
        /\ k \in Nat /\ (k + 1) - 1 = k
    BY <1>1
  <1> DEFINE i == Taken(a, b)[k - 1]
             j == k - 1 - i
             h == Taken(a, b)[k]
             l == k - h
  <1>3. i \in 0 .. Len(a) /\ j \in 0 .. Len(b)
    BY <1>2, TakenInRange
  <1>4. TakesFirst(a, b, k) \/ TakesSecond(a, b, k)
    BY <1>2, TakesEither
  <1>5. \/ i < Len(a) /\ (j = Len(b) \/ a[i + 1] <= b[j + 1]) /\ h = i + 1 /\ m[k] = a[i + 1]
        \/ j < Len(b) /\ (i = Len(a) \/ b[j + 1] < a[i + 1]) /\ h = i /\ m[k] = b[j + 1]
    BY <1>4 DEF TakesFirst, TakesSecond
  <1>6. \/ h < Len(a) /\ m[k + 1] = a[h + 1]
        \/ l < Len(b) /\ m[k + 1] = b[l + 1]
    <2>1. TakesFirst(a, b, k + 1) \/ TakesSecond(a, b, k + 1)
      BY <1>2, TakesEither
    <2> QED BY <1>2, <2>1 DEF TakesFirst, TakesSecond
  <1>7. (h = i + 1 => l = j) /\ (h = i => l = j + 1)
    <2>1. i \in Int /\ j = k - 1 - i
      BY <1>3
    <2> HIDE DEF i
    <2> QED BY <1>2, <2>1
  <1>8. /\ \A x \in 1 .. Len(a) : a[x] \in Int
        /\ \A x \in 1 .. Len(b) : b[x] \in Int
    BY ElementOfSeq DEF IntSeq
  <1>9. /\ \A x \in 1 .. Len(a) - 1 : a[x] <= a[x + 1]
        /\ \A x \in 1 .. Len(b) - 1 : b[x] <= b[x + 1]
    BY DEF Ascending
  <1> HIDE DEF i, j, h, l, m
  <1>10. CASE i < Len(a) /\ (j = Len(b) \/ a[i + 1] <= b[j + 1]) /\ h = i + 1 /\ m[k] = a[i + 1]
    <2>1. l = j /\ i + 1 \in 1 .. Len(a)
      BY <1>1, <1>3, <1>7, <1>10
    <2>2. h < Len(a) => i + 1 \in 1 .. Len(a) - 1
      BY <1>1, <1>3, <1>10
    <2>3. h < Len(a) => a[i + 1] <= a[h + 1]
      BY <1>9, <1>10, <2>2
    <2>4. l < Len(b) => a[i + 1] <= b[l + 1]
      BY <1>1, <1>3, <1>10, <2>1
    <2> QED BY <1>6, <1>10, <2>3, <2>4
  <1>11. CASE j < Len(b) /\ (i = Len(a) \/ b[j + 1] < a[i + 1]) /\ h = i /\ m[k] = b[j + 1]
    <2>1. l = j + 1 /\ j + 1 \in 1 .. Len(b)
      BY <1>1, <1>3, <1>7, <1>11
    <2>2. l < Len(b) => j + 1 \in 1 .. Len(b) - 1
      BY <1>1, <1>3, <2>1
    <2>3. l < Len(b) => b[j + 1] <= b[l + 1]
      BY <1>9, <2>1, <2>2
    <2>4. h < Len(a) => b[j + 1] <= a[h + 1]
      <3>1. h < Len(a) => i + 1 \in 1 .. Len(a)
        BY <1>1, <1>3, <1>11
      <3> QED BY <1>1, <1>3, <1>8, <1>11, <2>1, <3>1
    <2> QED BY <1>6, <1>11, <2>3, <2>4
  <1> QED BY <1>5, <1>10, <1>11

-------------------------------------------------------------------------------
(* How often a value is among the first m elements.                        *)

Count(s, m, v) == Cardinality({i \in 1 .. m : s[i] = v})

LEMMA CountStep ==
    ASSUME NEW s, NEW v
    PROVE  /\ Count(s, 0, v) = 0
           /\ \A m \in Nat : /\ Count(s, m, v) \in Nat
                             /\ Count(s, m + 1, v) = Count(s, m, v) + (IF s[m + 1] = v THEN 1 ELSE 0)
  <1> DEFINE At(m) == {i \in 1 .. m : s[i] = v}
  <1>1. At(0) = {}
    OBVIOUS
  <1>2. ASSUME NEW m \in Nat PROVE IsFiniteSet(At(m)) /\ Cardinality(At(m)) \in Nat
    <2>1. IsFiniteSet(1 .. m)
      BY FS_Interval
    <2>2. At(m) \subseteq 1 .. m
      OBVIOUS
    <2> HIDE DEF At
    <2> QED BY <2>1, <2>2, FS_Subset, FS_CardinalityType
  <1>3. ASSUME NEW m \in Nat
        PROVE  Cardinality(At(m + 1)) = Cardinality(At(m)) + (IF s[m + 1] = v THEN 1 ELSE 0)
    <2>1. 1 .. m + 1 = (1 .. m) \cup {m + 1} /\ m + 1 \notin At(m)
      OBVIOUS
    <2>2. CASE s[m + 1] = v
      <3>1. At(m + 1) = At(m) \cup {m + 1}
        BY <2>1, <2>2
      <3> HIDE DEF At
      <3>2. Cardinality(At(m) \cup {m + 1}) = Cardinality(At(m)) + 1
        BY <1>2, <2>1, FS_AddElement
      <3> QED BY <2>2, <3>1, <3>2
    <2>3. CASE s[m + 1] # v
      <3>1. At(m + 1) = At(m)
        BY <2>1, <2>3
      <3> HIDE DEF At
      <3> QED BY <1>2, <2>3, <3>1
    <2> QED BY <2>2, <2>3
  <1>4. Cardinality(At(0)) = 0
    <2> HIDE DEF At
    <2> QED BY <1>1, FS_EmptySet
  <1> HIDE DEF At
  <1>5. \A m : Count(s, m, v) = Cardinality(At(m))
    BY DEF Count, At
  <1> QED BY <1>2, <1>3, <1>4, <1>5

(* What merge has after k elements is what it has taken.                   *)
LEMMA MergeCounts ==
    ASSUME NEW a \in IntSeq, NEW b \in IntSeq, NEW v
    PROVE  Count(merge(a, b), Len(a) + Len(b), v) = Count(a, Len(a), v) + Count(b, Len(b), v)
  <1> DEFINE m == merge(a, b)
             n == Len(a) + Len(b)
             t == Taken(a, b)
             Right(k) == Count(m, k, v) = Count(a, t[k], v) + Count(b, k - t[k], v)
             S == {k \in Nat : k <= n => Right(k)}
  <1>1. Len(a) \in Nat /\ Len(b) \in Nat /\ n \in Nat
    BY LenProperties DEF IntSeq
  <1>2. 0 \in S
    <2>1. t[0] = 0
      BY TakenDefined
    <2> HIDE DEF m, t
    <2>2. Right(0)
      <3>1. 0 - t[0] = 0
        BY <2>1
      <3> QED BY <2>1, <3>1, CountStep
    <2> QED BY <2>2
  <1>3. ASSUME NEW k \in Nat, k \in S PROVE k + 1 \in S
    <2> SUFFICES ASSUME k + 1 <= n PROVE Right(k + 1)
      OBVIOUS
    <2>1. Right(k) /\ k \in 0 .. n /\ k + 1 \in 1 .. n /\ (k + 1) - 1 = k
      <3> HIDE DEF m, t
      <3> QED BY <1>1, <1>3
    <2> DEFINE i == t[k]
               j == k - i
    <2>2. i \in Nat /\ j \in Nat
      BY <2>1, TakenInRange
    <2>3. \/ t[k + 1] = i + 1 /\ m[k + 1] = a[i + 1]
          \/ t[k + 1] = i /\ m[k + 1] = b[j + 1]
      <3>1. TakesFirst(a, b, k + 1) \/ TakesSecond(a, b, k + 1)
        BY <2>1, TakesEither
      <3> QED BY <2>1, <3>1 DEF TakesFirst, TakesSecond
    <2>4. Count(m, k, v) = Count(a, i, v) + Count(b, j, v)
      BY <2>1
    <2> HIDE DEF m, n
    <2>5. Count(m, k + 1, v) = Count(m, k, v) + (IF m[k + 1] = v THEN 1 ELSE 0) /\ Count(m, k, v) \in Nat
      BY CountStep
    <2> HIDE DEF t
    <2>6. t[k + 1] = i + 1 => (k + 1) - t[k + 1] = j
      BY <2>2
    <2>7. t[k + 1] = i => (k + 1) - t[k + 1] = j + 1
      BY <2>2
    <2> HIDE DEF i, j
    <2>8. /\ Count(a, i + 1, v) = Count(a, i, v) + (IF a[i + 1] = v THEN 1 ELSE 0)
          /\ Count(b, j + 1, v) = Count(b, j, v) + (IF b[j + 1] = v THEN 1 ELSE 0)
          /\ Count(a, i, v) \in Nat /\ Count(b, j, v) \in Nat
      BY <2>2, CountStep
    <2>9. CASE t[k + 1] = i + 1 /\ m[k + 1] = a[i + 1]
      BY <2>4, <2>5, <2>6, <2>8, <2>9
    <2>10. CASE t[k + 1] = i /\ m[k + 1] = b[j + 1]
      BY <2>4, <2>5, <2>7, <2>8, <2>10
    <2> QED BY <2>3, <2>9, <2>10
  <1>4. n \in S
    <2> HIDE DEF S, n
    <2> QED BY <1>1, <1>2, <1>3, CountUp
  <1>5. Right(n)
    <2> HIDE DEF m, t
    <2> QED BY <1>1, <1>4
  <1>6. t[n] = Len(a) /\ n - t[n] = Len(b)
    <2>1. n \in 0 .. n
      BY <1>1
    <2>2. t[n] \in 0 .. Len(a) /\ n - t[n] \in 0 .. Len(b)
      BY <2>1, TakenInRange
    <2> HIDE DEF t
    <2> QED BY <1>1, <2>2
  <1> HIDE DEF m, t
  <1>7. Count(m, n, v) = Count(a, Len(a), v) + Count(b, Len(b), v)
    BY <1>5, <1>6
  <1> QED BY <1>7 DEF m

-------------------------------------------------------------------------------
(* mergeSort.                                                              *)

LEMMA Halves ==
    ASSUME NEW s \in IntSeq
    PROVE  LET a == FirstHalf(s)
               b == SecondHalf(s)
           IN  /\ a \in IntSeq /\ b \in IntSeq
               /\ Len(s) = Len(a) + Len(b) /\ Len(b) <= Len(a)
               /\ ~BaseCase(a) => Len(a) < Len(s) /\ Len(b) < Len(s)
               /\ \A i \in 1 .. Len(a) : s[i] = a[i]
               /\ \A i \in 1 .. Len(b) : s[Len(a) + i] = b[i]
  <1> DEFINE n == ALength(Len(s))
             a == FirstHalf(s)
             b == SecondHalf(s)
  <1>1. Len(s) \in Nat /\ \A i \in 1 .. Len(s) : s[i] \in Int
    BY LenProperties, ElementOfSeq DEF IntSeq
  <1>2. n \in Nat /\ n <= Len(s) /\ Len(s) - n <= n /\ (n > 1 => n < Len(s))
    BY <1>1 DEF ALength
  <1> HIDE DEF n
  <1>3. a \in IntSeq /\ Len(a) = n /\ \A i \in 1 .. n : a[i] = s[i]
    <2>1. a = SubSeq(s, 1, n)
      BY DEF n, FirstHalf
    <2>2. \A i \in 1 .. n : s[i] \in Int
      BY <1>1, <1>2
    <2>3. /\ SubSeq(s, 1, n) \in Seq(Int) /\ Len(SubSeq(s, 1, n)) = n
          /\ \A i \in 1 .. n : SubSeq(s, 1, n)[i] = s[1 + i - 1]
      <3>1. n - 1 + 1 = n
        BY <1>2
      <3> QED BY <1>2, <2>2, <3>1, SubSeqProperties
    <2>4. \A i \in 1 .. n : 1 + i - 1 = i
      BY <1>2
    <2> QED BY <2>1, <2>3, <2>4 DEF IntSeq
  <1>4. b \in IntSeq /\ Len(b) = Len(s) - n /\ \A i \in 1 .. Len(s) - n : b[i] = s[n + i]
    <2>1. b = SubSeq(s, n + 1, Len(s))
      BY DEF n, SecondHalf
    <2>2. /\ SubSeq(s, n + 1, Len(s)) \in Seq(Int) /\ Len(SubSeq(s, n + 1, Len(s))) = Len(s) - n
          /\ \A i \in 1 .. Len(s) - n : SubSeq(s, n + 1, Len(s))[i] = s[n + 1 + i - 1]
      <3>1. n + 1 \in Int /\ Len(s) \in Int /\ \A i \in n + 1 .. Len(s) : s[i] \in Int
        BY <1>1, <1>2
      <3>2. /\ SubSeq(s, n + 1, Len(s)) \in Seq(Int)
            /\ Len(SubSeq(s, n + 1, Len(s))) = IF n + 1 <= Len(s) THEN Len(s) - (n + 1) + 1 ELSE 0
            /\ \A i \in 1 .. Len(s) - (n + 1) + 1 : SubSeq(s, n + 1, Len(s))[i] = s[n + 1 + i - 1]
        BY ONLY <3>1, SubSeqProperties
      <3>3. Len(s) - (n + 1) + 1 = Len(s) - n /\ (~(n + 1 <= Len(s)) => Len(s) - n = 0)
        BY <1>1, <1>2
      <3> QED BY <3>2, <3>3
    <2>3. \A i \in 1 .. Len(s) - n : n + 1 + i - 1 = n + i
      BY <1>1, <1>2
    <2> QED BY <2>1, <2>2, <2>3 DEF IntSeq
  <1> HIDE DEF a, b
  <1>5. ~BaseCase(a) => n > 1
    BY <1>2, <1>3 DEF BaseCase
  <1>6. /\ a \in IntSeq /\ b \in IntSeq
        /\ Len(s) = Len(a) + Len(b) /\ Len(b) <= Len(a)
        /\ ~BaseCase(a) => Len(a) < Len(s) /\ Len(b) < Len(s)
        /\ \A i \in 1 .. Len(a) : s[i] = a[i]
        /\ \A i \in 1 .. Len(b) : s[Len(a) + i] = b[i]
    <2>1. Len(s) = Len(a) + Len(b) /\ Len(b) <= Len(a)
      BY <1>1, <1>2, <1>3, <1>4
    <2>2. ~BaseCase(a) => Len(a) < Len(s) /\ Len(b) < Len(s)
      BY <1>1, <1>2, <1>3, <1>4, <1>5
    <2> QED BY <1>3, <1>4, <2>1, <2>2
  <1> QED BY <1>6 DEF a, b

(* What mergeSort makes of an array, given f for the halves.               *)
SortedBy(f, s) ==
    LET a == FirstHalf(s)
        b == SecondHalf(s)
    IN  IF BaseCase(a) THEN merge(a, b) ELSE merge(f[a], f[b])

(* f is right about the arrays that are shorter than n.                    *)
SortsBelow(f, n) == \A s \in IntSeq : Len(s) < n => f[s] = SortedBy(f, s)

LEMMA SortsAlike ==
    ASSUME NEW f, NEW g, NEW n \in Nat, SortsBelow(f, n), SortsBelow(g, n)
    PROVE  \A s \in IntSeq : Len(s) < n => f[s] = g[s]
  <1> DEFINE S == {m \in Nat : \A s \in IntSeq : Len(s) = m /\ m < n => f[s] = g[s]}
  <1>1. ASSUME NEW m \in Nat, \A l \in Nat : l < m => l \in S PROVE m \in S
    <2> SUFFICES ASSUME NEW s \in IntSeq, Len(s) = m, m < n PROVE f[s] = g[s]
      OBVIOUS
    <2> DEFINE a == FirstHalf(s)
               b == SecondHalf(s)
    <2>1. f[s] = SortedBy(f, s) /\ g[s] = SortedBy(g, s)
      BY DEF SortsBelow
    <2>2. ~BaseCase(a) => f[a] = g[a] /\ f[b] = g[b]
      <3> SUFFICES ASSUME ~BaseCase(a) PROVE f[a] = g[a] /\ f[b] = g[b]
        OBVIOUS
      <3>1. a \in IntSeq /\ b \in IntSeq /\ Len(a) < m /\ Len(b) < m
        BY Halves
      <3>2. Len(a) \in Nat /\ Len(b) \in Nat
        BY <3>1, LenProperties DEF IntSeq
      <3>3. Len(a) \in S /\ Len(b) \in S /\ Len(a) < n /\ Len(b) < n
        <4>1. Len(a) < n /\ Len(b) < n
          <5> HIDE DEF a, b
          <5> QED BY <3>1, <3>2
        <4> HIDE DEF a, b, S
        <4> QED BY <1>1, <3>1, <3>2, <4>1
      <3> HIDE DEF a, b
      <3> QED BY <3>1, <3>3
    <2> QED BY <2>1, <2>2 DEF SortedBy
  <1>2. \A m \in Nat : m \in S
    <2> HIDE DEF S
    <2> QED BY <1>1, CountFromBelow
  <1> QED BY <1>2, LenProperties DEF IntSeq

(* The recursive definition defines a function: some function is right     *)
(* about arrays of any length, and two that are agree.                     *)
LEMMA MergeSortDefined == \A s \in IntSeq : mergeSort[s] = SortedBy(mergeSort, s)
  <1> DEFINE S == {n \in Nat : \E f : SortsBelow(f, n)}
  <1>1. 0 \in S
    <2>1. SortsBelow(<<>>, 0)
      BY LenProperties DEF SortsBelow, IntSeq
    <2> QED BY <2>1
  <1>2. ASSUME NEW n \in Nat, n \in S PROVE n + 1 \in S
    <2>1. PICK f : SortsBelow(f, n)
      BY <1>2
    <2> DEFINE g == [s \in IntSeq |-> SortedBy(f, s)]
    <2>2. ASSUME NEW s \in IntSeq, Len(s) < n + 1 PROVE g[s] = SortedBy(g, s)
      <3> DEFINE a == FirstHalf(s)
                 b == SecondHalf(s)
      <3>1. g[s] = SortedBy(f, s)
        <4> HIDE DEF SortedBy
        <4> QED OBVIOUS
      <3>2. ~BaseCase(a) => g[a] = f[a] /\ g[b] = f[b]
        <4> SUFFICES ASSUME ~BaseCase(a) PROVE g[a] = f[a] /\ g[b] = f[b]
          OBVIOUS
        <4>1. a \in IntSeq /\ b \in IntSeq /\ Len(a) < Len(s) /\ Len(b) < Len(s)
          BY Halves
        <4>2. Len(a) < n /\ Len(b) < n
          <5>1. Len(a) \in Nat /\ Len(b) \in Nat /\ Len(s) \in Nat
            BY <4>1, LenProperties DEF IntSeq
          <5> HIDE DEF a, b
          <5> QED BY <2>2, <4>1, <5>1
        <4> HIDE DEF a, b
        <4>3. f[a] = SortedBy(f, a) /\ f[b] = SortedBy(f, b)
          BY <2>1, <4>1, <4>2 DEF SortsBelow
        <4> HIDE DEF SortedBy
        <4> QED BY <4>1, <4>3
      <3> HIDE DEF g
      <3> QED BY <3>1, <3>2 DEF SortedBy
    <2> HIDE DEF g
    <2>3. SortsBelow(g, n + 1)
      BY <2>2 DEF SortsBelow
    <2> QED BY <2>3
  <1>3. \A n \in Nat : \E f : SortsBelow(f, n)
    <2>1. \A n \in Nat : n \in S
      <3> HIDE DEF S
      <3> QED BY <1>1, <1>2, CountUp
    <2> QED BY <2>1
  <1> DEFINE upto(n) == CHOOSE f : SortsBelow(f, n)
             all == [s \in IntSeq |-> upto(Len(s) + 1)[s]]
             Defines(f) == f = [s \in IntSeq |-> SortedBy(f, s)]
  <1>4. \A n \in Nat : SortsBelow(upto(n), n)
    <2> TAKE n \in Nat
    <2>1. \E f : SortsBelow(f, n)
      BY <1>3
    <2> QED BY <2>1
  <1>5. \A s \in IntSeq : Len(s) \in Nat /\ Len(s) + 1 \in Nat
    BY LenProperties DEF IntSeq
  <1> HIDE DEF upto
  <1>6. ASSUME NEW s \in IntSeq PROVE all[s] = SortedBy(all, s)
    <2> DEFINE n == Len(s) + 1
               g == upto(n)
               a == FirstHalf(s)
               b == SecondHalf(s)
    <2>1. all[s] = g[s] /\ n \in Nat
      BY <1>5
    <2>2. g[s] = SortedBy(g, s)
      BY <1>4, <1>5 DEF SortsBelow
    <2>3. ASSUME NEW c \in IntSeq, Len(c) < Len(s) PROVE all[c] = g[c]
      <3>1. all[c] = upto(Len(c) + 1)[c]
        OBVIOUS
      <3>2. SortsBelow(upto(Len(c) + 1), Len(c) + 1)
        BY <1>4, <1>5
      <3>3. SortsBelow(g, Len(c) + 1)
        <4>1. SortsBelow(g, n)
          BY <1>4, <2>1
        <4>2. \A r \in IntSeq : Len(r) < Len(c) + 1 => Len(r) < n
          BY <1>5, <2>3
        <4> HIDE DEF g, n
        <4> QED BY <4>1, <4>2 DEF SortsBelow
      <3>4. upto(Len(c) + 1)[c] = g[c]
        <4>1. Len(c) + 1 \in Nat /\ Len(c) < Len(c) + 1
          BY <1>5
        <4> HIDE DEF g
        <4> QED BY <3>2, <3>3, <4>1, SortsAlike
      <3> QED BY <3>1, <3>4
    <2>4. ~BaseCase(a) => all[a] = g[a] /\ all[b] = g[b]
      <3> HIDE DEF all, g
      <3> QED BY <2>3, Halves
    <2> HIDE DEF all, g
    <2> QED BY <2>1, <2>2, <2>4 DEF SortedBy
  <1>7. Defines(all)
    <2>1. all = [s \in IntSeq |-> all[s]]
      OBVIOUS
    <2> HIDE DEF all
    <2>2. [s \in IntSeq |-> all[s]] = [s \in IntSeq |-> SortedBy(all, s)]
      BY <1>6
    <2> QED BY <2>1, <2>2
  <1>8. mergeSort = CHOOSE f : Defines(f)
    BY DEF mergeSort, SortedBy, IntSeq
  <1>9. Defines(mergeSort)
    <2>1. \E f : Defines(f)
      <3> HIDE DEF all, Defines
      <3> QED BY <1>7
    <2> HIDE DEF Defines
    <2> QED BY <1>8, <2>1
  <1> HIDE DEF SortedBy
  <1> QED BY <1>9

(* The elements of the halves are those of the array.                      *)
LEMMA HalvesCount ==
    ASSUME NEW s \in IntSeq, NEW v
    PROVE  Count(s, Len(s), v) = Count(FirstHalf(s), Len(FirstHalf(s)), v)
                                 + Count(SecondHalf(s), Len(SecondHalf(s)), v)
  <1> DEFINE a == FirstHalf(s)
             b == SecondHalf(s)
             S == {i \in Nat : i <= Len(a) => Count(s, i, v) = Count(a, i, v)}
             T == {i \in Nat : i <= Len(b) =>
                        Count(s, Len(a) + i, v) = Count(a, Len(a), v) + Count(b, i, v)}
  <1>1. /\ a \in IntSeq /\ b \in IntSeq
        /\ Len(s) = Len(a) + Len(b)
        /\ \A i \in 1 .. Len(a) : s[i] = a[i]
        /\ \A i \in 1 .. Len(b) : s[Len(a) + i] = b[i]
    BY Halves
  <1> HIDE DEF a, b
  <1>2. Len(a) \in Nat /\ Len(b) \in Nat
    BY <1>1, LenProperties DEF IntSeq
  <1>3. 0 \in S
    BY CountStep
  <1>4. ASSUME NEW i \in Nat, i \in S PROVE i + 1 \in S
    <2> SUFFICES ASSUME i + 1 <= Len(a) PROVE Count(s, i + 1, v) = Count(a, i + 1, v)
      OBVIOUS
    <2>1. Count(s, i, v) = Count(a, i, v) /\ s[i + 1] = a[i + 1]
      BY <1>1, <1>2, <1>4
    <2>2. /\ Count(s, i + 1, v) = Count(s, i, v) + (IF s[i + 1] = v THEN 1 ELSE 0)
          /\ Count(a, i + 1, v) = Count(a, i, v) + (IF a[i + 1] = v THEN 1 ELSE 0)
      BY CountStep
    <2> QED BY <2>1, <2>2
  <1>5. \A i \in Nat : i \in S
    <2> HIDE DEF S
    <2> QED BY <1>3, <1>4, CountUp
  <1>6. 0 \in T
    <2>1. Count(s, Len(a), v) = Count(a, Len(a), v) /\ Len(a) + 0 = Len(a)
      BY <1>2, <1>5
    <2>2. Count(b, 0, v) = 0 /\ Count(a, Len(a), v) \in Nat
      BY <1>2, CountStep
    <2> QED BY <2>1, <2>2
  <1>7. ASSUME NEW i \in Nat, i \in T PROVE i + 1 \in T
    <2> SUFFICES ASSUME i + 1 <= Len(b)
                 PROVE  Count(s, Len(a) + (i + 1), v) = Count(a, Len(a), v) + Count(b, i + 1, v)
      OBVIOUS
    <2>1. Count(s, Len(a) + i, v) = Count(a, Len(a), v) + Count(b, i, v)
          /\ s[Len(a) + (i + 1)] = b[i + 1]
      BY <1>1, <1>2, <1>7
    <2>2. Len(a) + i \in Nat /\ Len(a) + (i + 1) = (Len(a) + i) + 1
      BY <1>2
    <2>3. /\ Count(s, (Len(a) + i) + 1, v)
                = Count(s, Len(a) + i, v) + (IF s[(Len(a) + i) + 1] = v THEN 1 ELSE 0)
          /\ Count(b, i + 1, v) = Count(b, i, v) + (IF b[i + 1] = v THEN 1 ELSE 0)
          /\ Count(a, Len(a), v) \in Nat /\ Count(b, i, v) \in Nat
      <3> DEFINE k == Len(a) + i
      <3>1. k \in Nat
        BY <2>2
      <3> HIDE DEF k
      <3>2. Count(s, k + 1, v) = Count(s, k, v) + (IF s[k + 1] = v THEN 1 ELSE 0)
        BY <3>1, CountStep
      <3>3. Count(b, i + 1, v) = Count(b, i, v) + (IF b[i + 1] = v THEN 1 ELSE 0)
            /\ Count(b, i, v) \in Nat
        BY CountStep
      <3>4. Count(a, Len(a), v) \in Nat
        BY <1>2, CountStep
      <3> QED BY <3>2, <3>3, <3>4 DEF k
    <2> QED BY <2>1, <2>2, <2>3
  <1>8. \A i \in Nat : i \in T
    <2> HIDE DEF T
    <2> QED BY <1>6, <1>7, CountUp
  <1>9. Count(s, Len(a) + Len(b), v) = Count(a, Len(a), v) + Count(b, Len(b), v)
    BY <1>2, <1>8
  <1> QED BY <1>1, <1>9 DEF a, b

(* r is a sorted s.                                                        *)
IsSorted(r, s) ==
    /\ r \in IntSeq /\ Len(r) = Len(s) /\ Ascending(r)
    /\ \A v : Count(r, Len(r), v) = Count(s, Len(s), v)

LEMMA MergeSortSorts == \A s \in IntSeq : IsSorted(mergeSort[s], s)
  <1> DEFINE S == {n \in Nat : \A s \in IntSeq : Len(s) = n => IsSorted(mergeSort[s], s)}
  <1>1. ASSUME NEW n \in Nat, \A m \in Nat : m < n => m \in S PROVE n \in S
    <2> SUFFICES ASSUME NEW s \in IntSeq, Len(s) = n PROVE IsSorted(mergeSort[s], s)
      OBVIOUS
    <2> DEFINE a == FirstHalf(s)
               b == SecondHalf(s)
    <2>1. /\ a \in IntSeq /\ b \in IntSeq
          /\ Len(s) = Len(a) + Len(b) /\ Len(b) <= Len(a)
          /\ ~BaseCase(a) => Len(a) < Len(s) /\ Len(b) < Len(s)
      BY Halves
    <2>2. Len(a) \in Nat /\ Len(b) \in Nat
      BY <2>1, LenProperties DEF IntSeq
    <2>3. \A v : Count(s, Len(s), v) = Count(a, Len(a), v) + Count(b, Len(b), v)
      BY HalvesCount
    <2>4. mergeSort[s] = SortedBy(mergeSort, s)
      BY MergeSortDefined
    <2>5. ASSUME NEW c, NEW d, IsSorted(c, a), IsSorted(d, b), mergeSort[s] = merge(c, d)
          PROVE  IsSorted(mergeSort[s], s)
      <3>1. c \in IntSeq /\ d \in IntSeq /\ Ascending(c) /\ Ascending(d)
            /\ Len(c) = Len(a) /\ Len(d) = Len(b)
        BY <2>5 DEF IsSorted
      <3>2. merge(c, d) \in IntSeq /\ Len(merge(c, d)) = Len(c) + Len(d) /\ Ascending(merge(c, d))
        BY <3>1, MergeIsSeq, MergeAscends
      <3>3. \A v : Count(merge(c, d), Len(c) + Len(d), v)
                     = Count(c, Len(c), v) + Count(d, Len(d), v)
        BY <3>1, MergeCounts
      <3>4. \A v : Count(c, Len(c), v) = Count(a, Len(a), v) /\ Count(d, Len(d), v) = Count(b, Len(b), v)
        BY <2>5 DEF IsSorted
      <3>5. Len(merge(c, d)) = Len(s)
        BY <2>1, <3>1, <3>2
      <3> HIDE DEF a, b
      <3>6. \A v : Count(merge(c, d), Len(merge(c, d)), v) = Count(s, Len(s), v)
        BY <2>3, <3>2, <3>3, <3>4
      <3> QED BY <2>5, <3>2, <3>5, <3>6 DEF IsSorted
    <2>6. CASE BaseCase(a)
      <3>1. Len(a) <= 1 /\ Len(b) <= 1
        BY <2>1, <2>2, <2>6 DEF BaseCase
      <3>2. Ascending(a) /\ Ascending(b)
        <4> HIDE DEF a, b
        <4> QED BY <2>2, <3>1 DEF Ascending
      <3>3. IsSorted(a, a) /\ IsSorted(b, b)
        BY <2>1, <3>2 DEF IsSorted
      <3>4. mergeSort[s] = merge(a, b)
        BY <2>4, <2>6 DEF SortedBy
      <3> HIDE DEF a, b
      <3> QED BY <2>5, <3>3, <3>4
    <2>7. CASE ~BaseCase(a)
      <3>1. Len(a) \in S /\ Len(b) \in S
        <4> HIDE DEF a, b, S
        <4> QED BY <1>1, <2>1, <2>2, <2>7
      <3>2. IsSorted(mergeSort[a], a) /\ IsSorted(mergeSort[b], b)
        <4> HIDE DEF a, b
        <4> QED BY <2>1, <3>1
      <3>3. mergeSort[s] = merge(mergeSort[a], mergeSort[b])
        BY <2>4, <2>7 DEF SortedBy
      <3> HIDE DEF a, b
      <3> QED BY <2>5, <3>2, <3>3
    <2> QED BY <2>6, <2>7
  <1>2. \A n \in Nat : n \in S
    <2> HIDE DEF S
    <2> QED BY <1>1, CountFromBelow
  <1> QED BY <1>2, LenProperties DEF IntSeq

(* mergeSort sorts every array of integers: the result is ascending and    *)
(* has each value as often as the array had it (Project0.java:36).         *)
THEOREM SortsEveryArray == ASSUME toSort \in Seq(Int) PROVE SortsEverything
  <1> DEFINE sorted == mergeSort[toSort]
  <1>1. IsSorted(sorted, toSort)
    BY MergeSortSorts DEF IntSeq
  <1> HIDE DEF sorted
  <1>2. \A v : Occurrences(sorted, v) = Occurrences(toSort, v)
    BY <1>1 DEF IsSorted, Count, Occurrences
  <1> QED BY <1>1, <1>2 DEF SortsEverything, sorted, IsSorted, Ascending
===============================================================================
