------------------------------- MODULE Scrollbar -------------------------------
(***************************************************************************)
(* A GLUI_Scrollbar: the number it stands for, the box on its track, and   *)
(* what presses on the arrows, drags, the arrow keys and the program make  *)
(* of them.  A place is a distance in pixels from the bar's beginning,     *)
(* with the mouse on the bar; a float is counted in halves, and the        *)
(* rounding of floats that are numbers of pixels is left out.              *)
(***************************************************************************)
EXTENDS Integers

CONSTANTS
    BarLength,      \* h of a vertical bar, w of a horizontal one
    Places,         \* where the mouse is pressed and dragged
    LimitPairs      \* what set_..._limits is called with: the value at the end
                    \* that is its minimum may be the greater one

ASSUME ScrollAssumption ==
    BarLength \in Int /\ Places \subseteq Int /\ LimitPairs \subseteq Int \X Int

VARIABLE bar        \* the fields of the control, with told, the value at the last
                    \* callback, and given: has the program changed it since?

Arrow == 16                 \* GLUI_SCROLL_ARROW_HEIGHT and _WIDTH
StdBox == 16                \* GLUI_SCROLL_BOX_STD_HEIGHT
NotANumber == -2147483647 - 1 \* (int) of 0 / 0 as the processor has it

track_length == BarLength - 2 * Arrow
Lower(b) == IF b.min < b.max THEN b.min ELSE b.max
Upper(b) == IF b.min < b.max THEN b.max ELSE b.min
Within(v, lo, hi) == IF v > hi THEN hi ELSE IF v < lo THEN lo ELSE v
Unit(b) == IF b.data_type = "int" THEN 1 ELSE 2
BarValue(b) == IF b.data_type = "int" THEN b.int_val ELSE b.float_val

(* Division of C, which rounds toward zero.                                *)
Quotient(n, d) ==
    LET a == IF n < 0 THEN -n ELSE n
        c == IF d < 0 THEN -d ELSE d
    IN  IF (n < 0) = (d < 0) THEN a \div c ELSE -(a \div c)

(* What output_live writes is what sync_live compares with next.  The bar  *)
(* of a text box or a list has no live variable: there live and last_live  *)
(* are what one would have been given.                                     *)
OutputBar(b) == [b EXCEPT !.live = BarValue(b), !.last_live = BarValue(b)]

bar_set_float_val(b, v) ==
    LET new == Within(v, 2 * Lower(b), 2 * Upper(b))
    IN  OutputBar([b EXCEPT !.last_float_val = b.float_val, !.float_val = new,
                            !.int_val = Quotient(new, 2)])

bar_set_int_val(b, n) ==
    LET new == Within(n, Lower(b), Upper(b))
    IN  OutputBar([b EXCEPT !.last_int_val = b.int_val, !.int_val = new, !.float_val = 2 * new])

SetBar(b, v) == IF b.data_type = "int" THEN bar_set_int_val(b, v) ELSE bar_set_float_val(b, v)

set_bar_limits(b, lo, hi) ==
    LET new == [b EXCEPT !.min = lo, !.max = hi]
        low == Unit(b) * Lower(new)
        high == Unit(b) * Upper(new)
    IN  IF BarValue(b) \in low .. high THEN new ELSE SetBar(new, Within(BarValue(b), low, high))

-------------------------------------------------------------------------------
(* The box.  A vertical bar has its maximum at its beginning.              *)

update_scroll_parameters(b) ==
    [b EXCEPT !.box_length = IF b.min = b.max THEN track_length ELSE StdBox]

box_start_position(b) ==
    LET from == IF b.horizontal THEN BarValue(b) - Unit(b) * b.min ELSE Unit(b) * b.max - BarValue(b)
    IN  IF b.min = b.max THEN NotANumber
        ELSE Quotient(from * (track_length - StdBox), Unit(b) * (b.max - b.min))

find_arrow(b, p) ==
    LET start == Arrow + box_start_position(b)
    IN  IF p <= start THEN (IF b.horizontal THEN "down" ELSE "up")
        ELSE IF p >= start + update_scroll_parameters(b).box_length
        THEN (IF b.horizontal THEN "up" ELSE "down")
        ELSE "scroll"

(* What one step in an arrow's direction adds.                             *)
Way(b, arrow) ==
    IF arrow = "scroll" THEN 0
    ELSE IF (arrow = "up") = (b.min <= b.max) THEN 1 ELSE -1

-------------------------------------------------------------------------------
(* What the handlers leave.                                                *)

NotesNothing(b) ==    \* mistake: the value reported is not noted
    LET last == IF b.data_type = "int" THEN b.last_int_val ELSE b.last_float_val
    IN  IF BarValue(b) = last /\ ~b.first_callback THEN b
        ELSE [b EXCEPT !.first_callback = FALSE, !.told = BarValue(b), !.given = FALSE]

(* The callback is left out for a value that is the last one, the one that *)
(* was reported or, after a set_..._val, the one before.                   *)
bar_callbacks(b) ==
    LET last == IF b.data_type = "int" THEN b.last_int_val ELSE b.last_float_val
    IN  IF BarValue(b) = last /\ ~b.first_callback THEN b
        ELSE [b EXCEPT !.last_int_val = b.int_val, !.last_float_val = b.float_val,
                       !.first_callback = FALSE, !.told = BarValue(b), !.given = FALSE]

(* A click adds less than a unit when the last one was just before.        *)
bar_click(b) ==
    {bar_callbacks(bar_set_float_val(b, b.float_val + Way(b, b.state) * incr)) : incr \in 1..2}

(* A press on an arrow of integers first goes on by one.                   *)
Stepping(b) ==
    LET new == b.int_val + Way(b, b.state)
    IN  IF b.data_type = "int" /\ new \in Lower(b) .. Upper(b)
        THEN bar_callbacks(bar_set_int_val(b, new)) ELSE b

PressAt(b, p) ==
    LET new == [update_scroll_parameters(b) EXCEPT !.state = find_arrow(b, p)]
    IN  IF new.state = "scroll" THEN {new} ELSE bar_click(Stepping(new))

(* The box follows the mouse, unless it filled the track when last seen.   *)
DragTo(b, p) ==
    LET free == track_length - b.box_length
        new == update_scroll_parameters(b)
        along == Quotient((p - Arrow - new.box_length \div 2) * Unit(b) * (b.max - b.min), free)
        v == IF b.horizontal THEN Unit(b) * b.min + along ELSE Unit(b) * b.max - along
    IN  IF free = 0 THEN b ELSE bar_callbacks(SetBar(new, v))

(* The key DOWN is taken for a press just below the first arrow.           *)
KeyPlace(b, arrow) ==
    CASE ~b.horizontal /\ arrow = "up" -> 1
      [] ~b.horizontal /\ arrow = "down" -> 1 + Arrow
      [] b.horizontal /\ arrow = "down" -> 1
      [] OTHER -> BarLength - Arrow + 1

-------------------------------------------------------------------------------
NewBar(type, h, limits) ==
    set_bar_limits(
        [data_type |-> type, horizontal |-> h, min |-> limits[1], max |-> limits[2],
         int_val |-> 0, float_val |-> 0, last_int_val |-> 0, last_float_val |-> 0,
         live |-> 0, last_live |-> 0, first_callback |-> TRUE, state |-> "none",
         box_length |-> 0, told |-> 0, given |-> TRUE], limits[1], limits[2])

ScrollInit(Types) ==
    \E type \in Types, h \in BOOLEAN, limits \in LimitPairs : bar = NewBar(type, h, limits)

BarDown == bar.state = "none" /\ \E p \in Places : bar' \in PressAt(bar, p)

BarHeld ==
    \E p \in Places :
        \/ bar.state = "scroll" /\ bar' = DragTo(bar, p)
        \/ bar.state \in {"up", "down"} /\ find_arrow(bar, p) = bar.state
           /\ bar' \in bar_click(update_scroll_parameters(bar))

BarIdle == bar.state \in {"up", "down"} /\ bar' \in bar_click(bar)

BarUp == bar.state # "none" /\ bar' = [bar EXCEPT !.state = "none"]

BarKey ==
    /\ bar.state = "none"
    /\ \E arrow \in {"up", "down"} :
        \E b \in PressAt(bar, KeyPlace(bar, arrow)) : bar' = [b EXCEPT !.state = "none"]

BarDraw == bar' = update_scroll_parameters(bar)

Given(b) == [b EXCEPT !.given = @ \/ BarValue(b) # BarValue(bar)]

BarSet == \E v \in Unit(bar) * Lower(bar) .. Unit(bar) * Upper(bar) : bar' = Given(SetBar(bar, v))

BarLimits == \E limits \in LimitPairs : bar' = Given(set_bar_limits(bar, limits[1], limits[2]))

BarSetLive == \E v \in -1..1 : bar' = [bar EXCEPT !.live = v]

BarSyncLive ==
    /\ bar.live # bar.last_live /\ bar.state = "none"
    /\ bar' = Given(SetBar(bar, bar.live))

ScrollNext ==
    \/ BarDown \/ BarHeld \/ BarIdle \/ BarUp \/ BarKey \/ BarDraw
    \/ BarSet \/ BarLimits \/ BarSetLive \/ BarSyncLive

ScrollSpec == ScrollInit({"int", "float"}) /\ [][ScrollNext]_bar

-------------------------------------------------------------------------------
(* The last callback reported the value shown, unless the program has set  *)
(* the value itself since (given), though set_int_val and set_float_val    *)
(* overwrite the value that do_callbacks compares with                     *)
(* (glui_scrollbar.cpp:706, 763); the live variable has been given it, or  *)
(* has given it, whoever set it last.  However clicks and drags add up,    *)
(* the two numbers agree and the value lies between the limits, reversed   *)
(* or not, though of the float_val of an integer set_int_limits leaves a   *)
(* rest outside.                                                           *)
ScrollTells ==
    /\ bar.given \/ bar.told = BarValue(bar)
    /\ bar.last_live = BarValue(bar)
    /\ bar.int_val = Quotient(bar.float_val, 2)
    /\ BarValue(bar) \in Unit(bar) * Lower(bar) .. Unit(bar) * Upper(bar)
===============================================================================
