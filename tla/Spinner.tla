-------------------------------- MODULE Spinner --------------------------------
(***************************************************************************)
(* A GLUI_Spinner with the GLUI_EditText that it holds: two arrows that    *)
(* change the field's number when they are pressed, held and dragged from, *)
(* while the same number can be typed and set by the program.              *)
(***************************************************************************)
EXTENDS EditText

CONSTANT Growths    \* what a click or a pixel of a drag adds, by growth, modifiers and speed

ASSUME GrowthAssumption == Growths \subseteq Int

VARIABLES
    state,          \* "none", "up", "down" or "both" (dragging)
    last_val,       \* last_int_val or last_float_val; <<>> while first_callback
    told,           \* the value at the last callback, the spinner's or the field's
    typed           \* has the field had a value that no arrow gave it since the spinner's?

spinVars == <<editVars, state, last_val, told, typed>>

SpinInit(Types, Limits) ==
    /\ EditInit(Types, Limits)
    /\ state = "none"
    /\ last_val = <<>>
    /\ told = LiveValue(ed)
    /\ typed = FALSE

ReportsFirstOnly(e) ==    \* mistake: the value reported is noted only once
    IF <<LiveValue(e)>> = last_val THEN UNCHANGED <<last_val, told, typed>>
    ELSE /\ last_val' = IF last_val = <<>> THEN <<LiveValue(e)>> ELSE last_val
         /\ told' = LiveValue(e)
         /\ typed' = FALSE

(* The callback is executed for a value other than the last one that it    *)
(* was executed for.                                                       *)
do_callbacks(e) ==
    IF <<LiveValue(e)>> = last_val THEN UNCHANGED <<last_val, told, typed>>
    ELSE last_val' = <<LiveValue(e)>> /\ told' = LiveValue(e) /\ typed' = FALSE

Direction(arrow) == CASE arrow = "up" -> 1 [] arrow = "down" -> -1 [] OTHER -> 0

do_click(e, arrow) ==
    \E g \in Growths :
        LET new == set_float_val(e, e.float_val + Direction(arrow) * g)
        IN  ed' = new /\ do_callbacks(new)

(* A press on an arrow of integers goes on by one at once; the field is    *)
(* left first if it was active.                                            *)
Stepped(e, arrow) ==
    IF e.data_type = "int"
    THEN set_float_val(e, e.float_val + IF arrow = "up" THEN 100 ELSE -90)
    ELSE e

SpinMouseDown ==
    /\ state = "none" /\ ~edit_down /\ ~ed.active
    /\ \E arrow \in {"up", "down"} : state' = arrow /\ do_click(Stepped(ed, arrow), arrow)
    /\ UNCHANGED <<orig_text, edit_called, edit_down, thrown>>

(* The idle function, while an arrow is held.                              *)
SpinIdle ==
    /\ state \in {"up", "down"} /\ do_click(ed, state)
    /\ UNCHANGED <<orig_text, edit_called, edit_down, thrown, state>>

(* The mouse is still on the arrow, or has left it: now it drags.          *)
SpinHeldDown ==
    /\ state # "none"
    /\ \/ state # "both" /\ do_click(ed, state) /\ UNCHANGED state
       \/ state # "both" /\ state' = "both" /\ UNCHANGED <<ed, last_val, told, typed>>
       \/ /\ state = "both" /\ UNCHANGED state
          /\ \E arrow \in {"up", "down"} : do_click(ed, arrow)
    /\ UNCHANGED <<orig_text, edit_called, edit_down, thrown>>

SpinMouseUp ==
    /\ state # "none" /\ state' = "none"
    /\ UNCHANGED <<editVars, last_val, told, typed>>

(* The keys up and down press and release an arrow.                        *)
SpinKey ==
    /\ state = "none" /\ ~edit_down /\ ~ed.active
    /\ \E arrow \in {"up", "down"} : do_click(Stepped(ed, arrow), arrow)
    /\ UNCHANGED <<orig_text, edit_called, edit_down, thrown, state>>

(* The field's own events come when no arrow is pressed.  It has the same  *)
(* callback as the spinner.                                                *)
SpinField ==
    /\ state = "none"
    /\ EditTab \/ EditMouseUp \/ EditType \/ EditEdit \/ EditLeave \/ EditSetLive \/ EditSyncLive
    /\ told' = IF edit_called' THEN LiveValue(ed') ELSE told
    /\ typed' = (typed \/ LiveValue(ed') # LiveValue(ed))
    /\ UNCHANGED <<state, last_val>>

(* The program synchronizes while an arrow is pressed: the active control  *)
(* is the spinner, so the field takes the variable's value.                *)
SpinSyncLive ==
    /\ state # "none"
    /\ EditSetLive \/ EditSyncLive
    /\ typed' = (typed \/ LiveValue(ed') # LiveValue(ed))
    /\ UNCHANGED <<state, last_val, told>>

SpinNext ==
    \/ SpinMouseDown \/ SpinIdle \/ SpinHeldDown \/ SpinMouseUp \/ SpinKey
    \/ SpinField \/ SpinSyncLive

SpinSpec == SpinInit({"int", "float"}, {"clamp"}) /\ [][SpinNext]_spinVars

(* The program has been told of every value that the arrows gave the       *)
(* number, unless it was also typed or set; and the number is within its   *)
(* limits, whatever fractions the clicks have left in float_val            *)
(* (do_callbacks, glui_spinner.cpp:513; mouse_down_handler, 175).          *)
ArrowsTell ==
    /\ ~typed => told = LiveValue(ed)
    /\ ed.int_val \in Low..High
    /\ ed.int_val = Truncate(ed.float_val)
===============================================================================
