------------------------------- MODULE GluiForm -------------------------------
(***************************************************************************)
(* A window of GLUI controls as GLUI_Main sees it: the tree of panels,     *)
(* rollouts, radio groups, buttons, checkboxes and radio buttons, which of *)
(* them is active, the mouse held on one, the keys Tab and space, live     *)
(* variables, and what the program does to controls between two events.    *)
(* Where a control is on the screen is GluiLayout's matter: an event of    *)
(* the mouse comes with the control that find_control returns for it.      *)
(***************************************************************************)
EXTENDS Integers, Sequences, SequencesExt, FiniteSets

CONSTANTS
    Kids,           \* main_panel and the controls, each with its children
    Root,           \* main_panel
    Kind,           \* "panel", "rollout", "group", "radio", "checkbox" or "button"
    Id,             \* a radio button's number in its group
    None,
    Switched,       \* the controls that the program enables and disables
    Folded,         \* the rollouts that the program opens and closes
    MaxProgram      \* bound: steps of the program

Controls == DOMAIN Kids
Leaves == {"radio", "checkbox", "button"}
OfKind(k) == {c \in Controls : Kind[c] = k}
Parent == [c \in Controls \ {Root} |-> CHOOSE p \in Controls : Contains(Kids[p], c)]
can_activate(c) == Kind[c] \in Leaves \cup {"rollout"}
HasLive(c) == Kind[c] \in {"checkbox", "group"}

ASSUME FormAssumption ==
    /\ Root \in Controls /\ None \notin Controls
    /\ Switched \cup Folded \subseteq Controls
    /\ \A c \in Controls \ {Root} : \E p \in Controls : Contains(Kids[p], c)
    /\ \A c \in Controls : Kind[c] \in Leaves => Kids[c] = <<>>

(* A node of GLUI has one parent, and a GLUI_RadioGroup takes its children *)
(* for radio buttons, which are made with a group for their parent.        *)
ASSUME TreeAssumption ==
    /\ IsFiniteSet(Controls) /\ Kind[Root] = "panel"
    /\ \A c \in Controls : Kids[c] \in Seq(Controls)
    /\ \A p \in Controls : \A c \in Range(Kids[p]) :
        /\ \A q \in Controls : c \in Range(Kids[q]) => p = q
        /\ Kind[p] = "group" <=> Kind[c] = "radio"
    /\ \A r \in OfKind("radio") : Id[r] \in Int

(* link_this_to_parent_last puts a new node behind a parent's last child:  *)
(* main_panel is no child, and from every control the way up leads to it.  *)
ASSUME NodesAssumption ==
    /\ \A p \in Controls : Root \notin Range(Kids[p]) /\ IsInjective(Kids[p])
    /\ \A S \in SUBSET (Controls \ {Root}) : S # {} => \E c \in S : Parent[c] \notin S

VARIABLES
    active_control,
    in_master,          \* is GLUI_Master.active_control this window's active control?
    mouse_button_down,
    ctl,                \* the fields of the controls; orig_value and the insides are those of the
                        \* control pressed last: nothing reads a control's before its own press
    called,             \* the control whose callback the last event executed
    pressed,            \* the control that has had a mouse_down_handler and no mouse_up_handler
    program,            \* the program's steps so far
    torn                \* those taken hold of by something else while they were pressed

formVars == <<active_control, in_master, mouse_button_down, ctl, called, pressed, program, torn>>

FormInit ==
    /\ active_control = None
    /\ in_master = FALSE
    /\ mouse_button_down = FALSE
    /\ ctl = [enabled |-> Controls, is_open |-> OfKind("rollout"), hidden |-> {},
              int_val |-> [c \in Controls |-> 0],
              currently_inside |-> FALSE, initially_inside |-> FALSE, orig_value |-> 0,
              live |-> [c \in {d \in Controls : HasLive(d)} |-> 0],
              last_live |-> [c \in {d \in Controls : HasLive(d)} |-> 0]]
    /\ called = None
    /\ pressed = None
    /\ program = 0
    /\ torn = {}

-------------------------------------------------------------------------------
(* The tree.  A closed rollout has put its children into collapsed_node.   *)

children(c) == IF c \in OfKind("rollout") \ ctl.is_open THEN <<>> ELSE Kids[c]
Rank(c) == CHOOSE i \in DOMAIN Kids[Parent[c]] : Kids[Parent[c]][i] = c
next(c) ==
    LET s == Kids[Parent[c]]
    IN  IF Rank(c) < Len(s) THEN s[Rank(c) + 1] ELSE None

Above[c \in Controls] == IF c = Root THEN {} ELSE {Parent[c]} \cup Above[Parent[c]]
Below(c) == {d \in Controls : c \in Above[d]}
InClosed(c) == \E r \in Above[c] : Kind[r] = "rollout" /\ r \notin ctl.is_open

(* Those below a node that a recursion through first_child and next meets. *)
Reached(c) ==
    {d \in Below(c) : \A r \in (Above[d] \ Above[c]) \cap OfKind("rollout") : r \in ctl.is_open}

Takes(c) == can_activate(c) /\ c \in ctl.enabled

NextUp[c \in Controls] ==
    IF c = Root THEN None ELSE IF next(c) # None THEN next(c) ELSE NextUp[Parent[c]]

FollowingNoUp(c) ==    \* mistake: does not back up to an ancestor's sibling
    IF children(c) # <<>> THEN children(c)[1] ELSE IF c = Root THEN None ELSE next(c)

Following(c) == IF children(c) # <<>> THEN children(c)[1] ELSE NextUp[c]

find_next_control[c \in Controls] ==
    LET n == Following(c)
    IN  IF n = None \/ Takes(n) THEN n ELSE find_next_control[n]

NextOf(c) == find_next_control[IF c = None THEN Root ELSE c]

(* Runs through the controls from the first one, until the next is c or    *)
(* there is no next.                                                       *)
find_prev_control(c) ==
    LET from[d \in Controls] ==
            LET n == find_next_control[d] IN IF n = None \/ n = c THEN d ELSE from[n]
        last == from[Root]
    IN  IF c # None /\ (find_next_control[last] = None \/ last = Root) THEN None ELSE last

-------------------------------------------------------------------------------
(* The controls' handlers, as the fields they leave.                       *)

output_live(f, c) ==
    IF HasLive(c)
    THEN [f EXCEPT !.live[c] = f.int_val[c], !.last_live[c] = f.int_val[c]]
    ELSE f

set_selected(f, g, v) ==
    [f EXCEPT !.int_val = [c \in Controls |->
        IF c = g THEN v
        ELSE IF Contains(Kids[g], c) THEN (IF v # -1 /\ Id[c] = v THEN 1 ELSE 0)
        ELSE f.int_val[c]]]

set_int_val(f, c, v) ==
    IF Kind[c] = "group"
    THEN IF v = f.int_val[c] THEN f ELSE output_live(set_selected(f, c, v), c)
    ELSE output_live([f EXCEPT !.int_val[c] = v], c)

PressKeepsOrig(f, c, header) ==    \* mistake: the value to go back to is not noted
    LET in == [f EXCEPT !.currently_inside = TRUE]
    IN  CASE Kind[c] \in {"button", "checkbox"} -> [in EXCEPT !.int_val[c] = 1 - @]
          [] Kind[c] = "radio" -> set_selected(in, Parent[c], Id[c])
          [] OTHER -> [f EXCEPT !.currently_inside = header, !.initially_inside = header]

(* mouse_down_handler; header: is the point on a rollout's title?          *)
Press(f, c, header) ==
    LET in == [f EXCEPT !.currently_inside = TRUE]
    IN  CASE Kind[c] = "button" -> [in EXCEPT !.int_val[c] = 1]
          [] Kind[c] = "checkbox" ->
                [in EXCEPT !.orig_value = f.int_val[c], !.int_val[c] = 1 - @]
          [] Kind[c] = "radio" ->
                set_selected([in EXCEPT !.orig_value = f.int_val[Parent[c]]], Parent[c], Id[c])
          [] Kind[c] = "rollout" ->
                [f EXCEPT !.currently_inside = header, !.initially_inside = header]

(* mouse_held_down_handler.                                                *)
Held(f, c, in) ==
    LET now == [f EXCEPT !.currently_inside = in]
    IN  IF in = f.currently_inside \/ (Kind[c] = "rollout" /\ ~f.initially_inside) THEN f
        ELSE CASE Kind[c] = "checkbox" -> [now EXCEPT !.int_val[c] = 1 - @]
               [] Kind[c] = "radio" ->
                    set_selected(now, Parent[c], IF in THEN Id[c] ELSE f.orig_value)
               [] OTHER -> now

(* A rollout opens or closes.  hide_internal and unhide_internal start at  *)
(* the first child, go to its siblings and to what is below them; what a   *)
(* closed rollout holds is met only if they start at that rollout.         *)
Toggle(f, r) ==
    LET Met(q) == q \in f.is_open
                  \/ /\ Kids[Parent[q]][1] = q
                     /\ Parent[q] = r \/ Parent[q] \notin OfKind("rollout") \ f.is_open
        met == {d \in Below(r) :
                    \A q \in (Above[d] \ (Above[r] \cup {r})) \cap OfKind("rollout") : Met(q)}
    IN  IF r \in f.is_open
        THEN [f EXCEPT !.is_open = @ \ {r}, !.hidden = @ \cup met]
        ELSE [f EXCEPT !.is_open = @ \cup {r}, !.hidden = @ \ met]

(* mouse_up_handler: the fields it leaves.  The checkbox and the radio     *)
(* button keep orig_value and currently_inside: when the space bar presses *)
(* and releases what the mouse holds, the mouse's release reads them.      *)
Release(f, c, in) ==
    LET out == [f EXCEPT !.currently_inside = FALSE]
    IN  CASE Kind[c] = "button" -> [out EXCEPT !.int_val[c] = 0]
          [] Kind[c] = "checkbox" ->
                IF in THEN set_int_val(f, c, f.int_val[c])
                ELSE [f EXCEPT !.int_val[c] = f.orig_value]
          [] Kind[c] = "radio" ->
                LET g == Parent[c]
                    chosen == set_selected(f, g, IF in THEN Id[c] ELSE f.orig_value)
                IN  IF in /\ Id[c] # f.orig_value THEN output_live(chosen, g) ELSE chosen
          [] Kind[c] = "rollout" ->
                LET up == [out EXCEPT !.initially_inside = FALSE]
                IN  IF f.currently_inside THEN Toggle(up, c) ELSE up

(* ... and the control whose callback it executes.                         *)
Calls(f, c, in) ==
    IF ~in THEN None
    ELSE IF Kind[c] \in {"button", "checkbox"} THEN c
    ELSE IF Kind[c] = "radio" /\ Id[c] # f.orig_value THEN Parent[c]
    ELSE None

-------------------------------------------------------------------------------
(* Events.  The mouse's come with the control at the point, or None, and   *)
(* with whether the point is on a rollout's title.                         *)

LiveOf(c) == IF Kind[c] = "radio" THEN Parent[c] ELSE c
Torn(c) == IF c = None THEN {} ELSE {LiveOf(c)}
Visible == {c \in Controls : ~InClosed(c)}
Headers(c) == IF c # None /\ Kind[c] = "rollout" THEN BOOLEAN ELSE {TRUE}

mouse_down(c, header) ==
    LET usable == Takes(c)
    IN  /\ mouse_button_down' = TRUE
        /\ active_control' = IF usable THEN c
                             ELSE IF c \in ctl.enabled \/ c # active_control THEN None
                             ELSE active_control
        /\ in_master' = (active_control' # None /\ (usable \/ in_master))
        /\ IF usable
           THEN ctl' = Press(ctl, c, header) /\ pressed' = c
           ELSE UNCHANGED <<ctl, pressed>>
        /\ called' = None
        /\ UNCHANGED <<program, torn>>

(* main_panel fills the window (reshape), so that there is a control at    *)
(* every point where the button can go down.                               *)
MouseDown ==
    /\ ~mouse_button_down
    /\ \E c \in Visible : \E header \in Headers(c) : mouse_down(c, header)

motion(c, header) ==
    /\ ctl' = Held(ctl, active_control, c = active_control /\ header)
    /\ called' = None
    /\ UNCHANGED <<active_control, in_master, mouse_button_down, pressed, program, torn>>

mouse_up(c) ==
    /\ mouse_button_down' = FALSE
    /\ IF active_control = None
       THEN UNCHANGED ctl /\ called' = None
       ELSE /\ ctl' = Release(ctl, active_control, c = active_control)
            /\ called' = Calls(ctl, active_control, c = active_control)
    /\ pressed' = None
    /\ torn' = torn \ Torn(called')
    /\ UNCHANGED <<active_control, in_master, program>>

(* Where the pointer is matters to the handlers only as inside or outside. *)
Over == {None} \cup {c \in {active_control} \ {None} : ~InClosed(c)}

Motion ==
    /\ mouse_button_down /\ active_control # None
    /\ \E c \in Over : \E header \in Headers(c) : motion(c, header)
MouseUp == mouse_button_down /\ \E c \in Over : mouse_up(c)

tab(c) ==
    /\ ~mouse_button_down
    /\ active_control' = IF c # None /\ Takes(c) THEN c ELSE None
    /\ in_master' = (active_control' # None)
    /\ called' = None
    /\ UNCHANGED <<mouse_button_down, ctl, pressed, program, torn>>

Tab == tab(NextOf(active_control))
ShiftTab == tab(find_prev_control(active_control))

Space ==
    /\ active_control # None
    /\ LET down == Press(ctl, active_control, TRUE)
       IN  /\ ctl' = Release(down, active_control, TRUE)
           /\ called' = Calls(down, active_control, TRUE)
    /\ torn' = IF pressed = active_control THEN torn \cup Torn(pressed) ELSE torn \ Torn(called')
    /\ UNCHANGED <<active_control, in_master, mouse_button_down, pressed, program>>

(* A control of another GLUI window is activated, by the mouse or by Tab;  *)
(* the Tab has first set GLUI_Master.active_control_glui to NULL.          *)
OtherWindow ==
    /\ ~mouse_button_down
    /\ in_master' = FALSE
    /\ active_control' \in {active_control, IF in_master THEN None ELSE active_control}
    /\ called' = None
    /\ UNCHANGED <<mouse_button_down, ctl, pressed, program, torn>>

-------------------------------------------------------------------------------
(* The program, between two events.                                        *)

Step ==
    /\ program < MaxProgram
    /\ program' = program + 1
    /\ called' = None

deactivate_current_control(when) ==
    /\ active_control' = IF when THEN None ELSE active_control
    /\ in_master' = (in_master /\ ~when)
    /\ torn' = IF when THEN torn \cup Torn(pressed) ELSE torn
    /\ pressed' = IF when THEN None ELSE pressed

DisabledInPlace(c) ==    \* mistake: what is below the control may stay active
    /\ ctl' = [ctl EXCEPT !.enabled = @ \ ({c} \cup Reached(c))]
    /\ deactivate_current_control(active_control = c)
    /\ Step
    /\ UNCHANGED mouse_button_down

disable(c) ==
    LET off == {c} \cup Reached(c)
    IN  /\ ctl' = [ctl EXCEPT !.enabled = @ \ off]
        /\ deactivate_current_control(active_control \in off)
        /\ Step
        /\ UNCHANGED mouse_button_down

enable(c) ==
    /\ ctl' = [ctl EXCEPT !.enabled = @ \cup {c} \cup Reached(c)]
    /\ Step
    /\ UNCHANGED <<active_control, in_master, mouse_button_down, pressed, torn>>

Disable == \E c \in Switched : disable(c)
Enable == \E c \in Switched : enable(c)

Hide ==
    /\ deactivate_current_control(TRUE)
    /\ Step
    /\ UNCHANGED <<ctl, mouse_button_down>>

OpenOrClose ==
    /\ \E r \in Folded : ctl' = Toggle(ctl, r)
    /\ Step
    /\ UNCHANGED <<active_control, in_master, mouse_button_down, pressed, torn>>

LiveValues(c) == IF Kind[c] = "group" THEN {Id[r] : r \in Range(Kids[c])} ELSE {0, 1}

(* The program assigns a live variable ...                                 *)
SetLive ==
    /\ \E c \in DOMAIN ctl.live : \E v \in LiveValues(c) : ctl' = [ctl EXCEPT !.live[c] = v]
    /\ Step
    /\ UNCHANGED <<active_control, in_master, mouse_button_down, pressed, torn>>

(* ... and has the controls follow their variables.                        *)
SyncOf(f, c) ==
    IF (c = active_control /\ mouse_button_down) \/ f.live[c] = f.last_live[c] THEN f
    ELSE [set_int_val(f, c, f.live[c]) EXCEPT !.last_live[c] = f.live[c]]

sync_live ==
    /\ ctl' = FoldSet(LAMBDA c, f : SyncOf(f, c), ctl, DOMAIN ctl.live)
    /\ torn' = torn \cup (Torn(pressed) \cap {c \in DOMAIN ctl.live : ctl.live[c] # ctl.last_live[c]})
    /\ Step
    /\ UNCHANGED <<active_control, in_master, mouse_button_down, pressed>>

FormNext ==
    \/ MouseDown \/ Motion \/ MouseUp
    \/ Tab \/ ShiftTab \/ Space \/ OtherWindow
    \/ Disable \/ Enable \/ Hide \/ OpenOrClose \/ SetLive \/ sync_live

FormSpec == FormInit /\ [][FormNext]_formVars

-------------------------------------------------------------------------------
(* Properties.                                                             *)

(* Those that come after c in the order of the tree: below it, or in the   *)
(* branch of a later sibling of c or of a control above c.                 *)
Upward(c) == ({c} \cup Above[c]) \ {Root}
Older(a, b) == Parent[a] = Parent[b] /\ Rank(a) < Rank(b)
Order == {p \in Controls \X Controls :
    p[1] \in Above[p[2]] \/ \E a \in Upward(p[1]), b \in Upward(p[2]) : Older(a, b)}
After == [c \in Controls |-> {d \in Controls : <<c, d>> \in Order}]

ComesFirst(n, S) == IF S = {} THEN n = None ELSE n \in S /\ S \ {n} \subseteq After[n]
ComesLast(n, S) == IF S = {} THEN n = None ELSE n \in S /\ \A c \in S \ {n} : n \in After[c]

(* Tab goes through the enabled controls that are not in a closed rollout, *)
(* each once, in the order of the tree, and Shift-Tab goes back through    *)
(* them (find_next_control, glui.cpp:1320; find_prev_control, 1394).       *)
Stops == {c \in Controls : Takes(c) /\ ~InClosed(c)}
TabVisitsAll ==
    LET stops == Stops
    IN  /\ ComesFirst(NextOf(None), stops)
        /\ \A c \in stops :
            /\ ComesFirst(NextOf(c), stops \cap After[c])
            /\ ComesLast(find_prev_control(c), {d \in stops : c \in After[d]})

(* A checkbox or radio group that is not being pressed shows the value     *)
(* that it last gave to its live variable or took from it; a marked radio  *)
(* button is the one that its group has (mouse_up_handler,                 *)
(* glui_checkbox.cpp:70, and set_selected, glui_radio.cpp:121).  Excepted, *)
(* until it next tells its variable, is one that something else took hold  *)
(* of while the mouse held it (torn): the space bar, whose press becomes   *)
(* the value to go back to, a sync_live, or a disable or hide.             *)
ShowsLive ==
    /\ \A c \in DOMAIN ctl.live \ (torn \cup Torn(pressed)) : ctl.int_val[c] = ctl.last_live[c]
    /\ \A r \in OfKind("radio") : ctl.int_val[r] = 1 => ctl.int_val[Parent[r]] = Id[r]

(* A callback is executed only for a control that is active and enabled:   *)
(* the program may disable what is pressed at any time                     *)
(* (GLUI_Control::disable, glui_control.cpp:1062).                         *)
CallbackOfEnabled ==
    [][called' # None => \E c \in ctl.enabled : c = active_control /\ LiveOf(c) = called']_formVars
===============================================================================
