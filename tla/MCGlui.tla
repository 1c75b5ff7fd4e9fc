-------------------------------- MODULE MCGlui --------------------------------
(***************************************************************************)
(* The parts of GLUI that run on their own, each in a world of its own:    *)
(* part chooses one, the variables of the others stay as they are.         *)
(***************************************************************************)
EXTENDS GluiForm, Spinner, TextBox, CommandLine, GluiLayout,
    Listbox, FileBrowser

VARIABLE part

MCKids ==
    [panel |-> <<"frame", "fold">>, frame |-> <<"group">>, group |-> <<"left", "right">>,
     left |-> <<>>, right |-> <<>>, fold |-> <<"box", "push">>,
     box |-> <<>>, push |-> <<>>]
MCKind ==
    [panel |-> "panel", frame |-> "panel", group |-> "group", left |-> "radio",
     right |-> "radio", fold |-> "rollout", box |-> "checkbox", push |-> "button"]
MCId == [left |-> 0, right |-> 1]
MCSwitched == {"fold"}
MCFolded == {"fold"}

MCKeys == [int |-> {"1", "-"}, float |-> {"1", "."}, text |-> {"a", " "}]
MCLiveTexts == [int |-> {1}, float |-> {150}, text |-> {}]

MCLimitPairs == {<<0, 1>>, <<1, -1>>, <<1, 1>>}

MCPartKind ==
    [main |-> "panel", inner |-> "panel", fold |-> "rollout", bar |-> "column",
     push |-> "button", field |-> "field"]

(* The first entry of a directory never opens; the second list is shorter. *)
MCEntries == [top |-> <<"top", "a", "sub", "b">>, sub |-> <<"top", "c">>]

MCTexts == {<<>>, <<"n", "n", "a">>, <<"a", "a", "a", "a">>}

(* A field alone has no arrows to tell of: it is as one that has been      *)
(* typed in.                                                               *)
NoArrows == state = "none" /\ last_val = <<>> /\ told = 0 /\ typed = TRUE

NoBrowser == fb = NewList /\ cwd = "top" /\ clicks = 0

(* Two states are one for TLC when they differ only in what is left of a   *)
(* press that is over: no handler reads it before the next press (Motion   *)
(* and MouseUp need the button down, Space presses first), nor a property. *)
MCForm ==
    IF mouse_button_down /\ active_control # None THEN ctl
    ELSE [ctl EXCEPT !.orig_value = 0, !.currently_inside = FALSE, !.initially_inside = FALSE]

MCView == <<part, [formVars EXCEPT ![4] = MCForm], spinVars, bar, boxVars, browserVars, lb,
            lineVars, layoutVars>>

Init ==
    /\ part \in {"form", "edit", "spinner", "scrollbar", "box", "line", "layout",
                 "listbox", "browser"}
    /\ FormInit
    /\ IF part = "spinner" THEN SpinInit({"int", "float"}, {"clamp"})
       ELSE NoArrows /\ EditInit(IF part = "edit" THEN {"int", "float", "text"} ELSE {"int"}, {"clamp"})
    /\ ListboxInit(IF part = "listbox" THEN ItemIds ELSE {0})
    /\ CASE part = "scrollbar" -> ScrollInit({"int", "float"}) /\ NoBrowser
         [] part = "browser" -> BrowserInit({"top"})
         [] OTHER -> bar = NewBar("int", FALSE, <<0, 0>>) /\ NoBrowser
    /\ BoxInit(IF part = "box" THEN {-10, 3} ELSE {3}) /\ (part = "box" \/ tb.text = <<>>)
    /\ CommandInit
    /\ LayoutInit /\ (part = "layout" \/ shut = {})

Next ==
    /\ UNCHANGED part
    /\ IF part = "form" THEN TRUE ELSE UNCHANGED formVars
    /\ IF part \in {"edit", "spinner"} THEN TRUE ELSE UNCHANGED spinVars
    /\ IF part \in {"scrollbar", "box", "browser"} THEN TRUE ELSE UNCHANGED bar
    /\ IF part = "box" THEN TRUE ELSE UNCHANGED boxVars
    /\ IF part = "browser" THEN TRUE ELSE UNCHANGED browserVars
    /\ IF part = "listbox" THEN TRUE ELSE UNCHANGED lb
    /\ IF part = "line" THEN TRUE ELSE UNCHANGED lineVars
    /\ IF part = "layout" THEN TRUE ELSE UNCHANGED layoutVars
    /\ CASE part = "form" -> FormNext
         [] part = "edit" -> EditNext /\ UNCHANGED <<state, last_val, told, typed>>
         [] part = "spinner" -> SpinNext
         [] part = "scrollbar" -> ScrollNext
         [] part = "box" -> BoxNext
         [] part = "browser" -> BrowserNext
         [] part = "listbox" -> ListboxNext
         [] part = "line" -> CommandNext
         [] part = "layout" -> LayoutNext
===============================================================================
