------------------------------ MODULE BrushPanel ------------------------------
(***************************************************************************)
(* BrushWork's window of controls and its live variables: the radio        *)
(* buttons that choose m_curTool, a spinner with a text field for each     *)
(* channel of m_curColor, clamped to its limits, and the buttons with      *)
(* preset colours.  A typed number counts only when its text field is      *)
(* deactivated, which a click on another control of the window does.       *)
(***************************************************************************)
EXTENDS Integers

CONSTANTS
    Channels,       \* red, green and blue, each with its spinner
    Presets,        \* UI_PRESET_RED ... with the colour each one sets
    FloatHigh,      \* the spinners' upper limit, in parts of a colour
    Steps,          \* numbers that typing and clicks can give, out of the limits too
    NotTyped        \* no edit is pending

RadioButtons == 0 .. 5

ASSUME PanelAssumption ==
    /\ FloatHigh \in Nat
    /\ Steps \subseteq Int /\ NotTyped \notin Steps
    /\ DOMAIN Presets # {} /\ \A b \in DOMAIN Presets : Presets[b] \in [Channels -> 0 .. FloatHigh]

VARIABLES
    m_curTool, m_curColor,      \* the live variables
    float_val,                  \* what each spinner shows
    last_live_float,            \* what it last knew of its live variable
    typed                       \* what is in its text field but does not count yet

panelVars == <<m_curTool, m_curColor, float_val, last_live_float, typed>>

Clamp(v) == IF v < 0 THEN 0 ELSE IF v > FloatHigh THEN FloatHigh ELSE v

PanelInit ==
    /\ m_curTool = 0
    /\ m_curColor = [c \in Channels |-> 0]
    /\ float_val = m_curColor
    /\ last_live_float = m_curColor
    /\ typed = [c \in Channels |-> NotTyped]

(* The panel once set_float_val has given each channel of new its number:  *)
(* the text is rewritten and the live variable follows, clamped.           *)
SetFloatVals(color, new) ==
    LET shown == [c \in Channels |-> IF c \in DOMAIN new THEN Clamp(new[c]) ELSE float_val[c]]
    IN  /\ float_val' = shown
        /\ m_curColor' = [c \in Channels |-> IF c \in DOMAIN new THEN shown[c] ELSE color[c]]
        /\ last_live_float' = [c \in Channels |->
                IF c \in DOMAIN new THEN shown[c] ELSE last_live_float[c]]
        /\ typed' = [c \in Channels |-> IF c \in DOMAIN new THEN NotTyped ELSE typed[c]]

SetsOnlyRed(color) ==    \* mistake: green and blue are not shown
    SetFloatVals(color, [c \in {"red"} |-> color[c]])

(* gluiControl ends by showing the live colour in every spinner.           *)
gluiControl(color) == SetFloatVals(color, color)

(* What counts once a pending edit has been deactivated.                   *)
Counted == [c \in Channels |-> IF typed[c] = NotTyped THEN m_curColor[c] ELSE typed[c]]

SelectTool(t) ==
    /\ m_curTool' = t
    /\ gluiControl(Counted)

Preset(b) ==
    /\ gluiControl(Presets[b])
    /\ UNCHANGED m_curTool

(* A click on an arrow, a drag, an idle repeat of a click.                 *)
Spin(c, v) ==
    /\ gluiControl([Counted EXCEPT ![c] = v])
    /\ UNCHANGED m_curTool

Type(c, v) ==
    /\ \A d \in Channels \ {c} : typed[d] = NotTyped
    /\ typed' = [typed EXCEPT ![c] = v]
    /\ UNCHANGED <<m_curTool, m_curColor, float_val, last_live_float>>

(* Enter, Tab, Escape or a click elsewhere in the window.                  *)
Deactivate ==
    /\ \E c \in Channels : typed[c] # NotTyped
    /\ gluiControl(Counted)
    /\ UNCHANGED m_curTool

PanelNext ==
    \/ \E t \in RadioButtons : SelectTool(t)
    \/ \E b \in DOMAIN Presets : Preset(b)
    \/ \E c \in Channels, v \in Steps : Spin(c, v) \/ Type(c, v)
    \/ Deactivate
===============================================================================
