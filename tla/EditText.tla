------------------------------- MODULE EditText -------------------------------
(***************************************************************************)
(* A field of text of GLUI (GLUI_EditText): the text, the insertion point, *)
(* the selection and the part of the text that fits in the box, under the  *)
(* keys and the mouse, and the value that the field takes from the text    *)
(* when it is left.  Positions in the text count from 0.  A character is   *)
(* one unit wide, a float is counted in hundredths, and the sign of a      *)
(* float that is zero is left out.                                         *)
(***************************************************************************)
EXTENDS Integers, Sequences, SequencesExt

CONSTANTS
    Keys,           \* of each data_type, the characters that are typed
    MaxLen,         \* bound: no typing makes the text longer than this
    BoxWidth,       \* characters that fit in the box
    Low, High,      \* the limits of a field that has limits
    LiveTexts       \* of each data_type, what the program gives the live variable

DataTypes == {"int", "float", "text"}
Digits == <<"0", "1", "2", "3", "4", "5", "6", "7", "8", "9">>
Characters == (UNION {Keys[type] : type \in DataTypes}) \cup Range(Digits) \cup {"-", "."}

ASSUME EditAssumption ==
    /\ BoxWidth \in Nat \ {0}
    /\ Low \in Int /\ High \in Int /\ Low <= High
    /\ LiveTexts["int"] \cup LiveTexts["float"] \subseteq Int
    /\ LiveTexts["text"] \subseteq Seq(Characters)

VARIABLES
    ed,             \* the fields of the control
    orig_text,      \* the text when the field was last activated by Tab or RETURN
    edit_called,    \* did the last event execute the callback?
    edit_down,      \* is the mouse button down on the field?
    thrown          \* has a character of position -1 been inserted or erased?

editVars == <<ed, orig_text, edit_called, edit_down, thrown>>

-------------------------------------------------------------------------------
(* Numbers and their texts.                                                *)

IsDigit(c) == Contains(Digits, c)
Digit(n) == Digits[n + 1]
DigitValue(c) == (CHOOSE i \in 1..10 : Digits[i] = c) - 1

Number(s) ==
    LET first[k \in 0..Len(s)] == IF k = 0 THEN 0 ELSE 10 * first[k - 1] + DigitValue(s[k])
    IN  first[Len(s)]

(* An int of 32 bits has up to ten digits.                                 *)
Tens == <<1, 10, 100, 1000, 10000, 100000, 1000000, 10000000, 100000000, 1000000000>>
NatText(n) ==
    LET size == Cardinality({k \in 1..10 : k = 1 \/ Tens[k] <= n})
    IN  [i \in 1..size |-> Digit((n \div Tens[size + 1 - i]) % 10)]

DigitsAt(t, i) ==
    LET ends == {j \in i..Len(t) : ~IsDigit(t[j])}
    IN  SubSeq(t, i, IF ends = {} THEN Len(t) ELSE Min(ends) - 1)

IsNeg(t) == t # <<>> /\ t[1] = "-"
First(t) == IF IsNeg(t) THEN 2 ELSE 1
Signed(t, n) == IF IsNeg(t) THEN -n ELSE n

atoi(t) == Signed(t, Number(DigitsAt(t, First(t))))

(* The fraction counts to the second digit.                                *)
atof(t) ==
    LET whole == DigitsAt(t, First(t))
        dot == First(t) + Len(whole)
        part == IF dot <= Len(t) /\ t[dot] = "." THEN DigitsAt(t, dot + 1) ELSE <<>>
    IN  Signed(t, 100 * Number(whole) + Number(SubSeq(part \o <<"0", "0">>, 1, 2)))

WithSign(n, t) == IF n < 0 THEN <<"-">> \o t ELSE t
Abs(n) == IF n < 0 THEN -n ELSE n
Truncate(v) == IF v < 0 THEN -(Abs(v) \div 100) ELSE v \div 100

IntText(n) == WithSign(n, NatText(Abs(n)))
FloatText(v) ==
    LET n == Abs(v)
    IN  WithSign(v, NatText(n \div 100) \o <<".", Digit((n \div 10) % 10)>>
                        \o (IF n % 10 = 0 THEN <<>> ELSE <<Digit(n % 10)>>))

-------------------------------------------------------------------------------
(* The control's operations, from fields to fields.                        *)

OnlyFromBelow(v, lo, hi) ==    \* mistake: nothing holds it at the end
    IF v < lo THEN lo ELSE v

Clamp(v, lo, hi) == IF v < lo THEN lo ELSE IF v > hi THEN hi ELSE v
Wrap(v, lo, hi) == IF v < lo THEN hi ELSE IF v > hi THEN lo ELSE v
Periods(t) == Cardinality({i \in DOMAIN t : t[i] = "."})
SelLo(e) == Min({e.sel_start, e.sel_end})
SelHi(e) == Max({e.sel_start, e.sel_end})
Erase(t, a, b) == SubSeq(t, 1, a) \o SubSeq(t, b + 1, Len(t))

(* The part of the text that is shown follows the insertion point.         *)
update_substring_bounds(e) ==
    LET last == Max({Len(e.text) - 1, 0})
        start == Clamp(e.substring_start, 0, last)
        end == Clamp(e.substring_end, 0, last)
        at == e.insertion_pt
        Fit(s, n) == Min({n, s + BoxWidth - 1})
        grown == IF e.last_insertion_pt > at THEN end
                 ELSE IF Fit(start, end) < last THEN Min({last, start + BoxWidth})
                 ELSE Fit(start, end)
        bounds == IF at >= 0 /\ at < start THEN <<at, end>>
                  ELSE IF at > end THEN <<Max({start, at - BoxWidth}), at - 1>>
                  ELSE <<start, grown>>
    IN  [e EXCEPT !.substring_start = bounds[1], !.substring_end = Fit(bounds[1], bounds[2]),
                  !.last_insertion_pt = at]

LiveValue(e) ==
    CASE e.data_type = "int" -> e.int_val
      [] e.data_type = "float" -> e.float_val
      [] OTHER -> e.text

output_live_text(e) == [e EXCEPT !.live = LiveValue(e), !.last_live = LiveValue(e)]

set_text(e, t) ==
    output_live_text(update_substring_bounds(
        [e EXCEPT !.text = t, !.substring_start = 0, !.substring_end = Len(t) - 1,
                  !.insertion_pt = -1, !.sel_start = 0, !.sel_end = 0]))

set_numeric_text(e) ==
    IF e.data_type = "float"
    THEN set_text([e EXCEPT !.num_periods = 1], FloatText(e.float_val))
    ELSE set_text(e, IntText(e.int_val))

Limited(e, v, lo, hi) ==
    CASE e.has_limits = "clamp" -> Clamp(v, lo, hi)
      [] e.has_limits = "wrap" -> Wrap(v, lo, hi)
      [] OTHER -> v

set_float_val(e, v) ==
    LET new == Limited(e, v, 100 * Low, 100 * High)
    IN  set_numeric_text([e EXCEPT !.float_val = new, !.int_val = Truncate(new)])

edit_set_int_val(e, n) ==
    LET new == Limited(e, n, Low, High)
    IN  set_numeric_text([e EXCEPT !.int_val = new, !.float_val = 100 * new])

(* What set_..._val is called with when the value comes from outside.      *)
SetLiveValue(e, v) ==
    CASE e.data_type = "int" -> edit_set_int_val(e, v)
      [] e.data_type = "float" -> set_float_val(e, v)
      [] OTHER -> set_text(e, v)

(* A value outside of new limits becomes the lower one.                    *)
set_limits(e, type) ==
    LET new == [e EXCEPT !.has_limits = type]
    IN  CASE e.data_type = "int" /\ e.int_val \notin Low..High -> edit_set_int_val(new, Low)
          [] e.data_type = "float" /\ e.float_val \notin 100 * Low .. 100 * High ->
                set_float_val(new, 100 * Low)
          [] OTHER -> new

Place(e, p) == [e EXCEPT !.insertion_pt = p, !.sel_start = p, !.sel_end = p]

clear_selection(e) == Place([e EXCEPT !.text = Erase(@, SelLo(e), SelHi(e))], SelLo(e))

Breaks == {" ", ":", "-", ".", ","}
find_word_break(t, start, direction) ==
    LET from == IF direction = -1 THEN 0..(start - 2)
                ELSE IF start < 0 THEN {} ELSE start..(Len(t) - 1)
        breaks == {i \in from : t[i + 1] \in Breaks}
    IN  IF breaks = {} THEN (IF direction = 1 THEN Len(t) ELSE 0)
        ELSE (IF direction = 1 THEN Min(breaks) ELSE Max(breaks)) + 1

RefusedUnlessSelected(e, key) ==    \* mistake: any selection makes room for a '.'
    LET minus == key = "-" /\ ~(SelLo(e) = 0 /\ SelHi(e) > 0)
                 /\ (e.insertion_pt # 0 \/ IsNeg(e.text))
        period == key = "." /\ e.num_periods > 0 /\ e.sel_start = e.sel_end
    IN  /\ e.data_type # "text" /\ ~IsDigit(key)
        /\ key \notin {"-", "."} \/ minus \/ period

(* Is the character refused?  A '-' goes only where there is none at the   *)
(* beginning, a '.' only where there is none outside the selection.        *)
Refused(e, key) ==
    LET minus == key = "-" /\ ~(SelLo(e) = 0 /\ SelHi(e) > 0)
                 /\ (e.insertion_pt # 0 \/ IsNeg(e.text))
        period == key = "." /\ e.num_periods > 0
                  /\ ~Contains(SubSeq(e.text, SelLo(e) + 1, Min({SelHi(e), Len(e.text)})), ".")
    IN  CASE e.data_type = "int" -> ~IsDigit(key) /\ (key # "-" \/ minus)
          [] e.data_type = "float" -> ~IsDigit(key) /\ (key \notin {"-", "."} \/ minus \/ period)
          [] OTHER -> FALSE

Insert(e, key) ==
    LET f == IF e.sel_start # e.sel_end THEN clear_selection(e) ELSE e
        p == f.insertion_pt
    IN  Place([f EXCEPT !.text = SubSeq(@, 1, p) \o <<key>> \o SubSeq(@, p + 1, Len(@)),
                        !.substring_end = @ + 1], p + 1)

Edits == {"delete", "backspace", "delete_word", "erase_line", "kill_to_end"}

(* An edit by a key that is no character.                                  *)
Edit(e, what) ==
    LET p == e.insertion_pt
        one == e.sel_start = e.sel_end
        word == IF one THEN [e EXCEPT !.sel_start = p, !.sel_end = find_word_break(e.text, p, 1)]
                ELSE e
    IN  CASE what = "erase_line" -> Place([e EXCEPT !.text = <<>>], 0)
          [] what = "kill_to_end" ->
                [e EXCEPT !.text = SubSeq(@, 1, p), !.sel_start = p, !.sel_end = p]
          [] what = "delete_word" -> clear_selection(word)
          [] what \in {"delete", "backspace"} ->
                IF ~one THEN clear_selection(e)
                ELSE IF what = "delete" THEN [e EXCEPT !.text = Erase(@, p, p + 1)]
                ELSE IF p > 0 THEN [e EXCEPT !.text = Erase(@, p - 1, p), !.insertion_pt = p - 1]
                ELSE e

(* The end of the key handler: the text is shown and its periods counted.  *)
Done(e) ==
    LET f == update_substring_bounds(e) IN [f EXCEPT !.num_periods = Periods(f.text)]

special_handler(e, key, shift, ctrl) ==
    LET p == CASE key = "left" -> IF ctrl THEN find_word_break(e.text, e.insertion_pt, -1)
                                  ELSE e.insertion_pt - 1
               [] key = "right" -> IF ctrl THEN find_word_break(e.text, e.insertion_pt, 1)
                                   ELSE e.insertion_pt + 1
               [] key = "home" -> 0
               [] key = "end" -> Len(e.text)
               [] OTHER -> e.insertion_pt
        In(q) == Clamp(q, 0, Len(e.text))
    IN  update_substring_bounds(
            [e EXCEPT !.insertion_pt = In(p), !.sel_end = In(p),
                      !.sel_start = In(IF shift THEN @ ELSE p)])

(* What the text gives the control when the field is left.                 *)
Taken(e) ==
    LET off == [e EXCEPT !.active = FALSE, !.sel_start = -1, !.sel_end = -1, !.insertion_pt = -1]
        new == CASE e.data_type = "float" -> set_float_val(off, atof(e.text))
                 [] e.data_type = "int" -> edit_set_int_val(off, atoi(e.text))
                 [] OTHER -> set_text(off, e.text)
    IN  update_substring_bounds(new)

(* Where the mouse can put the insertion point: after a character that is  *)
(* shown, or at the beginning of the text.                                 *)
insertion_pts(e) ==
    {0} \cup (IF e.text = <<>> THEN {} ELSE (e.substring_start + 1)..(e.substring_end + 1))

HeldAt(e, p) ==
    IF p = e.substring_end + 1 /\ e.sel_end # Len(e.text)
    THEN special_handler(e, "right", TRUE, FALSE)
    ELSE IF p # e.sel_end THEN update_substring_bounds([e EXCEPT !.sel_end = p, !.insertion_pt = p])
    ELSE e

-------------------------------------------------------------------------------
(* Events.                                                                 *)

NewField(type, limits) ==
    LET zero == IF type = "text" THEN <<>> ELSE 0
        new == [data_type |-> type, has_limits |-> "none", text |-> <<>>, int_val |-> 0,
                float_val |-> 0, live |-> zero, last_live |-> zero, active |-> FALSE,
                insertion_pt |-> -1, last_insertion_pt |-> -1, sel_start |-> 0, sel_end |-> 0,
                substring_start |-> 0, substring_end |-> 2, num_periods |-> 0]
    IN  set_limits(SetLiveValue(new, zero), limits)

EditInit(Types, Limits) ==
    /\ \E type \in Types, limits \in Limits : ed = NewField(type, limits)
    /\ orig_text = <<>>
    /\ edit_called = FALSE
    /\ edit_down = FALSE
    /\ thrown = FALSE

Quietly == ~thrown /\ edit_called' = FALSE /\ UNCHANGED thrown

(* By Tab the whole text is selected and noted; by the mouse it is not.    *)
EditTab ==
    /\ ~ed.active /\ Quietly
    /\ ed' = [ed EXCEPT !.active = TRUE, !.sel_start = 0, !.sel_end = Len(ed.text),
                        !.insertion_pt = 0]
    /\ orig_text' = ed.text
    /\ UNCHANGED edit_down

EditMouseDown ==
    /\ ~edit_down /\ Quietly
    /\ \E p \in insertion_pts(ed) :
        ed' = update_substring_bounds(Place([ed EXCEPT !.active = TRUE], p))
    /\ edit_down' = TRUE
    /\ UNCHANGED orig_text

EditHeldDown ==
    /\ edit_down /\ Quietly
    /\ \E p \in insertion_pts(ed) : ed' = HeldAt(ed, p)
    /\ UNCHANGED <<orig_text, edit_down>>

EditMouseUp == edit_down /\ Quietly /\ edit_down' = FALSE /\ UNCHANGED <<ed, orig_text>>

(* A std::string throws when it is to change at a position that it has not *)
(* got: the insertion point is -1 once set_text has run on an active field.*)
At(p, new) ==
    IF p = -1 THEN thrown' = TRUE /\ UNCHANGED ed ELSE ed' = new /\ UNCHANGED thrown

EditType ==
    /\ ed.active /\ ~thrown /\ Len(ed.text) - (SelHi(ed) - SelLo(ed)) < MaxLen
    /\ \E key \in Keys[ed.data_type] :
        ~Refused(ed, key) /\ At(ed.insertion_pt, Done(Insert(ed, key)))
    /\ edit_called' = FALSE
    /\ UNCHANGED <<orig_text, edit_down>>

EditEdit ==
    /\ ed.active /\ ~thrown
    /\ \E what \in Edits :
        At(IF what \in {"backspace", "erase_line"} THEN 0 ELSE ed.insertion_pt,
           Done(Edit(ed, what)))
    /\ edit_called' = FALSE
    /\ UNCHANGED <<orig_text, edit_down>>

EditMove ==
    /\ ed.active /\ Quietly
    /\ \E key \in {"left", "right", "home", "end"}, shift, ctrl \in BOOLEAN :
        ed' = special_handler(ed, key, shift, ctrl)
    /\ UNCHANGED <<orig_text, edit_down>>

(* The callback is for a text other than the noted one.                    *)
EditLeave ==
    /\ ed.active /\ ~thrown
    /\ ed' = Taken(ed)
    /\ edit_called' = (orig_text # ed'.text)
    /\ edit_down' = FALSE
    /\ UNCHANGED <<orig_text, thrown>>

EditReturn ==
    /\ ed.active /\ ~thrown
    /\ LET e == Taken(ed)
       IN  /\ ed' = [e EXCEPT !.active = TRUE, !.sel_start = 0, !.sel_end = Len(e.text),
                              !.insertion_pt = 0]
           /\ orig_text' = e.text
           /\ edit_called' = (orig_text # e.text)
    /\ UNCHANGED <<edit_down, thrown>>

EditSetLive ==
    /\ Quietly
    /\ \E v \in LiveTexts[ed.data_type] : ed' = [ed EXCEPT !.live = v]
    /\ UNCHANGED <<orig_text, edit_down>>

EditSyncLive ==
    /\ ed.live # ed.last_live /\ ~(ed.active /\ edit_down) /\ Quietly
    /\ ed' = SetLiveValue(ed, ed.live)
    /\ UNCHANGED <<orig_text, edit_down>>

EditDraw ==
    /\ Quietly
    /\ ed' = update_substring_bounds(ed)
    /\ UNCHANGED <<orig_text, edit_down>>

EditNext ==
    \/ EditTab \/ EditMouseDown \/ EditHeldDown \/ EditMouseUp
    \/ EditType \/ EditEdit \/ EditMove \/ EditLeave \/ EditReturn
    \/ EditSetLive \/ EditSyncLive \/ EditDraw

EditSpec == EditInit(DataTypes, {"none", "clamp", "wrap"}) /\ [][EditNext]_editVars

-------------------------------------------------------------------------------
(* Properties.                                                             *)

(* The insertion point and the beginning of a selection in an active field *)
(* are places in its text, though BACKSPACE leaves sel_start behind, and   *)
(* the insertion point is in the part of the text that is shown            *)
(* (update_substring_bounds, glui_edittext.cpp:575), whatever is typed,    *)
(* cut and selected, until a sync_live takes the insertion point away.     *)
CursorInView ==
    ed.active /\ ed.insertion_pt # -1 =>
        /\ ed.insertion_pt \in 0..Len(ed.text)
        /\ ed.sel_start # ed.sel_end => SelLo(ed) \in 0..Len(ed.text)
        /\ ed.insertion_pt \in ed.substring_start..(ed.substring_end + 1)
        /\ ed.substring_end - ed.substring_start < BoxWidth

(* A float's text never has two periods (key_handler, glui_edittext.cpp:   *)
(* 351), and a field that is left shows the text of its value, which is    *)
(* what its live variable was last given (deactivate, 469).                *)
FieldShowsValue ==
    /\ ed.data_type = "float" => Periods(ed.text) <= 1
    /\ ~ed.active =>
        /\ ed.last_live = LiveValue(ed)
        /\ ed.text = CASE ed.data_type = "int" -> IntText(ed.int_val)
                       [] ed.data_type = "float" -> FloatText(ed.float_val)
                       [] OTHER -> ed.text
===============================================================================
