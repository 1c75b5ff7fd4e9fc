-------------------------------- MODULE TextBox --------------------------------
(***************************************************************************)
(* A GLUI_TextBox and its scrollbar: a text of several lines, wrapped at   *)
(* the box's width, the insertion point in it, and which lines are shown.  *)
(* A place in the box is counted from where the text begins; a newline and *)
(* the end of the text have no width, tabs are left out.                   *)
(***************************************************************************)
EXTENDS Scrollbar, Sequences, FiniteSets, FiniteSetsExt

CONSTANTS
    Letters,        \* the characters that are typed
    NewLine,
    LetterWidth, InnerWidth,    \* of a character and of a line, get_box_width()
    BoxHeight, BoxTop,          \* h and y_abs
    Columns, Rows,              \* where the mouse is pressed
    Texts,          \* that the program sets
    MaxText, MaxInputs  \* bounds: the length of a text, how many times keys and mouse are used

(* A line has room for more than a character, and the box for the height   *)
(* that is taken off before its lines are counted.                         *)
ASSUME BoxAssumption ==
    /\ LetterWidth \in Nat /\ InnerWidth \in Int /\ LetterWidth < InnerWidth
    /\ BoxHeight \in Int /\ BoxHeight >= 20 /\ BoxTop \in Int
    /\ Columns \subseteq Int /\ Rows \subseteq Int
    /\ Texts \subseteq Seq(Letters \cup {NewLine})

VARIABLES
    tb,             \* the fields of the text box
    tb_down,        \* is the mouse button down in it?
    tb_lost,        \* has text.insert or text.erase thrown?
    inputs          \* how many times keys and mouse have been used

boxVars == <<tb, tb_down, tb_lost, inputs>>

LineHeight == 15
LastChar(t) == Len(t) - 1
IsNewLine(t, i) == i >= 0 /\ i < Len(t) /\ t[i + 1] = NewLine
substring_width(t, start, end) ==
    LetterWidth * Cardinality({i \in start..end : i < Len(t) /\ ~IsNewLine(t, i)})
Greater(a, b) == IF a > b THEN a ELSE b
InText(t, i) == IF i > Len(t) THEN Len(t) ELSE IF i < 0 THEN 0 ELSE i
SelFrom(e) == IF e.sel_start < e.sel_end THEN e.sel_start ELSE e.sel_end
SelTo(e) == IF e.sel_start < e.sel_end THEN e.sel_end ELSE e.sel_start
PutAt(e, p) == [e EXCEPT !.insertion_pt = p, !.sel_start = p, !.sel_end = p]
Without(t, a, b) == SubSeq(t, 1, a) \o SubSeq(t, b + 1, Len(t))

-------------------------------------------------------------------------------
(* Lines, as they are found in three places, each by a loop.               *)

(* What n rounds make of first, one by one.                                *)
Rounds(next, first, n) ==
    LET after[k \in 0..n] == IF k = 0 THEN first ELSE next[after[k - 1]]
    IN  after

(* The end of the line that is drawn from start on.                        *)
LineEnd(t, start, end) ==
    LET fits == {i \in end..LastChar(t) :
                    \A j \in (end + 1)..i : substring_width(t, start, j) < InnerWidth /\ ~IsNewLine(t, j)}
        last == Max(fits \cup {end})
    IN  IF IsNewLine(t, last + 1) THEN last + 1 ELSE last

Drawn(t) ==
    LET next == [end \in 0..Len(t) |->
                    IF end >= LastChar(t) THEN end ELSE LineEnd(t, end + 1, end)]
        ends == Rounds(next, LineEnd(t, 0, 0), Len(t))
        last == Min({line \in 0..Len(t) : ends[line] >= LastChar(t)})
    IN  [end |-> ends[last], lines |-> last + 1]

(* The line of the insertion point and that line's beginning.              *)
CaretPlace(t, pt) ==
    LET Breaks(sol, eol) ==
            /\ IsNewLine(t, eol - 1) \/ substring_width(t, sol, eol) >= InnerWidth
            /\ IsNewLine(t, eol) \/ eol # pt \/ IsNewLine(t, eol - 1)
        next == [at \in [eol : Nat, sol : Nat, line : Nat] |->
                    IF Breaks(at.sol, at.eol + 1)
                    THEN [eol |-> at.eol + 1, sol |-> at.eol + 1, line |-> at.line + 1]
                    ELSE [at EXCEPT !.eol = @ + 1]]
    IN  Rounds(next, [eol |-> 0, sol |-> 0, line |-> 0], Len(t))[InText(t, pt)]

(* The line that a press y below the text's beginning is in.               *)
LineAfter(t, sol) ==
    LET last == LastChar(t)
        fits == {i \in sol..last :
                    \A j \in sol..(i - 1) : ~IsNewLine(t, j)
                                            /\ substring_width(t, sol, j + 1) <= InnerWidth}
        end == Max(fits)
    IN  IF IsNewLine(t, end) /\ end < last THEN end + 1 ELSE end

SeekLine(e, y) ==
    LET last == LastChar(e.text)
        most == Greater(e.start_line + y \div LineHeight, 0)    \* is not above y
        next == [sol \in 0..last |-> LineAfter(e.text, sol)]
        starts == Rounds(next, 0, most)
        found == Min({line \in 0..most :
                        (line - e.start_line + 1) * LineHeight >= y \/ starts[line] >= last})
    IN  [sol |-> starts[found], line |-> found]

(* The place in the line that begins at sol whose left half x is in, or    *)
(* before which x is.                                                      *)
PlaceAt(t, sol, x) ==
    LET Upto(i) == substring_width(t, sol, i)
        eol == Min({i \in sol..Len(t) :
                        i = Len(t) \/ Upto(i) >= x \/ (i # LastChar(t) /\ IsNewLine(t, i))})
        total == Upto(eol)
        before == IF eol = sol THEN 0 ELSE Upto(eol - 1)
        after == total >= x /\ x > before + (total - before) \div 2
    IN  IF after THEN eol + 1 ELSE eol

find_insertion_pt(e, x, y) ==
    LET t == e.text
        found == SeekLine(e, y)
    IN  IF t = <<>> THEN [box |-> e, pt |-> 0]
        ELSE [box |-> [e EXCEPT !.insert_x = x, !.insert_y = y + BoxTop + 5, !.curr_line = found.line],
              pt |-> PlaceAt(t, found.sol, x)]

-------------------------------------------------------------------------------
(* Drawing.                                                                *)

NoFollowing(start, curr, visible) == start    \* mistake: the lines shown do not follow the insertion point

(* Which line is shown first: the insertion point was last seen in curr.   *)
FirstShown(start, curr, visible) ==
    CASE start < curr - visible -> Greater(curr - visible, 0)
      [] start > curr -> curr
      [] OTHER -> start

draw(e) ==
    LET all == Drawn(e.text)
        visible == (BoxHeight - 20) \div LineHeight
    IN  [e EXCEPT !.substring_end = all.end, !.visible_lines = visible, !.num_lines = all.lines,
                  !.start_line = FirstShown(e.start_line, e.curr_line, visible)]

HasCaret(e) == e.sel_start = e.sel_end /\ e.insertion_pt >= 0

draw_insertion_pt(e) ==
    LET caret == CaretPlace(e.text, e.insertion_pt)
        x == substring_width(e.text, caret.sol, e.insertion_pt - 1)
        below == \/ e.insertion_pt = Len(e.text) /\ IsNewLine(e.text, Len(e.text) - 1)
                 \/ x > InnerWidth
        moved == [e EXCEPT !.curr_line = caret.line]
    IN  IF ~HasCaret(e) THEN e
        ELSE IF caret.line \notin e.start_line .. (e.start_line + e.visible_lines) THEN moved
        ELSE [moved EXCEPT !.insert_x = IF below THEN 3 ELSE x + 5,
                           !.insert_y = (caret.line - e.start_line + 2) * LineHeight]

(* The scrollbar has the first line as its value, the top one above.       *)
DrawBar(b, e) ==
    LET told_line == IF HasCaret(e) THEN bar_set_int_val(b, e.start_line) ELSE b
    IN  update_scroll_parameters(set_bar_limits(told_line, Greater(0, e.num_lines - e.visible_lines), 0))

scrollbar_callback(e, line) ==
    [e EXCEPT !.start_line = line,
              !.curr_line = IF line < @ - e.visible_lines THEN line + e.visible_lines
                            ELSE IF line > @ THEN line ELSE @]

-------------------------------------------------------------------------------
(* Keys.                                                                   *)

break_at(t, start, direction) ==
    LET first == IF direction = -1 THEN start - 2 ELSE start
        passed == IF first \notin 0..LastChar(t) THEN {}    \* the loop does not run
                  ELSE IF direction = -1 THEN 0..first ELSE first..LastChar(t)
        breaks == {i \in passed : IsNewLine(t, i)}
    IN  IF breaks = {} THEN (IF direction = 1 THEN Len(t) ELSE 0)
        ELSE (IF direction = 1 THEN Min(breaks) ELSE Max(breaks)) + 1

ClearSelection(e) == PutAt([e EXCEPT !.text = Without(@, SelFrom(e), SelTo(e))], SelFrom(e))

insert_key(e, key) ==
    LET f == IF e.sel_start # e.sel_end THEN ClearSelection(e) ELSE e
        p == f.insertion_pt
    IN  PutAt([f EXCEPT !.text = SubSeq(@, 1, p) \o <<key>> \o SubSeq(@, p + 1, Len(@)),
                        !.substring_end = @ + 1], p + 1)

Erasures == {"delete", "backspace", "delete_word", "erase_all", "kill"}

erase_key(e, key) ==
    LET p == e.insertion_pt
        none == e.sel_start = e.sel_end
        word == IF none THEN [e EXCEPT !.sel_start = p, !.sel_end = break_at(e.text, p, 1)] ELSE e
    IN  CASE key = "erase_all" -> PutAt([e EXCEPT !.text = <<>>], 0)
          [] key = "kill" -> [e EXCEPT !.text = SubSeq(@, 1, p), !.sel_start = p, !.sel_end = p]
          [] key = "delete_word" -> ClearSelection(word)
          [] key \in {"delete", "backspace"} ->
                IF ~none THEN ClearSelection(e)
                ELSE IF key = "delete" THEN [e EXCEPT !.text = Without(@, p, p + 1)]
                ELSE IF p > 0 THEN [e EXCEPT !.text = Without(@, p - 1, p), !.insertion_pt = p - 1]
                ELSE e

UnclampedMove(e, p, shift) ==    \* mistake: nothing holds the insertion point in the text
    [e EXCEPT !.insertion_pt = p, !.sel_end = p, !.sel_start = IF shift THEN @ ELSE p]

MoveTo(e, p, shift) ==
    LET t == e.text
    IN  [e EXCEPT !.insertion_pt = InText(t, p), !.sel_end = InText(t, p),
                  !.sel_start = InText(t, IF shift THEN @ ELSE p)]

(* The keys up and down are presses a line above and below where the       *)
(* insertion point was drawn or the mouse was, keygoal_x to the right.     *)
vertical_key(e, up, shift) ==
    LET y == e.insert_y + (IF up THEN -LineHeight ELSE LineHeight) - BoxTop - 5
        found == find_insertion_pt(e, e.keygoal_x, y)
    IN  IF e.insert_x = -1 \/ e.keygoal_x < -5 \/ y < -5 THEN e
        ELSE MoveTo(found.box, found.pt, shift)

horizontal_key(e, key, shift, ctrl) ==
    LET p == e.insertion_pt
    IN  MoveTo(e, CASE key = "left" -> IF ctrl THEN break_at(e.text, p, -1) ELSE p - 1
                    [] key = "right" -> IF ctrl THEN break_at(e.text, p, 1) ELSE p + 1
                    [] key = "home" -> 0
                    [] key = "end" -> Len(e.text), shift)

box_set_text(e, t) ==
    [e EXCEPT !.text = t, !.substring_end = LastChar(t), !.insertion_pt = -1, !.sel_start = 0,
              !.sel_end = 0, !.visible_lines = 0, !.start_line = 0, !.curr_line = 0, !.num_lines = 0]

(* update_substring_bounds, which is only called after set_text: the       *)
(* characters from the text's beginning that the width has room for.       *)
FirstBounds(e) ==
    [e EXCEPT !.substring_end =
        Max({i \in 0..Greater(LastChar(e.text), 0) : substring_width(e.text, 0, i) <= InnerWidth})]

-------------------------------------------------------------------------------
NewTextBox(goal, t) ==
    [text |-> t, insertion_pt |-> -1, sel_start |-> 0, sel_end |-> 0, substring_end |-> IF t = <<>> THEN 2 ELSE LastChar(t),
     start_line |-> 0, curr_line |-> 0, visible_lines |-> 0, num_lines |-> 0,
     insert_x |-> -1, insert_y |-> -1, keygoal_x |-> goal, active |-> FALSE]

(* keygoal_x has no value until the mouse is pressed.                      *)
BoxInit(Goals) ==
    /\ \E goal \in Goals, t \in Texts : tb = NewTextBox(goal, t)
    /\ tb_down = FALSE /\ tb_lost = FALSE /\ inputs = 0

BoxOnly == UNCHANGED <<tb_down, tb_lost, bar>>
Input == ~tb_lost /\ inputs < MaxInputs /\ inputs' = inputs + 1
Working == tb.active /\ Input

(* The text cannot be changed at -1, where set_text leaves the point.      *)
AtPoint(p, new) ==
    /\ tb_lost' = (p = -1)
    /\ tb' = IF p = -1 THEN tb ELSE new
    /\ UNCHANGED <<tb_down, bar>>

BoxTab ==
    /\ ~tb.active /\ Input
    /\ tb' = [tb EXCEPT !.active = TRUE, !.sel_start = 0, !.sel_end = Len(tb.text), !.insertion_pt = 0]
    /\ BoxOnly

BoxMouseDown ==
    /\ Input /\ ~tb_down /\ bar.state = "none"
    /\ \E x \in Columns, y \in Rows :
        LET found == find_insertion_pt(tb, x, y)
        IN  tb' = [PutAt(found.box, found.pt) EXCEPT !.active = TRUE, !.keygoal_x = found.box.insert_x]
    /\ tb_down' = TRUE
    /\ UNCHANGED <<tb_lost, bar>>

BoxHeldDown ==
    /\ tb_down /\ Input
    /\ \E x \in Columns, y \in Rows :
        LET found == find_insertion_pt(tb, x, y)
            e == [found.box EXCEPT !.keygoal_x = found.box.insert_x]
        IN  tb' = IF found.pt = e.substring_end + 1 /\ e.sel_end # Len(e.text)
                  THEN horizontal_key(e, "right", TRUE, FALSE)
                  ELSE IF found.pt # e.sel_end
                  THEN [e EXCEPT !.sel_end = found.pt, !.insertion_pt = found.pt]
                  ELSE e
    /\ BoxOnly

BoxMouseUp == tb_down /\ tb_down' = FALSE /\ UNCHANGED <<tb, tb_lost, inputs, bar>>

BoxType ==
    /\ Working /\ Len(tb.text) < MaxText
    /\ \E key \in Letters \cup {NewLine} : AtPoint(tb.insertion_pt, insert_key(tb, key))

BoxErase ==
    /\ Working
    /\ \E key \in Erasures :
        AtPoint(IF key \in {"backspace", "erase_all"} \/ tb.sel_start # tb.sel_end
                THEN 0 ELSE tb.insertion_pt, erase_key(tb, key))

BoxMove ==
    /\ Working
    /\ \/ \E key \in {"left", "right", "home", "end"}, shift, ctrl \in BOOLEAN :
            tb' = horizontal_key(tb, key, shift, ctrl)
       \/ \E up, shift \in BOOLEAN : tb' = vertical_key(tb, up, shift)
    /\ BoxOnly

BoxLeave ==
    /\ Working
    /\ tb' = [FirstBounds(box_set_text(tb, tb.text)) EXCEPT !.active = FALSE]
    /\ tb_down' = FALSE
    /\ UNCHANGED <<tb_lost, bar>>

(* set_text by the program, or by sync_live for the program's variable.    *)
BoxSetText ==
    /\ Input
    /\ \E t \in Texts : tb' = box_set_text(tb, t)
    /\ BoxOnly

BoxDraw ==
    /\ ~tb_lost
    /\ tb' = draw_insertion_pt(draw(tb))
    /\ bar' = Given(DrawBar(bar, draw(tb)))
    /\ UNCHANGED <<tb_down, tb_lost, inputs>>

(* The scrollbar's callback runs when it has told of a value.              *)
BoxScroll ==
    /\ Input /\ ~tb_down
    /\ BarDown \/ BarHeld
    /\ tb' = IF bar'.told # bar.told \/ (bar.given /\ ~bar'.given)
             THEN scrollbar_callback(tb, bar'.told) ELSE tb
    /\ UNCHANGED <<tb_down, tb_lost>>

BoxScrollEnd == BarUp /\ UNCHANGED boxVars

BoxNext ==
    \/ BoxTab \/ BoxMouseDown \/ BoxHeldDown \/ BoxMouseUp
    \/ BoxType \/ BoxErase \/ BoxMove \/ BoxLeave \/ BoxSetText
    \/ BoxDraw \/ BoxScroll \/ BoxScrollEnd

BoxSpec ==
    /\ BoxInit(Int) /\ bar = NewBar("int", FALSE, <<0, 0>>)
    /\ [][BoxNext]_<<boxVars, bar>>

-------------------------------------------------------------------------------
(* The insertion point and what is selected lie in the text, wherever the  *)
(* mouse is pressed and dragged and whatever the keys up and down make of  *)
(* lines that were wrapped (find_insertion_pt, glui_textbox.cpp:665),      *)
(* until set_text takes the insertion point away.                          *)
CaretInText ==
    tb.insertion_pt # -1 =>
        /\ tb.insertion_pt \in 0..Len(tb.text)
        /\ tb.sel_start # tb.sel_end => SelFrom(tb) \in 0..Len(tb.text)

(* draw chooses the lines to show by the line that the insertion point was *)
(* in when last drawn, and sets the scrollbar by limits that are as old    *)
(* (glui_textbox.cpp:453, 484): by the second time the insertion point is  *)
(* on view and the scrollbar is at the first line that is shown, wherever  *)
(* keys, drags and the scrollbar had brought them; or at its limit, as     *)
(* draw counts no line of its own after the newline that begins or ends a  *)
(* text (468) where the insertion point has one (800).                     *)
CaretShown ==
    LET once == draw_insertion_pt(draw(tb))
        twice == draw_insertion_pt(draw(once))
        shown == DrawBar(DrawBar(bar, draw(tb)), draw(once))
    IN  HasCaret(tb) =>
            /\ twice.curr_line \in twice.start_line .. (twice.start_line + twice.visible_lines)
            /\ shown.int_val = Min({twice.start_line, Greater(0, twice.num_lines - twice.visible_lines)})
===============================================================================
