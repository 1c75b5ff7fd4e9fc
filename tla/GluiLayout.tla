------------------------------ MODULE GluiLayout ------------------------------
(***************************************************************************)
(* The layout of a window of GLUI: controls are added to its panels and    *)
(* rollouts, columns part them, and every change packs all again.  A box   *)
(* is a control's place and size, with text_x_offset for an edit text.     *)
(* The main panel has no name and no outline, the other panels have both.  *)
(***************************************************************************)
EXTENDS Integers, FiniteSets, Sequences, SequencesExt, FiniteSetsExt

CONSTANTS
    NoControl,
    Main,           \* main_panel
    Parts,          \* the controls to be added
    PartKind,       \* of each control: "panel", "rollout", "column", "button", "field"
    Widths,         \* of names and of set_w, in pixels
    MaxParts, MaxChanges

VARIABLES
    childs,         \* the children of each control, those of a closed rollout too
    shut,           \* the rollouts that are closed
    align,
    name_width,
    box,
    changes         \* how many changes the program and the user have made

layoutVars == <<childs, shut, align, name_width, box, changes>>

XOff == 6           \* GLUI_XOFF
YOff == 6           \* GLUI_YOFF
ItemSpacing == 3    \* GLUI_ITEMSPACING
HeaderHeight == 20  \* rollout_height_pixels

Containers == {c \in Parts \cup {Main} : PartKind[c] \in {"panel", "rollout"}}
SetMax(a, b) == IF a > b THEN a ELSE b
Added == UNION {ToSet(childs[p]) : p \in Containers}

(* A tree: all the children of a control, and those that a closed rollout  *)
(* has not put away in its collapsed_node.                                 *)
Tree(kids, closed) ==
    [all |-> kids, linked |-> [c \in DOMAIN kids |-> IF c \in closed THEN <<>> ELSE kids[c]]]

y_off_top(c) ==
    CASE PartKind[c] = "rollout" -> HeaderHeight + 1
      [] PartKind[c] = "panel" /\ c # Main -> YOff + 8
      [] OTHER -> YOff

WidensAgain(b, c) == [b EXCEPT ![c].w = @ + name_width[c] + 16]    \* mistake: adds what it should compare

(* A control is made wide enough for its name, and most never shrink.      *)
update_size(b, c) ==
    LET name == name_width[c]
    IN  CASE PartKind[c] = "rollout" -> [b EXCEPT ![c].w = SetMax(@, name + 36)]
          [] PartKind[c] = "field" ->
                LET off == SetMax(b[c].off, name + 2)
                IN  [b EXCEPT ![c].off = off, ![c].w = SetMax(@, off + 50)]
          [] PartKind[c] = "column" -> b
          [] OTHER -> [b EXCEPT ![c].w = SetMax(@, name + 16)]

-------------------------------------------------------------------------------
(* pack gives a control and those inside it their sizes and their places,  *)
(* one below the other, and a column starts again at the top.              *)

RECURSIVE pack(_, _, _, _, _)

(* Of the packing of c: b is the boxes, y the place for the next child,    *)
(* left and max_w the beginning and the width of the column it is in.      *)
PackChild(s, child, t) ==
    LET pad == IF PartKind[child] = "panel" THEN ItemSpacing ELSE 0
        packed == pack(s.b, child, s.x, s.y + pad, t)
        bottom == s.y + 2 * pad + packed[child].h
        width == SetMax(s.max_w, packed[child].w)
    IN  [s EXCEPT
            !.b = IF s.column # NoControl /\ width > s.max_w
                  THEN [packed EXCEPT ![s.column].w = width + XOff] ELSE packed,
            !.y = bottom + ItemSpacing, !.max_w = width, !.max_y = SetMax(@, bottom)]

PackColumn(s, column, top) ==
    LET x == s.x + s.max_w + XOff
    IN  [s EXCEPT !.b[column] = [@ EXCEPT !.x = x, !.y = top, !.w = 2, !.h = s.y - top],
                  !.column = column, !.left = x, !.x = x + XOff, !.y = top, !.max_w = 0]

pack(b, c, x, y, t) ==
    LET placed == LET u == update_size(b, c) IN [u EXCEPT ![c].x = x, ![c].y = y]
        top == y + y_off_top(c)
        start == [b |-> placed, x |-> x + XOff, y |-> top, left |-> x + XOff,
                  max_w |-> 0, max_y |-> 0, column |-> NoControl]
        end == FoldLeft(LAMBDA s, child : IF PartKind[child] = "column" THEN PackColumn(s, child, top)
                                          ELSE PackChild(s, child, t), start, t.linked[c])
        sized == IF t.linked[c] # <<>>
                 THEN [end.b EXCEPT ![c].w = end.left + end.max_w + 2 * XOff - x,
                                    ![c].h = end.max_y + YOff - y]
                 ELSE IF PartKind[c] = "panel" THEN [placed EXCEPT ![c].w = 100, ![c].h = 13]
                 ELSE placed
        final == update_size(sized, c)
    IN  IF c \notin Containers THEN placed
        ELSE [d \in DOMAIN b |->
                IF Contains(t.linked[c], d) /\ PartKind[d] = "column"
                THEN [final[d] EXCEPT !.h = final[c].h - YOff - y_off_top(c)] ELSE final[d]]

-------------------------------------------------------------------------------
(* align moves the controls within their columns.                          *)

get_this_column_dims(b, c, kids) ==
    LET parent == CHOOSE p \in Containers : Contains(kids[p], c)
        sibs == kids[parent]
        at == CHOOSE i \in DOMAIN sibs : sibs[i] = c
        ColumnsIn(is) == {i \in is : PartKind[sibs[i]] = "column"}
        before == ColumnsIn(1..(at - 1))
        after == ColumnsIn((at + 1)..Len(sibs))
    IN  IF before # {} THEN LET n == sibs[Max(before)] IN [x |-> b[n].x, w |-> b[n].w]
        ELSE [x |-> b[parent].x,
              w |-> IF after # {} THEN b[sibs[Min(after)]].x - b[parent].x ELSE b[parent].w]

AlignedAt(b, c, how, t) ==
    LET col == get_this_column_dims(b, c, t.all)
    IN  CASE how = "left" -> col.x + XOff
          [] how = "right" -> col.x + col.w - XOff - b[c].w
          [] OTHER -> col.x + (col.w - b[c].w) \div 2

AlignAlone(b, c, how, t) ==    \* mistake: the columns inside are left behind
    IF c = Main \/ PartKind[c] = "column" THEN b
    ELSE [b EXCEPT ![c].x = AlignedAt(b, c, how, t)]

(* A container takes the columns inside it along.                          *)
align_control(b, c, how, t) ==
    LET x == AlignedAt(b, c, how, t)
        delta == x - b[c].x
    IN  IF c = Main \/ PartKind[c] = "column" THEN b
        ELSE [d \in DOMAIN b |->
                CASE d = c -> [b[d] EXCEPT !.x = x]
                  [] Contains(t.linked[c], d) /\ PartKind[d] = "column" -> [b[d] EXCEPT !.x = @ + delta]
                  [] OTHER -> b[d]]

RECURSIVE align_controls(_, _, _, _)
align_controls(b, c, how, t) ==
    FoldLeft(LAMBDA d, child : align_controls(d, child, how, t),
             align_control(b, c, how[c], t), t.linked[c])

pack_controls(b, how, t) == align_controls(pack(b, Main, 0, 0, t), Main, how, t)

-------------------------------------------------------------------------------
(* The control at a point: the first child that has it, and so on down.    *)

RECURSIVE FindIn(_, _, _, _, _)
FindIn(list, last, x, y, kids) ==
    LET Has(c) == /\ PartKind[c] # "column"
                  /\ box[c].x <= x /\ x <= box[c].x + box[c].w
                  /\ box[c].y <= y /\ y <= box[c].y + box[c].h
        hits == {i \in DOMAIN list : Has(list[i])}
        c == list[Min(hits)]
    IN  IF hits = {} THEN last
        ELSE IF kids[c] # <<>> THEN FindIn(kids[c], c, x, y, kids)
        ELSE IF PartKind[c] = "field" /\ x < box[c].x + box[c].off THEN last
        ELSE c

find_control(x, y) == FindIn(<<Main>>, NoControl, x, y, Tree(childs, shut).linked)

-------------------------------------------------------------------------------
NewBox(c) ==
    [x |-> 6, y |-> 6, off |-> IF PartKind[c] = "field" THEN 55 ELSE 0,
     w |-> CASE PartKind[c] = "panel" -> 300 [] PartKind[c] = "field" -> 130
             [] PartKind[c] = "column" -> 0 [] OTHER -> 100,
     h |-> CASE PartKind[c] = "column" -> 0 [] OTHER -> 20]

LayoutInit ==
    /\ childs = [c \in Parts \cup {Main} |-> <<>>]
    /\ shut \in SUBSET {c \in Parts : PartKind[c] = "rollout"}
    /\ align = [c \in Parts \cup {Main} |-> IF PartKind[c] \in {"field", "column"} THEN "left" ELSE "center"]
    /\ name_width = [c \in Parts \cup {Main} |-> 0]
    /\ box = [c \in Parts \cup {Main} |-> NewBox(c)]
    /\ changes = 0

Refresh(b, how, kids, closed) == box' = pack_controls(b, how, Tree(kids, closed))

(* Below a closed rollout too, where the control is kept out of sight.     *)
add_control ==
    /\ Cardinality(Added) < MaxParts
    /\ \E c \in Parts \ Added, p \in Containers \cap (Added \cup {Main}) :
        /\ childs' = [childs EXCEPT ![p] = Append(@, c)]
        /\ Refresh(update_size(box, c), align, childs', shut)
    /\ UNCHANGED <<shut, align, name_width, changes>>

Changing == changes < MaxChanges /\ changes' = changes + 1

open ==
    /\ Changing
    /\ \E c \in Added \cap shut : shut' = shut \ {c}
    /\ Refresh(box, align, childs, shut')
    /\ UNCHANGED <<childs, align, name_width>>

close ==
    /\ Changing
    /\ \E c \in {d \in Added : PartKind[d] = "rollout"} \ shut :
        /\ shut' = shut \cup {c}
        /\ Refresh([box EXCEPT ![c].h = HeaderHeight], align, childs, shut')
    /\ UNCHANGED <<childs, align, name_width>>

set_w ==
    /\ Changing
    /\ \E c \in Added, w \in Widths :
        Refresh(update_size([box EXCEPT ![c].w = w], c), align, childs, shut)
    /\ UNCHANGED <<childs, shut, align, name_width>>

(* Only a panel or a rollout packs again for its new name.                 *)
set_name ==
    /\ Changing
    /\ \E c \in Added, w \in Widths :
        /\ name_width' = [name_width EXCEPT ![c] = w]
        /\ IF c \in Containers
           THEN Refresh([box EXCEPT ![c].w = SetMax(@, w + IF PartKind[c] = "panel" THEN 16 ELSE 36)],
                        align, childs, shut)
           ELSE UNCHANGED box
    /\ UNCHANGED <<childs, shut, align>>

set_alignment ==
    /\ Changing
    /\ \E c \in Added, how \in {"left", "right", "center"} :
        /\ align' = [align EXCEPT ![c] = how]
        /\ box' = align_controls(box, c, align', Tree(childs, shut))
    /\ UNCHANGED <<childs, shut, name_width>>

(* The window was given a size: all is packed again.                       *)
reshape ==
    /\ Refresh(box, align, childs, shut)
    /\ UNCHANGED <<childs, shut, align, name_width, changes>>

LayoutNext ==
    \/ add_control \/ open \/ close \/ set_w \/ set_name \/ set_alignment \/ reshape

-------------------------------------------------------------------------------
Corners(c) ==
    {box[c].x + box[c].off, box[c].x + box[c].w} \X
    {box[c].y, box[c].y + IF PartKind[c] = "rollout" THEN HeaderHeight ELSE box[c].h}

IsShown(c) == \A p \in shut : c \notin ToSet(childs[p])

(* A column is there to part controls; alone it takes away all height.     *)
Parting == \A p \in Containers : childs[p] # <<>> => \E c \in ToSet(childs[p]) : PartKind[c] # "column"

(* Wherever a control is on view a click finds it, and no other: a control *)
(* without children all over, a rollout's header, though find_control      *)
(* never goes back from a container that has the point (glui.cpp:927), and *)
(* columns, wide names, alignments and rollouts that open and close have   *)
(* moved everything about (pack and align, glui_control.cpp:641, 374).     *)
FoundWhereShown ==
    LET InView(c) == IsShown(c) /\ \A p \in Containers : Contains(childs[p], c) => IsShown(p)
    IN  Parting => \A c \in Added :
            InView(c) /\ (PartKind[c] \in {"button", "field", "rollout"}) =>
                \A at \in Corners(c) : find_control(at[1], at[2]) = c

(* A window that is packed again stays as it is, all names being as wide   *)
(* as they were: reshape calls glutReshapeWindow, which has reshape called *)
(* again, until the size is the one asked for (glui.cpp:661), so a layout  *)
(* that went on moving, by columns shifted twice or rollouts that grow,    *)
(* would never come to rest.                                               *)
LayoutSettles ==
    [][Added # {} /\ Parting /\ (\A c \in Added : name_width[c] = 0) /\ reshape => UNCHANGED box]_layoutVars
===============================================================================
