-------------------------------- MODULE Listbox --------------------------------
(***************************************************************************)
(* A GLUI_Listbox: items to choose from with a menu of GLUT's, built when  *)
(* the mouse comes over the box, or with the arrow keys.  An item is the   *)
(* number the program gave it, which stands for its text too: no number is *)
(* in the list twice or comes back with another text.                      *)
(***************************************************************************)
EXTENDS Integers, Sequences, SequencesExt

CONSTANTS
    ItemIds,        \* the numbers of items
    NoItem          \* the text before there was an item, and no menu

ASSUME ListboxAssumption == ItemIds \subseteq Int /\ NoItem \notin ItemIds

VARIABLE lb         \* the fields of the control; told, the value at the last callback;
                    \* given: has the program changed it since?; lost: has a key
                    \* read an item that is not there?

Callback(b) == [b EXCEPT !.told = b.int_val, !.given = FALSE]
ByProgram(b) == [b EXCEPT !.given = @ \/ b.int_val # lb.int_val]

do_selection(b, id) ==
    IF id = b.int_val \/ id \notin ToSet(b.items) THEN b
    ELSE [b EXCEPT !.int_val = id, !.curr_text = id]

listbox_set_int_val(b, id) ==
    LET new == do_selection(b, id)
    IN  [new EXCEPT !.live = new.int_val, !.last_live = new.int_val]

AddsFirstAsItIs(b, id) ==    \* mistake: the first item may have the number 0, as int_val has
    LET new == [b EXCEPT !.items = Append(@, id)]
    IN  IF b.items # <<>> THEN new ELSE [do_selection(new, id) EXCEPT !.last_live = id]

(* The first item is selected, whatever number was before; the program's   *)
(* variable stays and is taken when it is synchronized next.               *)
listbox_add_item(b, id) ==
    LET new == [b EXCEPT !.items = Append(@, id)]
        other == [new EXCEPT !.int_val = id + 1]
    IN  IF b.items # <<>> THEN new ELSE [do_selection(other, id) EXCEPT !.last_live = id]

(* A menu of the items there are, with the mouse beside the name.          *)
mouse_over(b, over, on_name) ==
    [b EXCEPT !.over = over, !.menu = IF over /\ b.enabled /\ ~on_name THEN b.items ELSE NoItem]

listbox_callback(b, id) ==
    LET new == listbox_set_int_val(b, id)
    IN  IF new.int_val = b.int_val THEN new ELSE Callback(new)

NodeOf(b) == SelectInSeq(b.items, LAMBDA id : id = b.int_val)

listbox_key(b, key) ==
    LET node == NodeOf(b)
        new_node == CASE key = "down" -> node + 1
                      [] key = "up" -> node - 1
                      [] key = "home" -> 1
                      [] OTHER -> Len(b.items)
    IN  IF node = 0 /\ key \in {"up", "down"} THEN [b EXCEPT !.lost = TRUE]
        ELSE IF new_node \in DOMAIN b.items \ {node}
        THEN Callback(listbox_set_int_val(b, b.items[new_node]))
        ELSE b

-------------------------------------------------------------------------------
ListboxInit(lives) ==
    \E v \in lives :
        lb = [items |-> <<>>, int_val |-> 0, curr_text |-> NoItem, live |-> v, last_live |-> v,
              menu |-> NoItem, over |-> FALSE, enabled |-> TRUE,
              told |-> 0, given |-> TRUE, lost |-> FALSE]

AddItem == \E id \in ItemIds \ ToSet(lb.items) : lb' = ByProgram(listbox_add_item(lb, id))

DeleteItem == \E i \in DOMAIN lb.items : lb' = [lb EXCEPT !.items = RemoveAt(@, i)]

SetSelection == \E id \in ItemIds : lb' = ByProgram(listbox_set_int_val(lb, id))

EnableListbox == lb' = [lb EXCEPT !.enabled = ~@]

(* The box hears of the mouse when it comes over it and when it leaves it, *)
(* not in between.                                                         *)
PassiveMotion == \E on_name \in BOOLEAN : lb' = mouse_over(lb, ~lb.over, on_name)

Choose == lb.menu # NoItem /\ \E id \in ToSet(lb.menu) : lb' = listbox_callback(lb, id)

ListboxKey ==
    /\ lb.enabled
    /\ \E key \in {"up", "down", "home", "end"} : lb' = listbox_key(lb, key)

SetLiveNumber == \E v \in ItemIds : lb' = [lb EXCEPT !.live = v]

SyncListbox ==
    /\ lb.live # lb.last_live
    /\ lb' = ByProgram(listbox_set_int_val(lb, lb.live))

(* The program is gone when a key was pressed without a selected item.     *)
ListboxNext ==
    /\ ~lb.lost
    /\ \/ AddItem \/ DeleteItem \/ SetSelection \/ EnableListbox
       \/ PassiveMotion \/ Choose \/ ListboxKey \/ SetLiveNumber \/ SyncListbox

ListboxSpec == ListboxInit(ItemIds) /\ [][ListboxNext]_lb

-------------------------------------------------------------------------------
(* The text shown is that of the number selected as soon as there is an    *)
(* item, though do_selection leaves everything alone for the number that   *)
(* int_val has, before there is an item and after the item is deleted      *)
(* (glui_listbox.cpp:167, 343); the program's variable has that number     *)
(* unless it is about to be synchronized, one that is not in the list is   *)
(* overwritten; and the program was told of it or gave it itself, be it    *)
(* chosen from a menu of items since deleted.                              *)
ListboxAgrees ==
    /\ lb.items # <<>> => lb.curr_text # NoItem
    /\ lb.curr_text # NoItem =>
        /\ lb.curr_text = lb.int_val
        /\ lb.live = lb.last_live => lb.live = lb.int_val
    /\ lb.given \/ lb.told = lb.int_val
===============================================================================
