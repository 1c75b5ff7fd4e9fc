------------------------------ MODULE Glui_proofs ------------------------------
(***************************************************************************)
(* Proofs about four controls of GLUI, for any items, limits and sizes:    *)
(* what a listbox, a scrollbar and a file browser show, what the program's *)
(* variable has and what its callback was told of stay in step, and the    *)
(* insertion point of a text box stays in its text and comes on view.      *)
(***************************************************************************)
EXTENDS Listbox, FileBrowser, TextBox, FiniteSetTheorems, SequenceTheorems,
    WellFoundedInduction, TLAPS

-------------------------------------------------------------------------------
(* The listbox.  ListboxAgrees says of live and int_val only what holds    *)
(* while live waits for nothing, so that it does not survive a change of   *)
(* live by the program; last_live is what always has the number selected.  *)

Listboxes ==
    [items : Seq(ItemIds), int_val : Int, curr_text : ItemIds \cup {NoItem},
     live : Int, last_live : Int, menu : Seq(ItemIds) \cup {NoItem}, over : BOOLEAN,
     enabled : BOOLEAN, told : Int, given : BOOLEAN, lost : BOOLEAN]

Shows(b) ==
    /\ b.items # <<>> => b.curr_text # NoItem
    /\ b.curr_text # NoItem => b.curr_text = b.int_val /\ b.last_live = b.int_val

ListboxTold(b) == b.given \/ b.told = b.int_val

ListboxInv == lb \in Listboxes /\ Shows(lb) /\ ListboxTold(lb)

(* The number of an item, or one that no item has, is selected.            *)
LEMMA SetIntVal ==
    ASSUME NEW b \in Listboxes, Shows(b), NEW id \in Int
    PROVE  LET new == listbox_set_int_val(b, id)
           IN  /\ new \in Listboxes /\ Shows(new)
               /\ new.given = b.given /\ new.told = b.told
  <1>1. id \in ToSet(b.items) => id \in ItemIds /\ b.items # <<>>
    BY ElementOfSeq, LenProperties, EmptySeq DEF ToSet, Listboxes
  <1> DEFINE c == do_selection(b, id)
  <1>2. /\ c \in Listboxes /\ c.items = b.items /\ c.given = b.given /\ c.told = b.told
        /\ c.items # <<>> => c.curr_text # NoItem
        /\ c.curr_text # NoItem => c.curr_text = c.int_val
    BY <1>1, ListboxAssumption DEF do_selection, Listboxes, Shows
  <1> HIDE DEF c
  <1>3. listbox_set_int_val(b, id) = [c EXCEPT !.live = c.int_val, !.last_live = c.int_val]
    BY DEF listbox_set_int_val, c
  <1> QED BY <1>2, <1>3 DEF Listboxes, Shows

LEMMA AddItemShows ==
    ASSUME NEW b \in Listboxes, Shows(b), NEW id \in ItemIds
    PROVE  LET new == listbox_add_item(b, id)
           IN  /\ new \in Listboxes /\ Shows(new)
               /\ new.given = b.given /\ new.told = b.told
  <1> DEFINE added == Append(b.items, id)
             c == [b EXCEPT !.items = added]
             d == [c EXCEPT !.int_val = id + 1]
  <1>1. added \in Seq(ItemIds) /\ id \in Int /\ id + 1 \in Int
    BY AppendProperties, ListboxAssumption DEF Listboxes
  <1>2. id \in ToSet(added)
    <2>1. Len(b.items) + 1 \in DOMAIN added /\ added[Len(b.items) + 1] = id
      BY <1>1, AppendProperties, LenProperties DEF Listboxes
    <2> QED BY <2>1 DEF ToSet
  <1> HIDE DEF added
  <1>3. /\ c \in Listboxes /\ c.items = added /\ c.given = b.given /\ c.told = b.told
        /\ c.curr_text = b.curr_text /\ c.int_val = b.int_val /\ c.last_live = b.last_live
    BY <1>1 DEF Listboxes
  <1> HIDE DEF c
  <1>4. /\ d \in Listboxes /\ d.items = added /\ d.given = b.given /\ d.told = b.told
        /\ d.int_val = id + 1
    BY <1>1, <1>3 DEF Listboxes
  <1> HIDE DEF d
  <1>5. CASE b.items # <<>>
    <2>1. listbox_add_item(b, id) = c
      BY <1>5 DEF listbox_add_item, c, added
    <2> QED BY <1>3, <1>5, <2>1 DEF Shows
  <1>6. CASE b.items = <<>>
    <2> DEFINE e == [d EXCEPT !.int_val = id, !.curr_text = id]
    <2>1. e \in Listboxes /\ e.int_val = id /\ e.curr_text = id
          /\ e.given = b.given /\ e.told = b.told
      BY <1>1, <1>4 DEF Listboxes
    <2>2. do_selection(d, id) = e
      BY <1>1, <1>2, <1>4 DEF do_selection
    <2> HIDE DEF e
    <2>3. listbox_add_item(b, id) = [e EXCEPT !.last_live = id]
      BY <1>6, <2>2 DEF listbox_add_item, c, d, added
    <2> QED BY <1>1, <2>1, <2>3, ListboxAssumption DEF Listboxes, Shows
  <1> QED BY <1>5, <1>6

(* What follows a change by the program, and one by the user.              *)
LEMMA ToldAfter ==
    ASSUME ListboxInv, NEW c \in Listboxes, Shows(c), c.given = lb.given, c.told = lb.told
    PROVE  /\ ByProgram(c) \in Listboxes /\ Shows(ByProgram(c)) /\ ListboxTold(ByProgram(c))
           /\ Callback(c) \in Listboxes /\ Shows(Callback(c)) /\ ListboxTold(Callback(c))
           /\ c.int_val = lb.int_val => ListboxTold(c)
  BY DEF ListboxInv, Listboxes, Shows, ListboxTold, ByProgram, Callback

LEMMA ListboxInitInv == ListboxInit(ItemIds) => ListboxInv
  <1> SUFFICES ASSUME ListboxInit(ItemIds) PROVE ListboxInv
    OBVIOUS
  <1>1. <<>> \in Seq(ItemIds)
    BY EmptySeq
  <1> QED BY <1>1, ListboxAssumption
          DEF ListboxInit, ListboxInv, Listboxes, Shows, ListboxTold

LEMMA ListboxNextInv == ListboxInv /\ [ListboxNext]_lb => ListboxInv'
  <1> SUFFICES ASSUME ListboxInv, [ListboxNext]_lb PROVE ListboxInv'
    OBVIOUS
  <1> lb \in Listboxes /\ Shows(lb) /\ ListboxTold(lb) /\ ItemIds \subseteq Int
    BY ListboxAssumption DEF ListboxInv
  <1>a. \A id \in ToSet(lb.items) : id \in ItemIds
    BY ElementOfSeq, LenProperties DEF ToSet, Listboxes
  <1>1. CASE AddItem
    BY <1>1, AddItemShows, ToldAfter DEF AddItem, ListboxInv
  <1>2. CASE DeleteItem
    <2>1. PICK i \in DOMAIN lb.items : lb' = [lb EXCEPT !.items = RemoveAt(@, i)]
      BY <1>2 DEF DeleteItem
    <2> DEFINE left == RemoveAt(lb.items, i)
    <2>2. left \in Seq(ItemIds) /\ lb.items # <<>>
      BY SubSeqProperties, ConcatProperties, LenProperties, EmptySeq DEF Listboxes, RemoveAt
    <2> HIDE DEF left
    <2>3. lb' = [lb EXCEPT !.items = left]
      BY <2>1 DEF left
    <2> QED BY <2>2, <2>3 DEF ListboxInv, Listboxes, Shows, ListboxTold
  <1>3. CASE SetSelection
    BY <1>3, SetIntVal, ToldAfter DEF SetSelection, ListboxInv
  <1>4. CASE EnableListbox \/ PassiveMotion \/ SetLiveNumber
    BY <1>4 DEF EnableListbox, PassiveMotion, SetLiveNumber, mouse_over,
                ListboxInv, Listboxes, Shows, ListboxTold
  <1>5. CASE Choose
    <2>1. PICK id \in ToSet(lb.menu) : lb.menu # NoItem /\ lb' = listbox_callback(lb, id)
      BY <1>5 DEF Choose
    <2>2. id \in Int
      BY <2>1, ElementOfSeq, LenProperties DEF ToSet, Listboxes
    <2> QED BY <2>1, <2>2, SetIntVal, ToldAfter DEF listbox_callback, ListboxInv
  <1>6. CASE ListboxKey
    <2>1. PICK key : lb' = listbox_key(lb, key)
      BY <1>6 DEF ListboxKey
    <2>2. CASE lb' = [lb EXCEPT !.lost = TRUE] \/ lb' = lb
      BY <2>2 DEF ListboxInv, Listboxes, Shows, ListboxTold
    <2>3. ASSUME NEW i \in DOMAIN lb.items, lb' = Callback(listbox_set_int_val(lb, lb.items[i]))
          PROVE  ListboxInv'
      <3>1. lb.items[i] \in Int
        BY <1>a DEF ToSet
      <3> QED BY <2>3, <3>1, SetIntVal, ToldAfter DEF ListboxInv
    <2> QED BY <2>1, <2>2, <2>3 DEF listbox_key
  <1>7. CASE SyncListbox
    <2>1. lb.live \in Int
      BY DEF Listboxes
    <2> QED BY <1>7, <2>1, SetIntVal, ToldAfter DEF SyncListbox, ListboxInv
  <1>8. CASE UNCHANGED lb
    BY <1>8 DEF ListboxInv
  <1> QED BY <1>1, <1>2, <1>3, <1>4, <1>5, <1>6, <1>7, <1>8 DEF ListboxNext

(* Whatever is added, deleted, chosen and set, a listbox shows the item    *)
(* that is selected, the program's variable has its number or is about to  *)
(* be taken, and the program knows it (glui_listbox.cpp:141-213, 338).     *)
THEOREM ListboxShowsSelection == ListboxSpec => []ListboxAgrees
  <1>1. ListboxInv => ListboxAgrees
    BY DEF ListboxInv, Shows, ListboxTold, ListboxAgrees
  <1> QED BY ListboxInitInv, ListboxNextInv, <1>1, PTL DEF ListboxSpec

-------------------------------------------------------------------------------
(* The scrollbar.                                                          *)

(* Before the first callback the value is the program's.                   *)
Bars ==
    {b \in [data_type : {"int", "float"}, horizontal : BOOLEAN, min : Int, max : Int,
            int_val : Int, float_val : Int, last_int_val : Int, last_float_val : Int,
            live : Int, last_live : Int, first_callback : BOOLEAN,
            state : {"none", "up", "down", "scroll"}, box_length : Int, told : Int,
            given : BOOLEAN] :
        b.first_callback => b.given}

LastValue(b) == IF b.data_type = "int" THEN b.last_int_val ELSE b.last_float_val

(* The live variable and the two numbers agree, and the value is between   *)
(* the limits.                                                             *)
Fits(b) ==
    /\ b.last_live = BarValue(b)
    /\ b.int_val = Quotient(b.float_val, 2)
    /\ BarValue(b) \in Unit(b) * Lower(b) .. Unit(b) * Upper(b)

Excused(b) == b.first_callback \/ b.given

(* What ScrollTells says, and that while an arrow is held the value that   *)
(* do_callbacks compares with is the one reported: the clicks that follow  *)
(* the first change only float_val and last_float_val themselves, so that  *)
(* an integer's value that had been overwritten would go unreported.       *)
BarTold(b) ==
    \/ Excused(b)
    \/ b.told = BarValue(b) /\ (b.state \in {"up", "down"} => LastValue(b) = BarValue(b))

BarInv == bar \in Bars /\ Fits(bar) /\ BarTold(bar)

(* What the handlers leave alone, and what the setters do.                 *)
SameKind(b, c) == c.data_type = b.data_type /\ c.state = b.state

SameBar(b, c) ==
    /\ SameKind(b, c)
    /\ c.first_callback = b.first_callback /\ c.given = b.given /\ c.told = b.told

SameLimits(b, c) == c.min = b.min /\ c.max = b.max

-------------------------------------------------------------------------------
(* Division that rounds toward zero.                                       *)

LEMMA QuotientIsInt ==
    ASSUME NEW n \in Int, NEW d \in Int, d # 0
    PROVE  Quotient(n, d) \in Int
  <1> DEFINE a == IF n < 0 THEN -n ELSE n
             c == IF d < 0 THEN -d ELSE d
  <1>1. a \in Int /\ c \in Int /\ c > 0
    OBVIOUS
  <1> HIDE DEF a, c
  <1>2. a \div c \in Int
    BY <1>1
  <1>3. -(a \div c) \in Int
    BY <1>2
  <1> QED BY <1>2, <1>3 DEF Quotient, a, c

LEMMA Halves ==
    ASSUME NEW v \in Int
    PROVE  /\ Quotient(v, 2) \in Int
           /\ Quotient(2 * v, 2) = v
           /\ \A lo, hi \in Int : v \in 2 * lo .. 2 * hi => Quotient(v, 2) \in lo..hi
  BY DEF Quotient

-------------------------------------------------------------------------------
(* The setters.                                                            *)

LEMMA LimitsAreInts ==
    ASSUME NEW b \in Bars
    PROVE  /\ Lower(b) \in Int /\ Upper(b) \in Int /\ Lower(b) <= Upper(b)
           /\ BarValue(b) \in Int /\ LastValue(b) \in Int
  BY DEF Bars, Lower, Upper, BarValue, LastValue

LEMMA WithinIsWithin ==
    ASSUME NEW v \in Int, NEW lo \in Int, NEW hi \in Int, lo <= hi
    PROVE  Within(v, lo, hi) \in lo..hi /\ Within(v, lo, hi) \in Int
  BY DEF Within

LEMMA SetFloat ==
    ASSUME NEW b \in Bars, NEW v \in Int
    PROVE  LET c == bar_set_float_val(b, v)
           IN  /\ c \in Bars /\ Fits(c) /\ SameBar(b, c) /\ SameLimits(b, c)
               /\ c.float_val = Within(v, 2 * Lower(b), 2 * Upper(b))
               /\ b.data_type = "int" => LastValue(c) = LastValue(b)
               /\ b.data_type = "float" => LastValue(c) = BarValue(b)
  <1> DEFINE new == Within(v, 2 * Lower(b), 2 * Upper(b))
             half == Quotient(new, 2)
             c == [b EXCEPT !.last_float_val = b.float_val, !.float_val = new, !.int_val = half]
             value == BarValue(c)
  <1>1. new \in 2 * Lower(b) .. 2 * Upper(b) /\ new \in Int
    <2>1. 2 * Lower(b) \in Int /\ 2 * Upper(b) \in Int /\ 2 * Lower(b) <= 2 * Upper(b)
      BY LimitsAreInts
    <2> QED BY <2>1, WithinIsWithin
  <1> HIDE DEF new
  <1>2. half \in Lower(b) .. Upper(b) /\ half \in Int
    BY <1>1, Halves, LimitsAreInts
  <1> HIDE DEF half
  <1>3. /\ c \in Bars /\ SameBar(b, c) /\ c.int_val = half /\ c.float_val = new
        /\ c.min = b.min /\ c.max = b.max
        /\ c.last_int_val = b.last_int_val /\ c.last_float_val = b.float_val
    BY <1>1, <1>2 DEF Bars, SameBar, SameKind
  <1> HIDE DEF c
  <1>4. value \in Int
    BY <1>3, LimitsAreInts
  <1>v. value = IF b.data_type = "int" THEN half ELSE new
    BY <1>3 DEF BarValue, SameBar, SameKind
  <1> HIDE DEF value
  <1>5. bar_set_float_val(b, v) = [c EXCEPT !.live = value, !.last_live = value]
    BY DEF bar_set_float_val, OutputBar, c, new, half, value
  <1>6. half = Quotient(new, 2)
    BY DEF half
  <1> DEFINE d == [c EXCEPT !.live = value, !.last_live = value]
  <1>7. /\ d \in Bars /\ SameBar(c, d) /\ d.int_val = half /\ d.float_val = new
        /\ d.min = b.min /\ d.max = b.max /\ d.last_live = value
        /\ d.last_int_val = b.last_int_val /\ d.last_float_val = b.float_val
    BY <1>3, <1>4 DEF Bars, SameBar, SameKind
  <1> HIDE DEF d
  <1>8. SameBar(b, d) /\ Lower(d) = Lower(b) /\ Upper(d) = Upper(b)
    BY <1>3, <1>7 DEF SameBar, SameKind, Lower, Upper
  <1>9. Fits(d)
    <2>1. Lower(b) \in Int /\ Upper(b) \in Int /\ b.data_type \in {"int", "float"}
      BY LimitsAreInts DEF Bars
    <2>2. d.data_type = b.data_type
      BY <1>8 DEF SameBar, SameKind
    <2>3. d.last_live = BarValue(d) /\ d.int_val = Quotient(d.float_val, 2)
      BY <1>v, <1>6, <1>7, <2>2 DEF BarValue
    <2>4. BarValue(d) \in Unit(d) * Lower(d) .. Unit(d) * Upper(d)
      BY <1>1, <1>2, <1>7, <1>8, <2>1, <2>2 DEF BarValue, Unit
    <2> QED BY <2>3, <2>4 DEF Fits
  <1>10. /\ b.data_type = "int" => LastValue(d) = LastValue(b)
         /\ b.data_type = "float" => LastValue(d) = BarValue(b)
    BY <1>7, <1>8 DEF SameBar, SameKind, LastValue, BarValue
  <1>11. SameLimits(b, d)
    BY <1>7 DEF SameLimits
  <1> QED BY <1>5, <1>7, <1>8, <1>9, <1>10, <1>11 DEF d, new

LEMMA SetInt ==
    ASSUME NEW b \in Bars, b.data_type = "int", NEW n \in Int
    PROVE  LET c == bar_set_int_val(b, n)
           IN  /\ c \in Bars /\ Fits(c) /\ SameBar(b, c) /\ SameLimits(b, c)
               /\ LastValue(c) = BarValue(b)
               /\ c.int_val = Within(n, Lower(b), Upper(b))
  <1> DEFINE new == Within(n, Lower(b), Upper(b))
             c == [b EXCEPT !.last_int_val = b.int_val, !.int_val = new, !.float_val = 2 * new]
             value == BarValue(c)
  <1>1. new \in Lower(b) .. Upper(b) /\ new \in Int /\ 2 * new \in Int
    <2>1. Lower(b) \in Int /\ Upper(b) \in Int /\ Lower(b) <= Upper(b)
      BY LimitsAreInts
    <2>2. new \in Lower(b) .. Upper(b) /\ new \in Int
      BY <2>1, WithinIsWithin
    <2> QED BY <2>2
  <1> HIDE DEF new
  <1>2. /\ c \in Bars /\ SameBar(b, c) /\ c.int_val = new /\ c.float_val = 2 * new
        /\ c.min = b.min /\ c.max = b.max /\ c.last_int_val = b.int_val
    BY <1>1 DEF Bars, SameBar, SameKind
  <1> HIDE DEF c
  <1>3. value \in Int
    BY <1>2, LimitsAreInts
  <1>v. value = new
    BY <1>2 DEF BarValue, SameBar, SameKind
  <1> HIDE DEF value
  <1>4. bar_set_int_val(b, n) = [c EXCEPT !.live = value, !.last_live = value]
    BY DEF bar_set_int_val, OutputBar, c, new, value
  <1>5. new = Quotient(2 * new, 2)
    BY <1>1, Halves
  <1> DEFINE d == [c EXCEPT !.live = value, !.last_live = value]
  <1>6. /\ d \in Bars /\ SameBar(c, d) /\ d.int_val = new /\ d.float_val = 2 * new
        /\ d.min = b.min /\ d.max = b.max /\ d.last_int_val = b.int_val /\ d.last_live = value
    BY <1>2, <1>3 DEF Bars, SameBar, SameKind
  <1> HIDE DEF d
  <1>7. SameBar(b, d) /\ Lower(d) = Lower(b) /\ Upper(d) = Upper(b)
    BY <1>2, <1>6 DEF SameBar, SameKind, Lower, Upper
  <1>8. Fits(d)
    <2>1. Lower(b) \in Int /\ Upper(b) \in Int /\ d.data_type = "int"
      BY <1>7, LimitsAreInts DEF SameBar, SameKind
    <2>2. d.last_live = BarValue(d) /\ d.int_val = Quotient(d.float_val, 2)
      BY <1>v, <1>5, <1>6, <2>1 DEF BarValue
    <2>3. BarValue(d) \in Unit(d) * Lower(d) .. Unit(d) * Upper(d)
      BY <1>1, <1>6, <1>7, <2>1 DEF BarValue, Unit
    <2> QED BY <2>2, <2>3 DEF Fits
  <1>9. LastValue(d) = BarValue(b)
    BY <1>6, <1>7 DEF SameBar, SameKind, LastValue, BarValue
  <1>10. SameLimits(b, d)
    BY <1>6 DEF SameLimits
  <1> QED BY <1>4, <1>6, <1>7, <1>8, <1>9, <1>10 DEF d, new

LEMMA SetEither ==
    ASSUME NEW b \in Bars, NEW v \in Int
    PROVE  LET c == SetBar(b, v)
           IN  /\ c \in Bars /\ Fits(c) /\ SameBar(b, c) /\ SameLimits(b, c)
               /\ LastValue(c) = BarValue(b)
  <1>1. CASE b.data_type = "int"
    BY <1>1, SetInt DEF SetBar
  <1>2. CASE b.data_type = "float"
    BY <1>2, SetFloat DEF SetBar
  <1> QED BY <1>1, <1>2 DEF Bars

LEMMA SetLimits ==
    ASSUME NEW b \in Bars, b.int_val = Quotient(b.float_val, 2), b.last_live = BarValue(b), NEW lo \in Int, NEW hi \in Int
    PROVE  LET c == set_bar_limits(b, lo, hi)
           IN  /\ c \in Bars /\ Fits(c) /\ SameBar(b, c) /\ c.min = lo /\ c.max = hi
               /\ LastValue(c) \in {BarValue(b), LastValue(b)}
  <1> DEFINE new == [b EXCEPT !.min = lo, !.max = hi]
             low == Unit(b) * Lower(new)
             high == Unit(b) * Upper(new)
  <1>1. /\ new \in Bars /\ SameBar(b, new) /\ BarValue(new) = BarValue(b)
        /\ LastValue(new) = LastValue(b) /\ new.int_val = Quotient(new.float_val, 2)
        /\ Unit(new) = Unit(b) /\ new.min = lo /\ new.max = hi /\ new.last_live = BarValue(new)
    BY DEF Bars, Fits, SameBar, SameKind, BarValue, LastValue, Unit
  <1> HIDE DEF new
  <1>2. low \in Int /\ high \in Int /\ low <= high /\ BarValue(b) \in Int
    BY <1>1, LimitsAreInts DEF Unit
  <1>3. set_bar_limits(b, lo, hi) =
            IF BarValue(b) \in low..high THEN new ELSE SetBar(new, Within(BarValue(b), low, high))
    BY DEF set_bar_limits, new
  <1>4. CASE BarValue(b) \in low..high
    BY <1>1, <1>3, <1>4 DEF Fits
  <1>5. CASE BarValue(b) \notin low..high
    <2>1. Within(BarValue(b), low, high) \in Int
      BY <1>2, WithinIsWithin
    <2> DEFINE v == Within(BarValue(b), low, high)
               d == SetBar(new, v)
    <2> HIDE DEF v
    <2>2. /\ d \in Bars /\ Fits(d) /\ SameBar(new, d) /\ SameLimits(new, d)
          /\ LastValue(d) = BarValue(b)
          /\ v = Within(BarValue(b), low, high)
      BY <1>1, <2>1, SetEither DEF v
    <2> HIDE DEF d
    <2>3. set_bar_limits(b, lo, hi) = d
      BY <1>3, <1>5, <2>2 DEF d
    <2> QED BY <1>1, <2>2, <2>3 DEF SameBar, SameKind, SameLimits
  <1> QED BY <1>4, <1>5

LEMMA UpdateParameters ==
    ASSUME NEW b \in Bars
    PROVE  LET c == update_scroll_parameters(b)
           IN  /\ c \in Bars /\ SameBar(b, c) /\ SameLimits(b, c)
               /\ BarValue(c) = BarValue(b) /\ LastValue(c) = LastValue(b)
               /\ Fits(b) => Fits(c)
  <1> DEFINE l == IF b.min = b.max THEN track_length ELSE StdBox
             c == [b EXCEPT !.box_length = l]
  <1>1. l \in Int
    BY ScrollAssumption DEF track_length, StdBox, Arrow
  <1> HIDE DEF l
  <1>2. /\ c \in Bars /\ SameBar(b, c) /\ SameLimits(b, c)
        /\ BarValue(c) = BarValue(b) /\ LastValue(c) = LastValue(b)
    BY <1>1 DEF Bars, SameBar, SameKind, SameLimits, BarValue, LastValue
  <1>3. Fits(b) => Fits(c)
    BY <1>1 DEF Bars, Fits, BarValue, Unit, Lower, Upper
  <1> QED BY <1>2, <1>3 DEF update_scroll_parameters, l

-------------------------------------------------------------------------------
(* The callback.                                                           *)

(* What BarTold says while an arrow is held.                               *)
Reported(b) == Excused(b) \/ (b.told = BarValue(b) /\ LastValue(b) = BarValue(b))

(* The callback is left out only for the value last reported, provided the *)
(* value noted is that one, or the bar's value is it anyhow.               *)
LEMMA CallbackTells ==
    ASSUME NEW b \in Bars, Fits(b), Excused(b) \/ b.told \in {LastValue(b), BarValue(b)}
    PROVE  LET c == bar_callbacks(b)
           IN  c \in Bars /\ Fits(c) /\ SameKind(b, c) /\ Reported(c)
  <1> DEFINE value == BarValue(b)
             d == [b EXCEPT !.last_int_val = b.int_val, !.last_float_val = b.float_val,
                            !.first_callback = FALSE, !.told = value, !.given = FALSE]
  <1>1. value \in Int
    BY LimitsAreInts
  <1>2. bar_callbacks(b) = IF BarValue(b) = LastValue(b) /\ ~b.first_callback THEN b ELSE d
    BY DEF bar_callbacks, LastValue
  <1>3. CASE BarValue(b) = LastValue(b) /\ ~b.first_callback
    BY <1>2, <1>3 DEF Reported, Excused, SameKind
  <1>4. CASE ~(BarValue(b) = LastValue(b) /\ ~b.first_callback)
    <2>1. value = BarValue(b)
      OBVIOUS
    <2> HIDE DEF value
    <2>2. /\ d \in Bars /\ d.state = b.state /\ d.data_type = b.data_type /\ d.told = value
          /\ d.int_val = b.int_val /\ d.float_val = b.float_val
          /\ d.last_int_val = b.int_val /\ d.last_float_val = b.float_val
          /\ d.min = b.min /\ d.max = b.max /\ d.last_live = b.last_live
      BY <1>1 DEF Bars
    <2> HIDE DEF d
    <2>3. BarValue(d) = BarValue(b) /\ LastValue(d) = BarValue(b) /\ Unit(d) = Unit(b)
          /\ Lower(d) = Lower(b) /\ Upper(d) = Upper(b)
      BY <2>2 DEF BarValue, LastValue, Unit, Lower, Upper
    <2>4. Fits(d) /\ Reported(d)
      BY <2>1, <2>2, <2>3 DEF Fits, Reported
    <2> QED BY <1>2, <1>4, <2>2, <2>4 DEF SameKind
  <1> QED BY <1>3, <1>4

LEMMA WayIsStep == \A b, arrow : Way(b, arrow) \in {-1, 0, 1}
  BY DEF Way

(* A click is a step, and what it has moved is reported.                   *)
LEMMA ClickTells ==
    ASSUME NEW b \in Bars, Reported(b), NEW c \in bar_click(b)
    PROVE  c \in Bars /\ Fits(c) /\ SameKind(b, c) /\ Reported(c)
  <1>1. PICK incr \in 1..2 : c = bar_callbacks(bar_set_float_val(b, b.float_val + Way(b, b.state) * incr))
    BY DEF bar_click
  <1> DEFINE w == Way(b, b.state)
             v == b.float_val + w * incr
             d == bar_set_float_val(b, v)
  <1>2. v \in Int
    <2>1. b.float_val \in Int
      BY DEF Bars
    <2>2. w \in {-1, 0, 1}
      BY WayIsStep
    <2> HIDE DEF w
    <2> QED BY <2>1, <2>2
  <1>3. c = bar_callbacks(d)
    BY <1>1
  <1> HIDE DEF v
  <1>4. d \in Bars /\ Fits(d) /\ SameBar(b, d) /\ LastValue(d) \in {LastValue(b), BarValue(b)}
    <2>1. /\ d \in Bars /\ Fits(d) /\ SameBar(b, d)
          /\ b.data_type = "int" => LastValue(d) = LastValue(b)
          /\ b.data_type = "float" => LastValue(d) = BarValue(b)
      BY <1>2, SetFloat
    <2>2. b.data_type \in {"int", "float"}
      BY DEF Bars
    <2> QED BY <2>1, <2>2
  <1> HIDE DEF d
  <1>5. Excused(d) \/ d.told = LastValue(d)
    BY <1>4 DEF SameBar, SameKind, Reported, Excused
  <1>6. SameKind(b, d)
    BY <1>4 DEF SameBar
  <1> QED BY <1>3, <1>4, <1>5, <1>6, CallbackTells DEF SameKind

(* An integer at the limit stays what it is, whatever rest its float_val   *)
(* had.                                                                    *)
LEMMA StaysAtLimit ==
    ASSUME NEW lo \in Int, NEW hi \in Int, NEW f \in Int, Quotient(f, 2) \in lo..hi,
           NEW w \in {-1, 0, 1}, Quotient(f, 2) + w \notin lo..hi, NEW incr \in 1..2
    PROVE  Quotient(Within(f + w * incr, 2 * lo, 2 * hi), 2) = Quotient(f, 2)
  <1> DEFINE n == Quotient(f, 2)
  <1>1. n \in Int /\ 2 * n - 1 <= f /\ f <= 2 * n + 1 /\ (n > 0 => f >= 2 * n) /\ (n < 0 => f <= 2 * n)
    BY DEF Quotient
  <1>2. \/ w = 1 /\ n = hi
        \/ w = -1 /\ n = lo
    BY <1>1
  <1> HIDE DEF n
  <1>3. ASSUME w = 1, n = hi PROVE Quotient(Within(f + incr, 2 * lo, 2 * hi), 2) = n
    <2>1. Within(f + incr, 2 * lo, 2 * hi) = 2 * n
      BY <1>1, <1>3 DEF Within, n
    <2> QED BY <1>1, <2>1, Halves
  <1>4. ASSUME w = -1, n = lo PROVE Quotient(Within(f - incr, 2 * lo, 2 * hi), 2) = n
    <2>1. Within(f - incr, 2 * lo, 2 * hi) = 2 * n
      BY <1>1, <1>4 DEF Within, n
    <2> QED BY <1>1, <2>1, Halves
  <1>5. f + 1 * incr = f + incr /\ f + (-1) * incr = f - incr
    OBVIOUS
  <1> QED BY <1>2, <1>3, <1>4, <1>5 DEF n

(* The first click on an arrow, after which all is reported: an integer    *)
(* has gone on by one before, or it is at its limit and stays there.       *)
LEMMA FirstClickTells ==
    ASSUME NEW b \in Bars, Fits(b), Excused(b) \/ b.told = BarValue(b),
           NEW c \in bar_click(Stepping(b))
    PROVE  c \in Bars /\ Fits(c) /\ SameKind(b, c) /\ Reported(c)
  <1> DEFINE w == Way(b, b.state)
             new == b.int_val + w
  <1>w. w \in {-1, 0, 1} /\ new \in Int /\ b.float_val \in Int
    <2>1. w \in {-1, 0, 1} /\ b.int_val \in Int /\ b.float_val \in Int
      BY WayIsStep DEF Bars
    <2> HIDE DEF w
    <2> QED BY <2>1
  <1>1. CASE b.data_type = "int" /\ new \in Lower(b) .. Upper(b)
    <2> DEFINE d == bar_set_int_val(b, new)
               e == bar_callbacks(d)
    <2>1. Stepping(b) = e
      BY <1>1 DEF Stepping
    <2> HIDE DEF new
    <2>2. d \in Bars /\ Fits(d) /\ SameBar(b, d) /\ LastValue(d) = BarValue(b)
      BY <1>1, <1>w, SetInt
    <2> HIDE DEF d
    <2>3. Excused(d) \/ d.told = LastValue(d)
      BY <2>2 DEF SameBar, SameKind, Excused
    <2>4. e \in Bars /\ SameKind(b, e) /\ Reported(e)
      BY <2>2, <2>3, CallbackTells DEF SameBar, SameKind
    <2> HIDE DEF e
    <2> QED BY <2>1, <2>4, ClickTells DEF SameKind
  <1>2. CASE ~(b.data_type = "int" /\ new \in Lower(b) .. Upper(b))
    <2>1. Stepping(b) = b
      BY <1>2 DEF Stepping
    <2>2. PICK incr \in 1..2 : c = bar_callbacks(bar_set_float_val(b, b.float_val + w * incr))
      BY <2>1 DEF bar_click
    <2> DEFINE v == b.float_val + w * incr
               d == bar_set_float_val(b, v)
    <2>3. v \in Int
      <3> HIDE DEF w
      <3> QED BY <1>w
    <2>4. c = bar_callbacks(d) /\ v = b.float_val + w * incr
      BY <2>2
    <2> HIDE DEF v
    <2>5. /\ d \in Bars /\ Fits(d) /\ SameBar(b, d)
          /\ d.float_val = Within(v, 2 * Lower(b), 2 * Upper(b))
          /\ b.data_type = "float" => LastValue(d) = BarValue(b)
      BY <2>3, SetFloat
    <2> HIDE DEF d
    <2>6. Excused(d) \/ d.told \in {LastValue(d), BarValue(d)}
      <3>1. CASE b.data_type = "float"
        BY <2>5, <3>1 DEF SameBar, SameKind, Excused
      <3>2. CASE b.data_type = "int"
        <4>1. /\ Quotient(b.float_val, 2) = b.int_val /\ b.int_val \in Lower(b) .. Upper(b)
              /\ b.int_val + w \notin Lower(b) .. Upper(b)
          BY <1>2, <3>2, LimitsAreInts DEF Fits, BarValue, Unit
        <4>2. Lower(b) \in Int /\ Upper(b) \in Int
          BY LimitsAreInts
        <4> HIDE DEF w
        <4>3. /\ Quotient(b.float_val, 2) \in Lower(b) .. Upper(b)
              /\ Quotient(b.float_val, 2) + w \notin Lower(b) .. Upper(b)
          BY <4>1
        <4>4. Quotient(Within(b.float_val + w * incr, 2 * Lower(b), 2 * Upper(b)), 2)
                  = Quotient(b.float_val, 2)
          BY <1>w, <4>2, <4>3, StaysAtLimit
        <4>5. Quotient(d.float_val, 2) = b.int_val
          BY <2>4, <2>5, <4>1, <4>4
        <4>6. BarValue(d) = BarValue(b)
          BY <2>5, <3>2, <4>5 DEF Fits, BarValue, SameBar, SameKind
        <4> QED BY <2>5, <4>6 DEF SameBar, SameKind, Excused
      <3> QED BY <3>1, <3>2 DEF Bars
    <2>7. SameKind(b, d)
      BY <2>5 DEF SameBar
    <2> QED BY <2>4, <2>5, <2>6, <2>7, CallbackTells DEF SameKind
  <1> QED BY <1>1, <1>2

LEMMA ReportedIsTold == \A b : Reported(b) => BarTold(b)
  BY DEF Reported, BarTold

(* A press, with the mouse or with a key that then lets go.                *)
LEMMA PressTells ==
    ASSUME NEW b \in Bars, Fits(b), BarTold(b), b.state = "none", NEW p, NEW c \in PressAt(b, p)
    PROVE  /\ c \in Bars /\ Fits(c) /\ BarTold(c) /\ BarTold([c EXCEPT !.state = "none"])
           /\ c.data_type = b.data_type
  <1> DEFINE u == update_scroll_parameters(b)
             s == find_arrow(b, p)
             d == [u EXCEPT !.state = s]
  <1>1. u \in Bars /\ SameBar(b, u) /\ BarValue(u) = BarValue(b) /\ Fits(u)
    BY UpdateParameters
  <1> HIDE DEF u
  <1>2. s \in {"up", "down", "scroll"}
    BY DEF find_arrow
  <1> HIDE DEF s
  <1>3. /\ d \in Bars /\ Fits(d) /\ d.state = s /\ BarValue(d) = BarValue(b)
        /\ Excused(d) \/ d.told = BarValue(d)
        /\ d.data_type = b.data_type
    BY <1>1, <1>2
    DEF Bars, Fits, SameBar, SameKind, BarTold, Excused, BarValue, Unit, Lower, Upper
  <1>4. c \in (IF d.state = "scroll" THEN {d} ELSE bar_click(Stepping(d)))
    BY DEF PressAt, u, s
  <1> HIDE DEF d
  <1>5. c \in Bars /\ Fits(c) /\ BarTold(c) /\ c.data_type = b.data_type
    <2>1. CASE d.state = "scroll"
      BY <1>3, <1>4, <2>1 DEF BarTold
    <2>2. CASE d.state # "scroll"
      BY <1>3, <1>4, <2>2, FirstClickTells, ReportedIsTold DEF SameKind
    <2> QED BY <2>1, <2>2
  <1>6. BarTold([c EXCEPT !.state = "none"])
    BY <1>5 DEF Bars, BarTold, Excused, BarValue
  <1> QED BY <1>5, <1>6

LEMMA DragTells ==
    ASSUME NEW b \in Bars, Fits(b), BarTold(b), NEW p \in Places, b.state = "scroll"
    PROVE  LET c == DragTo(b, p) IN c \in Bars /\ Fits(c) /\ BarTold(c) /\ SameKind(b, c)
  <1> DEFINE free == track_length - b.box_length
             new == update_scroll_parameters(b)
             n == (p - Arrow - new.box_length \div 2) * Unit(b) * (b.max - b.min)
             along == Quotient(n, free)
             v == IF b.horizontal THEN Unit(b) * b.min + along ELSE Unit(b) * b.max - along
  <1>1. /\ new \in Bars /\ SameBar(b, new) /\ BarValue(new) = BarValue(b)
    BY UpdateParameters
  <1>2. /\ free \in Int /\ p \in Int /\ Unit(b) \in Int /\ b.min \in Int /\ b.max \in Int
        /\ new.box_length \in Int /\ Arrow \in Int
    BY <1>1, ScrollAssumption DEF Bars, track_length, Arrow, Unit
  <1> HIDE DEF new
  <1>3. n \in Int
    <2>1. p - Arrow - new.box_length \div 2 \in Int
      BY <1>2
    <2>2. (p - Arrow - new.box_length \div 2) * Unit(b) \in Int /\ b.max - b.min \in Int
      BY <1>2, <2>1
    <2> QED BY <2>2
  <1> HIDE DEF n, free
  <1>4. CASE free = 0
    BY <1>4 DEF DragTo, free, SameKind
  <1>5. CASE free # 0
    <2>1. along \in Int
      BY <1>2, <1>3, <1>5, QuotientIsInt
    <2> HIDE DEF along
    <2>2. v \in Int
      <3>1. Unit(b) * b.min \in Int /\ Unit(b) * b.max \in Int
        BY <1>2
      <3> QED BY <2>1, <3>1
    <2>3. DragTo(b, p) = bar_callbacks(SetBar(new, v))
      BY <1>5 DEF DragTo, free, new, along, n
    <2> HIDE DEF v
    <2> DEFINE d == SetBar(new, v)
    <2>4. d \in Bars /\ Fits(d) /\ SameBar(new, d) /\ LastValue(d) = BarValue(new)
      BY <1>1, <2>2, SetEither
    <2> HIDE DEF d
    <2>5. Excused(d) \/ d.told = LastValue(d)
      BY <1>1, <2>4 DEF SameBar, SameKind, BarTold, Excused
    <2> DEFINE e == bar_callbacks(d)
    <2>6. e \in Bars /\ Fits(e) /\ Reported(e) /\ SameKind(d, e)
      BY <2>4, <2>5, CallbackTells
    <2>7. DragTo(b, p) = e
      BY <2>3 DEF d
    <2> HIDE DEF e
    <2> QED BY <1>1, <2>4, <2>6, <2>7, ReportedIsTold DEF SameBar, SameKind
  <1> QED BY <1>4, <1>5

(* What the program sets.                                                  *)
LEMMA GivenTells ==
    ASSUME BarInv, NEW c \in Bars, Fits(c), SameBar(bar, c),
           bar.state \in {"up", "down"} => LastValue(c) \in {BarValue(bar), LastValue(bar)}
    PROVE  /\ Given(c) \in Bars /\ Fits(Given(c)) /\ BarTold(Given(c))
           /\ Given(c).data_type = bar.data_type
  <1> DEFINE g == c.given \/ BarValue(c) # BarValue(bar)
             d == [c EXCEPT !.given = g]
  <1>1. Given(c) = d
    BY DEF Given
  <1>2. g \in BOOLEAN /\ (g <=> c.given \/ BarValue(c) # BarValue(bar))
    BY DEF Bars
  <1> HIDE DEF g
  <1>3. /\ d \in Bars /\ d.given = g /\ d.told = c.told /\ d.first_callback = c.first_callback
        /\ d.state = c.state /\ BarValue(d) = BarValue(c) /\ LastValue(d) = LastValue(c) /\ Fits(d)
        /\ d.data_type = bar.data_type
    BY <1>2 DEF Bars, Fits, BarValue, LastValue, Unit, Lower, Upper, SameBar, SameKind
  <1> HIDE DEF d
  <1>4. BarTold(d)
    BY <1>2, <1>3 DEF BarInv, BarTold, Excused, SameBar, SameKind
  <1> QED BY <1>1, <1>3, <1>4

LEMMA NewBarInv ==
    ASSUME NEW type \in {"int", "float"}, NEW h \in BOOLEAN, NEW limits \in Int \X Int
    PROVE  LET b == NewBar(type, h, limits)
           IN  b \in Bars /\ Fits(b) /\ Excused(b) /\ BarTold(b) /\ b.data_type = type
  <1> DEFINE b == [data_type |-> type, horizontal |-> h, min |-> limits[1], max |-> limits[2],
                   int_val |-> 0, float_val |-> 0, last_int_val |-> 0, last_float_val |-> 0,
                   live |-> 0, last_live |-> 0, first_callback |-> TRUE, state |-> "none",
                   box_length |-> 0, told |-> 0, given |-> TRUE]
             c == set_bar_limits(b, limits[1], limits[2])
  <1>1. /\ limits[1] \in Int /\ limits[2] \in Int
        /\ b \in Bars /\ b.int_val = 0 /\ b.float_val = 0 /\ b.given /\ b.data_type = type
        /\ b.last_live = BarValue(b)
    BY DEF Bars, BarValue
  <1>2. NewBar(type, h, limits) = c
    BY DEF NewBar
  <1> HIDE DEF b
  <1>3. b.int_val = Quotient(b.float_val, 2)
    BY <1>1 DEF Quotient
  <1>4. c \in Bars /\ Fits(c) /\ SameBar(b, c)
    BY <1>1, <1>3, SetLimits
  <1> QED BY <1>1, <1>2, <1>4 DEF SameBar, SameKind, BarTold, Excused

LEMMA BarInitInv == ScrollInit({"int", "float"}) => BarInv
  BY NewBarInv, ScrollAssumption DEF ScrollInit, BarInv

LEMMA BarNextInv == BarInv /\ [ScrollNext]_bar => BarInv' /\ bar'.data_type = bar.data_type
  <1> DEFINE Goal == BarInv' /\ bar'.data_type = bar.data_type
  <1> SUFFICES ASSUME BarInv, [ScrollNext]_bar PROVE Goal
    OBVIOUS
  <1> bar \in Bars /\ Fits(bar) /\ BarTold(bar)
    BY DEF BarInv
  <1>l. LastValue(bar) \in {BarValue(bar), LastValue(bar)} /\ bar.int_val = Quotient(bar.float_val, 2)
    BY DEF Fits
  <1>1. CASE BarDown
    BY <1>1, PressTells DEF BarDown, BarInv
  <1>2. CASE BarHeld
    <2>1. PICK p \in Places :
            \/ bar.state = "scroll" /\ bar' = DragTo(bar, p)
            \/ bar.state \in {"up", "down"} /\ bar' \in bar_click(update_scroll_parameters(bar))
      BY <1>2 DEF BarHeld
    <2>2. CASE bar.state = "scroll" /\ bar' = DragTo(bar, p)
      BY <2>2, DragTells DEF BarInv, SameKind
    <2>3. CASE bar.state \in {"up", "down"} /\ bar' \in bar_click(update_scroll_parameters(bar))
      <3> DEFINE u == update_scroll_parameters(bar)
      <3>1. u \in Bars /\ Reported(u) /\ u.data_type = bar.data_type
        BY <2>3, UpdateParameters DEF SameBar, SameKind, BarTold, Reported, Excused
      <3> HIDE DEF u
      <3>2. bar' \in bar_click(u)
        BY <2>3 DEF u
      <3> QED BY <3>1, <3>2, ClickTells, ReportedIsTold DEF BarInv, SameKind
    <2> QED BY <2>1, <2>2, <2>3
  <1>3. CASE BarIdle
    <2>1. Reported(bar) /\ bar' \in bar_click(bar)
      BY <1>3 DEF BarIdle, BarTold, Reported
    <2> QED BY <2>1, ClickTells, ReportedIsTold DEF BarInv, SameKind
  <1>4. CASE BarUp \/ BarSetLive
    <2>1. PICK v \in Int : bar' \in {[bar EXCEPT !.state = "none"], [bar EXCEPT !.live = v]}
      BY <1>4 DEF BarUp, BarSetLive
    <2> QED BY <2>1 DEF BarInv, Bars, Fits, BarTold, Excused, BarValue, LastValue, Unit, Lower, Upper
  <1>5. CASE BarKey
    <2>1. PICK p : \E b \in PressAt(bar, p) : bar' = [b EXCEPT !.state = "none"]
      BY <1>5 DEF BarKey
    <2>2. PICK b \in PressAt(bar, p) : bar' = [b EXCEPT !.state = "none"]
      BY <2>1
    <2>3. /\ b \in Bars /\ Fits(b) /\ BarTold([b EXCEPT !.state = "none"])
          /\ b.data_type = bar.data_type
      BY <1>5, PressTells DEF BarKey
    <2> QED BY <2>2, <2>3 DEF BarInv, Bars, Fits, BarValue, Unit, Lower, Upper
  <1>6. CASE BarDraw
    BY <1>6, UpdateParameters DEF BarDraw, BarInv, SameBar, SameKind, BarTold, Excused
  <1>7. ASSUME NEW v \in Int, bar' = Given(SetBar(bar, v)) PROVE Goal
    <2> DEFINE c == SetBar(bar, v)
    <2>1. c \in Bars /\ Fits(c) /\ SameBar(bar, c) /\ LastValue(c) = BarValue(bar)
      BY SetEither
    <2> HIDE DEF c
    <2>2. bar' = Given(c)
      BY <1>7 DEF c
    <2> QED BY <2>1, <2>2, GivenTells DEF BarInv
  <1>8. CASE BarSet
    BY <1>7, <1>8, LimitsAreInts DEF BarSet, Unit
  <1>9. CASE BarLimits
    <2>1. PICK limits \in LimitPairs : bar' = Given(set_bar_limits(bar, limits[1], limits[2]))
      BY <1>9 DEF BarLimits
    <2>2. /\ limits[1] \in Int /\ limits[2] \in Int
          /\ bar.int_val = Quotient(bar.float_val, 2) /\ bar.last_live = BarValue(bar)
      BY ScrollAssumption DEF BarInv, Fits
    <2> DEFINE c == set_bar_limits(bar, limits[1], limits[2])
    <2>3. c \in Bars /\ Fits(c) /\ SameBar(bar, c) /\ LastValue(c) \in {BarValue(bar), LastValue(bar)}
      BY <1>l, <2>2, SetLimits
    <2> HIDE DEF c
    <2>4. bar' = Given(c)
      BY <2>1 DEF c
    <2> QED BY <2>3, <2>4, GivenTells DEF BarInv
  <1>10. CASE BarSyncLive
    BY <1>7, <1>10 DEF BarSyncLive, Bars
  <1>11. CASE UNCHANGED bar
    BY <1>11 DEF BarInv
  <1> QED BY <1>1, <1>2, <1>3, <1>4, <1>5, <1>6, <1>8, <1>9, <1>10, <1>11 DEF ScrollNext

LEMMA BarInvTells == BarInv => ScrollTells
  <1>1. BarInv => (bar.first_callback => bar.given)
    BY DEF BarInv, Bars
  <1> QED BY <1>1 DEF BarInv, BarTold, Excused, Fits, ScrollTells

(* A scrollbar's last callback reported the value shown unless the program *)
(* has set the value itself since; the live variable was last given that   *)
(* value, or gave it; the two numbers agree and lie within the limits,     *)
(* however presses, keys, drags, limits and settings alternate             *)
(* (glui_scrollbar.cpp:701-800, glui_control.cpp:771-820).                 *)
THEOREM ScrollbarTells == ScrollSpec => []ScrollTells
  BY BarInitInv, BarNextInv, BarInvTells, PTL DEF ScrollSpec

-------------------------------------------------------------------------------
(* The file browser.                                                       *)

Files == UNION {EntriesOf(dir) : dir \in DOMAIN Entries}

Lists ==
    [items : Seq(Files), start_line : Int, curr_line : Int, visible_lines : Int,
     last_line : Int, fresh : BOOLEAN, file : Files \cup {NoFile}, allow_change_dir : BOOLEAN]

(* The list's scrollbar stands for integers; the line that a press finds   *)
(* is counted from start_line, which the scrollbar has told.               *)
BrowserInv ==
    /\ BarInv /\ bar.data_type = "int"
    /\ cwd \in DOMAIN Entries
    /\ fb \in Lists
    /\ FileIsHere

LEMMA EntriesAreFiles ==
    ASSUME NEW dir \in DOMAIN Entries
    PROVE  /\ Entries[dir] \in Seq(Files) /\ <<>> \in Seq(Files)
           /\ EntriesOf(dir) \subseteq Files
  <1>1. EntriesOf(dir) \subseteq Files
    BY DEF Files
  <1>2. Entries[dir] \in Seq(EntriesOf(dir))
    BY BrowserAssumption
  <1>3. \A i \in 1..Len(Entries[dir]) : Entries[dir][i] \in Files
    BY <1>1, <1>2, ElementOfSeq
  <1>4. Entries[dir] \in [1..Len(Entries[dir]) -> Files] /\ Len(Entries[dir]) \in Nat
    BY <1>2, <1>3, LenProperties
  <1> QED BY <1>1, <1>4, EmptySeq, SeqDef

LEMMA LinesBelowIsInt == ASSUME NEW n \in Int, NEW v \in Int PROVE LinesBelow(n, v) \in Int
  BY DEF LinesBelow

(* The bar's limits are set again and again: the recursive definition      *)
(* defines a function, as no number is the least one for which it does not *)
(* and every bar on the way is one that fits, as none is the first one     *)
(* that does not.                                                          *)
LEMMA LimitsAfterFits ==
    ASSUME NEW b \in Bars, Fits(b), NEW n \in Nat, NEW visible \in Int
    PROVE  LET c == LimitsAfter(b, n, visible)
           IN  c \in Bars /\ Fits(c) /\ SameBar(b, c)
  <1> DEFINE Step(x, k) == set_bar_limits(x, LinesBelow(k, visible), 0)
             Defines(f, m) == f = [k \in 0..m |-> IF k = 0 THEN b ELSE Step(f[k - 1], k)]
             undefined == {m \in Nat : ~\E f : Defines(f, m)}
  <1>1. undefined = {}
    <2> SUFFICES ASSUME undefined # {} PROVE FALSE
      OBVIOUS
    <2>1. PICK m \in undefined : \A k \in undefined : ~(<<k, m>> \in OpToRel(<, Nat))
      <3> undefined \subseteq Nat
        OBVIOUS
      <3> HIDE DEF undefined
      <3> QED BY NatLessThanWellFounded, WFMin
    <2>2. m \in Nat /\ ~\E f : Defines(f, m)
      OBVIOUS
    <2>3. m # 0
      <3> SUFFICES ASSUME m = 0 PROVE FALSE
        OBVIOUS
      <3>1. Defines([k \in 0..0 |-> b], 0)
        <4> HIDE DEF Step
        <4> QED OBVIOUS
      <3> QED BY <2>2, <3>1
    <2>4. m - 1 \in Nat /\ m - 1 \notin undefined
      <3>1. m - 1 \in Nat /\ m - 1 < m
        BY <2>2, <2>3
      <3> HIDE DEF undefined
      <3>2. <<m - 1, m>> \in OpToRel(<, Nat)
        BY <2>2, <3>1 DEF OpToRel
      <3> QED BY <2>1, <3>1, <3>2
    <2>5. PICK f : Defines(f, m - 1)
      BY <2>4
    <2> DEFINE g == [k \in 0..m |-> IF k = m THEN Step(f[m - 1], m) ELSE f[k]]
    <2>6. Defines(g, m)
      <3> HIDE DEF Step
      <3>1. \A k \in 0 .. m - 1 : f[k] = IF k = 0 THEN b ELSE Step(f[k - 1], k)
        BY <2>2, <2>5
      <3>2. ASSUME NEW k \in 0..m PROVE g[k] = IF k = 0 THEN b ELSE Step(g[k - 1], k)
        <4>1. CASE k = m
          <5>1. g[k - 1] = f[m - 1] /\ g[k] = Step(f[m - 1], m)
            BY <2>2, <2>3, <4>1
          <5> QED BY <2>3, <4>1, <5>1
        <4>2. CASE k # m
          <5>1. k \in 0 .. m - 1 /\ g[k] = f[k] /\ (k # 0 => g[k - 1] = f[k - 1])
            BY <2>2, <4>2
          <5> QED BY <3>1, <5>1
        <4> QED BY <4>1, <4>2
      <3>3. g = [k \in 0..m |-> g[k]]
        OBVIOUS
      <3> HIDE DEF g
      <3>4. [k \in 0..m |-> g[k]] = [k \in 0..m |-> IF k = 0 THEN b ELSE Step(g[k - 1], k)]
        BY <3>2
      <3> QED BY <3>3, <3>4
    <2> QED BY <2>2, <2>6
  <1> DEFINE limited == CHOOSE f : Defines(f, n)
  <1>2. Defines(limited, n)
    <2>1. \E f : Defines(f, n)
      BY <1>1
    <2> HIDE DEF Defines
    <2> QED BY <2>1
  <1>3. LimitsAfter(b, n, visible) = limited[n]
    BY DEF LimitsAfter
  <1>4. /\ limited[0] = b
        /\ \A k \in 1..n : limited[k] = Step(limited[k - 1], k)
    <2> HIDE DEF limited, Step
    <2> QED BY <1>2
  <1> HIDE DEF limited
  <1> DEFINE Good(c) == c \in Bars /\ Fits(c) /\ SameBar(b, c)
             bad == {k \in 0..n : ~Good(limited[k])}
  <1>5. bad = {}
    <2> SUFFICES ASSUME bad # {} PROVE FALSE
      OBVIOUS
    <2>1. PICK m \in bad : \A k \in bad : ~(<<k, m>> \in OpToRel(<, Nat))
      <3> bad \subseteq Nat
        OBVIOUS
      <3> HIDE DEF bad
      <3> QED BY NatLessThanWellFounded, WFMin
    <2>2. m \in 0..n /\ ~Good(limited[m])
      OBVIOUS
    <2>3. m # 0
      BY <1>4, <2>2 DEF SameBar, SameKind
    <2>4. m - 1 \in 0..n /\ m - 1 \notin bad
      <3>1. m - 1 \in Nat /\ m - 1 < m /\ m - 1 \in 0..n
        BY <2>2, <2>3
      <3> HIDE DEF bad
      <3>2. <<m - 1, m>> \in OpToRel(<, Nat)
        BY <2>2, <3>1 DEF OpToRel
      <3> QED BY <2>1, <3>1, <3>2
    <2> DEFINE before == limited[m - 1]
               after == Step(before, m)
    <2>5. Good(before)
      BY <2>4
    <2> HIDE DEF before
    <2>6. Good(after)
      <3>1. LinesBelow(m, visible) \in Int
        BY <2>2, LinesBelowIsInt
      <3> QED BY <2>5, <3>1, SetLimits DEF Fits, SameBar, SameKind
    <2>7. limited[m] = after
      <3> HIDE DEF Step
      <3> QED BY <1>4, <2>2, <2>3 DEF before
    <2> QED BY <2>2, <2>6, <2>7
  <1> QED BY <1>3, <1>5

-------------------------------------------------------------------------------
(* BrowserInv is inductive.                                                *)

LEMMA ReadDirectory ==
    ASSUME NEW f \in Lists, NEW dir \in DOMAIN Entries, NEW g \in fbreaddir(f, dir)
    PROVE  /\ g \in Lists /\ g.items \in {Entries[dir], <<>>} /\ Len(g.items) \in Nat
           /\ g.file = f.file /\ g.visible_lines = f.visible_lines
  <1> DEFINE d == delete_all(f)
  <1>1. PICK i \in {Entries[dir], <<>>} : g = [d EXCEPT !.items = i]
    BY DEF fbreaddir
  <1>2. i \in Seq(Files) /\ Len(i) \in Nat
    BY EntriesAreFiles, LenProperties
  <1>3. d \in Lists /\ d.file = f.file /\ d.visible_lines = f.visible_lines
    <2>1. <<>> \in Seq(Files)
      BY EntriesAreFiles
    <2> DEFINE none == <<>>
               e == [f EXCEPT !.items = none]
    <2>2. none \in Seq(Files)
      BY <2>1
    <2> HIDE DEF none
    <2>3. e \in Lists /\ e.file = f.file /\ e.visible_lines = f.visible_lines
      BY <2>2 DEF Lists
    <2>4. d = [e EXCEPT !.curr_line = 0]
      BY DEF delete_all, none
    <2> HIDE DEF e, d
    <2> QED BY <2>3, <2>4 DEF Lists
  <1> HIDE DEF d
  <1> QED BY <1>1, <1>2, <1>3 DEF Lists

LEMMA DrawnFits ==
    ASSUME NEW b \in Bars, Fits(b), NEW f \in Lists
    PROVE  /\ drawn(f) \in Lists /\ drawn(f).items = f.items /\ drawn(f).file = f.file
           /\ LET c == drawn_bar(b, drawn(f))
              IN  /\ c \in Bars /\ Fits(c) /\ SameBar(b, c)
                  /\ LastValue(c) \in {BarValue(b), LastValue(b)}
  <1> DEFINE n == Quotient(ListHeight - 20, ListLineHeight)
             g == drawn(f)
             lines == LinesBelow(num_lines(g), g.visible_lines)
             c == set_bar_limits(b, lines, 0)
  <1>1. n \in Int
    <2>1. ListHeight - 20 \in Int /\ ListLineHeight \in Int /\ ListLineHeight # 0
      BY BrowserAssumption DEF ListLineHeight
    <2> QED BY <2>1, QuotientIsInt
  <1> HIDE DEF n
  <1>2. g = [f EXCEPT !.visible_lines = n]
    BY DEF drawn, n
  <1> HIDE DEF g
  <1>3. g \in Lists /\ g.items = f.items /\ g.file = f.file
    BY <1>1, <1>2 DEF Lists
  <1>4. lines \in Int
    <2>1. num_lines(g) \in Int /\ g.visible_lines \in Int
      BY <1>3, LenProperties DEF Lists, num_lines
    <2> QED BY <2>1, LinesBelowIsInt
  <1> HIDE DEF lines
  <1>5. c \in Bars /\ Fits(c) /\ SameBar(b, c) /\ LastValue(c) \in {BarValue(b), LastValue(b)}
    BY <1>4, SetLimits DEF Fits
  <1>6. drawn_bar(b, g) = update_scroll_parameters(c)
    BY DEF drawn_bar, lines
  <1> HIDE DEF c
  <1>7. /\ update_scroll_parameters(c) \in Bars /\ SameBar(c, update_scroll_parameters(c))
        /\ Fits(update_scroll_parameters(c))
        /\ LastValue(update_scroll_parameters(c)) = LastValue(c)
    BY <1>5, UpdateParameters
  <1> QED BY <1>3, <1>5, <1>6, <1>7 DEF g, SameBar, SameKind

LEMMA BrowserInitInv == BrowserInit(DOMAIN Entries) => BrowserInv
  <1> SUFFICES ASSUME BrowserInit(DOMAIN Entries) PROVE BrowserInv
    OBVIOUS
  <1>1. PICK f \in fbreaddir(NewList, cwd) :
          /\ fb = drawn(f)
          /\ bar = drawn_bar(LimitsAfter(NewBar("int", FALSE, <<0, 0>>), num_lines(f), 0), fb)
    BY DEF BrowserInit
  <1>2. cwd \in DOMAIN Entries
    BY DEF BrowserInit
  <1>3. NewList \in Lists /\ NewList.file = NoFile
    BY <1>2, EntriesAreFiles DEF NewList, Lists
  <1>4. f \in Lists /\ f.items \in {Entries[cwd], <<>>} /\ num_lines(f) \in Nat /\ f.file = NoFile
    BY <1>2, <1>3, ReadDirectory DEF num_lines
  <1> DEFINE new == NewBar("int", FALSE, <<0, 0>>)
             b == LimitsAfter(new, num_lines(f), 0)
  <1>5. new \in Bars /\ Fits(new) /\ new.data_type = "int" /\ Excused(new)
    <2>1. <<0, 0>> \in Int \X Int
      OBVIOUS
    <2> DEFINE zeros == <<0, 0>>
    <2> HIDE DEF zeros
    <2>2. zeros \in Int \X Int
      BY <2>1 DEF zeros
    <2>3. new = NewBar("int", FALSE, zeros)
      BY DEF zeros
    <2> HIDE DEF new
    <2> QED BY <2>2, <2>3, NewBarInv
  <1> HIDE DEF new
  <1>6. b \in Bars /\ Fits(b) /\ SameBar(new, b)
    BY <1>4, <1>5, LimitsAfterFits
  <1>7. bar = drawn_bar(b, drawn(f))
    BY <1>1 DEF new
  <1> HIDE DEF b
  <1>8. /\ fb \in Lists /\ fb.items = f.items /\ fb.file = f.file
        /\ bar \in Bars /\ Fits(bar) /\ SameBar(b, bar)
    BY <1>1, <1>4, <1>6, <1>7, DrawnFits
  <1>9. BarTold(bar) /\ bar.data_type = "int"
    BY <1>5, <1>6, <1>8 DEF SameBar, SameKind, BarTold, Excused
  <1> QED BY <1>2, <1>4, <1>8, <1>9 DEF BrowserInv, BarInv, FileIsHere

LEMMA BrowserFacts ==
    ASSUME BrowserInv
    PROVE  /\ BarInv /\ bar \in Bars /\ Fits(bar) /\ BarTold(bar) /\ bar.data_type = "int"
           /\ cwd \in DOMAIN Entries /\ fb \in Lists
           /\ num_lines(fb) \in Nat
           /\ \A i \in 1..num_lines(fb) : fb.items = Entries[cwd] /\ fb.items[i] \in EntriesOf(cwd)
  <1>1. fb \in Lists /\ cwd \in DOMAIN Entries /\ fb.items \in {Entries[cwd], <<>>}
    BY DEF BrowserInv, FileIsHere
  <1>2. num_lines(fb) \in Nat /\ DOMAIN fb.items = 1..num_lines(fb)
    BY <1>1, LenProperties DEF Lists, num_lines
  <1>3. \A i \in 1..num_lines(fb) : fb.items = Entries[cwd]
    BY <1>1, EmptySeq DEF num_lines
  <1> QED BY <1>1, <1>2, <1>3 DEF BrowserInv, BarInv, EntriesOf

(* The bar is set to a line, or to more once the list has been read again, *)
(* by the program.                                                         *)
LEMMA BarFollows ==
    ASSUME BrowserInv, bar.state = "none", NEW line \in Int
    PROVE  LET b == bar_set_int_val(bar, line)
           IN  /\ b \in Bars /\ Fits(b) /\ SameBar(bar, b)
               /\ bar' = Given(b) => BarInv' /\ bar'.data_type = "int"
               /\ \A n \in Nat, v \in Int :
                      bar' = Given(LimitsAfter(b, n, v)) => BarInv' /\ bar'.data_type = "int"
  <1> DEFINE b == bar_set_int_val(bar, line)
  <1>1. b \in Bars /\ Fits(b) /\ SameBar(bar, b)
    BY BrowserFacts, SetInt
  <1> HIDE DEF b
  <1>2. ASSUME NEW c \in Bars, Fits(c), SameBar(bar, c), bar' = Given(c)
        PROVE  BarInv' /\ bar'.data_type = "int"
    BY <1>2, BrowserFacts, GivenTells DEF BarInv
  <1>3. ASSUME NEW n \in Nat, NEW v \in Int, bar' = Given(LimitsAfter(b, n, v))
        PROVE  BarInv' /\ bar'.data_type = "int"
    <2> DEFINE c == LimitsAfter(b, n, v)
    <2>1. c \in Bars /\ Fits(c) /\ SameBar(b, c)
      BY <1>1, LimitsAfterFits
    <2>2. bar' = Given(c)
      BY <1>3
    <2> HIDE DEF c
    <2>3. SameBar(bar, c)
      BY <1>1, <2>1 DEF SameBar, SameKind
    <2> QED BY <1>2, <2>1, <2>2, <2>3
  <1> QED BY <1>1, <1>2, <1>3 DEF b

LEMMA OpenKeeps ==
    ASSUME BrowserInv, bar.state = "none", NEW line \in Int, line < num_lines(fb), OpenLine(line)
    PROVE  BrowserInv'
  <1> DEFINE f == [fb EXCEPT !.curr_line = line]
             b == bar_set_int_val(bar, line)
  <1>1. f \in Lists /\ f.items = fb.items /\ f.file = fb.file /\ f.curr_line = line
    BY BrowserFacts DEF Lists
  <1>2. OpensFile(f) \/ OpensDirectory(f) => EntryOf(f) \in EntriesOf(cwd)
    <2> SUFFICES ASSUME line > 0 PROVE fb.items[line + 1] \in EntriesOf(cwd)
      BY <1>1 DEF OpensFile, OpensDirectory, EntryOf
    <2>1. line + 1 \in 1..num_lines(fb)
      BY BrowserFacts
    <2> QED BY <2>1, BrowserFacts
  <1>3. CASE OpensDirectory(f)
    <2>1. /\ cwd' \in {EntryOf(f), cwd} /\ fb' \in ReadAgain(f, cwd')
          /\ bar' = Given(LimitsAfter(b, num_lines(fb'), f.visible_lines))
      BY <1>3 DEF OpenLine
    <2>2. cwd' \in DOMAIN Entries
      BY <1>3, <2>1, BrowserFacts DEF OpensDirectory
    <2>3. PICK g \in fbreaddir(f, cwd') : fb' = [g EXCEPT !.file = NoFile]
      BY <2>1 DEF ReadAgain
    <2> HIDE DEF f
    <2>4. g \in Lists /\ g.items \in {Entries[cwd'], <<>>} /\ Len(g.items) \in Nat
      BY <1>1, <2>2, ReadDirectory
    <2>5. /\ fb' \in Lists /\ fb'.items = g.items /\ fb'.file = NoFile
          /\ num_lines(fb') \in Nat /\ f.visible_lines \in Int
      BY <1>1, <2>3, <2>4 DEF Lists, num_lines
    <2>6. BarInv' /\ bar'.data_type = "int"
      BY <2>1, <2>5, BarFollows
    <2> QED BY <2>2, <2>4, <2>5, <2>6 DEF BrowserInv, FileIsHere
  <1>4. CASE ~OpensDirectory(f)
    <2>1. /\ fb' = IF OpensFile(f) THEN [f EXCEPT !.file = EntryOf(f)] ELSE f
          /\ bar' = Given(b) /\ cwd' = cwd
      BY <1>4 DEF OpenLine
    <2>2. BarInv' /\ bar'.data_type = "int"
      BY <2>1, BarFollows
    <2> HIDE DEF f
    <2>3. CASE OpensFile(f)
      <3> DEFINE e == EntryOf(f)
      <3>1. e \in EntriesOf(cwd) \ DOMAIN Entries /\ e \in Files
        BY <1>2, <2>3, EntriesAreFiles, BrowserFacts DEF OpensFile
      <3>2. fb' = [f EXCEPT !.file = e]
        BY <2>1, <2>3
      <3> HIDE DEF e
      <3>3. fb' \in Lists /\ fb'.items = fb.items /\ fb'.file = e
        BY <1>1, <3>1, <3>2 DEF Lists
      <3> QED BY <2>1, <2>2, <3>1, <3>3 DEF BrowserInv, FileIsHere
    <2>4. CASE ~OpensFile(f)
      BY <1>1, <2>1, <2>2, <2>4 DEF BrowserInv, FileIsHere
    <2> QED BY <2>3, <2>4
  <1> QED BY <1>3, <1>4

LEMMA BrowserNextInv == BrowserInv /\ [BrowserNext]_<<browserVars, bar>> => BrowserInv'
  <1> SUFFICES ASSUME BrowserInv, [BrowserNext]_<<browserVars, bar>> PROVE BrowserInv'
    OBVIOUS
  <1> /\ BarInv /\ bar \in Bars /\ Fits(bar) /\ BarTold(bar) /\ bar.data_type = "int"
      /\ cwd \in DOMAIN Entries /\ fb \in Lists
    BY BrowserFacts
  <1> DEFINE SameFile(f) == f \in Lists /\ f.items = fb.items /\ f.file = fb.file
  <1>a. ASSUME SameFile(fb'), BarInv', bar'.data_type = "int", cwd' = cwd PROVE BrowserInv'
    BY <1>a DEF BrowserInv, FileIsHere
  <1>b. SameFile(fb)
    OBVIOUS
  <1>1. CASE ListDown
    <2>1. PICK y \in ClickRows :
            LET line == find_line(fb, y)
            IN  IF line >= num_lines(fb) THEN UNCHANGED <<fb, cwd, bar>>
                ELSE IF fb.last_line = line /\ fb.fresh THEN OpenLine(line)
                ELSE SelectLine(line)
      BY <1>1 DEF ListDown
    <2> DEFINE line == find_line(fb, y)
    <2>2. line \in Int /\ num_lines(fb) \in Nat /\ bar.state = "none"
      <3>1. fb.start_line \in Int /\ y - 5 \in Int /\ ListLineHeight \in Int /\ ListLineHeight # 0
        BY BrowserAssumption DEF Lists, ListLineHeight
      <3>2. Quotient(y - 5, ListLineHeight) \in Int
        BY <3>1, QuotientIsInt
      <3> QED BY <1>1, <3>1, <3>2, BrowserFacts DEF find_line, ListDown, Click
    <2> HIDE DEF line
    <2>3. CASE UNCHANGED <<fb, cwd, bar>>
      BY <2>3, <1>a DEF BarInv
    <2>4. CASE line < num_lines(fb) /\ OpenLine(line)
      BY <2>2, <2>4, OpenKeeps
    <2>5. CASE SelectLine(line)
      <3>1. SameFile(fb') /\ cwd' = cwd /\ bar' = Given(bar_set_int_val(bar, line))
        BY <2>2, <2>5 DEF SelectLine, Lists
      <3>2. BarInv' /\ bar'.data_type = "int"
        BY <2>2, <3>1, BarFollows
      <3> QED BY <1>a, <3>1, <3>2
    <2> QED BY <2>1, <2>2, <2>3, <2>4, <2>5 DEF line
  <1>2. CASE TimePasses \/ set_allow_change_dir
    <2>1. SameFile(fb') /\ cwd' = cwd /\ bar' = bar
      BY <1>2 DEF TimePasses, set_allow_change_dir, Lists
    <2> QED BY <1>a, <2>1 DEF BarInv
  <1>3. CASE ListKey
    <2>1. PICK key \in {"up", "down", "other"} :
            /\ fb' = list_key(fb, key)
            /\ bar' = Given(bar_set_int_val(bar, fb'.curr_line))
      BY <1>3 DEF ListKey
    <2>2. SameFile(fb')
      <3>1. ASSUME NEW line \in Int, NEW start \in Int,
                   fb' = [fb EXCEPT !.curr_line = line, !.start_line = start]
            PROVE  SameFile(fb')
        BY <3>1 DEF Lists
      <3>2. /\ fb.curr_line + 1 \in Int /\ fb.curr_line - 1 \in Int
            /\ fb.start_line \in Int /\ fb.start_line + 1 \in Int /\ fb.start_line - 1 \in Int
        BY DEF Lists
      <3>3. CASE key = "down" /\ fb.curr_line < num_lines(fb)
        <4> DEFINE start == IF fb.curr_line + 1 > fb.start_line + fb.visible_lines
                            THEN fb.start_line + 1 ELSE fb.start_line
        <4>1. fb' = [fb EXCEPT !.curr_line = fb.curr_line + 1, !.start_line = start]
          BY <2>1, <3>3 DEF list_key
        <4> QED BY <3>1, <3>2, <4>1
      <3>4. CASE key = "up" /\ fb.curr_line > 0
        <4> DEFINE start == IF fb.curr_line - 1 < fb.start_line
                            THEN fb.start_line - 1 ELSE fb.start_line
        <4>1. fb' = [fb EXCEPT !.curr_line = fb.curr_line - 1, !.start_line = start]
          BY <2>1, <3>4 DEF list_key
        <4> QED BY <3>1, <3>2, <4>1
      <3>5. CASE fb' = fb
        BY <3>5
      <3> QED BY <2>1, <3>3, <3>4, <3>5 DEF list_key
    <2>3. fb'.curr_line \in Int /\ bar.state = "none" /\ cwd' = cwd
      BY <1>3, <2>2 DEF Lists, ListKey, Click
    <2>4. BarInv' /\ bar'.data_type = "int"
      BY <2>1, <2>3, BarFollows
    <2> QED BY <1>a, <2>2, <2>3, <2>4
  <1>4. CASE ListDraw
    <2> DEFINE c == drawn_bar(bar, drawn(fb))
    <2>1. fb' = drawn(fb) /\ bar' = Given(c) /\ cwd' = cwd
      BY <1>4 DEF ListDraw
    <2>2. /\ SameFile(drawn(fb)) /\ c \in Bars /\ Fits(c) /\ SameBar(bar, c)
          /\ LastValue(c) \in {BarValue(bar), LastValue(bar)}
      BY DrawnFits
    <2> HIDE DEF c
    <2>3. BarInv' /\ bar'.data_type = "int"
      BY <2>1, <2>2, GivenTells DEF BarInv
    <2> QED BY <1>a, <2>1, <2>2, <2>3
  <1>5. CASE ListScroll
    <2>1. BarInv' /\ bar'.data_type = "int"
      BY <1>5, BarNextInv DEF ListScroll, ScrollNext
    <2>2. bar'.told \in Int
      BY <2>1 DEF BarInv, Bars
    <2>3. fb' \in {fb, [fb EXCEPT !.start_line = bar'.told]} /\ cwd' = cwd
      BY <1>5 DEF ListScroll
    <2>4. SameFile(fb')
      BY <2>2, <2>3 DEF Lists
    <2> QED BY <1>a, <2>1, <2>3, <2>4
  <1>6. CASE ListScrollEnd
    <2>1. BarInv' /\ bar'.data_type = "int"
      BY <1>6, BarNextInv DEF ListScrollEnd, ScrollNext
    <2> QED BY <1>a, <1>b, <1>6, <2>1 DEF ListScrollEnd, browserVars
  <1>7. CASE UNCHANGED <<browserVars, bar>>
    BY <1>a, <1>7 DEF browserVars, BarInv
  <1> QED BY <1>1, <1>2, <1>3, <1>4, <1>5, <1>6, <1>7 DEF BrowserNext

(* Whatever is clicked, scrolled and read, and though chdir and opendir    *)
(* may fail, the file that a browser has is one of the directory that the  *)
(* program is in, and the lines are that directory's                       *)
(* (glui_filebrowser.cpp:56-153, glui_list.cpp:87-123).                    *)
THEOREM BrowserFileIsHere == BrowserSpec => []FileIsHere
  <1>1. BrowserInv => FileIsHere
    BY DEF BrowserInv
  <1> QED BY BrowserInitInv, BrowserNextInv, <1>1, PTL DEF BrowserSpec

(* The scrollbar of a browser's list tells the list as one alone tells the *)
(* program: the list, when it sets the bar itself or gives it new limits   *)
(* for every entry read, counts as the program (glui_list.cpp:102-123,     *)
(* 362-427, glui_scrollbar.cpp:701-800).                                   *)
THEOREM BrowserBarTells == BrowserSpec => []ScrollTells
  <1>1. BrowserInv => ScrollTells
    BY BarInvTells DEF BrowserInv
  <1> QED BY BrowserInitInv, BrowserNextInv, <1>1, PTL DEF BrowserSpec

-------------------------------------------------------------------------------
(* The text box.  CaretInText does not survive by itself what the keys do: *)
(* of sel_start and sel_end, and of where the insertion point is before it *)
(* is looked for again, more must be known (CaretHeld), and the lines are  *)
(* numbers only while the scrollbar's limits and reports are (LinesBar).   *)
(* The loops are over once a position in the text no longer grows.         *)

(* The least and the greatest of some numbers.                             *)
LEMMA LeastOf ==
    ASSUME NEW S, S \subseteq Nat, S # {}
    PROVE  Min(S) \in S /\ \A i \in S : Min(S) <= i
  <1>1. PICK m \in S : \A i \in S : ~(<<i, m>> \in OpToRel(<, Nat))
    BY NatLessThanWellFounded, WFMin
  <1>2. ASSUME NEW i \in S PROVE m <= i
    <2> SUFFICES ASSUME i < m PROVE FALSE
      OBVIOUS
    <2>1. <<i, m>> \in OpToRel(<, Nat)
      BY DEF OpToRel
    <2> QED BY <1>1, <2>1
  <1> QED BY <1>2 DEF Min

LEMMA GreatestOf ==
    ASSUME NEW n \in Nat, NEW S, S \subseteq 0..n, S # {}
    PROVE  Max(S) \in S /\ \A i \in S : i <= Max(S)
  <1> DEFINE T == {i \in 0..n : n - i \in S}
  <1>1. T \subseteq Nat /\ \A i \in S : n - i \in T
    OBVIOUS
  <1>2. T # {}
    BY <1>1
  <1> HIDE DEF T
  <1>3. PICK m \in T : \A i \in T : m <= i
    BY <1>1, <1>2, LeastOf
  <1>4. n - m \in S /\ m \in 0..n
    BY <1>3 DEF T
  <1>5. \A i \in S : i <= n - m
    BY <1>1, <1>3, <1>4
  <1> QED BY <1>4, <1>5 DEF Max

(* What n rounds of a loop leave is defined, one after the other.          *)
LEMMA RoundsDefined ==
    ASSUME NEW S, NEW first \in S, NEW n \in Nat, NEW next \in [S -> S]
    PROVE  LET after == Rounds(next, first, n)
           IN  /\ after \in [0..n -> S]
               /\ after[0] = first
               /\ \A k \in 1..n : after[k] = next[after[k - 1]]
  <1> DEFINE Defines(f, m) == f = [k \in 0..m |-> IF k = 0 THEN first ELSE next[f[k - 1]]]
             Leads(f, m) == f[0] = first /\ \A k \in 1..m : f[k] = next[f[k - 1]]
             undefined == {m \in Nat : ~\E f \in [0..m -> S] : Leads(f, m)}
  <1>1. undefined = {}
    <2> SUFFICES ASSUME undefined # {} PROVE FALSE
      OBVIOUS
    <2>1. PICK m \in undefined : \A k \in undefined : m <= k
      <3> undefined \subseteq Nat
        OBVIOUS
      <3> HIDE DEF undefined
      <3> QED BY LeastOf
    <2>2. m \in Nat /\ ~\E f \in [0..m -> S] : Leads(f, m)
      OBVIOUS
    <2>3. m # 0
      <3>1. [k \in 0..0 |-> first] \in [0..0 -> S] /\ Leads([k \in 0..0 |-> first], 0)
        OBVIOUS
      <3> QED BY <2>2, <3>1
    <2>4. m - 1 \in Nat /\ m - 1 \notin undefined
      <3>1. m - 1 \in Nat /\ m - 1 < m
        BY <2>2, <2>3
      <3> HIDE DEF undefined
      <3> QED BY <2>1, <2>2, <3>1
    <2>5. PICK f \in [0 .. m - 1 -> S] : Leads(f, m - 1)
      BY <2>4
    <2> DEFINE g == [k \in 0..m |-> IF k = m THEN next[f[m - 1]] ELSE f[k]]
    <2>6. g \in [0..m -> S]
      BY <2>2, <2>3, <2>4
    <2>7. Leads(g, m)
      <3>1. g[0] = first
        BY <2>2, <2>3, <2>5
      <3>2. ASSUME NEW k \in 1..m PROVE g[k] = next[g[k - 1]]
        <4>1. CASE k = m
          <5>1. g[k] = next[f[m - 1]] /\ g[k - 1] = f[m - 1]
            BY <2>2, <2>3, <4>1
          <5> QED BY <4>1, <5>1
        <4>2. CASE k # m
          <5>1. k \in 1 .. m - 1 /\ g[k] = f[k] /\ g[k - 1] = f[k - 1]
            BY <2>2, <4>2
          <5> QED BY <2>5, <5>1
        <4> QED BY <4>1, <4>2
      <3> QED BY <3>1, <3>2
    <2> QED BY <2>2, <2>6, <2>7
  <1>2. PICK f \in [0..n -> S] : Leads(f, n)
    BY <1>1
  <1>3. Defines(f, n)
    <2>1. \A k \in 0..n : f[k] = IF k = 0 THEN first ELSE next[f[k - 1]]
      BY <1>2
    <2>2. f = [k \in 0..n |-> f[k]]
      OBVIOUS
    <2> QED BY <2>1, <2>2
  <1> DEFINE after == CHOOSE g : Defines(g, n)
  <1>4. Defines(after, n)
    <2> HIDE DEF Defines
    <2> QED BY <1>3
  <1>5. Rounds(next, first, n) = after
    BY DEF Rounds
  <1> HIDE DEF after
  <1>6. /\ after[0] = first
        /\ \A k \in 1..n : after[k] = next[after[k - 1]]
    BY <1>4
  <1>7. after \in [0..n -> S]
    <2> DEFINE strays == {k \in 0..n : after[k] \notin S}
    <2>1. strays = {}
      <3> SUFFICES ASSUME strays # {} PROVE FALSE
        OBVIOUS
      <3>1. PICK m \in strays : \A k \in strays : m <= k
        <4> strays \subseteq Nat
          OBVIOUS
        <4> HIDE DEF strays
        <4> QED BY LeastOf
      <3>2. m \in 1..n /\ after[m] \notin S
        BY <1>6
      <3>3. m - 1 \in 0..n /\ m - 1 \notin strays
        BY <3>1, <3>2
      <3> QED BY <1>6, <3>2, <3>3
    <2> QED BY <1>4, <2>1
  <1> QED BY <1>5, <1>6, <1>7

Characters == Letters \cup {NewLine}

LEMMA WidthIsNat ==
    ASSUME NEW t \in Seq(Characters), NEW a \in Int, NEW b \in Int
    PROVE  substring_width(t, a, b) \in Nat
  <1> DEFINE S == {i \in a..b : i < Len(t) /\ ~IsNewLine(t, i)}
  <1>1. IsFiniteSet(a..b) /\ S \subseteq a..b
    BY FS_Interval
  <1> HIDE DEF S
  <1>2. Cardinality(S) \in Nat
    BY <1>1, FS_Subset, FS_CardinalityType
  <1> DEFINE c == Cardinality(S)
  <1> HIDE DEF c
  <1>3. substring_width(t, a, b) = LetterWidth * c
    BY DEF substring_width, S, c
  <1>4. c \in Nat
    BY <1>2 DEF c
  <1> QED BY <1>3, <1>4, BoxAssumption

(* A character alone is narrower than a line.                              *)
LEMMA LetterFits ==
    ASSUME NEW t \in Seq(Characters), NEW i \in Int
    PROVE  substring_width(t, i, i) < InnerWidth
  <1> DEFINE S == {j \in i..i : j < Len(t) /\ ~IsNewLine(t, j)}
  <1>1. S = {} \/ S = {i}
    OBVIOUS
  <1>2. Cardinality(S) \in {0, 1}
    BY <1>1, FS_EmptySet, FS_Singleton
  <1> DEFINE c == Cardinality(S)
  <1> HIDE DEF c
  <1>3. substring_width(t, i, i) = LetterWidth * c
    BY DEF substring_width, S, c
  <1>4. c \in {0, 1}
    BY <1>2 DEF c
  <1> QED BY <1>3, <1>4, BoxAssumption

(* A line that is drawn ends in the text, after where the last one ended.  *)
LEMMA LineEndIsInText ==
    ASSUME NEW t \in Seq(Characters), NEW start \in Int, NEW end \in 0..Len(t)
    PROVE  /\ LineEnd(t, start, end) \in end..Len(t)
           /\ end < LastChar(t) => LineEnd(t, end + 1, end) \in (end + 1)..LastChar(t)
  <1> DEFINE LettersThatFit(s) == {i \in end..LastChar(t) :
                    \A j \in (end + 1)..i : substring_width(t, s, j) < InnerWidth /\ ~IsNewLine(t, j)}
             Furthest(s) == Max(LettersThatFit(s) \cup {end})
  <1>1. Len(t) \in Nat /\ LastChar(t) = Len(t) - 1 /\ LastChar(t) \in Int
    BY LenProperties DEF LastChar
  <1>2. \A s : /\ Furthest(s) \in end..Len(t) /\ (end <= LastChar(t) => Furthest(s) <= LastChar(t))
               /\ Furthest(s) \in LettersThatFit(s) \cup {end} /\ \A i \in LettersThatFit(s) : i <= Furthest(s)
    <2> TAKE s
    <2>1. LettersThatFit(s) \subseteq end..LastChar(t)
      OBVIOUS
    <2> HIDE DEF LettersThatFit
    <2>2. LettersThatFit(s) \cup {end} \subseteq 0..Len(t) /\ LettersThatFit(s) \cup {end} # {}
      BY <1>1, <2>1
    <2>3. Furthest(s) \in LettersThatFit(s) \cup {end} /\ \A i \in LettersThatFit(s) \cup {end} : i <= Furthest(s)
      BY <1>1, <2>2, GreatestOf
    <2> HIDE DEF Furthest
    <2> QED BY <1>1, <2>1, <2>3
  <1>3. \A s : LineEnd(t, s, end) = IF IsNewLine(t, Furthest(s) + 1) THEN Furthest(s) + 1 ELSE Furthest(s)
    BY DEF LineEnd
  <1>4. LineEnd(t, start, end) \in end..Len(t)
    <2> HIDE DEF Furthest, LettersThatFit
    <2> QED BY <1>1, <1>2, <1>3 DEF IsNewLine
  <1>5. ASSUME end < LastChar(t) PROVE LineEnd(t, end + 1, end) \in (end + 1)..LastChar(t)
    <2>1. CASE IsNewLine(t, end + 1)
      <3>1. Furthest(end + 1) = end
        <4>1. \A i \in LettersThatFit(end + 1) : i = end
          <5> SUFFICES ASSUME NEW i \in LettersThatFit(end + 1), i # end PROVE FALSE
            OBVIOUS
          <5>1. end + 1 \in (end + 1)..i
            BY <1>1
          <5> QED BY <2>1, <5>1
        <4> HIDE DEF Furthest, LettersThatFit
        <4> QED BY <1>2, <4>1
      <3> HIDE DEF Furthest, LettersThatFit
      <3> QED BY <1>1, <1>3, <1>5, <2>1, <3>1
    <2>2. CASE ~IsNewLine(t, end + 1)
      <3>1. end + 1 \in LettersThatFit(end + 1)
        <4>1. end + 1 \in end..LastChar(t)
          BY <1>1, <1>5
        <4>2. \A j \in (end + 1)..(end + 1) : substring_width(t, end + 1, j) < InnerWidth /\ ~IsNewLine(t, j)
          BY <2>2, LetterFits
        <4> QED BY <4>1, <4>2
      <3> HIDE DEF Furthest, LettersThatFit
      <3> QED BY <1>1, <1>2, <1>3, <1>5, <3>1 DEF IsNewLine
    <2> QED BY <2>1, <2>2
  <1> QED BY <1>4, <1>5

(* draw counts at least a line, and comes to an end.                       *)
LEMMA DrawnLines ==
    ASSUME NEW t \in Seq(Characters)
    PROVE  Drawn(t).lines \in Nat /\ Drawn(t).end \in 0..Len(t)
  <1> DEFINE n == Len(t)
             next == [end \in 0..n |-> IF end >= LastChar(t) THEN end ELSE LineEnd(t, end + 1, end)]
             first == LineEnd(t, 0, 0)
             ends == Rounds(next, first, n)
             lines == {line \in 0..n : ends[line] >= LastChar(t)}
             last == Min(lines)
  <1>1. n \in Nat /\ LastChar(t) = n - 1
    BY LenProperties DEF LastChar
  <1>2. first \in 0..n
    BY <1>1, LineEndIsInText
  <1>3. ASSUME NEW end \in 0..n PROVE next[end] \in 0..n /\ (end < LastChar(t) => next[end] > end)
    BY <1>1, LineEndIsInText
  <1>4. next \in [0..n -> 0..n]
    BY <1>3
  <1> HIDE DEF n, next, first
  <1>5. ends \in [0..n -> 0..n] /\ \A k \in 1..n : ends[k] = next[ends[k - 1]]
    <2> DEFINE S == 0..n
    <2>1. first \in S /\ next \in [S -> S]
      BY <1>2, <1>4
    <2> HIDE DEF S
    <2>2. ends \in [0..n -> S] /\ \A k \in 1..n : ends[k] = next[ends[k - 1]]
      BY <1>1, <2>1, RoundsDefined
    <2> QED BY <2>2 DEF S
  <1> HIDE DEF ends
  <1>e. \A k \in 0..n : ends[k] \in 0..n /\ ends[k] \in Int
    BY <1>1, <1>5
  <1>l. LastChar(t) \in Int
    BY <1>1
  <1>6. lines # {}
    <2> DEFINE short == {k \in 0..n : ~(ends[k] >= k \/ ends[k] >= LastChar(t))}
    <2>1. short = {}
      <3> SUFFICES ASSUME short # {} PROVE FALSE
        OBVIOUS
      <3>1. PICK m \in short : \A k \in short : m <= k
        <4> short \subseteq Nat
          OBVIOUS
        <4> HIDE DEF short
        <4> QED BY LeastOf
      <3>2. m \in 1..n /\ ends[m] < m /\ ends[m] < LastChar(t)
        BY <1>1, <1>e, <1>l
      <3>3. m - 1 \in 0..n /\ m - 1 \notin short
        <4> HIDE DEF short
        <4> QED BY <1>1, <3>1, <3>2
      <3>4. ends[m] = next[ends[m - 1]] /\ ends[m - 1] \in 0..n
        BY <1>5, <3>2, <3>3
      <3>5. ends[m - 1] >= m - 1 \/ ends[m - 1] >= LastChar(t)
        BY <3>3
      <3>6. ends[m - 1] < LastChar(t) => ends[m] > ends[m - 1]
        BY <1>3, <3>4
      <3> DEFINE before == ends[m - 1]
                 after == ends[m]
                 l == LastChar(t)
      <3>8. before \in Int /\ after \in Int /\ l \in Int /\ m \in Int
        BY <1>e, <1>l, <3>2, <3>4
      <3>7. ends[m - 1] >= LastChar(t) => ends[m] = ends[m - 1]
        BY <3>4 DEF next, n
      <3>9. /\ after < m /\ after < l /\ (before >= m - 1 \/ before >= l)
            /\ (before < l => after > before) /\ (before >= l => after = before)
        BY <3>2, <3>5, <3>6, <3>7
      <3> HIDE DEF before, after, l
      <3> QED BY <3>8, <3>9
    <2>2. ends[n] >= LastChar(t)
      <3>1. n \in 0..n /\ n \notin short
        BY <1>1, <2>1
      <3>2. ends[n] >= n \/ ends[n] >= LastChar(t)
        BY <3>1
      <3> QED BY <1>1, <1>e, <1>l, <3>1, <3>2
    <2> QED BY <1>1, <2>2
  <1>7. last \in lines
    <2> lines \subseteq Nat
      BY <1>1
    <2> HIDE DEF lines
    <2> QED BY <1>6, LeastOf
  <1>8. last \in Nat /\ ends[last] \in 0..n
    <2> HIDE DEF last
    <2> QED BY <1>1, <1>5, <1>7
  <1>9. Drawn(t) = [end |-> ends[last], lines |-> last + 1]
    BY DEF Drawn, ends, next, first, n
  <1> HIDE DEF last
  <1> QED BY <1>8, <1>9 DEF n

CaretPlaces == [eol : Nat, sol : Nat, line : Nat]

LEMMA CaretPlaceIsPlace ==
    ASSUME NEW t \in Seq(Characters), NEW pt \in Int
    PROVE  CaretPlace(t, pt) \in CaretPlaces
  <1> DEFINE Breaks(sol, eol) ==
                /\ IsNewLine(t, eol - 1) \/ substring_width(t, sol, eol) >= InnerWidth
                /\ IsNewLine(t, eol) \/ eol # pt \/ IsNewLine(t, eol - 1)
             next == [at \in CaretPlaces |->
                        IF Breaks(at.sol, at.eol + 1)
                        THEN [eol |-> at.eol + 1, sol |-> at.eol + 1, line |-> at.line + 1]
                        ELSE [at EXCEPT !.eol = @ + 1]]
             first == [eol |-> 0, sol |-> 0, line |-> 0]
             after == Rounds(next, first, Len(t))
  <1>1. first \in CaretPlaces /\ next \in [CaretPlaces -> CaretPlaces]
    <2>1. first \in CaretPlaces
      BY DEF CaretPlaces
    <2>2. ASSUME NEW at \in CaretPlaces
          PROVE  /\ [eol |-> at.eol + 1, sol |-> at.eol + 1, line |-> at.line + 1] \in CaretPlaces
                 /\ [at EXCEPT !.eol = @ + 1] \in CaretPlaces
      BY DEF CaretPlaces
    <2> HIDE DEF Breaks, first
    <2> QED BY <2>1, <2>2
  <1>2. CaretPlace(t, pt) = after[InText(t, pt)]
    BY DEF CaretPlace, CaretPlaces
  <1>3. Len(t) \in Nat /\ InText(t, pt) \in 0..Len(t)
    BY LenProperties DEF InText
  <1> HIDE DEF next, first
  <1>4. after \in [0..Len(t) -> CaretPlaces]
    BY <1>1, <1>3, RoundsDefined
  <1> HIDE DEF after
  <1> QED BY <1>2, <1>3, <1>4

LEMMA LineAfterIsInText ==
    ASSUME NEW t \in Seq(Characters), NEW sol \in 0..LastChar(t)
    PROVE  LineAfter(t, sol) \in 0..LastChar(t)
  <1> DEFINE last == LastChar(t)
             fits == {i \in sol..last :
                        \A j \in sol..(i - 1) : ~IsNewLine(t, j)
                                                /\ substring_width(t, sol, j + 1) <= InnerWidth}
             end == Max(fits)
  <1>1. last \in Nat
    BY LenProperties DEF LastChar
  <1>2. fits \subseteq 0..last /\ sol \in fits
    BY <1>1
  <1> HIDE DEF fits
  <1>3. end \in 0..last
    BY <1>1, <1>2, GreatestOf
  <1>4. LineAfter(t, sol) = IF IsNewLine(t, end) /\ end < last THEN end + 1 ELSE end
    BY DEF LineAfter, fits
  <1> HIDE DEF end, last
  <1> QED BY <1>1, <1>3, <1>4 DEF last

(* Below the last line no press is.                                        *)
LEMMA SeekLineFinds ==
    ASSUME NEW e, e.text \in Seq(Characters), e.text # <<>>, e.start_line \in Int, NEW y \in Int
    PROVE  SeekLine(e, y).sol \in 0..LastChar(e.text) /\ SeekLine(e, y).line \in Nat
  <1> DEFINE last == LastChar(e.text)
             most == Greater(e.start_line + y \div LineHeight, 0)
             next == [sol \in 0..last |-> LineAfter(e.text, sol)]
             starts == Rounds(next, 0, most)
             lines == {line \in 0..most :
                        (line - e.start_line + 1) * LineHeight >= y \/ starts[line] >= last}
             found == Min(lines)
  <1>1. last \in Nat
    BY LenProperties, EmptySeq DEF LastChar
  <1>2. /\ most \in Nat
        /\ (most - e.start_line + 1) * LineHeight >= y
    <2> DEFINE q == y \div 15
    <2>1. q \in Int /\ y < 15 * q + 15
      OBVIOUS
    <2>2. most = IF e.start_line + q > 0 THEN e.start_line + q ELSE 0
      BY DEF Greater, LineHeight
    <2> HIDE DEF q, most
    <2> QED BY <2>1, <2>2 DEF LineHeight
  <1>3. next \in [0..last -> 0..last]
    BY LineAfterIsInText
  <1> HIDE DEF most, next
  <1>4. starts \in [0..most -> 0..last]
    <2> DEFINE S == 0..last
    <2>1. 0 \in S /\ next \in [S -> S]
      BY <1>1, <1>3
    <2> HIDE DEF S
    <2>2. starts \in [0..most -> S]
      BY <1>2, <2>1, RoundsDefined
    <2> QED BY <2>2 DEF S
  <1> HIDE DEF starts
  <1>5. found \in lines
    <2>1. lines \subseteq Nat /\ most \in lines
      BY <1>2
    <2> HIDE DEF lines
    <2> QED BY <2>1, LeastOf
  <1>6. found \in Nat /\ starts[found] \in 0..last
    <2> HIDE DEF found
    <2> QED BY <1>2, <1>4, <1>5
  <1>7. SeekLine(e, y) = [sol |-> starts[found], line |-> found]
    BY DEF SeekLine, most, next, starts
  <1> HIDE DEF found
  <1> QED BY <1>6, <1>7

(* What a press, or what passes for one, leaves of the fields of e.        *)
Pressed(e, f) ==
    \/ f = e
    \/ \E x, y \in Int, line \in Nat :
          f = [e EXCEPT !.insert_x = x, !.insert_y = y, !.curr_line = line]

(* Where a press is taken to be: in the text, or right behind it.          *)
LEMMA PressIsInText ==
    ASSUME NEW e, e.text \in Seq(Characters), e.start_line \in Int, NEW x \in Int, NEW y \in Int
    PROVE  /\ find_insertion_pt(e, x, y).pt \in 0..Len(e.text)
           /\ Pressed(e, find_insertion_pt(e, x, y).box)
  <1> DEFINE t == e.text
             found == SeekLine(e, y)
             Upto(i) == substring_width(t, found.sol, i)
             ends == {i \in found.sol..Len(t) :
                        i = Len(t) \/ Upto(i) >= x \/ (i # LastChar(t) /\ IsNewLine(t, i))}
             eol == Min(ends)
             total == Upto(eol)
             before == IF eol = found.sol THEN 0 ELSE Upto(eol - 1)
             after == total >= x /\ x > before + (total - before) \div 2
  <1>1. CASE t = <<>>
    BY <1>1, EmptySeq DEF find_insertion_pt, Pressed
  <1>2. CASE t # <<>>
    <2>1. /\ Len(t) \in Nat /\ Len(t) > 0 /\ LastChar(t) = Len(t) - 1
          /\ found.sol \in 0..LastChar(t) /\ found.line \in Nat
      BY <1>2, LenProperties, EmptySeq, SeekLineFinds DEF LastChar
    <2>2. eol \in found.sol..Len(t)
      <3>1. ends \subseteq Nat /\ Len(t) \in ends
        BY <2>1
      <3> DEFINE S == ends
      <3>2. Min(S) \in S
        <4> HIDE DEF S
        <4> QED BY <3>1, LeastOf DEF S
      <3> QED BY <3>2
    <2>3. eol = Len(t) => ~after
      <3> SUFFICES ASSUME eol = Len(t) PROVE ~after
        OBVIOUS
      <3>1. eol # found.sol
        BY <2>1
      <3>2. total = before
        <4>1. {i \in found.sol..Len(t) : i < Len(t) /\ ~IsNewLine(t, i)}
                 = {i \in found.sol..(Len(t) - 1) : i < Len(t) /\ ~IsNewLine(t, i)}
          BY <2>1
        <4> HIDE DEF eol, found
        <4> QED BY <3>1, <4>1 DEF substring_width
      <3>3. total \in Int
        <4> HIDE DEF found, eol
        <4> QED BY <2>1, <2>2, WidthIsNat
      <3> DEFINE w == total
      <3>4. after => w >= x /\ x > w + (w - w) \div 2
        BY <3>2
      <3>5. w \in Int
        BY <3>3
      <3> HIDE DEF w, after
      <3>6. w + (w - w) \div 2 = w
        BY <3>5
      <3> QED BY <3>4, <3>5, <3>6
    <2>4. find_insertion_pt(e, x, y)
             = [box |-> [e EXCEPT !.insert_x = x, !.insert_y = y + BoxTop + 5, !.curr_line = found.line],
                pt |-> IF after THEN eol + 1 ELSE eol]
      BY <1>2 DEF find_insertion_pt, PlaceAt
    <2>5. (IF after THEN eol + 1 ELSE eol) \in 0..Len(t)
      <3> HIDE DEF after, eol, found
      <3> QED BY <2>1, <2>2, <2>3
    <2>6. y + BoxTop + 5 \in Int
      BY BoxAssumption
    <2> DEFINE pt == IF after THEN eol + 1 ELSE eol
               place == y + BoxTop + 5
               line == found.line
               box == [e EXCEPT !.insert_x = x, !.insert_y = place, !.curr_line = line]
    <2>7. find_insertion_pt(e, x, y) = [box |-> box, pt |-> pt] /\ pt \in 0..Len(t)
          /\ place \in Int /\ line \in Nat
      BY <2>1, <2>4, <2>5, <2>6
    <2> HIDE DEF pt, place, line, found
    <2>8. Pressed(e, box)
      BY <2>7 DEF Pressed
    <2> HIDE DEF box
    <2>9. find_insertion_pt(e, x, y).box = box /\ find_insertion_pt(e, x, y).pt = pt
      BY <2>7
    <2> QED BY <2>7, <2>8, <2>9
  <1> QED BY <1>1, <1>2

LEMMA BreakIsInText ==
    ASSUME NEW t \in Seq(Characters), NEW start \in Int
    PROVE  break_at(t, start, -1) \in 0..Len(t) /\ break_at(t, start, 1) \in 0..Len(t)
  <1> SUFFICES ASSUME NEW direction \in {-1, 1} PROVE break_at(t, start, direction) \in 0..Len(t)
    OBVIOUS
  <1> DEFINE first == IF direction = -1 THEN start - 2 ELSE start
             passed == IF first \notin 0..LastChar(t) THEN {}
                       ELSE IF direction = -1 THEN 0..first ELSE first..LastChar(t)
             breaks == {i \in passed : IsNewLine(t, i)}
  <1>1. Len(t) \in Nat
    BY LenProperties
  <1>2. breaks \subseteq 0 .. Len(t) - 1
    BY <1>1 DEF IsNewLine
  <1>3. break_at(t, start, direction) =
            IF breaks = {} THEN (IF direction = 1 THEN Len(t) ELSE 0)
            ELSE (IF direction = 1 THEN Min(breaks) ELSE Max(breaks)) + 1
    BY DEF break_at
  <1> HIDE DEF breaks
  <1>4. CASE breaks = {}
    BY <1>1, <1>3, <1>4
  <1>5. CASE breaks # {}
    <2>1. breaks \subseteq Nat /\ breaks \subseteq 0..Len(t)
      BY <1>1, <1>2
    <2>2. Min(breaks) \in breaks /\ Max(breaks) \in breaks
      BY <1>1, <1>5, <2>1, LeastOf, GreatestOf
    <2> DEFINE m == IF direction = 1 THEN Min(breaks) ELSE Max(breaks)
    <2>3. m \in 0 .. Len(t) - 1
      BY <1>2, <2>2
    <2>4. break_at(t, start, direction) = m + 1
      BY <1>3, <1>5
    <2> HIDE DEF m
    <2> QED BY <1>1, <2>3, <2>4
  <1> QED BY <1>4, <1>5

TextBoxes ==
    [text : Seq(Characters), insertion_pt : Int, sel_start : Int, sel_end : Int,
     substring_end : Int, start_line : Nat, curr_line : Nat, visible_lines : Nat,
     num_lines : Nat, insert_x : Int, insert_y : Int, keygoal_x : Int, active : BOOLEAN]

(* An erased character leaves sel_start and sel_end behind the text, which *)
(* harms nothing while they are equal; what is selected begins in it.      *)
CaretHeld(e) ==
    /\ e.insertion_pt \in -1 .. Len(e.text)
    /\ e.insertion_pt = -1 => e.sel_start = e.sel_end
    /\ e.sel_start >= 0 /\ e.sel_end >= 0
    /\ e.sel_start # e.sel_end => SelFrom(e) <= Len(e.text)

Held(e) == e \in TextBoxes /\ CaretHeld(e)

(* The scrollbar's limits and what it has told of are numbers of lines.    *)
LinesBar(b) ==
    b \in Bars /\ Fits(b) /\ b.data_type = "int" /\ b.min >= 0 /\ b.max >= 0 /\ b.told >= 0

BoxInv == LinesBar(bar) /\ Held(tb)

LEMMA HeldIsInText == \A e : Held(e) /\ e.insertion_pt # -1 =>
    /\ e.insertion_pt \in 0..Len(e.text)
    /\ e.sel_start # e.sel_end => SelFrom(e) \in 0..Len(e.text)
  <1> TAKE e
  <1> SUFFICES ASSUME Held(e), e.insertion_pt # -1
               PROVE  /\ e.insertion_pt \in 0..Len(e.text)
                      /\ e.sel_start # e.sel_end => SelFrom(e) \in 0..Len(e.text)
    OBVIOUS
  <1>1. Len(e.text) \in Nat /\ e.sel_start \in Int /\ e.sel_end \in Int
    BY LenProperties DEF Held, TextBoxes
  <1> QED BY <1>1 DEF Held, CaretHeld, SelFrom

LEMMA WithoutIsText ==
    ASSUME NEW t \in Seq(Characters), NEW a \in 0..Len(t), NEW b \in Int, b >= 0
    PROVE  Without(t, a, b) \in Seq(Characters) /\ a <= Len(Without(t, a, b))
  <1> DEFINE front == SubSeq(t, 1, a)
             back == SubSeq(t, b + 1, Len(t))
  <1>1. Len(t) \in Nat /\ \A i \in 1..Len(t) : t[i] \in Characters
    BY LenProperties, ElementOfSeq
  <1>2. front \in Seq(Characters) /\ Len(front) = a
    BY <1>1, SubSeqProperties
  <1>3. back \in Seq(Characters) /\ Len(back) \in Nat
    BY <1>1, SubSeqProperties, LenProperties
  <1> HIDE DEF front, back
  <1>4. front \o back \in Seq(Characters) /\ Len(front \o back) = Len(front) + Len(back)
    BY <1>2, <1>3, ConcatProperties
  <1> DEFINE rest == front \o back
  <1>5. rest \in Seq(Characters) /\ Len(rest) = a + Len(back)
    BY <1>2, <1>4
  <1>6. Without(t, a, b) = rest
    BY DEF Without, front, back
  <1> HIDE DEF rest
  <1> QED BY <1>1, <1>3, <1>5, <1>6

LEMMA PutAtHolds ==
    ASSUME NEW e \in TextBoxes, NEW p \in 0..Len(e.text)
    PROVE  Held(PutAt(e, p)) /\ PutAt(e, p).text = e.text /\ PutAt(e, p).insertion_pt = p
           /\ PutAt(e, p).substring_end = e.substring_end
  <1>1. Len(e.text) \in Nat /\ p \in Int
    BY LenProperties DEF TextBoxes
  <1>2. /\ PutAt(e, p) \in TextBoxes /\ PutAt(e, p).text = e.text
        /\ PutAt(e, p).insertion_pt = p /\ PutAt(e, p).sel_start = p /\ PutAt(e, p).sel_end = p
        /\ PutAt(e, p).substring_end = e.substring_end
    BY <1>1 DEF PutAt, TextBoxes
  <1> QED BY <1>1, <1>2 DEF Held, CaretHeld

LEMMA ClearSelectionHolds ==
    ASSUME NEW e \in TextBoxes, e.sel_start >= 0, e.sel_end >= 0, SelFrom(e) <= Len(e.text)
    PROVE  Held(ClearSelection(e)) /\ ClearSelection(e).insertion_pt # -1
  <1> DEFINE from == SelFrom(e)
             rest == Without(e.text, from, SelTo(e))
             f == [e EXCEPT !.text = rest]
  <1>1. from \in 0..Len(e.text) /\ SelTo(e) \in Int /\ SelTo(e) >= 0
    BY LenProperties DEF TextBoxes, SelFrom, SelTo
  <1>2. rest \in Seq(Characters) /\ from <= Len(rest) /\ Len(rest) \in Nat
    <2>1. e.text \in Seq(Characters)
      BY DEF TextBoxes
    <2>2. rest \in Seq(Characters) /\ from <= Len(rest)
      BY <1>1, <2>1, WithoutIsText
    <2> QED BY <2>2, LenProperties
  <1> DEFINE s == from
  <1>3. s \in 0..Len(rest)
    <2>1. Len(e.text) \in Nat
      BY LenProperties DEF TextBoxes
    <2> HIDE DEF rest
    <2> QED BY <1>1, <1>2, <2>1
  <1>4. ClearSelection(e) = PutAt(f, s)
    BY DEF ClearSelection
  <1> HIDE DEF rest, s
  <1>5. f \in TextBoxes /\ f.text = rest
    BY <1>2 DEF TextBoxes
  <1> HIDE DEF f
  <1>6. s \in 0..Len(f.text) /\ s # -1
    BY <1>3, <1>5
  <1> QED BY <1>4, <1>5, <1>6, PutAtHolds

LEMMA InsertHolds ==
    ASSUME NEW e, Held(e), e.insertion_pt # -1, NEW key \in Characters
    PROVE  Held(insert_key(e, key))
  <1> DEFINE f == IF e.sel_start # e.sel_end THEN ClearSelection(e) ELSE e
  <1>1. Held(f) /\ f.insertion_pt # -1
    BY ClearSelectionHolds DEF Held, CaretHeld
  <1> HIDE DEF f
  <1> DEFINE p == f.insertion_pt
             t == f.text
             new == SubSeq(t, 1, p) \o <<key>> \o SubSeq(t, p + 1, Len(t))
             end == f.substring_end + 1
             g == [f EXCEPT !.text = new, !.substring_end = end]
  <1>2. t \in Seq(Characters) /\ Len(t) \in Nat /\ p \in 0..Len(t)
    BY <1>1, HeldIsInText, LenProperties DEF Held, TextBoxes
  <1>3. new \in Seq(Characters) /\ p + 1 \in 0..Len(new)
    <2> HIDE DEF t, p
    <2>1. \A i \in 1..Len(t) : t[i] \in Characters
      BY <1>2, ElementOfSeq
    <2> DEFINE front == SubSeq(t, 1, p)
               back == SubSeq(t, p + 1, Len(t))
               one == <<key>>
    <2>2. front \in Seq(Characters) /\ Len(front) = p
      BY <1>2, <2>1, SubSeqProperties
    <2>3. back \in Seq(Characters) /\ Len(back) \in Nat
      BY <1>2, <2>1, SubSeqProperties, LenProperties
    <2>4. one \in Seq(Characters) /\ Len(one) = 1
      OBVIOUS
    <2> HIDE DEF front, back, one
    <2>5. front \o one \in Seq(Characters) /\ Len(front \o one) = Len(front) + Len(one)
      BY <2>2, <2>4, ConcatProperties
    <2> DEFINE both == front \o one
    <2> HIDE DEF both
    <2>6. both \in Seq(Characters) /\ Len(both) = p + 1
      BY <2>2, <2>4, <2>5 DEF both
    <2>7. both \o back \in Seq(Characters) /\ Len(both \o back) = Len(both) + Len(back)
      BY <2>3, <2>6, ConcatProperties
    <2>8. new = both \o back
      BY DEF both, front, back, one
    <2> HIDE DEF new
    <2> QED BY <1>2, <2>3, <2>6, <2>7, <2>8
  <1>4. insert_key(e, key) = PutAt(g, p + 1)
    BY DEF insert_key, f
  <1>e. end \in Int
    <2>1. f.substring_end \in Int
      BY <1>1 DEF Held, TextBoxes
    <2> QED BY <2>1
  <1> HIDE DEF new, end
  <1>5. g \in TextBoxes /\ g.text = new
    BY <1>1, <1>3, <1>e DEF Held, TextBoxes
  <1> HIDE DEF g, p
  <1> QED BY <1>3, <1>4, <1>5, PutAtHolds

LEMMA EraseHolds ==
    ASSUME NEW e, Held(e), NEW key \in Erasures,
           \/ key \in {"backspace", "erase_all"}
           \/ e.sel_start # e.sel_end
           \/ e.insertion_pt # -1
    PROVE  Held(erase_key(e, key))
  <1> DEFINE p == e.insertion_pt
             t == e.text
             none == e.sel_start = e.sel_end
             word == IF none THEN [e EXCEPT !.sel_start = p, !.sel_end = break_at(t, p, 1)] ELSE e
  <1>1. /\ e \in TextBoxes /\ t \in Seq(Characters) /\ Len(t) \in Nat
        /\ p \in Int /\ p - 1 \in Int /\ p \in -1 .. Len(t) /\ e.sel_start \in Int /\ e.sel_end \in Int
        /\ e.sel_start >= 0 /\ e.sel_end >= 0 /\ (p = -1 => none)
        /\ ~none => SelFrom(e) <= Len(t)
    BY LenProperties DEF Held, CaretHeld, TextBoxes
  <1>2. ASSUME ~none PROVE Held(ClearSelection(e))
    BY <1>1, <1>2, ClearSelectionHolds
  <1>3. CASE key = "erase_all"
    <2> DEFINE f == [e EXCEPT !.text = <<>>]
    <2>1. erase_key(e, key) = PutAt(f, 0)
      BY <1>3 DEF erase_key
    <2> DEFINE nothing == <<>>
    <2>2. nothing \in Seq(Characters) /\ Len(nothing) = 0
      BY EmptySeq
    <2>3. f = [e EXCEPT !.text = nothing]
      OBVIOUS
    <2> HIDE DEF nothing, f
    <2>4. f \in TextBoxes /\ f.text = nothing
      BY <1>1, <2>2, <2>3 DEF TextBoxes
    <2>5. 0 \in 0..Len(f.text)
      BY <2>2, <2>4
    <2> QED BY <2>1, <2>4, <2>5, PutAtHolds
  <1>4. CASE key = "kill"
    <2>1. p \in 0..Len(t)
      BY <1>1, <1>4
    <2> DEFINE front == SubSeq(t, 1, p)
               f == [e EXCEPT !.text = front, !.sel_start = p, !.sel_end = p]
    <2>2. erase_key(e, key) = f
      BY <1>4 DEF erase_key
    <2>3. front \in Seq(Characters) /\ Len(front) = p
      <3>1. \A i \in 1..Len(t) : t[i] \in Characters
        BY <1>1, ElementOfSeq
      <3> HIDE DEF t, p
      <3> QED BY <1>1, <2>1, <3>1, SubSeqProperties
    <2> HIDE DEF front
    <2>4. /\ f \in TextBoxes /\ f.text = front /\ f.insertion_pt = p
          /\ f.sel_start = p /\ f.sel_end = p
      BY <1>1, <2>1, <2>3 DEF TextBoxes
    <2> HIDE DEF f, p
    <2> QED BY <1>1, <2>1, <2>2, <2>3, <2>4 DEF Held, CaretHeld
  <1>5. CASE key = "delete_word"
    <2>1. erase_key(e, key) = ClearSelection(word)
      BY <1>5 DEF erase_key
    <2>2. CASE ~none
      BY <1>2, <2>1, <2>2
    <2>3. CASE none
      <3> DEFINE end == break_at(t, p, 1)
                 f == [e EXCEPT !.sel_start = p, !.sel_end = end]
      <3>1. p \in 0..Len(t) /\ end \in 0..Len(t) /\ end \in Int
        <4>1. p \in 0..Len(t) /\ p \in Int
          BY <1>1, <1>5, <2>3
        <4> HIDE DEF p, t
        <4>2. end \in 0..Len(t)
          BY <1>1, <4>1, BreakIsInText
        <4> QED BY <1>1, <4>1, <4>2
      <3>2. erase_key(e, key) = ClearSelection(f)
        BY <2>1, <2>3
      <3> HIDE DEF end
      <3>3. f \in TextBoxes /\ f.text = t /\ f.sel_start = p /\ f.sel_end = end
        BY <1>1, <3>1 DEF TextBoxes
      <3> HIDE DEF f
      <3>4. f.sel_start >= 0 /\ f.sel_end >= 0 /\ SelFrom(f) <= Len(f.text)
        <4> HIDE DEF p, t
        <4> QED BY <1>1, <3>1, <3>3 DEF SelFrom
      <3> QED BY <3>2, <3>3, <3>4, ClearSelectionHolds
    <2> QED BY <2>2, <2>3
  <1>6. CASE key \in {"delete", "backspace"}
    <2>1. CASE ~none
      BY <1>2, <1>6, <2>1 DEF erase_key
    <2>2. CASE none /\ key = "delete"
      <3> DEFINE rest == Without(t, p, p + 1)
                 f == [e EXCEPT !.text = rest]
      <3>1. p \in 0..Len(t)
        BY <1>1, <2>2
      <3>2. rest \in Seq(Characters) /\ p <= Len(rest) /\ Len(rest) \in Nat
        <4> HIDE DEF p, t
        <4>1. p + 1 \in Int /\ p + 1 >= 0
          BY <1>1, <3>1
        <4>2. rest \in Seq(Characters) /\ p <= Len(rest)
          BY <1>1, <3>1, <4>1, WithoutIsText
        <4> QED BY <4>2, LenProperties
      <3>3. erase_key(e, key) = f
        BY <2>2 DEF erase_key
      <3> HIDE DEF rest
      <3>4. /\ f \in TextBoxes /\ f.text = rest /\ f.insertion_pt = p
            /\ f.sel_start = e.sel_start /\ f.sel_end = e.sel_end
        BY <1>1, <3>2 DEF TextBoxes
      <3> HIDE DEF f
      <3> QED BY <1>1, <2>2, <3>1, <3>2, <3>3, <3>4 DEF Held, CaretHeld
    <2>3. CASE none /\ key = "backspace" /\ p > 0
      <3> DEFINE rest == Without(t, p - 1, p)
                 f == [e EXCEPT !.text = rest, !.insertion_pt = p - 1]
      <3>2. rest \in Seq(Characters) /\ p - 1 <= Len(rest) /\ Len(rest) \in Nat
        <4> HIDE DEF p, t
        <4>1. p - 1 \in 0..Len(t) /\ p \in Int /\ p >= 0
          BY <1>1, <2>3
        <4>2. rest \in Seq(Characters) /\ p - 1 <= Len(rest)
          BY <1>1, <4>1, WithoutIsText
        <4> QED BY <4>2, LenProperties
      <3>3. erase_key(e, key) = f
        BY <2>3 DEF erase_key
      <3> HIDE DEF rest
      <3>4. /\ f \in TextBoxes /\ f.text = rest /\ f.insertion_pt = p - 1
            /\ f.sel_start = e.sel_start /\ f.sel_end = e.sel_end
        BY <1>1, <3>2 DEF TextBoxes
      <3> HIDE DEF f
      <3> QED BY <1>1, <2>3, <3>2, <3>3, <3>4 DEF Held, CaretHeld
    <2>4. CASE none /\ key = "backspace" /\ ~(p > 0)
      BY <2>4 DEF erase_key
    <2> QED BY <1>6, <2>1, <2>2, <2>3, <2>4
  <1> QED BY <1>3, <1>4, <1>5, <1>6 DEF Erasures

(* Keys that move the insertion point.                                     *)
LEMMA InTextIsInText ==
    ASSUME NEW t \in Seq(Characters), NEW i \in Int
    PROVE  InText(t, i) \in 0..Len(t)
  BY LenProperties DEF InText

LEMMA MoveToHolds ==
    ASSUME NEW e \in TextBoxes, NEW p \in Int, NEW shift
    PROVE  Held(MoveTo(e, p, shift))
  <1> DEFINE t == e.text
             i == InText(t, p)
             q == IF shift THEN e.sel_start ELSE p
             s == InText(t, q)
             f == [e EXCEPT !.insertion_pt = i, !.sel_end = i, !.sel_start = s]
  <1>1. t \in Seq(Characters) /\ Len(t) \in Nat /\ e.sel_start \in Int
    BY LenProperties DEF TextBoxes
  <1>2. i \in 0..Len(t) /\ s \in 0..Len(t) /\ i \in Int /\ s \in Int
    <2>1. q \in Int
      BY <1>1
    <2> HIDE DEF q, t
    <2>2. i \in 0..Len(t) /\ s \in 0..Len(t)
      BY <1>1, <2>1, InTextIsInText
    <2> HIDE DEF i, s
    <2> QED BY <1>1, <2>2
  <1>3. MoveTo(e, p, shift) = f
    BY DEF MoveTo
  <1> HIDE DEF i, s
  <1>4. f \in TextBoxes /\ f.text = t /\ f.insertion_pt = i /\ f.sel_start = s /\ f.sel_end = i
    BY <1>1, <1>2 DEF TextBoxes
  <1> HIDE DEF f, t
  <1> QED BY <1>1, <1>2, <1>3, <1>4 DEF Held, CaretHeld, SelFrom

LEMMA HorizontalHolds ==
    ASSUME NEW e \in TextBoxes, NEW key \in {"left", "right", "home", "end"},
           NEW shift, NEW ctrl
    PROVE  Held(horizontal_key(e, key, shift, ctrl))
  <1> DEFINE p == e.insertion_pt
             to == CASE key = "left" -> IF ctrl THEN break_at(e.text, p, -1) ELSE p - 1
                     [] key = "right" -> IF ctrl THEN break_at(e.text, p, 1) ELSE p + 1
                     [] key = "home" -> 0
                     [] key = "end" -> Len(e.text)
  <1>1. e.text \in Seq(Characters) /\ Len(e.text) \in Nat /\ p \in Int
    BY LenProperties DEF TextBoxes
  <1>2. break_at(e.text, p, -1) \in Int /\ break_at(e.text, p, 1) \in Int
    <2>1. break_at(e.text, p, -1) \in 0..Len(e.text) /\ break_at(e.text, p, 1) \in 0..Len(e.text)
      <3> HIDE DEF p
      <3> QED BY <1>1, BreakIsInText
    <2> QED BY <1>1, <2>1
  <1>3. to \in Int
    BY <1>1, <1>2
  <1>4. horizontal_key(e, key, shift, ctrl) = MoveTo(e, to, shift)
    BY DEF horizontal_key
  <1> HIDE DEF to
  <1> QED BY <1>3, <1>4, MoveToHolds

(* A press, which a drag and the keys up and down repeat.                  *)
LEMMA PressHolds ==
    ASSUME NEW e, Held(e), NEW x \in Int, NEW y \in Int
    PROVE  LET found == find_insertion_pt(e, x, y)
           IN  /\ found.pt \in 0..Len(e.text) /\ Held(found.box)
               /\ found.box.text = e.text /\ found.box.substring_end = e.substring_end
               /\ found.box.sel_end = e.sel_end
  <1> DEFINE found == find_insertion_pt(e, x, y)
  <1>1. e \in TextBoxes /\ e.text \in Seq(Characters) /\ e.start_line \in Int
    BY DEF Held, TextBoxes
  <1>2. found.pt \in 0..Len(e.text) /\ Pressed(e, found.box)
    BY <1>1, PressIsInText
  <1> HIDE DEF found
  <1>3. CASE found.box = e
    BY <1>2, <1>3 DEF found
  <1>4. ASSUME NEW a \in Int, NEW b \in Int, NEW line \in Nat,
               found.box = [e EXCEPT !.insert_x = a, !.insert_y = b, !.curr_line = line]
        PROVE  /\ Held(found.box) /\ found.box.text = e.text
               /\ found.box.substring_end = e.substring_end /\ found.box.sel_end = e.sel_end
    <2> DEFINE f == [e EXCEPT !.insert_x = a, !.insert_y = b, !.curr_line = line]
    <2>1. /\ f \in TextBoxes /\ f.text = e.text /\ f.insertion_pt = e.insertion_pt
          /\ f.sel_start = e.sel_start /\ f.sel_end = e.sel_end /\ f.substring_end = e.substring_end
      BY <1>1, <1>4 DEF TextBoxes
    <2>2. found.box = f
      BY <1>4
    <2> HIDE DEF f
    <2> QED BY <2>1, <2>2 DEF Held, CaretHeld, SelFrom
  <1>6. /\ Held(found.box) /\ found.box.text = e.text
        /\ found.box.substring_end = e.substring_end /\ found.box.sel_end = e.sel_end
    <2>1. CASE found.box # e
      <3>1. PICK a \in Int, b \in Int, line \in Nat :
              found.box = [e EXCEPT !.insert_x = a, !.insert_y = b, !.curr_line = line]
        BY <1>2, <2>1, Zenon DEF Pressed
      <3> QED BY <1>4, <3>1
    <2> QED BY <1>3, <2>1
  <1> QED BY <1>2, <1>6 DEF found

LEMMA VerticalHolds ==
    ASSUME NEW e, Held(e), NEW up, NEW shift
    PROVE  Held(vertical_key(e, up, shift))
  <1> DEFINE y == e.insert_y + (IF up THEN -LineHeight ELSE LineHeight) - BoxTop - 5
             found == find_insertion_pt(e, e.keygoal_x, y)
  <1>1. y \in Int /\ e.keygoal_x \in Int
    <2> DEFINE from == e.insert_y
    <2>1. from \in Int /\ e.keygoal_x \in Int
      BY DEF Held, TextBoxes
    <2>2. y = from + (IF up THEN -15 ELSE 15) - BoxTop - 5
      BY DEF LineHeight
    <2> HIDE DEF from, y
    <2> QED BY <2>1, <2>2, BoxAssumption
  <1> HIDE DEF y
  <1>2. found.pt \in 0..Len(e.text) /\ Held(found.box)
    BY <1>1, PressHolds
  <1> HIDE DEF found
  <1>3. Held(MoveTo(found.box, found.pt, shift))
    <2>1. found.pt \in Int /\ found.box \in TextBoxes
      BY <1>2 DEF Held
    <2> QED BY <2>1, MoveToHolds
  <1>4. vertical_key(e, up, shift) \in {e, MoveTo(found.box, found.pt, shift)}
    BY DEF vertical_key, found, y
  <1> QED BY <1>3, <1>4

(* Whatever is done to such a bar, by the program and the user, leaves one. *)
LEMMA LinesBarSet ==
    ASSUME NEW b, LinesBar(b)
    PROVE  /\ LinesBar(bar_callbacks(b)) /\ LinesBar(update_scroll_parameters(b))
           /\ \A n \in Int : LinesBar(bar_set_int_val(b, n)) /\ LinesBar(bar_set_float_val(b, n))
           /\ \A s \in {"none", "up", "down", "scroll"} : LinesBar([b EXCEPT !.state = s])
           /\ \A g \in BOOLEAN : (b.given => g) => LinesBar([b EXCEPT !.given = g])
  <1> /\ b \in Bars /\ Fits(b) /\ b.data_type = "int" /\ b.min >= 0 /\ b.max >= 0 /\ b.told >= 0
    BY DEF LinesBar
  <1>1. LinesBar(bar_callbacks(b))
    <2> DEFINE value == BarValue(b)
               d == [b EXCEPT !.last_int_val = b.int_val, !.last_float_val = b.float_val,
                              !.first_callback = FALSE, !.told = value, !.given = FALSE]
    <2>1. value \in Int /\ value >= 0
      BY LimitsAreInts DEF Fits, Unit, Lower, Upper
    <2> HIDE DEF value
    <2>2. /\ d \in Bars /\ d.data_type = b.data_type /\ d.told = value
          /\ d.int_val = b.int_val /\ d.float_val = b.float_val /\ d.min = b.min /\ d.max = b.max
          /\ d.last_live = b.last_live
      BY <2>1 DEF Bars
    <2>3. bar_callbacks(b) \in {b, d}
      BY DEF bar_callbacks, value
    <2> HIDE DEF d
    <2>4. Fits(d)
      BY <2>2 DEF Fits, BarValue, Unit, Lower, Upper
    <2> QED BY <2>1, <2>2, <2>3, <2>4 DEF LinesBar
  <1>2. LinesBar(update_scroll_parameters(b))
    BY UpdateParameters DEF LinesBar, SameBar, SameKind, SameLimits
  <1>3. ASSUME NEW n \in Int
        PROVE  LinesBar(bar_set_int_val(b, n)) /\ LinesBar(bar_set_float_val(b, n))
    BY SetInt, SetFloat DEF LinesBar, SameBar, SameKind, SameLimits
  <1>4. ASSUME NEW s \in {"none", "up", "down", "scroll"} PROVE LinesBar([b EXCEPT !.state = s])
    BY DEF LinesBar, Bars, Fits, BarValue, Unit, Lower, Upper
  <1>5. ASSUME NEW g \in BOOLEAN, b.given => g PROVE LinesBar([b EXCEPT !.given = g])
    <2> DEFINE d == [b EXCEPT !.given = g]
    <2>1. b.given \in BOOLEAN /\ b.first_callback => g
      BY <1>5 DEF Bars
    <2>2. /\ d \in Bars /\ d.data_type = b.data_type /\ d.told = b.told
          /\ d.int_val = b.int_val /\ d.float_val = b.float_val /\ d.last_live = b.last_live
          /\ d.min = b.min /\ d.max = b.max
      BY <1>5, <2>1 DEF Bars
    <2> HIDE DEF d
    <2>3. Fits(d)
      BY <2>2 DEF Fits, BarValue, Unit, Lower, Upper
    <2>4. LinesBar(d)
      BY <2>2, <2>3 DEF LinesBar
    <2> QED BY <2>4 DEF d
  <1> QED BY <1>1, <1>2, <1>3, <1>4, <1>5

LEMMA LinesBarClicked ==
    ASSUME NEW b, LinesBar(b)
    PROVE  LinesBar(Stepping(b)) /\ \A c \in bar_click(b) : LinesBar(c)
  <1> DEFINE w == Way(b, b.state)
  <1>1. w \in {-1, 0, 1} /\ b.int_val \in Int /\ b.float_val \in Int
    BY WayIsStep DEF LinesBar, Bars
  <1> HIDE DEF w
  <1>2. LinesBar(Stepping(b))
    <2> DEFINE n == b.int_val + w
               d == bar_set_int_val(b, n)
    <2>1. n \in Int
      BY <1>1
    <2>2. Stepping(b) \in {b, bar_callbacks(d)}
      BY DEF Stepping, w
    <2> HIDE DEF n
    <2>3. LinesBar(d)
      BY <2>1, LinesBarSet
    <2> HIDE DEF d
    <2> QED BY <2>2, <2>3, LinesBarSet
  <1>3. ASSUME NEW c \in bar_click(b) PROVE LinesBar(c)
    <2>1. PICK incr \in 1..2 : c = bar_callbacks(bar_set_float_val(b, b.float_val + w * incr))
      BY DEF bar_click, w
    <2> DEFINE v == b.float_val + w * incr
               d == bar_set_float_val(b, v)
    <2>2. v \in Int
      BY <1>1
    <2>3. c = bar_callbacks(d)
      BY <2>1
    <2> HIDE DEF v
    <2>4. LinesBar(d)
      BY <2>2, LinesBarSet
    <2> HIDE DEF d
    <2> QED BY <2>3, <2>4, LinesBarSet
  <1> QED BY <1>2, <1>3

LEMMA LinesBarMoved ==
    ASSUME LinesBar(bar), BarDown \/ BarHeld \/ BarUp
    PROVE  LinesBar(bar')
  <1>1. CASE BarDown
    <2>1. PICK p \in Places : bar' \in PressAt(bar, p)
      BY <1>1 DEF BarDown
    <2> DEFINE u == update_scroll_parameters(bar)
               s == find_arrow(bar, p)
               d == [u EXCEPT !.state = s]
    <2>2. LinesBar(u) /\ s \in {"none", "up", "down", "scroll"}
      BY LinesBarSet DEF find_arrow
    <2>3. bar' \in {d} \cup bar_click(Stepping(d))
      BY <2>1 DEF PressAt
    <2> HIDE DEF u, s
    <2>4. LinesBar(d)
      BY <2>2, LinesBarSet
    <2> HIDE DEF d
    <2> QED BY <2>3, <2>4, LinesBarClicked
  <1>2. CASE BarHeld
    <2>1. PICK p \in Places : \/ bar' = DragTo(bar, p)
                              \/ bar' \in bar_click(update_scroll_parameters(bar))
      BY <1>2 DEF BarHeld
    <2>2. CASE bar' \in bar_click(update_scroll_parameters(bar))
      BY <2>2, LinesBarSet, LinesBarClicked
    <2>3. CASE bar' = DragTo(bar, p)
      <3> DEFINE free == track_length - bar.box_length
                 new == update_scroll_parameters(bar)
                 n == (p - Arrow - new.box_length \div 2) * Unit(bar) * (bar.max - bar.min)
                 along == Quotient(n, free)
                 v == IF bar.horizontal THEN Unit(bar) * bar.min + along
                      ELSE Unit(bar) * bar.max - along
      <3>1. LinesBar(new)
        BY LinesBarSet
      <3>2. /\ free \in Int /\ p \in Int /\ Unit(bar) = 1 /\ bar.min \in Int /\ bar.max \in Int
            /\ new.box_length \in Int /\ Arrow \in Int
        BY <3>1, ScrollAssumption DEF LinesBar, Bars, track_length, Arrow, Unit
      <3> HIDE DEF new
      <3>3. n \in Int
        <4>1. p - Arrow - new.box_length \div 2 \in Int /\ bar.max - bar.min \in Int
          BY <3>2
        <4> QED BY <3>2, <4>1
      <3> HIDE DEF n, free
      <3>4. CASE free = 0
        BY <2>3, <3>4 DEF DragTo, free
      <3>5. CASE free # 0
        <4>1. along \in Int
          BY <3>2, <3>3, <3>5, QuotientIsInt
        <4> HIDE DEF along
        <4>2. v \in Int
          BY <3>2, <4>1
        <4>3. DragTo(bar, p) = bar_callbacks(SetBar(new, v))
          BY <3>5 DEF DragTo, free, new, along, n
        <4> HIDE DEF v
        <4> DEFINE d == bar_set_int_val(new, v)
        <4>4. LinesBar(d) /\ SetBar(new, v) = d
          BY <3>1, <4>2, LinesBarSet DEF LinesBar, SetBar
        <4> HIDE DEF d
        <4> QED BY <2>3, <4>3, <4>4, LinesBarSet
      <3> QED BY <3>4, <3>5
    <2> QED BY <2>1, <2>2, <2>3
  <1>3. CASE BarUp
    BY <1>3, LinesBarSet DEF BarUp
  <1> QED BY <1>1, <1>2, <1>3

-------------------------------------------------------------------------------
(* Drawing.                                                                *)

Visible == (BoxHeight - 20) \div LineHeight

LEMMA VisibleIsNat == Visible \in Nat
  BY BoxAssumption DEF Visible, LineHeight

LEMMA FirstShownIsNat ==
    ASSUME NEW start \in Nat, NEW curr \in Nat, NEW visible \in Nat
    PROVE  FirstShown(start, curr, visible) \in Nat
  BY DEF FirstShown, Greater

(* What is drawn, and where the insertion point is.                        *)
LEMMA DrawHolds ==
    ASSUME NEW e, Held(e)
    PROVE  LET d == draw(e)
           IN  /\ Held(d) /\ d.text = e.text /\ d.insertion_pt = e.insertion_pt
               /\ HasCaret(d) <=> HasCaret(e)
               /\ d.visible_lines = Visible /\ d.num_lines = Drawn(e.text).lines
               /\ d.start_line = FirstShown(e.start_line, e.curr_line, Visible)
               /\ d.curr_line = e.curr_line
  <1> DEFINE lines == Drawn(e.text).lines
             end == Drawn(e.text).end
             start == FirstShown(e.start_line, e.curr_line, Visible)
             d == [e EXCEPT !.substring_end = end, !.visible_lines = Visible, !.num_lines = lines,
                            !.start_line = start]
  <1>1. /\ e \in TextBoxes /\ e.text \in Seq(Characters) /\ Len(e.text) \in Nat
        /\ e.start_line \in Nat /\ e.curr_line \in Nat
    BY LenProperties DEF Held, TextBoxes
  <1>2. lines \in Nat /\ end \in Int
    BY <1>1, DrawnLines
  <1>3. start \in Nat
    BY <1>1, VisibleIsNat, FirstShownIsNat
  <1>4. draw(e) = d
    BY DEF draw, Visible
  <1> HIDE DEF lines, end, start
  <1>5. /\ d \in TextBoxes /\ d.text = e.text /\ d.insertion_pt = e.insertion_pt
        /\ d.sel_start = e.sel_start /\ d.sel_end = e.sel_end /\ d.curr_line = e.curr_line
        /\ d.visible_lines = Visible /\ d.num_lines = lines /\ d.start_line = start
    BY <1>1, <1>2, <1>3, VisibleIsNat DEF TextBoxes
  <1> HIDE DEF d
  <1>6. Held(d) /\ (HasCaret(d) <=> HasCaret(e))
    BY <1>5 DEF Held, CaretHeld, SelFrom, HasCaret
  <1> QED BY <1>4, <1>5, <1>6 DEF lines, start

LEMMA DrawCaretHolds ==
    ASSUME NEW e, Held(e)
    PROVE  LET d == draw_insertion_pt(e)
           IN  /\ Held(d) /\ d.text = e.text /\ d.insertion_pt = e.insertion_pt
               /\ HasCaret(d) <=> HasCaret(e)
               /\ d.visible_lines = e.visible_lines /\ d.num_lines = e.num_lines
               /\ d.start_line = e.start_line
               /\ HasCaret(e) => d.curr_line = CaretPlace(e.text, e.insertion_pt).line
  <1> DEFINE caret == CaretPlace(e.text, e.insertion_pt)
             line == caret.line
             x == substring_width(e.text, caret.sol, e.insertion_pt - 1)
             below == \/ e.insertion_pt = Len(e.text) /\ IsNewLine(e.text, Len(e.text) - 1)
                      \/ x > InnerWidth
             at_x == IF below THEN 3 ELSE x + 5
             at_y == (line - e.start_line + 2) * LineHeight
             moved == [e EXCEPT !.curr_line = line]
             shown == [moved EXCEPT !.insert_x = at_x, !.insert_y = at_y]
  <1>1. /\ e \in TextBoxes /\ e.text \in Seq(Characters) /\ e.insertion_pt \in Int
        /\ e.start_line \in Nat
    BY DEF Held, TextBoxes
  <1>2. line \in Nat /\ caret.sol \in Nat
    BY <1>1, CaretPlaceIsPlace DEF CaretPlaces
  <1>3. at_x \in Int /\ at_y \in Int
    <2>1. x \in Int
      <3> HIDE DEF caret
      <3>1. e.insertion_pt - 1 \in Int /\ caret.sol \in Int
        BY <1>1, <1>2
      <3> QED BY <1>1, <3>1, WidthIsNat
    <2> HIDE DEF x, line
    <2> QED BY <1>1, <1>2, <2>1 DEF LineHeight
  <1>4. draw_insertion_pt(e) = IF ~HasCaret(e) THEN e
                               ELSE IF line \notin e.start_line .. (e.start_line + e.visible_lines)
                               THEN moved ELSE shown
    BY DEF draw_insertion_pt
  <1> HIDE DEF line, at_x, at_y
  <1>5. /\ moved \in TextBoxes /\ moved.text = e.text /\ moved.insertion_pt = e.insertion_pt
        /\ moved.sel_start = e.sel_start /\ moved.sel_end = e.sel_end
        /\ moved.visible_lines = e.visible_lines /\ moved.num_lines = e.num_lines
        /\ moved.start_line = e.start_line /\ moved.curr_line = line
    BY <1>1, <1>2 DEF TextBoxes
  <1> HIDE DEF moved
  <1>6. /\ shown \in TextBoxes /\ shown.text = e.text /\ shown.insertion_pt = e.insertion_pt
        /\ shown.sel_start = e.sel_start /\ shown.sel_end = e.sel_end
        /\ shown.visible_lines = e.visible_lines /\ shown.num_lines = e.num_lines
        /\ shown.start_line = e.start_line /\ shown.curr_line = line
    BY <1>3, <1>5 DEF TextBoxes
  <1> HIDE DEF shown
  <1>7. Held(moved) /\ Held(shown) /\ (HasCaret(moved) <=> HasCaret(e)) /\ (HasCaret(shown) <=> HasCaret(e))
    BY <1>5, <1>6 DEF Held, CaretHeld, SelFrom, HasCaret
  <1> QED BY <1>4, <1>5, <1>6, <1>7 DEF line

(* The bar after a draw has the lines not shown for its limit, and the     *)
(* first line for its value if the insertion point was drawn.              *)
LEMMA DrawBarFits ==
    ASSUME NEW b, LinesBar(b), NEW e, Held(e)
    PROVE  LET c == DrawBar(b, e)
               hidden == Greater(0, e.num_lines - e.visible_lines)
           IN  /\ LinesBar(c) /\ hidden \in Nat /\ c.min = hidden /\ c.max = 0
               /\ HasCaret(e) /\ b.min = hidden /\ b.max = 0 =>
                      c.int_val = Within(e.start_line, 0, hidden)
  <1> DEFINE hidden == Greater(0, e.num_lines - e.visible_lines)
             told == IF HasCaret(e) THEN bar_set_int_val(b, e.start_line) ELSE b
             limited == set_bar_limits(told, hidden, 0)
  <1>1. hidden \in Nat /\ e.start_line \in Int
    BY DEF Greater, Held, TextBoxes
  <1> HIDE DEF hidden
  <1>2. LinesBar(told) /\ told \in Bars /\ Fits(told) /\ told.told = b.told
    BY <1>1, LinesBarSet, SetInt DEF LinesBar, SameBar, SameKind
  <1>3. HasCaret(e) => told.int_val = Within(e.start_line, Lower(b), Upper(b))
                       /\ told.min = b.min /\ told.max = b.max
    BY <1>1, SetInt DEF LinesBar, SameLimits
  <1> HIDE DEF told
  <1>4. /\ limited \in Bars /\ Fits(limited) /\ SameBar(told, limited)
        /\ limited.min = hidden /\ limited.max = 0
    BY <1>1, <1>2, SetLimits DEF Fits
  <1>5. LinesBar(limited)
    BY <1>1, <1>2, <1>4 DEF LinesBar, SameBar, SameKind
  <1>6. DrawBar(b, e) = update_scroll_parameters(limited)
    BY DEF DrawBar, told, hidden
  <1>7. HasCaret(e) /\ b.min = hidden /\ b.max = 0 => limited.int_val = Within(e.start_line, 0, hidden)
    <2> SUFFICES ASSUME HasCaret(e), b.min = hidden, b.max = 0
                 PROVE  limited.int_val = Within(e.start_line, 0, hidden)
      OBVIOUS
    <2>1. Lower(b) = 0 /\ Upper(b) = hidden
      BY <1>1 DEF Lower, Upper
    <2>2. told.int_val = Within(e.start_line, 0, hidden) /\ told.min = hidden /\ told.max = 0
      BY <1>3, <2>1
    <2> DEFINE new == [told EXCEPT !.min = hidden, !.max = 0]
    <2>3. new = told
      BY <1>2, <2>2 DEF Bars
    <2>4. limited = told
      <3> HIDE DEF new
      <3>1. /\ Unit(told) = Unit(new)
            /\ BarValue(told) \in Unit(new) * Lower(new) .. Unit(new) * Upper(new)
        BY <1>2, <2>3 DEF Fits
      <3>2. limited = new
        BY <3>1 DEF set_bar_limits, new
      <3> QED BY <2>3, <3>2
    <2> QED BY <2>2, <2>4
  <1> HIDE DEF limited
  <1>8. LinesBar(update_scroll_parameters(limited))
    BY <1>5, LinesBarSet
  <1>9. /\ update_scroll_parameters(limited).int_val = limited.int_val
        /\ update_scroll_parameters(limited).min = limited.min
        /\ update_scroll_parameters(limited).max = limited.max
    BY <1>4 DEF update_scroll_parameters, Bars
  <1> QED BY <1>1, <1>4, <1>6, <1>7, <1>8, <1>9 DEF hidden

-------------------------------------------------------------------------------
(* BoxInv is inductive.                                                    *)

LEMMA BoxInitInv == BoxInit(Int) /\ bar = NewBar("int", FALSE, <<0, 0>>) => BoxInv
  <1> SUFFICES ASSUME BoxInit(Int), bar = NewBar("int", FALSE, <<0, 0>>) PROVE BoxInv
    OBVIOUS
  <1>1. Held(tb)
    <2>1. PICK goal \in Int, t \in Texts : tb = NewTextBox(goal, t)
      BY DEF BoxInit
    <2>2. t \in Seq(Characters) /\ Len(t) \in Nat
      BY BoxAssumption, LenProperties DEF Characters
    <2>3. LastChar(t) \in Int
      BY <2>2 DEF LastChar
    <2> QED BY <2>1, <2>2, <2>3 DEF NewTextBox, Held, TextBoxes, CaretHeld
  <1>2. LinesBar(bar)
    <2> DEFINE b == [data_type |-> "int", horizontal |-> FALSE, min |-> 0, max |-> 0,
                     int_val |-> 0, float_val |-> 0, last_int_val |-> 0, last_float_val |-> 0,
                     live |-> 0, last_live |-> 0, first_callback |-> TRUE, state |-> "none",
                     box_length |-> 0, told |-> 0, given |-> TRUE]
    <2>1. /\ b \in Bars /\ b.int_val = 0 /\ b.float_val = 0 /\ b.told = 0 /\ b.data_type = "int"
          /\ b.last_live = BarValue(b)
      BY DEF Bars, BarValue
    <2> DEFINE c == set_bar_limits(b, 0, 0)
    <2>2. bar = c
      BY DEF NewBar
    <2>3. b.int_val = Quotient(b.float_val, 2)
      BY DEF Quotient
    <2> HIDE DEF b
    <2>4. c \in Bars /\ Fits(c) /\ SameBar(b, c) /\ c.min = 0 /\ c.max = 0
      BY <2>1, <2>3, SetLimits
    <2> HIDE DEF c
    <2>5. LinesBar(c)
      BY <2>1, <2>4 DEF LinesBar, SameBar, SameKind
    <2> QED BY <2>2, <2>5
  <1> QED BY <1>1, <1>2 DEF BoxInv

LEMMA SetTextHolds ==
    ASSUME NEW e \in TextBoxes, NEW t \in Seq(Characters), NEW a \in BOOLEAN
    PROVE  Held(box_set_text(e, t)) /\ Held([box_set_text(e, t) EXCEPT !.active = a])
  <1> DEFINE end == LastChar(t)
             f == [e EXCEPT !.text = t, !.substring_end = end, !.insertion_pt = -1,
                            !.sel_start = 0, !.sel_end = 0, !.visible_lines = 0,
                            !.start_line = 0, !.curr_line = 0, !.num_lines = 0]
             g == [f EXCEPT !.active = a]
  <1>1. Len(t) \in Nat /\ end \in Int
    BY LenProperties DEF LastChar
  <1>2. box_set_text(e, t) = f
    BY DEF box_set_text
  <1> HIDE DEF end
  <1>3. /\ f \in TextBoxes /\ f.text = t
        /\ f.insertion_pt = -1 /\ f.sel_start = 0 /\ f.sel_end = 0
    <2> DEFINE minus == -1
    <2>1. minus \in Int /\ 0 \in Nat /\ 0 \in Int
      OBVIOUS
    <2>2. f = [e EXCEPT !.text = t, !.substring_end = end, !.insertion_pt = minus,
                        !.sel_start = 0, !.sel_end = 0, !.visible_lines = 0,
                        !.start_line = 0, !.curr_line = 0, !.num_lines = 0]
      OBVIOUS
    <2> HIDE DEF minus, f
    <2>3. f \in TextBoxes
      BY <1>1, <2>1, <2>2 DEF TextBoxes
    <2>4. f.text = t /\ f.insertion_pt = minus /\ f.sel_start = 0 /\ f.sel_end = 0
      BY <2>2 DEF TextBoxes
    <2> QED BY <2>3, <2>4 DEF minus
  <1> HIDE DEF f
  <1>4. /\ g \in TextBoxes /\ g.text = t
        /\ g.insertion_pt = -1 /\ g.sel_start = 0 /\ g.sel_end = 0
    BY <1>3 DEF TextBoxes
  <1>5. Held([box_set_text(e, t) EXCEPT !.active = a]) <=> Held(g)
    BY <1>2
  <1> HIDE DEF g
  <1> QED BY <1>1, <1>2, <1>3, <1>4, <1>5 DEF Held, CaretHeld

LEMMA BoundsHold ==
    ASSUME NEW e, Held(e)
    PROVE  Held(FirstBounds(e)) /\ Held([FirstBounds(e) EXCEPT !.active = FALSE])
  <1> DEFINE top == Greater(LastChar(e.text), 0)
             fits == {i \in 0..top : substring_width(e.text, 0, i) <= InnerWidth}
             end == Max(fits)
             f == [e EXCEPT !.substring_end = end]
             g == [f EXCEPT !.active = FALSE]
  <1>1. e \in TextBoxes /\ Len(e.text) \in Nat
    BY LenProperties DEF Held, TextBoxes
  <1>2. top \in Nat /\ fits \subseteq 0..top
    BY <1>1 DEF LastChar, Greater
  <1>3. 0 \in fits
    <2> DEFINE letters == {i \in 0..0 : i < Len(e.text) /\ ~IsNewLine(e.text, i)}
    <2>1. letters = {} \/ letters = {0}
      OBVIOUS
    <2>2. Cardinality(letters) = 0 \/ Cardinality(letters) = 1
      BY <2>1, FS_EmptySet, FS_Singleton
    <2>3. substring_width(e.text, 0, 0) = LetterWidth * Cardinality(letters)
      BY DEF substring_width
    <2> HIDE DEF letters
    <2>4. substring_width(e.text, 0, 0) <= InnerWidth
      BY <2>2, <2>3, BoxAssumption
    <2> QED BY <1>2, <2>4
  <1> HIDE DEF top, fits
  <1>4. end \in Int
    <2>1. Max(fits) \in fits
      BY <1>2, <1>3, GreatestOf
    <2>2. \A i \in fits : i \in Int
      BY <1>2
    <2> QED BY <2>1, <2>2
  <1>5. FirstBounds(e) = f
    BY DEF FirstBounds, fits, top
  <1> HIDE DEF end
  <1>6. /\ f \in TextBoxes /\ f.text = e.text /\ f.insertion_pt = e.insertion_pt
        /\ f.sel_start = e.sel_start /\ f.sel_end = e.sel_end
    BY <1>1, <1>4 DEF TextBoxes
  <1> HIDE DEF f
  <1>7. /\ g \in TextBoxes /\ g.text = e.text /\ g.insertion_pt = e.insertion_pt
        /\ g.sel_start = e.sel_start /\ g.sel_end = e.sel_end
    BY <1>6 DEF TextBoxes
  <1>8. [FirstBounds(e) EXCEPT !.active = FALSE] = g
    BY <1>5
  <1> HIDE DEF g
  <1>9. Held(f) /\ Held(g)
    BY <1>6, <1>7 DEF Held, CaretHeld, SelFrom
  <1> QED BY <1>5, <1>8, <1>9

LEMMA ScrollHolds ==
    ASSUME NEW e, Held(e), NEW line \in Int, line >= 0
    PROVE  Held(scrollbar_callback(e, line))
  <1> DEFINE curr == IF line < e.curr_line - e.visible_lines THEN line + e.visible_lines
                     ELSE IF line > e.curr_line THEN line ELSE e.curr_line
             f == [e EXCEPT !.start_line = line, !.curr_line = curr]
  <1>1. e \in TextBoxes /\ e.curr_line \in Nat /\ e.visible_lines \in Nat /\ line \in Nat
    BY DEF Held, TextBoxes
  <1>2. curr \in Nat
    BY <1>1
  <1>3. scrollbar_callback(e, line) = f
    BY <1>1 DEF scrollbar_callback, TextBoxes
  <1> HIDE DEF curr
  <1>4. /\ f \in TextBoxes /\ f.text = e.text /\ f.insertion_pt = e.insertion_pt
        /\ f.sel_start = e.sel_start /\ f.sel_end = e.sel_end
    BY <1>1, <1>2 DEF TextBoxes
  <1> HIDE DEF f
  <1> QED BY <1>3, <1>4 DEF Held, CaretHeld, SelFrom

(* A press with its x, and a drag.                                         *)
LEMMA PressedHolds ==
    ASSUME NEW e, Held(e), NEW x \in Int, NEW y \in Int
    PROVE  LET found == find_insertion_pt(e, x, y)
               goal == found.box.insert_x
               dragged == [found.box EXCEPT !.keygoal_x = goal]
           IN  /\ Held([PutAt(found.box, found.pt) EXCEPT !.active = TRUE, !.keygoal_x = goal])
               /\ Held(dragged)
               /\ Held([dragged EXCEPT !.sel_end = found.pt, !.insertion_pt = found.pt])
               /\ Held(horizontal_key(dragged, "right", TRUE, FALSE))
  <1> DEFINE found == find_insertion_pt(e, x, y)
             box == found.box
             pt == found.pt
             goal == box.insert_x
             put == PutAt(box, pt)
             dragged == [box EXCEPT !.keygoal_x = goal]
             taken == [dragged EXCEPT !.sel_end = pt, !.insertion_pt = pt]
  <1>1. pt \in 0..Len(e.text) /\ Held(box) /\ box.text = e.text
    BY PressHolds
  <1> HIDE DEF found, box, pt
  <1>2. /\ box \in TextBoxes /\ pt \in 0..Len(box.text) /\ goal \in Int /\ Len(box.text) \in Nat
        /\ pt \in Int
    <2>1. box \in TextBoxes
      BY <1>1 DEF Held
    <2>2. goal \in Int /\ box.text \in Seq(Characters)
      BY <2>1 DEF TextBoxes
    <2>3. Len(box.text) \in Nat
      BY <2>2, LenProperties
    <2> QED BY <1>1, <2>1, <2>2, <2>3
  <1> HIDE DEF goal
  <1>3. Held([put EXCEPT !.active = TRUE, !.keygoal_x = goal])
    <2> DEFINE f == [put EXCEPT !.active = TRUE, !.keygoal_x = goal]
    <2>1. Held(put)
      BY <1>2, PutAtHolds
    <2> HIDE DEF put
    <2>2. /\ f \in TextBoxes /\ f.text = put.text /\ f.insertion_pt = put.insertion_pt
          /\ f.sel_start = put.sel_start /\ f.sel_end = put.sel_end
      BY <1>2, <2>1 DEF Held, TextBoxes
    <2> HIDE DEF f
    <2>3. Held(f)
      BY <2>1, <2>2 DEF Held, CaretHeld, SelFrom
    <2> QED BY <2>3 DEF f
  <1>4. /\ dragged \in TextBoxes /\ dragged.text = box.text
        /\ dragged.insertion_pt = box.insertion_pt
        /\ dragged.sel_start = box.sel_start /\ dragged.sel_end = box.sel_end
    BY <1>1, <1>2 DEF TextBoxes
  <1> HIDE DEF dragged
  <1>5. Held(dragged)
    BY <1>1, <1>4 DEF Held, CaretHeld, SelFrom, box
  <1>6. Held(taken)
    <2>1. /\ taken \in TextBoxes /\ taken.text = box.text /\ taken.insertion_pt = pt
          /\ taken.sel_start = dragged.sel_start /\ taken.sel_end = pt
      BY <1>2, <1>4 DEF TextBoxes
    <2>2. dragged.sel_start \in Int /\ dragged.sel_start >= 0
      BY <1>5 DEF Held, CaretHeld, TextBoxes
    <2> HIDE DEF taken
    <2> QED BY <1>2, <2>1, <2>2 DEF Held, CaretHeld, SelFrom
  <1>7. Held(horizontal_key(dragged, "right", TRUE, FALSE))
    BY <1>4, HorizontalHolds
  <1> QED BY <1>3, <1>5, <1>6, <1>7 DEF taken, dragged, put, goal, pt, box, found

(* The text box that the focus comes to by the tab key.                    *)
AllSelected(e) ==
    [e EXCEPT !.active = TRUE, !.sel_start = 0, !.sel_end = Len(e.text), !.insertion_pt = 0]

LEMMA TabHolds == ASSUME NEW e \in TextBoxes PROVE Held(AllSelected(e))
  <1> DEFINE end == Len(e.text)
             none == 0
             on == TRUE
             f == [e EXCEPT !.active = on, !.sel_start = none, !.sel_end = end, !.insertion_pt = none]
  <1>1. end \in Nat /\ end = Len(e.text) /\ end \in Int
    BY LenProperties DEF TextBoxes
  <1>2. none = 0 /\ none \in Int /\ on \in BOOLEAN
    OBVIOUS
  <1>3. AllSelected(e) = f
    BY DEF AllSelected
  <1> HIDE DEF end, none, on
  <1>4. f \in TextBoxes
    BY <1>1, <1>2 DEF TextBoxes
  <1>5. f.text = e.text /\ f.insertion_pt = none /\ f.sel_start = none /\ f.sel_end = end
    BY DEF TextBoxes
  <1> HIDE DEF f
  <1> QED BY <1>1, <1>2, <1>3, <1>4, <1>5 DEF Held, CaretHeld, SelFrom

LEMMA BoxNextInv == BoxInv /\ [BoxNext]_<<boxVars, bar>> => BoxInv'
  <1> SUFFICES ASSUME BoxInv, [BoxNext]_<<boxVars, bar>> PROVE BoxInv'
    OBVIOUS
  <1> /\ LinesBar(bar) /\ Held(tb) /\ tb \in TextBoxes
      /\ tb.text \in Seq(Characters) /\ Len(tb.text) \in Nat
    BY LenProperties DEF BoxInv, Held, TextBoxes
  <1>a. ASSUME Held(tb'), bar' = bar PROVE BoxInv'
    BY <1>a DEF BoxInv
  <1>b. ASSUME NEW p, NEW new, AtPoint(p, new), p # -1 => Held(new) PROVE BoxInv'
    BY <1>a, <1>b DEF AtPoint
  <1>1. CASE BoxTab
    <2>1. tb' = AllSelected(tb) /\ bar' = bar
      BY <1>1 DEF BoxTab, BoxOnly, AllSelected
    <2> QED BY <1>a, <2>1, TabHolds
  <1>2. CASE BoxMouseDown
    <2>1. PICK x \in Columns, y \in Rows :
            tb' = [PutAt(find_insertion_pt(tb, x, y).box, find_insertion_pt(tb, x, y).pt) EXCEPT
                     !.active = TRUE, !.keygoal_x = find_insertion_pt(tb, x, y).box.insert_x]
      BY <1>2 DEF BoxMouseDown
    <2>2. x \in Int /\ y \in Int /\ bar' = bar
      BY <1>2, BoxAssumption DEF BoxMouseDown
    <2> QED BY <1>a, <2>1, <2>2, PressedHolds
  <1>3. CASE BoxHeldDown
    <2>1. PICK x \in Columns, y \in Rows :
            LET found == find_insertion_pt(tb, x, y)
                e == [found.box EXCEPT !.keygoal_x = found.box.insert_x]
            IN  tb' = IF found.pt = e.substring_end + 1 /\ e.sel_end # Len(e.text)
                      THEN horizontal_key(e, "right", TRUE, FALSE)
                      ELSE IF found.pt # e.sel_end
                      THEN [e EXCEPT !.sel_end = found.pt, !.insertion_pt = found.pt]
                      ELSE e
      BY <1>3 DEF BoxHeldDown
    <2>2. x \in Int /\ y \in Int /\ bar' = bar
      BY <1>3, BoxAssumption DEF BoxHeldDown, BoxOnly
    <2> DEFINE found == find_insertion_pt(tb, x, y)
               e == [found.box EXCEPT !.keygoal_x = found.box.insert_x]
               taken == [e EXCEPT !.sel_end = found.pt, !.insertion_pt = found.pt]
               right == horizontal_key(e, "right", TRUE, FALSE)
    <2>3. Held(e) /\ Held(taken) /\ Held(right)
      BY <2>2, PressedHolds
    <2>4. tb' \in {right, taken, e}
      BY <2>1
    <2> HIDE DEF e, taken, right
    <2> QED BY <1>a, <2>2, <2>3, <2>4
  <1>4. CASE BoxMouseUp
    BY <1>4, <1>a DEF BoxMouseUp
  <1>5. CASE BoxType
    <2>1. PICK key \in Characters : AtPoint(tb.insertion_pt, insert_key(tb, key))
      BY <1>5 DEF BoxType, Characters
    <2> QED BY <1>b, <2>1, InsertHolds
  <1>6. CASE BoxErase
    <2>1. PICK key \in Erasures :
            AtPoint(IF key \in {"backspace", "erase_all"} \/ tb.sel_start # tb.sel_end
                    THEN 0 ELSE tb.insertion_pt, erase_key(tb, key))
      BY <1>6 DEF BoxErase
    <2> DEFINE p == IF key \in {"backspace", "erase_all"} \/ tb.sel_start # tb.sel_end
                    THEN 0 ELSE tb.insertion_pt
    <2>2. p # -1 => Held(erase_key(tb, key))
      BY EraseHolds
    <2> QED BY <1>b, <2>1, <2>2
  <1>7. CASE BoxMove
    <2>1. \/ \E key \in {"left", "right", "home", "end"}, shift, ctrl \in BOOLEAN :
                tb' = horizontal_key(tb, key, shift, ctrl)
          \/ \E up, shift \in BOOLEAN : tb' = vertical_key(tb, up, shift)
      BY <1>7 DEF BoxMove
    <2>2. bar' = bar
      BY <1>7 DEF BoxMove, BoxOnly
    <2> QED BY <1>a, <2>1, <2>2, HorizontalHolds, VerticalHolds
  <1>8. CASE BoxLeave
    <2> DEFINE e == box_set_text(tb, tb.text)
    <2>1. Held(e)
      BY <1>a, SetTextHolds
    <2>2. tb' = [FirstBounds(e) EXCEPT !.active = FALSE]
      BY <1>8 DEF BoxLeave
    <2> HIDE DEF e
    <2>3. Held(tb')
      BY <2>1, <2>2, BoundsHold
    <2>4. bar' = bar
      BY <1>8 DEF BoxLeave
    <2> QED BY <1>a, <2>3, <2>4
  <1>9. CASE BoxSetText
    <2>1. PICK t \in Texts : tb' = box_set_text(tb, t)
      BY <1>9 DEF BoxSetText
    <2>2. t \in Seq(Characters) /\ bar' = bar
      BY <1>9, BoxAssumption DEF BoxSetText, BoxOnly, Characters
    <2> QED BY <1>a, <2>1, <2>2, SetTextHolds
  <1>10. CASE BoxDraw
    <2> DEFINE d == draw(tb)
               c == DrawBar(bar, d)
               g == c.given \/ BarValue(c) # BarValue(bar)
    <2>1. tb' = draw_insertion_pt(d) /\ bar' = [c EXCEPT !.given = g]
      BY <1>10 DEF BoxDraw, Given
    <2>2. Held(d)
      BY DrawHolds
    <2> HIDE DEF d
    <2>3. Held(tb') /\ LinesBar(c)
      BY <2>1, <2>2, DrawCaretHolds, DrawBarFits
    <2> HIDE DEF c
    <2>4. g \in BOOLEAN /\ (c.given => g)
      BY <2>3 DEF LinesBar, Bars
    <2> HIDE DEF g
    <2> QED BY <2>1, <2>3, <2>4, LinesBarSet DEF BoxInv
  <1>11. CASE BoxScroll
    <2>1. LinesBar(bar')
      BY <1>11, LinesBarMoved DEF BoxScroll
    <2>2. bar'.told \in Int /\ bar'.told >= 0
      BY <2>1 DEF LinesBar, Bars
    <2>3. tb' \in {scrollbar_callback(tb, bar'.told), tb}
      BY <1>11 DEF BoxScroll
    <2> QED BY <2>1, <2>2, <2>3, ScrollHolds DEF BoxInv
  <1>12. CASE BoxScrollEnd
    <2>1. LinesBar(bar') /\ tb' = tb
      BY <1>12, LinesBarMoved DEF BoxScrollEnd, boxVars
    <2> QED BY <2>1 DEF BoxInv
  <1>13. CASE UNCHANGED <<boxVars, bar>>
    BY <1>13, <1>a DEF boxVars
  <1> QED BY <1>1, <1>2, <1>3, <1>4, <1>5, <1>6, <1>7, <1>8, <1>9, <1>10, <1>11, <1>12, <1>13
          DEF BoxNext

LEMMA BoxInvCaret == BoxInv => CaretInText
  BY HeldIsInText DEF BoxInv, CaretInText

(* With the line that the insertion point was last seen in and the one     *)
(* that it is in, any first line is made one that shows it by the second   *)
(* time.                                                                   *)
LEMMA ShownTwice ==
    ASSUME NEW start \in Nat, NEW curr \in Nat, NEW line \in Nat, NEW visible \in Nat
    PROVE  LET first == FirstShown(start, curr, visible)
               second == FirstShown(first, line, visible)
           IN  second \in Nat /\ line \in second .. (second + visible)
  BY DEF FirstShown, Greater

LEMMA BoxInvShows == BoxInv => CaretShown
  <1> DEFINE d1 == draw(tb)
             once == draw_insertion_pt(d1)
             d2 == draw(once)
             twice == draw_insertion_pt(d2)
             b1 == DrawBar(bar, d1)
             b2 == DrawBar(b1, d2)
             line == CaretPlace(tb.text, tb.insertion_pt).line
             lines == Drawn(tb.text).lines
             hidden == Greater(0, lines - Visible)
             first == FirstShown(tb.start_line, tb.curr_line, Visible)
             second == FirstShown(first, line, Visible)
  <1> SUFFICES ASSUME BoxInv, HasCaret(tb)
               PROVE  /\ twice.curr_line \in twice.start_line .. (twice.start_line + twice.visible_lines)
                      /\ b2.int_val = Min({twice.start_line,
                                           Greater(0, twice.num_lines - twice.visible_lines)})
    BY DEF CaretShown
  <1>1. /\ Held(tb) /\ LinesBar(bar) /\ tb.start_line \in Nat /\ tb.curr_line \in Nat
        /\ tb.text \in Seq(Characters) /\ tb.insertion_pt \in Int
    BY DEF BoxInv, Held, TextBoxes
  <1>2. /\ Held(d1) /\ HasCaret(d1) /\ d1.text = tb.text /\ d1.insertion_pt = tb.insertion_pt
        /\ d1.visible_lines = Visible /\ d1.num_lines = lines /\ d1.start_line = first
    BY <1>1, DrawHolds
  <1> HIDE DEF d1
  <1>3. /\ Held(once) /\ HasCaret(once) /\ once.text = tb.text
        /\ once.insertion_pt = tb.insertion_pt
        /\ once.start_line = first /\ once.curr_line = line
    BY <1>2, DrawCaretHolds
  <1> HIDE DEF once
  <1>4. /\ Held(d2) /\ HasCaret(d2) /\ d2.text = tb.text /\ d2.insertion_pt = tb.insertion_pt
        /\ d2.visible_lines = Visible /\ d2.num_lines = lines /\ d2.start_line = second
    BY <1>3, DrawHolds
  <1> HIDE DEF d2
  <1>5. /\ twice.start_line = second /\ twice.curr_line = line
        /\ twice.visible_lines = Visible /\ twice.num_lines = lines
    BY <1>4, DrawCaretHolds
  <1> HIDE DEF twice
  <1>6. line \in Nat
    BY <1>1, CaretPlaceIsPlace DEF CaretPlaces
  <1>7. second \in Nat /\ line \in second .. (second + Visible)
    <2> HIDE DEF line
    <2> QED BY <1>1, <1>6, VisibleIsNat, ShownTwice
  <1>8. LinesBar(b1) /\ b1.min = hidden /\ b1.max = 0 /\ hidden \in Nat
    BY <1>1, <1>2, DrawBarFits
  <1> HIDE DEF b1
  <1>9. b2.int_val = Within(second, 0, hidden)
    BY <1>4, <1>8, DrawBarFits
  <1> HIDE DEF b2, second, hidden
  <1>10. Within(second, 0, hidden) = Min({second, hidden})
    <2> DEFINE both == {second, hidden}
    <2>1. both \subseteq Nat /\ both # {}
      BY <1>7, <1>8
    <2> HIDE DEF both
    <2>2. Min(both) \in both /\ \A i \in both : Min(both) <= i
      BY <2>1, LeastOf
    <2> DEFINE m == Min(both)
    <2> HIDE DEF m
    <2>3. m \in {second, hidden} /\ m <= second /\ m <= hidden
      BY <2>2 DEF m, both
    <2>4. Within(second, 0, hidden) = m
      BY <1>7, <1>8, <2>3 DEF Within
    <2> QED BY <2>4 DEF m, both
  <1> QED BY <1>5, <1>7, <1>9, <1>10 DEF hidden

(* Wherever a text box is pressed and dragged, whatever keys are typed and *)
(* texts set, the insertion point and what is selected lie in the text     *)
(* (glui_textbox.cpp:94-315, 665-750, 890-973).                            *)
THEOREM CaretStaysInText == BoxSpec => []CaretInText
  BY BoxInitInv, BoxNextInv, BoxInvCaret, PTL DEF BoxSpec

(* Of a text of any length in a box of any height, wherever keys, drags    *)
(* and the scrollbar have brought its lines, the second draw shows the     *)
(* insertion point, and the scrollbar agrees (glui_textbox.cpp:437-491).   *)
THEOREM CaretComesOnView == BoxSpec => []CaretShown
  BY BoxInitInv, BoxNextInv, BoxInvShows, PTL DEF BoxSpec
===============================================================================
