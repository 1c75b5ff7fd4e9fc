---------------------------- MODULE GluiForm_proofs ----------------------------
(***************************************************************************)
(* Proofs about GluiForm, for any tree of controls and any number of steps *)
(* of the program: a callback is for an enabled control, and a checkbox or *)
(* radio group that nobody holds shows what its live variable was given;   *)
(* and Tab visits the controls in the order of the tree.                   *)
(***************************************************************************)
EXTENDS GluiForm, FiniteSetTheorems, WellFoundedInduction, TLAPS

LiveControls == {c \in Controls : HasLive(c)}

Fields ==
    [enabled : SUBSET Controls, is_open : SUBSET Controls, hidden : SUBSET Controls,
     int_val : [Controls -> Int], currently_inside : BOOLEAN, initially_inside : BOOLEAN,
     orig_value : Int, live : [LiveControls -> Int], last_live : [LiveControls -> Int]]

RadiosAgree(f) == \A r \in OfKind("radio") : f.int_val[r] = 1 => f.int_val[Parent[r]] = Id[r]

(* Outside of held, every control shows what its variable was given.       *)
Agree(f, held) == \A c \in LiveControls \ held : f.int_val[c] = f.last_live[c]

(* While the button is down the active control is the pressed one, unless  *)
(* the program has taken it away, and the value that it would go back to   *)
(* is the one its live variable has, unless the press was broken into.     *)
FormInv ==
    /\ ctl \in Fields
    /\ active_control \in {None} \cup {c \in ctl.enabled : can_activate(c)}
    /\ mouse_button_down \in BOOLEAN
    /\ pressed = IF mouse_button_down THEN active_control ELSE None
    /\ RadiosAgree(ctl)
    /\ Agree(ctl, torn \cup Torn(pressed))
    /\ pressed # None /\ LiveOf(pressed) \in LiveControls \ torn =>
          ctl.orig_value = ctl.last_live[LiveOf(pressed)]

-------------------------------------------------------------------------------
(* The tree.                                                               *)

Nodes == Controls \ {Root}

LEMMA ParentOf ==
    ASSUME NEW c \in Nodes
    PROVE  Parent[c] \in Controls /\ Contains(Kids[Parent[c]], c)
  <1>1. c \in Controls \ {Root} /\ \E p \in Controls : Contains(Kids[p], c)
    BY FormAssumption DEF Nodes
  <1> DEFINE p == CHOOSE q \in Controls : Contains(Kids[q], c)
  <1>2. p \in Controls /\ Contains(Kids[p], c)
    <2> HIDE DEF Controls, Contains
    <2> QED BY <1>1
  <1>3. Parent[c] = p
    BY <1>1 DEF Parent
  <1> HIDE DEF p
  <1> QED BY <1>2, <1>3

LEMMA PlaceOf ==
    ASSUME NEW c \in Nodes
    PROVE  /\ Rank(c) \in 1..Len(Kids[Parent[c]])
           /\ Kids[Parent[c]][Rank(c)] = c
  <1> DEFINE s == Kids[Parent[c]]
  <1>1. s \in Seq(Controls) /\ \E i \in 1..Len(s) : s[i] = c
    BY ParentOf, TreeAssumption DEF Contains
  <1> HIDE DEF s
  <1> DEFINE i == CHOOSE k \in DOMAIN s : s[k] = c
  <1>2. DOMAIN s = 1..Len(s)
    BY <1>1
  <1>3. i \in DOMAIN s /\ s[i] = c
    BY <1>1, <1>2
  <1>4. Rank(c) = i
    BY DEF Rank, s
  <1> HIDE DEF i
  <1> QED BY <1>2, <1>3, <1>4 DEF s

LEMMA KidOf ==
    ASSUME NEW p \in Controls, NEW i \in 1..Len(Kids[p])
    PROVE  Kids[p][i] \in Nodes /\ Parent[Kids[p][i]] = p /\ Rank(Kids[p][i]) = i
  <1> DEFINE s == Kids[p]
             c == s[i]
  <1>1. s \in Seq(Controls) /\ DOMAIN s = 1..Len(s)
    BY TreeAssumption
  <1>2. c \in Controls /\ c \in Range(Kids[p])
    BY <1>1 DEF Range
  <1>3. c \in Nodes
    BY <1>2, NodesAssumption DEF Nodes
  <1> HIDE DEF c
  <1>4. Parent[c] \in Controls /\ c \in Range(Kids[Parent[c]])
    <2>1. Parent[c] \in Controls /\ Contains(Kids[Parent[c]], c)
      BY <1>3, ParentOf
    <2>2. Kids[Parent[c]] \in Seq(Controls)
      BY <2>1, TreeAssumption
    <2> QED BY <2>1, <2>2 DEF Contains, Range
  <1>5. Parent[c] = p
    BY <1>2, <1>4, TreeAssumption
  <1>6. IsInjective(s)
    BY NodesAssumption
  <1>7. Rank(c) \in DOMAIN s /\ s[Rank(c)] = c
    BY <1>1, <1>3, <1>5, PlaceOf
  <1>8. Rank(c) = i
    BY <1>1, <1>6, <1>7 DEF IsInjective, c
  <1> QED BY <1>3, <1>5, <1>8 DEF c

(* A set that has main_panel and, with a control, its children has all.    *)
LEMMA DownTheTree ==
    ASSUME NEW S, Root \in S, \A c \in Nodes : Parent[c] \in S => c \in S
    PROVE  Controls \subseteq S
  <1> DEFINE T == Controls \ S
  <1> SUFFICES ASSUME T # {} PROVE FALSE
    OBVIOUS
  <1>1. T \in SUBSET (Controls \ {Root})
    OBVIOUS
  <1> HIDE DEF T
  <1>2. PICK c \in T : Parent[c] \notin T
    BY <1>1, NodesAssumption
  <1>3. c \in Nodes /\ Parent[c] \in Controls
    BY <1>1, <1>2, ParentOf DEF Nodes
  <1>4. Parent[c] \in S
    BY <1>2, <1>3 DEF T
  <1> QED BY <1>2, <1>3, <1>4 DEF T

LEMMA RadioHasGroup ==
    ASSUME NEW r \in OfKind("radio")
    PROVE  /\ r \in Controls /\ Parent[r] \in OfKind("group")
           /\ Contains(Kids[Parent[r]], r)
           /\ Id[r] \in Int
  <1>1. r \in Controls \ {Root} /\ Kind[r] = "radio"
    BY TreeAssumption DEF OfKind
  <1>3. Parent[r] \in Controls /\ Contains(Kids[Parent[r]], r)
    BY <1>1, ParentOf DEF Nodes
  <1>4. r \in Range(Kids[Parent[r]])
    <2>1. Kids[Parent[r]] \in Seq(Controls)
      BY <1>3, TreeAssumption
    <2> QED BY <1>3, <2>1 DEF Contains, Range
  <1> QED BY <1>1, <1>3, <1>4, TreeAssumption DEF OfKind

LEMMA GroupHasRadios ==
    ASSUME NEW g \in OfKind("group"), NEW c, Contains(Kids[g], c)
    PROVE  c \in OfKind("radio") /\ Parent[c] = g
  <1>1. g \in Controls /\ Kind[g] = "group" /\ Kids[g] \in Seq(Controls)
    BY TreeAssumption DEF OfKind
  <1>2. c \in Controls /\ c \in Range(Kids[g])
    BY <1>1 DEF Contains, Range
  <1>3. c \in OfKind("radio")
    BY <1>1, <1>2, TreeAssumption DEF OfKind
  <1>4. Parent[c] \in Controls /\ c \in Range(Kids[Parent[c]])
    <2>1. Parent[c] \in Controls /\ Contains(Kids[Parent[c]], c)
      BY <1>3, RadioHasGroup DEF OfKind
    <2>2. Kids[Parent[c]] \in Seq(Controls)
      BY <2>1, TreeAssumption
    <2> QED BY <2>1, <2>2 DEF Contains, Range
  <1> QED BY <1>1, <1>2, <1>3, <1>4, TreeAssumption

LEMMA LiveOfType ==
    ASSUME NEW c \in Controls, can_activate(c)
    PROVE  /\ LiveOf(c) \in Controls
           /\ LiveOf(LiveOf(c)) = LiveOf(c)
           /\ Kind[c] = "checkbox" => LiveOf(c) = c /\ c \in LiveControls
           /\ Kind[c] = "radio" => LiveOf(c) = Parent[c] /\ Parent[c] \in OfKind("group")
                                   /\ Parent[c] \in LiveControls /\ Id[c] \in Int
           /\ Kind[c] \notin {"radio", "checkbox"} => LiveOf(c) = c /\ c \notin LiveControls
           /\ Kind[c] \in {"radio", "checkbox", "button", "rollout"}
  <1>1. Kind[c] \in {"radio", "checkbox", "button", "rollout"}
    BY DEF can_activate, Leaves
  <1>2. CASE Kind[c] = "radio"
    BY <1>2, RadioHasGroup DEF OfKind, LiveOf, LiveControls, HasLive
  <1>3. CASE Kind[c] # "radio"
    BY <1>1, <1>3 DEF LiveOf, LiveControls, HasLive
  <1> QED BY <1>2, <1>3

-------------------------------------------------------------------------------
(* What the handlers do to the fields.                                     *)

(* h is f but for one control's value, and the values below it, which have *)
(* not stopped to agree; what is enabled is the same.                      *)
Touches(f, h, c) ==
    /\ h \in Fields /\ RadiosAgree(h)
    /\ h.enabled = f.enabled
    /\ \A d \in LiveControls \ {c} : h.int_val[d] = f.int_val[d] /\ h.last_live[d] = f.last_live[d]

LEMMA SelectedTouches ==
    ASSUME NEW f \in Fields, RadiosAgree(f), NEW g \in OfKind("group"), NEW v \in Int
    PROVE  LET h == set_selected(f, g, v)
           IN  /\ Touches(f, h, g) /\ h.int_val[g] = v
               /\ h.live = f.live /\ h.last_live = f.last_live /\ h.orig_value = f.orig_value
  <1> DEFINE val(c) == IF c = g THEN v
                       ELSE IF Contains(Kids[g], c) THEN (IF v # -1 /\ Id[c] = v THEN 1 ELSE 0)
                       ELSE f.int_val[c]
             values == [c \in Controls |-> val(c)]
             h == set_selected(f, g, v)
  <1>1. h = [f EXCEPT !.int_val = values]
    BY DEF set_selected
  <1>2. values \in [Controls -> Int]
    <2>1. \A c \in Controls : val(c) \in Int
      BY DEF Fields
    <2> HIDE DEF val
    <2> QED BY <2>1
  <1>3. g \in Controls /\ Kind[g] = "group" /\ values[g] = v
    BY DEF OfKind
  <1>4. \A d \in LiveControls \ {g} : values[d] = f.int_val[d]
    <2> SUFFICES ASSUME NEW d \in LiveControls \ {g} PROVE values[d] = f.int_val[d]
      OBVIOUS
    <2>1. d \in Controls /\ d \notin OfKind("radio")
      BY DEF LiveControls, HasLive, OfKind
    <2>2. ~Contains(Kids[g], d)
      BY <2>1, GroupHasRadios
    <2> QED BY <2>1, <2>2
  <1>5. \A r \in OfKind("radio") : values[r] = 1 => values[Parent[r]] = Id[r]
    <2> SUFFICES ASSUME NEW r \in OfKind("radio"), values[r] = 1
                 PROVE  values[Parent[r]] = Id[r]
      OBVIOUS
    <2>1. r \in Controls /\ r # g /\ Parent[r] \in Controls /\ Contains(Kids[Parent[r]], r)
          /\ Parent[r] \in OfKind("group")
      BY <1>3, RadioHasGroup DEF OfKind
    <2>2. values[r] = val(r)
      BY <2>1
    <2>3. CASE Parent[r] = g
      <3>1. val(r) = IF v # -1 /\ Id[r] = v THEN 1 ELSE 0
        BY <2>1, <2>3
      <3> QED BY <1>3, <2>2, <2>3, <3>1
    <2>4. CASE Parent[r] # g
      <3>1. ~Contains(Kids[g], r)
        BY <2>4, GroupHasRadios
      <3>2. val(r) = f.int_val[r]
        BY <2>1, <3>1
      <3>3. ~Contains(Kids[g], Parent[r])
        BY <2>1, GroupHasRadios DEF OfKind
      <3>4. values[Parent[r]] = f.int_val[Parent[r]]
        BY <2>1, <2>4, <3>3
      <3> QED BY <2>2, <3>2, <3>4 DEF RadiosAgree
    <2> QED BY <2>3, <2>4
  <1> HIDE DEF values, h
  <1>6. /\ h \in Fields /\ h.int_val = values /\ h.enabled = f.enabled
        /\ h.live = f.live /\ h.last_live = f.last_live /\ h.orig_value = f.orig_value
    BY <1>1, <1>2 DEF Fields
  <1> QED BY <1>3, <1>4, <1>5, <1>6 DEF Touches, RadiosAgree, h

LEMMA ToggleTouches ==
    ASSUME NEW f \in Fields, RadiosAgree(f), NEW r \in Controls
    PROVE  LET h == Toggle(f, r)
           IN  /\ \A c : Touches(f, h, c)
               /\ h.last_live = f.last_live /\ h.orig_value = f.orig_value
  <1> DEFINE h == Toggle(f, r)
  <1>1. PICK o, m : m \subseteq Controls /\ o \subseteq Controls
                    /\ h = [f EXCEPT !.is_open = o, !.hidden = m]
    <2> DEFINE Met(q) == q \in f.is_open
                         \/ /\ Kids[Parent[q]][1] = q
                            /\ Parent[q] = r \/ Parent[q] \notin OfKind("rollout") \ f.is_open
               met == {d \in Below(r) :
                         \A q \in (Above[d] \ (Above[r] \cup {r})) \cap OfKind("rollout") : Met(q)}
    <2>1. met \subseteq Controls
      BY DEF Below
    <2>2. f.is_open \subseteq Controls /\ f.hidden \subseteq Controls
      BY DEF Fields
    <2>3. h = IF r \in f.is_open
              THEN [f EXCEPT !.is_open = f.is_open \ {r}, !.hidden = f.hidden \cup met]
              ELSE [f EXCEPT !.is_open = f.is_open \cup {r}, !.hidden = f.hidden \ met]
      BY DEF Toggle
    <2> HIDE DEF met, h
    <2>4. CASE r \in f.is_open
      <3> WITNESS f.is_open \ {r}, f.hidden \cup met
      <3> QED BY <2>1, <2>2, <2>3, <2>4
    <2>5. CASE r \notin f.is_open
      <3> WITNESS f.is_open \cup {r}, f.hidden \ met
      <3> QED BY <2>1, <2>2, <2>3, <2>5
    <2> QED BY <2>4, <2>5
  <1> HIDE DEF h
  <1>2. h \in Fields /\ h.int_val = f.int_val /\ h.enabled = f.enabled
        /\ h.last_live = f.last_live /\ h.orig_value = f.orig_value
    BY <1>1 DEF Fields
  <1> QED BY <1>2 DEF Touches, RadiosAgree, h

(* A value that no radio button or group has is set.                       *)
LEMMA SetTouches ==
    ASSUME NEW f \in Fields, RadiosAgree(f), NEW c \in Controls, NEW v \in Int,
           Kind[c] \notin {"radio", "group"}
    PROVE  LET h == [f EXCEPT !.int_val[c] = v]
           IN  /\ Touches(f, h, c) /\ h.int_val[c] = v
               /\ h.live = f.live /\ h.last_live = f.last_live /\ h.orig_value = f.orig_value
  <1> DEFINE values == [f.int_val EXCEPT ![c] = v]
             h == [f EXCEPT !.int_val[c] = v]
  <1>1. h = [f EXCEPT !.int_val = values]
    OBVIOUS
  <1>2. f.int_val \in [Controls -> Int]
    BY DEF Fields
  <1>3. values \in [Controls -> Int] /\ values[c] = v
        /\ \A d \in Controls \ {c} : values[d] = f.int_val[d]
    BY <1>2
  <1> HIDE DEF values, h
  <1>4. /\ h \in Fields /\ h.int_val = values /\ h.enabled = f.enabled
        /\ h.live = f.live /\ h.last_live = f.last_live /\ h.orig_value = f.orig_value
    BY <1>1, <1>3 DEF Fields
  <1>5. RadiosAgree(h)
    <2> SUFFICES ASSUME NEW r \in OfKind("radio"), values[r] = 1
                 PROVE  values[Parent[r]] = Id[r]
      BY <1>4 DEF RadiosAgree
    <2>1. r \in Controls \ {c} /\ Parent[r] \in Controls \ {c}
      BY RadioHasGroup DEF OfKind
    <2> QED BY <1>3, <2>1 DEF RadiosAgree
  <1> QED BY <1>3, <1>4, <1>5 DEF Touches, LiveControls, h

(* A live variable is given the value of its control.                      *)
LEMMA OutputTouches ==
    ASSUME NEW f \in Fields, RadiosAgree(f), NEW c \in Controls
    PROVE  LET h == output_live(f, c)
           IN  /\ Touches(f, h, c) /\ h.int_val = f.int_val /\ h.orig_value = f.orig_value
               /\ c \in LiveControls =>
                    /\ h.last_live = [f.last_live EXCEPT ![c] = f.int_val[c]]
                    /\ h.live = [f.live EXCEPT ![c] = f.int_val[c]]
  <1> DEFINE h == output_live(f, c)
             l == [f.live EXCEPT ![c] = f.int_val[c]]
             last == [f.last_live EXCEPT ![c] = f.int_val[c]]
  <1>1. CASE c \notin LiveControls
    <2>1. h = f
      BY <1>1 DEF output_live, LiveControls
    <2> QED BY <1>1, <2>1 DEF Touches
  <1>2. CASE c \in LiveControls
    <2>1. h = [f EXCEPT !.live = l, !.last_live = last]
      BY <1>2 DEF output_live, LiveControls
    <2>2. f.int_val[c] \in Int /\ f.live \in [LiveControls -> Int]
          /\ f.last_live \in [LiveControls -> Int]
      BY DEF Fields
    <2>3. l \in [LiveControls -> Int] /\ last \in [LiveControls -> Int]
          /\ \A d \in LiveControls \ {c} : last[d] = f.last_live[d]
      BY <2>2
    <2> HIDE DEF l, last, h
    <2>4. /\ h \in Fields /\ h.int_val = f.int_val /\ h.enabled = f.enabled
          /\ h.live = l /\ h.last_live = last /\ h.orig_value = f.orig_value
      BY <2>1, <2>3 DEF Fields
    <2>5. RadiosAgree(h)
      BY <2>4 DEF RadiosAgree
    <2> QED BY <2>3, <2>4, <2>5 DEF Touches, h, l, last
  <1> QED BY <1>1, <1>2

LEMMA InsideIsField ==
    ASSUME NEW f \in Fields, RadiosAgree(f), NEW in \in BOOLEAN, NEW at \in BOOLEAN, NEW v \in Int
    PROVE  LET h == [f EXCEPT !.currently_inside = in, !.initially_inside = at, !.orig_value = v]
           IN  /\ h \in Fields /\ RadiosAgree(h)
               /\ h.int_val = f.int_val /\ h.last_live = f.last_live /\ h.live = f.live
               /\ h.enabled = f.enabled /\ h.orig_value = v
  BY DEF Fields, RadiosAgree

LEMMA PressTouches ==
    ASSUME NEW f \in Fields, RadiosAgree(f), NEW c \in Controls, can_activate(c),
           NEW header \in BOOLEAN
    PROVE  LET h == Press(f, c, header)
               l == LiveOf(c)
           IN  /\ Touches(f, h, l) /\ h.last_live = f.last_live
               /\ l \in LiveControls => h.orig_value = f.int_val[l]
  <1> DEFINE h == Press(f, c, header)
             in == [f EXCEPT !.currently_inside = TRUE]
  <1>1. /\ in \in Fields /\ RadiosAgree(in) /\ in.int_val = f.int_val /\ in.enabled = f.enabled
        /\ in.last_live = f.last_live
    BY DEF Fields, RadiosAgree
  <1>2. CASE Kind[c] = "button"
    <2>1. h = [in EXCEPT !.int_val[c] = 1]
      BY <1>2 DEF Press
    <2> HIDE DEF in
    <2>2. Touches(in, h, c) /\ h.last_live = in.last_live
      BY <1>1, <1>2, <2>1, SetTouches
    <2> HIDE DEF h
    <2>3. LiveOf(c) = c /\ c \notin LiveControls
      BY <1>2, LiveOfType
    <2> QED BY <1>1, <2>2, <2>3 DEF Touches, h
  <1>3. CASE Kind[c] = "checkbox"
    <2> DEFINE old == f.int_val[c]
               noted == [in EXCEPT !.orig_value = old]
               new == 1 - old
    <2>1. old \in Int /\ new \in Int
      BY DEF Fields
    <2>2. h = [noted EXCEPT !.int_val[c] = new]
      <3>1. h = [in EXCEPT !.orig_value = old, !.int_val[c] = 1 - @]
        BY <1>3 DEF Press
      <3>2. h = [noted EXCEPT !.int_val[c] = 1 - @]
        BY <3>1
      <3>3. noted.int_val = f.int_val
        BY DEF Fields
      <3> QED BY <3>2, <3>3
    <2>3. /\ noted \in Fields /\ RadiosAgree(noted) /\ noted.int_val = f.int_val
          /\ noted.enabled = f.enabled /\ noted.last_live = f.last_live
          /\ noted.orig_value = old
      <3> HIDE DEF in, old
      <3> QED BY <1>1, <2>1 DEF Fields, RadiosAgree
    <2> HIDE DEF noted, new
    <2>4. Touches(noted, h, c) /\ h.last_live = noted.last_live /\ h.orig_value = noted.orig_value
      BY <1>3, <2>1, <2>2, <2>3, SetTouches
    <2> HIDE DEF h
    <2>5. LiveOf(c) = c
      BY <1>3, LiveOfType
    <2> QED BY <2>3, <2>4, <2>5 DEF Touches, h, old
  <1>4. CASE Kind[c] = "radio"
    <2> DEFINE g == Parent[c]
               old == f.int_val[g]
               noted == [in EXCEPT !.orig_value = old]
    <2>1. g \in OfKind("group") /\ Id[c] \in Int /\ LiveOf(c) = g
      BY <1>4, LiveOfType
    <2>2. h = set_selected(noted, g, Id[c])
      BY <1>4 DEF Press
    <2>3. old \in Int
      BY <2>1 DEF Fields, OfKind
    <2>4. /\ noted \in Fields /\ RadiosAgree(noted) /\ noted.int_val = f.int_val
          /\ noted.enabled = f.enabled /\ noted.last_live = f.last_live
          /\ noted.orig_value = old
      <3> HIDE DEF in, old, g
      <3> QED BY <1>1, <2>3 DEF Fields, RadiosAgree
    <2> HIDE DEF noted, g
    <2>5. Touches(noted, h, g) /\ h.last_live = noted.last_live /\ h.orig_value = noted.orig_value
      BY <2>1, <2>2, <2>4, SelectedTouches
    <2> HIDE DEF h
    <2> QED BY <2>1, <2>4, <2>5 DEF Touches, h, old
  <1>5. CASE Kind[c] = "rollout"
    <2>1. h = [f EXCEPT !.currently_inside = header, !.initially_inside = header]
      BY <1>5 DEF Press
    <2>2. /\ h \in Fields /\ RadiosAgree(h) /\ h.int_val = f.int_val /\ h.enabled = f.enabled
          /\ h.last_live = f.last_live
      BY <2>1 DEF Fields, RadiosAgree
    <2> HIDE DEF h
    <2>3. LiveOf(c) \notin LiveControls
      BY <1>5, LiveOfType
    <2> QED BY <2>2, <2>3 DEF Touches, h
  <1> QED BY <1>2, <1>3, <1>4, <1>5, LiveOfType

LEMMA HeldTouches ==
    ASSUME NEW f \in Fields, RadiosAgree(f), NEW c \in Controls, can_activate(c),
           NEW in \in BOOLEAN
    PROVE  LET h == Held(f, c, in)
           IN  /\ Touches(f, h, LiveOf(c)) /\ h.last_live = f.last_live
               /\ h.orig_value = f.orig_value
  <1> DEFINE h == Held(f, c, in)
             now == [f EXCEPT !.currently_inside = in]
  <1>1. /\ now \in Fields /\ RadiosAgree(now) /\ now.int_val = f.int_val /\ now.enabled = f.enabled
        /\ now.last_live = f.last_live /\ now.orig_value = f.orig_value
    BY DEF Fields, RadiosAgree
  <1>2. CASE h \in {f, now}
    BY <1>1, <1>2 DEF Touches
  <1>3. CASE Kind[c] = "checkbox" /\ h = [now EXCEPT !.int_val[c] = 1 - @]
    <2> DEFINE new == 1 - f.int_val[c]
    <2>1. new \in Int
      BY DEF Fields
    <2>2. h = [now EXCEPT !.int_val[c] = new]
      BY <1>1, <1>3
    <2> HIDE DEF now, new
    <2>3. Touches(now, h, c) /\ h.last_live = now.last_live /\ h.orig_value = now.orig_value
      BY <1>1, <1>3, <2>1, <2>2, SetTouches
    <2> HIDE DEF h
    <2>4. LiveOf(c) = c
      BY <1>3, LiveOfType
    <2> QED BY <1>1, <2>3, <2>4 DEF Touches, h
  <1>4. CASE Kind[c] = "radio"
             /\ h = set_selected(now, Parent[c], IF in THEN Id[c] ELSE f.orig_value)
    <2> DEFINE v == IF in THEN Id[c] ELSE f.orig_value
               g == Parent[c]
    <2>1. g \in OfKind("group") /\ LiveOf(c) = g /\ v \in Int
      BY <1>4, LiveOfType DEF Fields
    <2>2. h = set_selected(now, g, v)
      BY <1>4
    <2> HIDE DEF now, v, g
    <2>3. Touches(now, h, g) /\ h.last_live = now.last_live /\ h.orig_value = now.orig_value
      BY <1>1, <2>1, <2>2, SelectedTouches
    <2> HIDE DEF h
    <2> QED BY <1>1, <2>1, <2>3 DEF Touches, h
  <1> QED BY <1>2, <1>3, <1>4 DEF Held

(* A control that is released executes the callback of its live control,   *)
(* which then shows what its variable has been given, or it executes none  *)
(* and has gone back to orig_value.                                        *)
LEMMA ReleaseTouches ==
    ASSUME NEW f \in Fields, RadiosAgree(f), NEW c \in Controls, can_activate(c),
           NEW in \in BOOLEAN
    PROVE  LET h == Release(f, c, in)
               l == LiveOf(c)
           IN  /\ Touches(f, h, l)
               /\ Calls(f, c, in) \in {None, l}
               /\ l \in LiveControls =>
                     IF Calls(f, c, in) = None
                     THEN h.int_val[l] = f.orig_value /\ h.last_live = f.last_live
                     ELSE h.int_val[l] = h.last_live[l]
  <1> DEFINE h == Release(f, c, in)
             l == LiveOf(c)
             out == [f EXCEPT !.currently_inside = FALSE]
             up == [out EXCEPT !.initially_inside = FALSE]
  <1>1. /\ out \in Fields /\ RadiosAgree(out) /\ out.int_val = f.int_val /\ out.enabled = f.enabled
        /\ out.last_live = f.last_live /\ out.live = f.live
        /\ up \in Fields /\ RadiosAgree(up) /\ up.int_val = f.int_val /\ up.enabled = f.enabled
        /\ up.last_live = f.last_live /\ up.live = f.live
    <2>1. /\ out \in Fields /\ RadiosAgree(out) /\ out.int_val = f.int_val
          /\ out.enabled = f.enabled /\ out.last_live = f.last_live /\ out.live = f.live
      BY DEF Fields, RadiosAgree
    <2> HIDE DEF out
    <2>2. /\ up \in Fields /\ RadiosAgree(up) /\ up.int_val = out.int_val
          /\ up.enabled = out.enabled /\ up.last_live = out.last_live /\ up.live = out.live
      BY <2>1 DEF Fields, RadiosAgree
    <2> HIDE DEF up
    <2> QED BY <2>1, <2>2
  <1>2. l \in Controls /\ None \notin Controls
    BY LiveOfType, FormAssumption
  <1>3. CASE Kind[c] = "button"
    <2> DEFINE zero == 0
    <2>1. h = [out EXCEPT !.int_val[c] = zero]
      BY <1>3 DEF Release
    <2>2. zero \in Int
      OBVIOUS
    <2> HIDE DEF out, zero
    <2>3. Touches(out, h, c)
      BY <1>1, <1>3, <2>1, <2>2, SetTouches
    <2> HIDE DEF h
    <2>4. l = c /\ l \notin LiveControls
      BY <1>3, LiveOfType
    <2>5. Calls(f, c, in) \in {None, l}
      BY <1>3, <2>4 DEF Calls
    <2> HIDE DEF l
    <2> QED BY <1>1, <2>3, <2>4, <2>5 DEF Touches, h, l
  <1>4. CASE Kind[c] = "checkbox" /\ in
    <2> DEFINE v == f.int_val[c]
               set == [f EXCEPT !.int_val[c] = v]
    <2>1. h = output_live(set, c)
      BY <1>4 DEF Release, set_int_val
    <2>2. v \in Int
      BY DEF Fields
    <2>3. l = c /\ l \in LiveControls
      BY <1>4, LiveOfType
    <2>4. Calls(f, c, in) = c
      BY <1>4 DEF Calls
    <2> HIDE DEF v, l
    <2>5. Touches(f, set, c) /\ set.int_val[c] = v
      BY <1>1, <1>4, <2>2, SetTouches
    <2> HIDE DEF set
    <2>6. set \in Fields /\ RadiosAgree(set)
      BY <2>5 DEF Touches
    <2>7. /\ Touches(set, h, c) /\ h.int_val = set.int_val
          /\ h.last_live = [set.last_live EXCEPT ![c] = set.int_val[c]]
      <3>1. c \in LiveControls
        BY <2>3
      <3> HIDE DEF h
      <3> QED BY <2>1, <2>6, <3>1, OutputTouches
    <2>8. h.last_live[c] = h.int_val[c]
      <3>1. set.last_live \in [LiveControls -> Int]
        BY <2>6 DEF Fields
      <3> HIDE DEF h
      <3> QED BY <2>3, <2>7, <3>1
    <2> HIDE DEF h
    <2> QED BY <1>1, <1>2, <2>3, <2>4, <2>5, <2>7, <2>8 DEF Touches, h, l
  <1>5. CASE Kind[c] = "checkbox" /\ ~in
    <2> DEFINE v == f.orig_value
    <2>1. h = [f EXCEPT !.int_val[c] = v]
      BY <1>5 DEF Release
    <2>2. v \in Int
      BY DEF Fields
    <2>3. l = c /\ l \in LiveControls
      BY <1>5, LiveOfType
    <2>4. Calls(f, c, in) = None
      BY <1>5 DEF Calls
    <2> HIDE DEF v, l
    <2>5. Touches(f, h, c) /\ h.int_val[c] = v /\ h.last_live = f.last_live
      BY <1>1, <1>5, <2>1, <2>2, SetTouches
    <2> HIDE DEF h
    <2> QED BY <1>1, <2>3, <2>4, <2>5 DEF Touches, h, l, v
  <1>6. CASE Kind[c] = "radio"
    <2> DEFINE g == Parent[c]
               v == IF in THEN Id[c] ELSE f.orig_value
               chosen == set_selected(f, g, v)
               tells == in /\ Id[c] # f.orig_value
    <2>1. h = IF tells THEN output_live(chosen, g) ELSE chosen
      BY <1>6 DEF Release
    <2>2. g \in OfKind("group") /\ g \in LiveControls /\ l = g /\ v \in Int /\ g \in Controls
      BY <1>6, LiveOfType DEF Fields, OfKind
    <2>3. Calls(f, c, in) = IF tells THEN l ELSE None
      BY <1>6, <2>2 DEF Calls
    <2> HIDE DEF l, g
    <2>4. Touches(f, chosen, g) /\ chosen.int_val[g] = v /\ chosen.last_live = f.last_live
      <3> HIDE DEF v
      <3> QED BY <1>1, <2>2, SelectedTouches
    <2> HIDE DEF chosen
    <2>5. chosen \in Fields /\ RadiosAgree(chosen)
      BY <2>4 DEF Touches
    <2>6. CASE tells
      <3>1. /\ Touches(chosen, h, g) /\ h.int_val = chosen.int_val
            /\ h.last_live = [chosen.last_live EXCEPT ![g] = chosen.int_val[g]]
        <4> HIDE DEF h, tells
        <4> QED BY <2>1, <2>2, <2>5, <2>6, OutputTouches
      <3>2. h.last_live[g] = h.int_val[g]
        <4>1. chosen.last_live \in [LiveControls -> Int]
          BY <2>5 DEF Fields
        <4> HIDE DEF h
        <4> QED BY <2>2, <3>1, <4>1
      <3> HIDE DEF h, tells
      <3> QED BY <1>1, <1>2, <2>2, <2>3, <2>4, <2>6, <3>1, <3>2 DEF Touches, h, l
    <2>7. CASE ~tells
      <3>1. h = chosen /\ v = f.orig_value
        BY <2>1, <2>7
      <3> HIDE DEF h, tells, v
      <3> QED BY <1>1, <2>2, <2>3, <2>4, <2>7, <3>1 DEF Touches, h, l
    <2> QED BY <2>6, <2>7
  <1>7. CASE Kind[c] = "rollout"
    <2>1. h = IF f.currently_inside THEN Toggle(up, c) ELSE up
      BY <1>7 DEF Release
    <2>2. l = c /\ l \notin LiveControls
      BY <1>7, LiveOfType
    <2>3. Calls(f, c, in) = None
      BY <1>7 DEF Calls
    <2> HIDE DEF up, l
    <2>4. Touches(up, Toggle(up, c), l)
      BY <1>1, ToggleTouches
    <2>5. Touches(up, up, l)
      BY <1>1 DEF Touches
    <2>6. Touches(up, h, l)
      BY <2>1, <2>4, <2>5
    <2> HIDE DEF h
    <2> QED BY <1>1, <2>2, <2>3, <2>6 DEF Touches, h, l
  <1> QED BY <1>3, <1>4, <1>5, <1>6, <1>7, LiveOfType

-------------------------------------------------------------------------------
(* sync_live.                                                              *)

(* A control is given the value of its live variable.                      *)
LEMMA SetIntValTouches ==
    ASSUME NEW f \in Fields, RadiosAgree(f), NEW c \in LiveControls
    PROVE  LET h == set_int_val(f, c, f.live[c])
           IN  /\ Touches(f, h, c) /\ h.int_val[c] = f.live[c]
               /\ h.live = f.live /\ h.orig_value = f.orig_value
  <1> DEFINE v == f.live[c]
             h == set_int_val(f, c, v)
             set == IF Kind[c] = "group" THEN set_selected(f, c, v) ELSE [f EXCEPT !.int_val[c] = v]
  <1>1. v \in Int /\ c \in Controls /\ Kind[c] \in {"group", "checkbox"} /\ f.live \in [LiveControls -> Int]
    BY DEF Fields, LiveControls, HasLive
  <1>2. CASE Kind[c] = "group" /\ v = f.int_val[c]
    <2>1. h = f
      BY <1>2 DEF set_int_val
    <2> QED BY <1>2, <2>1 DEF Touches
  <1>3. CASE ~(Kind[c] = "group" /\ v = f.int_val[c])
    <2>1. h = output_live(set, c)
      BY <1>3 DEF set_int_val
    <2>2. Touches(f, set, c) /\ set.int_val[c] = v /\ set.live = f.live
          /\ set.orig_value = f.orig_value
      <3>1. CASE Kind[c] = "group"
        <4> HIDE DEF v
        <4>1. c \in OfKind("group") /\ set = set_selected(f, c, v)
          BY <1>1, <3>1 DEF OfKind
        <4> HIDE DEF set
        <4> QED BY <1>1, <4>1, SelectedTouches
      <3>2. CASE Kind[c] # "group"
        <4> HIDE DEF v
        <4>1. set = [f EXCEPT !.int_val[c] = v] /\ Kind[c] \notin {"radio", "group"}
          BY <1>1, <3>2
        <4> HIDE DEF set
        <4> QED BY <1>1, <4>1, SetTouches
      <3> QED BY <3>1, <3>2
    <2> HIDE DEF set, h
    <2>3. set \in Fields /\ RadiosAgree(set)
      BY <2>2 DEF Touches
    <2>4. Touches(set, h, c) /\ h.int_val = set.int_val /\ h.orig_value = set.orig_value
          /\ h.live = [set.live EXCEPT ![c] = set.int_val[c]]
      BY <1>1, <2>1, <2>3, OutputTouches
    <2>5. h.live = f.live
      BY <1>1, <2>2, <2>4
    <2>6. h.int_val[c] = v
      BY <2>2, <2>4
    <2>7. Touches(f, h, c)
      BY <2>2, <2>4 DEF Touches
    <2> QED BY <2>2, <2>4, <2>5, <2>6, <2>7 DEF h
  <1> QED BY <1>2, <1>3

(* Some controls have followed their variables and the others are as they  *)
(* were.                                                                   *)
Followed(f) ==
    /\ f \in Fields /\ RadiosAgree(f)
    /\ f.enabled = ctl.enabled /\ f.live = ctl.live /\ f.orig_value = ctl.orig_value
    /\ \A c \in LiveControls :
        \/ f.int_val[c] = ctl.int_val[c] /\ f.last_live[c] = ctl.last_live[c]
        \/ f.int_val[c] = f.last_live[c] /\ ctl.live[c] # ctl.last_live[c]

LEMMA SyncOfFollows ==
    ASSUME NEW f, Followed(f), NEW c \in LiveControls
    PROVE  Followed(SyncOf(f, c))
  <1> DEFINE v == f.live[c]
             set == set_int_val(f, c, v)
             last == [set.last_live EXCEPT ![c] = v]
             h == [set EXCEPT !.last_live = last]
  <1>1. CASE SyncOf(f, c) = f
    BY <1>1
  <1>2. CASE f.live[c] # f.last_live[c] /\ SyncOf(f, c) = h
    <2>1. f \in Fields /\ RadiosAgree(f)
      BY DEF Followed
    <2>2. Touches(f, set, c) /\ set.int_val[c] = v
          /\ set.live = f.live /\ set.orig_value = f.orig_value
      <3> HIDE DEF set
      <3> QED BY <2>1, SetIntValTouches DEF set
    <2>3. v \in Int /\ set \in Fields
      BY <2>1, <2>2 DEF Fields, Touches
    <2> HIDE DEF v, set
    <2>4. last \in [LiveControls -> Int] /\ last[c] = v
          /\ \A d \in LiveControls \ {c} : last[d] = set.last_live[d]
      BY <2>3 DEF Fields
    <2> HIDE DEF last
    <2>5. /\ h \in Fields /\ h.int_val = set.int_val /\ h.enabled = set.enabled
          /\ h.live = set.live /\ h.last_live = last /\ h.orig_value = set.orig_value
      BY <2>3, <2>4 DEF Fields
    <2> HIDE DEF h
    <2>6. RadiosAgree(h)
      BY <2>2, <2>5 DEF RadiosAgree, Touches
    <2>7. ctl.live[c] # ctl.last_live[c]
      BY <1>2 DEF Followed
    <2>8. Followed(h)
      BY <2>2, <2>4, <2>5, <2>6, <2>7 DEF Followed, Touches
    <2> QED BY <1>2, <2>8
  <1>3. SyncOf(f, c) = f \/ (f.live[c] # f.last_live[c] /\ SyncOf(f, c) = h)
    <2>1. SyncOf(f, c) = IF (c = active_control /\ mouse_button_down) \/ f.live[c] = f.last_live[c]
                         THEN f ELSE [set EXCEPT !.last_live[c] = v]
      BY DEF SyncOf
    <2>2. [set EXCEPT !.last_live[c] = v] = h
      OBVIOUS
    <2> QED BY <2>1, <2>2
  <1> QED BY <1>1, <1>2, <1>3

(* The controls follow one after the other.  The fold defines a function   *)
(* on the sets of controls, as it does on those of up to n controls for    *)
(* every n, and no set is the smallest for which a control has gone wrong. *)
LEMMA SyncLiveFollows ==
    ASSUME ctl \in Fields, RadiosAgree(ctl)
    PROVE  Followed(FoldSet(LAMBDA c, f : SyncOf(f, c), ctl, LiveControls))
  <1> DEFINE S == LiveControls
             Pick(s) == CHOOSE x \in s : TRUE
             NextSync(f, s) == SyncOf(f[s \ {Pick(s)}], Pick(s))
             UpTo(n) == {s \in SUBSET S : Cardinality(s) <= n}
             Defines(f, D) == f = [s \in D |-> IF s = {} THEN ctl ELSE NextSync(f, s)]
  <1>1. \A s \in SUBSET S : IsFiniteSet(s) /\ Cardinality(s) \in Nat
                            /\ Cardinality(s) <= Cardinality(S) /\ (Cardinality(s) = 0 <=> s = {})
    <2>1. IsFiniteSet(S)
      BY TreeAssumption, FS_Subset DEF LiveControls
    <2> HIDE DEF S
    <2> QED BY <2>1, FS_Subset, FS_CardinalityType, FS_EmptySet
  <1>2. \A s \in SUBSET S : s # {} =>
            /\ Pick(s) \in s /\ s \ {Pick(s)} \in SUBSET S
            /\ Cardinality(s \ {Pick(s)}) = Cardinality(s) - 1
    <2> SUFFICES ASSUME NEW s \in SUBSET S, s # {}
                 PROVE  /\ Pick(s) \in s /\ s \ {Pick(s)} \in SUBSET S
                        /\ Cardinality(s \ {Pick(s)}) = Cardinality(s) - 1
      OBVIOUS
    <2>1. Pick(s) \in s
      OBVIOUS
    <2> HIDE DEF Pick, S
    <2> QED BY <1>1, <2>1, FS_RemoveElement
  <1> HIDE DEF Pick
  <1> DEFINE undefined == {n \in Nat : ~\E f : Defines(f, UpTo(n))}
  <1>3. undefined = {}
    <2> SUFFICES ASSUME undefined # {} PROVE FALSE
      OBVIOUS
    <2>1. PICK n \in undefined : \A k \in undefined : ~(<<k, n>> \in OpToRel(<, Nat))
      <3> undefined \subseteq Nat
        OBVIOUS
      <3> HIDE DEF undefined
      <3> QED BY NatLessThanWellFounded, WFMin
    <2>2. n \in Nat /\ ~\E f : Defines(f, UpTo(n))
      OBVIOUS
    <2> HIDE DEF S
    <2>3. n # 0
      <3> SUFFICES ASSUME n = 0 PROVE FALSE
        OBVIOUS
      <3> DEFINE g == [s \in UpTo(0) |-> ctl]
      <3>1. \A s \in UpTo(0) : s = {}
        BY <1>1
      <3>2. Defines(g, UpTo(0))
        <4> HIDE DEF UpTo, NextSync
        <4> QED BY <3>1
      <3> HIDE DEF Defines, g
      <3> QED BY <2>2, <3>2
    <2>4. n - 1 \in Nat /\ n - 1 \notin undefined
      <3>1. n - 1 \in Nat /\ n - 1 < n
        BY <2>2, <2>3
      <3> HIDE DEF undefined
      <3>2. <<n - 1, n>> \in OpToRel(<, Nat)
        BY <2>2, <3>1 DEF OpToRel
      <3> QED BY <2>1, <3>1, <3>2
    <2>5. PICK f : Defines(f, UpTo(n - 1))
      BY <2>4
    <2> DEFINE g == [s \in UpTo(n) |-> IF s = {} THEN ctl ELSE NextSync(f, s)]
    <2>6. \A s \in UpTo(n - 1) : s \in UpTo(n) /\ f[s] = IF s = {} THEN ctl ELSE NextSync(f, s)
      <3>1. \A s \in UpTo(n - 1) : s \in UpTo(n)
        BY <1>1, <2>2
      <3> HIDE DEF UpTo, NextSync
      <3> QED BY <2>5, <3>1
    <2>7. \A s \in UpTo(n - 1) : g[s] = f[s]
      <3> HIDE DEF UpTo, NextSync
      <3> QED BY <2>6
    <2>8. \A s \in UpTo(n) : s # {} => NextSync(g, s) = NextSync(f, s)
      <3> SUFFICES ASSUME NEW s \in UpTo(n), s # {} PROVE NextSync(g, s) = NextSync(f, s)
        OBVIOUS
      <3>1. s \ {Pick(s)} \in UpTo(n - 1)
        BY <1>1, <1>2, <2>2
      <3>2. g[s \ {Pick(s)}] = f[s \ {Pick(s)}]
        BY <2>7, <3>1
      <3> HIDE DEF g
      <3> QED BY <3>2
    <2>9. Defines(g, UpTo(n))
      <3>1. \A s \in UpTo(n) : (IF s = {} THEN ctl ELSE NextSync(f, s))
                               = IF s = {} THEN ctl ELSE NextSync(g, s)
        BY <2>8
      <3>2. g = [s \in UpTo(n) |-> IF s = {} THEN ctl ELSE NextSync(f, s)]
        OBVIOUS
      <3> HIDE DEF g, UpTo, NextSync
      <3> QED BY <3>1, <3>2
    <2> HIDE DEF Defines, g
    <2> QED BY <2>2, <2>9
  <1> DEFINE iter == CHOOSE f : Defines(f, SUBSET S)
  <1>4. Defines(iter, SUBSET S)
    <2>1. Cardinality(S) \in Nat /\ UpTo(Cardinality(S)) = SUBSET S
      BY <1>1
    <2>2. \E f : Defines(f, SUBSET S)
      <3>1. PICK n \in Nat : UpTo(n) = SUBSET S
        BY <2>1
      <3>2. \E f : Defines(f, UpTo(n))
        BY <1>3
      <3> HIDE DEF UpTo, Defines
      <3> QED BY <3>1, <3>2
    <2> HIDE DEF Defines
    <2> QED BY <2>2
  <1>5. FoldSet(LAMBDA c, f : SyncOf(f, c), ctl, S) = iter[S]
    <2> HIDE DEF S
    <2> QED BY DEF FoldSet, MapThenFoldSet, Pick
  <1>6. \A s \in SUBSET S : iter[s] = IF s = {} THEN ctl ELSE NextSync(iter, s)
    <2> HIDE DEF iter, NextSync, S
    <2> QED BY <1>4
  <1> HIDE DEF iter
  <1> DEFINE wrong == {n \in Nat : \E s \in SUBSET S : Cardinality(s) = n /\ ~Followed(iter[s])}
  <1>7. wrong = {}
    <2> SUFFICES ASSUME wrong # {} PROVE FALSE
      OBVIOUS
    <2>1. PICK n \in wrong : \A k \in wrong : ~(<<k, n>> \in OpToRel(<, Nat))
      <3> wrong \subseteq Nat
        OBVIOUS
      <3> HIDE DEF wrong
      <3> QED BY NatLessThanWellFounded, WFMin
    <2>2. PICK s \in SUBSET S : Cardinality(s) = n /\ ~Followed(iter[s])
      OBVIOUS
    <2>3. n \in Nat
      OBVIOUS
    <2>4. CASE s = {}
      <3>1. iter[s] = ctl
        BY <1>6, <2>4
      <3>2. Followed(ctl)
        BY DEF Followed
      <3> QED BY <2>2, <3>1, <3>2
    <2>5. CASE s # {}
      <3> DEFINE t == s \ {Pick(s)}
      <3>1. Pick(s) \in s /\ t \in SUBSET S /\ Cardinality(t) = n - 1
        BY <1>2, <2>2, <2>5
      <3>2. n - 1 \in Nat /\ n - 1 < n
        BY <1>1, <2>3, <3>1
      <3>3. n - 1 \notin wrong
        <4> HIDE DEF wrong, t
        <4>1. <<n - 1, n>> \in OpToRel(<, Nat)
          BY <2>3, <3>2 DEF OpToRel
        <4> QED BY <2>1, <4>1
      <3>4. Followed(iter[t])
        <4> HIDE DEF t
        <4> QED BY <3>1, <3>2, <3>3
      <3>5. iter[s] = SyncOf(iter[t], Pick(s))
        BY <1>6, <2>5
      <3>6. Followed(SyncOf(iter[t], Pick(s)))
        <4> DEFINE before == iter[t]
                   c == Pick(s)
        <4>1. Followed(before) /\ c \in LiveControls
          BY <3>1, <3>4
        <4> HIDE DEF before, c
        <4>2. Followed(SyncOf(before, c))
          BY <4>1, SyncOfFollows
        <4> QED BY <4>2 DEF before, c
      <3> QED BY <2>2, <3>5, <3>6
    <2> QED BY <2>4, <2>5
  <1>8. Followed(iter[S])
    <2>1. S \in SUBSET S /\ Cardinality(S) \in Nat
      BY <1>1
    <2> HIDE DEF S
    <2> QED BY <1>7, <2>1
  <1> QED BY <1>5, <1>8

-------------------------------------------------------------------------------
(* FormInv is inductive.                                                   *)

LEMMA FormInitially == ASSUME FormInit PROVE FormInv
  <1>1. DOMAIN [c \in LiveControls |-> 0] = LiveControls
    OBVIOUS
  <1>2. ctl = [enabled |-> Controls, is_open |-> OfKind("rollout"), hidden |-> {},
               int_val |-> [c \in Controls |-> 0],
               currently_inside |-> FALSE, initially_inside |-> FALSE, orig_value |-> 0,
               live |-> [c \in LiveControls |-> 0], last_live |-> [c \in LiveControls |-> 0]]
    BY DEF FormInit, LiveControls
  <1>3. ctl \in Fields
    BY <1>2 DEF Fields, OfKind
  <1>4. \A c \in Controls : ctl.int_val[c] = 0
    BY <1>2
  <1>5. RadiosAgree(ctl)
    BY <1>4 DEF RadiosAgree, OfKind
  <1>6. Agree(ctl, {})
    BY <1>2 DEF Agree, LiveControls
  <1> QED BY <1>3, <1>5, <1>6 DEF FormInit, FormInv, Torn

(* What is active is a control that can be.                                *)
LEMMA ActiveType ==
    ASSUME FormInv, active_control # None
    PROVE  active_control \in Controls /\ can_activate(active_control)
           /\ active_control \in ctl.enabled
  BY DEF FormInv, Fields

LEMMA LiveDomain == ASSUME ctl \in Fields PROVE DOMAIN ctl.live = LiveControls
  BY DEF Fields

(* A pressed control has been touched, and the event was not its last.     *)
LEMMA HoldStep ==
    ASSUME FormInv, NEW c \in Controls, can_activate(c), c \in ctl.enabled,
           Touches(ctl, ctl', LiveOf(c)), ctl'.last_live = ctl.last_live,
           LiveOf(c) \in LiveControls \ torn => ctl'.orig_value = ctl.last_live[LiveOf(c)],
           active_control' = c, pressed' = c, mouse_button_down', torn' = torn,
           pressed \in {None, c}
    PROVE  FormInv'
  <1>1. c # None
    BY FormAssumption
  <1>2. Torn(pressed) \subseteq {LiveOf(c)} /\ Torn(pressed)' = {LiveOf(c)}
    BY <1>1 DEF Torn, LiveOf
  <1>3. Agree(ctl', torn' \cup Torn(pressed)')
    BY <1>2 DEF FormInv, Agree, Touches
  <1>4. ctl'.enabled = ctl.enabled /\ ctl' \in Fields /\ RadiosAgree(ctl')
    BY DEF Touches
  <1>5. LiveOf(pressed)' = LiveOf(c)
    BY DEF LiveOf
  <1> QED BY <1>1, <1>3, <1>4, <1>5 DEF FormInv, Agree, RadiosAgree

(* A step that leaves the controls' values alone, and forgets the pressed  *)
(* control only if it counts as torn.                                      *)
LEMMA QuietStep ==
    ASSUME FormInv, ctl' \in Fields, ctl'.int_val = ctl.int_val, ctl'.last_live = ctl.last_live,
           ctl'.orig_value = ctl.orig_value,
           active_control' \in {None} \cup {c \in ctl'.enabled : can_activate(c)},
           mouse_button_down' \in BOOLEAN,
           pressed' = IF mouse_button_down' THEN active_control' ELSE None,
           pressed' \in {None, pressed},
           torn \subseteq torn', torn \cup Torn(pressed) \subseteq torn' \cup Torn(pressed')
    PROVE  FormInv'
  <1>1. RadiosAgree(ctl')
    BY DEF FormInv, RadiosAgree
  <1>2. Agree(ctl', torn' \cup Torn(pressed'))
    BY DEF FormInv, Agree
  <1>3. pressed' # None /\ LiveOf(pressed') \in LiveControls \ torn' =>
            ctl'.orig_value = ctl'.last_live[LiveOf(pressed')]
    BY DEF FormInv
  <1> QED BY <1>1, <1>2, <1>3 DEF FormInv, Agree, RadiosAgree, Torn, LiveOf

LEMMA MouseDownStep == ASSUME FormInv, MouseDown PROVE FormInv'
  <1>1. PICK c \in Visible, header \in BOOLEAN : mouse_down(c, header)
    BY DEF MouseDown, Headers
  <1>2. c \in Controls /\ c # None /\ ctl \in Fields /\ ~mouse_button_down /\ pressed = None
    BY <1>1, FormAssumption DEF Visible, MouseDown, FormInv
  <1>3. CASE Takes(c)
    <2>1. /\ ctl' = Press(ctl, c, header) /\ pressed' = c /\ active_control' = c
          /\ mouse_button_down' /\ torn' = torn
      BY <1>1, <1>3 DEF mouse_down
    <2>2. can_activate(c) /\ c \in ctl.enabled
      BY <1>3 DEF Takes
    <2>3. RadiosAgree(ctl) /\ Agree(ctl, torn)
      BY <1>2 DEF FormInv, Torn
    <2>4. /\ Touches(ctl, ctl', LiveOf(c)) /\ ctl'.last_live = ctl.last_live
          /\ LiveOf(c) \in LiveControls => ctl'.orig_value = ctl.int_val[LiveOf(c)]
      BY <1>2, <2>1, <2>2, <2>3, PressTouches
    <2>5. LiveOf(c) \in LiveControls \ torn => ctl'.orig_value = ctl.last_live[LiveOf(c)]
      BY <2>3, <2>4 DEF Agree
    <2> QED BY <1>2, <2>1, <2>2, <2>4, <2>5, HoldStep
  <1>4. CASE ~Takes(c)
    <2>1. /\ UNCHANGED <<ctl, pressed, torn>> /\ mouse_button_down'
          /\ active_control' = IF c \in ctl.enabled \/ c # active_control THEN None
                               ELSE active_control
      BY <1>1, <1>4 DEF mouse_down
    <2>2. active_control' = None
      BY <1>2, <2>1, ActiveType
    <2> QED BY <1>2, <2>1, <2>2, QuietStep
  <1> QED BY <1>3, <1>4

LEMMA MotionStep == ASSUME FormInv, Motion PROVE FormInv'
  <1>1. PICK c \in Over, header \in BOOLEAN : motion(c, header)
    BY DEF Motion, Headers
  <1> DEFINE a == active_control
             in == c = a /\ header
  <1>2. /\ a \in Controls /\ can_activate(a) /\ a \in ctl.enabled /\ mouse_button_down
        /\ pressed = a /\ a # None /\ ctl \in Fields /\ RadiosAgree(ctl)
    BY ActiveType DEF Motion, FormInv
  <1>3. ctl' = Held(ctl, a, in) /\ in \in BOOLEAN
    BY <1>1 DEF motion
  <1>4. UNCHANGED <<active_control, mouse_button_down, pressed, torn>>
    BY <1>1 DEF motion
  <1> HIDE DEF in
  <1>5. Touches(ctl, ctl', LiveOf(a)) /\ ctl'.last_live = ctl.last_live
        /\ ctl'.orig_value = ctl.orig_value
    BY <1>2, <1>3, HeldTouches
  <1>6. LiveOf(a) \in LiveControls \ torn => ctl'.orig_value = ctl.last_live[LiveOf(a)]
    BY <1>2, <1>5 DEF FormInv
  <1>7. PICK b : b = a
    OBVIOUS
  <1>8. b \in Controls /\ can_activate(b) /\ b \in ctl.enabled
        /\ Touches(ctl, ctl', LiveOf(b))
        /\ (LiveOf(b) \in LiveControls \ torn => ctl'.orig_value = ctl.last_live[LiveOf(b)])
        /\ active_control' = b /\ pressed' = b /\ mouse_button_down' /\ torn' = torn
        /\ pressed \in {None, b}
    BY <1>2, <1>4, <1>5, <1>6, <1>7
  <1> QED BY <1>5, <1>8, HoldStep

(* The end of a press or of the key space: after it nothing is pressed, or *)
(* the pressed control counts as torn.                                     *)
LEMMA ReleaseStep ==
    ASSUME FormInv, NEW f \in Fields, NEW c \in Controls, NEW in \in BOOLEAN,
           can_activate(c), c \in ctl.enabled, c = active_control,
           Touches(ctl, f, LiveOf(c)), f.last_live = ctl.last_live,
           pressed \in {None, c},
           ctl' = Release(f, c, in), active_control' = active_control,
           mouse_button_down' \in BOOLEAN,
           pressed' = IF mouse_button_down' THEN active_control ELSE None,
           \/ torn' = torn \cup {LiveOf(c)}
           \/ /\ pressed' = None /\ torn' = torn \ Torn(Calls(f, c, in))
              /\ LiveOf(c) \in LiveControls \ torn => f.orig_value = ctl.last_live[LiveOf(c)]
    PROVE  FormInv'
  <1> DEFINE l == LiveOf(c)
             h == ctl'
             called0 == Calls(f, c, in)
  <1>1. c # None /\ None \notin Controls /\ l \in Controls /\ LiveOf(l) = l
    BY LiveOfType, FormAssumption
  <1>2. /\ Touches(f, h, l) /\ called0 \in {None, l}
        /\ l \in LiveControls =>
              IF called0 = None THEN h.int_val[l] = f.orig_value /\ h.last_live = f.last_live
              ELSE h.int_val[l] = h.last_live[l]
    <2>1. RadiosAgree(f)
      BY DEF Touches
    <2> QED BY <2>1, ReleaseTouches
  <1>3. h \in Fields /\ RadiosAgree(h) /\ h.enabled = ctl.enabled
    BY <1>2 DEF Touches
  <1>4. \A d \in LiveControls \ {l} : h.int_val[d] = ctl.int_val[d] /\ h.last_live[d] = ctl.last_live[d]
    BY <1>2 DEF Touches
  <1>5. Torn(pressed) \subseteq {l}
    BY <1>1 DEF Torn
  <1>6. \A d \in LiveControls \ (torn \cup {l}) : h.int_val[d] = h.last_live[d]
    BY <1>4, <1>5 DEF FormInv, Agree
  <1>7. Agree(ctl', torn' \cup Torn(pressed'))
    <2>1. CASE torn' = torn \cup {l}
      BY <1>6, <2>1 DEF Agree
    <2>2. CASE /\ pressed' = None /\ torn' = torn \ Torn(called0)
               /\ l \in LiveControls \ torn => f.orig_value = ctl.last_live[l]
      <3>1. Torn(called0) = IF called0 = None THEN {} ELSE {l}
        BY <1>1, <1>2 DEF Torn
      <3>2. l \in LiveControls \ torn' => h.int_val[l] = h.last_live[l]
        <4>1. CASE called0 = None
          <5>1. torn' = torn
            BY <2>2, <3>1, <4>1
          <5> HIDE DEF h, l, called0
          <5> QED BY <1>2, <2>2, <4>1, <5>1
        <4>2. CASE called0 # None
          BY <1>2, <4>2
        <4> QED BY <4>1, <4>2
      <3>3. torn \subseteq torn' \cup {l}
        BY <2>2, <3>1
      <3> HIDE DEF h, l, called0
      <3>4. \A d \in LiveControls \ torn' : h.int_val[d] = h.last_live[d]
        BY <1>6, <3>2, <3>3
      <3> QED BY <3>4 DEF Agree, h
    <2> QED BY <2>1, <2>2
  <1>8. pressed' # None => LiveOf(pressed') \in torn'
    <2>1. pressed' # None => pressed' = c /\ torn' = torn \cup {l}
      OBVIOUS
    <2> QED BY <2>1
  <1>9. active_control' \in {None} \cup {d \in ctl'.enabled : can_activate(d)}
    BY <1>3
  <1>10. pressed' = IF mouse_button_down' THEN active_control' ELSE None
    OBVIOUS
  <1> HIDE DEF l, h, called0
  <1> QED BY <1>3, <1>7, <1>8, <1>9, <1>10 DEF FormInv, Agree, RadiosAgree, Torn, LiveOf, h

LEMMA MouseUpStep == ASSUME FormInv, MouseUp PROVE FormInv'
  <1>1. PICK d \in Over : mouse_up(d)
    BY DEF MouseUp
  <1>2. mouse_button_down /\ mouse_button_down' = FALSE /\ pressed = active_control /\ pressed' = None
        /\ active_control' = active_control /\ ctl \in Fields /\ RadiosAgree(ctl)
    BY <1>1 DEF MouseUp, mouse_up, FormInv
  <1>3. CASE active_control = None
    <2>1. ctl' = ctl /\ torn' = torn
      BY <1>1, <1>3 DEF mouse_up, Torn
    <2>2. Torn(pressed) = {}
      BY <1>2, <1>3 DEF Torn
    <2> QED BY <1>2, <1>3, <2>1, <2>2, QuietStep
  <1>4. CASE active_control # None
    <2> DEFINE in == d = active_control
    <2>1. PICK c : c = active_control
      OBVIOUS
    <2>2. c \in Controls /\ can_activate(c) /\ c \in ctl.enabled
      BY <1>4, <2>1, ActiveType
    <2>3. ctl' = Release(ctl, c, in) /\ torn' = torn \ Torn(Calls(ctl, c, in)) /\ in \in BOOLEAN
      BY <1>1, <1>4, <2>1 DEF mouse_up
    <2>4. LiveOf(c) \in LiveControls \ torn => ctl.orig_value = ctl.last_live[LiveOf(c)]
      BY <1>2, <1>4, <2>1 DEF FormInv
    <2>5. Touches(ctl, ctl, LiveOf(c))
      BY <1>2 DEF Touches
    <2> HIDE DEF in
    <2> QED BY <1>2, <2>1, <2>2, <2>3, <2>4, <2>5, ReleaseStep
  <1> QED BY <1>3, <1>4

LEMMA SpaceStep == ASSUME FormInv, Space PROVE FormInv'
  <1>1. PICK c : c = active_control
    OBVIOUS
  <1> DEFINE f == Press(ctl, c, TRUE)
             in == TRUE
  <1>2. /\ c \in Controls /\ can_activate(c) /\ c \in ctl.enabled /\ pressed \in {None, c}
        /\ ctl \in Fields /\ RadiosAgree(ctl) /\ c # None
    BY <1>1, ActiveType, FormAssumption DEF Space, FormInv
  <1>3. /\ ctl' = Release(f, c, in)
        /\ torn' = IF pressed = c THEN torn \cup Torn(pressed) ELSE torn \ Torn(Calls(f, c, in))
        /\ UNCHANGED <<active_control, mouse_button_down, pressed>>
    BY <1>1 DEF Space
  <1>4. in \in BOOLEAN
    OBVIOUS
  <1> HIDE DEF f, in
  <1>5. /\ Touches(ctl, f, LiveOf(c)) /\ f.last_live = ctl.last_live
        /\ LiveOf(c) \in LiveControls => f.orig_value = ctl.int_val[LiveOf(c)]
    <2>1. TRUE \in BOOLEAN
      OBVIOUS
    <2> QED BY <1>2, <2>1, PressTouches DEF f
  <1>6. f \in Fields
    BY <1>5 DEF Touches
  <1>7. CASE pressed = c
    <2>1. torn' = torn \cup {LiveOf(c)}
      BY <1>2, <1>3, <1>7 DEF Torn
    <2>2. mouse_button_down' \in BOOLEAN
          /\ pressed' = IF mouse_button_down' THEN active_control ELSE None
      BY <1>3 DEF FormInv
    <2> QED BY <1>1, <1>2, <1>3, <1>4, <1>5, <1>6, <2>1, <2>2, ReleaseStep
  <1>8. CASE pressed # c
    <2>1. pressed = None /\ Agree(ctl, torn)
      BY <1>2, <1>8 DEF FormInv, Torn
    <2>2. LiveOf(c) \in LiveControls \ torn => f.orig_value = ctl.last_live[LiveOf(c)]
      BY <1>5, <2>1 DEF Agree
    <2>3. pressed' = None /\ torn' = torn \ Torn(Calls(f, c, in))
      BY <1>3, <1>8, <2>1
    <2>4. mouse_button_down' \in BOOLEAN
          /\ pressed' = IF mouse_button_down' THEN active_control ELSE None
      BY <1>3 DEF FormInv
    <2> QED BY <1>1, <1>2, <1>3, <1>4, <1>5, <1>6, <2>2, <2>3, <2>4, ReleaseStep
  <1> QED BY <1>7, <1>8

LEMMA TabStep == ASSUME FormInv, NEW c, tab(c) PROVE FormInv'
  <1>1. /\ mouse_button_down = FALSE /\ pressed = None /\ UNCHANGED <<mouse_button_down, ctl, pressed, torn>>
        /\ ctl \in Fields
    BY DEF tab, FormInv
  <1>2. active_control' \in {None} \cup {d \in ctl.enabled : can_activate(d)}
    BY DEF tab, Takes
  <1> QED BY <1>1, <1>2, QuietStep DEF Torn

LEMMA OtherWindowStep == ASSUME FormInv, OtherWindow PROVE FormInv'
  <1>1. /\ mouse_button_down = FALSE /\ pressed = None /\ UNCHANGED <<mouse_button_down, ctl, pressed, torn>>
        /\ ctl \in Fields
    BY DEF OtherWindow, FormInv
  <1>2. active_control' \in {None} \cup {d \in ctl.enabled : can_activate(d)}
    BY DEF OtherWindow, FormInv
  <1> QED BY <1>1, <1>2, QuietStep DEF Torn

(* The program takes the focus away, or not.                               *)
LEMMA DeactivateStep ==
    ASSUME FormInv, NEW when \in BOOLEAN, deactivate_current_control(when),
           UNCHANGED mouse_button_down, ctl' \in Fields, ctl'.int_val = ctl.int_val,
           ctl'.last_live = ctl.last_live, ctl'.orig_value = ctl.orig_value,
           ~when => active_control \in {None} \cup ctl'.enabled
    PROVE  FormInv'
  <1>1. active_control' \in {None} \cup {d \in ctl'.enabled : can_activate(d)}
    BY DEF deactivate_current_control, FormInv
  <1>2. pressed' = IF mouse_button_down' THEN active_control' ELSE None
    BY DEF deactivate_current_control, FormInv
  <1>3. mouse_button_down' \in BOOLEAN /\ pressed' \in {None, pressed}
        /\ torn \subseteq torn' /\ torn \cup Torn(pressed) \subseteq torn' \cup Torn(pressed')
    BY DEF deactivate_current_control, FormInv
  <1> QED BY <1>1, <1>2, <1>3, QuietStep

LEMMA DisableStep == ASSUME FormInv, Disable PROVE FormInv'
  <1>1. PICK c \in Switched : disable(c)
    BY DEF Disable
  <1> DEFINE off == {c} \cup Reached(c)
             on == ctl.enabled \ off
             when == active_control \in off
  <1>2. ctl' = [ctl EXCEPT !.enabled = on] /\ deactivate_current_control(when)
        /\ UNCHANGED mouse_button_down
    BY <1>1 DEF disable
  <1>3. on \subseteq Controls /\ (~when => active_control \in {None} \cup on) /\ ctl \in Fields
        /\ when \in BOOLEAN
    BY DEF FormInv, Fields
  <1> HIDE DEF on, when
  <1>4. ctl' \in Fields /\ ctl'.enabled = on /\ ctl'.int_val = ctl.int_val
        /\ ctl'.last_live = ctl.last_live /\ ctl'.orig_value = ctl.orig_value
    BY <1>2, <1>3 DEF Fields
  <1> QED BY <1>2, <1>3, <1>4, DeactivateStep

LEMMA EnableStep == ASSUME FormInv, Enable PROVE FormInv'
  <1>1. PICK c \in Switched : enable(c)
    BY DEF Enable
  <1> DEFINE on == ctl.enabled \cup {c} \cup Reached(c)
  <1>2. ctl' = [ctl EXCEPT !.enabled = on]
        /\ UNCHANGED <<active_control, mouse_button_down, pressed, torn>>
    BY <1>1 DEF enable
  <1>3. on \subseteq Controls /\ ctl.enabled \subseteq on /\ ctl \in Fields
    BY FormAssumption DEF FormInv, Fields, Reached, Below
  <1> HIDE DEF on
  <1>4. ctl' \in Fields /\ ctl'.enabled = on /\ ctl'.int_val = ctl.int_val
        /\ ctl'.last_live = ctl.last_live /\ ctl'.orig_value = ctl.orig_value
    BY <1>2, <1>3 DEF Fields
  <1>5. active_control' \in {None} \cup {d \in ctl'.enabled : can_activate(d)}
        /\ mouse_button_down' \in BOOLEAN
        /\ pressed' = IF mouse_button_down' THEN active_control' ELSE None
    BY <1>2, <1>3, <1>4 DEF FormInv
  <1> QED BY <1>2, <1>4, <1>5, QuietStep

LEMMA HideStep == ASSUME FormInv, Hide PROVE FormInv'
  <1>1. TRUE \in BOOLEAN /\ deactivate_current_control(TRUE) /\ UNCHANGED <<ctl, mouse_button_down>>
        /\ ctl \in Fields
    BY DEF Hide, FormInv
  <1> QED BY <1>1, DeactivateStep

LEMMA ToggleStep == ASSUME FormInv, OpenOrClose PROVE FormInv'
  <1>1. PICK r \in Folded : ctl' = Toggle(ctl, r)
    BY DEF OpenOrClose
  <1>2. UNCHANGED <<active_control, mouse_button_down, pressed, torn>>
    BY DEF OpenOrClose
  <1>3. r \in Controls /\ ctl \in Fields /\ RadiosAgree(ctl)
    BY FormAssumption DEF FormInv
  <1>4. Touches(ctl, ctl', None) /\ ctl'.last_live = ctl.last_live
        /\ ctl'.orig_value = ctl.orig_value
    BY <1>1, <1>3, ToggleTouches
  <1>5. ctl' \in Fields /\ RadiosAgree(ctl') /\ ctl'.enabled = ctl.enabled
        /\ \A d \in LiveControls : ctl'.int_val[d] = ctl.int_val[d]
    <2>1. None \notin LiveControls
      BY FormAssumption DEF LiveControls
    <2> QED BY <1>4, <2>1 DEF Touches
  <1>6. Agree(ctl', torn' \cup Torn(pressed'))
    BY <1>2, <1>4, <1>5 DEF FormInv, Agree
  <1> QED BY <1>2, <1>4, <1>5, <1>6 DEF FormInv, Agree, RadiosAgree, Torn, LiveOf

LEMMA SetLiveStep == ASSUME FormInv, SetLive PROVE FormInv'
  <1>1. ctl \in Fields /\ DOMAIN ctl.live = LiveControls
    BY LiveDomain DEF FormInv
  <1>2. PICK c \in LiveControls : \E v \in LiveValues(c) : ctl' = [ctl EXCEPT !.live[c] = v]
    BY <1>1 DEF SetLive
  <1>3. PICK v \in LiveValues(c) : ctl' = [ctl EXCEPT !.live[c] = v]
    BY <1>2
  <1>4. v \in Int
    <2>1. CASE Kind[c] = "group"
      <3>1. c \in OfKind("group") /\ Kids[c] \in Seq(Controls)
        BY <2>1, TreeAssumption DEF LiveControls, OfKind
      <3>2. PICK r \in Range(Kids[c]) : v = Id[r]
        BY <2>1 DEF LiveValues
      <3>3. Contains(Kids[c], r)
        BY <3>1 DEF Contains, Range
      <3> QED BY <3>1, <3>2, <3>3, GroupHasRadios, RadioHasGroup
    <2>2. CASE Kind[c] # "group"
      BY <2>2 DEF LiveValues
    <2> QED BY <2>1, <2>2
  <1> DEFINE given == [ctl.live EXCEPT ![c] = v]
  <1>5. ctl' = [ctl EXCEPT !.live = given]
    BY <1>3
  <1>6. given \in [LiveControls -> Int]
    BY <1>1, <1>4 DEF Fields
  <1> HIDE DEF given
  <1>7. ctl' \in Fields /\ ctl'.enabled = ctl.enabled /\ ctl'.int_val = ctl.int_val
        /\ ctl'.last_live = ctl.last_live /\ ctl'.orig_value = ctl.orig_value
    BY <1>1, <1>5, <1>6 DEF Fields
  <1>8. UNCHANGED <<active_control, mouse_button_down, pressed, torn>>
    BY DEF SetLive
  <1>9. active_control' \in {None} \cup {d \in ctl'.enabled : can_activate(d)}
        /\ mouse_button_down' \in BOOLEAN
        /\ pressed' = IF mouse_button_down' THEN active_control' ELSE None
    BY <1>7, <1>8 DEF FormInv
  <1> QED BY <1>7, <1>8, <1>9, QuietStep

LEMMA SyncLiveStep == ASSUME FormInv, sync_live PROVE FormInv'
  <1>1. ctl \in Fields /\ RadiosAgree(ctl) /\ DOMAIN ctl.live = LiveControls
    BY LiveDomain DEF FormInv
  <1> DEFINE stale == {c \in LiveControls : ctl.live[c] # ctl.last_live[c]}
  <1>2. /\ ctl' = FoldSet(LAMBDA c, f : SyncOf(f, c), ctl, LiveControls)
        /\ torn' = torn \cup (Torn(pressed) \cap stale)
        /\ UNCHANGED <<active_control, mouse_button_down, pressed>>
    BY <1>1 DEF sync_live
  <1>3. Followed(ctl')
    BY <1>1, <1>2, SyncLiveFollows
  <1>4. ctl' \in Fields /\ RadiosAgree(ctl') /\ ctl'.enabled = ctl.enabled
        /\ ctl'.orig_value = ctl.orig_value
    BY <1>3 DEF Followed
  <1>5. \A c \in LiveControls \ (torn \cup Torn(pressed)) : ctl'.int_val[c] = ctl'.last_live[c]
    BY <1>3 DEF Followed, FormInv, Agree
  <1>6. Agree(ctl', torn' \cup Torn(pressed'))
    BY <1>2, <1>5 DEF Agree
  <1>7. pressed' # None /\ LiveOf(pressed') \in LiveControls \ torn' =>
            ctl'.orig_value = ctl'.last_live[LiveOf(pressed')]
    <2> SUFFICES ASSUME pressed # None, LiveOf(pressed) \in LiveControls \ torn'
                 PROVE  ctl'.orig_value = ctl'.last_live[LiveOf(pressed)]
      BY <1>2
    <2>1. LiveOf(pressed) \in LiveControls \ torn /\ LiveOf(pressed) \notin stale
      BY <1>2 DEF Torn
    <2>2. ctl'.last_live[LiveOf(pressed)] = ctl.last_live[LiveOf(pressed)]
      BY <1>3, <2>1 DEF Followed
    <2> QED BY <1>4, <2>1, <2>2 DEF FormInv
  <1> QED BY <1>2, <1>4, <1>6, <1>7 DEF FormInv, Agree, RadiosAgree, Torn, LiveOf

LEMMA FormStep == ASSUME FormInv, [FormNext]_formVars PROVE FormInv'
  <1>1. ASSUME Tab \/ ShiftTab PROVE FormInv'
    BY <1>1, TabStep DEF Tab, ShiftTab
  <1>2. ASSUME UNCHANGED formVars PROVE FormInv'
    BY <1>2 DEF formVars, FormInv, Agree, RadiosAgree, Torn, LiveOf
  <1> QED BY <1>1, <1>2, MouseDownStep, MotionStep, MouseUpStep, SpaceStep, OtherWindowStep,
             DisableStep, EnableStep, HideStep, ToggleStep, SetLiveStep, SyncLiveStep DEF FormNext

-------------------------------------------------------------------------------
(* The theorems.                                                           *)

(* A checkbox or group that is not pressed, nor was taken hold of while it *)
(* was, shows what its live variable was last given, whatever mouse, keys  *)
(* and program do; a marked radio button is the one that its group has.    *)
THEOREM FormShowsLive == FormSpec => []ShowsLive
  <1>1. FormInit => FormInv
    BY FormInitially
  <1>2. FormInv /\ [FormNext]_formVars => FormInv'
    BY FormStep
  <1>3. FormInv => ShowsLive
    BY LiveDomain DEF FormInv, ShowsLive, Agree, RadiosAgree
  <1> QED BY <1>1, <1>2, <1>3, PTL DEF FormSpec

LEMMA CallsActive ==
    ASSUME FormInv, NEW f \in Fields, NEW c, c = active_control, c # None, NEW in \in BOOLEAN,
           Calls(f, c, in) # None
    PROVE  LiveOf(c) = Calls(f, c, in)
  <1>1. c \in Controls /\ can_activate(c)
    BY ActiveType
  <1> QED BY <1>1, LiveOfType DEF Calls

(* A callback is executed only for a control that is active and enabled,   *)
(* or the group it is in, even if the program disables what is pressed.    *)
THEOREM CallbacksAreOfEnabled == FormSpec => CallbackOfEnabled
  <1> DEFINE Right == called' # None =>
                          \E c \in ctl.enabled : c = active_control /\ LiveOf(c) = called'
  <1>1. FormInit => FormInv
    BY FormInitially
  <1>2. FormInv /\ [FormNext]_formVars => FormInv'
    BY FormStep
  <1>3. ASSUME FormInv, FormNext PROVE Right
    <2>1. ASSUME MouseUp PROVE Right
      <3>1. PICK d \in Over : mouse_up(d)
        BY <2>1 DEF MouseUp
      <3>2. CASE active_control = None
        BY <3>1, <3>2 DEF mouse_up
      <3>3. CASE active_control # None
        <4> DEFINE in == d = active_control
        <4>1. PICK c : c = active_control
          OBVIOUS
        <4>2. called' = Calls(ctl, c, in) /\ in \in BOOLEAN
          BY <3>1, <3>3, <4>1 DEF mouse_up
        <4>3. c \in ctl.enabled /\ ctl \in Fields
          BY <1>3, <3>3, <4>1, ActiveType DEF FormInv
        <4> HIDE DEF in
        <4>4. called' # None => LiveOf(c) = called'
          BY <1>3, <3>3, <4>1, <4>2, <4>3, CallsActive
        <4> QED BY <4>1, <4>3, <4>4
      <3> QED BY <3>2, <3>3
    <2>2. ASSUME Space PROVE Right
      <3>1. PICK c : c = active_control
        OBVIOUS
      <3> DEFINE f == Press(ctl, c, TRUE)
                 in == TRUE
      <3>2. called' = Calls(f, c, in) /\ c # None
        BY <2>2, <3>1 DEF Space
      <3>3. c \in ctl.enabled /\ c \in Controls /\ can_activate(c) /\ ctl \in Fields
            /\ RadiosAgree(ctl)
        BY <1>3, <3>1, <3>2, ActiveType DEF FormInv
      <3>4. TRUE \in BOOLEAN /\ in \in BOOLEAN
        OBVIOUS
      <3>5. f \in Fields
        BY <3>3, <3>4, PressTouches DEF Touches
      <3> HIDE DEF f, in
      <3>6. called' # None => LiveOf(c) = called'
        BY <1>3, <3>1, <3>2, <3>4, <3>5, CallsActive
      <3> QED BY <3>1, <3>3, <3>6
    <2>3. ASSUME ~MouseUp, ~Space PROVE called' = None
      BY <1>3, <2>3 DEF FormNext, MouseDown, mouse_down, Motion, motion, Tab, ShiftTab, tab,
         OtherWindow, Disable, disable, Enable, enable, Hide, OpenOrClose, SetLive, sync_live, Step
    <2> QED BY <2>1, <2>2, <2>3
  <1>4. FormInv /\ [FormNext]_formVars
            => [called' # None => \E c \in ctl.enabled : c = active_control /\ LiveOf(c) = called']_formVars
    BY <1>3
  <1> QED BY <1>1, <1>2, <1>4, PTL DEF FormSpec, CallbackOfEnabled

-------------------------------------------------------------------------------
(* Tab.  Every recursion of the tree is first shown to exist; the order of *)
(* the tree is strict and total; and the control that find_next_control    *)
(* goes on with, and with it the one it stops at, is the next of that      *)
(* order, whatever is enabled and open.                                    *)

(* A function by a recursion that goes on from c to up[c] until it comes   *)
(* to one of stop exists, whether or not it comes to an end.               *)
Continues(F, S, stop, val, up) == F = [c \in S |-> IF c \in stop THEN val[c] ELSE F[up[c]]]

LEMMA ContinuesExists ==
    ASSUME NEW S, NEW stop, NEW val, NEW up, \A c \in S \ stop : up[c] \in S
    PROVE  \E F : Continues(F, S, stop, val, up)
  <1> DEFINE Closed(T) == \A e \in T \ stop : up[e] \in T
             ends(c) == {d \in S \cap stop : \A T \in SUBSET S : c \in T /\ Closed(T) => d \in T}
             F == [c \in S |-> val[CHOOSE d : d \in ends(c)]]
  <1>1. ASSUME NEW c \in S \cap stop PROVE ends(c) = {c}
    <2>1. c \in ends(c)
      OBVIOUS
    <2>2. ASSUME NEW d \in ends(c) PROVE d = c
      <3>1. {c} \in SUBSET S /\ Closed({c})
        OBVIOUS
      <3> QED BY <3>1
    <2> QED BY <2>1, <2>2
  <1>2. ASSUME NEW c \in S \ stop PROVE ends(c) = ends(up[c])
    <2>1. up[c] \in S
      OBVIOUS
    <2>2. ASSUME NEW d \in ends(c), NEW T \in SUBSET S, up[c] \in T, Closed(T) PROVE d \in T
      <3>1. (T \cup {c}) \in SUBSET S /\ Closed(T \cup {c}) /\ c \in T \cup {c}
        BY <2>2
      <3>2. d \in T \cup {c}
        BY <3>1
      <3> QED BY <3>2
    <2>3. ASSUME NEW d \in ends(up[c]), NEW T \in SUBSET S, c \in T, Closed(T) PROVE d \in T
      BY <2>3
    <2> HIDE DEF Closed
    <2> QED BY <2>2, <2>3
  <1>3. F = [c \in S |-> IF c \in stop THEN val[c] ELSE F[up[c]]]
    <2>1. ASSUME NEW c \in S PROVE F[c] = IF c \in stop THEN val[c] ELSE F[up[c]]
      <3>1. CASE c \in stop
        <4> DEFINE end == CHOOSE d : d \in ends(c)
        <4>1. F[c] = val[end]
          OBVIOUS
        <4>2. end = c
          BY <1>1, <3>1
        <4> HIDE DEF end, F
        <4> QED BY <3>1, <4>1, <4>2
      <3>2. CASE c \notin stop
        <4>1. ends(c) = ends(up[c]) /\ up[c] \in S
          BY <1>2, <3>2
        <4> HIDE DEF ends
        <4> QED BY <3>2, <4>1
      <3> QED BY <3>1, <3>2
    <2>2. F = [c \in S |-> F[c]]
      OBVIOUS
    <2> HIDE DEF F
    <2> QED BY <2>1, <2>2
  <1> HIDE DEF F
  <1> QED BY <1>3 DEF Continues

LEMMA AboveOf ==
    /\ Above[Root] = {}
    /\ \A c \in Nodes : Above[c] = {Parent[c]} \cup Above[Parent[c]]
  <1> DEFINE Leads(c, T) ==
                /\ c # Root => Parent[c] \in T
                /\ \A e \in T \ {Root} : Parent[e] \in T
             A == [c \in Controls |-> {a \in Controls : \A T \in SUBSET Controls : Leads(c, T) => a \in T}]
             Defines(f) == f = [c \in Controls |-> IF c = Root THEN {} ELSE {Parent[c]} \cup f[Parent[c]]]
  <1>1. A[Root] = {}
    <2>1. Leads(Root, {}) /\ {} \in SUBSET Controls
      OBVIOUS
    <2> QED BY <2>1, FormAssumption
  <1>2. ASSUME NEW c \in Nodes PROVE A[c] = {Parent[c]} \cup A[Parent[c]]
    <2> DEFINE p == Parent[c]
               up == {p} \cup A[p]
    <2>1. c \in Controls /\ c # Root /\ p \in Controls
      BY ParentOf DEF Nodes
    <2> HIDE DEF p
    <2>2. up \in SUBSET Controls
      BY <2>1
    <2>3. Leads(c, up)
      <3>1. p # Root => Parent[p] \in A[p]
        <4> SUFFICES ASSUME p # Root PROVE Parent[p] \in A[p]
          OBVIOUS
        <4>1. Parent[p] \in Controls
          BY <2>1, ParentOf DEF Nodes
        <4> QED BY <2>1, <4>1
      <3>2. ASSUME NEW e \in A[p], e # Root PROVE Parent[e] \in A[p]
        <4>1. e \in Controls /\ Parent[e] \in Controls
          BY <2>1, <3>2, ParentOf DEF Nodes
        <4> QED BY <2>1, <3>2, <4>1
      <3> QED BY <3>1, <3>2 DEF p
    <2>4. ASSUME NEW a \in A[c] PROVE a \in up
      <3>1. \A T \in SUBSET Controls : Leads(c, T) => a \in T
        BY <2>1
      <3> HIDE DEF up, A, Leads
      <3> QED BY <2>2, <2>3, <3>1
    <2>5. ASSUME NEW a \in up PROVE a \in A[c]
      <3>1. a \in Controls
        BY <2>2
      <3>2. ASSUME NEW T \in SUBSET Controls, Leads(c, T) PROVE a \in T
        <4>1. p \in T /\ Leads(p, T)
          BY <2>1, <3>2 DEF p
        <4>2. a \in A[p] => a \in T
          <5> HIDE DEF Leads
          <5> QED BY <2>1, <4>1
        <4> QED BY <4>1, <4>2
      <3> HIDE DEF Leads, up
      <3> QED BY <2>1, <3>1, <3>2
    <2> HIDE DEF A
    <2>6. A[c] = up
      BY <2>4, <2>5
    <2> QED BY <2>6 DEF p
  <1>3. Defines(A)
    <2>1. \A c \in Controls : A[c] = IF c = Root THEN {} ELSE {Parent[c]} \cup A[Parent[c]]
      <3> HIDE DEF A
      <3> QED BY <1>1, <1>2 DEF Nodes
    <2>2. A = [c \in Controls |-> A[c]]
      OBVIOUS
    <2> HIDE DEF A
    <2> QED BY <2>1, <2>2
  <1>4. Above = CHOOSE f : Defines(f)
    BY DEF Above
  <1>5. Defines(Above)
    <2> HIDE DEF Defines, A
    <2> QED BY <1>3, <1>4
  <1> QED BY <1>5, FormAssumption DEF Nodes

LEMMA AboveIsControls == \A c \in Controls : Above[c] \subseteq Controls
  <1> DEFINE S == {c \in Controls : Above[c] \subseteq Controls}
  <1>1. Root \in S
    BY AboveOf, FormAssumption
  <1>2. ASSUME NEW c \in Nodes, Parent[c] \in S PROVE c \in S
    BY <1>2, AboveOf, ParentOf DEF Nodes
  <1> HIDE DEF S
  <1>3. Controls \subseteq S
    BY <1>1, <1>2, DownTheTree
  <1> QED BY <1>3 DEF S

LEMMA AboveIsAbove == \A c \in Controls : \A a \in Above[c] : Above[a] \subseteq Above[c]
  <1> DEFINE S == {c \in Controls : \A a \in Above[c] : Above[a] \subseteq Above[c]}
  <1>1. Root \in S
    BY AboveOf, FormAssumption
  <1>2. ASSUME NEW c \in Nodes, Parent[c] \in S PROVE c \in S
    BY <1>2, AboveOf, ParentOf DEF Nodes
  <1> HIDE DEF S
  <1>3. Controls \subseteq S
    BY <1>1, <1>2, DownTheTree
  <1> QED BY <1>3 DEF S

LEMMA NotAboveItself == \A c \in Controls : c \notin Above[c]
  <1> DEFINE S == {c \in Controls : c \notin Above[c]}
  <1>1. Root \in S
    BY AboveOf, FormAssumption
  <1>2. ASSUME NEW c \in Nodes, Parent[c] \in S PROVE c \in S
    <2> DEFINE p == Parent[c]
    <2>1. p \in Controls /\ p \notin Above[p] /\ c \in Controls /\ Above[c] = {p} \cup Above[p]
      BY <1>2, AboveOf, ParentOf DEF Nodes
    <2> HIDE DEF p
    <2>2. c \in Above[p] => Above[c] \subseteq Above[p]
      BY <2>1, AboveIsAbove
    <2> QED BY <2>1, <2>2
  <1> HIDE DEF S
  <1>3. Controls \subseteq S
    BY <1>1, <1>2, DownTheTree
  <1> QED BY <1>3 DEF S

LEMMA RootIsAbove == \A c \in Nodes : Root \in Above[c]
  <1> DEFINE S == {c \in Controls : c # Root => Root \in Above[c]}
  <1>1. Root \in S
    BY FormAssumption
  <1>2. ASSUME NEW c \in Nodes, Parent[c] \in S PROVE c \in S
    BY <1>2, AboveOf, ParentOf DEF Nodes
  <1> HIDE DEF S
  <1>3. Controls \subseteq S
    BY <1>1, <1>2, DownTheTree
  <1> QED BY <1>3 DEF S, Nodes

-------------------------------------------------------------------------------
(* A control with those above it, main_panel apart, is a chain.            *)
LEMMA UpwardOf ==
    /\ Upward(Root) = {}
    /\ \A c \in Nodes : Upward(c) = {c} \cup Upward(Parent[c])
    /\ \A c \in Controls : Upward(c) \subseteq Nodes /\ Upward(c) \subseteq {c} \cup Above[c]
    /\ \A c \in Controls : \A a \in Above[c] : Upward(a) \subseteq Upward(c)
    /\ \A c \in Controls : \A a \in Upward(c) : Upward(a) \subseteq Upward(c)
    /\ \A c \in Nodes : \A a \in Nodes : a = c \/ a \in Above[c] => a \in Upward(c)
  BY AboveOf, AboveIsControls, AboveIsAbove, ParentOf, FormAssumption DEF Upward, Nodes

LEMMA UpwardIsChain ==
    \A c \in Controls : \A x, y \in Upward(c) : x = y \/ x \in Above[y] \/ y \in Above[x]
  <1> DEFINE S == {c \in Controls : \A x, y \in Upward(c) : x = y \/ x \in Above[y] \/ y \in Above[x]}
  <1>1. Root \in S
    BY UpwardOf, FormAssumption
  <1>2. ASSUME NEW c \in Nodes, Parent[c] \in S PROVE c \in S
    <2> DEFINE p == Parent[c]
    <2>1. /\ p \in Controls /\ c \in Controls /\ Upward(c) = {c} \cup Upward(p)
          /\ Upward(p) \subseteq {p} \cup Above[p] /\ Above[c] = {p} \cup Above[p]
      BY AboveOf, ParentOf, UpwardOf DEF Nodes
    <2>2. \A x, y \in Upward(p) : x = y \/ x \in Above[y] \/ y \in Above[x]
      BY <1>2
    <2> HIDE DEF p
    <2> QED BY <2>1, <2>2
  <1> HIDE DEF S
  <1>3. Controls \subseteq S
    BY <1>1, <1>2, DownTheTree
  <1> QED BY <1>3 DEF S

(* Whatever c is below, c is in the branch of one of its children.         *)
LEMMA BranchOf ==
    \A c \in Controls : \A p \in Above[c] : \E x \in Upward(c) : Parent[x] = p
  <1> DEFINE S == {c \in Controls : \A p \in Above[c] : \E x \in Upward(c) : Parent[x] = p}
  <1>1. Root \in S
    BY AboveOf, FormAssumption
  <1>2. ASSUME NEW c \in Nodes, Parent[c] \in S PROVE c \in S
    <2>1. /\ c \in Controls /\ Above[c] = {Parent[c]} \cup Above[Parent[c]]
          /\ Upward(c) = {c} \cup Upward(Parent[c])
      BY AboveOf, UpwardOf DEF Nodes
    <2> QED BY <1>2, <2>1
  <1> HIDE DEF S
  <1>3. Controls \subseteq S
    BY <1>1, <1>2, DownTheTree
  <1> QED BY <1>3 DEF S

(* ... and of only one.                                                    *)
LEMMA OneBranch ==
    ASSUME NEW c \in Controls, NEW a \in Upward(c), NEW b \in Upward(c), Parent[a] = Parent[b]
    PROVE  a = b
  <1>1. a \in Nodes /\ b \in Nodes
    BY UpwardOf
  <1> DEFINE p == Parent[a]
  <1>2. p \in Controls /\ Above[a] = {p} \cup Above[p] /\ Above[b] = {p} \cup Above[p]
    BY <1>1, ParentOf, AboveOf
  <1> HIDE DEF p
  <1>3. a \in Controls /\ b \in Controls
    BY <1>1 DEF Nodes
  <1> QED BY <1>2, <1>3, UpwardIsChain, NotAboveItself

(* What comes after a control that is not below it.                        *)
Right(c, d) == \E a \in Upward(c), b \in Upward(d) : Older(a, b)

LEMMA AfterOf ==
    \A c \in Controls : \A d : d \in After[c] <=> d \in Controls /\ (c \in Above[d] \/ Right(c, d))
  <1> SUFFICES ASSUME NEW c \in Controls, NEW d \in Controls
               PROVE  d \in After[c] <=> c \in Above[d] \/ Right(c, d)
    BY DEF After
  <1>1. <<c, d>> \in Order <=> c \in Above[d] \/ Right(c, d)
    BY DEF Order, Right
  <1> QED BY <1>1 DEF After

LEMMA OlderOrders ==
    /\ \A a \in Nodes : ~Older(a, a)
    /\ \A a, b, c \in Nodes : Older(a, b) /\ Older(b, c) => Older(a, c)
    /\ \A a, b \in Nodes : Parent[a] = Parent[b] => a = b \/ Older(a, b) \/ Older(b, a)
    /\ \A a, b : Older(a, b) => Parent[a] = Parent[b]
  <1>1. \A c \in Nodes : Rank(c) \in Int
    BY PlaceOf, ParentOf, TreeAssumption
  <1>2. ASSUME NEW a \in Nodes, NEW b \in Nodes, Parent[a] = Parent[b], Rank(a) = Rank(b)
        PROVE  a = b
    BY <1>2, PlaceOf
  <1> QED BY <1>1, <1>2 DEF Older

(* The order of the tree is a strict and total one.                        *)
LEMMA AfterIsStrict == \A c \in Controls : c \notin After[c]
  <1> SUFFICES ASSUME NEW c \in Controls, c \in After[c] PROVE FALSE
    OBVIOUS
  <1>1. Right(c, c)
    BY AfterOf, NotAboveItself
  <1>2. PICK a \in Upward(c), b \in Upward(c) : Older(a, b)
    BY <1>1 DEF Right
  <1>3. a = b /\ a \in Nodes
    BY <1>2, OneBranch, OlderOrders, UpwardOf
  <1> QED BY <1>2, <1>3, OlderOrders

LEMMA AfterIsTransitive ==
    ASSUME NEW c \in Controls, NEW d \in After[c], NEW e \in After[d]
    PROVE  e \in After[c]
  <1>1. /\ d \in Controls /\ e \in Controls
        /\ c \in Above[d] \/ Right(c, d)
        /\ d \in Above[e] \/ Right(d, e)
    BY AfterOf
  <1> SUFFICES c \in Above[e] \/ Right(c, e)
    BY <1>1, AfterOf
  <1>2. CASE d \in Above[e]
    <2>1. Upward(d) \subseteq Upward(e) /\ Above[d] \subseteq Above[e]
      BY <1>1, <1>2, UpwardOf, AboveIsAbove
    <2> QED BY <1>1, <2>1 DEF Right
  <1>3. CASE c \in Above[d] /\ Right(d, e)
    <2>1. PICK a \in Upward(d), b \in Upward(e) : Older(a, b)
      BY <1>3 DEF Right
    <2>2. /\ a \in Nodes /\ b \in Nodes /\ d \in Nodes /\ e \in Nodes
          /\ Above[a] = Above[b] /\ Parent[a] = Parent[b]
      <3>1. a \in Nodes /\ b \in Nodes /\ d # Root /\ e # Root
        BY <1>1, UpwardOf
      <3> QED BY <1>1, <2>1, <3>1, AboveOf, OlderOrders DEF Nodes
    <2>3. CASE a \in Upward(c)
      BY <2>1, <2>3 DEF Right
    <2>4. CASE c \in Above[a]
      <3>1. c \in Above[b] /\ (b = e \/ b \in Above[e])
        BY <1>1, <2>1, <2>2, <2>4, UpwardOf
      <3> QED BY <1>1, <3>1, AboveIsAbove
    <2>5. CASE c = Root
      BY <2>2, <2>5, RootIsAbove
    <2>6. CASE c # Root /\ a \notin Upward(c)
      <3>1. c \in Nodes /\ c \in Upward(d)
        BY <1>1, <1>3, <2>2, <2>6, UpwardOf DEF Nodes
      <3>2. c = a \/ c \in Above[a] \/ a \in Above[c]
        BY <1>1, <2>1, <3>1, UpwardIsChain
      <3>3. c \in Above[a]
        BY <2>2, <2>6, <3>1, <3>2, UpwardOf
      <3> QED BY <2>4, <3>3
    <2> QED BY <2>3, <2>5, <2>6
  <1>4. CASE Right(c, d) /\ Right(d, e)
    <2>1. PICK a \in Upward(c), b \in Upward(d) : Older(a, b)
      BY <1>4 DEF Right
    <2>2. PICK x \in Upward(d), y \in Upward(e) : Older(x, y)
      BY <1>4 DEF Right
    <2>3. /\ a \in Nodes /\ b \in Nodes /\ x \in Nodes /\ y \in Nodes
      BY <1>1, UpwardOf
    <2>4. Above[a] = Above[b] /\ Above[x] = Above[y]
      <3>1. Parent[a] = Parent[b] /\ Parent[x] = Parent[y]
        BY <2>1, <2>2, OlderOrders
      <3> QED BY <2>3, <3>1, AboveOf
    <2>5. CASE b = x
      <3>1. Older(a, y)
        BY <2>1, <2>2, <2>3, <2>5, OlderOrders
      <3> QED BY <3>1 DEF Right
    <2>6. CASE b \in Above[x]
      <3>1. b \in Upward(y) /\ Upward(y) \subseteq Upward(e)
        BY <1>1, <2>3, <2>4, <2>6, UpwardOf
      <3> QED BY <2>1, <3>1 DEF Right
    <2>7. CASE x \in Above[b]
      <3>1. x \in Upward(a) /\ Upward(a) \subseteq Upward(c)
        BY <2>3, <2>4, <2>7, UpwardOf
      <3> QED BY <2>2, <3>1 DEF Right
    <2> QED BY <1>1, <2>5, <2>6, <2>7, UpwardIsChain
  <1> QED BY <1>1, <1>2, <1>3, <1>4

LEMMA AfterIsTotal ==
    ASSUME NEW c \in Controls, NEW d \in Controls, c # d
    PROVE  c \in After[d] \/ d \in After[c]
  <1> DEFINE Ordered(e) == c = e \/ c \in Above[e] \/ e \in Above[c] \/ Right(c, e) \/ Right(e, c)
             S == {e \in Controls : Ordered(e)}
  <1>1. Root \in S
    BY RootIsAbove, FormAssumption DEF Nodes
  <1>2. ASSUME NEW e \in Nodes, Parent[e] \in S PROVE e \in S
    <2> DEFINE p == Parent[e]
    <2>1. /\ e \in Controls /\ p \in Controls /\ Above[e] = {p} \cup Above[p]
          /\ Upward(e) = {e} \cup Upward(p) /\ Ordered(p)
      BY <1>2, ParentOf, AboveOf, UpwardOf DEF Nodes
    <2> HIDE DEF p
    <2>2. CASE c = p \/ c \in Above[p]
      BY <2>1, <2>2
    <2>3. CASE Right(c, p) \/ Right(p, c)
      <3>1. Right(c, e) \/ Right(e, c)
        BY <2>1, <2>3 DEF Right
      <3> QED BY <2>1, <3>1
    <2>4. CASE p \in Above[c]
      <3>1. PICK x \in Upward(c) : Parent[x] = p
        BY <2>4, BranchOf
      <3>2. x \in Nodes /\ (x = c \/ x \in Above[c])
        BY UpwardOf
      <3>3. x = e \/ Older(x, e) \/ Older(e, x)
        BY <3>1, <3>2, OlderOrders DEF p
      <3>4. x # e => Right(c, e) \/ Right(e, c)
        BY <2>1, <3>3 DEF Right
      <3> QED BY <2>1, <3>2, <3>4
    <2> QED BY <2>1, <2>2, <2>3, <2>4
  <1> HIDE DEF S
  <1>3. Controls \subseteq S
    BY <1>1, <1>2, DownTheTree
  <1> QED BY <1>3, AfterOf DEF S

(* Of some controls, one comes last.                                       *)
LEMMA OneIsLast ==
    ASSUME NEW S, S \subseteq Controls, S # {}
    PROVE  \E c \in S : \A d \in S : d \notin After[c]
  <1> DEFINE size(c) == Cardinality(After[c])
             sizes == {size(c) : c \in S}
  <1>1. \A c \in Controls : After[c] \in SUBSET Controls
    BY AfterOf
  <1>2. \A c \in S : size(c) \in Nat /\ IsFiniteSet(After[c])
    BY <1>1, TreeAssumption, FS_Subset, FS_CardinalityType
  <1>3. ASSUME NEW c \in S, NEW d \in S, d \in After[c] PROVE size(d) < size(c)
    <2>1. After[d] \in SUBSET After[c] /\ d \notin After[d]
      BY <1>3, AfterIsTransitive, AfterIsStrict
    <2>2. size(d) <= size(c) /\ size(d) # size(c)
      BY <1>2, <1>3, <2>1, FS_Subset
    <2> HIDE DEF size
    <2> QED BY <1>2, <2>2
  <1> HIDE DEF size
  <1>4. sizes \subseteq Nat /\ sizes # {}
    BY <1>2
  <1> HIDE DEF sizes
  <1>5. PICK m \in sizes : \A n \in sizes : ~(<<n, m>> \in OpToRel(<, Nat))
    BY <1>4, NatLessThanWellFounded, WFMin
  <1>6. PICK c \in S : size(c) = m
    BY DEF sizes
  <1>7. ASSUME NEW d \in S, d \in After[c] PROVE FALSE
    <2>1. size(d) < m /\ size(d) \in sizes /\ size(d) \in Nat /\ m \in Nat
      BY <1>2, <1>3, <1>6, <1>7 DEF sizes
    <2>2. <<size(d), m>> \in OpToRel(<, Nat)
      BY <2>1 DEF OpToRel
    <2> QED BY <1>5, <2>1, <2>2
  <1> QED BY <1>6, <1>7

(* The first child comes right after its parent.                           *)
LEMMA FirstChild ==
    ASSUME NEW c \in Controls, Kids[c] # <<>>
    PROVE  /\ Kids[c][1] \in Nodes /\ Parent[Kids[c][1]] = c
           /\ \A d : d \in After[c] <=> d = Kids[c][1] \/ d \in After[Kids[c][1]]
  <1> DEFINE f == Kids[c][1]
  <1>1. Kids[c] \in Seq(Controls) /\ Len(Kids[c]) \in Nat /\ Len(Kids[c]) # 0
    BY TreeAssumption
  <1>2. f \in Nodes /\ Parent[f] = c /\ Rank(f) = 1 /\ f \in Controls
    BY <1>1, KidOf DEF Nodes
  <1> HIDE DEF f
  <1>3. ASSUME NEW x \in Nodes, Parent[x] = c PROVE x = f \/ Older(f, x)
    <2>1. Rank(x) \in 1..Len(Kids[c]) /\ Kids[c][Rank(x)] = x
      BY <1>3, PlaceOf
    <2>2. Rank(x) = 1 => x = f
      BY <2>1 DEF f
    <2> QED BY <1>1, <1>2, <1>3, <2>1, <2>2 DEF Older
  <1>4. Above[f] = {c} \cup Above[c] /\ Upward(f) = {f} \cup Upward(c)
    BY <1>2, AboveOf, UpwardOf
  <1>5. f \in After[c]
    BY <1>2, <1>4, AfterOf
  <1>6. ASSUME NEW d \in After[c] PROVE d = f \/ d \in After[f]
    <2>1. d \in Controls /\ (c \in Above[d] \/ Right(c, d))
      BY AfterOf
    <2>2. CASE c \in Above[d]
      <3>1. PICK x \in Upward(d) : Parent[x] = c
        BY <2>1, <2>2, BranchOf
      <3>2. x \in Nodes /\ (x = d \/ x \in Above[d])
        BY <2>1, UpwardOf
      <3>3. x # f => Right(f, d)
        BY <1>3, <1>4, <3>1, <3>2 DEF Right
      <3> QED BY <1>2, <2>1, <3>2, <3>3, AfterOf
    <2>3. CASE Right(c, d)
      <3>1. Right(f, d)
        BY <1>4, <2>3 DEF Right
      <3> QED BY <1>2, <2>1, <3>1, AfterOf
    <2> QED BY <2>1, <2>2, <2>3
  <1>7. ASSUME NEW d \in After[f] PROVE d \in After[c]
    BY <1>2, <1>5, AfterIsTransitive
  <1> QED BY <1>2, <1>5, <1>6, <1>7 DEF f

LEMMA NextSibling ==
    ASSUME NEW c \in Nodes
    PROVE  /\ next(c) # None =>
                /\ next(c) \in Nodes /\ Parent[next(c)] = Parent[c] /\ Older(c, next(c))
                /\ \A x \in Nodes : Older(c, x) => x = next(c) \/ Older(next(c), x)
           /\ next(c) = None => \A x \in Nodes : ~Older(c, x)
  <1> DEFINE p == Parent[c]
             i == Rank(c)
             n == Len(Kids[p])
             s == Kids[p][i + 1]
  <1>1. p \in Controls /\ n \in Nat /\ i \in 1..n
    BY ParentOf, PlaceOf, TreeAssumption
  <1>2. next(c) = IF i < n THEN s ELSE None
    BY DEF next
  <1>3. ASSUME NEW x \in Nodes, Older(c, x)
        PROVE  Rank(x) \in i + 1 .. n /\ Kids[p][Rank(x)] = x /\ Parent[x] = p
    BY <1>1, <1>3, PlaceOf DEF Older
  <1>4. CASE i < n
    <2>1. i + 1 \in 1..n
      BY <1>1, <1>4
    <2>2. s \in Nodes /\ Parent[s] = p /\ Rank(s) = i + 1
      BY <1>1, <2>1, KidOf
    <2> DEFINE t == s
    <2>3. next(c) = t /\ t # None
      BY <1>2, <1>4, <2>2, FormAssumption DEF Nodes
    <2>4. ASSUME NEW x \in Nodes, Older(c, x) PROVE x = t \/ Older(t, x)
      <3>1. Rank(x) \in i + 1 .. n /\ Kids[p][Rank(x)] = x /\ Parent[x] = p
        BY <1>3, <2>4
      <3>2. Rank(x) = i + 1 => x = t
        BY <3>1
      <3> HIDE DEF t
      <3>3. Rank(t) = i + 1 /\ Parent[t] = p
        BY <2>2 DEF t
      <3> HIDE DEF i, p, n
      <3> QED BY <1>1, <3>1, <3>2, <3>3 DEF Older
    <2>5. Older(c, t)
      BY <1>1, <2>2 DEF Older
    <2> HIDE DEF t
    <2>6. t \in Nodes /\ Parent[t] = Parent[c]
      BY <2>2 DEF t
    <2> QED BY <2>3, <2>4, <2>5, <2>6
  <1>5. CASE ~(i < n)
    <2> HIDE DEF i, n
    <2> QED BY <1>1, <1>2, <1>3, <1>5
  <1> QED BY <1>4, <1>5

(* Where the way up leads that find_next_control takes.                    *)
LEMMA NextUpOf ==
    NextUp = [c \in Controls |->
                IF c = Root THEN None ELSE IF next(c) # None THEN next(c) ELSE NextUp[Parent[c]]]
  <1> DEFINE Defines(f) ==
                f = [c \in Controls |->
                        IF c = Root THEN None ELSE IF next(c) # None THEN next(c) ELSE f[Parent[c]]]
             stop == {c \in Controls : c = Root \/ next(c) # None}
             val == [c \in Controls |-> IF c = Root THEN None ELSE next(c)]
  <1>1. \A c \in Controls \ stop : Parent[c] \in Controls
    BY ParentOf DEF Nodes
  <1> HIDE DEF stop, val
  <1>2. PICK F : Continues(F, Controls, stop, val, Parent)
    BY <1>1, ContinuesExists
  <1>3. Defines(F)
    BY <1>2 DEF Continues, stop, val
  <1>4. NextUp = CHOOSE f : Defines(f)
    BY DEF NextUp
  <1> HIDE DEF Defines
  <1>5. Defines(NextUp)
    BY <1>3, <1>4
  <1> QED BY <1>5 DEF Defines

(* Next up comes the first of those that come after c and not below it.    *)
LEMMA NextUpIsFirst ==
    ASSUME NEW c \in Controls
    PROVE  /\ NextUp[c] = None => \A d \in Controls : ~Right(c, d)
           /\ NextUp[c] # None =>
                /\ NextUp[c] \in Controls /\ Above[NextUp[c]] \subseteq Above[c]
                /\ \A d \in Controls : Right(c, d) <=> d = NextUp[c] \/ d \in After[NextUp[c]]
  <1> DEFINE Leads(b, n) ==
                /\ n = None => \A d \in Controls : ~Right(b, d)
                /\ n # None => /\ n \in Controls /\ Above[n] \subseteq Above[b]
                               /\ \A d \in Controls : Right(b, d) <=> d = n \/ d \in After[n]
             S == {b \in Controls : Leads(b, NextUp[b])}
  <1>1. Root \in S
    <2>1. NextUp[Root] = None /\ Root \in Controls
      BY NextUpOf, FormAssumption
    <2>2. \A d : ~Right(Root, d)
      BY UpwardOf DEF Right
    <2> QED BY <2>1, <2>2
  <1>2. ASSUME NEW b \in Nodes, Parent[b] \in S PROVE b \in S
    <2> DEFINE p == Parent[b]
               s == next(b)
    <2>1. /\ b \in Controls /\ p \in Controls /\ Above[b] = {p} \cup Above[p]
          /\ Upward(b) = {b} \cup Upward(p) /\ Leads(p, NextUp[p])
      BY <1>2, ParentOf, AboveOf, UpwardOf DEF Nodes
    <2>2. NextUp[b] = IF s # None THEN s ELSE NextUp[p]
      BY <2>1, NextUpOf DEF Nodes
    <2>3. CASE s = None
      <3>1. \A d \in Controls : Upward(d) \subseteq Nodes
        BY UpwardOf
      <3>2. \A d \in Controls : Right(b, d) <=> Right(p, d)
        <4> SUFFICES ASSUME NEW d \in Controls PROVE Right(b, d) <=> Right(p, d)
          OBVIOUS
        <4>1. ASSUME NEW y \in Upward(d), Older(b, y) PROVE FALSE
          <5>1. y \in Nodes
            BY <3>1
          <5> QED BY <2>3, <4>1, <5>1, NextSibling
        <4> QED BY <2>1, <4>1 DEF Right
      <3> HIDE DEF p, s
      <3> QED BY <2>1, <2>2, <2>3, <3>2
    <2>4. CASE s # None
      <3>1. /\ s \in Nodes /\ Parent[s] = p /\ Older(b, s)
            /\ \A x \in Nodes : Older(b, x) => x = s \/ Older(s, x)
        BY <2>4, NextSibling
      <3> HIDE DEF s
      <3>2. Above[s] = {p} \cup Above[p] /\ Upward(s) = {s} \cup Upward(p) /\ s \in Controls
        BY <3>1, AboveOf, UpwardOf DEF Nodes
      <3> HIDE DEF p
      <3>3. ASSUME NEW d \in Controls, Right(b, d) PROVE d = s \/ d \in After[s]
        <4>1. PICK a \in Upward(b), e \in Upward(d) : Older(a, e)
          BY <3>3 DEF Right
        <4>2. e \in Nodes /\ (e = d \/ e \in Above[d])
          BY UpwardOf
        <4>3. CASE a = b
          <5>1. e = s \/ Right(s, d)
            BY <3>1, <3>2, <4>1, <4>2, <4>3 DEF Right
          <5> QED BY <3>2, <4>2, <5>1, AfterOf
        <4>4. CASE a \in Upward(p)
          <5>1. Right(s, d)
            BY <3>2, <4>1, <4>4 DEF Right
          <5> QED BY <3>2, <5>1, AfterOf
        <4> QED BY <2>1, <4>3, <4>4
      <3>4. ASSUME NEW d \in Controls, d = s \/ d \in After[s] PROVE Right(b, d)
        <4>1. CASE d = s \/ s \in Above[d]
          <5>1. s \in Upward(d)
            BY <3>1, <3>2, <4>1, UpwardOf, AboveOf DEF Nodes
          <5> QED BY <2>1, <3>1, <5>1 DEF Right
        <4>2. CASE Right(s, d)
          <5>1. PICK a \in Upward(s), e \in Upward(d) : Older(a, e)
            BY <4>2 DEF Right
          <5>2. e \in Nodes
            BY UpwardOf
          <5>3. a = s => Older(b, e)
            BY <3>1, <5>1, <5>2, OlderOrders
          <5> QED BY <2>1, <3>2, <5>1, <5>3 DEF Right
        <4> QED BY <3>2, <3>4, <4>1, <4>2, AfterOf
      <3> QED BY <2>1, <2>2, <2>4, <3>2, <3>3, <3>4
    <2> QED BY <2>3, <2>4
  <1>3. Controls \subseteq S
    <2> HIDE DEF S
    <2> QED BY <1>1, <1>2, DownTheTree
  <1> QED BY <1>3

-------------------------------------------------------------------------------
(* Tab.  Open are those that no closed rollout holds.                      *)
Open == {c \in Controls : ~InClosed(c)}

LEMMA RootIsOpen == Root \in Open /\ Root \notin Stops /\ Stops \subseteq Open
  BY AboveOf, FormAssumption, TreeAssumption DEF Open, Stops, InClosed, Takes, can_activate, Leaves

(* The next open control of the tree.                                      *)
LEMMA FollowingIsFirst ==
    ASSUME NEW c \in Open
    PROVE  /\ Following(c) = None => \A d \in Open : d \notin After[c]
           /\ Following(c) # None =>
                /\ Following(c) \in Open
                /\ \A d \in Open : d \in After[c] <=> d = Following(c) \/ d \in After[Following(c)]
  <1>1. c \in Controls /\ \A r \in Above[c] : Kind[r] = "rollout" => r \in ctl.is_open
    BY DEF Open, InClosed
  <1>2. CASE children(c) # <<>>
    <2> DEFINE f == Kids[c][1]
    <2>1. Kids[c] # <<>> /\ (Kind[c] = "rollout" => c \in ctl.is_open) /\ Following(c) = f
      BY <1>1, <1>2 DEF children, Following, OfKind
    <2>2. f \in Nodes /\ Parent[f] = c /\ \A d : d \in After[c] <=> d = f \/ d \in After[f]
      BY <1>1, <2>1, FirstChild
    <2> HIDE DEF f
    <2>3. f \in Controls /\ f # None /\ Above[f] = {c} \cup Above[c]
      BY <2>2, AboveOf, FormAssumption DEF Nodes
    <2>4. f \in Open
      BY <1>1, <2>1, <2>3 DEF Open, InClosed
    <2> QED BY <2>1, <2>2, <2>3, <2>4
  <1>3. CASE children(c) = <<>>
    <2> DEFINE n == NextUp[c]
    <2>1. Following(c) = n
      BY <1>3 DEF Following
    <2>2. ASSUME NEW d \in Open, c \in Above[d] PROVE FALSE
      <3>1. d \in Controls /\ \A r \in Above[d] : Kind[r] = "rollout" => r \in ctl.is_open
        BY DEF Open, InClosed
      <3>2. Kids[c] = <<>>
        BY <1>1, <1>3, <2>2, <3>1 DEF children, OfKind
      <3>3. PICK x \in Upward(d) : Parent[x] = c
        BY <2>2, <3>1, BranchOf
      <3>4. x \in Nodes
        BY <3>1, UpwardOf
      <3>5. Rank(x) \in 1..Len(Kids[c])
        BY <3>3, <3>4, PlaceOf
      <3> QED BY <3>2, <3>5
    <2>3. \A d \in Open : d \in Controls /\ (d \in After[c] <=> Right(c, d))
      BY <1>1, <2>2, AfterOf DEF Open
    <2> HIDE DEF n
    <2>4. /\ n = None => \A d \in Controls : ~Right(c, d)
          /\ n # None => /\ n \in Controls /\ Above[n] \subseteq Above[c]
                         /\ \A d \in Controls : Right(c, d) <=> d = n \/ d \in After[n]
      BY <1>1, NextUpIsFirst DEF n
    <2>5. n # None => n \in Open
      BY <1>1, <2>4 DEF Open, InClosed
    <2> QED BY <2>1, <2>3, <2>4, <2>5
  <1> QED BY <1>2, <1>3

LEMMA FollowingIsAfter ==
    ASSUME NEW c \in Controls, Following(c) # None
    PROVE  Following(c) \in Controls /\ Following(c) \in After[c]
  <1>1. CASE children(c) # <<>>
    <2>1. Kids[c] # <<>> /\ Following(c) = Kids[c][1]
      BY <1>1 DEF children, Following
    <2> QED BY <2>1, FirstChild DEF Nodes
  <1>2. CASE children(c) = <<>>
    <2>1. Following(c) = NextUp[c]
      BY <1>2 DEF Following
    <2>2. NextUp[c] \in Controls /\ Right(c, NextUp[c])
      BY <2>1, NextUpIsFirst
    <2> QED BY <2>1, <2>2, AfterOf
  <1> QED BY <1>1, <1>2

LEMMA FindNextOf ==
    \A c \in Controls : find_next_control[c] = LET n == Following(c)
                                           IN  IF n = None \/ Takes(n) THEN n ELSE find_next_control[n]
  <1> DEFINE Body(f, c) == LET n == Following(c) IN IF n = None \/ Takes(n) THEN n ELSE f[n]
             Defines(f) == f = [c \in Controls |-> Body(f, c)]
             stop == {c \in Controls : Following(c) = None \/ Takes(Following(c))}
             val == [c \in Controls |-> Following(c)]
  <1>1. \A c \in Controls \ stop : val[c] \in Controls
    BY FollowingIsAfter
  <1> HIDE DEF stop, val
  <1>2. PICK F : Continues(F, Controls, stop, val, val)
    BY <1>1, ContinuesExists
  <1>3. Defines(F)
    BY <1>2 DEF Continues, stop, val
  <1>4. find_next_control = CHOOSE f : Defines(f)
    BY DEF find_next_control
  <1> HIDE DEF Defines
  <1>5. Defines(find_next_control)
    BY <1>3, <1>4
  <1>6. \A c \in Controls : find_next_control[c] = Body(find_next_control, c)
    BY <1>5 DEF Defines
  <1> QED BY <1>6

LEMMA FindNextIsControl == \A c \in Controls : find_next_control[c] \in Controls \cup {None}
  <1> DEFINE S == {c \in Controls : find_next_control[c] \notin Controls \cup {None}}
  <1>1. S = {}
    <2> SUFFICES ASSUME S # {} PROVE FALSE
      OBVIOUS
    <2>1. PICK b \in S : \A d \in S : d \notin After[b]
      <3> S \subseteq Controls
        OBVIOUS
      <3> HIDE DEF S
      <3> QED BY OneIsLast
    <2> DEFINE n == Following(b)
    <2>2. find_next_control[b] = IF n = None \/ Takes(n) THEN n ELSE find_next_control[n]
      BY FindNextOf
    <2>3. n # None => n \in Controls /\ n \in After[b]
      BY FollowingIsAfter
    <2> HIDE DEF n
    <2> QED BY <2>1, <2>2, <2>3
  <1> QED BY <1>1

(* The next that Tab stops at.                                             *)
LEMMA FindNextIsFirst ==
    ASSUME NEW c \in Open
    PROVE  /\ find_next_control[c] = None => \A d \in Stops : d \notin After[c]
           /\ find_next_control[c] # None =>
                /\ find_next_control[c] \in Stops
                /\ \A d \in Stops :
                    d \in After[c] <=> d = find_next_control[c] \/ d \in After[find_next_control[c]]
  <1> DEFINE Leads(b, n) ==
                /\ n = None => \A d \in Stops : d \notin After[b]
                /\ n # None => /\ n \in Stops
                               /\ \A d \in Stops : d \in After[b] <=> d = n \/ d \in After[n]
             S == {b \in Open : ~Leads(b, find_next_control[b])}
  <1>1. S = {}
    <2> SUFFICES ASSUME S # {} PROVE FALSE
      OBVIOUS
    <2>1. S \subseteq Controls
      BY DEF Open
    <2> HIDE DEF S
    <2>2. PICK b \in S : \A d \in S : d \notin After[b]
      BY <2>1, OneIsLast
    <2> DEFINE n == Following(b)
    <2>3. b \in Open /\ ~Leads(b, find_next_control[b])
      BY DEF S
    <2> HIDE DEF Leads, n
    <2>4. /\ n = None => \A d \in Open : d \notin After[b]
          /\ n # None => /\ n \in Open
                         /\ \A d \in Open : d \in After[b] <=> d = n \/ d \in After[n]
      BY <2>3, FollowingIsFirst DEF n
    <2>5. find_next_control[b] = IF n = None \/ Takes(n) THEN n ELSE find_next_control[n]
      BY <2>3, FindNextOf DEF n, Open
    <2>6. CASE n = None
      BY <2>3, <2>4, <2>5, <2>6, RootIsOpen DEF Leads
    <2>7. CASE n # None /\ Takes(n)
      <3>1. n \in Stops
        BY <2>4, <2>7 DEF Open, Stops
      <3> QED BY <2>3, <2>4, <2>5, <2>7, <3>1, RootIsOpen DEF Leads
    <2>8. CASE n # None /\ ~Takes(n)
      <3>1. n \in Open /\ n \in After[b]
        BY <2>4, <2>8
      <3>2. n \notin S
        BY <2>2, <3>1
      <3>3. Leads(n, find_next_control[n])
        BY <3>1, <3>2 DEF S
      <3>4. \A d \in Stops : d \in After[b] <=> d \in After[n]
        BY <2>4, <2>8, RootIsOpen DEF Stops
      <3> QED BY <2>3, <2>5, <2>8, <3>3, <3>4 DEF Leads
    <2> QED BY <2>6, <2>7, <2>8
  <1> QED BY <1>1

(* Running from the first control until the next is c.                     *)
RunsTo(from, c) ==
    \A d \in Controls : from[d] = LET n == find_next_control[d]
                                  IN  IF n = None \/ n = c THEN d ELSE from[n]

LEMMA FindPrevOf ==
    ASSUME NEW c \in Controls
    PROVE  \E from : /\ RunsTo(from, c)
                     /\ find_prev_control(c) =
                            IF find_next_control[from[Root]] = None \/ from[Root] = Root
                            THEN None ELSE from[Root]
  <1> DEFINE Defines(f) ==
                f = [d \in Controls |-> LET n == find_next_control[d]
                                        IN  IF n = None \/ n = c THEN d ELSE f[n]]
             stop == {d \in Controls : find_next_control[d] = None \/ find_next_control[d] = c}
             val == [d \in Controls |-> d]
             up == find_next_control
  <1>1. \A d \in Controls \ stop : up[d] \in Controls
    BY FindNextIsControl
  <1> HIDE DEF stop, val, up
  <1>2. PICK F : Continues(F, Controls, stop, val, up)
    BY <1>1, ContinuesExists
  <1>3. Defines(F)
    BY <1>2 DEF Continues, stop, val, up
  <1> DEFINE from == CHOOSE f : Defines(f)
  <1>4. Defines(from)
    <2> HIDE DEF Defines
    <2> QED BY <1>3
  <1>5. find_prev_control(c) =
            IF c # None /\ (find_next_control[from[Root]] = None \/ from[Root] = Root)
            THEN None ELSE from[Root]
    BY DEF find_prev_control
  <1> HIDE DEF from
  <1>6. RunsTo(from, c)
    BY <1>4 DEF RunsTo
  <1> QED BY <1>5, <1>6, FormAssumption

LEMMA PrevIsBefore ==
    ASSUME NEW c \in Stops, NEW from, RunsTo(from, c), NEW d \in {Root} \cup Stops, c \in After[d]
    PROVE  /\ from[d] \in {Root} \cup Stops
           /\ find_next_control[from[d]] = c /\ c \in After[from[d]]
  <1> DEFINE Reaches(b) == /\ from[b] \in {Root} \cup Stops
                           /\ find_next_control[from[b]] = c /\ c \in After[from[b]]
             S == {b \in {Root} \cup Stops : c \in After[b] /\ ~Reaches(b)}
  <1>1. S = {}
    <2> SUFFICES ASSUME S # {} PROVE FALSE
      OBVIOUS
    <2>1. S \subseteq Controls /\ S \subseteq Open
      BY RootIsOpen DEF Open
    <2> HIDE DEF S
    <2>2. PICK b \in S : \A e \in S : e \notin After[b]
      BY <2>1, OneIsLast
    <2>3. b \in {Root} \cup Stops /\ b \in Open /\ b \in Controls /\ c \in After[b] /\ ~Reaches(b)
      BY <2>1, <2>2 DEF S
    <2> HIDE DEF Reaches
    <2> DEFINE n == find_next_control[b]
    <2>4. /\ n \in Stops /\ n # None
          /\ \A e \in Stops : e \in After[b] <=> e = n \/ e \in After[n]
      BY <2>3, FindNextIsFirst
    <2>5. from[b] = IF n = None \/ n = c THEN b ELSE from[n]
      BY <2>3 DEF RunsTo
    <2>6. CASE n = c
      BY <2>3, <2>4, <2>5, <2>6 DEF Reaches
    <2>7. CASE n # c
      <3> HIDE DEF n
      <3>1. c \in After[n] /\ n \in After[b]
        BY <2>3, <2>4, <2>7
      <3>2. Reaches(n)
        BY <2>2, <2>4, <3>1 DEF S
      <3> QED BY <2>3, <2>4, <2>5, <2>7, <3>2 DEF Reaches
    <2> QED BY <2>6, <2>7
  <1> QED BY <1>1

LEMMA PrevIsLast ==
    ASSUME NEW c \in Stops
    PROVE  ComesLast(find_prev_control(c), {d \in Stops : c \in After[d]})
  <1> DEFINE before == {d \in Stops : c \in After[d]}
  <1>1. c \in Controls /\ c # Root /\ Root \in Controls /\ Stops \subseteq Controls
    BY RootIsOpen, FormAssumption DEF Stops
  <1>2. PICK from : /\ RunsTo(from, c)
                    /\ find_prev_control(c) =
                            IF find_next_control[from[Root]] = None \/ from[Root] = Root
                            THEN None ELSE from[Root]
    BY <1>1, FindPrevOf
  <1> DEFINE e == from[Root]
  <1>3. \A d \in Nodes : d \in After[Root]
    BY RootIsAbove, AfterOf, FormAssumption DEF Nodes
  <1>4. c \in After[Root]
    BY <1>1, <1>3 DEF Nodes
  <1>5. e \in {Root} \cup Stops /\ find_next_control[e] = c /\ c \in After[e]
    BY <1>2, <1>4, PrevIsBefore
  <1> HIDE DEF e
  <1>6. e \in Open /\ e \in Controls /\ c # None
    BY <1>1, <1>5, RootIsOpen, FormAssumption
  <1>7. \A d \in Stops : d \in After[e] <=> d = c \/ d \in After[c]
    BY <1>5, <1>6, FindNextIsFirst
  <1>8. find_prev_control(c) = IF e = Root THEN None ELSE e
    BY <1>2, <1>5, <1>6 DEF e
  <1>9. ASSUME NEW d \in Stops, c \in After[d], d # e PROVE e \in After[d]
    <2>1. d \in After[e] => d = c \/ d \in After[c]
      BY <1>7
    <2>2. d # c /\ d \notin After[c]
      BY <1>1, <1>9, AfterIsStrict, AfterIsTransitive
    <2> QED BY <1>1, <1>6, <1>9, <2>1, <2>2, AfterIsTotal
  <1>10. CASE e = Root
    <2>1. before = {}
      <3> SUFFICES ASSUME NEW d \in Stops, c \in After[d] PROVE FALSE
        OBVIOUS
      <3>1. d \in Nodes /\ d # e
        BY <1>10, RootIsOpen, <1>1 DEF Nodes
      <3>2. d \in After[Root] /\ Root \in After[d]
        BY <1>3, <1>9, <1>10, <3>1
      <3> QED BY <1>1, <3>1, <3>2, AfterIsStrict, AfterIsTransitive DEF Nodes
    <2> QED BY <1>8, <1>10, <2>1 DEF ComesLast
  <1>11. CASE e # Root
    <2>1. e \in before /\ \A d \in before \ {e} : e \in After[d]
      BY <1>5, <1>9, <1>11
    <2> HIDE DEF before
    <2>2. ComesLast(e, before)
      BY <2>1 DEF ComesLast
    <2> QED BY <1>8, <1>11, <2>2 DEF before
  <1> QED BY <1>10, <1>11

LEMMA NextComesFirst ==
    ASSUME NEW c \in Open
    PROVE  ComesFirst(find_next_control[c], Stops \cap After[c])
  <1> DEFINE n == find_next_control[c]
  <1>1. CASE n = None
    BY <1>1, FindNextIsFirst DEF ComesFirst
  <1>2. CASE n # None
    <2>1. n \in Stops /\ \A d \in Stops : d \in After[c] <=> d = n \/ d \in After[n]
      BY <1>2, FindNextIsFirst
    <2> QED BY <2>1 DEF ComesFirst
  <1> QED BY <1>1, <1>2

LEMMA TabIsRight == TabVisitsAll
  <1>1. Stops \cap After[Root] = Stops
    <2>1. \A d \in Stops : d \in Nodes
      BY RootIsOpen DEF Stops, Nodes
    <2> QED BY <2>1, RootIsAbove, AfterOf, FormAssumption DEF Nodes
  <1>2. NextOf(None) = find_next_control[Root]
    BY DEF NextOf
  <1>3. ComesFirst(NextOf(None), Stops)
    BY <1>1, <1>2, RootIsOpen, NextComesFirst
  <1>4. ASSUME NEW c \in Stops
        PROVE  ComesFirst(NextOf(c), Stops \cap After[c])
    <2>1. c \in Open /\ c # None
      BY RootIsOpen, FormAssumption DEF Open
    <2>2. NextOf(c) = find_next_control[c]
      BY <2>1 DEF NextOf
    <2> QED BY <2>1, <2>2, NextComesFirst
  <1> QED BY <1>3, <1>4, PrevIsLast DEF TabVisitsAll

THEOREM TabVisitsEveryControl == FormSpec => []TabVisitsAll
  BY TabIsRight, PTL
===============================================================================
