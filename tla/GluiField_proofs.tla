--------------------------- MODULE GluiField_proofs ---------------------------
(***************************************************************************)
(* The controls of GLUI that hold a text.  That the history of a command   *)
(* line holds what was entered, for a list of every size; that a field     *)
(* keeps its insertion point where it is seen and shows its value, for a   *)
(* box of every width, all limits and texts of every length; and that a    *)
(* spinner tells the program what its arrows do, whatever a click adds.    *)
(*                                                                         *)
(* The invariant of a field (FieldInv) is of the record ed alone: each     *)
(* operation of EditText is followed from fields to fields, and is         *)
(* stated by a lemma of its own before the events are.                     *)
(***************************************************************************)
EXTENDS Spinner, CommandLine, FiniteSetTheorems, SequenceTheorems, WellFoundedInduction, TLAPS

-------------------------------------------------------------------------------
(* The history of a command line.                                          *)

AnyLine == Lines \cup {EmptyLine}

(* Types, and where the numbers are: newest_hist counts the commands since *)
(* the reset and is never more than HistSize - 1 above oldest_hist.        *)
HistoryType ==
    /\ line \in AnyLine /\ draft \in AnyLine
    /\ hist_list \in Seq(AnyLine) /\ Len(hist_list) = HistSize
    /\ entered \in Seq(AnyLine)
    /\ oldest_hist \in Nat /\ newest_hist \in Nat /\ curr_hist \in Nat

Numbered ==
    /\ newest_hist = Len(entered)
    /\ oldest_hist = IF newest_hist < HistSize THEN 0 ELSE newest_hist - HistSize + 1
    /\ curr_hist \in oldest_hist .. newest_hist

kept == newest_hist - oldest_hist
PastKept == \A i \in 1..kept : hist_list[i] = entered[newest_hist - kept + i]
DraftKept == curr_hist # newest_hist => hist_list[kept + 1] = draft

HistoryInv == HistoryType /\ Numbered /\ PastKept /\ DraftKept

LEMMA LineStarts == CommandInit => HistoryInv
<1> SUFFICES ASSUME CommandInit PROVE HistoryInv
  OBVIOUS
<1>1. HistoryType
  BY HistAssumption DEF CommandInit, HistoryType, AnyLine
<1>2. Numbered
  BY HistAssumption DEF CommandInit, Numbered
<1>3. PastKept /\ DraftKept
  BY HistAssumption DEF CommandInit, PastKept, DraftKept, kept
<1> QED BY <1>1, <1>2, <1>3 DEF HistoryInv

(* The numbers in use fit into the list, with a line for the draft.        *)
LEMMA InUse == HistoryInv => kept \in 0 .. (HistSize - 1) /\ HistAt(newest_hist) = kept + 1
BY HistAssumption DEF HistoryInv, HistoryType, Numbered, kept, HistAt

LEMMA RecallKeeps == ASSUME HistoryInv, NEW n, recall_history(n) PROVE HistoryInv'
<1> USE HistAssumption
<1>0. n \in Nat /\ HistAt(n) \in 1..HistSize /\ HistAt(newest_hist) \in 1..HistSize
  BY InUse DEF HistoryInv, HistoryType, Numbered, recall_history, HistAt
<1>1. hist_list' \in Seq(AnyLine) /\ Len(hist_list') = HistSize
  <2>1. /\ hist_list \in Seq(AnyLine) /\ Len(hist_list) = HistSize
        /\ line \in AnyLine
    BY DEF HistoryInv, HistoryType
  <2>2. hist_list' = hist_list \/ hist_list' = [hist_list EXCEPT ![HistAt(newest_hist)] = line]
    BY DEF recall_history
  <2> QED BY <1>0, <2>1, <2>2
<1>2. HistoryType'
  BY <1>0, <1>1 DEF HistoryInv, HistoryType, recall_history, AnyLine
<1>3. Numbered'
  BY DEF HistoryInv, HistoryType, Numbered, recall_history
<1>4. kept' = kept /\ newest_hist' = newest_hist /\ entered' = entered
  BY DEF kept, recall_history
<1>5. CASE curr_hist = newest_hist
  <2>1. hist_list' = [hist_list EXCEPT ![kept + 1] = line] /\ draft' = line
    BY <1>5, InUse DEF recall_history
  <2>2. \A i \in 1..HistSize : hist_list'[i] = IF i = kept + 1 THEN line ELSE hist_list[i]
    BY <2>1 DEF HistoryInv, HistoryType
  <2>3. PastKept'
    BY <2>2, <1>4, InUse DEF HistoryInv, PastKept
  <2>4. DraftKept'
    BY <2>1, <2>2, <1>4, InUse DEF DraftKept
  <2> QED BY <1>2, <1>3, <2>3, <2>4 DEF HistoryInv
<1>6. CASE curr_hist # newest_hist
  <2>1. UNCHANGED <<hist_list, draft>>
    BY <1>6 DEF recall_history
  <2>2. PastKept' /\ DraftKept'
    BY <2>1, <1>4, <1>6 DEF HistoryInv, PastKept, DraftKept
  <2> QED BY <1>2, <1>3, <2>2 DEF HistoryInv
<1> QED BY <1>5, <1>6

LEMMA AddKeeps ==
    ASSUME HistoryInv, line # EmptyLine, add_to_history(line), line' = EmptyLine, UNCHANGED draft
    PROVE  HistoryInv'
<1> USE HistAssumption
<1> DEFINE added == [hist_list EXCEPT ![HistAt(newest_hist)] = line]
<1>0. HistAt(newest_hist) \in 1..HistSize
  BY InUse DEF HistoryInv, HistoryType, HistAt
<1>1. added \in Seq(AnyLine) /\ Len(added) = HistSize
  BY <1>0 DEF HistoryInv, HistoryType
<1>2. entered' \in Seq(AnyLine) /\ Len(entered') = Len(entered) + 1
  BY DEF HistoryInv, HistoryType, add_to_history
<1>3. \A i \in 1..Len(entered) : entered'[i] = entered[i]
  BY DEF HistoryInv, HistoryType, add_to_history
<1>4. entered'[Len(entered) + 1] = line
  BY DEF HistoryInv, HistoryType, add_to_history
<1>5. newest_hist' = newest_hist + 1 /\ curr_hist' = newest_hist'
  BY DEF add_to_history, HistoryInv, HistoryType
<1>6. DraftKept'
  BY <1>5 DEF DraftKept
<1>7. \A i \in 1..HistSize : added[i] = IF i = kept + 1 THEN line ELSE hist_list[i]
  BY InUse DEF HistoryInv, HistoryType
<1> HIDE DEF added
<1>8. CASE newest_hist + 1 < HistSize
  <2>1. hist_list' = added /\ oldest_hist' = oldest_hist
    BY <1>8 DEF add_to_history, BumpsOldest, HistoryInv, HistoryType, added
  <2>2. HistoryType'
    BY <2>1, <1>1, <1>2, <1>5 DEF HistoryInv, HistoryType, AnyLine
  <2>3. Numbered'
    BY <2>1, <1>2, <1>5, <1>8 DEF HistoryInv, HistoryType, Numbered
  <2>4. kept' = kept + 1 /\ newest_hist - kept = 0 /\ newest_hist = Len(entered)
    BY <2>1, <1>5, <1>8 DEF kept, HistoryInv, Numbered, HistoryType
  <2>5. PastKept'
    <3>1. SUFFICES ASSUME NEW i \in 1..(kept + 1)
                   PROVE  added[i] = entered'[newest_hist + 1 - (kept + 1) + i]
      BY <2>1, <2>4, <1>5 DEF PastKept
    <3>2. i \in 1..HistSize /\ newest_hist + 1 - (kept + 1) + i = i /\ newest_hist = kept
      BY <2>4, <1>8, InUse DEF HistoryInv, HistoryType
    <3>3. CASE i = kept + 1
      BY <3>2, <3>3, <2>4, <1>4, <1>7
    <3>4. CASE i \in 1..kept
      BY <3>2, <3>4, <2>4, <1>3, <1>7, InUse DEF HistoryInv, PastKept
    <3> QED BY <3>3, <3>4, InUse
  <2> QED BY <2>2, <2>3, <2>5, <1>6 DEF HistoryInv
<1>9. CASE newest_hist + 1 >= HistSize
  <2>1. hist_list' = Append(Tail(added), EmptyLine) /\ oldest_hist' = oldest_hist + 1
    BY <1>9 DEF add_to_history, BumpsOldest, HistoryInv, HistoryType, added
  <2>2. Tail(added) \in Seq(AnyLine) /\ Len(Tail(added)) = HistSize - 1
    BY <1>1
  <2>3. hist_list' \in Seq(AnyLine) /\ Len(hist_list') = HistSize
    BY <2>1, <2>2 DEF AnyLine
  <2>4. \A i \in 1..(HistSize - 1) : hist_list'[i] = added[i + 1]
    BY <2>1, <2>2, <1>1
  <2>5. HistoryType'
    BY <2>3, <2>1, <1>2, <1>5 DEF HistoryInv, HistoryType, AnyLine
  <2>6. Numbered'
    BY <2>1, <1>2, <1>5, <1>9 DEF HistoryInv, HistoryType, Numbered
  <2>7. kept = HistSize - 1 /\ kept' = kept /\ newest_hist = Len(entered)
    BY <2>1, <1>5, <1>9 DEF kept, HistoryInv, Numbered, HistoryType
  <2>8. PastKept'
    <3>0. SUFFICES \A i \in 1..kept : hist_list'[i] = entered'[newest_hist + 1 - kept + i]
      <4>1. newest_hist' = newest_hist + 1 /\ kept' = kept
        BY <2>7, <1>5
      <4>2. newest_hist \in Nat /\ kept \in Nat
        BY InUse DEF HistoryInv, HistoryType
      <4> QED BY <4>1, <4>2 DEF PastKept
    <3>1. SUFFICES ASSUME NEW i \in 1..kept
                   PROVE  hist_list'[i] = entered'[newest_hist + 1 - kept + i]
      OBVIOUS
    <3>2. hist_list'[i] = added[i + 1] /\ i + 1 \in 1..HistSize
      BY <2>4, <2>7
    <3>3. CASE i < kept
      <4>1. added[i + 1] = entered[newest_hist - kept + (i + 1)]
        BY <3>3, <3>2, <1>7, InUse DEF HistoryInv, PastKept
      <4>2. newest_hist - kept + (i + 1) \in 1..Len(entered)
        BY <3>3, <2>7, <1>9 DEF HistoryInv, HistoryType
      <4> QED BY <4>1, <4>2, <3>2, <1>3, <2>7 DEF HistoryInv, HistoryType
    <3>4. CASE i = kept
      BY <3>4, <3>2, <1>7, <1>4, <2>7 DEF HistoryInv, HistoryType
    <3> QED BY <3>3, <3>4, <2>7
  <2> QED BY <2>5, <2>6, <2>8, <1>6 DEF HistoryInv
<1> QED BY <1>8, <1>9 DEF HistoryInv, HistoryType

LEMMA LineStep == HistoryInv /\ [CommandNext]_lineVars => HistoryInv'
<1> SUFFICES ASSUME HistoryInv, [CommandNext]_lineVars PROVE HistoryInv'
  OBVIOUS
<1> USE HistAssumption
<1>1. ASSUME UNCHANGED histVars, UNCHANGED <<entered, draft>>, line' \in AnyLine
      PROVE  HistoryInv'
  BY <1>1 DEF HistoryInv, HistoryType, Numbered, PastKept, DraftKept, kept, histVars
<1>2. CASE Enter \/ Leave \/ UNCHANGED lineVars
  BY <1>1, <1>2 DEF Enter, Leave, lineVars, histVars, HistoryInv, HistoryType
<1>3. CASE EditLine
  BY <1>1, <1>3 DEF EditLine, AnyLine
<1>4. CASE Return
  <2>1. CASE line = EmptyLine
    BY <1>1, <1>4, <2>1 DEF Return, AnyLine
  <2>2. CASE line # EmptyLine
    BY AddKeeps, <1>4, <2>2 DEF Return
  <2> QED BY <2>1, <2>2
<1>5. CASE ScrollHistory
  BY RecallKeeps, <1>5 DEF ScrollHistory
<1>6. CASE ProgramRecalls
  BY RecallKeeps, <1>6 DEF ProgramRecalls
<1>7. CASE reset_history
  BY <1>7 DEF reset_history, HistoryInv, HistoryType, Numbered, PastKept, DraftKept, kept
<1> QED BY <1>2, <1>3, <1>4, <1>5, <1>6, <1>7 DEF CommandNext

(* Whatever keys are used and whatever the program does, the history of a  *)
(* command line is what was entered, in order, and the line that was left  *)
(* (glui_commandline.cpp:137-175), for every size of the list.             *)
THEOREM HistoryIsKept == CommandSpec => []HistoryKept
<1>1. HistoryInv => HistoryKept
  <2> SUFFICES ASSUME HistoryInv PROVE HistoryKept
    OBVIOUS
  <2>1. kept = IF Len(entered) < HistSize THEN Len(entered) ELSE HistSize - 1
    BY HistAssumption DEF HistoryInv, HistoryType, Numbered, kept
  <2> QED BY <2>1 DEF HistoryInv, Numbered, PastKept, DraftKept, kept, HistoryKept
<1> QED BY LineStarts, LineStep, <1>1, PTL DEF CommandSpec

-------------------------------------------------------------------------------
(* Smallest and largest.                                                   *)

LEMMA MinOfTwo ==
    ASSUME NEW a \in Int, NEW b \in Int
    PROVE  Min({a, b}) = IF a <= b THEN a ELSE b
  <1> DEFINE m == IF a <= b THEN a ELSE b
  <1>1. m \in {a, b} /\ \A y \in {a, b} : m <= y
    OBVIOUS
  <1>2. \A x \in {a, b} : (\A y \in {a, b} : x <= y) => x = m
    OBVIOUS
  <1> HIDE DEF m
  <1> QED BY <1>1, <1>2 DEF Min

LEMMA MaxOfTwo ==
    ASSUME NEW a \in Int, NEW b \in Int
    PROVE  Max({a, b}) = IF a >= b THEN a ELSE b
  <1> DEFINE m == IF a >= b THEN a ELSE b
  <1>1. m \in {a, b} /\ \A y \in {a, b} : m >= y
    OBVIOUS
  <1>2. \A x \in {a, b} : (\A y \in {a, b} : x >= y) => x = m
    OBVIOUS
  <1> HIDE DEF m
  <1> QED BY <1>1, <1>2 DEF Max

LEMMA LeastExists ==
    ASSUME NEW S \in SUBSET Nat, S # {}
    PROVE  \E x \in S : \A y \in S : x <= y
  <1>1. PICK x \in S : \A y \in S : ~(<<y, x>> \in OpToRel(<, Nat))
    BY NatLessThanWellFounded, WFMin
  <1>2. \A y \in S : ~(y < x)
    BY <1>1 DEF OpToRel
  <1> QED BY <1>2

LEMMA MinIsLeast ==
    ASSUME NEW S \in SUBSET Nat, S # {}
    PROVE  Min(S) \in S /\ \A y \in S : Min(S) <= y
  BY LeastExists DEF Min

(* The largest of numbers below n has the smallest distance from it.       *)
LEMMA MaxIsGreatest ==
    ASSUME NEW n \in Nat, NEW S \in SUBSET (0..n), S # {}
    PROVE  Max(S) \in S
  <1> DEFINE T == {k \in 0..n : n - k \in S}
  <1>1. T \in SUBSET Nat /\ T # {}
    <2>1. PICK i : i \in S
      OBVIOUS
    <2>2. n - i \in 0..n /\ n - (n - i) = i
      BY <2>1
    <2>3. n - i \in T
      BY <2>1, <2>2
    <2> QED BY <2>3
  <1>2. PICK k \in T : \A j \in T : k <= j
    <2> HIDE DEF T
    <2> QED BY <1>1, LeastExists
  <1>3. n - k \in S
    BY <1>2
  <1>4. \A y \in S : n - k >= y
    <2> TAKE y \in S
    <2>1. n - y \in T
      BY <1>1
    <2>2. k <= n - y /\ k \in Nat /\ y \in 0..n
      BY <1>2, <2>1
    <2> QED BY <2>2
  <1> QED BY <1>3, <1>4 DEF Max

-------------------------------------------------------------------------------
(* Numbers and their texts.                                                *)

LEMMA DigitsAreCharacters ==
    /\ Len(Digits) = 10 /\ DOMAIN Digits = 1..10
    /\ \A i \in 1..10 : Digits[i] \in Characters /\ Digits[i] # "." /\ Digits[i] # "-"
    /\ "." \in Characters /\ "-" \in Characters
  <1>1. \A i \in 1..10 : \/ i = 1 \/ i = 2 \/ i = 3 \/ i = 4 \/ i = 5
                         \/ i = 6 \/ i = 7 \/ i = 8 \/ i = 9 \/ i = 10
    OBVIOUS
  <1>2. Len(Digits) = 10 /\ DOMAIN Digits = 1..10
    BY DEF Digits
  <1>3. ASSUME NEW i \in 1..10 PROVE Digits[i] # "." /\ Digits[i] # "-"
    BY <1>1 DEF Digits
  <1>4. ASSUME NEW i \in 1..10 PROVE Digits[i] \in Characters
    <2>1. Digits[i] \in Range(Digits)
      BY <1>2 DEF Range
    <2> QED BY <2>1, Zenon DEF Characters
  <1>5. "." \in Characters /\ "-" \in Characters
    BY Zenon DEF Characters
  <1> QED BY <1>2, <1>3, <1>4, <1>5

LEMMA DigitIsCharacter ==
    ASSUME NEW n \in 0..9
    PROVE  Digit(n) \in Characters /\ Digit(n) # "."
  <1>1. n + 1 \in 1..10
    OBVIOUS
  <1> QED BY <1>1, DigitsAreCharacters DEF Digit

LEMMA DigitHasValue ==
    ASSUME NEW c, IsDigit(c)
    PROVE  DigitValue(c) \in 0..9
  <1>1. \E i \in 1..10 : Digits[i] = c
    BY DigitsAreCharacters DEF IsDigit, Contains
  <1>2. (CHOOSE i \in 1..10 : Digits[i] = c) \in 1..10
    BY <1>1
  <1> QED BY <1>2 DEF DigitValue

LEMMA TensArePositive == \A k \in 1..10 : Tens[k] \in Nat \ {0}
  <1> SUFFICES ASSUME NEW k \in 1..10 PROVE Tens[k] \in Nat \ {0}
    OBVIOUS
  <1>1. \/ k = 1 \/ k = 2 \/ k = 3 \/ k = 4 \/ k = 5
        \/ k = 6 \/ k = 7 \/ k = 8 \/ k = 9 \/ k = 10
    OBVIOUS
  <1> QED BY <1>1 DEF Tens

LEMMA NatTextIsText ==
    ASSUME NEW n \in Nat
    PROVE  NatText(n) \in Seq(Characters) /\ \A i \in DOMAIN NatText(n) : NatText(n)[i] # "."
  <1> DEFINE places == {k \in 1..10 : k = 1 \/ Tens[k] <= n}
             size == Cardinality(places)
             digit(i) == Digit((n \div Tens[size + 1 - i]) % 10)
  <1>1. size \in 0..10
    <2>1. 1 \in Int /\ 10 \in Int /\ 1 <= 10
      OBVIOUS
    <2>2. IsFiniteSet(1..10) /\ Cardinality(1..10) = 10
      <3>1. ASSUME NEW a \in Int, NEW b \in Int
            PROVE  IsFiniteSet(a..b) /\ Cardinality(a..b) = IF a > b THEN 0 ELSE b - a + 1
        BY FS_Interval
      <3>2. IsFiniteSet(1..10) /\ Cardinality(1..10) = IF 1 > 10 THEN 0 ELSE 10 - 1 + 1
        BY <2>1, <3>1, Zenon
      <3> QED BY <3>2
    <2>3. places \in SUBSET (1..10)
      OBVIOUS
    <2> HIDE DEF places
    <2>4. IsFiniteSet(places) /\ Cardinality(places) <= 10
      BY <2>2, <2>3, FS_Subset
    <2>5. Cardinality(places) \in Nat
      BY <2>4, FS_CardinalityType
    <2> QED BY <2>4, <2>5
  <1>2. NatText(n) = [i \in 1..size |-> digit(i)]
    BY DEF NatText
  <1> HIDE DEF size
  <1>3. ASSUME NEW i \in 1..size PROVE digit(i) \in Characters /\ digit(i) # "."
    <2>1. size + 1 - i \in 1..10
      BY <1>1
    <2>2. Tens[size + 1 - i] \in Nat \ {0}
      BY <2>1, TensArePositive
    <2>3. (n \div Tens[size + 1 - i]) % 10 \in 0..9
      BY <2>2
    <2> QED BY <2>3, DigitIsCharacter
  <1> HIDE DEF digit
  <1>4. [i \in 1..size |-> digit(i)] \in Seq(Characters)
    BY <1>1, <1>3, IsASeq
  <1> QED BY <1>2, <1>3, <1>4

-------------------------------------------------------------------------------
(* Texts that are cut, and texts that a character is put into.             *)

LEMMA EraseText ==
    ASSUME NEW S, NEW t \in Seq(S), NEW a \in 0..Len(t), NEW b \in Int, a <= b
    PROVE  LET c == Erase(t, a, b)
           IN  /\ c \in Seq(S)
               /\ Len(c) = a + IF b < Len(t) THEN Len(t) - b ELSE 0
               /\ \A i \in 1..Len(c) : c[i] = IF i <= a THEN t[i] ELSE t[i + b - a]
  <1> DEFINE u == SubSeq(t, 1, a)
             v == SubSeq(t, b + 1, Len(t))
  <1>1. Len(t) \in Nat
    BY LenProperties
  <1>2. u \in Seq(S) /\ Len(u) = a /\ \A i \in 1..a : u[i] = t[i]
    <2>1. \A i \in 1..a : t[i] \in S
      BY <1>1, ElementOfSeq
    <2>2. /\ u \in Seq(S) /\ Len(u) = IF 1 <= a THEN a - 1 + 1 ELSE 0
          /\ \A i \in 1..(a - 1 + 1) : u[i] = t[1 + i - 1]
      BY <1>1, <2>1, SubSeqProperties
    <2> HIDE DEF u
    <2> QED BY <1>1, <2>2
  <1>3. /\ v \in Seq(S) /\ Len(v) = IF b < Len(t) THEN Len(t) - b ELSE 0
        /\ \A i \in 1..Len(v) : v[i] = t[i + b]
    <2>1. \A i \in (b + 1)..Len(t) : t[i] \in S
      BY <1>1, ElementOfSeq
    <2>2. b + 1 \in Int /\ Len(t) \in Int
      BY <1>1
    <2>3. /\ v \in Seq(S) /\ Len(v) = IF b + 1 <= Len(t) THEN Len(t) - (b + 1) + 1 ELSE 0
          /\ \A i \in 1..(Len(t) - (b + 1) + 1) : v[i] = t[(b + 1) + i - 1]
      BY <2>1, <2>2, SubSeqProperties
    <2> HIDE DEF v
    <2> QED BY <1>1, <2>3
  <1> HIDE DEF u, v
  <1>4. /\ u \o v \in Seq(S) /\ Len(u \o v) = Len(u) + Len(v)
        /\ \A i \in 1..(Len(u) + Len(v)) : (u \o v)[i] = IF i <= Len(u) THEN u[i] ELSE v[i - Len(u)]
    BY <1>2, <1>3, ConcatProperties
  <1>5. Erase(t, a, b) = u \o v
    BY DEF Erase, u, v
  <1> DEFINE c == u \o v
  <1>6. c \in Seq(S) /\ Len(c) = a + IF b < Len(t) THEN Len(t) - b ELSE 0
    BY <1>2, <1>3, <1>4
  <1>7. ASSUME NEW i \in 1..Len(c)
        PROVE  c[i] = IF i <= a THEN t[i] ELSE t[i + b - a]
    <2>1. CASE i <= a
      BY <1>2, <1>3, <1>4, <2>1
    <2>2. CASE ~(i <= a)
      <3>1. i - a \in 1..Len(v) /\ i - a + b = i + b - a
        BY <1>1, <1>2, <1>3, <1>4, <2>2
      <3>2. c[i] = v[i - a] /\ v[i - a] = t[i - a + b]
        BY <1>1, <1>2, <1>3, <1>4, <2>2, <3>1
      <3> QED BY <2>2, <3>1, <3>2
    <2> QED BY <2>1, <2>2
  <1> HIDE DEF c
  <1> QED BY <1>5, <1>6, <1>7 DEF c

LEMMA EraseLength ==
    ASSUME NEW S, NEW t \in Seq(S), NEW a \in 0..Len(t), NEW b \in Int, a <= b
    PROVE  /\ Erase(t, a, b) \in Seq(S)
           /\ Len(Erase(t, a, b)) \in Nat /\ Len(Erase(t, a, b)) >= a
  <1> DEFINE c == Erase(t, a, b)
  <1>1. c \in Seq(S) /\ Len(c) = a + IF b < Len(t) THEN Len(t) - b ELSE 0
    BY EraseText
  <1> HIDE DEF c
  <1>2. Len(t) \in Nat
    BY LenProperties
  <1>3. Len(c) \in Nat /\ Len(c) >= a
    BY <1>1, <1>2
  <1> QED BY <1>1, <1>3 DEF c

InsertedAt(t, p, k) == SubSeq(t, 1, p) \o <<k>> \o SubSeq(t, p + 1, Len(t))

LEMMA InsertText ==
    ASSUME NEW S, NEW t \in Seq(S), NEW p \in 0..Len(t), NEW k \in S
    PROVE  LET c == InsertedAt(t, p, k)
           IN  /\ c \in Seq(S)
               /\ Len(c) = Len(t) + 1
               /\ \A i \in 1..Len(c) :
                    c[i] = IF i <= p THEN t[i] ELSE IF i = p + 1 THEN k ELSE t[i - 1]
  <1> DEFINE u == SubSeq(t, 1, p)
             w == u \o <<k>>
             v == SubSeq(t, p + 1, Len(t))
  <1>1. Len(t) \in Nat
    BY LenProperties
  <1>2. u \in Seq(S) /\ Len(u) = p /\ \A i \in 1..p : u[i] = t[i]
    <2>1. \A i \in 1..p : t[i] \in S
      BY <1>1, ElementOfSeq
    <2>2. /\ u \in Seq(S) /\ Len(u) = IF 1 <= p THEN p - 1 + 1 ELSE 0
          /\ \A i \in 1..(p - 1 + 1) : u[i] = t[1 + i - 1]
      BY <1>1, <2>1, SubSeqProperties
    <2> HIDE DEF u
    <2> QED BY <1>1, <2>2
  <1>3. v \in Seq(S) /\ Len(v) = Len(t) - p /\ \A i \in 1..Len(v) : v[i] = t[i + p]
    <2>1. \A i \in (p + 1)..Len(t) : t[i] \in S
      BY <1>1, ElementOfSeq
    <2>2. p + 1 \in Int /\ Len(t) \in Int
      BY <1>1
    <2>3. /\ v \in Seq(S) /\ Len(v) = IF p + 1 <= Len(t) THEN Len(t) - (p + 1) + 1 ELSE 0
          /\ \A i \in 1..(Len(t) - (p + 1) + 1) : v[i] = t[(p + 1) + i - 1]
      BY <2>1, <2>2, SubSeqProperties
    <2> HIDE DEF v
    <2> QED BY <1>1, <2>3
  <1> HIDE DEF u, v
  <1>4. /\ w \in Seq(S) /\ Len(w) = p + 1
        /\ \A i \in 1..(p + 1) : w[i] = IF i <= p THEN t[i] ELSE k
    <2>1. <<k>> \in Seq(S) /\ Len(<<k>>) = 1 /\ <<k>>[1] = k
      OBVIOUS
    <2>2. /\ w \in Seq(S) /\ Len(w) = Len(u) + Len(<<k>>)
          /\ \A i \in 1..(Len(u) + Len(<<k>>)) :
                w[i] = IF i <= Len(u) THEN u[i] ELSE <<k>>[i - Len(u)]
      BY <1>2, <2>1, ConcatProperties
    <2> HIDE DEF w
    <2> QED BY <1>1, <1>2, <2>1, <2>2
  <1> HIDE DEF w
  <1>5. /\ w \o v \in Seq(S) /\ Len(w \o v) = Len(w) + Len(v)
        /\ \A i \in 1..(Len(w) + Len(v)) : (w \o v)[i] = IF i <= Len(w) THEN w[i] ELSE v[i - Len(w)]
    BY <1>3, <1>4, ConcatProperties
  <1>6. InsertedAt(t, p, k) = w \o v
    BY DEF InsertedAt, w, u, v
  <1> DEFINE c == w \o v
  <1>7. c \in Seq(S) /\ Len(c) = Len(t) + 1
    BY <1>1, <1>3, <1>4, <1>5
  <1>8. ASSUME NEW i \in 1..Len(c)
        PROVE  c[i] = IF i <= p THEN t[i] ELSE IF i = p + 1 THEN k ELSE t[i - 1]
    <2>1. CASE i <= p + 1
      BY <1>1, <1>3, <1>4, <1>5, <2>1
    <2>2. CASE ~(i <= p + 1)
      <3>1. i - (p + 1) \in 1..Len(v) /\ i - (p + 1) + p = i - 1
        BY <1>1, <1>3, <1>4, <1>5, <2>2
      <3>2. c[i] = v[i - (p + 1)] /\ v[i - (p + 1)] = t[i - (p + 1) + p]
        BY <1>1, <1>3, <1>4, <1>5, <2>2, <3>1
      <3> QED BY <2>2, <3>1, <3>2
    <2> QED BY <2>1, <2>2
  <1> HIDE DEF c
  <1> QED BY <1>6, <1>7, <1>8 DEF c

(* Periods.                                                                *)
OnePeriod(t) == \A i, j \in 1..Len(t) : t[i] = "." /\ t[j] = "." => i = j
NoPeriod(t) == \A i \in 1..Len(t) : t[i] # "."

LEMMA PeriodsCounted ==
    ASSUME NEW S, NEW t \in Seq(S), OnePeriod(t)
    PROVE  Periods(t) \in {0, 1} /\ (Periods(t) = 0 => NoPeriod(t))
  <1> DEFINE at == {i \in DOMAIN t : t[i] = "."}
  <1>1. DOMAIN t = 1..Len(t) /\ Periods(t) = Cardinality(at)
    BY LenProperties DEF Periods
  <1>2. CASE at = {}
    BY <1>1, <1>2, FS_EmptySet DEF NoPeriod
  <1>3. CASE at # {}
    <2>1. PICK i : i \in at
      BY <1>3
    <2>2. at = {i}
      BY <1>1, <2>1 DEF OnePeriod
    <2> HIDE DEF at
    <2>3. Cardinality(at) = 1
      BY <2>2, FS_Singleton
    <2> QED BY <1>1, <2>3
  <1> QED BY <1>2, <1>3

LEMMA EraseKeepsOnePeriod ==
    ASSUME NEW S, NEW t \in Seq(S), OnePeriod(t), NEW a \in 0..Len(t), NEW b \in Int, a <= b
    PROVE  /\ OnePeriod(Erase(t, a, b))
           /\ NoPeriod(t) => NoPeriod(Erase(t, a, b))
           /\ (\E i \in (a + 1)..b : i <= Len(t) /\ t[i] = ".") => NoPeriod(Erase(t, a, b))
  <1> DEFINE c == Erase(t, a, b)
             Old(i) == IF i <= a THEN i ELSE i + b - a
  <1>1. /\ c \in Seq(S)
        /\ Len(c) = a + IF b < Len(t) THEN Len(t) - b ELSE 0
        /\ \A i \in 1..Len(c) : c[i] = IF i <= a THEN t[i] ELSE t[i + b - a]
    BY EraseText
  <1> HIDE DEF c
  <1>2. Len(t) \in Nat /\ Len(c) \in Nat
    BY <1>1, LenProperties
  <1>3. \A i \in 1..Len(c) : Old(i) \in 1..Len(t) /\ Old(i) \notin (a + 1)..b /\ c[i] = t[Old(i)]
    BY <1>1, <1>2
  <1>4. \A i, j \in 1..Len(c) : Old(i) = Old(j) => i = j
    BY <1>1, <1>2
  <1> HIDE DEF Old
  <1>5. OnePeriod(c)
    BY <1>3, <1>4 DEF OnePeriod
  <1>6. NoPeriod(t) => NoPeriod(c)
    BY <1>3 DEF NoPeriod
  <1>7. ASSUME NEW i \in (a + 1)..b, i <= Len(t), t[i] = "." PROVE NoPeriod(c)
    <2>1. i \in 1..Len(t)
      BY <1>2, <1>7
    <2>2. \A j \in 1..Len(t) : t[j] = "." => j = i
      BY <1>7, <2>1 DEF OnePeriod
    <2> QED BY <1>3, <1>7, <2>2 DEF NoPeriod
  <1> QED BY <1>5, <1>6, <1>7 DEF c

LEMMA InsertKeepsOnePeriod ==
    ASSUME NEW S, NEW t \in Seq(S), OnePeriod(t), NEW p \in 0..Len(t), NEW k \in S,
           k = "." => NoPeriod(t)
    PROVE  OnePeriod(InsertedAt(t, p, k))
  <1> DEFINE c == InsertedAt(t, p, k)
             Old(i) == IF i <= p THEN i ELSE i - 1
  <1>1. /\ Len(c) = Len(t) + 1
        /\ \A i \in 1..Len(c) :
             c[i] = IF i <= p THEN t[i] ELSE IF i = p + 1 THEN k ELSE t[i - 1]
    BY InsertText
  <1> HIDE DEF c
  <1>2. Len(t) \in Nat
    BY LenProperties
  <1>3. \A i \in 1..Len(c) : i # p + 1 => Old(i) \in 1..Len(t) /\ c[i] = t[Old(i)]
    BY <1>1, <1>2
  <1>4. \A i, j \in 1..Len(c) : i # p + 1 /\ j # p + 1 /\ Old(i) = Old(j) => i = j
    BY <1>1, <1>2
  <1>5. p + 1 \in 1..Len(c) /\ c[p + 1] = k
    BY <1>1, <1>2
  <1> HIDE DEF Old
  <1>6. CASE k = "."
    <2>1. \A i \in 1..Len(c) : c[i] = "." => i = p + 1
      BY <1>3, <1>6 DEF NoPeriod
    <2> QED BY <2>1 DEF OnePeriod, c
  <1>7. CASE k # "."
    <2>1. \A i \in 1..Len(c) : c[i] = "." => i # p + 1
      BY <1>5, <1>7
    <2>2. OnePeriod(c)
      BY <1>3, <1>4, <2>1 DEF OnePeriod
    <2> QED BY <2>2 DEF c
  <1> QED BY <1>6, <1>7

(* The texts of numbers.                                                   *)
LEMMA SignedText ==
    ASSUME NEW n \in Int, NEW t \in Seq(Characters), OnePeriod(t)
    PROVE  WithSign(n, t) \in Seq(Characters) /\ OnePeriod(WithSign(n, t))
  <1> DEFINE s == <<"-">>
             c == s \o t
  <1>1. s \in Seq(Characters) /\ Len(s) = 1 /\ s[1] # "."
    BY DigitsAreCharacters
  <1>2. Len(t) \in Nat
    BY LenProperties
  <1> HIDE DEF s
  <1>3. /\ c \in Seq(Characters) /\ Len(c) = Len(s) + Len(t)
        /\ \A i \in 1..(Len(s) + Len(t)) : c[i] = IF i <= Len(s) THEN s[i] ELSE t[i - Len(s)]
    BY <1>1, ConcatProperties
  <1> HIDE DEF c
  <1>4. \A i \in 1..Len(c) : c[i] = "." => i - 1 \in 1..Len(t) /\ t[i - 1] = "."
    BY <1>1, <1>2, <1>3
  <1>5. OnePeriod(c)
    <2> SUFFICES ASSUME NEW i \in 1..Len(c), NEW j \in 1..Len(c), c[i] = ".", c[j] = "."
                 PROVE  i = j
      BY DEF OnePeriod
    <2>1. i - 1 = j - 1
      BY <1>4 DEF OnePeriod
    <2> QED BY <1>2, <1>3, <2>1
  <1> QED BY <1>3, <1>5 DEF WithSign, c, s

LEMMA IntTextIsText ==
    ASSUME NEW n \in Int
    PROVE  IntText(n) \in Seq(Characters)
  <1>1. Abs(n) \in Nat
    BY DEF Abs
  <1>2. /\ NatText(Abs(n)) \in Seq(Characters)
        /\ \A i \in DOMAIN NatText(Abs(n)) : NatText(Abs(n))[i] # "."
    BY <1>1, NatTextIsText
  <1>3. OnePeriod(NatText(Abs(n)))
    BY <1>2, LenProperties DEF OnePeriod
  <1> QED BY <1>2, <1>3, SignedText DEF IntText

LEMMA FloatTextIsText ==
    ASSUME NEW v \in Int
    PROVE  FloatText(v) \in Seq(Characters) /\ OnePeriod(FloatText(v))
  <1> DEFINE n == Abs(v)
             w == NatText(n \div 100)
             d == <<".", Digit((n \div 10) % 10)>>
             r == IF n % 10 = 0 THEN <<>> ELSE <<Digit(n % 10)>>
             wd == w \o d
             c == wd \o r
  <1>1. n \in Nat
    BY DEF Abs
  <1> HIDE DEF n
  <1>2. n \div 100 \in Nat /\ (n \div 10) % 10 \in 0..9 /\ n % 10 \in 0..9
    BY <1>1
  <1>3. w \in Seq(Characters) /\ \A i \in 1..Len(w) : w[i] # "."
    BY <1>2, NatTextIsText, LenProperties
  <1>4. /\ Digit((n \div 10) % 10) \in Characters /\ Digit((n \div 10) % 10) # "."
        /\ Digit(n % 10) \in Characters /\ Digit(n % 10) # "."
    BY <1>2, DigitIsCharacter
  <1>5. d \in Seq(Characters) /\ Len(d) = 2 /\ \A i \in 1..2 : d[i] = "." => i = 1
    BY <1>4, DigitsAreCharacters
  <1>6. r \in Seq(Characters) /\ Len(r) \in Nat /\ \A i \in 1..Len(r) : r[i] # "."
    BY <1>4
  <1>7. Len(w) \in Nat
    BY <1>3, LenProperties
  <1>8. FloatText(v) = WithSign(v, c)
    <2>1. FloatText(v) = WithSign(v, w \o d \o r)
      BY DEF FloatText, n
    <2> QED BY <2>1
  <1> HIDE DEF w, d, r
  <1>9. /\ wd \in Seq(Characters) /\ Len(wd) = Len(w) + Len(d)
        /\ \A i \in 1..(Len(w) + Len(d)) : wd[i] = IF i <= Len(w) THEN w[i] ELSE d[i - Len(w)]
    BY <1>3, <1>5, ConcatProperties
  <1> HIDE DEF wd
  <1>10. /\ c \in Seq(Characters) /\ Len(c) = Len(wd) + Len(r)
         /\ \A i \in 1..(Len(wd) + Len(r)) : c[i] = IF i <= Len(wd) THEN wd[i] ELSE r[i - Len(wd)]
    <2>1. wd \in Seq(Characters) /\ r \in Seq(Characters)
      BY <1>6, <1>9
    <2> QED BY ONLY <2>1, ConcatProperties
  <1> HIDE DEF c
  <1>11. ASSUME NEW i \in 1..Len(c), c[i] = "." PROVE i = Len(w) + 1
    <2>1. CASE i <= Len(w)
      <3>1. i \in 1..Len(w) /\ c[i] = w[i]
        BY <1>5, <1>6, <1>7, <1>9, <1>10, <2>1
      <3> QED BY <1>3, <1>11, <3>1
    <2>2. CASE i > Len(w) + 2
      <3>1. i - Len(wd) \in 1..Len(r) /\ c[i] = r[i - Len(wd)]
        BY <1>5, <1>6, <1>7, <1>9, <1>10, <2>2
      <3> QED BY <1>6, <1>11, <3>1
    <2>3. CASE i = Len(w) + 2
      <3>1. i - Len(w) = 2 /\ c[i] = d[2]
        BY <1>5, <1>6, <1>7, <1>9, <1>10, <2>3
      <3> QED BY <1>5, <1>11, <3>1
    <2> QED BY <1>5, <1>6, <1>7, <1>9, <1>10, <2>1, <2>2, <2>3
  <1>12. OnePeriod(c)
    BY <1>11 DEF OnePeriod
  <1> QED BY <1>8, <1>10, <1>12, SignedText

(* The numbers of texts.                                                   *)
DigitCharacters == {c \in Characters : IsDigit(c)}

LEMMA DigitsAtAreDigits ==
    ASSUME NEW t \in Seq(Characters), NEW i \in Nat \ {0}
    PROVE  DigitsAt(t, i) \in Seq(DigitCharacters)
  <1> DEFINE ends == {j \in i..Len(t) : ~IsDigit(t[j])}
             last == IF ends = {} THEN Len(t) ELSE Min(ends) - 1
  <1>1. Len(t) \in Nat
    BY LenProperties
  <1>2. ends \in SUBSET Nat
    BY <1>1
  <1>3. /\ last \in Int /\ last <= Len(t)
        /\ \A j \in i..last : j \in i..Len(t) /\ IsDigit(t[j])
    <2>1. CASE ends = {}
      BY <1>1, <2>1
    <2>2. CASE ends # {}
      <3> HIDE DEF ends
      <3>1. Min(ends) \in ends /\ \A y \in ends : Min(ends) <= y
        BY <1>2, <2>2, MinIsLeast
      <3>2. Min(ends) \in i..Len(t)
        BY <3>1 DEF ends
      <3>3. \A j \in i..(Min(ends) - 1) : j \in i..Len(t) /\ j \notin ends
        BY <1>1, <3>1, <3>2
      <3>4. last = Min(ends) - 1
        BY <2>2
      <3> QED BY <1>1, <3>2, <3>3, <3>4 DEF ends
    <2> QED BY <2>1, <2>2
  <1>4. DigitsAt(t, i) = SubSeq(t, i, last)
    BY DEF DigitsAt
  <1> HIDE DEF last
  <1>5. \A j \in i..last : t[j] \in DigitCharacters
    <2> TAKE j \in i..last
    <2>1. j \in 1..Len(t) /\ IsDigit(t[j])
      BY <1>1, <1>3
    <2> QED BY <2>1, ElementOfSeq DEF DigitCharacters
  <1>6. SubSeq(t, i, last) \in Seq(DigitCharacters)
    BY <1>3, <1>5, SubSeqProperties
  <1> QED BY <1>4, <1>6

(* The number of the first k digits, for every k: the recursive definition *)
(* defines a function, as no number is the least for which it does not,    *)
(* and none is the first for which the value is no number.                 *)
LEMMA NumberIsNat ==
    ASSUME NEW s \in Seq(DigitCharacters)
    PROVE  Number(s) \in Nat
  <1> DEFINE n == Len(s)
             Step(x, k) == 10 * x + DigitValue(s[k])
             Defines(f, m) == f = [k \in 0..m |-> IF k = 0 THEN 0 ELSE Step(f[k - 1], k)]
             undefined == {m \in Nat : ~\E f : Defines(f, m)}
  <1>1. undefined = {}
    <2> SUFFICES ASSUME undefined # {} PROVE FALSE
      OBVIOUS
    <2>1. PICK m \in undefined : \A k \in undefined : m <= k
      <3> undefined \in SUBSET Nat
        OBVIOUS
      <3> HIDE DEF undefined
      <3> QED BY LeastExists
    <2>2. m \in Nat /\ ~\E f : Defines(f, m)
      OBVIOUS
    <2>3. m # 0
      <3> SUFFICES ASSUME m = 0 PROVE FALSE
        OBVIOUS
      <3>1. Defines([k \in 0..0 |-> 0], 0)
        <4> HIDE DEF Step
        <4> QED OBVIOUS
      <3> QED BY <2>2, <3>1
    <2>4. m - 1 \in Nat /\ m - 1 \notin undefined
      <3> HIDE DEF undefined
      <3> QED BY <2>1, <2>2, <2>3
    <2>5. PICK f : Defines(f, m - 1)
      BY <2>4
    <2> DEFINE g == [k \in 0..m |-> IF k = m THEN Step(f[m - 1], m) ELSE f[k]]
    <2>6. Defines(g, m)
      <3> HIDE DEF Step
      <3>1. \A k \in 0 .. m - 1 : f[k] = IF k = 0 THEN 0 ELSE Step(f[k - 1], k)
        BY <2>2, <2>5
      <3>2. ASSUME NEW k \in 0..m PROVE g[k] = IF k = 0 THEN 0 ELSE Step(g[k - 1], k)
        <4>1. CASE k = m
          <5>1. g[k - 1] = f[m - 1] /\ g[k] = Step(f[m - 1], m)
            BY <2>2, <2>3, <4>1
          <5> QED BY <2>3, <4>1, <5>1
        <4>2. CASE k # m
          <5>1. k \in 0 .. m - 1 /\ g[k] = f[k] /\ (k # 0 => g[k - 1] = f[k - 1])
            BY <2>2, <4>2
          <5> QED BY <3>1, <5>1
        <4> QED BY <4>1, <4>2
      <3>3. g = [k \in 0..m |-> g[k]]
        OBVIOUS
      <3> HIDE DEF g
      <3>4. [k \in 0..m |-> g[k]] = [k \in 0..m |-> IF k = 0 THEN 0 ELSE Step(g[k - 1], k)]
        BY <3>2
      <3> QED BY <3>3, <3>4
    <2> QED BY <2>2, <2>6
  <1>2. n \in Nat
    BY LenProperties
  <1> DEFINE first == CHOOSE f : Defines(f, n)
  <1>3. Defines(first, n)
    <2>1. \E f : Defines(f, n)
      BY <1>1, <1>2
    <2> HIDE DEF Defines
    <2> QED BY <2>1
  <1>4. Number(s) = first[n]
    BY DEF Number
  <1>5. /\ first[0] = 0
        /\ \A k \in 1..n : first[k] = Step(first[k - 1], k)
    <2> HIDE DEF first, Step
    <2> QED BY <1>2, <1>3
  <1>6. \A k \in 1..n : DigitValue(s[k]) \in 0..9
    BY ElementOfSeq, DigitHasValue DEF DigitCharacters
  <1> HIDE DEF first
  <1> DEFINE wrong == {k \in 0..n : first[k] \notin Nat}
  <1>7. wrong = {}
    <2> SUFFICES ASSUME wrong # {} PROVE FALSE
      OBVIOUS
    <2>1. PICK k \in wrong : \A j \in wrong : k <= j
      <3> wrong \in SUBSET Nat
        BY <1>2
      <3> HIDE DEF wrong
      <3> QED BY LeastExists
    <2>2. k \in 1..n /\ first[k] \notin Nat
      BY <1>2, <1>5
    <2>3. first[k - 1] \in Nat
      <3>1. k - 1 \in 0..n /\ ~(k <= k - 1)
        BY <1>2, <2>2
      <3> QED BY <2>1, <3>1
    <2>4. first[k] = 10 * first[k - 1] + DigitValue(s[k]) /\ DigitValue(s[k]) \in 0..9
      BY <1>5, <1>6, <2>2
    <2>5. \A x \in Nat, d \in 0..9 : 10 * x + d \in Nat
      OBVIOUS
    <2> QED BY <2>2, <2>3, <2>4, <2>5
  <1> QED BY <1>2, <1>4, <1>7

LEMMA AtoiIsInt == ASSUME NEW t \in Seq(Characters) PROVE atoi(t) \in Int
  <1>1. Number(DigitsAt(t, First(t))) \in Nat
    BY DigitsAtAreDigits, NumberIsNat DEF First
  <1> QED BY <1>1 DEF atoi, Signed

LEMMA AtofIsInt == ASSUME NEW t \in Seq(Characters) PROVE atof(t) \in Int
  <1> DEFINE whole == DigitsAt(t, First(t))
             dot == First(t) + Len(whole)
             part == IF dot <= Len(t) /\ t[dot] = "." THEN DigitsAt(t, dot + 1) ELSE <<>>
             zeros == <<"0", "0">>
             long == part \o zeros
             both == SubSeq(long, 1, 2)
  <1>1. whole \in Seq(DigitCharacters) /\ First(t) \in Nat \ {0}
    BY DigitsAtAreDigits DEF First
  <1> HIDE DEF whole
  <1>2. Number(whole) \in Nat /\ dot + 1 \in Nat \ {0}
    BY <1>1, NumberIsNat, LenProperties
  <1> HIDE DEF dot
  <1>3. part \in Seq(DigitCharacters)
    BY <1>2, DigitsAtAreDigits
  <1> HIDE DEF part
  <1>4. zeros \in Seq(DigitCharacters) /\ Len(zeros) = 2
    <2>1. Digits[1] = "0" /\ Digits[1] \in Characters
      BY DigitsAreCharacters DEF Digits
    <2>2. IsDigit("0")
      BY <2>1, DigitsAreCharacters DEF IsDigit, Contains
    <2> QED BY <2>1, <2>2 DEF DigitCharacters
  <1> HIDE DEF zeros
  <1>5. long \in Seq(DigitCharacters) /\ Len(long) = Len(part) + 2 /\ Len(part) \in Nat
    <2>1. long \in Seq(DigitCharacters) /\ Len(long) = Len(part) + Len(zeros)
      BY <1>3, <1>4, ConcatProperties
    <2> QED BY <1>3, <1>4, <2>1, LenProperties
  <1> HIDE DEF long
  <1>6. both \in Seq(DigitCharacters)
    <2>1. \A i \in 1..2 : long[i] \in DigitCharacters
      BY <1>5, ElementOfSeq
    <2> QED BY <2>1, SubSeqProperties
  <1> HIDE DEF both
  <1>7. Number(both) \in Nat
    BY <1>6, NumberIsNat
  <1>8. atof(t) = Signed(t, 100 * Number(whole) + Number(both))
    BY DEF atof, whole, dot, part, both, long, zeros
  <1> QED BY <1>2, <1>7, <1>8 DEF Signed

-------------------------------------------------------------------------------
(* EditText: the invariant.                                                *)

USE EditAssumption

FieldTexts == Seq(Characters)

EditFields ==
    [data_type : DataTypes, has_limits : {"none", "clamp", "wrap"}, text : FieldTexts,
     int_val : Int, float_val : Int, live : Int \cup FieldTexts, last_live : Int \cup FieldTexts,
     active : BOOLEAN, insertion_pt : Int, last_insertion_pt : Int, sel_start : Int,
     sel_end : Int, substring_start : Int, substring_end : Int, num_periods : Nat]

LiveKind(e) == e.live \in IF e.data_type = "text" THEN FieldTexts ELSE Int

(* The part of the text that is shown is a part of the text and fits in    *)
(* the box; it may be empty just after an insertion point has moved.       *)
Shown(e) ==
    /\ e.substring_start \in Nat /\ e.substring_end \in Nat
    /\ e.substring_start <= e.substring_end + 1
    /\ e.substring_end - e.substring_start < BoxWidth
    /\ e.text # <<>> => e.substring_end < Len(e.text)

(* Where the insertion point is and what is selected, in an active field:  *)
(* sel_start and sel_end may be stale while they are equal.                *)
Pointed(e) ==
    /\ e.insertion_pt # -1 =>
          /\ e.insertion_pt \in 0..Len(e.text)
          /\ e.insertion_pt \in e.substring_start..(e.substring_end + 1)
    /\ e.sel_start \in Nat /\ e.sel_end \in Nat
    /\ e.sel_start # e.sel_end => SelLo(e) <= Len(e.text)

(* An inactive field shows its text from the beginning.                    *)
Idle(e) == e.insertion_pt = -1 /\ e.substring_start = 0

(* A value and its text, and the periods in it.                            *)
ShowsValue(e) ==
    /\ e.last_live = LiveValue(e)
    /\ e.text = CASE e.data_type = "int" -> IntText(e.int_val)
                  [] e.data_type = "float" -> FloatText(e.float_val)
                  [] OTHER -> e.text

Pointing(e) == e.data_type = "float" => OnePeriod(e.text) /\ (e.num_periods = 0 => NoPeriod(e.text))

FieldInv(e) ==
    /\ e \in EditFields /\ LiveKind(e)
    /\ Shown(e) /\ Pointing(e)
    /\ IF e.active THEN Pointed(e) ELSE Idle(e) /\ ShowsValue(e)

EditInv ==
    /\ FieldInv(ed)
    /\ edit_down => ed.active

-------------------------------------------------------------------------------
(* What update_substring_bounds does.                                      *)

LEMMA TextLength == ASSUME NEW t \in FieldTexts
                    PROVE  Len(t) \in Nat /\ DOMAIN t = 1..Len(t) /\ (t # <<>> => Len(t) > 0)
  BY LenProperties, EmptySeq DEF FieldTexts

LEMMA Held ==
    ASSUME NEW v \in Int, NEW lo \in Int, NEW hi \in Int, lo <= hi
    PROVE  Clamp(v, lo, hi) = (IF v < lo THEN lo ELSE IF v > hi THEN hi ELSE v)
           /\ Clamp(v, lo, hi) \in lo..hi
  BY DEF Clamp

(* The bounds may be those of an older text; where there is no insertion   *)
(* point they may also be further apart than the box allows.               *)
AlmostShown(e) ==
    /\ e.substring_start <= e.substring_end + 1
    /\ e.insertion_pt = -1 \/ e.substring_end - e.substring_start <= BoxWidth

OnlyBounds(e, f) ==
    /\ f.data_type = e.data_type /\ f.has_limits = e.has_limits /\ f.text = e.text
    /\ f.int_val = e.int_val /\ f.float_val = e.float_val
    /\ f.live = e.live /\ f.last_live = e.last_live /\ f.active = e.active
    /\ f.insertion_pt = e.insertion_pt /\ f.num_periods = e.num_periods
    /\ f.sel_start = e.sel_start /\ f.sel_end = e.sel_end

(* The arithmetic of the two cases in which the end of what is shown moves. *)
LEMMA EndBefore ==
    ASSUME NEW last \in Nat, NEW start \in 0..last, NEW at \in Int, start <= at,
           at >= 1, at <= last + 1, NEW b1 \in Int, NEW b2 \in Int,
           b1 = (IF start >= at - BoxWidth THEN start ELSE at - BoxWidth),
           b2 = (IF at - 1 <= b1 + BoxWidth - 1 THEN at - 1 ELSE b1 + BoxWidth - 1)
    PROVE  /\ b1 \in Nat /\ b2 \in Nat /\ b1 <= b2 + 1 /\ b2 - b1 < BoxWidth /\ b2 <= last
           /\ at \in b1..(b2 + 1)
  <1>1. b1 \in Nat /\ b1 >= at - BoxWidth /\ b1 <= at
    OBVIOUS
  <1>2. b2 = at - 1
    BY <1>1
  <1> QED BY <1>1, <1>2

LEMMA EndAbove ==
    ASSUME NEW last \in Nat, NEW start \in 0..last, NEW end \in 0..last, start <= end + 1,
           NEW at \in Int, at >= 0, at < start, NEW b2 \in Int,
           b2 = (IF end <= at + BoxWidth - 1 THEN end ELSE at + BoxWidth - 1)
    PROVE  /\ b2 \in Nat /\ at <= b2 + 1 /\ b2 - at < BoxWidth /\ b2 <= last
           /\ at \in at..(b2 + 1)
  <1>1. at <= end
    OBVIOUS
  <1>2. b2 >= at /\ b2 <= end /\ b2 <= at + BoxWidth - 1
    BY <1>1
  <1> QED BY <1>2

LEMMA EndSought ==
    ASSUME NEW last \in Nat, NEW start \in 0..last, NEW end \in 0..last, start <= end + 1,
           NEW fit, fit = (IF end <= start + BoxWidth - 1 THEN end ELSE start + BoxWidth - 1),
           NEW grown,
           grown = end \/ grown = (IF fit < last
                                  THEN IF last <= start + BoxWidth THEN last ELSE start + BoxWidth
                                  ELSE fit)
    PROVE  /\ grown \in Int /\ grown >= start - 1 /\ grown >= 0 /\ grown <= last
           /\ end - start <= BoxWidth => grown >= end
  <1>1. fit \in Int /\ fit <= end /\ fit <= start + BoxWidth - 1 /\ fit <= last
        /\ (fit = end \/ fit = start + BoxWidth - 1)
    OBVIOUS
  <1>2. CASE grown = end
    BY <1>2
  <1>3. CASE grown # end /\ fit < last
    BY <1>1, <1>3
  <1>4. CASE grown # end /\ ~(fit < last)
    BY <1>1, <1>4
  <1> QED BY <1>2, <1>3, <1>4

LEMMA EndGrown ==
    ASSUME NEW last \in Nat, NEW start \in 0..last, NEW grown \in Int, grown >= start - 1,
           grown <= last, NEW b2,
           b2 = (IF grown <= start + BoxWidth - 1 THEN grown ELSE start + BoxWidth - 1),
           start > 0 \/ grown >= 0
    PROVE  /\ b2 \in Nat /\ start <= b2 + 1 /\ b2 - start < BoxWidth /\ b2 <= last
           /\ \A at \in Int : at >= start /\ at <= grown + 1 /\ at <= start + BoxWidth =>
                 at \in start..(b2 + 1)
  <1>1. b2 \in Int /\ b2 <= grown /\ b2 <= start + BoxWidth - 1 /\ b2 >= start - 1
    OBVIOUS
  <1>2. b2 = grown \/ b2 = start + BoxWidth - 1
    OBVIOUS
  <1> QED BY <1>1, <1>2

LEMMA BoundsUpdated ==
    ASSUME NEW e \in EditFields, AlmostShown(e), e.insertion_pt >= -1,
           e.insertion_pt <= Len(e.text)
    PROVE  LET f == update_substring_bounds(e)
           IN  /\ f \in EditFields /\ OnlyBounds(e, f) /\ Shown(f)
               /\ e.insertion_pt # -1 =>
                    e.insertion_pt \in f.substring_start..(f.substring_end + 1)
               /\ e.insertion_pt = -1 /\ e.substring_start = 0 => f.substring_start = 0
  <1> DEFINE last == Max({Len(e.text) - 1, 0})
             start == Clamp(e.substring_start, 0, last)
             end == Clamp(e.substring_end, 0, last)
             at == e.insertion_pt
             Fit(s, n) == Min({n, s + BoxWidth - 1})
             grown == IF e.last_insertion_pt > at THEN end
                      ELSE IF Fit(start, end) < last THEN Min({last, start + BoxWidth})
                           ELSE Fit(start, end)
             bounds == IF at >= 0 /\ at < start THEN <<at, end>>
                       ELSE IF at > end THEN <<Max({start, at - BoxWidth}), at - 1>>
                       ELSE <<start, grown>>
             b1 == bounds[1]
             b2 == Fit(bounds[1], bounds[2])
  <1>1. Len(e.text) \in Nat /\ (e.text # <<>> => Len(e.text) > 0)
    BY TextLength DEF EditFields
  <1>2. /\ e.substring_start \in Int /\ e.substring_end \in Int /\ at \in Int
        /\ e.last_insertion_pt \in Int
    BY DEF EditFields
  <1>3. last = IF Len(e.text) > 0 THEN Len(e.text) - 1 ELSE 0
    BY <1>1, MaxOfTwo
  <1> HIDE DEF last
  <1>4. last \in Nat
    BY <1>1, <1>3
  <1>5. start = (IF e.substring_start < 0 THEN 0 ELSE IF e.substring_start > last THEN last
                 ELSE e.substring_start)
    BY DEF Clamp
  <1>6. end = (IF e.substring_end < 0 THEN 0 ELSE IF e.substring_end > last THEN last
               ELSE e.substring_end)
    BY DEF Clamp
  <1> HIDE DEF start, end
  <1>7. /\ start \in 0..last /\ end \in 0..last /\ start <= end + 1
        /\ at = -1 \/ end - start <= BoxWidth
        /\ e.substring_start = 0 => start = 0
    <2>1. e.substring_start <= e.substring_end + 1
          /\ (at = -1 \/ e.substring_end - e.substring_start <= BoxWidth)
      BY DEF AlmostShown
    <2>2. start \in 0..last /\ end \in 0..last
      BY <1>2, <1>4, <1>5, <1>6
    <2>3. start <= end + 1
      BY ONLY <1>2, <1>4, <1>5, <1>6, <2>1
    <2>4. at = -1 \/ end - start <= BoxWidth
      <3>1. BoxWidth \in Nat
        OBVIOUS
      <3> QED BY ONLY <1>2, <1>4, <1>5, <1>6, <2>1, <3>1
    <2>5. e.substring_start = 0 => start = 0
      BY ONLY <1>4, <1>5
    <2> QED BY <2>2, <2>3, <2>4, <2>5
  <1>8. \A s, n \in Int : Fit(s, n) = IF n <= s + BoxWidth - 1 THEN n ELSE s + BoxWidth - 1
    BY MinOfTwo
  <1> HIDE DEF Fit
  <1>9. Min({last, start + BoxWidth}) = IF last <= start + BoxWidth THEN last ELSE start + BoxWidth
    BY <1>4, <1>7, MinOfTwo
  <1>10. Max({start, at - BoxWidth}) = IF start >= at - BoxWidth THEN start ELSE at - BoxWidth
    <2>1. start \in Int /\ at - BoxWidth \in Int
      BY <1>2, <1>7
    <2> QED BY <2>1, MaxOfTwo
  <1>11. /\ Fit(start, end) = IF end <= start + BoxWidth - 1 THEN end ELSE start + BoxWidth - 1
         /\ grown \in Int /\ grown >= start - 1 /\ grown >= 0 /\ grown <= last
         /\ at \in start..end => grown + 1 >= at
    <2>1. Fit(start, end) = IF end <= start + BoxWidth - 1 THEN end ELSE start + BoxWidth - 1
      BY <1>7, <1>8
    <2>2. grown = end \/ grown = (IF Fit(start, end) < last
                                 THEN IF last <= start + BoxWidth THEN last ELSE start + BoxWidth
                                 ELSE Fit(start, end))
      BY <1>9
    <2> HIDE DEF grown
    <2>3. /\ grown \in Int /\ grown >= start - 1 /\ grown >= 0 /\ grown <= last
          /\ end - start <= BoxWidth => grown >= end
      BY ONLY EditAssumption, <1>4, <1>7, <2>1, <2>2, EndSought
    <2>4. at \in start..end => grown + 1 >= at
      <3> SUFFICES ASSUME at \in start..end PROVE grown + 1 >= at
        OBVIOUS
      <3>1. end - start <= BoxWidth
        BY <1>2, <1>7
      <3> QED BY <1>2, <1>7, <2>3, <3>1
    <2> QED BY <2>1, <2>3, <2>4
  <1> HIDE DEF grown
  <1>12. /\ b1 \in Nat /\ b2 \in Nat /\ b1 <= b2 + 1 /\ b2 - b1 < BoxWidth /\ b2 <= last
         /\ at # -1 => at \in b1..(b2 + 1)
         /\ at = -1 => b1 = start
    <2>1. CASE at >= 0 /\ at < start
      <3>1. b1 = at /\ b2 = Fit(at, end)
        BY <2>1
      <3> HIDE DEF b1, b2
      <3>2. b2 = IF end <= at + BoxWidth - 1 THEN end ELSE at + BoxWidth - 1
        <4>1. at \in Int /\ end \in Int
          BY <1>2, <1>7
        <4> QED BY ONLY <1>8, <3>1, <4>1
      <3>3. b2 \in Int
        BY <1>2, <1>7, <3>2
      <3>4. /\ b2 \in Nat /\ at <= b2 + 1 /\ b2 - at < BoxWidth /\ b2 <= last
            /\ at \in at..(b2 + 1)
        BY ONLY EditAssumption, <1>2, <1>4, <1>7, <2>1, <3>2, <3>3, EndAbove
      <3> QED BY <1>2, <2>1, <3>1, <3>4
    <2>2. CASE ~(at >= 0 /\ at < start) /\ at > end
      <3>1. b1 = Max({start, at - BoxWidth}) /\ b2 = Fit(b1, at - 1)
        BY <2>2
      <3>2. at \in Int /\ at >= 1 /\ at <= last + 1 /\ start <= at
        BY <1>1, <1>2, <1>3, <1>7, <2>2
      <3> HIDE DEF b1, b2
      <3>3. b1 \in Int /\ b2 = IF at - 1 <= b1 + BoxWidth - 1 THEN at - 1 ELSE b1 + BoxWidth - 1
        <4>1. start \in Int /\ at - BoxWidth \in Int /\ at - 1 \in Int
          BY <1>2, <1>7
        <4>2. b1 \in Int
          BY ONLY <1>10, <3>1, <4>1
        <4> QED BY ONLY <1>8, <3>1, <4>1, <4>2
      <3>4. b1 = IF start >= at - BoxWidth THEN start ELSE at - BoxWidth
        BY <1>10, <3>1
      <3>5. start \in 0..last
        BY <1>7
      <3>6. /\ b1 \in Nat /\ b2 \in Nat /\ b1 <= b2 + 1 /\ b2 - b1 < BoxWidth /\ b2 <= last
            /\ at \in b1..(b2 + 1)
        <4>1. b2 \in Int
          BY <3>2, <3>3
        <4>2. b2 = IF at - 1 <= b1 + BoxWidth - 1 THEN at - 1 ELSE b1 + BoxWidth - 1
          BY <3>3
        <4>3. b1 \in Int /\ start <= at /\ at \in Int /\ at >= 1 /\ at <= last + 1
          BY <3>2, <3>3
        <4> HIDE DEF at
        <4> QED BY ONLY <1>4, <3>4, <3>5, <4>1, <4>2, <4>3, EndBefore
      <3> QED BY <3>2, <3>6
    <2>3. CASE ~(at >= 0 /\ at < start) /\ ~(at > end)
      <3>1. b1 = start /\ b2 = Fit(start, grown)
        BY <2>3
      <3> HIDE DEF b1, b2
      <3>2. b2 = IF grown <= start + BoxWidth - 1 THEN grown ELSE start + BoxWidth - 1
        BY <1>7, <1>8, <1>11, <3>1
      <3>3. at = -1 \/ at \in start..end
        BY <1>2, <1>7, <2>3
      <3>4. start > 0 \/ grown >= 0
        BY <1>4, <1>7, <1>11
      <3>5. /\ b2 \in Nat /\ start <= b2 + 1 /\ b2 - start < BoxWidth /\ b2 <= last
            /\ at \in Int /\ at >= start /\ at <= grown + 1 /\ at <= start + BoxWidth =>
                  at \in start..(b2 + 1)
        BY <1>4, <1>7, <1>11, <3>2, <3>4, EndGrown
      <3>6. at # -1 => at >= start /\ at <= grown + 1 /\ at <= start + BoxWidth
        BY <1>7, <1>11, <3>3
      <3> QED BY <1>2, <1>7, <3>1, <3>5, <3>6
    <2> QED BY <2>1, <2>2, <2>3
  <1>13. update_substring_bounds(e) = [e EXCEPT !.substring_start = b1, !.substring_end = b2,
                                                !.last_insertion_pt = at]
    BY DEF update_substring_bounds, last, start, end, Fit, grown
  <1> HIDE DEF b1, b2
  <1> DEFINE f == update_substring_bounds(e)
  <1>14. /\ f \in EditFields /\ OnlyBounds(e, f)
         /\ f.substring_start = b1 /\ f.substring_end = b2
    <2>1. b1 \in Int /\ b2 \in Int
      BY <1>12
    <2>2. f = [e EXCEPT !.substring_start = b1, !.substring_end = b2, !.last_insertion_pt = at]
      BY <1>13
    <2>3. f \in EditFields
      <3>1. e \in EditFields /\ at \in Int
        BY <1>2
      <3> HIDE DEF at, b1, b2
      <3> QED BY ONLY <2>1, <2>2, <3>1 DEF EditFields
    <2>4. f.substring_start = b1 /\ f.substring_end = b2
      BY <2>2 DEF EditFields
    <2>5. OnlyBounds(e, f)
      BY <2>2 DEF EditFields, OnlyBounds
    <2> QED BY <2>3, <2>4, <2>5
  <1> HIDE DEF f
  <1>15. Shown(f)
    BY <1>1, <1>3, <1>12, <1>14 DEF Shown, OnlyBounds
  <1> QED BY <1>7, <1>12, <1>14, <1>15 DEF f

-------------------------------------------------------------------------------
(* What a key or the mouse leaves is shown.                                *)

LEMMA SelBounds ==
    ASSUME NEW e \in EditFields
    PROVE  /\ SelLo(e) = IF e.sel_start <= e.sel_end THEN e.sel_start ELSE e.sel_end
           /\ SelHi(e) = IF e.sel_start >= e.sel_end THEN e.sel_start ELSE e.sel_end
           /\ SelLo(e) \in Int /\ SelHi(e) \in Int /\ SelLo(e) <= SelHi(e)
  <1>1. e.sel_start \in Int /\ e.sel_end \in Int
    BY DEF EditFields
  <1>2. /\ SelLo(e) = IF e.sel_start <= e.sel_end THEN e.sel_start ELSE e.sel_end
        /\ SelHi(e) = IF e.sel_start >= e.sel_end THEN e.sel_start ELSE e.sel_end
    BY <1>1, MinOfTwo, MaxOfTwo DEF SelLo, SelHi
  <1> QED BY <1>1, <1>2

Ready(e) ==
    /\ e \in EditFields /\ LiveKind(e) /\ AlmostShown(e)
    /\ e.active
    /\ e.insertion_pt >= -1 /\ e.insertion_pt <= Len(e.text)
    /\ e.sel_start \in Nat /\ e.sel_end \in Nat
    /\ e.sel_start # e.sel_end => SelLo(e) <= Len(e.text)

LEMMA ActiveIsReady == ASSUME NEW e, FieldInv(e), e.active PROVE Ready(e)
  <1>1. /\ e \in EditFields /\ Len(e.text) \in Nat
        /\ e.substring_start \in Int /\ e.substring_end \in Int /\ e.insertion_pt \in Int
    BY TextLength DEF FieldInv, EditFields
  <1>2. AlmostShown(e)
    BY <1>1 DEF FieldInv, Shown, AlmostShown
  <1>3. e.insertion_pt >= -1 /\ e.insertion_pt <= Len(e.text)
    BY <1>1 DEF FieldInv, Pointed
  <1> QED BY <1>1, <1>2, <1>3 DEF FieldInv, Pointed, Ready

LEMMA UpdatedShows ==
    ASSUME NEW e, Ready(e)
    PROVE  LET f == update_substring_bounds(e)
           IN  /\ f \in EditFields /\ OnlyBounds(e, f) /\ Shown(f) /\ LiveKind(f)
               /\ f.active /\ Pointed(f)
  <1> DEFINE f == update_substring_bounds(e)
  <1>1. /\ f \in EditFields /\ OnlyBounds(e, f) /\ Shown(f)
        /\ e.insertion_pt # -1 => e.insertion_pt \in f.substring_start..(f.substring_end + 1)
    BY BoundsUpdated DEF Ready
  <1> HIDE DEF f
  <1>2. SelLo(f) = SelLo(e)
    BY <1>1 DEF OnlyBounds, SelLo
  <1>3. Len(e.text) \in Nat /\ e.insertion_pt \in Int
    BY TextLength DEF Ready, EditFields
  <1>4. Pointed(f)
    BY <1>1, <1>2, <1>3 DEF Pointed, OnlyBounds, Ready
  <1>5. LiveKind(f) /\ f.active
    BY <1>1 DEF LiveKind, OnlyBounds, Ready
  <1> QED BY <1>1, <1>4, <1>5 DEF f

LEMMA UpdatedInv ==
    ASSUME NEW e, Ready(e), Pointing(e)
    PROVE  FieldInv(update_substring_bounds(e)) /\ update_substring_bounds(e).active
  <1> DEFINE f == update_substring_bounds(e)
  <1>1. /\ f \in EditFields /\ OnlyBounds(e, f) /\ Shown(f) /\ LiveKind(f)
        /\ f.active /\ Pointed(f)
    BY UpdatedShows
  <1> HIDE DEF f
  <1>2. Pointing(f)
    BY <1>1 DEF Pointing, OnlyBounds
  <1> QED BY <1>1, <1>2 DEF FieldInv, f

LEMMA PeriodsAreNat == ASSUME NEW t \in FieldTexts PROVE Periods(t) \in Nat
  <1> DEFINE at == {i \in DOMAIN t : t[i] = "."}
  <1>1. IsFiniteSet(DOMAIN t)
    <2>1. Len(t) \in Int /\ DOMAIN t = 1..Len(t)
      BY TextLength
    <2>2. ASSUME NEW a \in Int, NEW b \in Int PROVE IsFiniteSet(a..b)
      BY FS_Interval
    <2> QED BY <2>1, <2>2
  <1>2. IsFiniteSet(at)
    BY <1>1, FS_Subset
  <1>3. Cardinality(at) \in Nat
    BY <1>2, FS_CardinalityType
  <1> QED BY <1>3 DEF Periods

(* The number is left alone.                                               *)
SameNumber(e, f) ==
    /\ f.data_type = e.data_type /\ f.has_limits = e.has_limits
    /\ f.int_val = e.int_val /\ f.float_val = e.float_val

LEMMA DoneInv ==
    ASSUME NEW e, Ready(e), e.data_type = "float" => OnePeriod(e.text)
    PROVE  FieldInv(Done(e)) /\ Done(e).active /\ SameNumber(e, Done(e))
  <1> DEFINE f == update_substring_bounds(e)
             g == [f EXCEPT !.num_periods = Periods(f.text)]
  <1>1. /\ f \in EditFields /\ OnlyBounds(e, f) /\ Shown(f) /\ LiveKind(f)
        /\ f.active /\ Pointed(f)
    BY UpdatedShows
  <1>2. Done(e) = g
    BY DEF Done
  <1> HIDE DEF f
  <1>3. f.text \in FieldTexts /\ Periods(f.text) \in Nat
    BY <1>1, PeriodsAreNat DEF EditFields
  <1>4. /\ g \in EditFields /\ g.text = f.text /\ g.num_periods = Periods(f.text)
        /\ g.data_type = f.data_type /\ g.live = f.live /\ g.active
        /\ g.insertion_pt = f.insertion_pt /\ g.sel_start = f.sel_start /\ g.sel_end = f.sel_end
        /\ g.substring_start = f.substring_start /\ g.substring_end = f.substring_end
        /\ SameNumber(f, g)
    BY <1>1, <1>3 DEF EditFields, SameNumber
  <1> HIDE DEF g
  <1>5. LiveKind(g) /\ Shown(g) /\ Pointed(g)
    BY <1>1, <1>4 DEF LiveKind, Shown, Pointed, SelLo
  <1>6. Pointing(g)
    <2> SUFFICES ASSUME g.data_type = "float"
                 PROVE  OnePeriod(g.text) /\ (g.num_periods = 0 => NoPeriod(g.text))
      BY DEF Pointing
    <2>1. OnePeriod(f.text)
      BY <1>1, <1>4 DEF OnlyBounds
    <2> QED BY <1>3, <1>4, <2>1, PeriodsCounted DEF FieldTexts
  <1>7. SameNumber(e, g)
    BY <1>1, <1>4 DEF SameNumber, OnlyBounds
  <1> QED BY <1>2, <1>4, <1>5, <1>6, <1>7 DEF FieldInv

-------------------------------------------------------------------------------
(* What the control does with a value.                                     *)

(* The text is that of a value, is shown from the beginning, and there is  *)
(* neither an insertion point nor a selection.                             *)
Reset(e, f) ==
    /\ f \in EditFields /\ LiveKind(f)
    /\ f.data_type = e.data_type /\ f.has_limits = e.has_limits /\ f.active = e.active
    /\ Shown(f) /\ Pointing(f) /\ Idle(f) /\ ShowsValue(f)
    /\ f.sel_start = 0 /\ f.sel_end = 0

LEMMA ResetInv == ASSUME NEW e, NEW f, Reset(e, f) PROVE FieldInv(f)
  <1>1. Pointed(f)
    BY DEF Reset, Pointed, Idle
  <1> QED BY <1>1 DEF Reset, FieldInv

LEMMA SetText ==
    ASSUME NEW e \in EditFields, NEW t \in FieldTexts
    PROVE  LET f == set_text(e, t)
           IN  /\ f \in EditFields /\ LiveKind(f) /\ Shown(f) /\ Idle(f)
               /\ f.data_type = e.data_type /\ f.has_limits = e.has_limits
               /\ f.active = e.active /\ f.num_periods = e.num_periods
               /\ f.int_val = e.int_val /\ f.float_val = e.float_val
               /\ f.text = t /\ f.last_live = LiveValue(f)
               /\ f.sel_start = 0 /\ f.sel_end = 0
  <1> DEFINE a == [e EXCEPT !.text = t, !.substring_start = 0, !.substring_end = Len(t) - 1,
                            !.insertion_pt = -1, !.sel_start = 0, !.sel_end = 0]
             b == update_substring_bounds(a)
             v == LiveValue(b)
             f == [b EXCEPT !.live = v, !.last_live = v]
  <1>1. Len(t) \in Nat
    BY TextLength
  <1>2. /\ a \in EditFields /\ a.text = t /\ a.substring_start = 0
        /\ a.substring_end = Len(t) - 1 /\ a.insertion_pt = -1
        /\ a.sel_start = 0 /\ a.sel_end = 0
        /\ a.data_type = e.data_type /\ a.has_limits = e.has_limits /\ a.active = e.active
        /\ a.num_periods = e.num_periods /\ a.int_val = e.int_val /\ a.float_val = e.float_val
    <2>1. Len(t) - 1 \in Int /\ 0 \in Int /\ -1 \in Int
      BY <1>1
    <2>2. a \in EditFields
      BY <2>1 DEF EditFields
    <2> QED BY <2>2 DEF EditFields
  <1>3. set_text(e, t) = f
    BY DEF set_text, output_live_text
  <1> HIDE DEF a
  <1>4. b \in EditFields /\ OnlyBounds(a, b) /\ Shown(b) /\ b.substring_start = 0
    <2>1. AlmostShown(a) /\ a.insertion_pt >= -1 /\ a.insertion_pt <= Len(a.text)
      BY <1>1, <1>2 DEF AlmostShown
    <2> QED BY <1>2, <2>1, BoundsUpdated
  <1> HIDE DEF b
  <1>5. v \in Int \cup FieldTexts /\ v \in IF b.data_type = "text" THEN FieldTexts ELSE Int
    BY <1>4 DEF LiveValue, EditFields, DataTypes
  <1> HIDE DEF v
  <1>6. /\ f \in EditFields /\ f.live = v /\ f.last_live = v
        /\ f.data_type = b.data_type /\ f.has_limits = b.has_limits /\ f.active = b.active
        /\ f.num_periods = b.num_periods /\ f.int_val = b.int_val /\ f.float_val = b.float_val
        /\ f.text = b.text /\ f.insertion_pt = b.insertion_pt
        /\ f.sel_start = b.sel_start /\ f.sel_end = b.sel_end
        /\ f.substring_start = b.substring_start /\ f.substring_end = b.substring_end
    BY <1>4, <1>5 DEF EditFields
  <1> HIDE DEF f
  <1>7. LiveValue(f) = v
    BY <1>6 DEF LiveValue, v
  <1>8. LiveKind(f) /\ Shown(f) /\ Idle(f)
    BY <1>2, <1>4, <1>5, <1>6 DEF LiveKind, Shown, Idle, OnlyBounds
  <1> QED BY <1>2, <1>3, <1>4, <1>6, <1>7, <1>8 DEF OnlyBounds

LEMMA SetNumericText ==
    ASSUME NEW e \in EditFields, e.data_type # "text"
    PROVE  LET f == set_numeric_text(e)
           IN  Reset(e, f) /\ f.int_val = e.int_val /\ f.float_val = e.float_val
  <1> DEFINE f == set_numeric_text(e)
  <1>1. e.int_val \in Int /\ e.float_val \in Int /\ e.data_type \in {"int", "float"}
    BY DEF EditFields, DataTypes
  <1>2. CASE e.data_type = "float"
    <2> DEFINE d == [e EXCEPT !.num_periods = 1]
    <2>1. f = set_text(d, FloatText(e.float_val))
      BY <1>2 DEF set_numeric_text
    <2>2. /\ d \in EditFields /\ d.data_type = e.data_type /\ d.has_limits = e.has_limits
          /\ d.active = e.active /\ d.int_val = e.int_val /\ d.float_val = e.float_val
          /\ d.num_periods = 1
      BY DEF EditFields
    <2> HIDE DEF d, f
    <2>3. FloatText(e.float_val) \in FieldTexts /\ OnePeriod(FloatText(e.float_val))
      BY <1>1, FloatTextIsText DEF FieldTexts
    <2>4. /\ f \in EditFields /\ LiveKind(f) /\ Shown(f) /\ Idle(f)
          /\ f.data_type = d.data_type /\ f.has_limits = d.has_limits
          /\ f.active = d.active /\ f.num_periods = d.num_periods
          /\ f.int_val = d.int_val /\ f.float_val = d.float_val
          /\ f.text = FloatText(e.float_val) /\ f.last_live = LiveValue(f)
          /\ f.sel_start = 0 /\ f.sel_end = 0
      BY <2>1, <2>2, <2>3, SetText
    <2>5. Pointing(f) /\ ShowsValue(f)
      BY <1>2, <2>2, <2>3, <2>4 DEF Pointing, ShowsValue
    <2>6. Reset(e, f)
      BY <2>2, <2>4, <2>5 DEF Reset
    <2> QED BY <2>2, <2>4, <2>6 DEF f
  <1>3. CASE e.data_type = "int"
    <2>1. f = set_text(e, IntText(e.int_val))
      BY <1>3 DEF set_numeric_text
    <2> HIDE DEF f
    <2>2. IntText(e.int_val) \in FieldTexts
      BY <1>1, IntTextIsText DEF FieldTexts
    <2>3. /\ f \in EditFields /\ LiveKind(f) /\ Shown(f) /\ Idle(f)
          /\ f.data_type = e.data_type /\ f.has_limits = e.has_limits
          /\ f.active = e.active /\ f.num_periods = e.num_periods
          /\ f.int_val = e.int_val /\ f.float_val = e.float_val
          /\ f.text = IntText(e.int_val) /\ f.last_live = LiveValue(f)
          /\ f.sel_start = 0 /\ f.sel_end = 0
      BY <2>1, <2>2, SetText
    <2>4. Pointing(f) /\ ShowsValue(f)
      BY <1>3, <2>3 DEF Pointing, ShowsValue
    <2>5. Reset(e, f)
      BY <2>3, <2>4 DEF Reset
    <2> QED BY <2>3, <2>5 DEF f
  <1> QED BY <1>1, <1>2, <1>3

LEMMA LimitedIsInt ==
    ASSUME NEW e, NEW v \in Int, NEW lo \in Int, NEW hi \in Int, lo <= hi
    PROVE  /\ Limited(e, v, lo, hi) \in Int
           /\ e.has_limits = "clamp" => Limited(e, v, lo, hi) \in lo..hi
  BY DEF Limited, Clamp, Wrap

LEMMA TruncateIsInt ==
    ASSUME NEW v \in Int
    PROVE  /\ Truncate(v) \in Int
           /\ \A lo, hi \in Int : v \in 100 * lo .. 100 * hi => Truncate(v) \in lo..hi
           /\ \A n \in Int : v = 100 * n => Truncate(v) = n
  BY DEF Truncate, Abs

(* The number and the number in hundredths.                                *)
InStep(e) == e.int_val = Truncate(e.float_val)
WithinLimits(e) == e.int_val \in Low..High

LEMMA SetFloatVal ==
    ASSUME NEW e \in EditFields, e.data_type # "text", NEW v \in Int
    PROVE  LET f == set_float_val(e, v)
           IN  Reset(e, f) /\ InStep(f) /\ (e.has_limits = "clamp" => WithinLimits(f))
  <1> DEFINE new == Limited(e, v, 100 * Low, 100 * High)
             d == [e EXCEPT !.float_val = new, !.int_val = Truncate(new)]
             f == set_numeric_text(d)
  <1>1. new \in Int /\ (e.has_limits = "clamp" => new \in 100 * Low .. 100 * High)
    <2>1. 100 * Low \in Int /\ 100 * High \in Int /\ 100 * Low <= 100 * High
      OBVIOUS
    <2> QED BY <2>1, LimitedIsInt
  <1>2. set_float_val(e, v) = f
    BY DEF set_float_val
  <1> HIDE DEF new
  <1>3. Truncate(new) \in Int /\ (e.has_limits = "clamp" => Truncate(new) \in Low..High)
    BY <1>1, TruncateIsInt
  <1>4. /\ d \in EditFields /\ d.data_type = e.data_type /\ d.has_limits = e.has_limits
        /\ d.active = e.active /\ d.float_val = new /\ d.int_val = Truncate(new)
    BY <1>1, <1>3 DEF EditFields
  <1> HIDE DEF d
  <1>5. Reset(d, f) /\ f.int_val = d.int_val /\ f.float_val = d.float_val
    BY <1>4, SetNumericText
  <1> HIDE DEF f
  <1>6. Reset(e, f)
    BY <1>4, <1>5 DEF Reset
  <1> QED BY <1>2, <1>3, <1>4, <1>5, <1>6 DEF InStep, WithinLimits

LEMMA SetIntVal ==
    ASSUME NEW e \in EditFields, e.data_type # "text", NEW n \in Int
    PROVE  LET f == edit_set_int_val(e, n)
           IN  Reset(e, f) /\ InStep(f) /\ (e.has_limits = "clamp" => WithinLimits(f))
  <1> DEFINE new == Limited(e, n, Low, High)
             d == [e EXCEPT !.int_val = new, !.float_val = 100 * new]
             f == set_numeric_text(d)
  <1>1. new \in Int /\ (e.has_limits = "clamp" => new \in Low..High)
    BY LimitedIsInt
  <1>2. edit_set_int_val(e, n) = f
    BY DEF edit_set_int_val
  <1> HIDE DEF new
  <1>3. 100 * new \in Int /\ Truncate(100 * new) = new
    BY <1>1, TruncateIsInt
  <1>4. /\ d \in EditFields /\ d.data_type = e.data_type /\ d.has_limits = e.has_limits
        /\ d.active = e.active /\ d.float_val = 100 * new /\ d.int_val = new
    BY <1>1, <1>3 DEF EditFields
  <1> HIDE DEF d
  <1>5. Reset(d, f) /\ f.int_val = d.int_val /\ f.float_val = d.float_val
    BY <1>4, SetNumericText
  <1> HIDE DEF f
  <1>6. Reset(e, f)
    BY <1>4, <1>5 DEF Reset
  <1> QED BY <1>1, <1>2, <1>3, <1>4, <1>5, <1>6 DEF InStep, WithinLimits

(* A value that comes from outside.                                        *)
LEMMA SetLive ==
    ASSUME NEW e \in EditFields, NEW v, v \in IF e.data_type = "text" THEN FieldTexts ELSE Int
    PROVE  LET f == SetLiveValue(e, v)
           IN  /\ Reset(e, f)
               /\ e.data_type # "text" => InStep(f)
               /\ e.data_type # "text" /\ e.has_limits = "clamp" => WithinLimits(f)
  <1> DEFINE f == SetLiveValue(e, v)
  <1>1. e.data_type \in {"int", "float", "text"}
    BY DEF EditFields, DataTypes
  <1>2. CASE e.data_type = "int"
    <2>1. f = edit_set_int_val(e, v)
      BY <1>2 DEF SetLiveValue
    <2> QED BY <1>2, <2>1, SetIntVal
  <1>3. CASE e.data_type = "float"
    <2>1. f = set_float_val(e, v)
      BY <1>3 DEF SetLiveValue
    <2> QED BY <1>3, <2>1, SetFloatVal
  <1>4. CASE e.data_type = "text"
    <2>1. f = set_text(e, v)
      BY <1>4 DEF SetLiveValue
    <2> HIDE DEF f
    <2>2. /\ f \in EditFields /\ LiveKind(f) /\ Shown(f) /\ Idle(f)
          /\ f.data_type = e.data_type /\ f.has_limits = e.has_limits /\ f.active = e.active
          /\ f.last_live = LiveValue(f) /\ f.sel_start = 0 /\ f.sel_end = 0
      BY <1>4, <2>1, SetText
    <2>3. Pointing(f) /\ ShowsValue(f)
      BY <1>4, <2>2 DEF Pointing, ShowsValue
    <2>4. Reset(e, f)
      BY <2>2, <2>3 DEF Reset
    <2> QED BY <1>4, <2>4 DEF f
  <1> QED BY <1>1, <1>2, <1>3, <1>4

LEMMA SetLimits ==
    ASSUME NEW e \in EditFields, FieldInv(e), ~e.active, e.data_type # "text" => InStep(e),
           NEW type \in {"none", "clamp", "wrap"}
    PROVE  LET f == set_limits(e, type)
           IN  /\ FieldInv(f) /\ ~f.active
               /\ f.data_type = e.data_type /\ f.has_limits = type
               /\ e.data_type # "text" => InStep(f) /\ (type = "clamp" => WithinLimits(f))
  <1> DEFINE new == [e EXCEPT !.has_limits = type]
             f == set_limits(e, type)
  <1>1. /\ new \in EditFields /\ new.data_type = e.data_type /\ new.has_limits = type
        /\ new.active = e.active /\ new.text = e.text /\ new.int_val = e.int_val
        /\ new.float_val = e.float_val /\ new.live = e.live /\ new.last_live = e.last_live
        /\ new.insertion_pt = e.insertion_pt /\ new.num_periods = e.num_periods
        /\ new.substring_start = e.substring_start /\ new.substring_end = e.substring_end
    BY DEF EditFields
  <1>2. e.data_type \in {"int", "float", "text"}
    BY DEF EditFields, DataTypes
  <1>3. CASE e.data_type = "int" /\ e.int_val \notin Low..High
    <2>1. f = edit_set_int_val(new, Low)
      BY <1>3 DEF set_limits
    <2> HIDE DEF new, f
    <2>2. Reset(new, f) /\ InStep(f) /\ (new.has_limits = "clamp" => WithinLimits(f))
      BY <1>1, <1>3, <2>1, SetIntVal
    <2>3. FieldInv(f)
      BY <2>2, ResetInv
    <2> QED BY <1>1, <2>2, <2>3 DEF Reset, f
  <1>4. CASE e.data_type = "float" /\ e.float_val \notin 100 * Low .. 100 * High
    <2>1. f = set_float_val(new, 100 * Low)
      BY <1>4 DEF set_limits
    <2> HIDE DEF new, f
    <2>2. Reset(new, f) /\ InStep(f) /\ (new.has_limits = "clamp" => WithinLimits(f))
      <3>1. 100 * Low \in Int
        OBVIOUS
      <3> QED BY <1>1, <1>4, <2>1, <3>1, SetFloatVal
    <2>3. FieldInv(f)
      BY <2>2, ResetInv
    <2> QED BY <1>1, <2>2, <2>3 DEF Reset, f
  <1>5. CASE /\ ~(e.data_type = "int" /\ e.int_val \notin Low..High)
             /\ ~(e.data_type = "float" /\ e.float_val \notin 100 * Low .. 100 * High)
    <2>1. f = new
      BY <1>5 DEF set_limits
    <2> HIDE DEF new, f
    <2>2. FieldInv(new)
      <3>1. LiveValue(new) = LiveValue(e)
        BY <1>1 DEF LiveValue
      <3>2. ShowsValue(new)
        BY <1>1, <3>1 DEF ShowsValue, FieldInv
      <3> QED BY <1>1, <3>2 DEF FieldInv, LiveKind, Shown, Pointing, Idle
    <2>3. e.data_type # "text" => InStep(new) /\ WithinLimits(new)
      <3>1. e.data_type = "float" => Truncate(e.float_val) \in Low..High
        BY <1>5, TruncateIsInt DEF EditFields
      <3> QED BY <1>1, <1>2, <1>5, <3>1 DEF InStep, WithinLimits
    <2> QED BY <1>1, <2>1, <2>2, <2>3 DEF f
  <1> QED BY <1>3, <1>4, <1>5

LEMMA NewFieldInv ==
    ASSUME NEW type \in DataTypes, NEW limits \in {"none", "clamp", "wrap"}
    PROVE  LET f == NewField(type, limits)
           IN  /\ FieldInv(f) /\ ~f.active /\ f.data_type = type /\ f.has_limits = limits
               /\ type # "text" => InStep(f) /\ (limits = "clamp" => WithinLimits(f))
  <1> DEFINE zero == IF type = "text" THEN <<>> ELSE 0
             new == [data_type |-> type, has_limits |-> "none", text |-> <<>>, int_val |-> 0,
                     float_val |-> 0, live |-> zero, last_live |-> zero, active |-> FALSE,
                     insertion_pt |-> -1, last_insertion_pt |-> -1, sel_start |-> 0, sel_end |-> 0,
                     substring_start |-> 0, substring_end |-> 2, num_periods |-> 0]
             e == SetLiveValue(new, zero)
  <1>1. NewField(type, limits) = set_limits(e, limits)
    BY DEF NewField
  <1>2. zero \in IF type = "text" THEN FieldTexts ELSE Int
    <2>1. <<>> \in FieldTexts
      BY EmptySeq DEF FieldTexts
    <2> QED BY <2>1
  <1> HIDE DEF zero
  <1>3. new \in EditFields /\ new.data_type = type /\ new.active = FALSE
    BY <1>2, EmptySeq DEF EditFields, FieldTexts
  <1> HIDE DEF new
  <1>4. Reset(new, e) /\ (type # "text" => InStep(e))
    BY <1>2, <1>3, SetLive
  <1> HIDE DEF e
  <1>5. /\ e \in EditFields /\ FieldInv(e) /\ ~e.active /\ e.data_type = type
    BY <1>3, <1>4, ResetInv DEF Reset
  <1> QED BY <1>1, <1>4, <1>5, SetLimits

(* Leaving the field.                                                      *)
LEMMA TakenInv ==
    ASSUME NEW e, FieldInv(e)
    PROVE  LET f == Taken(e)
           IN  /\ FieldInv(f) /\ ~f.active
               /\ f.data_type = e.data_type /\ f.has_limits = e.has_limits
               /\ e.data_type # "text" => InStep(f) /\ (e.has_limits = "clamp" => WithinLimits(f))
  <1> DEFINE off == [e EXCEPT !.active = FALSE, !.sel_start = -1, !.sel_end = -1,
                              !.insertion_pt = -1]
             v == CASE e.data_type = "int" -> atoi(e.text)
                    [] e.data_type = "float" -> atof(e.text)
                    [] OTHER -> e.text
             new == SetLiveValue(off, v)
             f == update_substring_bounds(new)
  <1>1. e \in EditFields /\ e.text \in FieldTexts /\ e.data_type \in {"int", "float", "text"}
    BY DEF FieldInv, EditFields, DataTypes
  <1>2. /\ off \in EditFields /\ off.data_type = e.data_type /\ off.has_limits = e.has_limits
        /\ off.active = FALSE /\ off.text = e.text
    <2>1. -1 \in Int /\ FALSE \in BOOLEAN
      OBVIOUS
    <2>2. off \in EditFields
      BY <1>1, <2>1 DEF EditFields
    <2> QED BY <1>1, <2>2 DEF EditFields
  <1>3. v \in IF e.data_type = "text" THEN FieldTexts ELSE Int
    BY <1>1, AtoiIsInt, AtofIsInt DEF FieldTexts
  <1>4. Taken(e) = f
    <2>1. new = CASE e.data_type = "float" -> set_float_val(off, atof(e.text))
                  [] e.data_type = "int" -> edit_set_int_val(off, atoi(e.text))
                  [] OTHER -> set_text(off, e.text)
      BY <1>1, <1>2 DEF SetLiveValue
    <2> QED BY <2>1 DEF Taken
  <1> HIDE DEF off, v
  <1>5. /\ Reset(off, new)
        /\ e.data_type # "text" => InStep(new) /\ (e.has_limits = "clamp" => WithinLimits(new))
    BY <1>2, <1>3, SetLive
  <1> HIDE DEF new
  <1>6. f \in EditFields /\ OnlyBounds(new, f) /\ Shown(f) /\ f.substring_start = 0
    <2>1. new \in EditFields /\ new.insertion_pt = -1 /\ new.substring_start = 0
      BY <1>5 DEF Reset, Idle
    <2>2. new.substring_end \in Nat /\ Len(new.text) \in Nat
      BY <1>5, <2>1, TextLength DEF Reset, Shown, EditFields
    <2>3. AlmostShown(new) /\ new.insertion_pt >= -1 /\ new.insertion_pt <= Len(new.text)
      BY <2>1, <2>2 DEF AlmostShown
    <2> QED BY <2>1, <2>3, BoundsUpdated
  <1> HIDE DEF f
  <1>7. FieldInv(f) /\ ~f.active
    <2>1. LiveValue(f) = LiveValue(new)
      BY <1>6 DEF LiveValue, OnlyBounds
    <2>2. LiveKind(f) /\ Pointing(f) /\ Idle(f) /\ ~f.active
      BY <1>2, <1>5, <1>6 DEF Reset, LiveKind, Pointing, Idle, OnlyBounds
    <2>3. ShowsValue(f)
      BY <1>5, <1>6, <2>1 DEF Reset, ShowsValue, OnlyBounds
    <2> QED BY <1>6, <2>2, <2>3 DEF FieldInv
  <1>8. /\ f.data_type = e.data_type /\ f.has_limits = e.has_limits
        /\ f.int_val = new.int_val /\ f.float_val = new.float_val
    BY <1>2, <1>5, <1>6 DEF Reset, OnlyBounds
  <1> QED BY <1>4, <1>5, <1>7, <1>8 DEF InStep, WithinLimits

(* Being entered by Tab or RETURN.                                         *)
LEMMA EnteredInv ==
    ASSUME NEW e, FieldInv(e), ~e.active
    PROVE  LET f == [e EXCEPT !.active = TRUE, !.sel_start = 0, !.sel_end = Len(e.text),
                              !.insertion_pt = 0]
           IN  FieldInv(f) /\ f.active
  <1> DEFINE f == [e EXCEPT !.active = TRUE, !.sel_start = 0, !.sel_end = Len(e.text),
                            !.insertion_pt = 0]
  <1>1. e \in EditFields /\ Len(e.text) \in Nat
    BY TextLength DEF FieldInv, EditFields
  <1>2. /\ f \in EditFields /\ f.data_type = e.data_type /\ f.text = e.text /\ f.live = e.live
        /\ f.active = TRUE /\ f.num_periods = e.num_periods
        /\ f.sel_start = 0 /\ f.sel_end = Len(e.text) /\ f.insertion_pt = 0
        /\ f.substring_start = e.substring_start /\ f.substring_end = e.substring_end
    <2>1. Len(e.text) \in Int /\ 0 \in Int /\ TRUE \in BOOLEAN
      BY <1>1
    <2>2. f \in EditFields
      BY <1>1, <2>1 DEF EditFields
    <2> QED BY <1>1, <2>2 DEF EditFields
  <1> HIDE DEF f
  <1>3. LiveKind(f) /\ Shown(f) /\ Pointing(f)
    BY <1>2 DEF FieldInv, LiveKind, Shown, Pointing
  <1>4. f.substring_start = 0 /\ f.substring_end \in Nat
    BY <1>2, <1>3 DEF FieldInv, Idle, Shown
  <1>5. SelLo(f) = 0
    BY <1>1, <1>2, SelBounds
  <1>6. Pointed(f)
    BY <1>1, <1>2, <1>4, <1>5 DEF Pointed
  <1> QED BY <1>2, <1>3, <1>6 DEF FieldInv, f

-------------------------------------------------------------------------------
(* The keys and the mouse.                                                 *)

LEMMA WordBreak ==
    ASSUME NEW t \in FieldTexts, NEW start \in Int
    PROVE  /\ find_word_break(t, start, -1) \in Int
           /\ find_word_break(t, start, 1) \in Int
           /\ start \in 0..Len(t) => find_word_break(t, start, 1) \in start..Len(t)
  <1>1. Len(t) \in Nat
    BY TextLength
  <1>2. find_word_break(t, start, -1) \in Int
    <2> DEFINE breaks == {i \in 0..(start - 2) : t[i + 1] \in Breaks}
    <2>1. find_word_break(t, start, -1) = (IF breaks = {} THEN 0 ELSE Max(breaks) + 1)
      BY DEF find_word_break
    <2>2. CASE breaks # {}
      <3>1. start - 2 \in Nat /\ breaks \in SUBSET (0..(start - 2))
        BY <2>2
      <3> HIDE DEF breaks
      <3>2. Max(breaks) \in 0..(start - 2)
        BY <2>2, <3>1, MaxIsGreatest
      <3> QED BY <2>1, <2>2, <3>2
    <2>3. CASE breaks = {}
      BY <2>1, <2>3
    <2> QED BY <2>2, <2>3
  <1>3. /\ find_word_break(t, start, 1) \in Int
        /\ start \in 0..Len(t) => find_word_break(t, start, 1) \in start..Len(t)
    <2> DEFINE from == IF start < 0 THEN {} ELSE start..(Len(t) - 1)
               breaks == {i \in from : t[i + 1] \in Breaks}
    <2>1. find_word_break(t, start, 1) = (IF breaks = {} THEN Len(t) ELSE Min(breaks) + 1)
      BY DEF find_word_break
    <2>2. CASE breaks # {}
      <3>1. breaks \in SUBSET Nat /\ breaks \subseteq start..(Len(t) - 1)
        BY <1>1
      <3> HIDE DEF breaks
      <3>2. Min(breaks) \in start..(Len(t) - 1)
        BY <2>2, <3>1, MinIsLeast
      <3> QED BY <1>1, <2>1, <2>2, <3>2
    <2>3. CASE breaks = {}
      BY <1>1, <2>1, <2>3
    <2> QED BY <2>2, <2>3
  <1> QED BY <1>2, <1>3

LEMMA SpecialHandlerInv ==
    ASSUME NEW e, FieldInv(e), e.active,
           NEW key \in {"left", "right", "home", "end"}, NEW shift \in BOOLEAN, NEW ctrl \in BOOLEAN
    PROVE  LET f == special_handler(e, key, shift, ctrl) IN FieldInv(f) /\ f.active
  <1> DEFINE p == CASE key = "left" -> IF ctrl THEN find_word_break(e.text, e.insertion_pt, -1)
                                       ELSE e.insertion_pt - 1
                    [] key = "right" -> IF ctrl THEN find_word_break(e.text, e.insertion_pt, 1)
                                        ELSE e.insertion_pt + 1
                    [] key = "home" -> 0
                    [] key = "end" -> Len(e.text)
                    [] OTHER -> e.insertion_pt
             In(q) == Clamp(q, 0, Len(e.text))
             to == In(p)
             from == In(IF shift THEN e.sel_start ELSE p)
             g == [e EXCEPT !.insertion_pt = to, !.sel_end = to, !.sel_start = from]
  <1>1. /\ e \in EditFields /\ e.text \in FieldTexts /\ Len(e.text) \in Nat
        /\ e.insertion_pt \in Int /\ e.sel_start \in Int
    BY TextLength DEF FieldInv, EditFields
  <1>2. p \in Int
    <2>1. /\ find_word_break(e.text, e.insertion_pt, -1) \in Int
          /\ find_word_break(e.text, e.insertion_pt, 1) \in Int
      BY <1>1, WordBreak
    <2>2. /\ e.insertion_pt - 1 \in Int /\ e.insertion_pt + 1 \in Int /\ 0 \in Int
          /\ Len(e.text) \in Int /\ e.insertion_pt \in Int
      BY <1>1
    <2> QED BY <2>1, <2>2
  <1> HIDE DEF p
  <1>3. \A q \in Int : In(q) \in 0..Len(e.text)
    BY <1>1 DEF Clamp
  <1>4. special_handler(e, key, shift, ctrl) = update_substring_bounds(g)
    BY <1>1 DEF special_handler, p, EditFields
  <1> HIDE DEF In
  <1>5. to \in 0..Len(e.text) /\ from \in 0..Len(e.text)
    BY <1>1, <1>2, <1>3
  <1> HIDE DEF to, from
  <1>6. /\ g \in EditFields /\ g.text = e.text /\ g.data_type = e.data_type /\ g.live = e.live
        /\ g.active = e.active /\ g.num_periods = e.num_periods
        /\ g.substring_start = e.substring_start /\ g.substring_end = e.substring_end
        /\ g.insertion_pt = to /\ g.sel_end = to /\ g.sel_start = from
    <2>1. to \in Int /\ from \in Int
      BY <1>1, <1>5
    <2>2. g \in EditFields
      BY <1>1, <2>1 DEF EditFields
    <2> QED BY <1>1, <2>2 DEF EditFields
  <1> HIDE DEF g
  <1>7. AlmostShown(g)
    BY <1>6 DEF FieldInv, Shown, AlmostShown
  <1>8. LiveKind(g) /\ Pointing(g)
    BY <1>6 DEF FieldInv, LiveKind, Pointing
  <1>9. SelLo(g) <= Len(g.text)
    BY <1>1, <1>5, <1>6, SelBounds
  <1>10. Ready(g)
    BY <1>1, <1>5, <1>6, <1>7, <1>8, <1>9 DEF Ready
  <1> QED BY <1>4, <1>8, <1>10, UpdatedInv

(* Where the mouse finds an insertion point.                               *)
LEMMA InsertionPoints ==
    ASSUME NEW e, FieldInv(e), NEW p \in insertion_pts(e)
    PROVE  p \in 0..Len(e.text)
  <1>1. /\ Len(e.text) \in Nat /\ e.substring_start \in Nat /\ e.substring_end \in Nat
        /\ e.text # <<>> => e.substring_end < Len(e.text)
    BY TextLength DEF FieldInv, EditFields, Shown
  <1> QED BY <1>1 DEF insertion_pts

LEMMA PressedInv ==
    ASSUME NEW e, FieldInv(e), NEW p \in insertion_pts(e)
    PROVE  LET f == update_substring_bounds(Place([e EXCEPT !.active = TRUE], p))
           IN  FieldInv(f) /\ f.active
  <1> DEFINE g == Place([e EXCEPT !.active = TRUE], p)
  <1>1. e \in EditFields /\ Len(e.text) \in Nat /\ p \in 0..Len(e.text)
    BY TextLength, InsertionPoints DEF FieldInv, EditFields
  <1>2. /\ g \in EditFields /\ g.text = e.text /\ g.data_type = e.data_type /\ g.live = e.live
        /\ g.active = TRUE /\ g.num_periods = e.num_periods
        /\ g.substring_start = e.substring_start /\ g.substring_end = e.substring_end
        /\ g.insertion_pt = p /\ g.sel_end = p /\ g.sel_start = p
    <2>1. p \in Int /\ TRUE \in BOOLEAN
      BY <1>1
    <2>2. g \in EditFields
      BY <1>1, <2>1 DEF EditFields, Place
    <2> QED BY <1>1, <2>2 DEF EditFields, Place
  <1> HIDE DEF g
  <1>3. AlmostShown(g)
    BY <1>2 DEF FieldInv, Shown, AlmostShown
  <1>4. LiveKind(g) /\ Pointing(g)
    BY <1>2 DEF FieldInv, LiveKind, Pointing
  <1>5. Ready(g)
    BY <1>1, <1>2, <1>3, <1>4 DEF Ready
  <1> QED BY <1>4, <1>5, UpdatedInv DEF g

LEMMA HeldAtInv ==
    ASSUME NEW e, FieldInv(e), e.active, NEW p \in insertion_pts(e)
    PROVE  FieldInv(HeldAt(e, p)) /\ HeldAt(e, p).active
  <1> DEFINE g == [e EXCEPT !.sel_end = p, !.insertion_pt = p]
  <1>1. e \in EditFields /\ Len(e.text) \in Nat /\ p \in 0..Len(e.text)
    BY TextLength, InsertionPoints DEF FieldInv, EditFields
  <1>2. \/ HeldAt(e, p) = special_handler(e, "right", TRUE, FALSE)
        \/ HeldAt(e, p) = e
        \/ HeldAt(e, p) = update_substring_bounds(g)
    BY DEF HeldAt
  <1>3. FieldInv(update_substring_bounds(g)) /\ update_substring_bounds(g).active
    <2>1. /\ g \in EditFields /\ g.text = e.text /\ g.data_type = e.data_type /\ g.live = e.live
          /\ g.active = e.active /\ g.num_periods = e.num_periods
          /\ g.substring_start = e.substring_start /\ g.substring_end = e.substring_end
          /\ g.insertion_pt = p /\ g.sel_end = p /\ g.sel_start = e.sel_start
      <3>1. p \in Int
        BY <1>1
      <3>2. g \in EditFields
        BY <1>1, <3>1 DEF EditFields
      <3> QED BY <1>1, <3>2 DEF EditFields
    <2> HIDE DEF g
    <2>2. AlmostShown(g)
      BY <2>1 DEF FieldInv, Shown, AlmostShown
    <2>3. LiveKind(g) /\ Pointing(g)
      BY <2>1 DEF FieldInv, LiveKind, Pointing
    <2>4. e.sel_start \in Nat
      BY DEF FieldInv, Pointed
    <2>5. SelLo(g) <= Len(g.text)
      BY <1>1, <2>1, <2>4, SelBounds
    <2>6. Ready(g)
      BY <1>1, <2>1, <2>2, <2>3, <2>4, <2>5 DEF Ready
    <2> QED BY <2>3, <2>6, UpdatedInv
  <1>4. FieldInv(special_handler(e, "right", TRUE, FALSE))
        /\ special_handler(e, "right", TRUE, FALSE).active
    BY SpecialHandlerInv
  <1> QED BY <1>2, <1>3, <1>4

-------------------------------------------------------------------------------
(* Cutting and typing.                                                     *)

(* A field whose text was changed from a, so that the new text is t and    *)
(* the insertion point at p.                                               *)
Changed(e, f, t, p) ==
    /\ f \in EditFields /\ f.data_type = e.data_type /\ f.has_limits = e.has_limits
    /\ f.live = e.live /\ f.active = e.active
    /\ f.int_val = e.int_val /\ f.float_val = e.float_val
    /\ f.num_periods = e.num_periods
    /\ f.substring_start = e.substring_start /\ f.substring_end = e.substring_end
    /\ f.text = t /\ f.insertion_pt = p

LEMMA ChangedIsReady ==
    ASSUME NEW e, FieldInv(e), e.active, NEW f, NEW t \in FieldTexts, NEW p \in Int,
           Changed(e, f, t, p), p >= -1, p <= Len(t),
           f.sel_start \in Nat, f.sel_end \in Nat,
           f.sel_start # f.sel_end => SelLo(f) <= Len(t)
    PROVE  Ready(f)
  <1>1. AlmostShown(f)
    BY DEF FieldInv, Shown, AlmostShown, Changed
  <1>2. LiveKind(f)
    BY DEF FieldInv, LiveKind, Changed
  <1> QED BY <1>1, <1>2 DEF Ready, Changed

LEMMA ClearSelection ==
    ASSUME NEW e \in EditFields, SelLo(e) \in 0..Len(e.text)
    PROVE  LET f == clear_selection(e)
               t == Erase(e.text, SelLo(e), SelHi(e))
           IN  /\ t \in FieldTexts /\ SelLo(e) <= Len(t)
               /\ Changed(e, f, t, SelLo(e))
               /\ f.sel_start = SelLo(e) /\ f.sel_end = SelLo(e)
               /\ OnePeriod(e.text) => OnePeriod(t)
               /\ NoPeriod(e.text) => NoPeriod(t)
               /\ OnePeriod(e.text) /\ (\E i \in (SelLo(e) + 1)..SelHi(e) :
                                           i <= Len(e.text) /\ e.text[i] = ".") => NoPeriod(t)
  <1> DEFINE lo == SelLo(e)
             hi == SelHi(e)
             t == Erase(e.text, lo, hi)
             f == clear_selection(e)
  <1>1. lo \in Int /\ hi \in Int /\ lo <= hi
    BY SelBounds
  <1>2. e.text \in Seq(Characters) /\ Len(e.text) \in Nat
    BY TextLength DEF EditFields, FieldTexts
  <1> HIDE DEF hi
  <1>3. t \in Seq(Characters) /\ Len(t) = lo + IF hi < Len(e.text) THEN Len(e.text) - hi ELSE 0
    <2> HIDE DEF lo
    <2> QED BY <1>1, <1>2, EraseText DEF lo
  <1>4. lo <= Len(t)
    BY <1>1, <1>2, <1>3
  <1>5. /\ OnePeriod(e.text) => OnePeriod(t)
        /\ OnePeriod(e.text)
           /\ (\E i \in (lo + 1)..hi : i <= Len(e.text) /\ e.text[i] = ".") => NoPeriod(t)
    <2> HIDE DEF lo
    <2> QED BY <1>1, <1>2, EraseKeepsOnePeriod DEF lo
  <1>6. NoPeriod(e.text) => NoPeriod(t)
    <2>1. NoPeriod(e.text) => OnePeriod(e.text)
      BY DEF NoPeriod, OnePeriod
    <2> HIDE DEF lo
    <2> QED BY <1>1, <1>2, <2>1, EraseKeepsOnePeriod DEF lo
  <1>7. f = [e EXCEPT !.text = t, !.insertion_pt = lo, !.sel_start = lo, !.sel_end = lo]
    BY DEF clear_selection, Place, hi, EditFields
  <1> HIDE DEF t, f, lo
  <1>8. f \in EditFields
    BY <1>1, <1>3, <1>7 DEF EditFields, FieldTexts
  <1>9. Changed(e, f, t, lo) /\ f.sel_start = lo /\ f.sel_end = lo
    BY <1>7, <1>8 DEF EditFields, Changed
  <1> QED BY <1>3, <1>4, <1>5, <1>6, <1>9 DEF FieldTexts, t, f, lo, hi

LEMMA NoDigit == ~IsDigit(".") /\ ~IsDigit("-")
  <1>1. Len(Digits) = 10 /\ \A i \in 1..10 : Digits[i] # "." /\ Digits[i] # "-"
    BY DEF Digits
  <1> QED BY <1>1 DEF IsDigit, Contains

(* A '.' that is not refused finds none, or one that is selected.          *)
LEMMA PeriodHasRoom ==
    ASSUME NEW e, FieldInv(e), e.active, e.data_type = "float", ~Refused(e, ".")
    PROVE  \/ NoPeriod(e.text)
           \/ \E i \in (SelLo(e) + 1)..SelHi(e) : i <= Len(e.text) /\ e.text[i] = "."
  <1> DEFINE lo == SelLo(e)
             hi == SelHi(e)
             to == Min({hi, Len(e.text)})
             part == SubSeq(e.text, lo + 1, to)
  <1>1. /\ e \in EditFields /\ e.text \in Seq(Characters) /\ Len(e.text) \in Nat
        /\ e.num_periods \in Nat
    BY TextLength DEF FieldInv, EditFields, FieldTexts
  <1>2. lo \in Nat /\ hi \in Int
    <2>1. e.sel_start \in Nat /\ e.sel_end \in Nat
      BY DEF FieldInv, Pointed
    <2> QED BY <1>1, <2>1, SelBounds
  <1>3. to = (IF hi <= Len(e.text) THEN hi ELSE Len(e.text)) /\ to \in Int
    <2> HIDE DEF hi
    <2> QED BY <1>1, <1>2, MinOfTwo
  <1>4. ~(e.num_periods > 0 /\ ~Contains(part, "."))
    BY NoDigit DEF Refused
  <1>5. CASE ~(e.num_periods > 0)
    <2>1. e.num_periods = 0
      BY <1>1, <1>5
    <2> QED BY <2>1 DEF FieldInv, Pointing
  <1>6. CASE Contains(part, ".")
    <2> HIDE DEF lo, hi, to
    <2>1. \A i \in (lo + 1)..to : e.text[i] \in Characters
      BY <1>1, <1>2, <1>3, ElementOfSeq
    <2>2. /\ Len(part) = IF lo + 1 <= to THEN to - (lo + 1) + 1 ELSE 0
          /\ \A i \in 1..(to - (lo + 1) + 1) : part[i] = e.text[(lo + 1) + i - 1]
      BY <1>2, <1>3, <2>1, SubSeqProperties
    <2> HIDE DEF part
    <2>3. PICK i \in 1..Len(part) : part[i] = "."
      BY <1>6 DEF Contains
    <2>4. lo + i \in (lo + 1)..hi /\ lo + i <= Len(e.text) /\ i \in 1..(to - (lo + 1) + 1)
          /\ (lo + 1) + i - 1 = lo + i
      BY <1>1, <1>2, <1>3, <2>2
    <2>5. e.text[lo + i] = "."
      BY <2>2, <2>3, <2>4
    <2> QED BY <2>4, <2>5 DEF lo, hi
  <1> HIDE DEF part
  <1> QED BY <1>4, <1>5, <1>6

(* A key in a field that has an insertion point.                           *)
LEMMA InsertInv ==
    ASSUME NEW e, FieldInv(e), e.active, e.insertion_pt # -1,
           NEW key \in Keys[e.data_type], ~Refused(e, key)
    PROVE  /\ FieldInv(Done(Insert(e, key))) /\ Done(Insert(e, key)).active
           /\ SameNumber(e, Done(Insert(e, key)))
  <1> DEFINE f == IF e.sel_start # e.sel_end THEN clear_selection(e) ELSE e
             p == f.insertion_pt
             c == InsertedAt(f.text, p, key)
             g == Insert(e, key)
  <1>1. /\ e \in EditFields /\ e.text \in FieldTexts /\ Len(e.text) \in Nat
        /\ e.data_type \in DataTypes
        /\ e.substring_start \in Nat /\ e.substring_end \in Nat
        /\ e.insertion_pt \in 0..Len(e.text)
    BY TextLength DEF FieldInv, EditFields, Shown, Pointed
  <1>2. key \in Characters
    BY <1>1 DEF Characters
  <1>3. /\ \E t \in FieldTexts : Changed(e, f, t, p) /\ p \in 0..Len(t)
        /\ e.data_type = "float" => OnePeriod(f.text) /\ (key = "." => NoPeriod(f.text))
    <2>1. CASE e.sel_start = e.sel_end
      <3>1. f = e
        BY <2>1
      <3> HIDE DEF f
      <3>2. Changed(e, e, e.text, e.insertion_pt)
        BY <1>1 DEF Changed
      <3>3. SelHi(e) = SelLo(e) /\ SelLo(e) \in Int
        BY <1>1, <2>1, SelBounds
      <3>4. ~\E i \in (SelLo(e) + 1)..SelHi(e) : i <= Len(e.text) /\ e.text[i] = "."
        BY <3>3
      <3>5. e.data_type = "float" => OnePeriod(e.text) /\ (key = "." => NoPeriod(e.text))
        BY <3>4, PeriodHasRoom DEF FieldInv, Pointing
      <3> QED BY <1>1, <3>1, <3>2, <3>5
    <2>2. CASE e.sel_start # e.sel_end
      <3> DEFINE t == Erase(e.text, SelLo(e), SelHi(e))
      <3>1. f = clear_selection(e)
        BY <2>2
      <3>2. SelLo(e) \in 0..Len(e.text)
        <4>1. e.sel_start \in Nat /\ e.sel_end \in Nat /\ SelLo(e) <= Len(e.text)
          BY <2>2 DEF FieldInv, Pointed
        <4> QED BY <1>1, <4>1, SelBounds
      <3> HIDE DEF f
      <3>3. /\ t \in FieldTexts /\ SelLo(e) <= Len(t) /\ Changed(e, f, t, SelLo(e))
            /\ OnePeriod(e.text) => OnePeriod(t)
            /\ NoPeriod(e.text) => NoPeriod(t)
            /\ OnePeriod(e.text) /\ (\E i \in (SelLo(e) + 1)..SelHi(e) :
                                        i <= Len(e.text) /\ e.text[i] = ".") => NoPeriod(t)
        BY <1>1, <3>1, <3>2, ClearSelection
      <3> HIDE DEF t
      <3>4. f.text = t /\ p = SelLo(e) /\ p \in 0..Len(t)
        <4>1. f.text = t /\ p = SelLo(e) /\ Len(t) \in Nat
          BY <3>3, TextLength DEF Changed
        <4> QED BY <3>2, <3>3, <4>1
      <3>5. e.data_type = "float" => OnePeriod(e.text)
        BY DEF FieldInv, Pointing
      <3>6. e.data_type = "float" /\ key = "." =>
                \/ NoPeriod(e.text)
                \/ \E i \in (SelLo(e) + 1)..SelHi(e) : i <= Len(e.text) /\ e.text[i] = "."
        BY PeriodHasRoom
      <3>7. Changed(e, f, t, p)
        BY <3>3, <3>4
      <3> QED BY <3>3, <3>4, <3>5, <3>6, <3>7
    <2> QED BY <2>1, <2>2
  <1> HIDE DEF f
  <1>4. /\ f \in EditFields /\ Changed(e, f, f.text, p) /\ p \in 0..Len(f.text)
        /\ f.text \in Seq(Characters) /\ Len(f.text) \in Nat
    BY <1>3, TextLength DEF Changed, EditFields, FieldTexts
  <1>5. c \in Seq(Characters) /\ Len(c) = Len(f.text) + 1
    <2> HIDE DEF p
    <2> QED BY <1>2, <1>4, InsertText
  <1>6. e.data_type = "float" => OnePeriod(c)
    <2> HIDE DEF p
    <2> QED BY <1>2, <1>3, <1>4, InsertKeepsOnePeriod
  <1>7. g = [f EXCEPT !.text = c, !.substring_end = f.substring_end + 1, !.insertion_pt = p + 1,
                      !.sel_start = p + 1, !.sel_end = p + 1]
    BY <1>4 DEF Insert, Place, f, InsertedAt, EditFields
  <1>8. /\ f.substring_start = e.substring_start /\ f.substring_end = e.substring_end
        /\ f.substring_end + 1 \in Int /\ p + 1 \in Nat /\ p + 1 <= Len(c)
    BY <1>1, <1>4, <1>5 DEF Changed
  <1> HIDE DEF c, g, p
  <1>9. g \in EditFields
    <2>1. f \in EditFields /\ c \in FieldTexts /\ p + 1 \in Int /\ f.substring_end + 1 \in Int
      BY <1>4, <1>5, <1>8 DEF FieldTexts
    <2> QED BY <1>7, <2>1 DEF EditFields
  <1>10. /\ g.data_type = f.data_type /\ g.live = f.live /\ g.active = f.active /\ g.text = c
         /\ g.substring_start = f.substring_start /\ g.substring_end = f.substring_end + 1
         /\ g.insertion_pt = p + 1 /\ g.sel_start = p + 1 /\ g.sel_end = p + 1
         /\ SameNumber(f, g)
    BY <1>4, <1>7 DEF EditFields, SameNumber
  <1>11. /\ g.data_type = e.data_type /\ g.live = e.live /\ g.active
         /\ g.substring_start = e.substring_start /\ g.substring_end = e.substring_end + 1
         /\ SameNumber(e, g)
    BY <1>4, <1>8, <1>10 DEF Changed, SameNumber
  <1>12. AlmostShown(g)
    BY <1>1, <1>11 DEF FieldInv, Shown, AlmostShown
  <1>13. LiveKind(g)
    BY <1>11 DEF FieldInv, LiveKind
  <1>14. Ready(g)
    BY <1>8, <1>9, <1>10, <1>11, <1>12, <1>13 DEF Ready
  <1>15. FieldInv(Done(g)) /\ Done(g).active /\ SameNumber(g, Done(g))
    BY <1>6, <1>10, <1>11, <1>14, DoneInv
  <1> QED BY <1>11, <1>15 DEF SameNumber, g

LEMMA CutInv ==
    ASSUME NEW e, FieldInv(e), e.active, NEW f \in EditFields,
           Changed(e, f, e.text, e.insertion_pt), SelLo(f) \in 0..Len(e.text)
    PROVE  /\ FieldInv(Done(clear_selection(f))) /\ Done(clear_selection(f)).active
           /\ SameNumber(e, Done(clear_selection(f)))
  <1> DEFINE lo == SelLo(f)
             g == clear_selection(f)
             t == Erase(f.text, SelLo(f), SelHi(f))
  <1>1. e \in EditFields /\ f.text = e.text /\ Len(e.text) \in Nat
    BY TextLength DEF FieldInv, Changed, EditFields
  <1>2. /\ t \in FieldTexts /\ lo <= Len(t) /\ Changed(f, g, t, lo)
        /\ g.sel_start = lo /\ g.sel_end = lo
        /\ OnePeriod(f.text) => OnePeriod(t)
    BY <1>1, ClearSelection
  <1>3. lo \in Int /\ lo >= -1 /\ lo \in Nat
    BY <1>1
  <1> HIDE DEF t, g, lo
  <1>4. Changed(e, g, t, lo) /\ g.text = t /\ SameNumber(e, g)
    BY <1>2 DEF Changed, SameNumber
  <1>5. Ready(g)
    BY <1>2, <1>3, <1>4, ChangedIsReady
  <1>6. g.data_type = "float" => OnePeriod(g.text)
    BY <1>1, <1>2, <1>4 DEF FieldInv, Pointing, SameNumber
  <1>7. FieldInv(Done(g)) /\ Done(g).active /\ SameNumber(g, Done(g))
    BY <1>5, <1>6, DoneInv
  <1> QED BY <1>4, <1>7 DEF SameNumber, g

LEMMA RemovedInv ==
    ASSUME NEW e, FieldInv(e), e.active, e.sel_start = e.sel_end,
           NEW a \in 0..Len(e.text), NEW b \in Int, a <= b, NEW p \in 0..a
    PROVE  LET f == [e EXCEPT !.text = Erase(e.text, a, b), !.insertion_pt = p]
           IN  FieldInv(Done(f)) /\ Done(f).active /\ SameNumber(e, Done(f))
  <1> DEFINE t == Erase(e.text, a, b)
             f == [e EXCEPT !.text = t, !.insertion_pt = p]
  <1>1. e \in EditFields /\ e.text \in Seq(Characters) /\ Len(e.text) \in Nat
    BY TextLength DEF FieldInv, EditFields, FieldTexts
  <1>2. t \in FieldTexts /\ Len(t) \in Nat /\ Len(t) >= a
    BY <1>1, EraseLength DEF FieldTexts
  <1>3. OnePeriod(e.text) => OnePeriod(t)
    BY <1>1, EraseKeepsOnePeriod
  <1> HIDE DEF t
  <1>4. p \in Int /\ p >= -1 /\ p <= Len(t)
    BY <1>1, <1>2
  <1>5. f \in EditFields
    BY <1>1, <1>2, <1>4 DEF EditFields
  <1>6. Changed(e, f, t, p) /\ f.sel_start = e.sel_start /\ f.sel_end = e.sel_end
    BY <1>1, <1>5 DEF EditFields, Changed
  <1> HIDE DEF f
  <1>7. f.sel_start \in Nat /\ f.sel_end \in Nat /\ f.sel_start = f.sel_end
    BY <1>6 DEF FieldInv, Pointed
  <1>8. Ready(f)
    BY <1>2, <1>4, <1>6, <1>7, ChangedIsReady
  <1>9. f.data_type = "float" => OnePeriod(f.text)
    BY <1>3, <1>6 DEF Changed, FieldInv, Pointing
  <1>10. FieldInv(Done(f)) /\ Done(f).active /\ SameNumber(f, Done(f))
    BY <1>8, <1>9, DoneInv
  <1>11. SameNumber(e, f)
    BY <1>6 DEF Changed, SameNumber
  <1> QED BY <1>10, <1>11 DEF SameNumber, f, t

(* The first p characters are what is left when the others are erased.     *)
LEMMA KeptInv ==
    ASSUME NEW e, FieldInv(e), e.active, NEW p \in 0..Len(e.text)
    PROVE  LET f == [e EXCEPT !.text = SubSeq(e.text, 1, p), !.sel_start = p, !.sel_end = p,
                              !.insertion_pt = p]
           IN  FieldInv(Done(f)) /\ Done(f).active /\ SameNumber(e, Done(f))
  <1> DEFINE t == SubSeq(e.text, 1, p)
             f == [e EXCEPT !.text = t, !.sel_start = p, !.sel_end = p, !.insertion_pt = p]
  <1>1. e \in EditFields /\ e.text \in Seq(Characters) /\ Len(e.text) \in Nat
    BY TextLength DEF FieldInv, EditFields, FieldTexts
  <1>2. t \in FieldTexts /\ Len(t) = p /\ \A i \in 1..p : t[i] = e.text[i]
    <2>1. \A i \in 1..p : e.text[i] \in Characters
      BY <1>1, ElementOfSeq
    <2>2. /\ t \in Seq(Characters) /\ Len(t) = IF 1 <= p THEN p - 1 + 1 ELSE 0
          /\ \A i \in 1..(p - 1 + 1) : t[i] = e.text[1 + i - 1]
      BY <1>1, <2>1, SubSeqProperties
    <2> HIDE DEF t
    <2> QED BY <1>1, <2>2 DEF FieldTexts
  <1> HIDE DEF t
  <1>3. OnePeriod(e.text) => OnePeriod(t)
    BY <1>1, <1>2 DEF OnePeriod
  <1>4. p \in Nat /\ p >= -1 /\ p <= Len(t)
    BY <1>1, <1>2
  <1>5. f \in EditFields
    <2>1. e \in EditFields /\ t \in FieldTexts /\ p \in Int
      BY <1>1, <1>2, <1>4
    <2> QED BY <2>1 DEF EditFields
  <1>6. Changed(e, f, t, p) /\ f.sel_start = p /\ f.sel_end = p
    BY <1>1, <1>5 DEF EditFields, Changed
  <1> HIDE DEF f
  <1>7. Ready(f)
    <2>1. p \in Int /\ f.sel_start \in Nat /\ f.sel_end \in Nat /\ f.sel_start = f.sel_end
      BY <1>4, <1>6
    <2> QED BY <1>2, <1>4, <1>6, <2>1, ChangedIsReady
  <1>8. f.data_type = "float" => OnePeriod(f.text)
    BY <1>3, <1>6 DEF Changed, FieldInv, Pointing
  <1>9. FieldInv(Done(f)) /\ Done(f).active /\ SameNumber(f, Done(f))
    BY <1>7, <1>8, DoneInv
  <1>10. SameNumber(e, f)
    BY <1>6 DEF Changed, SameNumber
  <1> QED BY <1>9, <1>10 DEF SameNumber, f, t

(* A key that is no character.                                             *)
LEMMA EditKeyInv ==
    ASSUME NEW e, FieldInv(e), e.active, NEW what \in Edits,
           what \in {"backspace", "erase_line"} \/ e.insertion_pt # -1
    PROVE  /\ FieldInv(Done(Edit(e, what))) /\ Done(Edit(e, what)).active
           /\ SameNumber(e, Done(Edit(e, what)))
  <1> DEFINE p == e.insertion_pt
             word == IF e.sel_start = e.sel_end
                     THEN [e EXCEPT !.sel_start = p, !.sel_end = find_word_break(e.text, p, 1)]
                     ELSE e
  <1>1. /\ e \in EditFields /\ e.text \in FieldTexts /\ Len(e.text) \in Nat /\ p \in Int
        /\ p # -1 => p \in 0..Len(e.text)
        /\ e.sel_start \in Nat /\ e.sel_end \in Nat
    BY TextLength DEF FieldInv, EditFields, Pointed
  <1>2. Changed(e, e, e.text, e.insertion_pt)
    BY <1>1 DEF Changed
  <1>3. e.sel_start # e.sel_end => SelLo(e) \in 0..Len(e.text)
    <2>1. e.sel_start # e.sel_end => SelLo(e) <= Len(e.text)
      BY DEF FieldInv, Pointed
    <2>2. SelLo(e) \in Nat
      BY <1>1, SelBounds
    <2>3. Len(e.text) \in Nat
      BY <1>1
    <2> QED BY <2>1, <2>2, <2>3
  <1>4. CASE what \in {"delete", "backspace"} /\ e.sel_start # e.sel_end
    <2>1. Edit(e, what) = clear_selection(e)
      BY <1>4 DEF Edit
    <2> QED BY <1>1, <1>2, <1>3, <1>4, <2>1, CutInv
  <1>5. CASE what = "delete" /\ e.sel_start = e.sel_end
    <2>1. Edit(e, what) = [e EXCEPT !.text = Erase(e.text, p, p + 1), !.insertion_pt = p]
      BY <1>1, <1>5 DEF Edit, EditFields
    <2>2. p \in 0..Len(e.text) /\ p + 1 \in Int /\ p <= p + 1 /\ p \in 0..p
      BY <1>1, <1>5
    <2> HIDE DEF p
    <2> DEFINE f == [e EXCEPT !.text = Erase(e.text, p, p + 1), !.insertion_pt = p]
    <2>3. FieldInv(Done(f)) /\ Done(f).active /\ SameNumber(e, Done(f))
      BY <1>5, <2>2, RemovedInv
    <2> HIDE DEF f
    <2> QED BY <2>1, <2>3 DEF f
  <1>6. CASE what = "backspace" /\ e.sel_start = e.sel_end /\ p > 0
    <2>1. Edit(e, what) = [e EXCEPT !.text = Erase(e.text, p - 1, p), !.insertion_pt = p - 1]
      BY <1>1, <1>6 DEF Edit, EditFields
    <2>2. p - 1 \in 0..Len(e.text) /\ p \in Int /\ p - 1 <= p /\ p - 1 \in 0..(p - 1)
      BY <1>1, <1>6
    <2> DEFINE q == p - 1
               f == [e EXCEPT !.text = Erase(e.text, q, p), !.insertion_pt = q]
    <2>3. Edit(e, what) = f
      BY <2>1
    <2>4. q \in 0..Len(e.text) /\ p \in Int /\ q <= p /\ q \in 0..q
      BY <2>2
    <2> HIDE DEF p, q
    <2>5. FieldInv(Done(f)) /\ Done(f).active /\ SameNumber(e, Done(f))
      BY <1>6, <2>4, RemovedInv
    <2> HIDE DEF f
    <2> QED BY <2>3, <2>5
  <1>7. CASE what = "backspace" /\ e.sel_start = e.sel_end /\ ~(p > 0)
    <2>1. Edit(e, what) = e
      BY <1>7 DEF Edit
    <2>2. e.data_type = "float" => OnePeriod(e.text)
      BY DEF FieldInv, Pointing
    <2> QED BY <2>1, <2>2, ActiveIsReady, DoneInv
  <1>8. CASE what = "erase_line"
    <2>1. <<>> = SubSeq(e.text, 1, 0)
      BY SubSeqEmpty
    <2>2. Edit(e, what) = [e EXCEPT !.text = SubSeq(e.text, 1, 0), !.sel_start = 0, !.sel_end = 0,
                                    !.insertion_pt = 0]
      BY <1>1, <1>8, <2>1 DEF Edit, Place, EditFields
    <2>3. 0 \in 0..Len(e.text)
      <3>1. Len(e.text) \in Nat
        BY <1>1
      <3> QED BY <3>1
    <2> QED BY <2>2, <2>3, KeptInv
  <1>9. CASE what = "kill_to_end"
    <2>1. Edit(e, what) = [e EXCEPT !.text = SubSeq(e.text, 1, p), !.sel_start = p, !.sel_end = p,
                                    !.insertion_pt = p]
      BY <1>1, <1>9 DEF Edit, EditFields
    <2>2. p \in 0..Len(e.text)
      BY <1>1, <1>9
    <2> HIDE DEF p
    <2> QED BY <2>1, <2>2, KeptInv
  <1>10. CASE what = "delete_word"
    <2>1. Edit(e, what) = clear_selection(word)
      BY <1>10 DEF Edit
    <2>2. /\ word \in EditFields /\ Changed(e, word, e.text, e.insertion_pt)
          /\ SelLo(word) \in 0..Len(e.text)
      <3>1. CASE e.sel_start # e.sel_end
        BY <1>1, <1>2, <1>3, <3>1
      <3>2. CASE e.sel_start = e.sel_end
        <4> DEFINE q == find_word_break(e.text, p, 1)
        <4>1. p \in 0..Len(e.text)
          BY <1>1, <1>10
        <4>2. q \in p..Len(e.text) /\ q \in Int
          BY <1>1, <4>1, WordBreak
        <4>3. word = [e EXCEPT !.sel_start = p, !.sel_end = q]
          BY <3>2
        <4> HIDE DEF q, word
        <4>4. word \in EditFields
          BY <1>1, <4>2, <4>3 DEF EditFields
        <4>5. /\ Changed(e, word, e.text, e.insertion_pt)
              /\ word.sel_start = p /\ word.sel_end = q
          BY <1>1, <4>3, <4>4 DEF EditFields, Changed
        <4>6. SelLo(word) = p
          <5>1. p <= q
            BY <4>1, <4>2
          <5> QED BY <4>4, <4>5, <5>1, SelBounds
        <4> QED BY <4>1, <4>4, <4>5, <4>6
      <3> QED BY <3>1, <3>2
    <2> HIDE DEF word
    <2> QED BY <2>1, <2>2, CutInv
  <1> QED BY <1>4, <1>5, <1>6, <1>7, <1>8, <1>9, <1>10 DEF Edits

-------------------------------------------------------------------------------
(* Every event keeps the invariant, and either leaves the number alone or  *)
(* gives a new one to both of its forms.                                   *)

Numeric(e) ==
    /\ e.data_type \in {"int", "float"} /\ e.has_limits = "clamp"
    /\ InStep(e) /\ WithinLimits(e)

LEMMA SameIsNumeric ==
    ASSUME NEW e, NEW f, SameNumber(e, f), Numeric(e)
    PROVE  Numeric(f)
  BY DEF SameNumber, Numeric, InStep, WithinLimits

KeptByEvent == EditInv' /\ (Numeric(ed) => Numeric(ed'))

LEMMA EditStarts ==
    ASSUME NEW Types \in SUBSET DataTypes, NEW Limits \in SUBSET {"none", "clamp", "wrap"},
           EditInit(Types, Limits)
    PROVE  EditInv
  <1>1. PICK type \in Types, limits \in Limits : ed = NewField(type, limits)
    BY DEF EditInit
  <1>2. type \in DataTypes /\ limits \in {"none", "clamp", "wrap"} /\ edit_down = FALSE
    BY DEF EditInit
  <1> QED BY <1>1, <1>2, NewFieldInv DEF EditInv

LEMMA TabInv == ASSUME EditInv, EditTab PROVE KeptByEvent
  <1>1. FieldInv(ed) /\ ~ed.active /\ ed \in EditFields
    BY DEF EditInv, FieldInv, EditTab
  <1>2. FieldInv(ed') /\ ed'.active
    BY <1>1, EnteredInv DEF EditTab
  <1>3. SameNumber(ed, ed')
    BY <1>1 DEF EditTab, EditFields, SameNumber
  <1> QED BY <1>2, <1>3, SameIsNumeric DEF EditInv, KeptByEvent

LEMMA MouseDownInv == ASSUME EditInv, EditMouseDown PROVE EditInv'
  <1>1. PICK p \in insertion_pts(ed) :
           ed' = update_substring_bounds(Place([ed EXCEPT !.active = TRUE], p))
    BY DEF EditMouseDown
  <1> QED BY <1>1, PressedInv DEF EditInv

LEMMA HeldDownInv == ASSUME EditInv, EditHeldDown PROVE EditInv'
  <1>1. PICK p \in insertion_pts(ed) : ed' = HeldAt(ed, p)
    BY DEF EditHeldDown
  <1>2. ed.active
    BY DEF EditInv, EditHeldDown
  <1> QED BY <1>1, <1>2, HeldAtInv DEF EditInv

LEMMA MouseUpInv == ASSUME EditInv, EditMouseUp PROVE KeptByEvent
  BY DEF EditInv, EditMouseUp, KeptByEvent

LEMMA TypeInv == ASSUME EditInv, EditType PROVE KeptByEvent
  <1>1. PICK key \in Keys[ed.data_type] :
           ~Refused(ed, key) /\ At(ed.insertion_pt, Done(Insert(ed, key)))
    BY DEF EditType
  <1>2. FieldInv(ed) /\ ed.active /\ (edit_down' => ed.active)
    BY DEF EditInv, EditType
  <1>3. CASE ed.insertion_pt = -1
    BY <1>1, <1>2, <1>3 DEF At, EditInv, KeptByEvent
  <1>4. CASE ed.insertion_pt # -1
    <2>1. ed' = Done(Insert(ed, key))
      BY <1>1, <1>4 DEF At
    <2>2. FieldInv(ed') /\ ed'.active /\ SameNumber(ed, ed')
      BY <1>1, <1>2, <1>4, <2>1, InsertInv
    <2> QED BY <2>2, SameIsNumeric DEF EditInv, KeptByEvent
  <1> QED BY <1>3, <1>4

LEMMA EditEditInv == ASSUME EditInv, EditEdit PROVE KeptByEvent
  <1>1. PICK what \in Edits :
           At(IF what \in {"backspace", "erase_line"} THEN 0 ELSE ed.insertion_pt,
              Done(Edit(ed, what)))
    BY DEF EditEdit
  <1>2. FieldInv(ed) /\ ed.active /\ (edit_down' => ed.active)
    BY DEF EditInv, EditEdit
  <1>3. CASE what \notin {"backspace", "erase_line"} /\ ed.insertion_pt = -1
    BY <1>1, <1>2, <1>3 DEF At, EditInv, KeptByEvent
  <1>4. CASE what \in {"backspace", "erase_line"} \/ ed.insertion_pt # -1
    <2>1. ed' = Done(Edit(ed, what))
      <3>1. 0 # -1
        OBVIOUS
      <3> QED BY <1>1, <1>4, <3>1 DEF At
    <2>2. FieldInv(ed') /\ ed'.active /\ SameNumber(ed, ed')
      BY <1>1, <1>2, <1>4, <2>1, EditKeyInv
    <2> QED BY <2>2, SameIsNumeric DEF EditInv, KeptByEvent
  <1> QED BY <1>3, <1>4

LEMMA MoveInv == ASSUME EditInv, EditMove PROVE EditInv'
  <1>1. PICK key \in {"left", "right", "home", "end"}, shift \in BOOLEAN, ctrl \in BOOLEAN :
           ed' = special_handler(ed, key, shift, ctrl)
    BY DEF EditMove
  <1>2. FieldInv(ed) /\ ed.active
    BY DEF EditInv, EditMove
  <1> QED BY <1>1, <1>2, SpecialHandlerInv DEF EditInv

LEMMA LeaveInv == ASSUME EditInv, EditLeave PROVE KeptByEvent
  <1>1. FieldInv(ed) /\ ed' = Taken(ed) /\ edit_down' = FALSE
    BY DEF EditInv, EditLeave
  <1>2. /\ FieldInv(ed') /\ ~ed'.active
        /\ ed'.data_type = ed.data_type /\ ed'.has_limits = ed.has_limits
        /\ ed.data_type # "text" => InStep(ed') /\ (ed.has_limits = "clamp" => WithinLimits(ed'))
    BY <1>1, TakenInv
  <1> QED BY <1>1, <1>2 DEF EditInv, KeptByEvent, Numeric

LEMMA ReturnInv == ASSUME EditInv, EditReturn PROVE EditInv'
  <1> DEFINE e == Taken(ed)
  <1>1. FieldInv(e) /\ ~e.active
    BY TakenInv DEF EditInv
  <1>2. ed' = [e EXCEPT !.active = TRUE, !.sel_start = 0, !.sel_end = Len(e.text),
                        !.insertion_pt = 0]
    BY DEF EditReturn
  <1> HIDE DEF e
  <1> QED BY <1>1, <1>2, EnteredInv DEF EditInv

LEMMA SetLiveInv == ASSUME EditInv, EditSetLive PROVE KeptByEvent
  <1>1. PICK v \in LiveTexts[ed.data_type] : ed' = [ed EXCEPT !.live = v]
    BY DEF EditSetLive
  <1>2. FieldInv(ed) /\ ed \in EditFields /\ ed.data_type \in {"int", "float", "text"}
    BY DEF EditInv, FieldInv, EditFields, DataTypes
  <1>3. v \in IF ed.data_type = "text" THEN FieldTexts ELSE Int
    BY <1>2 DEF FieldTexts
  <1>4. /\ ed' \in EditFields /\ SameNumber(ed, ed') /\ ed'.text = ed.text /\ ed'.live = v
        /\ ed'.last_live = ed.last_live /\ ed'.active = ed.active
        /\ ed'.insertion_pt = ed.insertion_pt /\ ed'.num_periods = ed.num_periods
        /\ ed'.sel_start = ed.sel_start /\ ed'.sel_end = ed.sel_end
        /\ ed'.substring_start = ed.substring_start /\ ed'.substring_end = ed.substring_end
    <2>1. v \in Int \cup FieldTexts
      BY <1>3
    <2>2. ed' \in EditFields
      BY <1>1, <1>2, <2>1 DEF EditFields
    <2> QED BY <1>1, <1>2, <2>2 DEF EditFields, SameNumber
  <1>5. LiveKind(ed') /\ Shown(ed') /\ Pointing(ed') /\ LiveValue(ed') = LiveValue(ed)
    BY <1>2, <1>3, <1>4 DEF FieldInv, LiveKind, Shown, Pointing, LiveValue, SameNumber
  <1>6. ed.active => Pointed(ed')
    BY <1>2, <1>4 DEF FieldInv, Pointed, SelLo
  <1>7. ~ed.active => Idle(ed') /\ ShowsValue(ed')
    BY <1>2, <1>4, <1>5 DEF FieldInv, Idle, ShowsValue, SameNumber
  <1>8. FieldInv(ed')
    BY <1>4, <1>5, <1>6, <1>7 DEF FieldInv
  <1> QED BY <1>4, <1>8, SameIsNumeric DEF EditInv, KeptByEvent, EditSetLive

LEMMA SyncLiveInv == ASSUME EditInv, EditSyncLive PROVE KeptByEvent
  <1>1. FieldInv(ed) /\ ed \in EditFields /\ ed' = SetLiveValue(ed, ed.live)
    BY DEF EditInv, FieldInv, EditSyncLive
  <1>2. /\ Reset(ed, ed')
        /\ ed.data_type # "text" => InStep(ed')
        /\ ed.data_type # "text" /\ ed.has_limits = "clamp" => WithinLimits(ed')
    BY <1>1, SetLive DEF FieldInv, LiveKind
  <1>3. FieldInv(ed') /\ ed'.active = ed.active
    BY <1>2, ResetInv DEF Reset
  <1> QED BY <1>2, <1>3 DEF EditInv, KeptByEvent, Numeric, Reset, EditSyncLive

LEMMA DrawInv == ASSUME EditInv, EditDraw PROVE EditInv'
  <1>1. FieldInv(ed) /\ ed \in EditFields /\ ed' = update_substring_bounds(ed)
    BY DEF EditInv, FieldInv, EditDraw
  <1>2. CASE ed.active
    BY <1>1, <1>2, ActiveIsReady, UpdatedInv DEF FieldInv, EditInv
  <1>3. CASE ~ed.active
    <2>1. /\ ed.insertion_pt = -1 /\ ed.substring_start = 0 /\ ed.substring_end \in Nat
          /\ Len(ed.text) \in Nat
      BY <1>1, <1>3, TextLength DEF FieldInv, Idle, Shown, EditFields
    <2>2. AlmostShown(ed) /\ ed.insertion_pt >= -1 /\ ed.insertion_pt <= Len(ed.text)
      BY <2>1 DEF AlmostShown
    <2>3. ed' \in EditFields /\ OnlyBounds(ed, ed') /\ Shown(ed') /\ ed'.substring_start = 0
      BY <1>1, <2>1, <2>2, BoundsUpdated
    <2>4. LiveValue(ed') = LiveValue(ed)
      BY <2>3 DEF LiveValue, OnlyBounds
    <2>5. LiveKind(ed') /\ Pointing(ed') /\ Idle(ed') /\ ShowsValue(ed') /\ ~ed'.active
      BY <1>1, <1>3, <2>3, <2>4
         DEF FieldInv, LiveKind, Pointing, Idle, ShowsValue, OnlyBounds
    <2>6. FieldInv(ed')
      BY <2>3, <2>5 DEF FieldInv
    <2> QED BY <1>3, <2>6 DEF EditInv, EditDraw
  <1> QED BY <1>2, <1>3

LEMMA EditStep == ASSUME EditInv, [EditNext]_editVars PROVE EditInv'
  <1>1. CASE UNCHANGED editVars
    BY <1>1 DEF EditInv, editVars
  <1>2. CASE EditTab
    BY <1>2, TabInv DEF KeptByEvent
  <1>3. CASE EditMouseUp
    BY <1>3, MouseUpInv DEF KeptByEvent
  <1>4. CASE EditType
    BY <1>4, TypeInv DEF KeptByEvent
  <1>5. CASE EditEdit
    BY <1>5, EditEditInv DEF KeptByEvent
  <1>6. CASE EditLeave
    BY <1>6, LeaveInv DEF KeptByEvent
  <1>7. CASE EditSetLive
    BY <1>7, SetLiveInv DEF KeptByEvent
  <1>8. CASE EditSyncLive
    BY <1>8, SyncLiveInv DEF KeptByEvent
  <1>9. CASE EditMouseDown \/ EditHeldDown \/ EditMove \/ EditReturn \/ EditDraw
    BY <1>9, MouseDownInv, HeldDownInv, MoveInv, ReturnInv, DrawInv
  <1> QED BY <1>1, <1>2, <1>3, <1>4, <1>5, <1>6, <1>7, <1>8, <1>9 DEF EditNext

LEMMA EditSafe == EditSpec => []EditInv
  <1>1. EditInit(DataTypes, {"none", "clamp", "wrap"}) => EditInv
    BY EditStarts
  <1> QED BY <1>1, EditStep, PTL DEF EditSpec

(* What update_substring_bounds (glui_edittext.cpp:575) and the key        *)
(* handler promise of the cursor: the insertion point of an active field   *)
(* is in the text and in the part that is shown, and that part fits in the *)
(* box, for every width of the box.                                        *)
THEOREM CursorIsInView == EditSpec => []CursorInView
  <1>1. EditInv => CursorInView
    <2> SUFFICES ASSUME FieldInv(ed), ed.active, ed.insertion_pt # -1
                 PROVE  /\ ed.insertion_pt \in 0..Len(ed.text)
                        /\ ed.sel_start # ed.sel_end => SelLo(ed) \in 0..Len(ed.text)
                        /\ ed.insertion_pt \in ed.substring_start..(ed.substring_end + 1)
                        /\ ed.substring_end - ed.substring_start < BoxWidth
      BY DEF EditInv, CursorInView
    <2>1. /\ ed \in EditFields /\ Len(ed.text) \in Nat /\ Pointed(ed) /\ Shown(ed)
          /\ ed.sel_start \in Nat /\ ed.sel_end \in Nat
      BY TextLength DEF FieldInv, EditFields, Pointed
    <2>2. SelLo(ed) \in Nat
      BY <2>1, SelBounds
    <2> QED BY <2>1, <2>2 DEF Pointed, Shown
  <1> QED BY <1>1, EditSafe, PTL

(* What deactivate (glui_edittext.cpp:469) promises: a field that is left  *)
(* shows the text of its value, which its live variable was last given;    *)
(* and what the key handler (351) promises of a float: one period at most. *)
THEOREM FieldShowsItsValue == EditSpec => []FieldShowsValue
  <1>1. EditInv => FieldShowsValue
    <2> SUFFICES ASSUME FieldInv(ed) PROVE FieldShowsValue
      BY DEF EditInv
    <2>1. ed.text \in Seq(Characters)
      BY DEF FieldInv, EditFields, FieldTexts
    <2>2. ed.data_type = "float" => Periods(ed.text) <= 1
      <3>1. ed.data_type = "float" => Periods(ed.text) \in {0, 1}
        BY <2>1, PeriodsCounted DEF FieldInv, Pointing
      <3> QED BY <3>1
    <2>3. ~ed.active => ShowsValue(ed)
      BY DEF FieldInv
    <2> QED BY <2>2, <2>3 DEF FieldShowsValue, ShowsValue
  <1> QED BY <1>1, EditSafe, PTL

-------------------------------------------------------------------------------
(* The arrows.                                                             *)

Told == ~typed => told = LiveValue(ed) /\ last_val \in {<<>>, <<told>>}

SpinInv == EditInv /\ Numeric(ed) /\ Told

LEMMA ClickInv ==
    ASSUME SpinInv, NEW e \in EditFields, e.active = ed.active,
           e.data_type = ed.data_type, e.has_limits = "clamp",
           NEW arrow, do_click(e, arrow), UNCHANGED edit_down
    PROVE  SpinInv'
  <1>1. PICK g \in Growths :
           LET new == set_float_val(e, e.float_val + Direction(arrow) * g)
           IN  ed' = new /\ do_callbacks(new)
    BY DEF do_click
  <1>2. e.float_val + Direction(arrow) * g \in Int
    <2>1. Direction(arrow) \in Int /\ g \in Int /\ e.float_val \in Int
      BY GrowthAssumption DEF Direction, EditFields
    <2> QED BY <2>1
  <1>3. Reset(e, ed') /\ InStep(ed') /\ WithinLimits(ed')
    <2>1. e.data_type # "text"
      BY DEF SpinInv, Numeric
    <2> QED BY <1>1, <1>2, <2>1, SetFloatVal
  <1>4. FieldInv(ed') /\ Numeric(ed') /\ ed'.active = ed.active
    BY <1>3, ResetInv DEF SpinInv, Numeric, Reset
  <1>5. EditInv'
    BY <1>4 DEF SpinInv, EditInv
  <1>6. do_callbacks(ed')
    BY <1>1
  <1>7. Told'
    <2>1. CASE <<LiveValue(ed')>> = last_val
      <3>1. UNCHANGED <<last_val, told, typed>>
        BY <1>6, <2>1 DEF do_callbacks
      <3>2. ~typed => told = LiveValue(ed')
        BY <2>1 DEF SpinInv, Told
      <3> QED BY <3>1, <3>2 DEF SpinInv, Told
    <2>2. CASE <<LiveValue(ed')>> # last_val
      BY <1>6, <2>2 DEF do_callbacks, Told
    <2> QED BY <2>1, <2>2
  <1> QED BY <1>4, <1>5, <1>7 DEF SpinInv

LEMMA FieldIsReady ==
    ASSUME SpinInv
    PROVE  /\ ed \in EditFields /\ ed.has_limits = "clamp" /\ ed.data_type # "text"
           /\ ed.float_val \in Int
  BY DEF SpinInv, EditInv, FieldInv, Numeric, EditFields

LEMMA SteppedIsReady ==
    ASSUME SpinInv, NEW arrow
    PROVE  LET e == Stepped(ed, arrow)
           IN  /\ e \in EditFields /\ e.active = ed.active
               /\ e.data_type = ed.data_type /\ e.has_limits = "clamp"
  <1> DEFINE v == ed.float_val + IF arrow = "up" THEN 100 ELSE -90
  <1>1. v \in Int
    BY FieldIsReady
  <1>2. Stepped(ed, arrow) = IF ed.data_type = "int" THEN set_float_val(ed, v) ELSE ed
    BY DEF Stepped
  <1> HIDE DEF v
  <1>3. Reset(ed, set_float_val(ed, v))
    BY <1>1, FieldIsReady, SetFloatVal
  <1> QED BY <1>2, <1>3, FieldIsReady DEF Reset

LEMMA SpinFieldInv ==
    ASSUME SpinInv, KeptByEvent, typed' = (typed \/ LiveValue(ed') # LiveValue(ed)),
           UNCHANGED last_val, told' \in {told, LiveValue(ed')}
    PROVE  SpinInv'
  <1>1. Told'
    BY DEF SpinInv, Told
  <1> QED BY <1>1 DEF SpinInv, KeptByEvent

LEMMA SpinStep == ASSUME SpinInv, [SpinNext]_spinVars PROVE SpinInv'
  <1>1. EditInv /\ Numeric(ed)
    BY DEF SpinInv
  <1>2. CASE SpinMouseDown \/ SpinKey
    <2>1. PICK arrow \in {"up", "down"} : do_click(Stepped(ed, arrow), arrow)
      BY <1>2 DEF SpinMouseDown, SpinKey
    <2>2. UNCHANGED edit_down
      BY <1>2 DEF SpinMouseDown, SpinKey
    <2> QED BY <2>1, <2>2, SteppedIsReady, ClickInv
  <1>3. CASE SpinIdle
    BY <1>3, FieldIsReady, ClickInv DEF SpinIdle
  <1>4. CASE SpinHeldDown
    <2>1. CASE do_click(ed, state)
      BY <1>4, <2>1, FieldIsReady, ClickInv DEF SpinHeldDown
    <2>2. CASE \E arrow \in {"up", "down"} : do_click(ed, arrow)
      <3>1. PICK arrow \in {"up", "down"} : do_click(ed, arrow)
        BY <2>2
      <3>2. UNCHANGED edit_down
        BY <1>4 DEF SpinHeldDown
      <3> QED BY <3>1, <3>2, FieldIsReady, ClickInv
    <2>3. CASE UNCHANGED <<ed, last_val, told, typed>>
      BY <1>4, <2>3 DEF SpinHeldDown, SpinInv, EditInv, Told
    <2> QED BY <1>4, <2>1, <2>2, <2>3 DEF SpinHeldDown
  <1>5. CASE SpinMouseUp \/ UNCHANGED spinVars
    BY <1>5 DEF SpinMouseUp, spinVars, editVars, SpinInv, EditInv, Told
  <1>6. CASE SpinField
    <2>1. KeptByEvent
      BY <1>1, <1>6, TabInv, MouseUpInv, TypeInv, EditEditInv, LeaveInv, SetLiveInv, SyncLiveInv
         DEF SpinField
    <2> QED BY <1>6, <2>1, SpinFieldInv DEF SpinField
  <1>7. CASE SpinSyncLive
    <2>1. KeptByEvent
      BY <1>1, <1>7, SetLiveInv, SyncLiveInv DEF SpinSyncLive
    <2> QED BY <1>7, <2>1, SpinFieldInv DEF SpinSyncLive
  <1> QED BY <1>2, <1>3, <1>4, <1>5, <1>6, <1>7 DEF SpinNext

LEMMA SpinStarts == ASSUME SpinInit({"int", "float"}, {"clamp"}) PROVE SpinInv
  <1>1. EditInit({"int", "float"}, {"clamp"})
    BY DEF SpinInit
  <1>2. EditInv
    BY <1>1, EditStarts DEF DataTypes
  <1>3. PICK type \in {"int", "float"} : ed = NewField(type, "clamp")
    BY <1>1 DEF EditInit
  <1>4. Numeric(ed)
    BY <1>3, NewFieldInv DEF DataTypes, Numeric
  <1> QED BY <1>2, <1>4 DEF SpinInv, SpinInit, Told

(* What do_callbacks (glui_spinner.cpp:513) and the mouse handler (175)    *)
(* promise: the program has been told of the number that the arrows gave   *)
(* the field, unless it was typed or set since, and the number is within   *)
(* the limits and is the whole part of the float that the clicks add to.   *)
THEOREM ArrowsTellTheNumber == SpinSpec => []ArrowsTell
  <1>1. SpinInv => ArrowsTell
    BY DEF SpinInv, Numeric, Told, InStep, WithinLimits, ArrowsTell
  <1>2. SpinInit({"int", "float"}, {"clamp"}) => SpinInv
    BY SpinStarts
  <1> QED BY <1>1, <1>2, SpinStep, PTL DEF SpinSpec
===============================================================================
