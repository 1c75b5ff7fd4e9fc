------------------------------- MODULE MergeSort -------------------------------
(***************************************************************************)
(* csci1933/Project0.java: mergeSort splits an array into its first half,  *)
(* the longer one if the length is odd, and its second, sorts the two      *)
(* unless the first has a single element, and merges them.                 *)
(***************************************************************************)
EXTENDS Integers, Sequences, FiniteSets

VARIABLE toSort     \* the array that the program has mergeSort sort

(* How many elements of array1 are among the first k of the merged array:  *)
(* merge's i at its k, where j is k - i.  The smaller of the next two is   *)
(* taken, array1's if they are equal, and what is left of either.          *)
Taken(array1, array2) ==
    LET taken[k \in 0 .. Len(array1) + Len(array2)] ==
            IF k = 0 THEN 0
            ELSE LET i == taken[k - 1]
                     j == k - 1 - i
                 IN  IF /\ i < Len(array1)
                        /\ j = Len(array2) \/ array1[i + 1] <= array2[j + 1]
                     THEN i + 1 ELSE i
    IN  taken

merge(array1, array2) ==
    LET taken == Taken(array1, array2)
    IN  [k \in 1 .. Len(array1) + Len(array2) |->
            IF taken[k] > taken[k - 1] THEN array1[taken[k]] ELSE array2[k - taken[k]]]

(* The length of the first half.                                           *)
ALength(n) == n - n \div 2

BaseTooLarge(a) == Len(a) <= 2    \* mistake: the base case takes a.length = 2 too

BaseCase(a) == Len(a) <= 1

FirstHalf(s) == SubSeq(s, 1, ALength(Len(s)))
SecondHalf(s) == SubSeq(s, ALength(Len(s)) + 1, Len(s))

mergeSort[s \in Seq(Int)] ==
    LET a == FirstHalf(s)
        b == SecondHalf(s)
    IN  IF BaseCase(a) THEN merge(a, b) ELSE merge(mergeSort[a], mergeSort[b])

-------------------------------------------------------------------------------
Occurrences(s, v) == Cardinality({i \in 1 .. Len(s) : s[i] = v})
Values(s) == {s[i] : i \in 1 .. Len(s)}

(* mergeSort returns the elements it was given, each as often as it came,  *)
(* in ascending order: no half and no remainder is lost, for every length, *)
(* 0 and 1 included (Project0.main sorts an array with repetitions).       *)
SortsEverything ==
    LET sorted == mergeSort[toSort]
    IN  /\ \A i \in 1 .. Len(sorted) - 1 : sorted[i] <= sorted[i + 1]
        /\ \A v \in Values(toSort) \cup Values(sorted) :
              Occurrences(sorted, v) = Occurrences(toSort, v)
===============================================================================
