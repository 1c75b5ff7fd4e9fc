-------------------------------- MODULE Float32 --------------------------------
(***************************************************************************)
(* The arithmetic of C's float, for the small non-negative numbers that    *)
(* BrushWork's mouseDragged computes: 24 bits of precision, each result    *)
(* rounded to the nearest and ties to the even one.  [m, e] is m / 2^e.    *)
(***************************************************************************)
EXTENDS Integers

(* Long division of i by d, bit after bit, up to 24 significant bits.      *)
Bits[q \in Nat, r \in Nat, e \in Nat, d \in Nat] ==
    IF q >= 2^23
    THEN [m |-> IF 2 * r > d \/ (2 * r = d /\ q % 2 = 1) THEN q + 1 ELSE q, e |-> e]
    ELSE Bits[2 * q + (2 * r) \div d, (2 * r) % d, e + 1, d]

(* i / d for 0 < i < d.                                                    *)
Quotient(i, d) == Bits[0, i, 0, d]

(* The float nearest to (m + sticky) / 2^e; sticky tells what was shifted  *)
(* out: nothing (0), less than half (1), half (2), more than half (3).     *)
Rounded[m \in Nat, e \in Int, sticky \in 0..3] ==
    IF m >= 2^24
    THEN Rounded[m \div 2, e - 1, IF m % 2 = 0 THEN (IF sticky = 0 THEN 0 ELSE 1)
                                               ELSE (IF sticky = 0 THEN 2 ELSE 3)]
    ELSE [m |-> IF sticky = 3 \/ (sticky = 2 /\ m % 2 = 1) THEN m + 1 ELSE m, e |-> e]

(* a float times a whole number below 2^7.                                 *)
TimesInt(f, n) == Rounded[f.m * n, f.e, 0]

(* The whole part of a number p below 64 plus or minus a float, rounded    *)
(* and then truncated towards zero as a conversion to int does.  Below a   *)
(* half the rounding cannot reach a whole number.                          *)
PlusToInt(p, sign, f) ==
    IF f.e > 24
    THEN IF sign = 1 \/ p = 0 THEN p ELSE p - 1
    ELSE LET sum == p * 2^f.e + sign * f.m
             r == Rounded[IF sum < 0 THEN -sum ELSE sum, f.e, 0]
             whole == IF r.e >= 0 THEN r.m \div 2^r.e ELSE r.m
         IN  IF sum < 0 THEN -whole ELSE whole
===============================================================================
