------------------------------- MODULE Transform -------------------------------
(***************************************************************************)
(* A transformation of the plane (mat3) or of space (mat4) that is built   *)
(* up with algebra3.cpp, factor by factor.                                 *)
(***************************************************************************)
EXTENDS Algebra, FiniteSets, FiniteSetsExt

CONSTANTS
    Components,     \* of the vectors for translation and scaling, fractions
    Turns,          \* cosine and sine of the angles
    Axes,           \* axes of fractional length
    MaxFactors      \* bound

VARIABLES mat, factors

transformVars == <<mat, factors>>

TransformInit == mat \in {identity(3), identity(4)} /\ factors = 0

Factors(n) ==
    LET Vectors == {<<x, y, z>> : x, y, z \in Components}
        Plane == {<<x, y>> : x, y \in Components}
    IN  IF n = 3
        THEN {translation(v) : v \in Plane} \cup {scaling(v) : v \in Plane}
             \cup {rotation2D(v, t[1], t[2]) : v \in Plane, t \in Turns}
        ELSE {translation(v) : v \in Vectors} \cup {scaling(v) : v \in Vectors}
             \cup {rotation3D(a, t[1], t[2]) : a \in Axes, t \in Turns}
             \cup {perspective3D(x) : x \in Components \ {Zero}}

Multiply ==
    /\ factors < MaxFactors
    /\ factors' = factors + 1
    /\ \E m \in Factors(Len(mat)) : mat' = Product(mat, m)

Transpose == mat' = transpose(mat) /\ UNCHANGED factors

TransformNext == Multiply \/ Transpose

-------------------------------------------------------------------------------
(* The sum over the ways to take an element of each row and of each column *)
determinant(m) ==
    LET ways == {p \in [Size(m) -> Size(m)] : Cardinality({p[i] : i \in Size(m)}) = Len(m)}
        Crossings(p) == Cardinality({x \in Size(m) \X Size(m) : x[1] < x[2] /\ p[x[1]] > p[x[2]]})
        Term(p) == FoldLeft(Times, Whole(IF Crossings(p) % 2 = 0 THEN 1 ELSE -1),
                            [i \in Size(m) |-> m[i][p[i]]])
    IN  FoldSet(LAMBDA p, sum : Plus(sum, Term(p)), Zero, ways)

(* inverse undoes a transformation from either side, whichever rows its    *)
(* pivots are found in and however often they are exchanged                *)
(* (algebra3.cpp:1045, 1303), and says that it cannot only of one that     *)
(* loses a dimension, by a scaling with 0 or a perspective.                *)
InverseUndoes ==
    factors > 0 =>
        LET found == inverse(mat)
        IN  /\ found.singular <=> determinant(mat) = Zero
            /\ ~found.singular => /\ Product(mat, found.b) = identity(Len(mat))
                                  /\ Product(found.b, mat) = identity(Len(mat))
===============================================================================
