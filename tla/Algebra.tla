-------------------------------- MODULE Algebra --------------------------------
(***************************************************************************)
(* The vectors, matrices and quaternions of GLUI (algebra3.cpp and         *)
(* quaternion.cpp) with fractions for floats: what is computed, without    *)
(* the rounding. A vector is the sequence of its components, a matrix the  *)
(* sequence of its rows; one definition serves mat3 and mat4.              *)
(***************************************************************************)
EXTENDS Integers, Sequences, SequencesExt

-------------------------------------------------------------------------------
(* Fractions <<n, d>> in lowest terms, d > 0.                              *)

Magnitude(n) == IF n < 0 THEN -n ELSE n
Gcd[a, b \in Nat] == IF b = 0 THEN a ELSE Gcd[b, a % b]

Ratio(n, d) ==
    LET g == Gcd[Magnitude(n), Magnitude(d)]
        sign == IF d < 0 THEN -1 ELSE 1
    IN  <<sign * (n \div g), sign * (d \div g)>>

Whole(n) == <<n, 1>>
Zero == Whole(0)
One == Whole(1)
Negative(x) == <<-x[1], x[2]>>

Plus(x, y) ==
    LET g == Gcd[x[2], y[2]]
    IN  Ratio(x[1] * (y[2] \div g) + y[1] * (x[2] \div g), x[2] * (y[2] \div g))

Times(x, y) ==
    LET p == Ratio(x[1], y[2])
        q == Ratio(y[1], x[2])
    IN  <<p[1] * q[1], p[2] * q[2]>>

Over(x, y) == Times(x, Ratio(y[2], y[1]))
Larger(x, y) == Magnitude(x[1]) * y[2] > Magnitude(y[1]) * x[2]
Root(x) ==
    LET IntRoot(n) == CHOOSE r \in 0..n : r * r = n
    IN  <<IntRoot(x[1]), IntRoot(x[2])>>

-------------------------------------------------------------------------------
(* Vectors.                                                                *)

vec(u) == [i \in DOMAIN u |-> Whole(u[i])]
Sum(u, v) == [i \in DOMAIN u |-> Plus(u[i], v[i])]
Scaled(d, u) == [i \in DOMAIN u |-> Times(d, u[i])]
Difference(u, v) == Sum(u, Scaled(Whole(-1), v))
Dot(u, v) == FoldLeft(LAMBDA sum, i : Plus(sum, Times(u[i], v[i])), Zero, [i \in DOMAIN u |-> i])
Divided(u, d) == Scaled(Over(One, d), u)
normalize(u) == Divided(u, Root(Dot(u, u)))

Cross(u, v) ==
    LET At(i, j) == Plus(Times(u[i], v[j]), Negative(Times(u[j], v[i])))
    IN  <<At(2, 3), At(3, 1), At(1, 2)>>

-------------------------------------------------------------------------------
(* Matrices.                                                               *)

Size(m) == 1..Len(m)
identity(n) == [i \in 1..n |-> [j \in 1..n |-> IF i = j THEN One ELSE Zero]]
transpose(m) == [i \in Size(m) |-> [j \in Size(m) |-> m[j][i]]]
Product(a, b) == [i \in Size(a) |-> [j \in Size(a) |-> Dot(a[i], transpose(b)[j])]]
Swapped(m, i, j) == [m EXCEPT ![i] = m[j], ![j] = m[i]]

DiagonalPivot(a, j) == j    \* mistake: the pivot is what stands on the diagonal

(* The first of the rows from j on with the largest element in column j.   *)
PivotRow(a, j) ==
    CHOOSE i \in j..Len(a) :
        /\ \A k \in j..Len(a) : ~Larger(a[k][j], a[i][j])
        /\ \A k \in j..(i - 1) : Larger(a[i][j], a[k][j])

(* A column of Gauss-Jordan elimination. The code goes on with a pivot of  *)
(* zero after its message, to infinities and what is no number.            *)
Eliminated(s, j) ==
    LET p == PivotRow(s.a, j)
        a == Swapped(s.a, p, j)
        b == Swapped(s.b, p, j)
        Unit(m) == Divided(m[j], a[j][j])
        Cleared(m) == [i \in Size(m) |->
                          IF i = j THEN Unit(m) ELSE Difference(m[i], Scaled(a[i][j], Unit(m)))]
    IN  IF s.singular \/ a[j][j] = Zero THEN [s EXCEPT !.singular = TRUE]
        ELSE [a |-> Cleared(a), b |-> Cleared(b), singular |-> FALSE]

inverse(m) ==
    FoldLeft(Eliminated, [a |-> m, b |-> identity(Len(m)), singular |-> FALSE], [j \in Size(m) |-> j])

(* Of the size of v and one more, the last column v.                       *)
translation(v) ==
    [i \in 1..(Len(v) + 1) |-> [j \in 1..(Len(v) + 1) |->
        IF i = j THEN One ELSE IF j = Len(v) + 1 THEN v[i] ELSE Zero]]

scaling(v) ==
    [i \in 1..(Len(v) + 1) |-> [j \in 1..(Len(v) + 1) |->
        IF i # j THEN Zero ELSE IF i = Len(v) + 1 THEN One ELSE v[i]]]

perspective3D(d) == [identity(4) EXCEPT ![4] = <<Zero, Zero, Over(One, d), Zero>>]

(* The turns have a cosine c and a sine s that are fractions.              *)
rotation2D(Center, c, s) ==
    LET x == Center[1]
        y == Center[2]
        rest == Plus(One, Negative(c))
    IN  << <<c, Negative(s), Plus(Times(x, rest), Times(y, s))>>,
           <<s, c, Plus(Times(y, rest), Negative(Times(x, s)))>>,
           <<Zero, Zero, One>> >>

rotation3D(Axis, c, s) ==
    LET axis == normalize(Axis)
        skew == << <<Zero, Negative(axis[3]), axis[2]>>,
                   <<axis[3], Zero, Negative(axis[1])>>,
                   <<Negative(axis[2]), axis[1], Zero>> >>
        Turned(i, j) == Plus(Plus(Times(Times(Plus(One, Negative(c)), axis[i]), axis[j]),
                                  IF i = j THEN c ELSE Zero),
                             Times(s, skew[i][j]))
    IN  [i \in 1..4 |-> [j \in 1..4 |->
            IF i = 4 \/ j = 4 THEN (IF i = j THEN One ELSE Zero) ELSE Turned(i, j)]]

-------------------------------------------------------------------------------
(* Quaternions.                                                            *)

quat(v, s) == [v |-> v, s |-> s]
quat_identity == quat(<<Zero, Zero, Zero>>, One)

(* In the code's a.s*b.v + b.s*a.v + a.v^b.v the cross product is taken    *)
(* last, of the whole sum with b.v.                                        *)
quat_product(a, b) ==
    quat(Cross(Sum(Sum(Scaled(a.s, b.v), Scaled(b.s, a.v)), a.v), b.v),
         Plus(Times(a.s, b.s), Negative(Dot(a.v, b.v))))

(* With wx, wy and wz times sign: wz is added at the first row's second    *)
(* column, wx at the second's third and wy at the third's first, and       *)
(* subtracted across the diagonal.                                         *)
Turning(q, sign) ==
    LET v == q.v
        t == Over(Whole(2), Plus(Dot(v, v), Times(q.s, q.s)))
        w(i, j) == Times(Whole(IF (j - i) % 3 = 1 THEN sign ELSE -sign), Times(q.s, v[6 - i - j]))
        Entry(i, j) == IF i = j THEN Plus(One, Times(t, Plus(Times(v[i], v[i]), Negative(Dot(v, v)))))
                       ELSE Times(t, Plus(Times(v[i], v[j]), w(i, j)))
    IN  [i \in 1..4 |-> [j \in 1..4 |->
            IF i = 4 \/ j = 4 THEN (IF i = j THEN One ELSE Zero) ELSE Entry(i, j)]]

InverseTurning(q) == Turning(q, -1)    \* mistake: the matrix for vectors on its other side

to_mat4(q) == Turning(q, 1)
===============================================================================
