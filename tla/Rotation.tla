-------------------------------- MODULE Rotation --------------------------------
(***************************************************************************)
(* A GLUI_Rotation and its Arcball: the mouse drags a ball, which may go   *)
(* on spinning when GLUI is idle. Every handler takes the matrix over from *)
(* the control's array and, if it turned it, gives it back, so one         *)
(* variable, rot, is both. The keys that hold an axis still are left out,  *)
(* and a ball that spins does so without damping.                          *)
(***************************************************************************)
EXTENDS Algebra

CONSTANTS
    CtlWidth, CtlHeight,    \* w and h
    BallPoints,             \* where the mouse is, from the control's corner
    MaxEvents               \* bound: how many events there are

VARIABLES
    rot, q_now, q_drag, q_increment, down_pt,
    is_mouse_down, is_spinning, can_spin,
    press,                  \* is the button down, where was it pressed, the matrix then, did moves alone turn the ball since?
    events

ballVars == <<rot, q_now, q_drag, q_increment, down_pt, is_mouse_down, is_spinning, can_spin, press, events>>

center == <<CtlWidth \div 2, (CtlHeight - 18) \div 2>>
radius == 2 * (CtlHeight - 18)

(* Upwards in the control, downwards in its window.                        *)
Flipped(p) == <<p[1], 2 * center[2] - p[2]>>

mouse_to_sphere(p) ==
    LET x == Ratio(p[1] - center[1], radius)
        y == Ratio(p[2] - center[2], radius)
        mag == Plus(Times(x, x), Times(y, y))
        rest == Plus(One, Negative(mag))
    IN  IF rest[1] < 0 THEN normalize(<<x, y, Zero>>) ELSE <<x, y, Root(rest)>>

Drag(from, to) ==
    LET v0 == mouse_to_sphere(from)
        v1 == mouse_to_sphere(to)
    IN  quat(Cross(v0, v1), Dot(v0, v1))

(* The program has called set_spin, or not.                                *)
BallInit ==
    /\ rot = identity(4)
    /\ q_now = quat_identity /\ q_drag = quat_identity /\ q_increment = quat_identity
    /\ down_pt = center
    /\ is_mouse_down = FALSE /\ is_spinning = FALSE
    /\ can_spin \in BOOLEAN
    /\ press = [down |-> FALSE, pt |-> center, rot |-> identity(4), alone |-> TRUE]
    /\ events = 0

BallDown ==
    /\ ~press.down
    /\ \E p \in BallPoints :
        /\ down_pt' = Flipped(p)
        /\ press' = [down |-> TRUE, pt |-> Flipped(p), rot |-> rot, alone |-> TRUE]
    /\ is_mouse_down' = TRUE
    /\ q_increment' = quat_identity
    /\ UNCHANGED <<rot, q_now, q_drag, is_spinning>>

(* A move turns the ball by twice the arc that it is on the sphere.        *)
BallHeld ==
    /\ press.down
    /\ \E p \in BallPoints :
        LET q == Drag(down_pt, Flipped(p))
        IN  /\ q_drag' = q /\ q_increment' = q
            /\ rot' = Product(rot, to_mat4(q))
            /\ is_spinning' = (q.s # One)
            /\ down_pt' = Flipped(p)
    /\ UNCHANGED <<q_now, is_mouse_down, press>>

BallUp ==
    /\ press.down
    /\ press' = [press EXCEPT !.down = FALSE]
    /\ is_mouse_down' = FALSE
    /\ q_now' = quat_product(q_drag, q_now)
    /\ UNCHANGED <<rot, q_drag, q_increment, down_pt, is_spinning>>

(* Once more after a move, if the button is still down.                    *)
BallIdle ==
    /\ can_spin /\ is_spinning
    /\ is_spinning' = (~is_mouse_down /\ q_increment.s # One)
    /\ rot' = Product(rot, to_mat4(q_increment))
    /\ press' = [press EXCEPT !.alone = FALSE]
    /\ UNCHANGED <<q_now, q_drag, q_increment, down_pt, is_mouse_down>>

(* By the program, also while the button is down.                          *)
BallReset ==
    /\ rot' = identity(4)
    /\ q_now' = quat_identity /\ q_increment' = quat_identity
    /\ is_mouse_down' = FALSE /\ is_spinning' = FALSE
    /\ press' = [press EXCEPT !.alone = (~press.down)]
    /\ UNCHANGED <<q_drag, down_pt>>

BallNext ==
    /\ events < MaxEvents /\ events' = events + 1
    /\ UNCHANGED can_spin
    /\ BallDown \/ BallHeld \/ BallUp \/ BallIdle \/ BallReset

-------------------------------------------------------------------------------
(* Where the ball is while it is dragged depends only on where the mouse   *)
(* was pressed and is now, on no point between (arcball.cpp:152; what      *)
(* Shoemake's arcball, which arcball.h:31 names, is known for): the moves  *)
(* are turned into matrices one by one, each from where the last one       *)
(* ended, and multiply to the one of the whole. Not after an idle call     *)
(* that came in between, which turns the ball once more by the last move.  *)
PathDoesNotMatter ==
    press.down /\ press.alone => rot = Product(press.rot, to_mat4(Drag(press.pt, down_pt)))

(* "The current rotation is stored in the 4x4 float matrix 'rot'. It is    *)
(* also stored in the quaternion 'q_now'." (arcball.h:50), here when no    *)
(* button is down and nothing has spun.                                    *)
QuaternionIsRotation == ~press.down /\ ~can_spin /\ press.alone => to_mat4(q_now) = rot
===============================================================================
