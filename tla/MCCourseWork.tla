----------------------------- MODULE MCCourseWork -----------------------------
(***************************************************************************)
(* Small instances, each in a world of its own (part), of the components   *)
(* that run on their own.  With one thread: BrushWork with its tools at a  *)
(* smaller scale and points far enough apart for steps that are rounded    *)
(* short; the rotation ball and the matrices of GLUI; PriorityQueue with   *)
(* ties, a negative priority and the initial value 0 of the fields as a    *)
(* priority of its own; mergeSort on every short array of a few values; the*)
(* web server's FileCache with more files than slots, arguments on both    *)
(* sides of each clamp and a clock slow enough for ties.  With threads: its*)
(* RequestBuffer with arguments on both sides of each clamp and several    *)
(* threads of each kind.                                                   *)
(***************************************************************************)
EXTENDS BrushWork, Rotation, Transform, PriorityQueue, MergeSort,
        FileCache, RequestBuffer, TLC

CONSTANT MaxArray    \* bound on an array's length

VARIABLE part

MCMaskRow == [t \in Tools |-> CASE t = Pen -> 3 [] t = Eraser -> 5 [] t = SprayCan -> 7
                                [] t \in {CalligraphyPen, Highlighter} -> 3 [] OTHER -> 2]
MCMaskCol == [t \in Tools |-> CASE t = Pen -> 3 [] t = Eraser -> 5 [] t = SprayCan -> 7
                                [] t \in {CalligraphyPen, Highlighter} -> 9 [] OTHER -> 2]
MCOutline == {<<0, 0>>, <<0, 1>>, <<1, 0>>}
MCChannels == {"red", "green"}
MCPresets == "red" :> [c \in Channels |-> IF c = "red" THEN 1 ELSE 0]
             @@ "yellow" :> [c \in Channels |-> 1]
MCPoints == {<<0, 0>>, <<13, 0>>, <<-2, 1>>}
MCSteps == {-1, 2}

(* Where the ball's equation has fractional roots; the last is off it.     *)
MCBallPoints == {<<30, 30>>, <<70, -50>>, <<110, -10>>, <<270, 30>>}

MCComponents == {Zero, One, Whole(-2)}
MCTurns == {<<Zero, One>>, <<Zero, Whole(-1)>>, <<Whole(-1), Zero>>}
MCAxes == {vec(<<1, 2, 2>>), vec(<<0, 1, 0>>), vec(<<0, 3, 4>>)}

MCPriorities == -1 .. 3
MCArrays == UNION {[1 .. n -> 1 .. 3] : n \in 0 .. MaxArray}

MCCacheArgs == {-1, 1, 2, MAX_CACHE_SIZE + 1}
MCQueueArgs == {0, 1, MAX_QUEUE_SIZE + 1}

MCInit ==
    /\ part \in {"brushwork", "ball", "matrix", "queue", "sort", "cache", "ring"}
    /\ Init /\ \A c \in Unassigned : heart[c] \in IF part = "brushwork" THEN {"none", "full"} ELSE {"none"}
    /\ BallInit /\ (part = "ball" \/ ~can_spin)
    /\ TransformInit /\ (part = "matrix" \/ Len(mat) = 3)
    /\ QueueInit
    /\ toSort \in MCArrays /\ (part = "sort" \/ toSort = <<>>)
    /\ CacheInit /\ (part = "cache" \/ cache_size = 0)
    /\ BufferInit /\ (part = "ring" \/ queue_length = 1)

MCNext ==
    /\ UNCHANGED <<part, toSort>>
    /\ IF part = "brushwork" THEN Next ELSE UNCHANGED vars
    /\ IF part = "ball" THEN BallNext ELSE UNCHANGED ballVars
    /\ IF part = "matrix" THEN TransformNext ELSE UNCHANGED transformVars
    /\ IF part = "queue" THEN QueueNext ELSE UNCHANGED queueVars
    /\ IF part = "cache" THEN CacheNext ELSE UNCHANGED cacheVars
    /\ IF part = "ring" THEN BufferNext ELSE UNCHANGED bufferVars
===============================================================================
