----------------------------- MODULE RequestQueue -----------------------------
(***************************************************************************)
(* What the buffer of csci4061/cache/server.c promises, without its ring,  *)
(* its lock and its condition variables: a bounded first-in first-out      *)
(* queue between dispatchers and workers.  No request is lost, duplicated  *)
(* or overtaken, and one worker at a time has a request in hand.           *)
(***************************************************************************)
EXTENDS Integers, Sequences

CONSTANTS
    Workers,         \* the worker threads
    Items,           \* the requests a dispatcher may put
    NoItem           \* stands for no request

VARIABLES
    capacity,        \* how many requests may be queued
    queue,           \* the requests put and not yet taken, oldest first
    serving          \* the request each worker has in hand

vars == <<capacity, queue, serving>>

Init ==
    /\ capacity \in Nat \ {0}
    /\ queue = <<>>
    /\ serving = [w \in Workers |-> NoItem]

Put(r) ==
    /\ Len(queue) < capacity
    /\ queue' = Append(queue, r)
    /\ UNCHANGED <<capacity, serving>>

Take(w) ==
    /\ queue # <<>>
    /\ \A v \in Workers : serving[v] = NoItem
    /\ serving' = [serving EXCEPT ![w] = Head(queue)]
    /\ queue' = Tail(queue)
    /\ UNCHANGED capacity

Done(w) ==
    /\ serving[w] # NoItem
    /\ serving' = [serving EXCEPT ![w] = NoItem]
    /\ UNCHANGED <<capacity, queue>>

Next ==
    \/ \E r \in Items : Put(r)
    \/ \E w \in Workers : Take(w) \/ Done(w)

Spec == Init /\ [][Next]_vars
===============================================================================
