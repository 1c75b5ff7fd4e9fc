----------------------------- MODULE PriorityQueue -----------------------------
(***************************************************************************)
(* csci1933/PriorityQueue.java: elements and their priorities in two       *)
(* parallel lists, in the order they were added, and two fields that are   *)
(* to tell the highest priority queued and the next one, maintained by     *)
(* addWithPriority and brought up to date by remove when the highest has   *)
(* run out.  Elements are not null.                                        *)
(***************************************************************************)
EXTENDS Integers, Sequences

CONSTANTS
    Elements,        \* what is queued
    Null,            \* what remove returns for an empty queue
    Failed,          \* an IndexOutOfBoundsException instead of a result
    Priorities,      \* the priorities given to addWithPriority
    MaxQueue           \* bound on the length of the queue

ASSUME PriorityAssumption ==
    /\ Null \notin Elements /\ Failed \notin Elements
    /\ Priorities \subseteq Int
    /\ MaxQueue \in Nat

VARIABLES
    queue,           \* the elements
    priorityIndex,   \* their priorities
    maxPriority,
    nextPriority,
    returned         \* what the last remove returned

queueVars == <<queue, priorityIndex, maxPriority, nextPriority, returned>>

QueueInit ==
    /\ queue = <<>>
    /\ priorityIndex = <<>>
    /\ maxPriority = 0
    /\ nextPriority = 0
    /\ returned = Null

Indices == 1 .. Len(priorityIndex)

AddIgnoringNext(element, priority) ==    \* mistake: nextPriority is left to remove
    /\ Len(queue) < MaxQueue
    /\ maxPriority' = IF priority >= maxPriority THEN priority ELSE maxPriority
    /\ queue' = Append(queue, element)
    /\ priorityIndex' = Append(priorityIndex, priority)
    /\ UNCHANGED <<nextPriority, returned>>

(* A new highest priority does not make the old one the next.              *)
addWithPriority(element, priority) ==
    /\ Len(queue) < MaxQueue
    /\ maxPriority' = IF priority >= maxPriority THEN priority ELSE maxPriority
    /\ nextPriority' =
          IF priority < maxPriority' /\ priority > nextPriority
          THEN priority ELSE nextPriority
    /\ queue' = Append(queue, element)
    /\ priorityIndex' = Append(priorityIndex, priority)
    /\ UNCHANGED returned

Queued(priority) == \E j \in Indices : priorityIndex[j] = priority

(* The scan that looks for the next priority below top, starting from 0.   *)
Below(top) == {0} \cup {priorityIndex[j] : j \in {k \in Indices :
                            priorityIndex[k] < top /\ priorityIndex[k] >= 0}}

NextBelow(top) == CHOOSE p \in Below(top) : \A q \in Below(top) : q <= p

(* When nothing of the highest priority is left, the next one takes over.  *)
Refresh ==
    IF Queued(maxPriority)
    THEN UNCHANGED <<maxPriority, nextPriority>>
    ELSE /\ maxPriority' = nextPriority
         /\ nextPriority' = NextBelow(nextPriority)

Without(list, i) == [j \in 1 .. Len(list) - 1 |-> list[IF j < i THEN j ELSE j + 1]]

Take(i) ==
    /\ returned' = queue[i]
    /\ queue' = Without(queue, i)
    /\ priorityIndex' = Without(priorityIndex, i)

LastWith(priority, i) ==    \* mistake: the scan goes from the end
    priorityIndex[i] = priority /\ \A j \in i + 1 .. Len(priorityIndex) : priorityIndex[j] # priority

FirstWith(priority, i) ==
    priorityIndex[i] = priority /\ \A j \in 1 .. i - 1 : priorityIndex[j] # priority

(* The scan fails, past the end of the lists, if nothing has maxPriority.  *)
remove ==
    \/ /\ queue = <<>>
       /\ returned' = Null
       /\ UNCHANGED <<queue, priorityIndex, maxPriority, nextPriority>>
    \/ /\ queue # <<>>
       /\ Refresh
       /\ \/ \E i \in Indices : FirstWith(maxPriority', i) /\ Take(i)
          \/ /\ ~Queued(maxPriority')
             /\ returned' = Failed
             /\ UNCHANGED <<queue, priorityIndex>>

QueueNext ==
    \/ \E e \in Elements, p \in Priorities : addWithPriority(e, p)
    \/ remove

QueueSpec == QueueInit /\ [][QueueNext]_queueVars

-------------------------------------------------------------------------------
Highest(p) == Queued(p) /\ \A j \in Indices : priorityIndex[j] <= p

(* The fields know the highest priority queued: it is maxPriority, or that *)
(* one has run out and it is nextPriority; and nothing between the two.    *)
Known ==
    /\ \A j \in Indices :
          priorityIndex[j] >= 0 /\ (priorityIndex[j] = maxPriority \/ priorityIndex[j] <= nextPriority)
    /\ nextPriority <= maxPriority
    /\ nextPriority > 0 => Queued(nextPriority)

(* While the fields know it, remove takes the first of the elements with   *)
(* the highest priority, and nothing else (PriorityQueueTest.testRemove:   *)
(* "Hello" and then "World!", both of priority 9).                         *)
RemoveTakesFirstHighest ==
    [][Known /\ queue # <<>> /\ Len(queue') <= Len(queue) =>
          \E i \in Indices :
              /\ Highest(priorityIndex[i])
              /\ \A j \in 1 .. i - 1 : priorityIndex[j] < priorityIndex[i]
              /\ returned' = queue[i]
              /\ queue' = Without(queue, i) /\ priorityIndex' = Without(priorityIndex, i)]_queueVars

(* An add that loses track: a priority above maxPriority while one above   *)
(* nextPriority is queued, or a negative priority.                         *)
LosesTrack(p) ==
    p < 0 \/ (p > maxPriority /\ \E j \in Indices : priorityIndex[j] > nextPriority)

(* Removes never make the fields lose track, and no other add does.        *)
StaysKnown ==
    [][Known => \/ Known'
                \/ /\ Len(priorityIndex') > Len(priorityIndex)
                   /\ LosesTrack(priorityIndex'[Len(priorityIndex')])]_queueVars
===============================================================================
