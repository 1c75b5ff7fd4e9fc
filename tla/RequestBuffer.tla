----------------------------- MODULE RequestBuffer -----------------------------
(***************************************************************************)
(* The request buffer of csci4061/cache/server.c and the threads that      *)
(* share it: dispatch() puts requests into the ring buffer[], worker()     *)
(* takes them out, both under the mutex buffer_access, with the condition  *)
(* variables buffer_empty and buffer_not_empty.                            *)
(*                                                                         *)
(* What a worker does with a request between taking it and the end of its  *)
(* loop (cache, disk, reply, log) is one state here, "serve"; WebServer    *)
(* takes it apart.  A thread blocked in pthread_cond_wait is at "wait"; a  *)
(* signal, or a spurious wakeup, brings it to "lock", where it competes    *)
(* for the mutex again before it re-tests the condition of its loop.       *)
(***************************************************************************)
EXTENDS Integers, Sequences, FiniteSets

CONSTANTS
    Dispatchers,     \* the threads that run dispatch()
    Workers,         \* the threads that run worker()
    Items,           \* the requests: a socket and a file name
    NoItem,          \* what a zeroed slot of the buffer holds
    NoThread,        \* the holder of an unlocked mutex
    MAX_QUEUE_SIZE,  \* slots of the static array
    QueueArgs        \* values of the queue_length argument of the program

Threads == Dispatchers \cup Workers

ASSUME BufferAssumption ==
    /\ Dispatchers # {}
    /\ Workers # {}
    /\ Dispatchers \cap Workers = {}
    /\ NoThread \notin Threads
    /\ NoItem \notin Items
    /\ MAX_QUEUE_SIZE \in Nat \ {0}
    /\ QueueArgs \subseteq Int

VARIABLES
    queue_length,    \* fixed once main has parsed it
    buffer,          \* the ring
    in,              \* the slot the next request goes to
    out,             \* the slot of the oldest request
    count,           \* how many requests are queued
    buffer_access,   \* the thread that holds the mutex
    pc,              \* where each thread is in its loop
    request          \* the request in a thread's local variables while it is
                     \* of use: from get_request to the ring, and from the ring
                     \* to the end of the worker's loop

ring == <<buffer, in, out, count>>
bufferVars == <<queue_length, buffer, in, out, count, buffer_access, pc, request>>

BufferSlots == 0 .. MAX_QUEUE_SIZE - 1

DispatcherSteps == {"accept", "get", "lock", "check", "wait", "signal", "exited"}
WorkerSteps == {"lock", "check", "wait", "serve"}
Critical == {"check", "signal", "serve"}

(* main's clamping of the queue_length argument.                           *)
QueueLengthOf(arg) ==
    IF arg <= 0 THEN 1
    ELSE IF arg > MAX_QUEUE_SIZE THEN MAX_QUEUE_SIZE ELSE arg

BufferInit ==
    /\ queue_length \in {QueueLengthOf(arg) : arg \in QueueArgs}
    /\ buffer = [i \in BufferSlots |-> NoItem]
    /\ in = 0
    /\ out = 0
    /\ count = 0
    /\ buffer_access = NoThread
    /\ pc = [t \in Threads |-> IF t \in Dispatchers THEN "accept" ELSE "lock"]
    /\ request = [t \in Threads |-> NoItem]

-------------------------------------------------------------------------------
(* Steps of both kinds of thread.                                          *)

Goto(t, step) == pc' = [pc EXCEPT ![t] = step]

(* pthread_mutex_lock, or the return from pthread_cond_wait.               *)
Lock(t) ==
    /\ pc[t] = "lock"
    /\ buffer_access = NoThread
    /\ buffer_access' = t
    /\ Goto(t, "check")
    /\ UNCHANGED <<queue_length, ring, request>>

(* pthread_cond_wait: unlock and sleep in one step.                        *)
Sleep(t) ==
    /\ buffer_access' = NoThread
    /\ Goto(t, "wait")
    /\ UNCHANGED <<queue_length, ring, request>>

Asleep(group) == {t \in group : pc[t] = "wait"}

(* pthread_cond_signal wakes one of the threads asleep on the condition,   *)
(* whichever the system picks, if there is one; then t moves on.           *)
SignalAndGoto(group, t, step) ==
    \/ /\ Asleep(group) = {}
       /\ Goto(t, step)
    \/ \E s \in Asleep(group) :
          pc' = [pc EXCEPT ![t] = step, ![s] = "lock"]

Unlock == buffer_access' = NoThread

SpuriousWithoutLock(t) ==    \* mistake: goes on without the mutex
    /\ pc[t] = "wait"
    /\ Goto(t, "check")
    /\ UNCHANGED <<queue_length, ring, buffer_access, request>>

(* pthread_cond_wait may return with no signal.                            *)
Spurious(t) ==
    /\ pc[t] = "wait"
    /\ Goto(t, "lock")
    /\ UNCHANGED <<queue_length, ring, buffer_access, request>>

-------------------------------------------------------------------------------
(* dispatch().                                                             *)

Accept(d) ==
    /\ pc[d] = "accept"
    /\ Goto(d, "get")
    /\ UNCHANGED <<queue_length, ring, buffer_access, request>>

AcceptFails(d) ==
    /\ pc[d] = "accept"
    /\ Goto(d, "exited")
    /\ UNCHANGED <<queue_length, ring, buffer_access, request>>

GetRequest(d, r) ==
    /\ pc[d] = "get"
    /\ Goto(d, "lock")
    /\ request' = [request EXCEPT ![d] = r]
    /\ UNCHANGED <<queue_length, ring, buffer_access>>

GetRequestFails(d) ==
    /\ pc[d] = "get"
    /\ Goto(d, "accept")
    /\ UNCHANGED <<queue_length, ring, buffer_access, request>>

WaitWhileFull(d) ==
    /\ pc[d] = "check"
    /\ count = queue_length
    /\ Sleep(d)

EnqueueWrappingLate(d) ==    \* mistake: wraps at the end of the array
    /\ pc[d] = "check"
    /\ count # queue_length
    /\ buffer' = [buffer EXCEPT ![in] = request[d]]
    /\ in' = (in + 1) % MAX_QUEUE_SIZE
    /\ count' = count + 1
    /\ request' = [request EXCEPT ![d] = NoItem]
    /\ Goto(d, "signal")
    /\ UNCHANGED <<queue_length, out, buffer_access>>

Enqueue(d) ==
    /\ pc[d] = "check"
    /\ count # queue_length
    /\ buffer' = [buffer EXCEPT ![in] = request[d]]
    /\ in' = (in + 1) % queue_length
    /\ count' = count + 1
    /\ request' = [request EXCEPT ![d] = NoItem]
    /\ Goto(d, "signal")
    /\ UNCHANGED <<queue_length, out, buffer_access>>

SignalOwnKind(d) ==    \* mistake: signals the other condition
    /\ pc[d] = "signal"
    /\ SignalAndGoto(Dispatchers, d, "accept")
    /\ Unlock
    /\ UNCHANGED <<queue_length, ring, request>>

SignalNotEmpty(d) ==
    /\ pc[d] = "signal"
    /\ SignalAndGoto(Workers, d, "accept")
    /\ Unlock
    /\ UNCHANGED <<queue_length, ring, request>>

-------------------------------------------------------------------------------
(* worker().                                                               *)

WaitWhileEmpty(w) ==
    /\ pc[w] = "check"
    /\ count = 0
    /\ Sleep(w)

DequeueAdvancingFirst(w) ==    \* mistake: moves out, then reads the slot
    /\ pc[w] = "check"
    /\ count # 0
    /\ request' = [request EXCEPT ![w] = buffer[(out + 1) % queue_length]]
    /\ out' = (out + 1) % queue_length
    /\ count' = count - 1
    /\ Goto(w, "serve")
    /\ UNCHANGED <<queue_length, buffer, in, buffer_access>>

Dequeue(w) ==
    /\ pc[w] = "check"
    /\ count # 0
    /\ request' = [request EXCEPT ![w] = buffer[out]]
    /\ out' = (out + 1) % queue_length
    /\ count' = count - 1
    /\ Goto(w, "serve")
    /\ UNCHANGED <<queue_length, buffer, in, buffer_access>>

FinishOnceNotFull(w) ==    \* mistake: signals only when a full buffer gets room
    /\ pc[w] = "serve"
    /\ IF count = queue_length - 1
       THEN SignalAndGoto(Dispatchers, w, "lock") ELSE Goto(w, "lock")
    /\ Unlock
    /\ request' = [request EXCEPT ![w] = NoItem]
    /\ UNCHANGED <<queue_length, ring>>

FinishCountingItsOwn(w) ==    \* mistake: counts the request it has taken
    /\ pc[w] = "serve"
    /\ IF count = 1 THEN SignalAndGoto(Dispatchers, w, "lock") ELSE Goto(w, "lock")
    /\ Unlock
    /\ request' = [request EXCEPT ![w] = NoItem]
    /\ UNCHANGED <<queue_length, ring>>

(* The end of the loop: buffer_empty is signalled by a worker that leaves  *)
(* the buffer empty, and by no other.                                      *)
Finish(w) ==
    /\ pc[w] = "serve"
    /\ IF count = 0 THEN SignalAndGoto(Dispatchers, w, "lock") ELSE Goto(w, "lock")
    /\ Unlock
    /\ request' = [request EXCEPT ![w] = NoItem]
    /\ UNCHANGED <<queue_length, ring>>

-------------------------------------------------------------------------------
DispatcherStep(d) ==
    \/ Accept(d)
    \/ AcceptFails(d)
    \/ \E r \in Items : GetRequest(d, r)
    \/ GetRequestFails(d)
    \/ WaitWhileFull(d)
    \/ Enqueue(d)
    \/ SignalNotEmpty(d)

WorkerStep(w) ==
    \/ WaitWhileEmpty(w)
    \/ Dequeue(w)
    \/ Finish(w)

BufferNext ==
    \/ \E t \in Threads : Lock(t) \/ Spurious(t)
    \/ \E d \in Dispatchers : DispatcherStep(d)
    \/ \E w \in Workers : WorkerStep(w)

BufferSpec == BufferInit /\ [][BufferNext]_bufferVars

(* Fairness.  A thread inside the critical section is scheduled until it   *)
(* leaves it, and a free mutex that some thread wants is given to one of   *)
(* them: nothing says to which.  Nothing makes a client connect or an      *)
(* accept succeed.  Spurious wakeups may happen, but do not go on forever. *)
Fairness ==
    /\ \A d \in Dispatchers :
          WF_bufferVars(WaitWhileFull(d) \/ Enqueue(d) \/ SignalNotEmpty(d))
    /\ \A w \in Workers : WF_bufferVars(WorkerStep(w))
    /\ WF_bufferVars(\E t \in Threads : Lock(t))
    /\ <>[][~ \E t \in Threads : Spurious(t)]_bufferVars

FairSpec == BufferSpec /\ Fairness

-------------------------------------------------------------------------------
(* Every variable has the shape the code declares; the indices stay inside *)
(* the part of the array in use and count never exceeds queue_length, even *)
(* though each thread tests it before a wait that may end at any time.     *)
BufferTypeOK ==
    /\ queue_length \in 1 .. MAX_QUEUE_SIZE
    /\ buffer \in [BufferSlots -> Items \cup {NoItem}]
    /\ in \in 0 .. queue_length - 1
    /\ out \in 0 .. queue_length - 1
    /\ count \in 0 .. queue_length
    /\ buffer_access \in Threads \cup {NoThread}
    /\ pc \in [Threads -> DispatcherSteps \cup WorkerSteps]
    /\ \A d \in Dispatchers : pc[d] \in DispatcherSteps
    /\ \A w \in Workers : pc[w] \in WorkerSteps
    /\ request \in [Threads -> Items \cup {NoItem}]

(* A thread is between lock and unlock exactly when it holds the mutex, so *)
(* no two threads touch the ring, the cache or the log at once, whatever   *)
(* the order of waits, signals and spurious wakeups.                       *)
MutualExclusion ==
    \A t \in Threads : pc[t] \in Critical <=> buffer_access = t

(* The slot that holds the k-th oldest request, counting from 0.           *)
SlotOf(k) == (out + k) % queue_length

Occupied == {SlotOf(k) : k \in 0 .. count - 1}

(* in, out and count agree, every occupied slot holds a request that a     *)
(* dispatcher put there, and the threads that have one in hand are those   *)
(* on their way to enqueue it or serving it.                               *)
RingShape ==
    /\ in = SlotOf(count)
    /\ \A k \in 0 .. count - 1 : buffer[SlotOf(k)] \in Items
    /\ \A d \in Dispatchers : pc[d] \in {"lock", "check", "wait"} <=> request[d] # NoItem
    /\ \A w \in Workers : pc[w] = "serve" <=> request[w] # NoItem

(* No lost wakeup on buffer_not_empty: while requests are queued, the      *)
(* workers are not all asleep, unless the signal is just about to be sent. *)
WorkerNotForgotten ==
    count > 0 => \/ \E w \in Workers : pc[w] # "wait"
                 \/ \E d \in Dispatchers : pc[d] = "signal"

(* No lost wakeup on buffer_empty: while the buffer is empty, dispatchers  *)
(* sleep on it only if a worker is still to signal them, or if another     *)
(* dispatcher is on its way to enqueue a request, whose worker will.       *)
DispatcherNotForgotten ==
    count = 0 /\ Asleep(Dispatchers) # {} =>
        \/ \E w \in Workers : pc[w] = "serve"
        \/ \E d \in Dispatchers : pc[d] \in {"lock", "check"}

(* The ring, the mutex and the two conditions implement the bounded FIFO   *)
(* queue of RequestQueue: every request put is taken once, in order, by    *)
(* one worker, and only while no other worker is serving one.              *)
QueuedItems == [k \in 1 .. count |-> buffer[SlotOf(k - 1)]]

Serving == [w \in Workers |-> request[w]]

Queue == INSTANCE RequestQueue
    WITH capacity <- queue_length, queue <- QueuedItems, serving <- Serving

ImplementsQueue == Queue!Spec

(* Once every dispatcher has exited, the workers exit too when they have   *)
(* emptied the queue: util.h:24-27 asks for it, "Upon all dispatch threads *)
(* exiting: all worker threads should exit when the request queue has      *)
(* become emptied".                                                        *)
WorkersExit ==
    (\A d \in Dispatchers : pc[d] = "exited") ~> (\A w \in Workers : pc[w] = "exited")
===============================================================================
