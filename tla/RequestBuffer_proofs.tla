-------------------------- MODULE RequestBuffer_proofs --------------------------
(***************************************************************************)
(* Proofs about RequestBuffer, for any number of threads, any queue length *)
(* and any requests: the shape of its state, mutual exclusion, that the    *)
(* ring is a queue, and that no wakeup is lost.                            *)
(***************************************************************************)
EXTENDS RequestBuffer, SequenceTheorems, TLAPS

USE BufferAssumption

-------------------------------------------------------------------------------
(* Arithmetic of the ring.                                                 *)

(* An index stays inside the part of the ring in use.                      *)
LEMMA ModInRange ==
    ASSUME NEW a \in Nat, NEW n \in Nat \ {0}
    PROVE  a % n \in 0 .. n - 1
  BY SMT

(* Where the k-th slot after a lies, with no modulus.                      *)
LEMMA ModCases ==
    ASSUME NEW n \in Nat \ {0}, NEW a \in 0 .. n - 1, NEW k \in 0 .. n
    PROVE  (a + k) % n = IF a + k < n THEN a + k ELSE a + k - n
  BY SMT

(* Slots less than a whole turn apart are different.                       *)
LEMMA ModInjective ==
    ASSUME NEW n \in Nat \ {0}, NEW a \in 0 .. n - 1,
           NEW j \in 0 .. n - 1, NEW k \in 0 .. n - 1,
           (a + j) % n = (a + k) % n
    PROVE  j = k
  <1>1. (a + j) % n = IF a + j < n THEN a + j ELSE a + j - n
    BY SMT
  <1>2. (a + k) % n = IF a + k < n THEN a + k ELSE a + k - n
    BY SMT
  <1> QED
    BY <1>1, <1>2

(* Counting from the next slot is counting one further.                    *)
LEMMA ModShift ==
    ASSUME NEW n \in Nat \ {0}, NEW a \in 0 .. n - 1, NEW k \in 0 .. n - 1
    PROVE  (((a + 1) % n) + k) % n = (a + (k + 1)) % n
  <1>1. CASE a + 1 < n
    <2>1. (a + 1) % n = a + 1
      BY <1>1, SMT
    <2> QED
      BY <2>1
  <1>2. CASE a + 1 = n
    <2>1. (a + 1) % n = 0
      BY <1>2, SMT
    <2>2. (0 + k) % n = k
      BY SMT
    <2>3. (a + (k + 1)) % n = k
      BY <1>2, SMT
    <2> QED
      BY <2>1, <2>2, <2>3
  <1> QED
    BY <1>1, <1>2

(* The slot after the k-th one is the next.                                *)
LEMMA ModNext ==
    ASSUME NEW n \in Nat \ {0}, NEW a \in 0 .. n - 1, NEW k \in 0 .. n - 1
    PROVE  (((a + k) % n) + 1) % n = (a + (k + 1)) % n
  <1>1. CASE a + k < n
    <2>1. (a + k) % n = a + k
      BY <1>1, SMT
    <2> QED
      BY <2>1
  <1>2. CASE a + k >= n
    <2>1. (a + k) % n = a + k - n /\ a + k - n + 1 < n
      BY <1>2, SMT
    <2>2. (a + k - n + 1) % n = a + k - n + 1
      BY <2>1, <1>2, SMT
    <2>3. (a + (k + 1)) % n = a + k - n + 1
      BY <1>2, <2>1, SMT
    <2> QED
      BY <2>1, <2>2, <2>3
  <1> QED
    BY <1>1, <1>2

-------------------------------------------------------------------------------
(* Type correctness.                                                       *)

(* main's clamping yields a length between 1 and the size of the array.    *)
LEMMA QueueLengthClamped ==
    ASSUME NEW arg \in Int
    PROVE  QueueLengthOf(arg) \in 1 .. MAX_QUEUE_SIZE
  BY DEF QueueLengthOf

LEMMA InitTypeOK == BufferInit => BufferTypeOK
  <1> SUFFICES ASSUME BufferInit PROVE BufferTypeOK
    OBVIOUS
  <1>1. queue_length \in 1 .. MAX_QUEUE_SIZE
    BY QueueLengthClamped DEF BufferInit
  <1> QED
    BY <1>1 DEF BufferInit, BufferTypeOK, BufferSlots, Threads, DispatcherSteps, WorkerSteps

(* A signal moves its sender and at most one sleeper of the group.         *)
LEMMA SignalTypeOK ==
    ASSUME BufferTypeOK,
           NEW group \in {Dispatchers, Workers},
           NEW t \in Threads, NEW step,
           t \in Dispatchers => step \in DispatcherSteps,
           t \in Workers => step \in WorkerSteps,
           SignalAndGoto(group, t, step)
    PROVE  /\ pc' \in [Threads -> DispatcherSteps \cup WorkerSteps]
           /\ \A d \in Dispatchers : pc'[d] \in DispatcherSteps
           /\ \A w \in Workers : pc'[w] \in WorkerSteps
  <1>1. CASE Asleep(group) = {} /\ Goto(t, step)
    BY <1>1 DEF BufferTypeOK, Goto, Threads, DispatcherSteps, WorkerSteps
  <1>2. CASE \E s \in Asleep(group) : pc' = [pc EXCEPT ![t] = step, ![s] = "lock"]
    BY <1>2 DEF BufferTypeOK, Asleep, Threads, DispatcherSteps, WorkerSteps
  <1> QED
    BY <1>1, <1>2 DEF SignalAndGoto

LEMMA NextTypeOK == BufferTypeOK /\ [BufferNext]_bufferVars => BufferTypeOK'
  <1> SUFFICES ASSUME BufferTypeOK, [BufferNext]_bufferVars PROVE BufferTypeOK'
    OBVIOUS
  <1> USE DEF BufferTypeOK, ring
  <1>1. ASSUME NEW t \in Threads, Lock(t) PROVE BufferTypeOK'
    BY <1>1 DEF Lock, Goto, Threads, DispatcherSteps, WorkerSteps
  <1>2. ASSUME NEW t \in Threads, Spurious(t) PROVE BufferTypeOK'
    BY <1>2 DEF Spurious, Goto, Threads, DispatcherSteps, WorkerSteps
  <1>3. ASSUME NEW d \in Dispatchers, Accept(d) PROVE BufferTypeOK'
    BY <1>3 DEF Accept, Goto, Threads, DispatcherSteps
  <1>4. ASSUME NEW d \in Dispatchers, AcceptFails(d) PROVE BufferTypeOK'
    BY <1>4 DEF AcceptFails, Goto, Threads, DispatcherSteps
  <1>5. ASSUME NEW d \in Dispatchers, NEW r \in Items, GetRequest(d, r) PROVE BufferTypeOK'
    BY <1>5 DEF GetRequest, Goto, Threads, DispatcherSteps
  <1>6. ASSUME NEW d \in Dispatchers, GetRequestFails(d) PROVE BufferTypeOK'
    BY <1>6 DEF GetRequestFails, Goto, Threads, DispatcherSteps
  <1>7. ASSUME NEW d \in Dispatchers, WaitWhileFull(d) PROVE BufferTypeOK'
    BY <1>7 DEF WaitWhileFull, Sleep, Goto, Threads, DispatcherSteps
  <1>8. ASSUME NEW d \in Dispatchers, Enqueue(d) PROVE BufferTypeOK'
    <2>1. in' \in 0 .. queue_length' - 1
      BY <1>8, ModInRange DEF Enqueue
    <2>2. count' \in 0 .. queue_length'
      BY <1>8 DEF Enqueue
    <2>3. buffer' \in [BufferSlots -> Items \cup {NoItem}]
      BY <1>8 DEF Enqueue, Threads
    <2> QED
      BY <1>8, <2>1, <2>2, <2>3 DEF Enqueue, Goto, Threads, DispatcherSteps
  <1>9. ASSUME NEW d \in Dispatchers, SignalNotEmpty(d) PROVE BufferTypeOK'
    <2>1. d \in Threads /\ "accept" \in DispatcherSteps /\ SignalAndGoto(Workers, d, "accept")
      BY <1>9 DEF SignalNotEmpty, Threads, DispatcherSteps
    <2>2. /\ pc' \in [Threads -> DispatcherSteps \cup WorkerSteps]
          /\ \A e \in Dispatchers : pc'[e] \in DispatcherSteps
          /\ \A w \in Workers : pc'[w] \in WorkerSteps
      BY <2>1, SignalTypeOK
    <2> QED
      BY <1>9, <2>2 DEF SignalNotEmpty, Unlock
  <1>10. ASSUME NEW w \in Workers, WaitWhileEmpty(w) PROVE BufferTypeOK'
    BY <1>10 DEF WaitWhileEmpty, Sleep, Goto, Threads, WorkerSteps
  <1>11. ASSUME NEW w \in Workers, Dequeue(w) PROVE BufferTypeOK'
    <2>1. out' \in 0 .. queue_length' - 1
      BY <1>11, ModInRange DEF Dequeue
    <2>2. count' \in 0 .. queue_length'
      BY <1>11 DEF Dequeue
    <2>3. request' \in [Threads -> Items \cup {NoItem}]
      <3>1. buffer[out] \in Items \cup {NoItem}
        BY DEF BufferSlots
      <3> QED
        BY <1>11, <3>1 DEF Dequeue
    <2> QED
      BY <1>11, <2>1, <2>2, <2>3 DEF Dequeue, Goto, Threads, WorkerSteps
  <1>12. ASSUME NEW w \in Workers, Finish(w) PROVE BufferTypeOK'
    <2>1. /\ pc' \in [Threads -> DispatcherSteps \cup WorkerSteps]
          /\ \A d \in Dispatchers : pc'[d] \in DispatcherSteps
          /\ \A v \in Workers : pc'[v] \in WorkerSteps
      <3>1. CASE count = 0
        <4>1. w \in Threads /\ "lock" \in WorkerSteps /\ SignalAndGoto(Dispatchers, w, "lock")
          BY <1>12, <3>1 DEF Finish, Threads, WorkerSteps
        <4> QED
          BY <4>1, SignalTypeOK
      <3>2. CASE count # 0
        BY <1>12, <3>2 DEF Finish, Goto, Threads, WorkerSteps
      <3> QED
        BY <3>1, <3>2
    <2> QED
      BY <1>12, <2>1 DEF Finish, Unlock
  <1>13. CASE UNCHANGED bufferVars
    BY <1>13 DEF bufferVars
  <1> QED
    BY <1>1, <1>2, <1>3, <1>4, <1>5, <1>6, <1>7, <1>8, <1>9, <1>10, <1>11, <1>12, <1>13
    DEF BufferNext, DispatcherStep, WorkerStep

(* The state of the buffer keeps its shape: indices in range, count within *)
(* the configured length, each thread at a step of its own loop.           *)
THEOREM TypeCorrect == BufferSpec => []BufferTypeOK
  BY InitTypeOK, NextTypeOK, PTL DEF BufferSpec

-------------------------------------------------------------------------------
(* The mutex.                                                              *)

(* What a signal does to the threads: its sender moves, one sleeper of the *)
(* group wakes if there is one, and every other thread stays where it is.  *)
LEMMA SignalEffect ==
    ASSUME BufferTypeOK,
           NEW group \in {Dispatchers, Workers},
           NEW t \in Threads, NEW step,
           pc[t] # "wait",
           SignalAndGoto(group, t, step)
    PROVE  /\ pc'[t] = step
           /\ \A u \in Threads \ {t} :
                 \/ pc'[u] = pc[u]
                 \/ u \in group /\ pc[u] = "wait" /\ pc'[u] = "lock"
           /\ Asleep(group) # {} => \E s \in group : pc[s] = "wait" /\ pc'[s] = "lock"
  <1> USE DEF BufferTypeOK, Threads
  <1>1. CASE Asleep(group) = {} /\ Goto(t, step)
    BY <1>1 DEF Goto
  <1>2. ASSUME NEW s \in Asleep(group), pc' = [pc EXCEPT ![t] = step, ![s] = "lock"]
        PROVE  /\ pc'[t] = step
               /\ \A u \in Threads \ {t} :
                     \/ pc'[u] = pc[u]
                     \/ u \in group /\ pc[u] = "wait" /\ pc'[u] = "lock"
               /\ Asleep(group) # {} => \E v \in group : pc[v] = "wait" /\ pc'[v] = "lock"
    <2>1. s \in group /\ s \in Threads /\ pc[s] = "wait" /\ s # t
      BY <1>2 DEF Asleep
    <2>2. pc'[s] = "lock" /\ pc'[t] = step
      BY <1>2, <2>1
    <2>3. \A u \in Threads \ {t, s} : pc'[u] = pc[u]
      BY <1>2
    <2> QED
      BY <2>1, <2>2, <2>3
  <1> QED
    BY <1>1, <1>2 DEF SignalAndGoto

(* What the end of a worker's loop does to the threads: the worker is back *)
(* at the lock, and if it leaves the buffer empty it wakes a dispatcher.   *)
LEMMA FinishEffect ==
    ASSUME BufferTypeOK, NEW w \in Workers, Finish(w)
    PROVE  /\ pc'[w] = "lock"
           /\ \A u \in Threads \ {w} :
                 \/ pc'[u] = pc[u]
                 \/ u \in Dispatchers /\ pc[u] = "wait" /\ pc'[u] = "lock"
           /\ count = 0 /\ Asleep(Dispatchers) # {} =>
                 \E d \in Dispatchers : pc[d] = "wait" /\ pc'[d] = "lock"
  <1>1. w \in Threads /\ pc[w] = "serve"
    BY DEF Finish, Threads
  <1>2. CASE count = 0
    <2>1. SignalAndGoto(Dispatchers, w, "lock")
      BY <1>2 DEF Finish
    <2> QED
      BY <1>1, <2>1, SignalEffect
  <1>3. CASE count # 0
    BY <1>1, <1>3 DEF Finish, Goto, BufferTypeOK
  <1> QED
    BY <1>2, <1>3

LEMMA InitMutualExclusion == BufferInit => MutualExclusion
  BY DEF BufferInit, MutualExclusion, Critical

LEMMA NextMutualExclusion ==
    BufferTypeOK /\ MutualExclusion /\ [BufferNext]_bufferVars => MutualExclusion'
  <1> SUFFICES ASSUME BufferTypeOK, MutualExclusion, [BufferNext]_bufferVars PROVE MutualExclusion'
    OBVIOUS
  <1> USE DEF BufferTypeOK, MutualExclusion, Critical
  <1>1. ASSUME NEW t \in Threads, Lock(t) PROVE MutualExclusion'
    BY <1>1 DEF Lock, Goto
  <1>2. ASSUME NEW t \in Threads, Spurious(t) PROVE MutualExclusion'
    BY <1>2 DEF Spurious, Goto
  <1>3. ASSUME NEW d \in Dispatchers, Accept(d) PROVE MutualExclusion'
    BY <1>3 DEF Accept, Goto, Threads
  <1>4. ASSUME NEW d \in Dispatchers, AcceptFails(d) PROVE MutualExclusion'
    BY <1>4 DEF AcceptFails, Goto, Threads
  <1>5. ASSUME NEW d \in Dispatchers, NEW r \in Items, GetRequest(d, r) PROVE MutualExclusion'
    BY <1>5 DEF GetRequest, Goto, Threads
  <1>6. ASSUME NEW d \in Dispatchers, GetRequestFails(d) PROVE MutualExclusion'
    BY <1>6 DEF GetRequestFails, Goto, Threads
  <1>7. ASSUME NEW d \in Dispatchers, WaitWhileFull(d) PROVE MutualExclusion'
    BY <1>7 DEF WaitWhileFull, Sleep, Goto, Threads
  <1>8. ASSUME NEW d \in Dispatchers, Enqueue(d) PROVE MutualExclusion'
    BY <1>8 DEF Enqueue, Goto, Threads
  <1>9. ASSUME NEW d \in Dispatchers, SignalNotEmpty(d) PROVE MutualExclusion'
    <2>1. /\ d \in Threads /\ pc[d] = "signal" /\ SignalAndGoto(Workers, d, "accept")
          /\ buffer_access' = NoThread
      BY <1>9 DEF SignalNotEmpty, Unlock, Threads
    <2>2. /\ pc'[d] = "accept"
          /\ \A u \in Threads \ {d} :
                pc'[u] = pc[u] \/ (pc[u] = "wait" /\ pc'[u] = "lock")
      BY <2>1, SignalEffect
    <2> QED
      BY <2>1, <2>2
  <1>10. ASSUME NEW w \in Workers, WaitWhileEmpty(w) PROVE MutualExclusion'
    BY <1>10 DEF WaitWhileEmpty, Sleep, Goto, Threads
  <1>11. ASSUME NEW w \in Workers, Dequeue(w) PROVE MutualExclusion'
    BY <1>11 DEF Dequeue, Goto, Threads
  <1>12. ASSUME NEW w \in Workers, Finish(w) PROVE MutualExclusion'
    <2>1. w \in Threads /\ pc[w] = "serve" /\ buffer_access' = NoThread
      BY <1>12 DEF Finish, Unlock, Threads
    <2>2. /\ pc'[w] = "lock"
          /\ \A u \in Threads \ {w} :
                pc'[u] = pc[u] \/ (pc[u] = "wait" /\ pc'[u] = "lock")
      BY <1>12, FinishEffect
    <2> QED
      BY <2>1, <2>2
  <1>13. CASE UNCHANGED bufferVars
    BY <1>13 DEF bufferVars
  <1> QED
    BY <1>1, <1>2, <1>3, <1>4, <1>5, <1>6, <1>7, <1>8, <1>9, <1>10, <1>11, <1>12, <1>13
    DEF BufferNext, DispatcherStep, WorkerStep

(* At most one thread is between lock and unlock, and it is the holder of  *)
(* buffer_access, for any number of dispatchers and workers.               *)
THEOREM MutexHeld == BufferSpec => []MutualExclusion
  <1>1. BufferInit => BufferTypeOK /\ MutualExclusion
    BY InitTypeOK, InitMutualExclusion
  <1>2. BufferTypeOK /\ MutualExclusion /\ [BufferNext]_bufferVars => (BufferTypeOK /\ MutualExclusion)'
    BY NextTypeOK, NextMutualExclusion
  <1> QED
    BY <1>1, <1>2, PTL DEF BufferSpec

-------------------------------------------------------------------------------
(* The ring.  Only Enqueue and Dequeue move in, out or count.              *)

(* An empty ring starts at slot 0, and nobody has a request in hand.       *)
LEMMA InitRingShape == BufferInit => RingShape
  <1> SUFFICES ASSUME BufferInit PROVE RingShape
    OBVIOUS
  <1>1. BufferTypeOK
    BY InitTypeOK
  <1>2. in = SlotOf(count)
    <2>1. (0 + 0) % queue_length = 0
      BY <1>1, SMT DEF BufferTypeOK
    <2> QED
      BY <2>1 DEF BufferInit, SlotOf
  <1> QED
    BY <1>2 DEF BufferInit, RingShape, Threads

(* A step that leaves the ring alone keeps the two conjuncts about it.     *)
LEMMA RingUnchanged ==
    ASSUME RingShape, UNCHANGED <<queue_length, ring>>
    PROVE  /\ in' = SlotOf(count)'
           /\ \A k \in 0 .. count' - 1 : buffer'[SlotOf(k)'] \in Items
  BY DEF RingShape, ring, SlotOf

LEMMA NextRingShape ==
    BufferTypeOK /\ RingShape /\ [BufferNext]_bufferVars => RingShape'
  <1> SUFFICES ASSUME BufferTypeOK, RingShape, [BufferNext]_bufferVars PROVE RingShape'
    OBVIOUS
  <1>a. ASSUME UNCHANGED <<queue_length, ring>>,
               \A d \in Dispatchers :
                  pc'[d] \in {"lock", "check", "wait"} <=> request'[d] # NoItem,
               \A w \in Workers : pc'[w] = "serve" <=> request'[w] # NoItem
        PROVE  RingShape'
    <2>1. /\ in' = SlotOf(count)'
          /\ \A k \in 0 .. count' - 1 : buffer'[SlotOf(k)'] \in Items
      BY <1>a, RingUnchanged
    <2> QED
      BY <1>a, <2>1 DEF RingShape
  <1>1. ASSUME NEW t \in Threads, Lock(t) PROVE RingShape'
    BY <1>1, <1>a DEF Lock, Goto, BufferTypeOK, RingShape, Threads
  <1>2. ASSUME NEW t \in Threads, Spurious(t) PROVE RingShape'
    BY <1>2, <1>a DEF Spurious, Goto, BufferTypeOK, RingShape, Threads
  <1>3. ASSUME NEW d \in Dispatchers, Accept(d) PROVE RingShape'
    BY <1>3, <1>a DEF Accept, Goto, BufferTypeOK, RingShape, Threads
  <1>4. ASSUME NEW d \in Dispatchers, AcceptFails(d) PROVE RingShape'
    BY <1>4, <1>a DEF AcceptFails, Goto, BufferTypeOK, RingShape, Threads
  <1>5. ASSUME NEW d \in Dispatchers, NEW r \in Items, GetRequest(d, r) PROVE RingShape'
    BY <1>5, <1>a DEF GetRequest, Goto, BufferTypeOK, RingShape, Threads
  <1>6. ASSUME NEW d \in Dispatchers, GetRequestFails(d) PROVE RingShape'
    BY <1>6, <1>a DEF GetRequestFails, Goto, BufferTypeOK, RingShape, Threads
  <1>7. ASSUME NEW d \in Dispatchers, WaitWhileFull(d) PROVE RingShape'
    BY <1>7, <1>a DEF WaitWhileFull, Sleep, Goto, BufferTypeOK, RingShape, Threads
  <1>8. ASSUME NEW d \in Dispatchers, Enqueue(d) PROVE RingShape'
    <2>1. /\ queue_length \in Nat \ {0} /\ out \in 0 .. queue_length - 1
          /\ count \in 0 .. queue_length - 1
          /\ queue_length' = queue_length /\ out' = out /\ count' = count + 1
          /\ in = SlotOf(count) /\ in' = (in + 1) % queue_length
          /\ buffer' = [buffer EXCEPT ![in] = request[d]]
      BY <1>8 DEF Enqueue, BufferTypeOK, RingShape
    <2>2. request[d] \in Items
      BY <1>8 DEF Enqueue, BufferTypeOK, RingShape, Threads
    <2>3. in' = SlotOf(count)'
      <3>1. (((out + count) % queue_length) + 1) % queue_length
              = (out + (count + 1)) % queue_length
        BY <2>1, ModNext
      <3> QED
        BY <2>1, <3>1 DEF SlotOf
    <2>4. \A k \in 0 .. count' - 1 : buffer'[SlotOf(k)'] \in Items
      <3> SUFFICES ASSUME NEW k \in 0 .. count' - 1 PROVE buffer'[SlotOf(k)'] \in Items
        OBVIOUS
      <3>0. k \in 0 .. count /\ SlotOf(k)' = SlotOf(k)
        BY <2>1 DEF SlotOf
      <3>1. SlotOf(k) \in BufferSlots
        <4>1. SlotOf(k) \in 0 .. queue_length - 1
          BY <2>1, <3>0, ModInRange DEF SlotOf
        <4> QED
          BY <4>1 DEF BufferTypeOK, BufferSlots
      <3>2. CASE k = count
        BY <2>1, <2>2, <3>0, <3>1, <3>2 DEF BufferTypeOK
      <3>3. CASE k # count
        <4>1. SlotOf(k) # in
          BY <2>1, <3>0, <3>3, ModInjective DEF SlotOf
        <4>2. buffer[SlotOf(k)] \in Items
          BY <2>1, <3>0, <3>3 DEF RingShape
        <4> QED
          BY <2>1, <3>0, <3>1, <4>1, <4>2 DEF BufferTypeOK
      <3> QED
        BY <3>2, <3>3
    <2>5. /\ \A e \in Dispatchers :
                pc'[e] \in {"lock", "check", "wait"} <=> request'[e] # NoItem
          /\ \A w \in Workers : pc'[w] = "serve" <=> request'[w] # NoItem
      BY <1>8 DEF Enqueue, Goto, BufferTypeOK, RingShape, Threads
    <2> QED
      BY <2>3, <2>4, <2>5 DEF RingShape
  <1>9. ASSUME NEW d \in Dispatchers, SignalNotEmpty(d) PROVE RingShape'
    <2>1. d \in Threads /\ pc[d] = "signal" /\ SignalAndGoto(Workers, d, "accept")
      BY <1>9 DEF SignalNotEmpty, Threads
    <2>2. /\ pc'[d] = "accept"
          /\ \A u \in Threads \ {d} :
                pc'[u] = pc[u] \/ (u \in Workers /\ pc[u] = "wait" /\ pc'[u] = "lock")
      BY <2>1, SignalEffect
    <2> QED
      BY <1>9, <1>a, <2>1, <2>2 DEF SignalNotEmpty, RingShape, Threads
  <1>10. ASSUME NEW w \in Workers, WaitWhileEmpty(w) PROVE RingShape'
    BY <1>10, <1>a DEF WaitWhileEmpty, Sleep, Goto, BufferTypeOK, RingShape, Threads
  <1>11. ASSUME NEW w \in Workers, Dequeue(w) PROVE RingShape'
    <2>1. /\ queue_length \in Nat \ {0} /\ out \in 0 .. queue_length - 1
          /\ count \in 1 .. queue_length
          /\ queue_length' = queue_length /\ count' = count - 1
          /\ out' = (out + 1) % queue_length
          /\ in = SlotOf(count) /\ in' = in /\ buffer' = buffer
      BY <1>11 DEF Dequeue, BufferTypeOK, RingShape
    <2>2. \A k \in 0 .. count - 1 : SlotOf(k)' = SlotOf(k + 1)
      <3> SUFFICES ASSUME NEW k \in 0 .. count - 1 PROVE SlotOf(k)' = SlotOf(k + 1)
        OBVIOUS
      <3>1. k \in 0 .. queue_length - 1
        BY <2>1
      <3>2. (((out + 1) % queue_length) + k) % queue_length = (out + (k + 1)) % queue_length
        BY <2>1, <3>1, ModShift
      <3> QED
        BY <2>1, <3>2 DEF SlotOf
    <2>3. in' = SlotOf(count)'
      BY <2>1, <2>2 DEF SlotOf
    <2>4. \A k \in 0 .. count' - 1 : buffer'[SlotOf(k)'] \in Items
      BY <2>1, <2>2 DEF RingShape
    <2>5. buffer[out] \in Items
      <3>1. SlotOf(0) = out
        BY <2>1, ModCases DEF SlotOf
      <3> QED
        BY <2>1, <3>1 DEF RingShape
    <2>6. /\ \A d \in Dispatchers :
                pc'[d] \in {"lock", "check", "wait"} <=> request'[d] # NoItem
          /\ \A v \in Workers : pc'[v] = "serve" <=> request'[v] # NoItem
      BY <1>11, <2>5 DEF Dequeue, Goto, BufferTypeOK, RingShape, Threads
    <2> QED
      BY <2>3, <2>4, <2>6 DEF RingShape
  <1>12. ASSUME NEW w \in Workers, Finish(w) PROVE RingShape'
    <2>1. /\ pc'[w] = "lock"
          /\ \A u \in Threads \ {w} :
                pc'[u] = pc[u] \/ (u \in Dispatchers /\ pc[u] = "wait" /\ pc'[u] = "lock")
      BY <1>12, FinishEffect
    <2> QED
      BY <1>12, <1>a, <2>1 DEF Finish, BufferTypeOK, RingShape, Threads
  <1>13. CASE UNCHANGED bufferVars
    BY <1>13, <1>a DEF bufferVars, ring, RingShape
  <1> QED
    BY <1>1, <1>2, <1>3, <1>4, <1>5, <1>6, <1>7, <1>8, <1>9, <1>10, <1>11, <1>12, <1>13
    DEF BufferNext, DispatcherStep, WorkerStep

(* The inductive invariant everything below rests on.                      *)
BufferInv == BufferTypeOK /\ MutualExclusion /\ RingShape

LEMMA InitBufferInv == BufferInit => BufferInv
  BY InitTypeOK, InitMutualExclusion, InitRingShape DEF BufferInv

LEMMA NextBufferInv == BufferInv /\ [BufferNext]_bufferVars => BufferInv'
  BY NextTypeOK, NextMutualExclusion, NextRingShape DEF BufferInv

(* The occupied slots: Enqueue takes one that was free...                  *)
LEMMA EnqueueOccupies ==
    ASSUME BufferInv, NEW d \in Dispatchers, Enqueue(d)
    PROVE  /\ in \in BufferSlots /\ in \notin Occupied
           /\ Occupied' = Occupied \cup {in}
           /\ request[d] \in Items
  <1>1. /\ queue_length \in Nat \ {0} /\ out \in 0 .. queue_length - 1
        /\ count \in 0 .. queue_length - 1
        /\ queue_length' = queue_length /\ out' = out /\ count' = count + 1
        /\ in = SlotOf(count)
    BY DEF Enqueue, BufferInv, BufferTypeOK, RingShape
  <1>2. in \in BufferSlots /\ request[d] \in Items
    BY DEF Enqueue, BufferInv, BufferTypeOK, RingShape, BufferSlots, Threads
  <1>3. in \notin Occupied
    BY <1>1, ModInjective DEF Occupied, SlotOf
  <1>4. \A k : SlotOf(k)' = SlotOf(k)
    BY <1>1 DEF SlotOf
  <1>5. 0 .. count' - 1 = (0 .. count - 1) \cup {count}
    BY <1>1
  <1>6. Occupied' = Occupied \cup {in}
    BY <1>1, <1>4, <1>5 DEF Occupied
  <1> QED
    BY <1>2, <1>3, <1>6

(* ... and Dequeue frees the one it takes its request from.                *)
LEMMA DequeueFrees ==
    ASSUME BufferInv, NEW w \in Workers, Dequeue(w)
    PROVE  /\ out \in BufferSlots /\ out \in Occupied
           /\ Occupied' = Occupied \ {out}
           /\ buffer[out] \in Items
  <1>1. /\ queue_length \in Nat \ {0} /\ out \in 0 .. queue_length - 1
        /\ count \in 1 .. queue_length
        /\ queue_length' = queue_length /\ count' = count - 1
        /\ out' = (out + 1) % queue_length
    BY DEF Dequeue, BufferInv, BufferTypeOK, RingShape
  <1>2. SlotOf(0) = out
    BY <1>1, ModCases DEF SlotOf
  <1>3. out \in BufferSlots /\ out \in Occupied /\ buffer[out] \in Items
    BY <1>1, <1>2 DEF Occupied, BufferInv, BufferTypeOK, RingShape, BufferSlots
  <1>4. \A k \in 0 .. count - 1 : SlotOf(k)' = SlotOf(k + 1)
    <2> SUFFICES ASSUME NEW k \in 0 .. count - 1 PROVE SlotOf(k)' = SlotOf(k + 1)
      OBVIOUS
    <2>1. k \in 0 .. queue_length - 1
      BY <1>1
    <2>2. (((out + 1) % queue_length) + k) % queue_length = (out + (k + 1)) % queue_length
      BY <1>1, <2>1, ModShift
    <2> QED
      BY <1>1, <2>2 DEF SlotOf
  <1>5. \A k \in 1 .. count - 1 : SlotOf(k) # out
    BY <1>1, <1>2, ModInjective DEF SlotOf
  <1>6. Occupied' = Occupied \ {out}
    <2>1. ASSUME NEW i \in Occupied' PROVE i \in Occupied \ {out}
      <3>1. PICK k \in 0 .. count - 2 : i = SlotOf(k)'
        BY <1>1, <2>1 DEF Occupied
      <3>2. i = SlotOf(k + 1) /\ k + 1 \in 1 .. count - 1
        BY <1>1, <1>4, <3>1
      <3> QED
        BY <1>1, <1>5, <3>2 DEF Occupied
    <2>2. ASSUME NEW i \in Occupied \ {out} PROVE i \in Occupied'
      <3>1. PICK k \in 0 .. count - 1 : i = SlotOf(k)
        BY <2>2 DEF Occupied
      <3>2. k # 0
        BY <1>2, <2>2, <3>1
      <3>3. k - 1 \in 0 .. count' - 1 /\ i = SlotOf(k - 1)'
        BY <1>1, <1>4, <3>1, <3>2
      <3> QED
        BY <3>3 DEF Occupied
    <2> QED
      BY <2>1, <2>2
  <1> QED
    BY <1>3, <1>6

(* in, out and count always agree, and every slot between out and in holds *)
(* a request, whatever the queue length and the order of the threads.      *)
THEOREM RingConsistent == BufferSpec => []RingShape
  <1>1. BufferInv => RingShape
    BY DEF BufferInv
  <1> QED
    BY <1>1, InitBufferInv, NextBufferInv, PTL DEF BufferSpec

-------------------------------------------------------------------------------
(* The condition variables.                                                *)

LEMMA InitWorkerNotForgotten == BufferInit => WorkerNotForgotten
  BY DEF BufferInit, WorkerNotForgotten

LEMMA NextWorkerNotForgotten ==
    BufferInv /\ WorkerNotForgotten /\ [BufferNext]_bufferVars => WorkerNotForgotten'
  <1> SUFFICES ASSUME BufferInv, WorkerNotForgotten, [BufferNext]_bufferVars, count' > 0
               PROVE  \/ \E w \in Workers : pc'[w] # "wait"
                      \/ \E d \in Dispatchers : pc'[d] = "signal"
    BY DEF WorkerNotForgotten
  <1> DEFINE Goal == \/ \E w \in Workers : pc'[w] # "wait"
                     \/ \E d \in Dispatchers : pc'[d] = "signal"
  <1> BufferTypeOK
    BY DEF BufferInv
  <1> USE DEF BufferTypeOK, WorkerNotForgotten, Goto, ring
  <1>1. ASSUME NEW t \in Threads, Lock(t) PROVE Goal
    BY <1>1 DEF Lock, Threads
  <1>2. ASSUME NEW t \in Threads, Spurious(t) PROVE Goal
    BY <1>2 DEF Spurious, Threads
  <1>3. ASSUME NEW d \in Dispatchers, Accept(d) PROVE Goal
    BY <1>3 DEF Accept, Threads
  <1>4. ASSUME NEW d \in Dispatchers, AcceptFails(d) PROVE Goal
    BY <1>4 DEF AcceptFails, Threads
  <1>5. ASSUME NEW d \in Dispatchers, NEW r \in Items, GetRequest(d, r) PROVE Goal
    BY <1>5 DEF GetRequest, Threads
  <1>6. ASSUME NEW d \in Dispatchers, GetRequestFails(d) PROVE Goal
    BY <1>6 DEF GetRequestFails, Threads
  <1>7. ASSUME NEW d \in Dispatchers, WaitWhileFull(d) PROVE Goal
    BY <1>7 DEF WaitWhileFull, Sleep, Threads
  <1>8. ASSUME NEW d \in Dispatchers, Enqueue(d) PROVE Goal
    BY <1>8 DEF Enqueue, Threads
  <1>9. ASSUME NEW d \in Dispatchers, SignalNotEmpty(d) PROVE Goal
    <2>1. /\ d \in Threads /\ pc[d] = "signal" /\ SignalAndGoto(Workers, d, "accept")
      BY <1>9 DEF SignalNotEmpty, Threads
    <2>2. CASE Asleep(Workers) # {}
      <3>1. \E w \in Workers : pc'[w] = "lock"
        BY <2>1, <2>2, SignalEffect
      <3> QED
        BY <3>1
    <2>3. CASE Asleep(Workers) = {}
      <3>1. PICK w \in Workers : pc[w] # "wait"
        BY <2>3 DEF Asleep
      <3>2. pc'[w] # "wait"
        BY <2>1, <2>3, <3>1 DEF SignalAndGoto, Asleep, Threads
      <3> QED
        BY <3>2
    <2> QED
      BY <2>2, <2>3
  <1>10. ASSUME NEW w \in Workers, WaitWhileEmpty(w) PROVE Goal
    BY <1>10 DEF WaitWhileEmpty, Sleep
  <1>11. ASSUME NEW w \in Workers, Dequeue(w) PROVE Goal
    BY <1>11 DEF Dequeue, Threads
  <1>12. ASSUME NEW w \in Workers, Finish(w) PROVE Goal
    BY <1>12, FinishEffect
  <1>13. CASE UNCHANGED bufferVars
    BY <1>13 DEF bufferVars
  <1> QED
    BY <1>1, <1>2, <1>3, <1>4, <1>5, <1>6, <1>7, <1>8, <1>9, <1>10, <1>11, <1>12, <1>13
    DEF BufferNext, DispatcherStep, WorkerStep

(* No wakeup on buffer_not_empty is lost: requests are never queued while  *)
(* every worker sleeps, except for the moment before the signal.           *)
THEOREM NoWorkerForgotten == BufferSpec => []WorkerNotForgotten
  BY InitBufferInv, NextBufferInv, InitWorkerNotForgotten, NextWorkerNotForgotten,
     PTL DEF BufferSpec

LEMMA InitDispatcherNotForgotten == BufferInit => DispatcherNotForgotten
  BY DEF BufferInit, DispatcherNotForgotten, Asleep, Threads

LEMMA NextDispatcherNotForgotten ==
    BufferInv /\ DispatcherNotForgotten /\ [BufferNext]_bufferVars => DispatcherNotForgotten'
  <1> SUFFICES ASSUME BufferInv, DispatcherNotForgotten, [BufferNext]_bufferVars,
                      count' = 0,
                      NEW e \in Dispatchers, pc'[e] = "wait"
               PROVE  \/ \E w \in Workers : pc'[w] = "serve"
                      \/ \E d \in Dispatchers : pc'[d] \in {"lock", "check"}
    BY DEF DispatcherNotForgotten, Asleep
  <1> DEFINE Goal == \/ \E w \in Workers : pc'[w] = "serve"
                     \/ \E d \in Dispatchers : pc'[d] \in {"lock", "check"}
  <1> BufferTypeOK
    BY DEF BufferInv
  <1>0. count = 0 /\ pc[e] = "wait" =>
           \/ \E w \in Workers : pc[w] = "serve"
           \/ \E d \in Dispatchers : pc[d] \in {"lock", "check"}
    BY DEF DispatcherNotForgotten, Asleep
  <1> USE DEF BufferTypeOK, Goto, ring
  <1>1. ASSUME NEW t \in Threads, Lock(t) PROVE Goal
    BY <1>0, <1>1 DEF Lock, Threads
  <1>2. ASSUME NEW t \in Threads, Spurious(t) PROVE Goal
    BY <1>0, <1>2 DEF Spurious, Threads
  <1>3. ASSUME NEW d \in Dispatchers, Accept(d) PROVE Goal
    BY <1>0, <1>3 DEF Accept, Threads
  <1>4. ASSUME NEW d \in Dispatchers, AcceptFails(d) PROVE Goal
    BY <1>0, <1>4 DEF AcceptFails, Threads
  <1>5. ASSUME NEW d \in Dispatchers, NEW r \in Items, GetRequest(d, r) PROVE Goal
    BY <1>5 DEF GetRequest, Threads
  <1>6. ASSUME NEW d \in Dispatchers, GetRequestFails(d) PROVE Goal
    BY <1>0, <1>6 DEF GetRequestFails, Threads
  <1>7. ASSUME NEW d \in Dispatchers, WaitWhileFull(d) PROVE Goal
    BY <1>7 DEF WaitWhileFull, Sleep
  <1>8. ASSUME NEW d \in Dispatchers, Enqueue(d) PROVE Goal
    BY <1>8 DEF Enqueue
  <1>9. ASSUME NEW d \in Dispatchers, SignalNotEmpty(d) PROVE Goal
    <2>1. /\ d \in Threads /\ pc[d] = "signal" /\ count' = count
          /\ SignalAndGoto(Workers, d, "accept")
      BY <1>9 DEF SignalNotEmpty, Threads
    <2>2. /\ pc'[d] = "accept"
          /\ \A u \in Threads \ {d} :
                pc'[u] = pc[u] \/ (u \in Workers /\ pc[u] = "wait" /\ pc'[u] = "lock")
      BY <2>1, SignalEffect
    <2> QED
      BY <1>0, <2>1, <2>2 DEF Threads
  <1>10. ASSUME NEW w \in Workers, WaitWhileEmpty(w) PROVE Goal
    BY <1>0, <1>10 DEF WaitWhileEmpty, Sleep, Threads
  <1>11. ASSUME NEW w \in Workers, Dequeue(w) PROVE Goal
    BY <1>11 DEF Dequeue, Threads
  <1>12. ASSUME NEW w \in Workers, Finish(w) PROVE Goal
    <2>1. count = 0
      BY <1>12 DEF Finish
    <2>2. pc[e] = "wait"
      BY <1>12, FinishEffect DEF Threads
    <2>3. Asleep(Dispatchers) # {}
      BY <2>2 DEF Asleep
    <2>4. \E d \in Dispatchers : pc'[d] = "lock"
      BY <1>12, <2>1, <2>3, FinishEffect
    <2> QED
      BY <2>4
  <1>13. CASE UNCHANGED bufferVars
    BY <1>0, <1>13 DEF bufferVars
  <1> QED
    BY <1>1, <1>2, <1>3, <1>4, <1>5, <1>6, <1>7, <1>8, <1>9, <1>10, <1>11, <1>12, <1>13
    DEF BufferNext, DispatcherStep, WorkerStep

(* No wakeup on buffer_empty is lost for good: a dispatcher never sleeps   *)
(* beside an empty buffer with nobody left to wake it.                     *)
THEOREM NoDispatcherForgotten == BufferSpec => []DispatcherNotForgotten
  BY InitBufferInv, NextBufferInv, InitDispatcherNotForgotten,
     NextDispatcherNotForgotten, PTL DEF BufferSpec

-------------------------------------------------------------------------------
(* The buffer is a queue.                                                  *)

LEMMA InitImplementsQueue == BufferInit => Queue!Init
  <1> SUFFICES ASSUME BufferInit PROVE Queue!Init
    OBVIOUS
  <1>1. queue_length \in Nat \ {0}
    BY InitTypeOK DEF BufferTypeOK
  <1>2. QueuedItems = << >>
    BY DEF BufferInit, QueuedItems
  <1>3. Serving = [w \in Workers |-> NoItem]
    BY DEF BufferInit, Serving, Threads
  <1> QED
    BY <1>1, <1>2, <1>3 DEF Queue!Init

LEMMA NextImplementsQueue ==
    BufferInv /\ [BufferNext]_bufferVars => [Queue!Next]_(Queue!vars)
  <1> SUFFICES ASSUME BufferInv, [BufferNext]_bufferVars PROVE [Queue!Next]_(Queue!vars)
    OBVIOUS
  <1> BufferTypeOK /\ MutualExclusion /\ RingShape
    BY DEF BufferInv
  <1>a. ASSUME UNCHANGED <<queue_length, ring>>,
               \A w \in Workers : request'[w] = request[w]
        PROVE  UNCHANGED Queue!vars
    <2>1. QueuedItems' = QueuedItems
      BY <1>a DEF QueuedItems, SlotOf, ring
    <2>2. Serving' = Serving
      BY <1>a DEF Serving
    <2> QED
      BY <1>a, <2>1, <2>2 DEF Queue!vars
  <1>1. ASSUME NEW t \in Threads, Lock(t) \/ Spurious(t) PROVE UNCHANGED Queue!vars
    BY <1>1, <1>a DEF Lock, Spurious
  <1>2. ASSUME NEW d \in Dispatchers,
               Accept(d) \/ AcceptFails(d) \/ GetRequestFails(d)
                         \/ WaitWhileFull(d) \/ SignalNotEmpty(d)
        PROVE  UNCHANGED Queue!vars
    BY <1>2, <1>a DEF Accept, AcceptFails, GetRequestFails, WaitWhileFull, Sleep,
                      SignalNotEmpty
  <1>3. ASSUME NEW d \in Dispatchers, NEW r \in Items, GetRequest(d, r)
        PROVE  UNCHANGED Queue!vars
    BY <1>3, <1>a DEF GetRequest, BufferTypeOK, Threads
  <1>4. ASSUME NEW d \in Dispatchers, Enqueue(d) PROVE Queue!Put(request[d])
    <2>1. /\ queue_length \in Nat \ {0} /\ out \in 0 .. queue_length - 1
          /\ count \in 0 .. queue_length - 1
          /\ queue_length' = queue_length /\ out' = out /\ count' = count + 1
          /\ in = SlotOf(count)
          /\ buffer' = [buffer EXCEPT ![in] = request[d]]
      BY <1>4 DEF Enqueue, BufferTypeOK, RingShape
    <2>2. in \in BufferSlots /\ buffer \in [BufferSlots -> Items \cup {NoItem}]
      BY DEF BufferTypeOK, BufferSlots
    <2>3. \A k \in 0 .. count - 1 : SlotOf(k)' = SlotOf(k) /\ SlotOf(k) # in
      BY <2>1, ModInjective DEF SlotOf
    <2>4. \A k \in {count} : SlotOf(k)' = in
      BY <2>1 DEF SlotOf
    <2>5. Len(QueuedItems) = count
      BY <2>1 DEF QueuedItems
    <2>6. QueuedItems' = Append(QueuedItems, request[d])
      <3>1. \A k \in 1 .. count : buffer'[SlotOf(k - 1)'] = buffer[SlotOf(k - 1)]
        <4> SUFFICES ASSUME NEW k \in 1 .. count
                     PROVE  buffer'[SlotOf(k - 1)'] = buffer[SlotOf(k - 1)]
          OBVIOUS
        <4>1. k - 1 \in 0 .. count - 1
          BY <2>1
        <4>2. SlotOf(k - 1)' = SlotOf(k - 1) /\ SlotOf(k - 1) # in
          BY <2>3, <4>1
        <4>3. SlotOf(k - 1) \in BufferSlots
          <5>1. (out + (k - 1)) % queue_length \in 0 .. queue_length - 1
            BY <2>1, <4>1, ModInRange
          <5> QED
            BY <5>1 DEF SlotOf, BufferSlots, BufferTypeOK
        <4> QED
          BY <2>1, <2>2, <4>2, <4>3
      <3>2. \A k \in {count + 1} : buffer'[SlotOf(k - 1)'] = request[d]
        <4>1. \A k \in {count + 1} : k - 1 = count
          BY <2>1
        <4>2. \A k \in {count + 1} : SlotOf(k - 1)' = in
          BY <2>4, <4>1
        <4> QED
          BY <2>1, <2>2, <4>2
      <3>3. QueuedItems' = [k \in 1 .. count + 1 |-> buffer'[SlotOf(k - 1)']]
        BY <2>1 DEF QueuedItems
      <3>4. Append(QueuedItems, request[d])
              = [k \in 1 .. count + 1 |->
                   IF k = count + 1 THEN request[d] ELSE QueuedItems[k]]
        BY <2>1, <2>5 DEF QueuedItems
      <3>5. \A k \in 1 .. count + 1 :
               buffer'[SlotOf(k - 1)'] = IF k = count + 1 THEN request[d] ELSE QueuedItems[k]
        BY <2>1, <3>1, <3>2 DEF QueuedItems
      <3> QED
        BY <3>3, <3>4, <3>5
    <2>7. Serving' = Serving
      BY <1>4 DEF Enqueue, Serving, BufferTypeOK, Threads
    <2> QED
      BY <2>1, <2>5, <2>6, <2>7 DEF Queue!Put
  <1>5. ASSUME NEW w \in Workers, WaitWhileEmpty(w) PROVE UNCHANGED Queue!vars
    BY <1>5, <1>a DEF WaitWhileEmpty, Sleep
  <1>6. ASSUME NEW w \in Workers, Dequeue(w) PROVE Queue!Take(w)
    <2>1. /\ queue_length \in Nat \ {0} /\ out \in 0 .. queue_length - 1
          /\ count \in 1 .. queue_length
          /\ queue_length' = queue_length /\ count' = count - 1
          /\ out' = (out + 1) % queue_length
          /\ buffer' = buffer
          /\ request' = [request EXCEPT ![w] = buffer[out]]
      BY <1>6 DEF Dequeue, BufferTypeOK
    <2>2. \A k \in 0 .. count - 1 : SlotOf(k)' = SlotOf(k + 1)
      <3> SUFFICES ASSUME NEW k \in 0 .. count - 1 PROVE SlotOf(k)' = SlotOf(k + 1)
        OBVIOUS
      <3>1. k \in 0 .. queue_length - 1
        BY <2>1
      <3>2. (((out + 1) % queue_length) + k) % queue_length = (out + (k + 1)) % queue_length
        BY <2>1, <3>1, ModShift
      <3> QED
        BY <2>1, <3>2 DEF SlotOf
    <2>3. Len(QueuedItems) = count /\ QueuedItems # << >>
      BY <2>1 DEF QueuedItems
    <2>4. Head(QueuedItems) = buffer[out]
      <3>1. SlotOf(0) = out
        BY <2>1, ModCases DEF SlotOf
      <3>2. QueuedItems[1] = buffer[SlotOf(0)]
        BY <2>1 DEF QueuedItems
      <3> QED
        BY <2>3, <3>1, <3>2
    <2>5. QueuedItems' = Tail(QueuedItems)
      <3>1. Tail(QueuedItems) = [k \in 1 .. count - 1 |-> QueuedItems[k + 1]]
        <4> DEFINE q == QueuedItems
        <4>1. q \in Seq(Items) /\ Len(q) = count
          <5>1. \A k \in 1 .. count : buffer[SlotOf(k - 1)] \in Items
            BY <2>1 DEF RingShape
          <5> QED
            BY <2>1, <2>3, <5>1 DEF QueuedItems
        <4> HIDE DEF q
        <4>2. Tail(q) = [k \in 1 .. count - 1 |-> q[k + 1]]
          <5>1. q # << >>
            BY <2>1, <4>1
          <5>2. /\ Tail(q) \in Seq(Items) /\ Len(Tail(q)) = count - 1
                /\ \A k \in 1 .. count - 1 : Tail(q)[k] = q[k + 1]
            BY <4>1, <5>1, HeadTailProperties
          <5>3. Tail(q) \in [1 .. count - 1 -> Items]
            BY <5>2, LenProperties
          <5> QED
            BY <5>2, <5>3
        <4> QED
          BY <4>2 DEF q
      <3>2. QueuedItems' = [k \in 1 .. count - 1 |-> buffer[SlotOf(k - 1)']]
        BY <2>1 DEF QueuedItems
      <3>3. \A k \in 1 .. count - 1 : buffer[SlotOf(k - 1)'] = QueuedItems[k + 1]
        <4> SUFFICES ASSUME NEW k \in 1 .. count - 1
                     PROVE  buffer[SlotOf(k - 1)'] = QueuedItems[k + 1]
          OBVIOUS
        <4>1. k - 1 \in 0 .. count - 1 /\ k + 1 \in 1 .. count /\ (k - 1) + 1 = (k + 1) - 1
          BY <2>1
        <4>2. SlotOf(k - 1)' = SlotOf((k + 1) - 1)
          BY <2>2, <4>1
        <4> QED
          BY <4>1, <4>2 DEF QueuedItems
      <3> QED
        BY <3>1, <3>2, <3>3
    <2>6. \A v \in Workers : Serving[v] = NoItem
      <3>1. w \in Threads /\ pc[w] = "check"
        BY <1>6 DEF Dequeue, Threads
      <3>2. \A v \in Workers : pc[v] # "serve"
        BY <3>1 DEF MutualExclusion, Critical, Threads
      <3> QED
        BY <3>2 DEF RingShape, Serving
    <2>7. Serving' = [Serving EXCEPT ![w] = Head(QueuedItems)]
      BY <2>1, <2>4 DEF Serving, BufferTypeOK, Threads
    <2> QED
      BY <2>1, <2>3, <2>5, <2>6, <2>7 DEF Queue!Take
  <1>7. ASSUME NEW w \in Workers, Finish(w) PROVE Queue!Done(w)
    <2>1. QueuedItems' = QueuedItems /\ queue_length' = queue_length
      BY <1>7 DEF Finish, QueuedItems, SlotOf, ring
    <2>2. Serving[w] # NoItem
      BY <1>7 DEF Finish, RingShape, Serving
    <2>3. Serving' = [Serving EXCEPT ![w] = NoItem]
      BY <1>7 DEF Finish, Serving, BufferTypeOK, Threads
    <2> QED
      BY <2>1, <2>2, <2>3 DEF Queue!Done
  <1>8. CASE UNCHANGED bufferVars
    BY <1>8, <1>a DEF bufferVars, ring
  <1>9. ASSUME NEW d \in Dispatchers, Enqueue(d) PROVE request[d] \in Items
    BY <1>9 DEF Enqueue, BufferTypeOK, RingShape, Threads
  <1> QED
    BY <1>1, <1>2, <1>3, <1>4, <1>5, <1>6, <1>7, <1>8, <1>9
    DEF BufferNext, DispatcherStep, WorkerStep, Queue!Next

(* The buffer implements the bounded FIFO queue for any number of threads, *)
(* any length and any requests: nothing is lost, duplicated or overtaken.  *)
THEOREM BufferIsQueue == BufferSpec => ImplementsQueue
  BY InitImplementsQueue, NextImplementsQueue, InitBufferInv, NextBufferInv,
     PTL DEF BufferSpec, ImplementsQueue, Queue!Spec
===============================================================================
