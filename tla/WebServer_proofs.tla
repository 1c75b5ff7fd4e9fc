---------------------------- MODULE WebServer_proofs ----------------------------
(***************************************************************************)
(* Proofs about WebServer, for any number of threads, sockets, files and   *)
(* slots: the server uses the ring as RequestBuffer says and the cache as  *)
(* FileCache says, so the theorems about those two hold of the server; and *)
(* a connection, with the file asked for on it, is in one place at a time  *)
(* from accept_connection to its answer.                                   *)
(*                                                                         *)
(* BufferP and CacheP are the two modules with their lemmas; WebServer's   *)
(* own instances, Buffer and Cache, are the same definitions.              *)
(***************************************************************************)
EXTENDS WebServer, FiniteSetTheorems, TLAPS

BufferP == INSTANCE RequestBuffer_proofs
CacheP == INSTANCE FileCache_proofs WITH Requests <- Files

-------------------------------------------------------------------------------
(* The assumptions of the two modules hold of the server's constants.      *)

LEMMA BufferAssumed == BufferP!BufferAssumption
  BY WebServerAssumption DEF BufferP!BufferAssumption, BufferP!Threads, Items

LEMMA CacheAssumed == CacheP!CacheAssumption
  BY WebServerAssumption DEF CacheP!CacheAssumption, Contents

(* The two copies of the ring's definitions agree.                         *)
LEMMA SameBufferInit == Buffer!BufferInit <=> BufferP!BufferInit
  BY DEF Buffer!BufferInit, Buffer!QueueLengthOf, Buffer!BufferSlots, Buffer!Threads,
         BufferP!BufferInit, BufferP!QueueLengthOf, BufferP!BufferSlots, BufferP!Threads

LEMMA SameBufferNext == [Buffer!BufferNext]_bufferVars <=> [BufferP!BufferNext]_bufferVars
  BY DEF Buffer!BufferNext, Buffer!DispatcherStep, Buffer!WorkerStep, Buffer!Threads,
         Buffer!Lock, Buffer!Spurious, Buffer!Accept, Buffer!AcceptFails,
         Buffer!GetRequest, Buffer!GetRequestFails, Buffer!WaitWhileFull,
         Buffer!Enqueue, Buffer!SignalNotEmpty, Buffer!WaitWhileEmpty,
         Buffer!Dequeue, Buffer!Finish, Buffer!Goto, Buffer!Sleep,
         Buffer!Unlock, Buffer!SignalAndGoto, Buffer!Asleep, Buffer!ring,
         BufferP!BufferNext, BufferP!DispatcherStep, BufferP!WorkerStep, BufferP!Threads,
         BufferP!Lock, BufferP!Spurious, BufferP!Accept, BufferP!AcceptFails,
         BufferP!GetRequest, BufferP!GetRequestFails, BufferP!WaitWhileFull,
         BufferP!Enqueue, BufferP!SignalNotEmpty, BufferP!WaitWhileEmpty,
         BufferP!Dequeue, BufferP!Finish, BufferP!Goto, BufferP!Sleep,
         BufferP!Unlock, BufferP!SignalAndGoto, BufferP!Asleep, BufferP!ring

LEMMA SameCacheInit == Cache!CacheInit <=> CacheP!CacheInit
  BY DEF Cache!CacheInit, Cache!CacheSizeOf, Cache!CacheSlots, Cache!ZeroSlot,
         CacheP!CacheInit, CacheP!CacheSizeOf, CacheP!CacheSlots, CacheP!ZeroSlot

LEMMA SameCacheNext == [Cache!CacheNext]_cacheVars <=> [CacheP!CacheNext]_cacheVars
  BY DEF Cache!CacheNext, Cache!Lookup, Cache!Load, Cache!Tick, Cache!CacheSlots, Cache!Hit,
         Cache!Found, Cache!Matches, Cache!AddToCache, Cache!Candidates,
         Cache!Oldest, Cache!FillSlot, Cache!cacheVars,
         CacheP!CacheNext, CacheP!Lookup, CacheP!Load, CacheP!Tick, CacheP!CacheSlots, CacheP!Hit,
         CacheP!Found, CacheP!Matches, CacheP!AddToCache, CacheP!Candidates,
         CacheP!Oldest, CacheP!FillSlot, CacheP!cacheVars

-------------------------------------------------------------------------------
(* The invariant: what is known of the ring and of the cache, that a       *)
(* dispatcher reading a request has a socket, that a worker is working     *)
(* exactly while it serves, and that a file about to enter the cache has   *)
(* been read and is not in it yet.                                         *)

FdInv ==
    /\ fd \in [Dispatchers -> Fds \cup {NoFd}]
    /\ \A d \in Dispatchers : pc[d] = "get" => fd[d] \in Fds

DoingInv ==
    /\ doing \in [Workers -> WorkStages]
    /\ \A w \in Workers : doing[w] = "idle" <=> pc[w] # "serve"

StoreInv ==
    /\ buf \in [Workers -> Contents \cup {NoContent}]
    /\ disk \in [Files -> Versions \cup {NoVersion}]
    /\ \A w \in Workers : doing[w] = "store" =>
          buf[w] \in Contents /\ Cache!Matches(Name(w)) = {}

ServerInv ==
    /\ BufferP!BufferInv
    /\ CacheP!CacheInv
    /\ FdInv
    /\ DoingInv
    /\ StoreInv

(* What the invariant of the ring says of the threads.                     *)
LEMMA ThreadFacts ==
    ASSUME BufferP!BufferInv
    PROVE  /\ pc \in [Dispatchers \cup Workers -> {"accept", "get", "lock", "check",
                                                  "wait", "signal", "exited", "serve"}]
           /\ request \in [Dispatchers \cup Workers -> Items \cup {NoItem}]
           /\ \A w \in Workers : pc[w] = "serve" => request[w] \in Items /\ Name(w) \in Files
           /\ \A v, w \in Workers : pc[v] = "serve" /\ pc[w] = "serve" => v = w
  <1> USE DEF BufferP!BufferInv, BufferP!BufferTypeOK, BufferP!Threads
  <1>1. pc \in [Dispatchers \cup Workers -> {"accept", "get", "lock", "check",
                                            "wait", "signal", "exited", "serve"}]
    BY DEF BufferP!DispatcherSteps, BufferP!WorkerSteps
  <1>2. request \in [Dispatchers \cup Workers -> Items \cup {NoItem}]
    OBVIOUS
  <1>3. \A w \in Workers : pc[w] = "serve" => request[w] \in Items
    BY <1>2 DEF BufferP!RingShape
  <1>4. \A w \in Workers : pc[w] = "serve" => Name(w) \in Files
    BY <1>3 DEF Name, Items
  <1>5. \A v, w \in Workers : pc[v] = "serve" /\ pc[w] = "serve" => v = w
    BY DEF BufferP!MutualExclusion, BufferP!Critical
  <1> QED
    BY <1>1, <1>2, <1>3, <1>4, <1>5

-------------------------------------------------------------------------------
(* Every step of the server is a step of the ring, or leaves it alone.     *)
LEMMA NextIsBuffer == ServerInv /\ [Next]_vars => [Buffer!BufferNext]_bufferVars
  <1> SUFFICES ASSUME ServerInv, [Next]_vars PROVE [Buffer!BufferNext]_bufferVars
    OBVIOUS
  <1> USE DEF Buffer!BufferNext, BufferOnly
  <1>1. ASSUME NEW t \in Buffer!Threads,
               BufferOnly(Buffer!Lock(t)) \/ BufferOnly(Buffer!Spurious(t))
        PROVE  Buffer!BufferNext
    BY <1>1
  <1>2. ASSUME NEW d \in Dispatchers, DispatcherStep(d) PROVE Buffer!BufferNext
    <2>1. ASSUME NEW f \in Files, GetRequest(d, f) PROVE Buffer!DispatcherStep(d)
      <3>1. pc[d] = "get"
        BY <2>1 DEF GetRequest, Buffer!GetRequest
      <3>2. [m_socket |-> fd[d], m_szRequest |-> f] \in Items
        BY <3>1 DEF ServerInv, FdInv, Items
      <3> QED
        BY <2>1, <3>2 DEF GetRequest, Buffer!DispatcherStep
    <2>2. ASSUME NEW s \in Fds, Accept(d, s) PROVE Buffer!DispatcherStep(d)
      BY <2>2 DEF Accept, Buffer!DispatcherStep
    <2>3. CASE GetRequestFails(d)
      BY <2>3 DEF GetRequestFails, Buffer!DispatcherStep
    <2>4. CASE \/ BufferOnly(Buffer!AcceptFails(d))
               \/ BufferOnly(Buffer!WaitWhileFull(d))
               \/ BufferOnly(Buffer!Enqueue(d))
               \/ BufferOnly(Buffer!SignalNotEmpty(d))
      BY <2>4 DEF Buffer!DispatcherStep
    <2> QED
      BY <1>2, <2>1, <2>2, <2>3, <2>4 DEF DispatcherStep
  <1>3. ASSUME NEW w \in Workers, WorkerStep(w) PROVE [Buffer!BufferNext]_bufferVars
    <2>1. CASE BufferOnly(Buffer!WaitWhileEmpty(w)) \/ Dequeue(w) \/ Finish(w)
      BY <2>1 DEF Dequeue, Finish, Buffer!WorkerStep
    <2>2. CASE Hit(w) \/ ReadFile(w) \/ FileNotFound(w) \/ Store(w) \/ Log(w)
      BY <2>2 DEF Hit, ReadFile, FileNotFound, Store, Log
    <2> QED
      BY <1>3, <2>1, <2>2 DEF WorkerStep
  <1>4. CASE \/ JoinDispatchers \/ HandlerCloses \/ HandlerExits
             \/ \E f \in Files : ChangeFile(f)
             \/ Tick
             \/ UNCHANGED vars
    BY <1>4 DEF JoinDispatchers, HandlerCloses, HandlerExits, MainOnly, ChangeFile,
                Tick, vars
  <1> QED
    BY <1>1, <1>2, <1>3, <1>4 DEF Next, ThreadStep

(* Every step of the server is a lookup, an insertion after a miss or the  *)
(* passing of time for the cache, or leaves it alone.                      *)
LEMMA NextIsCache == ServerInv /\ [Next]_vars => [Cache!CacheNext]_cacheVars
  <1> SUFFICES ASSUME ServerInv, [Next]_vars PROVE [Cache!CacheNext]_cacheVars
    OBVIOUS
  <1> USE DEF Cache!CacheNext
  <1>0. ASSUME NEW w \in Workers, doing[w] # "idle" PROVE Name(w) \in Files
    BY <1>0, ThreadFacts DEF ServerInv, DoingInv
  <1>1. ASSUME NEW w \in Workers, Hit(w) PROVE Cache!CacheNext
    <2>1. PICK i \in Cache!Matches(Name(w)) : Cache!Hit(Name(w), i)
      BY <1>1 DEF Hit
    <2>2. Name(w) \in Files
      BY <1>0, <1>1 DEF Hit
    <2>3. cache_size \in 0 .. MAX_CACHE_SIZE
      BY DEF ServerInv, CacheP!CacheInv, CacheP!CacheTypeOK
    <2>4. i \in Cache!CacheSlots
      BY <2>3, WebServerAssumption DEF Cache!Matches, Cache!CacheSlots
    <2> QED
      BY <2>1, <2>2, <2>4 DEF Cache!Lookup
  <1>2. ASSUME NEW w \in Workers, Store(w) PROVE [Cache!CacheNext]_cacheVars
    <2>1. Name(w) \in Files /\ buf[w] \in Contents /\ Cache!Matches(Name(w)) = {}
      BY <1>0, <1>2 DEF Store, ServerInv, StoreInv
    <2>2. CASE cache_size > 0
      BY <1>2, <2>1, <2>2 DEF Store, Cache!Load
    <2>3. CASE ~ (cache_size > 0)
      BY <1>2, <2>3 DEF Store
    <2> QED
      BY <2>2, <2>3
  <1>3. CASE Tick
    BY <1>3 DEF Tick
  <1>4. ASSUME NEW w \in Workers,
               \/ BufferOnly(Buffer!WaitWhileEmpty(w)) \/ Dequeue(w) \/ Finish(w)
               \/ ReadFile(w) \/ FileNotFound(w) \/ Log(w)
        PROVE  UNCHANGED cacheVars
    BY <1>4 DEF BufferOnly, Dequeue, Finish, ReadFile, FileNotFound, Log
  <1>5. ASSUME NEW d \in Dispatchers, DispatcherStep(d) PROVE UNCHANGED cacheVars
    BY <1>5 DEF DispatcherStep, BufferOnly, Accept, GetRequest, GetRequestFails
  <1>6. CASE \/ \E t \in Buffer!Threads :
                   BufferOnly(Buffer!Lock(t)) \/ BufferOnly(Buffer!Spurious(t))
             \/ JoinDispatchers \/ HandlerCloses \/ HandlerExits
             \/ \E f \in Files : ChangeFile(f)
             \/ UNCHANGED vars
    BY <1>6 DEF BufferOnly, JoinDispatchers, HandlerCloses, HandlerExits, MainOnly,
                ChangeFile, vars
  <1> QED
    BY <1>1, <1>2, <1>3, <1>4, <1>5, <1>6 DEF Next, ThreadStep, WorkerStep

-------------------------------------------------------------------------------
(* The invariant is kept.  Most steps of the ring are quiet: they bring no *)
(* dispatcher to its read and no worker to or from its work.               *)

QuietFor(t) ==
    /\ \A d \in Dispatchers \ {t} : pc'[d] = "get" <=> pc[d] = "get"
    /\ \A w \in Workers \ {t} : pc'[w] = "serve" <=> pc[w] = "serve"
    /\ \A w \in Workers \ {t} : request'[w] = request[w]

(* A signal moves, besides the thread that sends it, only a sleeping one.  *)
LEMMA SignalIsQuiet ==
    ASSUME BufferP!BufferInv,
           NEW group \in {Dispatchers, Workers},
           NEW t \in Dispatchers \cup Workers, NEW step,
           Buffer!SignalAndGoto(group, t, step)
    PROVE  /\ pc'[t] = step \/ pc'[t] = "lock"
           /\ \A d \in Dispatchers \ {t} : pc'[d] = "get" <=> pc[d] = "get"
           /\ \A w \in Workers \ {t} : pc'[w] = "serve" <=> pc[w] = "serve"
  BY ThreadFacts DEF Buffer!SignalAndGoto, Buffer!Goto, Buffer!Asleep

LEMMA DispatcherEffect ==
    ASSUME BufferP!BufferInv, NEW d \in Dispatchers,
           \/ Buffer!Accept(d) \/ Buffer!AcceptFails(d)
           \/ \E f \in Files :
                 Buffer!GetRequest(d, [m_socket |-> fd[d], m_szRequest |-> f])
           \/ Buffer!GetRequestFails(d)
           \/ Buffer!WaitWhileFull(d) \/ Buffer!Enqueue(d) \/ Buffer!SignalNotEmpty(d)
    PROVE  /\ QuietFor(d)
           /\ ~ Buffer!Accept(d) => pc'[d] # "get"
  <1> d \notin Workers /\ d \in Dispatchers \cup Workers
    BY WebServerAssumption
  <1> USE ThreadFacts DEF QuietFor, Buffer!Goto, Buffer!ring
  <1>1. CASE Buffer!Accept(d)
    BY <1>1 DEF Buffer!Accept
  <1>2. CASE Buffer!AcceptFails(d)
    BY <1>2 DEF Buffer!AcceptFails
  <1>3. CASE \E f \in Files :
                Buffer!GetRequest(d, [m_socket |-> fd[d], m_szRequest |-> f])
    BY <1>3 DEF Buffer!GetRequest
  <1>4. CASE Buffer!GetRequestFails(d)
    BY <1>4 DEF Buffer!GetRequestFails
  <1>5. CASE Buffer!WaitWhileFull(d)
    BY <1>5 DEF Buffer!WaitWhileFull, Buffer!Sleep
  <1>6. CASE Buffer!Enqueue(d)
    BY <1>6 DEF Buffer!Enqueue
  <1>7. CASE Buffer!SignalNotEmpty(d)
    BY <1>7, SignalIsQuiet DEF Buffer!SignalNotEmpty
  <1> QED
    BY <1>1, <1>2, <1>3, <1>4, <1>5, <1>6, <1>7

LEMMA LockEffect ==
    ASSUME BufferP!BufferInv, NEW t \in Dispatchers \cup Workers,
           Buffer!Lock(t) \/ Buffer!Spurious(t)
    PROVE  QuietFor(NoThread)
  BY ThreadFacts, WebServerAssumption
  DEF QuietFor, Buffer!Lock, Buffer!Spurious, Buffer!Goto

LEMMA WorkerEffect ==
    ASSUME BufferP!BufferInv, NEW w \in Workers
    PROVE  /\ Buffer!WaitWhileEmpty(w) => QuietFor(NoThread)
           /\ Buffer!Dequeue(w) => QuietFor(w) /\ pc'[w] = "serve"
           /\ Buffer!Finish(w) => QuietFor(w) /\ pc'[w] # "serve"
  <1> w \notin Dispatchers /\ w \in Dispatchers \cup Workers
    BY WebServerAssumption
  <1> USE ThreadFacts DEF QuietFor, Buffer!Goto
  <1>1. ASSUME Buffer!WaitWhileEmpty(w) PROVE QuietFor(NoThread)
    BY <1>1, WebServerAssumption DEF Buffer!WaitWhileEmpty, Buffer!Sleep
  <1>2. ASSUME Buffer!Dequeue(w) PROVE QuietFor(w) /\ pc'[w] = "serve"
    BY <1>2 DEF Buffer!Dequeue
  <1>3. ASSUME Buffer!Finish(w) PROVE QuietFor(w) /\ pc'[w] # "serve"
    BY <1>3, SignalIsQuiet DEF Buffer!Finish
  <1> QED
    BY <1>1, <1>2, <1>3

(* FdInv, DoingInv and StoreInv survive a step of the ring that is quiet   *)
(* and touches nothing else they speak of.                                 *)
LEMMA QuietKeeps ==
    ASSUME ServerInv, QuietFor(NoThread),
           UNCHANGED <<cacheVars, fd, doing, buf, disk>>
    PROVE  FdInv' /\ DoingInv' /\ StoreInv'
  <1>1. \A w \in Workers : Name(w)' = Name(w)
    BY WebServerAssumption DEF Name, QuietFor
  <1>2. \A f : (Cache!Matches(f))' = Cache!Matches(f)
    BY DEF Cache!Matches, cacheVars
  <1>3. FdInv' /\ DoingInv'
    BY WebServerAssumption DEF ServerInv, FdInv, DoingInv, QuietFor
  <1>4. StoreInv'
    BY <1>1, <1>2 DEF ServerInv, StoreInv
  <1> QED
    BY <1>3, <1>4

(* A worker busy with its request is the only one: nobody else works.      *)
LEMMA OneWorker ==
    ASSUME ServerInv, NEW v \in Workers, NEW w \in Workers,
           doing[v] # "idle", doing[w] # "idle"
    PROVE  v = w
  BY ThreadFacts DEF ServerInv, DoingInv

LEMMA NextThreadInvs ==
    ServerInv /\ [Next]_vars => FdInv' /\ DoingInv' /\ StoreInv'
  <1> SUFFICES ASSUME ServerInv, [Next]_vars PROVE FdInv' /\ DoingInv' /\ StoreInv'
    OBVIOUS
  <1> DEFINE Goal == FdInv' /\ DoingInv' /\ StoreInv'
  <1> BufferP!BufferInv /\ FdInv /\ DoingInv /\ StoreInv
    BY DEF ServerInv
  <1>m. ASSUME UNCHANGED cacheVars
        PROVE  \A f : (Cache!Matches(f))' = Cache!Matches(f)
    BY <1>m DEF Cache!Matches, cacheVars
  <1>p. ASSUME NEW w \in Workers, doing[w] # "idle", UNCHANGED <<pc, request, fd, disk>>,
               buf' = buf \/ buf' = [buf EXCEPT ![w] = NoContent],
               NEW stage \in {"log", "logged"}, Advance(w, stage)
        PROVE  Goal
    <2>1. FdInv'
      BY <1>p DEF FdInv
    <2>2. DoingInv'
      BY <1>p DEF DoingInv, Advance, WorkStages
    <2>3. \A v \in Workers : doing'[v] # "store"
      BY <1>p, OneWorker DEF DoingInv, Advance
    <2>4. StoreInv'
      BY <1>p, <2>3 DEF StoreInv
    <2> QED
      BY <2>1, <2>2, <2>4
  <1>1. ASSUME NEW t \in Buffer!Threads,
               BufferOnly(Buffer!Lock(t)) \/ BufferOnly(Buffer!Spurious(t))
        PROVE  Goal
    <2>1. UNCHANGED <<cacheVars, fd, doing, buf, disk>>
      BY <1>1 DEF BufferOnly, serverVars
    <2> QED
      BY <1>1, <2>1, LockEffect, QuietKeeps DEF BufferOnly, Buffer!Threads
  <1>2. ASSUME NEW d \in Dispatchers, DispatcherStep(d) PROVE Goal
    <2>1. UNCHANGED <<cacheVars, doing, buf, disk>>
      BY <1>2 DEF DispatcherStep, BufferOnly, serverVars, Accept, GetRequest,
                  GetRequestFails
    <2>2. /\ QuietFor(d)
          /\ ~ Buffer!Accept(d) => pc'[d] # "get"
      BY <1>2, DispatcherEffect
      DEF DispatcherStep, BufferOnly, Accept, GetRequest, GetRequestFails
    <2>3. d \notin Workers
      BY WebServerAssumption
    <2>4. DoingInv'
      BY <2>1, <2>2, <2>3 DEF DoingInv, QuietFor
    <2>5. StoreInv'
      <3>1. \A w \in Workers : Name(w)' = Name(w)
        BY <2>2, <2>3 DEF Name, QuietFor
      <3> QED
        BY <1>m, <2>1, <3>1 DEF StoreInv
    <2>6. FdInv'
      <3>1. CASE \E s \in Fds : Accept(d, s)
        BY <2>2, <3>1 DEF Accept, FdInv, QuietFor
      <3>2. CASE \/ \E f \in Files : GetRequest(d, f)
                 \/ GetRequestFails(d)
        <4>1. pc'[d] # "get"
          BY ThreadFacts, <3>2
          DEF GetRequest, GetRequestFails, Buffer!GetRequest, Buffer!GetRequestFails,
              Buffer!Goto
        <4> QED
          BY <2>2, <3>2, <4>1 DEF GetRequest, GetRequestFails, FdInv, QuietFor
      <3>3. CASE \/ BufferOnly(Buffer!AcceptFails(d))
                 \/ BufferOnly(Buffer!WaitWhileFull(d))
                 \/ BufferOnly(Buffer!Enqueue(d))
                 \/ BufferOnly(Buffer!SignalNotEmpty(d))
        <4>1. fd' = fd
          BY <3>3 DEF BufferOnly, serverVars
        <4>2. ~ Buffer!Accept(d)
          BY <3>3, ThreadFacts
          DEF BufferOnly, Buffer!Accept, Buffer!AcceptFails, Buffer!WaitWhileFull,
              Buffer!Enqueue, Buffer!SignalNotEmpty, Buffer!Goto
        <4> QED
          BY <2>2, <4>1, <4>2 DEF FdInv, QuietFor
      <3> QED
        BY <1>2, <3>1, <3>2, <3>3 DEF DispatcherStep
    <2> QED
      BY <2>4, <2>5, <2>6
  <1>3. ASSUME NEW w \in Workers, WorkerStep(w) PROVE Goal
    <2>1. CASE BufferOnly(Buffer!WaitWhileEmpty(w))
      BY <2>1, WorkerEffect, QuietKeeps DEF BufferOnly, serverVars
    <2>2. CASE Dequeue(w)
      <3>1. QuietFor(w) /\ pc'[w] = "serve"
        BY <2>2, WorkerEffect DEF Dequeue
      <3>2. FdInv'
        BY <2>2, <3>1, WebServerAssumption DEF Dequeue, FdInv, QuietFor
      <3>3. DoingInv'
        BY <2>2, <3>1 DEF Dequeue, DoingInv, Advance, WorkStages, QuietFor
      <3>4. StoreInv'
        BY <1>m, <2>2, <3>1 DEF Dequeue, DoingInv, StoreInv, Advance, QuietFor, Name
      <3> QED
        BY <3>2, <3>3, <3>4
    <2>3. CASE Finish(w)
      <3>1. QuietFor(w) /\ pc'[w] # "serve"
        BY <2>3, WorkerEffect DEF Finish
      <3>2. FdInv'
        BY <2>3, <3>1, WebServerAssumption DEF Finish, FdInv, QuietFor
      <3>3. DoingInv'
        BY <2>3, <3>1 DEF Finish, DoingInv, Advance, WorkStages, QuietFor
      <3>4. StoreInv'
        BY <1>m, <2>3, <3>1 DEF Finish, DoingInv, StoreInv, Advance, QuietFor, Name
      <3> QED
        BY <3>2, <3>3, <3>4
    <2>4. CASE ReadFile(w)
      <3>1. /\ doing[w] = "lookup" /\ Cache!Matches(Name(w)) = {}
            /\ Advance(w, "store")
            /\ buf' = [buf EXCEPT ![w] = <<Name(w), disk[Name(w)]>>]
            /\ disk[Name(w)] # NoVersion
            /\ UNCHANGED <<pc, request, cacheVars, fd, disk>>
        BY <2>4 DEF ReadFile, Miss, bufferVars
      <3>2. Name(w) \in Files
        BY <3>1, ThreadFacts DEF DoingInv
      <3>3. <<Name(w), disk[Name(w)]>> \in Contents
        BY <3>1, <3>2 DEF StoreInv, Contents
      <3>4. FdInv' /\ DoingInv'
        BY <3>1 DEF FdInv, DoingInv, Advance, WorkStages
      <3>5. \A v \in Workers : doing'[v] = "store" => v = w
        BY <3>1, OneWorker DEF DoingInv, Advance
      <3>6. Name(w)' = Name(w)
        BY <3>1 DEF Name
      <3>7. StoreInv'
        BY <1>m, <3>1, <3>3, <3>5, <3>6 DEF StoreInv
      <3> QED
        BY <3>4, <3>7
    <2>5. CASE Hit(w) \/ FileNotFound(w)
      BY <1>p, <2>5 DEF Hit, FileNotFound, Miss, bufferVars
    <2>6. CASE Store(w) \/ Log(w)
      BY <1>p, <2>6 DEF Store, Log, bufferVars
    <2> QED
      BY <1>3, <2>1, <2>2, <2>3, <2>4, <2>5, <2>6 DEF WorkerStep
  <1>4. CASE \/ JoinDispatchers \/ HandlerCloses \/ HandlerExits
             \/ UNCHANGED vars
    <2>1. UNCHANGED <<pc, request, cacheVars, fd, doing, buf, disk>>
      BY <1>4 DEF JoinDispatchers, HandlerCloses, HandlerExits, MainOnly, vars,
                  serverVars, bufferVars
    <2> QED
      BY <2>1, QuietKeeps DEF QuietFor
  <1>5. ASSUME NEW f \in Files, ChangeFile(f) PROVE Goal
    <2>1. /\ UNCHANGED <<pc, request, cacheVars, fd, doing, buf>>
          /\ disk' \in [Files -> Versions \cup {NoVersion}]
      BY <1>5 DEF ChangeFile, bufferVars, StoreInv
    <2>2. FdInv' /\ DoingInv'
      BY <2>1 DEF FdInv, DoingInv
    <2>3. StoreInv'
      BY <1>m, <2>1 DEF StoreInv, Name
    <2> QED
      BY <2>2, <2>3
  <1>6. CASE Tick
    <2>1. UNCHANGED <<pc, request, fd, doing, buf, disk, cache_size, cache_array>>
      BY <1>6 DEF Tick, Cache!Tick, bufferVars, serverVars
    <2>2. FdInv' /\ DoingInv'
      BY <2>1 DEF FdInv, DoingInv
    <2>3. StoreInv'
      BY <2>1 DEF StoreInv, Name, Cache!Matches
    <2> QED
      BY <2>2, <2>3
  <1> QED
    BY <1>1, <1>2, <1>3, <1>4, <1>5, <1>6 DEF Next, ThreadStep

LEMMA InitServerInv == Init => ServerInv
  <1> SUFFICES ASSUME Init PROVE ServerInv
    OBVIOUS
  <1>1. BufferP!BufferInv
    BY SameBufferInit, BufferAssumed, BufferP!InitBufferInv DEF Init
  <1>2. CacheP!CacheInv
    BY SameCacheInit, CacheAssumed, CacheP!InitCacheInv DEF Init
  <1>3. FdInv /\ DoingInv /\ StoreInv
    BY WebServerAssumption
    DEF Init, Buffer!BufferInit, Buffer!Threads, FdInv, DoingInv, StoreInv, WorkStages
  <1> QED
    BY <1>1, <1>2, <1>3 DEF ServerInv

LEMMA NextServerInv == ServerInv /\ [Next]_vars => ServerInv'
  <1> SUFFICES ASSUME ServerInv, [Next]_vars PROVE ServerInv'
    OBVIOUS
  <1>1. BufferP!BufferInv'
    <2>1. BufferP!BufferInv /\ [BufferP!BufferNext]_bufferVars
      BY NextIsBuffer, SameBufferNext DEF ServerInv
    <2> QED
      BY <2>1, BufferAssumed, BufferP!NextBufferInv DEF BufferP!bufferVars, bufferVars
  <1>2. CacheP!CacheInv'
    <2>1. CacheP!CacheInv /\ [CacheP!CacheNext]_cacheVars
      BY NextIsCache, SameCacheNext DEF ServerInv
    <2> QED
      BY <2>1, CacheAssumed, CacheP!NextCacheInv DEF CacheP!cacheVars, cacheVars
  <1> QED
    BY <1>1, <1>2, NextThreadInvs DEF ServerInv

-------------------------------------------------------------------------------
(* Where the connections are.  A place is a dispatcher that reads or holds *)
(* a request, a slot of the ring, or a worker that looks its request up;   *)
(* HeldFd is the socket a place is responsible for and HeldFile the file   *)
(* its client is known to have asked for.                                  *)

Places == ({"get", "put"} \X Dispatchers) \cup ({"slot"} \X Buffer!BufferSlots)
          \cup ({"serve"} \X Workers)

HeldFd(p) ==
    CASE p[1] = "get" -> fd[p[2]]
      [] p[1] = "put" -> IF request[p[2]] # NoItem THEN Socket(p[2]) ELSE NoFd
      [] p[1] = "slot" -> IF p[2] \in Buffer!Occupied THEN buffer[p[2]].m_socket ELSE NoFd
      [] p[1] = "serve" -> IF doing[p[2]] = "lookup" THEN Socket(p[2]) ELSE NoFd

HeldFile(p) ==
    CASE p[1] = "get" -> NoRequest
      [] p[1] = "slot" -> buffer[p[2]].m_szRequest
      [] p[1] \in {"put", "serve"} -> request[p[2]].m_szRequest

(* No two places hold the same socket, the open ones are those some place  *)
(* holds, and what a place holds is what the client asked for.             *)
Exclusive ==
    \A p, q \in Places : HeldFd(p) = HeldFd(q) /\ HeldFd(p) # NoFd => p = q

OpenIsHeld ==
    /\ open \subseteq Fds
    /\ \A s \in Fds : s \in open <=> \E p \in Places : HeldFd(p) = s

AskedIsHeld ==
    /\ asked \in [Fds -> Files \cup {NoRequest}]
    /\ \A p \in Places : HeldFd(p) # NoFd => asked[HeldFd(p)] = HeldFile(p)
    /\ \A s \in Fds \ open : asked[s] = NoRequest

FdFree == \A d \in Dispatchers : pc[d] # "get" => fd[d] = NoFd

ConnInv == Exclusive /\ OpenIsHeld /\ AskedIsHeld /\ FdFree

LEMMA PlaceCases ==
    /\ \A p \in Places :
          \/ \E d \in Dispatchers : p = <<"get", d>> \/ p = <<"put", d>>
          \/ \E i \in Buffer!BufferSlots : p = <<"slot", i>>
          \/ \E w \in Workers : p = <<"serve", w>>
    /\ \A d \in Dispatchers : <<"get", d>> \in Places /\ <<"put", d>> \in Places
    /\ \A i \in Buffer!BufferSlots : <<"slot", i>> \in Places
    /\ \A w \in Workers : <<"serve", w>> \in Places
  BY DEF Places

LEMMA HeldHere ==
    /\ \A d : HeldFd(<<"get", d>>) = fd[d] /\ HeldFile(<<"get", d>>) = NoRequest
    /\ \A d : /\ HeldFd(<<"put", d>>) = IF request[d] # NoItem THEN Socket(d) ELSE NoFd
              /\ HeldFile(<<"put", d>>) = request[d].m_szRequest
    /\ \A i : /\ HeldFd(<<"slot", i>>) = IF i \in Buffer!Occupied
                                         THEN buffer[i].m_socket ELSE NoFd
              /\ HeldFile(<<"slot", i>>) = buffer[i].m_szRequest
    /\ \A w : /\ HeldFd(<<"serve", w>>) = IF doing[w] = "lookup" THEN Socket(w) ELSE NoFd
              /\ HeldFile(<<"serve", w>>) = Name(w)
  BY DEF HeldFd, HeldFile, Name

LEMMA HeldThere ==
    /\ \A d : HeldFd(<<"get", d>>)' = fd'[d] /\ HeldFile(<<"get", d>>)' = NoRequest
    /\ \A d : /\ HeldFd(<<"put", d>>)' =
                    IF request'[d] # NoItem THEN Socket(d)' ELSE NoFd
              /\ HeldFile(<<"put", d>>)' = request'[d].m_szRequest
    /\ \A i : /\ HeldFd(<<"slot", i>>)' = IF i \in Buffer!Occupied'
                                          THEN buffer'[i].m_socket ELSE NoFd
              /\ HeldFile(<<"slot", i>>)' = buffer'[i].m_szRequest
    /\ \A w : /\ HeldFd(<<"serve", w>>)' =
                    IF doing'[w] = "lookup" THEN Socket(w)' ELSE NoFd
              /\ HeldFile(<<"serve", w>>)' = Name(w)'
  BY DEF HeldFd, HeldFile, Name

(* What a step may do to the places.                                       *)
SameAt(p) == HeldFd(p)' = HeldFd(p) /\ (HeldFd(p) # NoFd => HeldFile(p)' = HeldFile(p))

(* It leaves all connections where they are.                               *)
LEMMA AllStay ==
    ASSUME Exclusive, OpenIsHeld, AskedIsHeld,
           \A p \in Places : SameAt(p), UNCHANGED <<open, asked>>
    PROVE  Exclusive' /\ OpenIsHeld' /\ AskedIsHeld'
  <1>1. Exclusive'
    BY DEF Exclusive, SameAt, Places
  <1>2. OpenIsHeld'
    BY DEF OpenIsHeld, SameAt, Places
  <1>3. AskedIsHeld'
    BY DEF AskedIsHeld, SameAt, Places
  <1> QED
    BY <1>1, <1>2, <1>3

(* It opens one and puts it in an empty place.                             *)
LEMMA OneOpens ==
    ASSUME Exclusive, OpenIsHeld, AskedIsHeld,
           NEW p \in Places, NEW s \in Fds, s \notin open, HeldFd(p) = NoFd,
           \A q \in Places \ {p} : SameAt(q),
           HeldFd(p)' = s, HeldFile(p)' = NoRequest,
           open' = open \cup {s}, asked' = asked
    PROVE  Exclusive' /\ OpenIsHeld' /\ AskedIsHeld'
  <1> USE WebServerAssumption
  <1>1. \A q \in Places : HeldFd(q) # s
    BY DEF OpenIsHeld
  <1>2. Exclusive'
    BY <1>1 DEF Exclusive, SameAt, Places
  <1>3. OpenIsHeld'
    BY <1>1 DEF OpenIsHeld, SameAt, Places
  <1>4. AskedIsHeld'
    BY <1>1 DEF AskedIsHeld, SameAt, Places
  <1> QED
    BY <1>2, <1>3, <1>4

(* It hands one on to an empty place, where its file may become known.     *)
LEMMA OneMoves ==
    ASSUME Exclusive, OpenIsHeld, AskedIsHeld,
           NEW p \in Places, NEW q \in Places, p # q,
           HeldFd(p) \in Fds, HeldFd(q) = NoFd,
           \A r \in Places \ {p, q} : SameAt(r),
           HeldFd(p)' = NoFd, HeldFd(q)' = HeldFd(p),
           HeldFile(q)' \in Files,
           asked' = [asked EXCEPT ![HeldFd(p)] = HeldFile(q)'], open' = open
    PROVE  Exclusive' /\ OpenIsHeld' /\ AskedIsHeld'
  <1> USE WebServerAssumption
  <1>1. Exclusive'
    BY DEF Exclusive, SameAt, Places
  <1>2. OpenIsHeld'
    <2>1. ASSUME NEW s \in Fds PROVE s \in open' <=> \E r \in Places' : HeldFd(r)' = s
      BY DEF OpenIsHeld, SameAt, Places
    <2> QED
      BY <2>1 DEF OpenIsHeld
  <1>3. AskedIsHeld'
    <2>1. asked' \in [Fds -> Files \cup {NoRequest}]
      BY DEF AskedIsHeld
    <2>2. ASSUME NEW r \in Places, HeldFd(r)' # NoFd
          PROVE  asked'[HeldFd(r)'] = HeldFile(r)'
      BY <2>2 DEF AskedIsHeld, SameAt, Exclusive, OpenIsHeld
    <2>3. HeldFd(p) \in open
      BY DEF OpenIsHeld
    <2> QED
      BY <2>1, <2>2, <2>3 DEF AskedIsHeld, Places
  <1> QED
    BY <1>1, <1>2, <1>3

(* It closes one, and the place that held it is empty.                     *)
LEMMA OneCloses ==
    ASSUME Exclusive, OpenIsHeld, AskedIsHeld,
           NEW p \in Places, HeldFd(p) \in Fds,
           \A q \in Places \ {p} : SameAt(q), HeldFd(p)' = NoFd,
           open' = open \ {HeldFd(p)},
           asked' = [asked EXCEPT ![HeldFd(p)] = NoRequest]
    PROVE  Exclusive' /\ OpenIsHeld' /\ AskedIsHeld'
  <1> USE WebServerAssumption
  <1>1. Exclusive'
    BY DEF Exclusive, SameAt, Places
  <1>2. OpenIsHeld'
    <2>1. ASSUME NEW s \in Fds PROVE s \in open' <=> \E r \in Places' : HeldFd(r)' = s
      BY DEF OpenIsHeld, Exclusive, SameAt, Places
    <2> QED
      BY <2>1 DEF OpenIsHeld
  <1>3. AskedIsHeld'
    <2>1. asked' \in [Fds -> Files \cup {NoRequest}]
      BY DEF AskedIsHeld
    <2>2. ASSUME NEW r \in Places, HeldFd(r)' # NoFd
          PROVE  asked'[HeldFd(r)'] = HeldFile(r)'
      BY <2>2 DEF AskedIsHeld, SameAt, Exclusive, OpenIsHeld
    <2>3. \A s \in Fds \ open' : asked'[s] = NoRequest
      BY DEF AskedIsHeld
    <2> QED
      BY <2>1, <2>2, <2>3 DEF AskedIsHeld, Places
  <1> QED
    BY <1>1, <1>2, <1>3

(* RequestBuffer's lemmas on its slots, in the server's terms.             *)
LEMMA EnqueueOccupiesSlot ==
    ASSUME BufferP!BufferInv, NEW d \in Dispatchers, Buffer!Enqueue(d)
    PROVE  /\ in \in Buffer!BufferSlots /\ in \notin Buffer!Occupied
           /\ Buffer!Occupied' = Buffer!Occupied \cup {in}
           /\ request[d] \in Items
  <1>1. BufferP!Enqueue(d)
    BY DEF Buffer!Enqueue, Buffer!Goto, BufferP!Enqueue, BufferP!Goto
  <1>2. /\ in \in BufferP!BufferSlots /\ in \notin BufferP!Occupied
        /\ BufferP!Occupied' = BufferP!Occupied \cup {in}
        /\ request[d] \in Items
    BY <1>1, BufferAssumed, BufferP!EnqueueOccupies
  <1> QED
    BY <1>2 DEF Buffer!BufferSlots, Buffer!Occupied, Buffer!SlotOf,
                BufferP!BufferSlots, BufferP!Occupied, BufferP!SlotOf

LEMMA DequeueFreesSlot ==
    ASSUME BufferP!BufferInv, NEW w \in Workers, Buffer!Dequeue(w)
    PROVE  /\ out \in Buffer!BufferSlots /\ out \in Buffer!Occupied
           /\ Buffer!Occupied' = Buffer!Occupied \ {out}
           /\ buffer[out] \in Items
  <1>1. BufferP!Dequeue(w)
    BY DEF Buffer!Dequeue, Buffer!Goto, BufferP!Dequeue, BufferP!Goto
  <1>2. /\ out \in BufferP!BufferSlots /\ out \in BufferP!Occupied
        /\ BufferP!Occupied' = BufferP!Occupied \ {out}
        /\ buffer[out] \in Items
    BY <1>1, BufferAssumed, BufferP!DequeueFrees
  <1> QED
    BY <1>2 DEF Buffer!BufferSlots, Buffer!Occupied, Buffer!SlotOf,
                BufferP!BufferSlots, BufferP!Occupied, BufferP!SlotOf

LEMMA OccupiedIsSlot ==
    ASSUME BufferP!BufferInv
    PROVE  Buffer!Occupied \subseteq Buffer!BufferSlots
  <1>1. /\ queue_length \in 1 .. MAX_QUEUE_SIZE /\ out \in Nat
    BY DEF BufferP!BufferInv, BufferP!BufferTypeOK
  <1>2. \A k \in 0 .. count - 1 : (out + k) % queue_length \in 0 .. queue_length - 1
    BY <1>1, BufferP!ModInRange, BufferAssumed
  <1> QED
    BY <1>1, <1>2, WebServerAssumption
    DEF Buffer!Occupied, Buffer!SlotOf, Buffer!BufferSlots

LEMMA SlotsDistinct ==
    ASSUME BufferP!BufferInv, NEW j \in 0 .. count - 1, NEW k \in 0 .. count - 1,
           Buffer!SlotOf(j) = Buffer!SlotOf(k)
    PROVE  j = k
  <1>1. /\ queue_length \in Nat \ {0} /\ out \in 0 .. queue_length - 1
        /\ j \in 0 .. queue_length - 1 /\ k \in 0 .. queue_length - 1
    BY DEF BufferP!BufferInv, BufferP!BufferTypeOK
  <1> QED
    BY <1>1, BufferP!ModInjective, BufferAssumed DEF Buffer!SlotOf

(* The steps that move no connection.                                      *)
LEMMA StillKeepsConnInv ==
    ASSUME ServerInv, ConnInv, QuietFor(NoThread),
           UNCHANGED <<queue_length, buffer, in, out, count, request, fd, doing, open, asked>>
    PROVE  ConnInv'
  <1>1. Buffer!Occupied' = Buffer!Occupied
    BY DEF Buffer!Occupied, Buffer!SlotOf
  <1>2. \A p \in Places : SameAt(p)
    BY <1>1 DEF SameAt, HeldFd, HeldFile, Socket
  <1>3. Exclusive' /\ OpenIsHeld' /\ AskedIsHeld'
    BY <1>2, AllStay DEF ConnInv
  <1>4. FdFree'
    BY WebServerAssumption DEF ConnInv, FdFree, QuietFor
  <1> QED
    BY <1>3, <1>4 DEF ConnInv

(* A dispatcher accepts a connection, reads its request or fails to, and   *)
(* puts the request into the ring.                                         *)
LEMMA DispatcherKeepsConnInv ==
    ASSUME ServerInv, ConnInv, NEW d \in Dispatchers, DispatcherStep(d)
    PROVE  ConnInv'
  <1> DEFINE get == <<"get", d>>
             put == <<"put", d>>
  <1> get \in Places /\ put \in Places /\ get # put
    BY PlaceCases
  <1> Exclusive /\ OpenIsHeld /\ AskedIsHeld /\ FdFree
    BY DEF ConnInv
  <1> /\ BufferP!BufferInv /\ FdInv /\ d \notin Workers
      /\ request \in [Dispatchers \cup Workers -> Items \cup {NoItem}]
      /\ pc \in [Dispatchers \cup Workers -> {"accept", "get", "lock", "check",
                                             "wait", "signal", "exited", "serve"}]
      /\ \A e \in Dispatchers : pc[e] \in {"lock", "check", "wait"} <=> request[e] # NoItem
    BY ThreadFacts, WebServerAssumption
    DEF ServerInv, BufferP!BufferInv, BufferP!RingShape
  <1>q. QuietFor(d)
    BY DispatcherEffect
    DEF DispatcherStep, BufferOnly, Accept, GetRequest, GetRequestFails
  <1>o. ASSUME UNCHANGED <<queue_length, out, count>> PROVE Buffer!Occupied' = Buffer!Occupied
    BY <1>o DEF Buffer!Occupied, Buffer!SlotOf
  <1>1. ASSUME NEW s \in Fds, Accept(d, s) PROVE ConnInv'
    <2>1. /\ pc[d] = "accept" /\ pc'[d] = "get" /\ s \notin open
          /\ fd' = [fd EXCEPT ![d] = s] /\ open' = open \cup {s}
          /\ UNCHANGED <<queue_length, buffer, in, out, count, request, doing, asked>>
      BY <1>1 DEF Accept, Buffer!Accept, Buffer!Goto, Buffer!ring
    <2>2. HeldFd(get) = NoFd /\ HeldFd(get)' = s /\ HeldFile(get)' = NoRequest
      BY <2>1, HeldHere, HeldThere DEF FdInv, FdFree
    <2>3. \A q \in Places \ {get} : SameAt(q)
      BY <1>o, <2>1, PlaceCases, HeldHere, HeldThere DEF SameAt, FdInv, Socket, Name
    <2>4. FdFree'
      BY <1>q, <2>1 DEF FdFree, FdInv, QuietFor
    <2> QED
      BY <2>1, <2>2, <2>3, <2>4, OneOpens DEF ConnInv
  <1>2. ASSUME NEW f \in Files, GetRequest(d, f) PROVE ConnInv'
    <2>1. /\ pc[d] = "get" /\ pc'[d] = "lock"
          /\ request' = [request EXCEPT ![d] = [m_socket |-> fd[d], m_szRequest |-> f]]
          /\ fd' = [fd EXCEPT ![d] = NoFd]
          /\ asked' = [asked EXCEPT ![fd[d]] = f]
          /\ UNCHANGED <<queue_length, buffer, in, out, count, doing, open>>
      BY <1>2 DEF GetRequest, Buffer!GetRequest, Buffer!Goto, Buffer!ring
    <2>2. fd[d] \in Fds /\ request[d] = NoItem
      BY <2>1 DEF FdInv
    <2>3. [m_socket |-> fd[d], m_szRequest |-> f] # NoItem
      BY <2>2, WebServerAssumption
    <2>4. /\ HeldFd(get) = fd[d] /\ HeldFd(put) = NoFd
          /\ HeldFd(get)' = NoFd /\ HeldFd(put)' = fd[d] /\ HeldFile(put)' = f
      BY <2>1, <2>2, <2>3, HeldHere, HeldThere DEF FdInv, Socket
    <2>5. \A q \in Places \ {get, put} : SameAt(q)
      BY <1>o, <2>1, PlaceCases, HeldHere, HeldThere DEF SameAt, FdInv, Socket, Name
    <2>6. FdFree'
      BY <1>q, <2>1 DEF FdFree, FdInv, QuietFor
    <2> QED
      BY <2>1, <2>2, <2>4, <2>5, <2>6, OneMoves DEF ConnInv
  <1>3. CASE GetRequestFails(d)
    <2>1. /\ pc[d] = "get" /\ pc'[d] = "accept"
          /\ fd' = [fd EXCEPT ![d] = NoFd]
          /\ open' = open \ {fd[d]}
          /\ UNCHANGED <<queue_length, buffer, in, out, count, request, doing, asked>>
      BY <1>3 DEF GetRequestFails, Buffer!GetRequestFails, Buffer!Goto, Buffer!ring
    <2>2. fd[d] \in Fds
      BY <2>1 DEF FdInv
    <2>3. HeldFd(get) = fd[d] /\ HeldFd(get)' = NoFd /\ HeldFile(get) = NoRequest
      BY <2>1, HeldHere, HeldThere DEF FdInv
    <2>4. asked' = [asked EXCEPT ![HeldFd(get)] = NoRequest]
      <3>1. asked[fd[d]] = NoRequest
        BY <2>2, <2>3, WebServerAssumption DEF AskedIsHeld
      <3> QED
        BY <2>1, <2>2, <2>3, <3>1 DEF AskedIsHeld
    <2>5. \A q \in Places \ {get} : SameAt(q)
      BY <1>o, <2>1, PlaceCases, HeldHere, HeldThere DEF SameAt, FdInv, Socket, Name
    <2>6. FdFree'
      BY <1>q, <2>1 DEF FdFree, FdInv, QuietFor
    <2> QED
      BY <2>1, <2>2, <2>3, <2>4, <2>5, <2>6, OneCloses DEF ConnInv
  <1>4. CASE BufferOnly(Buffer!Enqueue(d))
    <2>0. PICK k : k = in
      OBVIOUS
    <2> DEFINE slot == <<"slot", k>>
    <2>1. /\ pc[d] = "check" /\ pc'[d] = "signal"
          /\ buffer' = [buffer EXCEPT ![k] = request[d]]
          /\ request' = [request EXCEPT ![d] = NoItem]
          /\ UNCHANGED <<fd, doing, open, asked>>
      BY <1>4, <2>0 DEF BufferOnly, serverVars, clientVars, Buffer!Enqueue, Buffer!Goto
    <2>2. /\ k \in Buffer!BufferSlots /\ k \notin Buffer!Occupied
          /\ Buffer!Occupied' = Buffer!Occupied \cup {k}
          /\ request[d] \in Items
      BY <1>4, <2>0, EnqueueOccupiesSlot DEF BufferOnly
    <2>3. buffer \in [Buffer!BufferSlots -> Items \cup {NoItem}]
      BY DEF BufferP!BufferInv, BufferP!BufferTypeOK, BufferP!BufferSlots, Buffer!BufferSlots
    <2>4. slot \in Places /\ slot # put
      BY <2>2, PlaceCases
    <2>5. Socket(d) \in Fds /\ Name(d) \in Files /\ request[d] # NoItem
      BY <2>2, WebServerAssumption DEF Items, Socket, Name
    <2>6. buffer'[k] = request[d] /\ request'[d] = NoItem
      BY <2>1, <2>2, <2>3
    <2>7. /\ HeldFd(put) = Socket(d) /\ HeldFd(put)' = NoFd /\ HeldFile(put) = Name(d)
          /\ HeldFd(slot) = NoFd /\ HeldFd(slot)' = Socket(d) /\ HeldFile(slot)' = Name(d)
      BY <2>2, <2>5, <2>6, HeldHere, HeldThere DEF Socket, Name
    <2>8. \A q \in Places \ {put, slot} : SameAt(q)
      BY <2>1, <2>2, <2>3, PlaceCases, HeldHere, HeldThere DEF SameAt, Socket, Name
    <2>9. asked' = [asked EXCEPT ![HeldFd(put)] = HeldFile(slot)']
      BY <2>1, <2>5, <2>7, WebServerAssumption DEF AskedIsHeld
    <2>10. FdFree'
      BY <1>q, <2>1 DEF FdFree, QuietFor
    <2> QED
      BY <2>1, <2>4, <2>5, <2>7, <2>8, <2>9, <2>10, OneMoves DEF ConnInv
  <1>5. CASE \/ BufferOnly(Buffer!AcceptFails(d))
             \/ BufferOnly(Buffer!WaitWhileFull(d))
             \/ BufferOnly(Buffer!SignalNotEmpty(d))
    <2>1. UNCHANGED <<queue_length, buffer, in, out, count, request, fd, doing, open, asked>>
      BY <1>5 DEF BufferOnly, serverVars, clientVars, Buffer!AcceptFails,
                  Buffer!WaitWhileFull, Buffer!Sleep, Buffer!SignalNotEmpty, Buffer!ring
    <2>2. QuietFor(NoThread)
      <3>1. pc[d] # "get" /\ pc'[d] # "get"
        BY <1>5 DEF BufferOnly, Buffer!AcceptFails, Buffer!WaitWhileFull, Buffer!Sleep,
                    Buffer!SignalNotEmpty, Buffer!SignalAndGoto, Buffer!Goto
      <3> QED
        BY <1>q, <3>1 DEF QuietFor
    <2> QED
      BY <2>1, <2>2, StillKeepsConnInv
  <1> QED
    BY <1>1, <1>2, <1>3, <1>4, <1>5 DEF DispatcherStep

(* A worker takes a request from the ring and answers it.                  *)
LEMMA WorkerKeepsConnInv ==
    ASSUME ServerInv, ConnInv, NEW w \in Workers, WorkerStep(w)
    PROVE  ConnInv'
  <1> DEFINE serve == <<"serve", w>>
  <1> serve \in Places
    BY PlaceCases
  <1> Exclusive /\ OpenIsHeld /\ AskedIsHeld /\ FdFree
    BY DEF ConnInv
  <1> /\ BufferP!BufferInv /\ DoingInv /\ w \notin Dispatchers
      /\ request \in [Dispatchers \cup Workers -> Items \cup {NoItem}]
      /\ pc[w] = "serve" => request[w] \in Items
    BY ThreadFacts, WebServerAssumption DEF ServerInv
  <1>o. ASSUME UNCHANGED <<queue_length, out, count>> PROVE Buffer!Occupied' = Buffer!Occupied
    BY <1>o DEF Buffer!Occupied, Buffer!SlotOf
  <1>f. ASSUME QuietFor(w) \/ UNCHANGED pc, fd' = fd PROVE FdFree'
    BY <1>f DEF FdFree, QuietFor
  <1>a. ASSUME doing[w] = "lookup", NEW stage \in {"log", "store"}, Advance(w, stage),
               NEW reply, Answer(Socket(w), reply),
               UNCHANGED <<pc, queue_length, buffer, in, out, count, request, fd>>
        PROVE  ConnInv'
    <2>1. request[w] \in Items
      BY <1>a DEF DoingInv
    <2>2. /\ HeldFd(serve) = Socket(w) /\ Socket(w) \in Fds
          /\ HeldFd(serve)' = NoFd
      BY <1>a, <2>1, HeldHere, HeldThere DEF DoingInv, Advance, Socket, Items
    <2>3. \A q \in Places \ {serve} : SameAt(q)
      BY <1>a, <1>o, PlaceCases, HeldHere, HeldThere
      DEF SameAt, Advance, DoingInv, Socket, Name
    <2>4. /\ open' = open \ {HeldFd(serve)}
          /\ asked' = [asked EXCEPT ![HeldFd(serve)] = NoRequest]
      BY <1>a, <2>2 DEF Answer
    <2> QED
      BY <1>a, <1>f, <2>2, <2>3, <2>4, OneCloses DEF ConnInv
  <1>b. ASSUME doing[w] # "lookup", NEW stage \in {"idle", "log", "logged"}, Advance(w, stage),
               QuietFor(w) \/ UNCHANGED <<pc, request>>,
               \A d \in Dispatchers : request'[d] = request[d],
               UNCHANGED <<queue_length, buffer, in, out, count, fd, open, asked>>
        PROVE  ConnInv'
    <2>1. \A q \in Places : SameAt(q)
      BY <1>b, <1>o, PlaceCases, HeldHere, HeldThere
      DEF SameAt, Advance, DoingInv, QuietFor, Socket, Name
    <2> QED
      BY <1>b, <1>f, <2>1, AllStay DEF ConnInv
  <1>1. CASE BufferOnly(Buffer!WaitWhileEmpty(w))
    BY <1>1, WorkerEffect, StillKeepsConnInv
    DEF BufferOnly, serverVars, clientVars, Buffer!WaitWhileEmpty, Buffer!Sleep, Buffer!ring
  <1>2. CASE Dequeue(w)
    <2>0. PICK k : k = out
      OBVIOUS
    <2> DEFINE slot == <<"slot", k>>
    <2>1. /\ doing[w] = "idle" /\ Advance(w, "lookup")
          /\ request' = [request EXCEPT ![w] = buffer[k]]
          /\ UNCHANGED <<buffer, fd, open, asked>>
      BY <1>2, <2>0 DEF Dequeue, Buffer!Dequeue, clientVars, DoingInv
    <2>2. /\ k \in Buffer!BufferSlots /\ k \in Buffer!Occupied
          /\ Buffer!Occupied' = Buffer!Occupied \ {k}
          /\ buffer[k] \in Items
      BY <1>2, <2>0, DequeueFreesSlot DEF Dequeue
    <2>3. slot \in Places /\ slot # serve
      BY <2>2, PlaceCases
    <2>4. request'[w] = buffer[k] /\ doing'[w] = "lookup"
      BY <2>1 DEF DoingInv, Advance
    <2>5. buffer[k].m_socket \in Fds /\ buffer[k].m_szRequest \in Files
      BY <2>2 DEF Items
    <2>6. /\ HeldFd(slot) = buffer[k].m_socket /\ HeldFd(slot)' = NoFd
          /\ HeldFile(slot) = buffer[k].m_szRequest
          /\ HeldFd(serve) = NoFd /\ HeldFd(serve)' = buffer[k].m_socket
          /\ HeldFile(serve)' = buffer[k].m_szRequest
      BY <2>1, <2>2, <2>4, HeldHere, HeldThere DEF Socket, Name
    <2>7. \A q \in Places \ {slot, serve} : SameAt(q)
      BY <2>1, <2>2, PlaceCases, HeldHere, HeldThere
      DEF SameAt, Advance, DoingInv, Socket, Name
    <2>8. asked' = [asked EXCEPT ![HeldFd(slot)] = HeldFile(serve)']
      BY <2>1, <2>3, <2>5, <2>6, WebServerAssumption DEF AskedIsHeld
    <2>9. FdFree'
      BY <1>2, <1>f, <2>1, WorkerEffect DEF Dequeue
    <2> QED
      BY <2>1, <2>3, <2>5, <2>6, <2>7, <2>8, <2>9, OneMoves DEF ConnInv
  <1>3. CASE Hit(w)
    <2>1. PICK i \in Cache!Matches(Name(w)) :
              Answer(Socket(w), cache_array[i].cache_buffer)
      BY <1>3 DEF Hit
    <2> QED
      BY <1>3, <1>a, <2>1 DEF Hit, bufferVars
  <1>4. CASE ReadFile(w)
    BY <1>4, <1>a DEF ReadFile, Miss, bufferVars
  <1>5. CASE FileNotFound(w)
    BY <1>5, <1>a DEF FileNotFound, Miss, bufferVars
  <1>6. CASE Store(w) \/ Log(w)
    BY <1>6, <1>b DEF Store, Log, bufferVars, clientVars
  <1>7. CASE Finish(w)
    <2>1. QuietFor(w)
      BY <1>7, WorkerEffect DEF Finish
    <2>2. \A d \in Dispatchers : request'[d] = request[d]
      BY <1>7 DEF Finish, Buffer!Finish
    <2>3. /\ doing[w] = "logged" /\ Advance(w, "idle")
          /\ UNCHANGED <<queue_length, buffer, in, out, count, fd, open, asked>>
      BY <1>7 DEF Finish, Buffer!Finish, Buffer!ring, clientVars
    <2> QED
      BY <1>b, <2>1, <2>2, <2>3
  <1> QED
    BY <1>1, <1>2, <1>3, <1>4, <1>5, <1>6, <1>7 DEF WorkerStep

LEMMA InitConnInv == Init => ConnInv
  <1> SUFFICES ASSUME Init PROVE ConnInv
    OBVIOUS
  <1>1. Buffer!Occupied = {}
    BY DEF Init, Buffer!BufferInit, Buffer!Occupied
  <1>2. \A p \in Places : HeldFd(p) = NoFd
    BY <1>1, PlaceCases, HeldHere DEF Init, Buffer!BufferInit, Buffer!Threads
  <1> QED
    BY <1>2, WebServerAssumption
    DEF Init, ConnInv, Exclusive, OpenIsHeld, AskedIsHeld, FdFree

LEMMA NextConnInv == ServerInv /\ ConnInv /\ [Next]_vars => ConnInv'
  <1> SUFFICES ASSUME ServerInv, ConnInv, [Next]_vars PROVE ConnInv'
    OBVIOUS
  <1>1. ASSUME NEW t \in Buffer!Threads,
               BufferOnly(Buffer!Lock(t)) \/ BufferOnly(Buffer!Spurious(t))
        PROVE  ConnInv'
    <2>1. QuietFor(NoThread)
      BY <1>1, LockEffect DEF BufferOnly, Buffer!Threads, ServerInv
    <2>2. UNCHANGED <<queue_length, buffer, in, out, count, request, fd, doing, open, asked>>
      BY <1>1 DEF BufferOnly, Buffer!Lock, Buffer!Spurious, Buffer!ring, serverVars, clientVars
    <2> QED
      BY <2>1, <2>2, StillKeepsConnInv
  <1>2. CASE \E d \in Dispatchers : DispatcherStep(d)
    BY <1>2, DispatcherKeepsConnInv
  <1>3. CASE \E w \in Workers : WorkerStep(w)
    BY <1>3, WorkerKeepsConnInv
  <1>4. CASE \/ JoinDispatchers \/ HandlerCloses \/ HandlerExits
             \/ \E f \in Files : ChangeFile(f)
             \/ Tick
             \/ UNCHANGED vars
    <2>1. UNCHANGED <<queue_length, buffer, in, out, count, pc, request, fd, doing,
                      open, asked>>
      BY <1>4 DEF JoinDispatchers, HandlerCloses, HandlerExits, MainOnly, ChangeFile,
                  Tick, vars, serverVars, clientVars, bufferVars
    <2> QED
      BY <2>1, StillKeepsConnInv DEF QuietFor
  <1> QED
    BY <1>1, <1>2, <1>3, <1>4 DEF Next, ThreadStep

(* Holders(s) lists the places that hold s, the slots by their position in *)
(* the queue: one of them if s is open, none if it is closed.              *)
PlaceOf(x) == IF x[1] = "slot" THEN <<"slot", Buffer!SlotOf(x[2])>> ELSE x

LEMMA HolderIsPlace ==
    ASSUME ServerInv, NEW s \in Fds, NEW x \in Holders(s)
    PROVE  /\ PlaceOf(x) \in Places
           /\ HeldFd(PlaceOf(x)) = s
           /\ x[1] = "slot" => x[2] \in 0 .. count - 1 /\ x = <<"slot", x[2]>>
  <1>1. ASSUME NEW d \in Dispatchers, x = <<"get", d>>, fd[d] = s
        PROVE  PlaceOf(x) = x /\ x \in Places /\ HeldFd(x) = s /\ x[1] # "slot"
    BY <1>1, PlaceCases, HeldHere DEF PlaceOf
  <1>2. ASSUME NEW d \in Dispatchers, x = <<"put", d>>, request[d] # NoItem, Socket(d) = s
        PROVE  PlaceOf(x) = x /\ x \in Places /\ HeldFd(x) = s /\ x[1] # "slot"
    BY <1>2, PlaceCases, HeldHere DEF PlaceOf
  <1>3. ASSUME NEW w \in Workers, x = <<"serve", w>>, doing[w] = "lookup", Socket(w) = s
        PROVE  PlaceOf(x) = x /\ x \in Places /\ HeldFd(x) = s /\ x[1] # "slot"
    BY <1>3, PlaceCases, HeldHere DEF PlaceOf
  <1>4. ASSUME NEW k \in 0 .. count - 1, x = <<"slot", k>>,
               buffer[Buffer!SlotOf(k)].m_socket = s
        PROVE  /\ PlaceOf(x) \in Places /\ HeldFd(PlaceOf(x)) = s
               /\ x[2] \in 0 .. count - 1 /\ x = <<"slot", x[2]>>
    <2>1. Buffer!SlotOf(k) \in Buffer!Occupied
      BY <1>4 DEF Buffer!Occupied
    <2>2. Buffer!SlotOf(k) \in Buffer!BufferSlots
      BY <2>1, OccupiedIsSlot DEF ServerInv
    <2>3. PlaceOf(x) = <<"slot", Buffer!SlotOf(k)>>
      BY <1>4 DEF PlaceOf
    <2> QED
      BY <1>4, <2>1, <2>2, <2>3, PlaceCases, HeldHere
  <1>5. \/ \E d \in Dispatchers : x = <<"get", d>> /\ fd[d] = s
        \/ \E d \in Dispatchers : x = <<"put", d>> /\ request[d] # NoItem /\ Socket(d) = s
        \/ \E w \in Workers : x = <<"serve", w>> /\ doing[w] = "lookup" /\ Socket(w) = s
        \/ \E k \in 0 .. count - 1 :
              x = <<"slot", k>> /\ buffer[Buffer!SlotOf(k)].m_socket = s
    BY DEF Holders
  <1> QED
    BY <1>1, <1>2, <1>3, <1>4, <1>5

LEMMA OwnerFromConnInv == ServerInv /\ ConnInv => OneOwner
  <1> SUFFICES ASSUME ServerInv, ConnInv, NEW s \in Fds
               PROVE  Cardinality(Holders(s)) = IF s \in open THEN 1 ELSE 0
    BY DEF OneOwner
  <1>1. ASSUME NEW x \in Holders(s), NEW y \in Holders(s) PROVE x = y
    <2>1. PlaceOf(x) = PlaceOf(y)
      BY HolderIsPlace, WebServerAssumption DEF ConnInv, Exclusive
    <2>2. CASE x[1] # "slot" /\ y[1] # "slot"
      BY <2>1, <2>2 DEF PlaceOf
    <2>3. CASE ~ (x[1] # "slot" /\ y[1] # "slot")
      <3>1. x[1] = "slot" /\ y[1] = "slot"
        BY <2>1, <2>3 DEF PlaceOf
      <3>2. Buffer!SlotOf(x[2]) = Buffer!SlotOf(y[2])
        BY <2>1, <3>1 DEF PlaceOf
      <3>3. x[2] = y[2]
        BY <3>1, <3>2, HolderIsPlace, SlotsDistinct DEF ServerInv
      <3> QED
        BY <3>1, <3>3, HolderIsPlace
    <2> QED
      BY <2>2, <2>3
  <1>2. CASE s \in open
    <2>1. PICK p \in Places : HeldFd(p) = s
      BY <1>2 DEF ConnInv, OpenIsHeld
    <2>2. \E x : x \in Holders(s)
      <3>1. CASE \E d \in Dispatchers : p = <<"get", d>> \/ p = <<"put", d>>
        BY <2>1, <3>1, HeldHere, WebServerAssumption DEF Holders
      <3>2. CASE \E w \in Workers : p = <<"serve", w>>
        BY <2>1, <3>2, HeldHere, WebServerAssumption DEF Holders
      <3>3. ASSUME NEW i \in Buffer!BufferSlots, p = <<"slot", i>>
            PROVE  \E x : x \in Holders(s)
        <4>1. i \in Buffer!Occupied /\ buffer[i].m_socket = s
          BY <2>1, <3>3, HeldHere, WebServerAssumption
        <4>2. PICK k \in 0 .. count - 1 : i = Buffer!SlotOf(k)
          BY <4>1 DEF Buffer!Occupied
        <4>3. <<"slot", k>> \in Holders(s)
          BY <4>1, <4>2 DEF Holders
        <4> QED
          BY <4>3
      <3> QED
        BY <3>1, <3>2, <3>3, PlaceCases
    <2>3. PICK x : Holders(s) = {x}
      BY <1>1, <2>2
    <2> QED
      BY <1>2, <2>3, FS_Singleton
  <1>3. CASE s \notin open
    <2>1. \A p \in Places : HeldFd(p) # s
      BY <1>3 DEF ConnInv, OpenIsHeld
    <2>2. Holders(s) = {}
      BY <2>1, HolderIsPlace
    <2> QED
      BY <1>3, <2>2, FS_EmptySet
  <1> QED
    BY <1>2, <1>3

-------------------------------------------------------------------------------
(* What is sent.  The cache keeps each file under its own name, and a file *)
(* that was read is the one the worker was asked for.                      *)

CachedAsNamed ==
    \A i \in Cache!CacheSlots : cache_array[i].cache_request \in Files =>
        cache_array[i].cache_buffer[1] = cache_array[i].cache_request

ReadAsNamed == \A w \in Workers : doing[w] = "store" => buf[w][1] = Name(w)

ReplyInv == CachedAsNamed /\ ReadAsNamed /\ ReplyIsForAskedFile

(* A worker answers the client whose request it has with that request's    *)
(* file, so a reply that is right for the request is right for the client. *)
LEMMA AnswerIsForAsked ==
    ASSUME ServerInv, ConnInv, NEW w \in Workers, doing[w] = "lookup",
           NEW reply, reply \in Contents => reply[1] = Name(w),
           Answer(Socket(w), reply)
    PROVE  ReplyIsForAskedFile'
  <1> DEFINE serve == <<"serve", w>>
  <1>1. request[w] \in Items
    BY ThreadFacts DEF ServerInv, DoingInv
  <1>2. Socket(w) \in Fds
    BY <1>1 DEF Socket, Items
  <1>3. serve \in Places /\ HeldFd(serve) = Socket(w) /\ HeldFile(serve) = Name(w)
    BY PlaceCases, HeldHere
  <1>4. asked[Socket(w)] = Name(w)
    BY <1>2, <1>3, WebServerAssumption DEF ConnInv, AskedIsHeld
  <1> QED
    BY <1>4 DEF Answer, ReplyIsForAskedFile

(* A step that neither answers, reads nor touches the cache.               *)
LEMMA StillKeepsReplyInv ==
    ASSUME ReplyInv, UNCHANGED <<sent, buf>>,
           UNCHANGED cache_array \/ Cache!Tick,
           \A w \in Workers : doing'[w] = "store" => doing[w] = "store" /\ request'[w] = request[w]
    PROVE  ReplyInv'
  BY DEF ReplyInv, CachedAsNamed, ReadAsNamed, ReplyIsForAskedFile, Cache!Tick, Name

LEMMA WorkerKeepsReplyInv ==
    ASSUME ServerInv, ConnInv, ReplyInv, NEW w \in Workers, WorkerStep(w)
    PROVE  ReplyInv'
  <1> /\ ReplyInv /\ FdInv /\ DoingInv /\ StoreInv /\ BufferP!BufferInv /\ CacheP!CacheInv
    BY DEF ServerInv
  <1>n. doing[w] # "idle" => Name(w) \in Files
    BY ThreadFacts DEF DoingInv
  <1>a. ASSUME doing[w] # "idle", NEW stage \in {"log", "logged"}, Advance(w, stage)
        PROVE  \A v \in Workers : doing'[v] # "store"
    BY <1>a, OneWorker DEF DoingInv, Advance
  <1>1. CASE BufferOnly(Buffer!WaitWhileEmpty(w))
    BY <1>1, StillKeepsReplyInv
    DEF BufferOnly, Buffer!WaitWhileEmpty, Buffer!Sleep, serverVars, clientVars, cacheVars
  <1>2. CASE Dequeue(w)
    BY <1>2, StillKeepsReplyInv
    DEF Dequeue, Buffer!Dequeue, Advance, DoingInv, clientVars, cacheVars
  <1>3. CASE Hit(w)
    <2>1. PICK i \in Cache!Matches(Name(w)) :
              /\ Cache!Hit(Name(w), i)
              /\ Answer(Socket(w), cache_array[i].cache_buffer)
      BY <1>3 DEF Hit
    <2>2. doing[w] = "lookup" /\ Advance(w, "log") /\ UNCHANGED <<request, buf>>
      BY <1>3 DEF Hit, bufferVars
    <2>3. i \in Cache!CacheSlots /\ cache_array[i].cache_request = Name(w)
      BY WebServerAssumption
      DEF Cache!Matches, Cache!CacheSlots, CacheP!CacheInv, CacheP!CacheTypeOK
    <2>4. ReplyIsForAskedFile'
      BY <1>n, <2>1, <2>2, <2>3, AnswerIsForAsked DEF ReplyInv, CachedAsNamed
    <2>5. CachedAsNamed'
      BY <2>1 DEF Cache!Hit, ReplyInv, CachedAsNamed, CacheP!CacheInv, CacheP!CacheTypeOK,
                  CacheP!Slot, CacheP!CacheSlots, Cache!CacheSlots
    <2>6. ReadAsNamed'
      BY <1>a, <2>2 DEF ReadAsNamed
    <2> QED
      BY <2>4, <2>5, <2>6 DEF ReplyInv
  <1>4. CASE ReadFile(w)
    <2>1. /\ doing[w] = "lookup" /\ Advance(w, "store")
          /\ buf' = [buf EXCEPT ![w] = <<Name(w), disk[Name(w)]>>]
          /\ Answer(Socket(w), buf'[w])
          /\ UNCHANGED <<request, cache_array>>
      BY <1>4 DEF ReadFile, Miss, bufferVars, cacheVars
    <2>2. buf'[w] = <<Name(w), disk[Name(w)]>>
      BY <2>1 DEF StoreInv
    <2>3. ReplyIsForAskedFile'
      BY <2>1, <2>2, AnswerIsForAsked
    <2>4. \A v \in Workers : doing'[v] = "store" => v = w
      BY <2>1, OneWorker DEF DoingInv, Advance
    <2>5. ReadAsNamed'
      BY <2>1, <2>2, <2>4 DEF ReadAsNamed, Name
    <2> QED
      BY <2>1, <2>3, <2>5 DEF ReplyInv, CachedAsNamed
  <1>5. CASE FileNotFound(w)
    <2>1. /\ doing[w] = "lookup" /\ Advance(w, "log") /\ Answer(Socket(w), NotFound)
          /\ UNCHANGED cache_array
      BY <1>5 DEF FileNotFound, Miss, cacheVars
    <2>2. ReplyIsForAskedFile'
      BY <2>1, AnswerIsForAsked, WebServerAssumption DEF Contents
    <2>3. ReadAsNamed'
      BY <1>a, <2>1 DEF ReadAsNamed
    <2> QED
      BY <2>1, <2>2, <2>3 DEF ReplyInv, CachedAsNamed
  <1>6. CASE Store(w)
    <2>1. doing[w] = "store" /\ Advance(w, "log") /\ UNCHANGED sent
      BY <1>6 DEF Store, clientVars
    <2>2. ReadAsNamed' /\ ReplyIsForAskedFile'
      BY <1>a, <2>1 DEF ReplyInv, ReadAsNamed, ReplyIsForAskedFile
    <2>3. CachedAsNamed'
      <3>1. CASE cache_size > 0
        <4>1. \E i : Cache!FillSlot(i, Name(w), buf[w])
          BY <1>6, <3>1 DEF Store, Cache!AddToCache
        <4>2. buf[w][1] = Name(w)
          BY <2>1 DEF ReplyInv, ReadAsNamed
        <4> QED
          BY <4>1, <4>2
          DEF Cache!FillSlot, ReplyInv, CachedAsNamed, CacheP!CacheInv, CacheP!CacheTypeOK,
              CacheP!CacheSlots, Cache!CacheSlots
      <3>2. CASE ~ (cache_size > 0)
        BY <1>6, <3>2 DEF Store, ReplyInv, CachedAsNamed, cacheVars
      <3> QED
        BY <3>1, <3>2
    <2> QED
      BY <2>2, <2>3 DEF ReplyInv
  <1>7. CASE Log(w)
    BY <1>7, <1>a, StillKeepsReplyInv DEF Log, clientVars, cacheVars
  <1>8. CASE Finish(w)
    <2>1. \A v \in Workers : doing'[v] = "store" => doing[v] = "store" /\ v # w
      BY <1>8 DEF Finish, DoingInv, Advance
    <2>2. \A v \in Workers : v # w => request'[v] = request[v]
      BY <1>8, WorkerEffect DEF Finish, QuietFor
    <2> QED
      BY <1>8, <2>1, <2>2, StillKeepsReplyInv DEF Finish, clientVars, cacheVars
  <1> QED
    BY <1>1, <1>2, <1>3, <1>4, <1>5, <1>6, <1>7, <1>8 DEF WorkerStep

LEMMA InitReplyInv == Init => ReplyInv
  BY WebServerAssumption
  DEF Init, Cache!CacheInit, Cache!ZeroSlot, ReplyInv, CachedAsNamed, ReadAsNamed,
      ReplyIsForAskedFile, NoReply, Contents

LEMMA NextReplyInv == ServerInv /\ ConnInv /\ ReplyInv /\ [Next]_vars => ReplyInv'
  <1> SUFFICES ASSUME ServerInv, ConnInv, ReplyInv, [Next]_vars PROVE ReplyInv'
    OBVIOUS
  <1>1. ASSUME NEW t \in Buffer!Threads,
               BufferOnly(Buffer!Lock(t)) \/ BufferOnly(Buffer!Spurious(t))
        PROVE  ReplyInv'
    BY <1>1, StillKeepsReplyInv
    DEF BufferOnly, Buffer!Lock, Buffer!Spurious, serverVars, clientVars, cacheVars
  <1>2. ASSUME NEW d \in Dispatchers, DispatcherStep(d) PROVE ReplyInv'
    <2>1. QuietFor(d)
      BY <1>2, DispatcherEffect
      DEF DispatcherStep, BufferOnly, Accept, GetRequest, GetRequestFails, ServerInv
    <2>2. UNCHANGED <<sent, buf, doing, cache_array>>
      BY <1>2 DEF DispatcherStep, BufferOnly, serverVars, clientVars, cacheVars, Accept,
                  GetRequest, GetRequestFails
    <2>3. d \notin Workers
      BY WebServerAssumption
    <2> QED
      BY <2>1, <2>2, <2>3, StillKeepsReplyInv DEF QuietFor
  <1>3. CASE \E w \in Workers : WorkerStep(w)
    BY <1>3, WorkerKeepsReplyInv
  <1>4. CASE \/ JoinDispatchers \/ HandlerCloses \/ HandlerExits
             \/ \E f \in Files : ChangeFile(f)
             \/ Tick
             \/ UNCHANGED vars
    <2>1. UNCHANGED <<request, doing, buf, sent>> /\ (UNCHANGED cache_array \/ Cache!Tick)
      BY <1>4 DEF JoinDispatchers, HandlerCloses, HandlerExits, MainOnly, ChangeFile,
                  Tick, vars, serverVars, clientVars, bufferVars, cacheVars
    <2> QED
      BY <2>1, StillKeepsReplyInv
  <1> QED
    BY <1>1, <1>2, <1>3, <1>4 DEF Next, ThreadStep

-------------------------------------------------------------------------------
(* The theorems.                                                           *)

(* The threads of the server, whatever they do between two steps on the    *)
(* ring and whatever the files, the clients and ^C do, use the ring only   *)
(* as RequestBuffer says: what is proved of that module holds of them.     *)
THEOREM ServerUsesBuffer == Spec => UsesBuffer
  <1>1. Init => Buffer!BufferInit
    BY DEF Init
  <1> QED
    BY <1>1, InitServerInv, NextServerInv, NextIsBuffer, PTL
    DEF Spec, UsesBuffer, Buffer!BufferSpec, Buffer!bufferVars, bufferVars

(* The workers use the cache one lookup or insertion at a time, and insert *)
(* only what is not there: what is proved of FileCache holds of them.      *)
THEOREM ServerUsesCache == Spec => UsesCache
  <1>1. Init => Cache!CacheInit
    BY DEF Init
  <1> QED
    BY <1>1, InitServerInv, NextServerInv, NextIsCache, PTL
    DEF Spec, UsesCache, Cache!CacheSpec, Cache!cacheVars, cacheVars

(* No interleaving of the workers puts a file into the cache twice.        *)
THEOREM ServerCachesOnce == Spec => []CachedOnce
  <1>1. ServerInv => CachedOnce
    BY DEF ServerInv, CacheP!CacheInv, CachedOnce, Cache!CachedOnce,
           CacheP!CachedOnce, Cache!CacheSlots, CacheP!CacheSlots
  <1> QED
    BY <1>1, InitServerInv, NextServerInv, PTL DEF Spec

(* Every open connection has exactly one owner, a dispatcher, a slot of    *)
(* the ring or a worker, and a closed one has none, whatever the number of *)
(* threads and sockets and however soon a socket number is used again.     *)
THEOREM ServerOwnsOnce == Spec => []OneOwner
  BY OwnerFromConnInv, InitServerInv, NextServerInv, InitConnInv, NextConnInv, PTL
  DEF Spec

(* A client is never sent the content of a file other than the one it      *)
(* asked for, through any reuse of sockets, ring slots and cache slots.    *)
THEOREM ServerRepliesRight == Spec => []ReplyIsForAskedFile
  <1>1. ReplyInv => ReplyIsForAskedFile
    BY DEF ReplyInv
  <1> QED
    BY <1>1, InitServerInv, NextServerInv, InitConnInv, NextConnInv, InitReplyInv,
       NextReplyInv, PTL DEF Spec

===============================================================================
