------------------------------- MODULE WebServer -------------------------------
(***************************************************************************)
(* The web server of csci4061/cache/server.c as a whole: the threads and   *)
(* the ring of RequestBuffer, the cache of FileCache, the connections of   *)
(* the clients, the files on disk, the log, the join in main and the ^C    *)
(* handler.  A worker's work on one request, a single state of             *)
(* RequestBuffer, is taken apart here into its lookup, its reply, its use  *)
(* of the cache and its log line; all of it runs under buffer_access, while*)
(* the files change, seconds pass, clients connect and ^C arrives.         *)
(*                                                                         *)
(* The library behind util.h is external: accept_connection opens a socket *)
(* number no open connection has, return_result and return_error answer    *)
(* and close it, and so does get_request when it fails.                    *)
(***************************************************************************)
EXTENDS Integers, Sequences, FiniteSets

CONSTANTS
    Dispatchers, Workers, NoThread,   \* the threads
    Fds, NoFd,                        \* socket numbers, reused once closed
    Files, NoRequest,                 \* file names
    Versions, NoVersion,              \* what a file may hold; a missing file
    NoItem, NoContent, NotFound,      \* empty slot, null buffer, error reply
    MAX_QUEUE_SIZE, QueueArgs,
    MAX_CACHE_SIZE, CacheArgs,
    MaxTime                           \* bound on the clock

ASSUME WebServerAssumption ==
    /\ Dispatchers # {}
    /\ Workers # {}
    /\ Dispatchers \cap Workers = {}
    /\ NoThread \notin Dispatchers \cup Workers
    /\ NoFd \notin Fds
    /\ NoItem \notin [m_socket : Fds, m_szRequest : Files]
    /\ NoRequest \notin Files
    /\ NoContent \notin Files \X Versions
    /\ NotFound \notin Files \X Versions
    /\ MAX_QUEUE_SIZE \in Nat \ {0}
    /\ QueueArgs \subseteq Int
    /\ MAX_CACHE_SIZE \in Nat \ {0}
    /\ CacheArgs \subseteq Int
    /\ MaxTime \in Nat

(* A request as the buffer holds it, and the bytes read from a file.       *)
Items == [m_socket : Fds, m_szRequest : Files]
Contents == Files \X Versions

VARIABLES
    queue_length, buffer, in, out, count, buffer_access, pc, request,
    cache_size, cache_array, cache_count, clock,
    fd,              \* the socket a dispatcher is to read a request from
    doing,           \* how far a worker is with its request
    buf,             \* the file a worker has read
    open,            \* the sockets that are open
    asked,           \* the file the client of each open socket asked for
    sent,            \* the last reply, with what its client had asked for
    disk,            \* the files below the web directory
    log_file,        \* "open" or "closed"
    main             \* where the main thread is

Buffer == INSTANCE RequestBuffer
Cache == INSTANCE FileCache WITH Requests <- Files

bufferVars == <<queue_length, buffer, in, out, count, buffer_access, pc, request>>
cacheVars == <<cache_size, cache_array, cache_count, clock>>
clientVars == <<open, asked, sent>>
serverVars == <<fd, doing, buf, clientVars, disk, log_file, main>>
vars == <<bufferVars, cacheVars, serverVars>>

WorkStages == {"idle", "lookup", "store", "log", "logged"}
NoReply == NoContent

Init ==
    /\ Buffer!BufferInit
    /\ Cache!CacheInit
    /\ fd = [d \in Dispatchers |-> NoFd]
    /\ doing = [w \in Workers |-> "idle"]
    /\ buf = [w \in Workers |-> NoContent]
    /\ open = {}
    /\ asked = [s \in Fds |-> NoRequest]
    /\ sent = [asked |-> NoRequest, reply |-> NoReply]
    /\ disk \in [Files -> Versions \cup {NoVersion}]
    /\ log_file = "open"
    /\ main = "join_dispatchers"

-------------------------------------------------------------------------------
(* The dispatchers and the lock, as in RequestBuffer, until the program    *)
(* exits.                                                                  *)

Running == main # "exited"

Accept(d, s) ==
    /\ Running
    /\ Buffer!Accept(d)
    /\ s \notin open
    /\ fd' = [fd EXCEPT ![d] = s]
    /\ open' = open \cup {s}
    /\ UNCHANGED <<cacheVars, doing, buf, asked, sent, disk, log_file, main>>

GetRequest(d, f) ==
    /\ Running
    /\ Buffer!GetRequest(d, [m_socket |-> fd[d], m_szRequest |-> f])
    /\ asked' = [asked EXCEPT ![fd[d]] = f]
    /\ fd' = [fd EXCEPT ![d] = NoFd]
    /\ UNCHANGED <<cacheVars, doing, buf, open, sent, disk, log_file, main>>

GetRequestUnchecked(d) ==    \* mistake: the result of get_request is ignored
    /\ Running
    /\ \E f \in Files :
          Buffer!GetRequest(d, [m_socket |-> fd[d], m_szRequest |-> f])
    /\ open' = open \ {fd[d]}
    /\ fd' = [fd EXCEPT ![d] = NoFd]
    /\ UNCHANGED <<cacheVars, doing, buf, asked, sent, disk, log_file, main>>

GetRequestFails(d) ==
    /\ Running
    /\ Buffer!GetRequestFails(d)
    /\ open' = open \ {fd[d]}
    /\ fd' = [fd EXCEPT ![d] = NoFd]
    /\ UNCHANGED <<cacheVars, doing, buf, asked, sent, disk, log_file, main>>

BufferOnly(step) ==
    Running /\ step /\ UNCHANGED <<cacheVars, serverVars>>

DispatcherStep(d) ==
    \/ \E s \in Fds : Accept(d, s)
    \/ BufferOnly(Buffer!AcceptFails(d))
    \/ \E f \in Files : GetRequest(d, f)
    \/ GetRequestFails(d)
    \/ BufferOnly(Buffer!WaitWhileFull(d))
    \/ BufferOnly(Buffer!Enqueue(d))
    \/ BufferOnly(Buffer!SignalNotEmpty(d))

-------------------------------------------------------------------------------
(* A worker's work on the request it has taken.                            *)

Advance(w, stage) == doing' = [doing EXCEPT ![w] = stage]

Socket(t) == request[t].m_socket
Name(w) == request[w].m_szRequest

(* return_result and return_error: the reply goes out and the socket closes. *)
Answer(s, reply) ==
    /\ sent' = [asked |-> asked[s], reply |-> reply]
    /\ open' = open \ {s}
    /\ asked' = [asked EXCEPT ![s] = NoRequest]

Dequeue(w) ==
    /\ Running
    /\ Buffer!Dequeue(w)
    /\ Advance(w, "lookup")
    /\ UNCHANGED <<cacheVars, fd, buf, clientVars, disk, log_file, main>>

Hit(w) ==
    /\ Running
    /\ doing[w] = "lookup"
    /\ \E i \in Cache!Matches(Name(w)) :
          /\ Cache!Hit(Name(w), i)
          /\ Answer(Socket(w), cache_array[i].cache_buffer)
    /\ Advance(w, "log")
    /\ UNCHANGED <<bufferVars, fd, buf, disk, log_file, main>>

Miss(w) == Running /\ doing[w] = "lookup" /\ Cache!Matches(Name(w)) = {}

ReadFileUnlocked(w) ==    \* mistake: the mutex is released for the disk access
    /\ Miss(w)
    /\ disk[Name(w)] # NoVersion
    /\ buf' = [buf EXCEPT ![w] = <<Name(w), disk[Name(w)]>>]
    /\ Answer(Socket(w), buf'[w])
    /\ Advance(w, "store")
    /\ buffer_access' = NoThread
    /\ UNCHANGED <<queue_length, buffer, in, out, count, pc, request,
                   cacheVars, fd, disk, log_file, main>>

ReadFile(w) ==
    /\ Miss(w)
    /\ disk[Name(w)] # NoVersion
    /\ buf' = [buf EXCEPT ![w] = <<Name(w), disk[Name(w)]>>]
    /\ Answer(Socket(w), buf'[w])
    /\ Advance(w, "store")
    /\ UNCHANGED <<bufferVars, cacheVars, fd, disk, log_file, main>>

FileNotFoundUnanswered(w) ==    \* mistake: a missing file is only logged
    /\ Miss(w)
    /\ disk[Name(w)] = NoVersion
    /\ Advance(w, "log")
    /\ UNCHANGED <<bufferVars, cacheVars, fd, buf, clientVars, disk, log_file, main>>

FileNotFound(w) ==
    /\ Miss(w)
    /\ disk[Name(w)] = NoVersion
    /\ Answer(Socket(w), NotFound)
    /\ Advance(w, "log")
    /\ UNCHANGED <<bufferVars, cacheVars, fd, buf, disk, log_file, main>>

StoreAlways(w) ==    \* mistake: adds to a cache of size 0 too
    /\ Running
    /\ doing[w] = "store"
    /\ Cache!AddToCache(Name(w), buf[w])
    /\ buf' = [buf EXCEPT ![w] = NoContent]
    /\ Advance(w, "log")
    /\ UNCHANGED <<bufferVars, fd, clientVars, disk, log_file, main>>

(* The file goes into the cache if there is one, and buf is freed.         *)
Store(w) ==
    /\ Running
    /\ doing[w] = "store"
    /\ IF cache_size > 0
       THEN Cache!AddToCache(Name(w), buf[w])
       ELSE UNCHANGED cacheVars
    /\ buf' = [buf EXCEPT ![w] = NoContent]
    /\ Advance(w, "log")
    /\ UNCHANGED <<bufferVars, fd, clientVars, disk, log_file, main>>

Log(w) ==
    /\ Running
    /\ doing[w] = "log"
    /\ Advance(w, "logged")
    /\ UNCHANGED <<bufferVars, cacheVars,
                   fd, buf, clientVars, disk, log_file, main>>

Finish(w) ==
    /\ Running
    /\ doing[w] = "logged"
    /\ Buffer!Finish(w)
    /\ Advance(w, "idle")
    /\ UNCHANGED <<cacheVars, fd, buf, clientVars, disk, log_file, main>>

WorkerStep(w) ==
    \/ BufferOnly(Buffer!WaitWhileEmpty(w))
    \/ Dequeue(w)
    \/ Hit(w) \/ ReadFile(w) \/ FileNotFound(w)
    \/ Store(w) \/ Log(w)
    \/ Finish(w)

-------------------------------------------------------------------------------
(* main, the ^C handler it runs, and the world outside.                    *)

MainOnly == UNCHANGED <<bufferVars, cacheVars,
                        fd, doing, buf, clientVars, disk>>

(* main joins the dispatchers and then the workers, which never return:    *)
(* nothing after the second loop is reached.                               *)
JoinDispatchers ==
    /\ main = "join_dispatchers"
    /\ \A d \in Dispatchers : pc[d] = "exited"
    /\ main' = "join_workers"
    /\ MainOnly /\ UNCHANGED log_file

(* handler closes the log and exits; the other threads run in between.     *)
HandlerCloses ==
    /\ main \in {"join_dispatchers", "join_workers"}
    /\ log_file' = "closed"
    /\ main' = "handler"
    /\ MainOnly

HandlerExits ==
    /\ main = "handler"
    /\ main' = "exited"
    /\ MainOnly /\ UNCHANGED log_file

(* A file is written, replaced or removed.                                 *)
ChangeFile(f) ==
    /\ Running
    /\ \E v \in Versions \cup {NoVersion} : v # disk[f] /\ disk' = [disk EXCEPT ![f] = v]
    /\ UNCHANGED <<bufferVars, cacheVars,
                   fd, doing, buf, clientVars, log_file, main>>

Tick ==
    /\ Running
    /\ Cache!Tick
    /\ UNCHANGED <<bufferVars, serverVars>>

ThreadStep ==
    \/ \E t \in Buffer!Threads :
          BufferOnly(Buffer!Lock(t)) \/ BufferOnly(Buffer!Spurious(t))
    \/ \E d \in Dispatchers : DispatcherStep(d)
    \/ \E w \in Workers : WorkerStep(w)

Next ==
    \/ ThreadStep
    \/ JoinDispatchers \/ HandlerCloses \/ HandlerExits
    \/ \E f \in Files : ChangeFile(f)
    \/ Tick

Spec == Init /\ [][Next]_vars

(* Fairness: that of RequestBuffer, for threads that also work on their    *)
(* request under the lock; the lock goes to some thread that wants it.     *)
Fairness ==
    /\ \A d \in Dispatchers : WF_vars(BufferOnly(
          Buffer!WaitWhileFull(d) \/ Buffer!Enqueue(d) \/ Buffer!SignalNotEmpty(d)))
    /\ \A w \in Workers : WF_vars(WorkerStep(w))
    /\ WF_vars(\E t \in Buffer!Threads : BufferOnly(Buffer!Lock(t)))
    /\ <>[][~ \E t \in Buffer!Threads : Buffer!Spurious(t)]_vars

FairSpec == Spec /\ Fairness

-------------------------------------------------------------------------------
(* Where a connection that is still to be answered can be.                 *)
Holders(s) ==
    {<<"get", d>> : d \in {e \in Dispatchers : fd[e] = s}}
    \cup {<<"put", d>> : d \in {e \in Dispatchers :
        request[e] # NoItem /\ Socket(e) = s}}
    \cup {<<"slot", k>> : k \in {j \in 0 .. count - 1 :
        buffer[Buffer!SlotOf(j)].m_socket = s}}
    \cup {<<"serve", w>> : w \in {v \in Workers :
        doing[v] = "lookup" /\ Socket(v) = s}}

(* An open connection is in exactly one place, a dispatcher's hand, a slot *)
(* of the ring or a worker's hand, and a closed one in none: none is       *)
(* forgotten, none is answered twice, and no reply goes to a socket that   *)
(* was closed and may have been given to another client since.             *)
OneOwner ==
    \A s \in Fds : Cardinality(Holders(s)) = IF s \in open THEN 1 ELSE 0

(* Whether it comes from the cache or from the disk, what a client is sent *)
(* is the content of the file it asked for, never that of another one, in  *)
(* spite of the sockets, ring slots and cache slots reused in between.     *)
ReplyIsForAskedFile ==
    sent.reply \in Contents => sent.reply[1] = sent.asked

(* Two workers that miss the same file do not cache it twice: a lookup and *)
(* the insertion it decides are one critical section.                      *)
CachedOnce == Cache!CachedOnce

(* The threads use the ring only through the steps of RequestBuffer, and   *)
(* the cache one lookup or insertion at a time, as FileCache has it, so    *)
(* what those modules promise holds of the whole server.                   *)
UsesBuffer == Buffer!BufferSpec
UsesCache == Cache!CacheSpec

InRing(s) ==
    \E k \in 0 .. count - 1 : buffer[Buffer!SlotOf(k)].m_socket = s

(* A queued request is answered, whatever happens to the file, the cache   *)
(* and the clients meanwhile, unless ^C ends the program first.            *)
QueuedIsAnswered ==
    \A s \in Fds : InRing(s) ~> (s \notin open \/ main = "exited")

(* Dispatchers that all sleep on a full buffer do not sleep forever, even  *)
(* though only a worker that empties it altogether wakes one, and it has   *)
(* the file to read and the client to answer first (server.c:235).         *)
DispatchersResume ==
    (\A d \in Dispatchers : pc[d] \in {"wait", "exited"})
    ~> (\/ \A d \in Dispatchers : pc[d] = "exited"
        \/ \E d \in Dispatchers : pc[d] = "check"
        \/ main = "exited")
===============================================================================
