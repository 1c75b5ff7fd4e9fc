------------------------------- MODULE FileCache -------------------------------
(***************************************************************************)
(* The cache of csci4061/cache/server.c: the array cache_array, the number *)
(* cache_count of its slots in use, and the two functions that touch them, *)
(* find_in_cache and add_to_cache.                                         *)
(*                                                                         *)
(* The module is the cache alone, used by one caller at a time: the worker *)
(* threads call both functions with buffer_access held (WebServer.tla      *)
(* models the threads and checks that they do use it this way).  The three *)
(* fields cache_buffer, cache_content_type and size always travel together *)
(* and are one value here, a member of Contents.                           *)
(***************************************************************************)
EXTENDS Integers

CONSTANTS
    Requests,        \* file names, as the dispatcher builds them
    Contents,        \* what a file can hold: bytes, length and content type
    NoRequest,       \* the empty name a zeroed slot holds
    NoContent,       \* the null buffer a zeroed slot holds
    MAX_CACHE_SIZE,  \* slots of the static array
    CacheArgs,       \* values of the cache_size argument of the program
    MaxTime          \* bound on the clock

ASSUME CacheAssumption ==
    /\ NoRequest \notin Requests
    /\ NoContent \notin Contents
    /\ MAX_CACHE_SIZE \in Nat \ {0}
    /\ CacheArgs \subseteq Int
    /\ MaxTime \in Nat

VARIABLES
    cache_size,      \* the configured size, fixed once main has parsed it
    cache_array,     \* the slots
    cache_count,     \* how many of them are in use
    clock            \* tv_sec, as gettimeofday would return it

cacheVars == <<cache_size, cache_array, cache_count, clock>>

CacheSlots == 0 .. MAX_CACHE_SIZE - 1

Slot == [cache_request : Requests \cup {NoRequest},
         cache_buffer  : Contents \cup {NoContent},
         time          : 0 .. MaxTime]

ZeroSlot == [cache_request |-> NoRequest, cache_buffer |-> NoContent, time |-> 0]

(* main's clamping of the optional last argument.                          *)
CacheSizeOf(arg) ==
    IF arg <= 0 THEN 0
    ELSE IF arg > MAX_CACHE_SIZE THEN MAX_CACHE_SIZE ELSE arg

CacheInit ==
    /\ cache_size \in {CacheSizeOf(arg) : arg \in CacheArgs}
    /\ cache_array = [i \in CacheSlots |-> ZeroSlot]
    /\ cache_count = 0
    /\ clock = 0

-------------------------------------------------------------------------------
(* find_in_cache scans the first cache_size slots, in use or not.          *)
Matches(req) ==
    {i \in 0 .. cache_size - 1 : cache_array[i].cache_request = req}

(* i is the slot find_in_cache returns for req: the first that matches.    *)
Found(req, i) ==
    /\ i \in Matches(req)
    /\ \A j \in Matches(req) : i <= j

(* The successful return of find_in_cache also restamps the slot.          *)
Hit(req, i) ==
    /\ Found(req, i)
    /\ cache_array' = [cache_array EXCEPT ![i].time = clock]
    /\ UNCHANGED <<cache_size, cache_count, clock>>

(* The slot the scan of a full cache settles on: it starts at slot 0 and   *)
(* moves to a later one only for a strictly earlier stamp.                 *)
Candidates == {0} \cup 1 .. cache_size - 1

Newest(i) ==    \* mistake: the comparison of the stamps is turned round
    \A j \in Candidates : cache_array[i].time >= cache_array[j].time

Oldest(i) ==
    \A j \in Candidates :
        /\ cache_array[i].time <= cache_array[j].time
        /\ j < i => cache_array[i].time < cache_array[j].time

FillSlot(i, req, content) ==
    cache_array' = [cache_array EXCEPT
        ![i] = [cache_request |-> req, cache_buffer |-> content, time |-> clock]]

AddPastNext(req, content) ==    \* mistake: increments before it fills
    /\ cache_count # cache_size
    /\ FillSlot(cache_count + 1, req, content)
    /\ cache_count' = cache_count + 1
    /\ UNCHANGED <<cache_size, clock>>

AddKeepingName(req, content) ==    \* mistake: replaces all but the name
    IF cache_count = cache_size
    THEN /\ \E i \in Candidates :
              /\ Oldest(i)
              /\ FillSlot(i, cache_array[i].cache_request, content)
         /\ UNCHANGED <<cache_size, cache_count, clock>>
    ELSE /\ FillSlot(cache_count, req, content)
         /\ cache_count' = cache_count + 1
         /\ UNCHANGED <<cache_size, clock>>

AddToCache(req, content) ==
    /\ \/ /\ cache_count = cache_size
          /\ \E i \in Candidates : Oldest(i) /\ FillSlot(i, req, content)
          /\ UNCHANGED cache_count
       \/ /\ cache_count # cache_size
          /\ FillSlot(cache_count, req, content)
          /\ cache_count' = cache_count + 1
    /\ UNCHANGED <<cache_size, clock>>

(* Whole seconds pass between calls, or do not.                            *)
Tick ==
    /\ clock < MaxTime
    /\ clock' = clock + 1
    /\ UNCHANGED <<cache_size, cache_array, cache_count>>

(* A worker's use of the cache: a hit, or a miss after which the file that *)
(* was read is added, which happens only when a cache is configured.       *)
Lookup(req) == \E i \in CacheSlots : Hit(req, i)

Load(req, content) ==
    /\ Matches(req) = {}
    /\ cache_size > 0
    /\ AddToCache(req, content)

CacheNext ==
    \/ \E req \in Requests : Lookup(req)
    \/ \E req \in Requests, content \in Contents : Load(req, content)
    \/ Tick

CacheSpec == CacheInit /\ [][CacheNext]_cacheVars

-------------------------------------------------------------------------------
(* The state of the cache has the shape the code declares, and cache_count *)
(* stays within the configured size, itself within the array.              *)
CacheTypeOK ==
    /\ cache_size \in 0 .. MAX_CACHE_SIZE
    /\ cache_array \in [CacheSlots -> Slot]
    /\ cache_count \in 0 .. cache_size
    /\ clock \in 0 .. MaxTime

(* The slots in use are exactly the first cache_count ones; find_in_cache  *)
(* scans up to cache_size and relies on the rest never matching a name.    *)
FilledPrefix ==
    \A i \in CacheSlots :
        IF i < cache_count
        THEN /\ cache_array[i].cache_request \in Requests
             /\ cache_array[i].cache_buffer \in Contents
        ELSE cache_array[i].cache_request = NoRequest

(* No file is cached twice, across any mix of hits, insertions and         *)
(* replacements (two copies would waste a slot and go stale apart).        *)
CachedOnce ==
    \A i, j \in CacheSlots :
        /\ cache_array[i].cache_request = cache_array[j].cache_request
        /\ cache_array[i].cache_request # NoRequest
        => i = j

(* The array implements the set of entries of LruCache: a hit refreshes    *)
(* only the stamp, and a full cache drops an entry with the earliest one.  *)
CachedEntries == {cache_array[i] : i \in 0 .. cache_count - 1}

Lru == INSTANCE LruCache WITH capacity <- cache_size, entries <- CachedEntries

ImplementsLru == Lru!Spec
===============================================================================
