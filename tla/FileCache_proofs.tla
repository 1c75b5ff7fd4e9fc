---------------------------- MODULE FileCache_proofs ----------------------------
(***************************************************************************)
(* Proofs about FileCache, for any cache size, any files and any clock:    *)
(* the shape of the array, that no file is cached twice, and that the      *)
(* array implements the set of entries of LruCache.                        *)
(***************************************************************************)
EXTENDS FileCache, FiniteSetTheorems, FunctionTheorems, TLAPS

USE CacheAssumption

-------------------------------------------------------------------------------
(* Type correctness.                                                       *)

(* main's clamping yields a size between 0 and that of the array.          *)
LEMMA CacheSizeClamped ==
    ASSUME NEW arg \in Int
    PROVE  CacheSizeOf(arg) \in 0 .. MAX_CACHE_SIZE
  BY DEF CacheSizeOf

LEMMA InitTypeOK == CacheInit => CacheTypeOK
  <1> SUFFICES ASSUME CacheInit PROVE CacheTypeOK
    OBVIOUS
  <1>1. cache_size \in 0 .. MAX_CACHE_SIZE
    BY CacheSizeClamped DEF CacheInit
  <1>2. ZeroSlot \in Slot
    BY DEF ZeroSlot, Slot
  <1> QED
    BY <1>1, <1>2 DEF CacheInit, CacheTypeOK, CacheSlots

(* Filling a slot of the array keeps the array's type.                     *)
LEMMA FillSlotType ==
    ASSUME CacheTypeOK, NEW i \in CacheSlots, NEW req \in Requests, NEW content \in Contents,
           FillSlot(i, req, content)
    PROVE  cache_array' \in [CacheSlots -> Slot]
  BY DEF CacheTypeOK, FillSlot, Slot

LEMMA NextTypeOK == CacheTypeOK /\ [CacheNext]_cacheVars => CacheTypeOK'
  <1> SUFFICES ASSUME CacheTypeOK, [CacheNext]_cacheVars PROVE CacheTypeOK'
    OBVIOUS
  <1>1. ASSUME NEW req \in Requests, Lookup(req) PROVE CacheTypeOK'
    <2>1. PICK i \in CacheSlots : Hit(req, i)
      BY <1>1 DEF Lookup
    <2>2. cache_array' \in [CacheSlots -> Slot]
      BY <2>1 DEF Hit, CacheTypeOK, Slot
    <2> QED
      BY <2>1, <2>2 DEF Hit, CacheTypeOK
  <1>2. ASSUME NEW req \in Requests, NEW content \in Contents, Load(req, content)
        PROVE  CacheTypeOK'
    <2>1. cache_size > 0 /\ AddToCache(req, content)
      BY <1>2 DEF Load
    <2>2. CASE cache_count = cache_size
      <3>1. PICK i \in Candidates : FillSlot(i, req, content)
        BY <2>1, <2>2 DEF AddToCache
      <3>2. i \in CacheSlots
        BY <2>1 DEF Candidates, CacheSlots, CacheTypeOK
      <3> QED
        BY <2>1, <2>2, <3>1, <3>2, FillSlotType DEF AddToCache, CacheTypeOK
    <2>3. CASE cache_count # cache_size
      <3>1. cache_count \in CacheSlots /\ FillSlot(cache_count, req, content)
        BY <2>1, <2>3 DEF AddToCache, CacheSlots, CacheTypeOK
      <3> QED
        BY <2>1, <2>3, <3>1, FillSlotType DEF AddToCache, CacheTypeOK
    <2> QED
      BY <2>2, <2>3
  <1>3. CASE Tick
    BY <1>3 DEF Tick, CacheTypeOK
  <1>4. CASE UNCHANGED cacheVars
    BY <1>4 DEF cacheVars, CacheTypeOK
  <1> QED
    BY <1>1, <1>2, <1>3, <1>4 DEF CacheNext

(* The array keeps its shape and cache_count never passes cache_size.      *)
THEOREM TypeCorrect == CacheSpec => []CacheTypeOK
  BY InitTypeOK, NextTypeOK, PTL DEF CacheSpec

-------------------------------------------------------------------------------
(* The slots in use.                                                       *)

CacheInv == CacheTypeOK /\ FilledPrefix /\ CachedOnce

LEMMA InitCacheInv == CacheInit => CacheInv
  BY InitTypeOK DEF CacheInit, CacheInv, FilledPrefix, CachedOnce, ZeroSlot, CacheSlots

(* A lookup of a file finds only slots in use.                             *)
LEMMA FoundInUse ==
    ASSUME CacheTypeOK, FilledPrefix, NEW req \in Requests, NEW i, Found(req, i)
    PROVE  /\ i \in CacheSlots /\ i \in 0 .. cache_count - 1
           /\ cache_array[i].cache_request = req
  BY DEF CacheTypeOK, FilledPrefix, Found, Matches, CacheSlots

(* An insertion touches one slot, which becomes one of those in use: the   *)
(* first free one, or any one of a full cache.                             *)
LEMMA LoadEffect ==
    ASSUME CacheTypeOK, NEW req \in Requests, NEW content \in Contents, Load(req, content)
    PROVE  \E i \in CacheSlots :
              /\ FillSlot(i, req, content)
              /\ UNCHANGED <<cache_size, clock>>
              /\ \/ /\ cache_count # cache_size
                    /\ i = cache_count
                    /\ cache_count' = cache_count + 1
                 \/ /\ cache_count = cache_size
                    /\ i \in 0 .. cache_count - 1
                    /\ Oldest(i)
                    /\ cache_count' = cache_count
  BY DEF Load, AddToCache, Candidates, CacheSlots, CacheTypeOK

LEMMA NextCacheInv == CacheInv /\ [CacheNext]_cacheVars => CacheInv'
  <1> SUFFICES ASSUME CacheInv, [CacheNext]_cacheVars PROVE FilledPrefix' /\ CachedOnce'
    BY NextTypeOK DEF CacheInv
  <1> CacheTypeOK /\ FilledPrefix /\ CachedOnce
    BY DEF CacheInv
  <1>1. ASSUME NEW req \in Requests, Lookup(req) PROVE FilledPrefix' /\ CachedOnce'
    <2>1. PICK i \in CacheSlots : Hit(req, i)
      BY <1>1 DEF Lookup
    <2>2. \A j \in CacheSlots :
            /\ cache_array'[j].cache_request = cache_array[j].cache_request
            /\ cache_array'[j].cache_buffer = cache_array[j].cache_buffer
      BY <2>1 DEF Hit, CacheTypeOK, Slot
    <2> QED
      BY <2>1, <2>2 DEF Hit, FilledPrefix, CachedOnce
  <1>2. ASSUME NEW req \in Requests, NEW content \in Contents, Load(req, content)
        PROVE  FilledPrefix' /\ CachedOnce'
    <2>1. PICK i \in CacheSlots :
              /\ FillSlot(i, req, content)
              /\ UNCHANGED <<cache_size, clock>>
              /\ \/ /\ cache_count # cache_size
                    /\ i = cache_count
                    /\ cache_count' = cache_count + 1
                 \/ /\ cache_count = cache_size
                    /\ i \in 0 .. cache_count - 1
                    /\ Oldest(i)
                    /\ cache_count' = cache_count
      BY <1>2, LoadEffect
    <2>2. /\ cache_array'[i].cache_request = req
          /\ cache_array'[i].cache_buffer = content
          /\ \A j \in CacheSlots \ {i} : cache_array'[j] = cache_array[j]
      BY <2>1 DEF FillSlot, CacheTypeOK
    <2>3. FilledPrefix'
      BY <2>1, <2>2 DEF FilledPrefix, CacheTypeOK, CacheSlots
    <2>4. \A j \in CacheSlots : cache_array[j].cache_request # req
      BY <1>2 DEF Load, Matches, FilledPrefix, CacheTypeOK, CacheSlots
    <2>5. CachedOnce'
      BY <2>2, <2>4 DEF CachedOnce
    <2> QED
      BY <2>3, <2>5
  <1>3. CASE Tick
    BY <1>3 DEF Tick, FilledPrefix, CachedOnce
  <1>4. CASE UNCHANGED cacheVars
    BY <1>4 DEF cacheVars, FilledPrefix, CachedOnce
  <1> QED
    BY <1>1, <1>2, <1>3, <1>4 DEF CacheNext

(* The slots in use are always the first cache_count ones.                 *)
THEOREM PrefixInUse == CacheSpec => []FilledPrefix
  <1>1. CacheInv => FilledPrefix
    BY DEF CacheInv
  <1> QED
    BY <1>1, InitCacheInv, NextCacheInv, PTL DEF CacheSpec

(* No file ever has two slots of the cache.                                *)
THEOREM NoFileCachedTwice == CacheSpec => []CachedOnce
  <1>1. CacheInv => CachedOnce
    BY DEF CacheInv
  <1> QED
    BY <1>1, InitCacheInv, NextCacheInv, PTL DEF CacheSpec

-------------------------------------------------------------------------------
(* The array implements a set of entries.                                  *)

(* Two slots in use never hold the same entry...                           *)
LEMMA EntriesDistinct ==
    ASSUME CacheInv, NEW i \in 0 .. cache_count - 1, NEW j \in 0 .. cache_count - 1,
           cache_array[i] = cache_array[j]
    PROVE  i = j
  <1>1. i \in CacheSlots /\ j \in CacheSlots
    BY DEF CacheInv, CacheTypeOK, CacheSlots
  <1>2. cache_array[i].cache_request # NoRequest
    BY <1>1 DEF CacheInv, FilledPrefix, CacheTypeOK
  <1> QED
    BY <1>1, <1>2 DEF CacheInv, CachedOnce

(* ... so cache_count is the number of entries.                            *)
LEMMA EntriesCardinality ==
    ASSUME CacheInv
    PROVE  Cardinality(CachedEntries) = cache_count
  <1> DEFINE f == [k \in 1 .. cache_count |-> cache_array[k - 1]]
  <1>1. cache_count \in Nat
    BY DEF CacheInv, CacheTypeOK
  <1>2. f \in [1 .. cache_count -> CachedEntries]
    BY <1>1 DEF CachedEntries
  <1>3. ASSUME NEW a \in 1 .. cache_count, NEW b \in 1 .. cache_count, f[a] = f[b]
        PROVE  a = b
    <2>1. /\ a - 1 \in 0 .. cache_count - 1 /\ b - 1 \in 0 .. cache_count - 1
          /\ cache_array[a - 1] = cache_array[b - 1]
      BY <1>1, <1>3
    <2>2. a - 1 = b - 1
      BY <2>1, EntriesDistinct
    <2> QED
      BY <1>1, <2>2
  <1>4. ASSUME NEW e \in CachedEntries
        PROVE  \E k \in 1 .. cache_count : f[k] = e
    <2>1. PICK i \in 0 .. cache_count - 1 : cache_array[i] = e
      BY DEF CachedEntries
    <2>2. i + 1 \in 1 .. cache_count /\ (i + 1) - 1 = i
      BY <1>1
    <2>3. f[i + 1] = e
      BY <2>1, <2>2
    <2> QED
      BY <2>2, <2>3
  <1>5. f \in Bijection(1 .. cache_count, CachedEntries)
    <2> HIDE DEF f
    <2> QED
      BY <1>2, <1>3, <1>4, Fun_IsBij
  <1>6. ExistsBijection(1 .. cache_count, CachedEntries)
    BY <1>5 DEF ExistsBijection
  <1> QED
    BY <1>1, <1>6, FS_CountingElements

LEMMA InitImplementsLru == CacheInit => Lru!Init
  <1> SUFFICES ASSUME CacheInit PROVE Lru!Init
    OBVIOUS
  <1>1. cache_size \in Nat
    BY InitTypeOK DEF CacheTypeOK
  <1>2. CachedEntries = {}
    BY DEF CacheInit, CachedEntries
  <1> QED
    BY <1>1, <1>2 DEF CacheInit, Lru!Init

LEMMA LookupImplementsUse ==
    ASSUME CacheInv, NEW req \in Requests, Lookup(req)
    PROVE  Lru!Use(req)
  <1>1. PICK i \in CacheSlots : Hit(req, i)
    BY DEF Lookup
  <1>2. CacheTypeOK /\ FilledPrefix /\ Found(req, i)
    BY <1>1 DEF CacheInv, Hit
  <1>3. i \in 0 .. cache_count - 1 /\ cache_array[i].cache_request = req
    BY <1>2, FoundInUse
  <1>4. cache_array[i] \in Lru!Cached(req)
    BY <1>3 DEF CachedEntries, Lru!Cached
  <1>5. /\ cache_array'[i] = Lru!Stamped(req, cache_array[i].cache_buffer)
        /\ \A j \in CacheSlots \ {i} : cache_array'[j] = cache_array[j]
        /\ cache_count' = cache_count
    BY <1>1, <1>2, <1>3 DEF Hit, CacheTypeOK, Slot, Lru!Stamped
  <1>6. CachedEntries' = (CachedEntries \ {cache_array[i]})
                           \cup {Lru!Stamped(req, cache_array[i].cache_buffer)}
    <2>1. 0 .. cache_count - 1 \subseteq CacheSlots
      BY <1>2 DEF CacheTypeOK, CacheSlots
    <2>2. \A j \in 0 .. cache_count - 1 : j # i => cache_array[j] # cache_array[i]
      BY <1>3, EntriesDistinct
    <2> QED
      BY <1>3, <1>5, <2>1, <2>2, Zenon DEF CachedEntries
  <1> QED
    BY <1>1, <1>4, <1>6 DEF Hit, Lru!Use

LEMMA LoadImplementsInsertOrReplace ==
    ASSUME CacheInv, NEW req \in Requests, NEW content \in Contents, Load(req, content)
    PROVE  Lru!Insert(req, content) \/ Lru!Replace(req, content)
  <1>1. CacheTypeOK /\ FilledPrefix
    BY DEF CacheInv
  <1>2. PICK i \in CacheSlots :
            /\ FillSlot(i, req, content)
            /\ UNCHANGED <<cache_size, clock>>
            /\ \/ /\ cache_count # cache_size
                  /\ i = cache_count
                  /\ cache_count' = cache_count + 1
               \/ /\ cache_count = cache_size
                  /\ i \in 0 .. cache_count - 1
                  /\ Oldest(i)
                  /\ cache_count' = cache_count
    BY <1>1, LoadEffect
  <1>3. /\ cache_array'[i] = Lru!Stamped(req, content)
        /\ \A j \in CacheSlots \ {i} : cache_array'[j] = cache_array[j]
    BY <1>1, <1>2 DEF FillSlot, CacheTypeOK, Lru!Stamped
  <1>4. 0 .. cache_count - 1 \subseteq CacheSlots
    BY <1>1 DEF CacheTypeOK, CacheSlots
  <1>5. Lru!Cached(req) = {}
    <2>1. 0 .. cache_count - 1 \subseteq 0 .. cache_size - 1
      BY <1>1 DEF CacheTypeOK
    <2> QED
      BY <2>1 DEF Load, Matches, CachedEntries, Lru!Cached
  <1>6. Lru!Cardinality(CachedEntries) = cache_count
    <2>1. Lru!Cardinality(CachedEntries) = Cardinality(CachedEntries)
      BY DEF Lru!Cardinality, Cardinality
    <2> QED
      BY <2>1, EntriesCardinality
  <1>7. CASE cache_count # cache_size
    <2>1. 0 .. cache_count' - 1 = (0 .. cache_count - 1) \cup {i} /\ i \notin 0 .. cache_count - 1
      BY <1>1, <1>2, <1>7 DEF CacheTypeOK
    <2>2. CachedEntries' = CachedEntries \cup {Lru!Stamped(req, content)}
      BY <1>3, <1>4, <2>1, Zenon DEF CachedEntries
    <2>3. Lru!Cardinality(CachedEntries) < cache_size
      BY <1>1, <1>6, <1>7 DEF CacheTypeOK
    <2> QED
      BY <1>2, <1>5, <2>2, <2>3 DEF Lru!Insert
  <1>8. CASE cache_count = cache_size
    <2>1. i \in 0 .. cache_count - 1 /\ Oldest(i) /\ cache_count' = cache_count
      BY <1>2, <1>8
    <2>2. \A j \in 0 .. cache_count - 1 : j # i => cache_array[j] # cache_array[i]
      BY <2>1, EntriesDistinct
    <2>3. CachedEntries' = (CachedEntries \ {cache_array[i]})
                             \cup {Lru!Stamped(req, content)}
      BY <1>3, <1>4, <2>1, <2>2, Zenon DEF CachedEntries
    <2>4. \A e \in CachedEntries : cache_array[i].time <= e.time
      <3>1. 0 .. cache_count - 1 \subseteq Candidates
        BY <1>1, <1>8 DEF CacheTypeOK, Candidates
      <3> QED
        BY <2>1, <3>1 DEF CachedEntries, Oldest
    <2>5. cache_array[i] \in CachedEntries
      BY <2>1 DEF CachedEntries
    <2> QED
      BY <1>2, <1>5, <1>6, <1>8, <2>3, <2>4, <2>5 DEF Lru!Replace
  <1> QED
    BY <1>7, <1>8

LEMMA NextImplementsLru == CacheInv /\ [CacheNext]_cacheVars => [Lru!Next]_(Lru!vars)
  <1> SUFFICES ASSUME CacheInv, [CacheNext]_cacheVars PROVE [Lru!Next]_(Lru!vars)
    OBVIOUS
  <1>1. ASSUME NEW req \in Requests, Lookup(req) PROVE Lru!Next
    BY <1>1, LookupImplementsUse DEF Lru!Next
  <1>2. ASSUME NEW req \in Requests, NEW content \in Contents, Load(req, content)
        PROVE  Lru!Next
    BY <1>2, LoadImplementsInsertOrReplace DEF Lru!Next
  <1>3. CASE Tick
    <2>1. CachedEntries' = CachedEntries
      BY <1>3 DEF Tick, CachedEntries
    <2> QED
      BY <1>3, <2>1 DEF Tick, Lru!Next, Lru!Tick
  <1>4. CASE UNCHANGED cacheVars
    BY <1>4 DEF cacheVars, CachedEntries, Lru!vars
  <1> QED
    BY <1>1, <1>2, <1>3, <1>4 DEF CacheNext

(* For any size of the cache and any files, the array with its count is    *)
(* the set of entries of LruCache: lookups only restamp, and a full cache  *)
(* drops an entry with the earliest stamp.                                 *)
THEOREM CacheIsLru == CacheSpec => ImplementsLru
  BY InitCacheInv, NextCacheInv, InitImplementsLru, NextImplementsLru,
     PTL DEF CacheSpec, ImplementsLru, Lru!Spec
===============================================================================
