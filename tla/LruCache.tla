------------------------------- MODULE LruCache -------------------------------
(***************************************************************************)
(* What the file cache of csci4061/cache/server.c promises, without its    *)
(* array: a set of at most `capacity' entries, at most one per request,    *)
(* each stamped with the second of its last use, where a full cache makes  *)
(* room by dropping an entry whose stamp is the earliest.                  *)
(***************************************************************************)
EXTENDS Integers, FiniteSets

CONSTANTS
    Requests,        \* file names, as the dispatcher builds them
    Contents,        \* what a file can hold: bytes, length and content type
    MaxTime          \* bound on the clock

VARIABLES
    capacity,        \* how many entries the cache may hold
    entries,         \* the set of entries
    clock            \* the wall clock, in whole seconds

vars == <<capacity, entries, clock>>

Cached(req) == {e \in entries : e.cache_request = req}

Stamped(req, content) ==
    [cache_request |-> req, cache_buffer |-> content, time |-> clock]

Init ==
    /\ capacity \in Nat
    /\ entries = {}
    /\ clock = 0

(* A use of a cached request only refreshes its stamp.                     *)
Use(req) ==
    /\ \E e \in Cached(req) :
          entries' = (entries \ {e}) \cup {Stamped(req, e.cache_buffer)}
    /\ UNCHANGED <<capacity, clock>>

(* A request that is not cached enters a cache that has room...            *)
Insert(req, content) ==
    /\ Cached(req) = {}
    /\ Cardinality(entries) < capacity
    /\ entries' = entries \cup {Stamped(req, content)}
    /\ UNCHANGED <<capacity, clock>>

(* ... or takes the place of an entry with the earliest stamp.             *)
Replace(req, content) ==
    /\ Cached(req) = {}
    /\ Cardinality(entries) = capacity
    /\ \E old \in entries :
          /\ \A e \in entries : old.time <= e.time
          /\ entries' = (entries \ {old}) \cup {Stamped(req, content)}
    /\ UNCHANGED <<capacity, clock>>

Tick ==
    /\ clock < MaxTime
    /\ clock' = clock + 1
    /\ UNCHANGED <<capacity, entries>>

Next ==
    \/ \E req \in Requests : Use(req)
    \/ \E req \in Requests, content \in Contents :
          Insert(req, content) \/ Replace(req, content)
    \/ Tick

Spec == Init /\ [][Next]_vars
===============================================================================
