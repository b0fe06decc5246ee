---------------------------- MODULE CacheClients ----------------------------
(***************************************************************************)
(* The dedup cache under every sequence of calls, with the history that    *)
(* says what the calls should have returned.  Requests call get() and the  *)
(* batch callbacks call put() from different threads, in any order.        *)
(***************************************************************************)
EXTENDS DedupCache

VARIABLES
    \* History variables.
    lastPut,    \* id -> the last decision put and its remaining time
    newer       \* id -> the ids used (put, or hit) since this id was

callVars == <<map, lru, lastPut, newer>>

CallsInit ==
    /\ CacheInit
    /\ lastPut = [id \in Ids |-> NoEntry]
    /\ newer = [id \in Ids |-> {}]

Use(id) ==
    newer' = [i \in Ids |-> IF i = id THEN {} ELSE newer[i] \cup {id}]

Get(id) ==
    \/ GetHit(id) /\ Use(id) /\ UNCHANGED lastPut
    \/ GetMiss(id) /\ UNCHANGED <<lastPut, newer>>

Store(id, d) ==
    /\ Put(id, d)
    /\ Use(id)
    /\ lastPut' = [lastPut EXCEPT ![id] = [decision |-> d, left |-> Ttl]]

CallsTick ==
    /\ CacheTick
    /\ lastPut' = [id \in Ids |-> Age(lastPut[id])]
    /\ UNCHANGED newer

CallsNext ==
    \/ \E id \in Ids : Get(id) \/ \E d \in Decisions : Store(id, d)
    \/ CallsTick

CacheSpec == CallsInit /\ [][CallsNext]_callVars

-----------------------------------------------------------------------------
(* Properties *)

\* The map and the list hold the same ids, each once, after any sequence of
\* calls: no entry is left that can never be evicted, and the eviction loop
\* (dedup_cache.cpp:42-46) never erases an id the map does not have.  There
\* are never more than MaxSize of them, the newest always kept: "a fixed size
\* so it can't grow forever" (dedup_cache.h:17).
MapAndListAgree ==
    /\ Len(lru) <= (IF MaxSize > 1 THEN MaxSize ELSE 1)
    /\ {lru[i] : i \in 1 .. Len(lru)} = Resident
    /\ Len(lru) = Cardinality(Resident)

\* A hit hands back exactly the decision of the last put() for that id, and
\* only while that put is younger than the TTL (dedup_cache.cpp:11-22).
HitIsLastPut ==
    \A id \in Ids : Fresh(id) => lastPut[id] = map[id] /\ lastPut[id].left > 0

\* The converse: a decision younger than the TTL is still there unless
\* MaxSize other ids were used after it.  Expired entries are not evicted
\* before live ones, so this needs every use to refresh the list.
RecentIsRetained ==
    \A id \in Ids :
        /\ lastPut[id] # NoEntry
        /\ lastPut[id].left > 0
        /\ Cardinality(newer[id]) < MaxSize
        => Fresh(id)
=============================================================================
