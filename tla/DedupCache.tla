----------------------------- MODULE DedupCache -----------------------------
(***************************************************************************)
(* The idempotency cache of the C++ bidder (cpp-bidder/src/dedup_cache):   *)
(* an LRU cache with a fixed size whose entries expire.  Both operations   *)
(* run under mu_, so each is one atomic step.                              *)
(*                                                                         *)
(* Time.  An entry's expiry is only compared with the present; the model   *)
(* keeps left = expiry - now in ticks, and 0 means now >= expiry.          *)
(*                                                                         *)
(* The iterator an entry keeps into lru_ is not modelled: erasing at       *)
(* lru_it is erasing the id from the list.  That lru_it always points at   *)
(* the id's own node is the code's (every push_front sets it again).       *)
(***************************************************************************)
EXTENDS Integers, Sequences, FiniteSets, SequencesExt

CONSTANTS
    Ids,            \* bid request ids
    Decisions,      \* what a BidDecision can be
    MaxSize,        \* max_size_
    Ttl,            \* ttl_ms_, in ticks
    NoEntry         \* the id is not in map_

ASSUME CacheAssumption ==
    /\ MaxSize \in Nat
    /\ Ttl \in Nat
    /\ NoEntry \notin [decision : Decisions, left : 0 .. Ttl]

VARIABLES
    map,            \* map_: id -> [decision, left], or NoEntry
    lru             \* lru_: front is the most recently used

cacheVars == <<map, lru>>

CacheInit ==
    /\ map = [id \in Ids |-> NoEntry]
    /\ lru = << >>

Resident == {id \in Ids : map[id] # NoEntry}

\* find() succeeds and the entry has not expired.
Fresh(id) == map[id] # NoEntry /\ map[id].left > 0

\* lru_.erase(it): the list without the place the entry points to.
Without(s, id) == RemoveFirst(s, id)

\* erase and push_front.
Touch(s, id) == <<id>> \o Without(s, id)

\* Mutant: a hit does not count as a use.
GetHitNoTouch(id) ==
    /\ Fresh(id)
    /\ UNCHANGED cacheVars

\* get() returns true, with map[id].decision.
GetHit(id) ==
    /\ Fresh(id)
    /\ lru' = Touch(lru, id)
    /\ UNCHANGED map

\* Mutant: the expired entry is dropped from the map but not from the list.
GetMissKeepLru(id) ==
    /\ ~Fresh(id)
    /\ map' = [map EXCEPT ![id] = NoEntry]
    /\ UNCHANGED lru

\* get() returns false; an expired entry is dropped on the way.
GetMiss(id) ==
    /\ ~Fresh(id)
    /\ map' = [map EXCEPT ![id] = NoEntry]
    /\ lru' = Without(lru, id)

\* How many entries the eviction loop of put() pops off the back: while
\* map_.size() >= max_size_ and the list is not empty.
EvictCount ==
    LET excess == Cardinality(Resident) - MaxSize + 1
    IN  IF excess <= 0 THEN 0
        ELSE IF excess > Len(lru) THEN Len(lru) ELSE excess

\* The ids at the back of the list that the loop evicts, and what is kept.
Kept == SubSeq(lru, 1, Len(lru) - EvictCount)
Victims == {lru[Len(lru) - k] : k \in 0 .. EvictCount - 1}

\* A decision with a full TTL ahead of it.
NewEntry(d) == [decision |-> d, left |-> Ttl]

\* Mutant: put() leaves the decision of an entry that is already there.
RefreshedKeepDecision(old, d) == [old EXCEPT !.left = Ttl]

\* What put() makes of an entry that is already there.
Refreshed(old, d) == NewEntry(d)

\* put(): refresh an entry, or make room and insert one.
Put(id, d) ==
    \/ /\ map[id] # NoEntry
       /\ map' = [map EXCEPT ![id] = Refreshed(@, d)]
       /\ lru' = Touch(lru, id)
    \/ /\ map[id] = NoEntry
       /\ map' = [i \in Ids |-> IF i = id THEN NewEntry(d)
                                ELSE IF i \in Victims THEN NoEntry ELSE map[i]]
       /\ lru' = <<id>> \o Kept

\* The steady clock advances by one tick.
Age(e) ==
    IF e = NoEntry \/ e.left = 0 THEN e ELSE [e EXCEPT !.left = @ - 1]

CacheTick ==
    /\ map' = [id \in Ids |-> Age(map[id])]
    /\ UNCHANGED lru
=============================================================================
