--------------------------- MODULE ResponseCache ---------------------------
(***************************************************************************)
(* app/cache/memory.py: the response cache of a worker process, an LRU      *)
(* list of answers that expire.  Each operation holds the lock; the clock   *)
(* is read by its caller before it waits for the lock.                      *)
(***************************************************************************)
EXTENDS Integers, SequencesExt

CONSTANT MaxEntries    \* max(64, CACHE_MAX_ENTRIES)

VARIABLE data    \* the entries [key, expires, value], least recently used first

Holds(key)   == \E i \in 1..Len(data) : data[i].key = key
Spot(key)    == CHOOSE i \in 1..Len(data) : data[i].key = key
Entry(key)   == data[Spot(key)]
Without(key) == IF Holds(key) THEN RemoveAt(data, Spot(key)) ELSE data

\* Bug: an entry is good for ever.
FreshForever(key, now) == Holds(key)

Fresh(key, now) == Holds(key) /\ Entry(key).expires >= now

\* get: a hit is moved to the end, an expired entry is removed.
Get(key, now) ==
  data' = IF Fresh(key, now) THEN Append(Without(key), Entry(key)) ELSE Without(key)

\* Bug: nothing is evicted for a key that is new.
SetUnbounded(key, value, expires) ==
  data' = Append(Without(key), [key |-> key, expires |-> expires, value |-> value])

\* set: the entry goes to the end, and the oldest ones make room for it.
Set(key, value, expires) ==
  LET grown == Append(Without(key), [key |-> key, expires |-> expires, value |-> value])
  IN  data' = IF Len(grown) > MaxEntries
              THEN SubSeq(grown, Len(grown) - MaxEntries + 1, Len(grown)) ELSE grown

(* However the threads interleave, the cache stays within its size and      *)
(* holds one entry for a key.                                               *)
Bounded ==
  /\ Len(data) <= MaxEntries
  /\ \A i, j \in 1..Len(data) : data[i].key = data[j].key => i = j
=============================================================================
