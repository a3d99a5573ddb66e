------------------------------ MODULE LRUCache ------------------------------
(***************************************************************************)
(* The in-memory cache of one group: cache/cache.go (the mutex-protected   *)
(* wrapper with expiry) over cache/lru/lru.go (list, map and byte count).  *)
(*                                                                         *)
(* A value is abstracted to its length.  cache.mu makes every operation    *)
(* atomic; the eviction loop at the end of Add is modelled iteration by    *)
(* iteration, with `evicting' standing for the mutex it holds meanwhile.   *)
(***************************************************************************)
EXTENDS Integers, FiniteSetsExt, Sequences, SequencesExt

CONSTANTS
  Keys,
  KeyLen,     \* len(key)
  Lens,       \* lengths of the values that are added
  maxBytes,   \* cacheBytes; 0 stands for no limit
  MaxOps      \* bound on the number of operations

NoEntry == [len |-> 0, ttl |-> "absent"]

ASSUME LRUAssumption ==
  /\ KeyLen \in [Keys -> Nat \ {0}]
  /\ Lens \subseteq Nat
  /\ maxBytes \in Nat /\ MaxOps \in Nat

VARIABLES
  ll,        \* c.lru.ll, front (most recently used) first
  cache,     \* c.lru.cache: the entry of each key, or NoEntry
  nbytes,
  evicting,  \* the key whose Add is in its eviction loop, or "none"
  reply,     \* the latest operation, its key and the entry it served, or NoEntry
  ops        \* operations so far

vars == <<ll, cache, nbytes, evicting, reply, ops>>

\* expiresAt: never (add), in the future or in the past (addWithTTL).
Ttl == {"never", "future", "past"}

Reply(op, k, e) == [op |-> op, key |-> k, entry |-> e]

Present(k) == cache[k] # NoEntry
Cost(k) == KeyLen[k] + cache[k].len

Init ==
  /\ ll = <<>>
  /\ cache = [k \in Keys |-> NoEntry]
  /\ nbytes = 0
  /\ evicting = "none"
  /\ reply = Reply("new", "none", NoEntry)
  /\ ops = 0

Op == evicting = "none" /\ ops < MaxOps /\ ops' = ops + 1

MoveToFront(k) == <<k>> \o Remove(ll, k)

-----------------------------------------------------------------------------
\* Mutated form of Update: the length of the old value is not given back.
UpdateLeaks(k, e) ==
  /\ Present(k)
  /\ nbytes' = nbytes + e.len

Update(k, e) ==
  /\ Present(k)
  /\ nbytes' = nbytes + e.len - cache[k].len

Insert(k, e) ==
  /\ ~Present(k)
  /\ nbytes' = nbytes + KeyLen[k] + e.len

\* lru.Add up to its eviction loop.  Remove drops k from ll if it is there.
Add(k, e) ==
  /\ Op
  /\ Update(k, e) \/ Insert(k, e)
  /\ ll' = MoveToFront(k)
  /\ cache' = [cache EXCEPT ![k] = e]
  /\ evicting' = k
  /\ reply' = Reply("add", k, NoEntry)

add(k, n) == Add(k, [len |-> n, ttl |-> "never"])
addWithTTL(k, n) == Add(k, [len |-> n, ttl |-> "future"])

\* Mutated form of Drop: the bytes of the entry are given back twice.
DropTwice(k) ==
  /\ ll' = Remove(ll, k)
  /\ cache' = [cache EXCEPT ![k] = NoEntry]
  /\ nbytes' = nbytes - 2 * Cost(k)

\* Taking an entry out of the list, the map and the count.
Drop(k) ==
  /\ ll' = Remove(ll, k)
  /\ cache' = [cache EXCEPT ![k] = NoEntry]
  /\ nbytes' = nbytes - Cost(k)

OverLimit == maxBytes # 0 /\ maxBytes < nbytes

\* Mutated form of RemoveOldest: the entry just added is always kept.
RemoveOldestButOne ==
  /\ evicting # "none" /\ OverLimit
  /\ Len(ll) > 1
  /\ Drop(Last(ll))
  /\ UNCHANGED <<evicting, reply, ops>>

RemoveOldest ==
  /\ evicting # "none" /\ OverLimit
  /\ ll # <<>>
  /\ Drop(Last(ll))
  /\ UNCHANGED <<evicting, reply, ops>>

AddReturns ==
  /\ evicting # "none" /\ ~OverLimit
  /\ evicting' = "none"
  /\ UNCHANGED <<ll, cache, nbytes, reply, ops>>

-----------------------------------------------------------------------------
GetHit(k) ==
  /\ Present(k) /\ cache[k].ttl # "past"
  /\ ll' = MoveToFront(k)
  /\ reply' = Reply("get", k, cache[k])
  /\ UNCHANGED <<cache, nbytes>>

\* An expired entry is removed when it is asked for.
GetExpired(k) ==
  /\ Present(k) /\ cache[k].ttl = "past"
  /\ Drop(k)
  /\ reply' = Reply("get", k, NoEntry)

GetMiss(k) ==
  /\ ~Present(k)
  /\ reply' = Reply("get", k, NoEntry)
  /\ UNCHANGED <<ll, cache, nbytes>>

get(k) == Op /\ (GetHit(k) \/ GetExpired(k) \/ GetMiss(k)) /\ UNCHANGED evicting

delete(k) ==
  /\ Op
  /\ \/ Present(k) /\ Drop(k)
     \/ ~Present(k) /\ UNCHANGED <<ll, cache, nbytes>>
  /\ reply' = Reply("delete", k, NoEntry)
  /\ UNCHANGED evicting

\* c.lru = nil; the next add makes a new, empty lru.Cache.
purge ==
  /\ Op
  /\ ll' = <<>>
  /\ cache' = [k \in Keys |-> NoEntry]
  /\ nbytes' = 0
  /\ reply' = Reply("purge", "none", NoEntry)
  /\ UNCHANGED evicting

\* Time passes beyond the expiresAt of an entry.
Expire(k) ==
  /\ cache[k].ttl = "future"
  /\ cache' = [cache EXCEPT ![k].ttl = "past"]
  /\ UNCHANGED <<ll, nbytes, evicting, reply, ops>>

Next ==
  \/ \E k \in Keys, n \in Lens : add(k, n) \/ addWithTTL(k, n)
  \/ \E k \in Keys : get(k) \/ delete(k) \/ Expire(k)
  \/ RemoveOldest \/ AddReturns \/ purge

Spec == Init /\ [][Next]_vars

\* The eviction loop runs to its end under the mutex.
FairSpec == Spec /\ WF_vars(RemoveOldest \/ AddReturns)

-----------------------------------------------------------------------------
\* Every variable of the cache has its type; nbytes never goes below zero.
TypeOK ==
  /\ ll \in Seq(Keys) /\ Len(ll) <= Cardinality(Keys)
  /\ \A k \in Keys : cache[k] = NoEntry \/ cache[k] \in [len : Lens, ttl : Ttl]
  /\ nbytes \in Nat
  /\ evicting \in Keys \cup {"none"}
  /\ reply.entry = NoEntry \/ reply.entry \in [len : Lens, ttl : Ttl]
  /\ ops \in 0 .. MaxOps

\* The entries in the order of the list.
Listed == [i \in DOMAIN ll |-> [key |-> ll[i], entry |-> cache[ll[i]]]]

L == INSTANCE LRUSpec WITH contents <- Listed

\* During its eviction loop an Add counts as finished.
A == INSTANCE LRUSpec WITH
       contents <- IF evicting = "none" THEN Listed ELSE L!Fitting(Listed)

\* List, map and byte count together implement a least-recently-used cache: an
\* Add leaves exactly the most recently used entries that fit, in order of use,
\* and a lookup finds what was last put under its key unless it expired or was
\* deleted (lru.go, Add, Get, RemoveOldest and Remove; cache.go).
ImplementsLRU == A!Spec

\* The eviction loop ends, with the cache within its limit: removing entries always
\* brings nbytes under it before the list is empty and RemoveOldest would do
\* nothing for ever.
AddTerminates == []<>(evicting = "none" /\ ~OverLimit)
=============================================================================
