------------------------------- MODULE LRUSpec -------------------------------
(***************************************************************************)
(* What a bounded least-recently-used cache promises, whatever list, map   *)
(* and byte count it keeps: its contents are the entries ordered by last   *)
(* use, and an entry is given up only when it and everything used since do *)
(* not fit.  Every operation is one step.  LRUCache implements it.         *)
(***************************************************************************)
EXTENDS Integers, Sequences, SequencesExt

CONSTANTS Keys, KeyLen, Lens, maxBytes, NoEntry

VARIABLES
  contents,  \* the entries, most recently used first: [key, entry]
  reply,     \* the latest operation, its key and the entry it found, or NoEntry
  ops        \* operations so far

vars == <<contents, reply, ops>>

\* The longest run of most recently used entries that is within the limit.
Fitting(s) ==
  LET cost[n \in 0 .. Len(s)] ==
        IF n = 0 THEN 0 ELSE cost[n - 1] + KeyLen[s[n].key] + s[n].entry.len
      fits(n) == maxBytes = 0 \/ cost[n] <= maxBytes
  IN  SubSeq(s, 1, CHOOSE n \in 0 .. Len(s) : fits(n) /\ (n = Len(s) \/ ~fits(n + 1)))

Without(k) == SelectSeq(contents, LAMBDA r : r.key # k)
Holds(k, e) == [key |-> k, entry |-> e] \in ToSet(contents)

Answer(op, k, e) ==
  /\ reply' = [op |-> op, key |-> k, entry |-> e]
  /\ ops' = ops + 1

Init ==
  /\ contents = <<>>
  /\ reply = [op |-> "new", key |-> "none", entry |-> NoEntry]
  /\ ops = 0

Put(k, e) ==
  /\ Answer("add", k, NoEntry)
  /\ e.ttl # "past"
  /\ contents' = Fitting(<<[key |-> k, entry |-> e]>> \o Without(k))

Find(k, e) ==
  /\ Answer("get", k, e)
  /\ Holds(k, e) /\ e.ttl # "past"
  /\ contents' = <<[key |-> k, entry |-> e]>> \o Without(k)

\* Nothing is found where there is no entry, or only an expired one.
Miss(k) ==
  /\ Answer("get", k, NoEntry)
  /\ \A r \in ToSet(contents) : r.key = k => r.entry.ttl = "past"
  /\ contents' = Without(k)

Forget(k) == Answer("delete", k, NoEntry) /\ contents' = Without(k)
Clear == Answer("purge", "none", NoEntry) /\ contents' = <<>>

Expire(i) ==
  /\ contents[i].entry.ttl = "future"
  /\ contents' = [contents EXCEPT ![i].entry.ttl = "past"]
  /\ UNCHANGED <<reply, ops>>

Entries == [len : Lens, ttl : {"never", "future", "past"}]

Next ==
  \/ \E k \in Keys, e \in Entries : Put(k, e) \/ Find(k, e)
  \/ \E k \in Keys : Miss(k) \/ Forget(k)
  \/ \E i \in DOMAIN contents : Expire(i)
  \/ Clear

Spec == Init /\ [][Next]_vars
=============================================================================
