------------------------------ MODULE HashRing ------------------------------
(***************************************************************************)
(* cache/consistenthash: a ring of virtual nodes.  A ring is a record of   *)
(* the sorted hashes (with duplicates, as appended) and the map from hash  *)
(* to address.  A cache key is represented by its hash, so "for every      *)
(* position" reads "for every key".                                        *)
(***************************************************************************)
EXTENDS Integers, FiniteSets, FiniteSetsExt, Sequences, SequencesExt

CONSTANTS
  Nodes,      \* addresses
  Positions,  \* the hash values
  replicas    \* virtual nodes per address

ASSUME HashRingAssumption ==
  /\ Positions \subseteq Nat /\ Positions # {}
  /\ replicas \in Nat \ {0}
  /\ "none" \notin Nodes

EmptyRing == [keys |-> <<>>, hashMap |-> [h \in Positions |-> "none"]]

\* The addresses that own at least one virtual node.
RingNodes(r) == {r.hashMap[h] : h \in ToSet(r.keys)}

\* Mutated form of AddNode: the new hashes are not sorted in.
AddNodeUnsorted(r, addr, hashes) ==
  [keys    |-> r.keys \o hashes,
   hashMap |-> [h \in Positions |-> IF h \in ToSet(hashes) THEN addr ELSE r.hashMap[h]]]

\* Add: a hash that another address already has is taken over.
AddNode(r, addr, hashes) ==
  [keys    |-> SortSeq(r.keys \o hashes, <),
   hashMap |-> [h \in Positions |-> IF h \in ToSet(hashes) THEN addr ELSE r.hashMap[h]]]

RemoveNode(r, addr) ==
  [keys    |-> SelectSeq(r.keys, LAMBDA h : r.hashMap[h] # addr),
   hashMap |-> [h \in Positions |-> IF r.hashMap[h] = addr THEN "none" ELSE r.hashMap[h]]]

\* Mutated form of Search: a key on a virtual node goes to the next one.
SearchAfter(r, hash) ==
  Cardinality({i \in DOMAIN r.keys : r.keys[i] <= hash})

\* sort.Search: the number of hashes below the key's (an index from 0).
Search(r, hash) ==
  Cardinality({i \in DOMAIN r.keys : r.keys[i] < hash})

\* The address of virtual node i, counted around the ring.
Clockwise(r, i) == r.hashMap[r.keys[(i % Len(r.keys)) + 1]]

Get(r, hash) == IF r.keys = <<>> THEN "none" ELSE Clockwise(r, Search(r, hash))

\* One round of the loop of GetN.
Visit(result, addr, n) ==
  IF Len(result) < n /\ addr \notin ToSet(result) THEN Append(result, addr) ELSE result

GetN(r, hash, n) ==
  LET idx == Search(r, hash)
      visit[i \in 0 .. Len(r.keys)] ==
        IF i = 0 THEN <<>> ELSE Visit(visit[i - 1], Clockwise(r, idx + i - 1), n)
  IN visit[Len(r.keys)]
=============================================================================
