---------------------------- MODULE PeerRegistry ----------------------------
(***************************************************************************)
(* cache/peer/registry.go: the peer set of one cache node.  memberlist     *)
(* (external) reports joins and leaves on the buffered channel eventsCh;   *)
(* it sends while it holds its own lock, so it waits when the channel is   *)
(* full.  processEvents applies the events to the hash ring and to the map *)
(* of gRPC clients.  The hash function is arbitrary: it is chosen once in  *)
(* the initial state, collisions included.                                 *)
(***************************************************************************)
EXTENDS HashRing

CONSTANTS
  localAddr,
  SeedPeers,   \* the members the node finds when it joins
  EventCap,    \* capacity of eventsCh (256 in the code)
  MaxChanges,  \* bound on membership changes after the start
  Environments \* the sets of faults considered, one of them in each behaviour:
               \* "dial": creating a gRPC client may fail; "join": a seed may not
               \* be reached; "stop": Stop is called

ASSUME RegistryAssumption ==
  /\ localAddr \in Nodes /\ SeedPeers \subseteq Nodes \ {localAddr}
  /\ EventCap \in Nat /\ MaxChanges \in Nat

VARIABLES
  pc,        \* of NewRegistry and Stop: new, create, join, run, closed, panic
  vhash,     \* the hashes of the virtual nodes of each address
  ring,      \* r.hashRing
  getters,   \* the keys of r.grpcGetters
  eventsCh,
  members,   \* the members memberlist has reported
  undialled, \* history: members whose client could not be created
  changes,
  env        \* the faults of this behaviour

vars == <<pc, vhash, ring, getters, eventsCh, members, undialled, changes, env>>

\* The order of an address's virtual nodes is immaterial: list them ascending.
Hashes == {f \in [1 .. replicas -> Positions] :
             \A i, j \in 1 .. replicas : i < j => f[i] <= f[j]}

Injective ==
  \A m, n \in Nodes : m # n => ToSet(vhash[m]) \cap ToSet(vhash[n]) = {}

Init ==
  /\ pc = "new"
  /\ vhash \in [Nodes -> Hashes]
  /\ ring = EmptyRing
  /\ getters = {}
  /\ eventsCh = <<>>
  /\ members = {}
  /\ undialled = {}
  /\ changes = 0
  /\ env \in Environments

-----------------------------------------------------------------------------
(* memberlist (external).  A send on the closed channel panics.            *)

\* Mutated form of CanSend: the channel holds one event less.
CanSendOneLess == Len(eventsCh) + 1 < EventCap

\* eventsCh has room.  (While processEvents waits on the empty channel there
\* always is.)
CanSend == Len(eventsCh) < EventCap

Notify(event, addr) ==
  \/ /\ pc = "closed"
     /\ pc' = "panic"
     /\ UNCHANGED eventsCh
  \/ /\ pc # "closed"
     /\ CanSend
     /\ eventsCh' = Append(eventsCh, [event |-> event, addr |-> addr])
     /\ UNCHANGED pc

Started == pc \in {"run", "closed"}

MemberJoins(addr) ==
  /\ Started /\ changes < MaxChanges
  /\ addr \notin members
  /\ members' = members \cup {addr}
  /\ Notify("join", addr)
  /\ changes' = changes + 1
  /\ UNCHANGED <<env, vhash, ring, getters, undialled>>

MemberLeaves(addr) ==
  /\ Started /\ changes < MaxChanges
  /\ addr \in members \ {localAddr}
  /\ members' = members \ {addr}
  /\ Notify("leave", addr)
  /\ changes' = changes + 1
  /\ UNCHANGED <<env, vhash, ring, getters, undialled>>

-----------------------------------------------------------------------------
(* NewRegistry: create (which reports the node itself), add self to the    *)
(* ring, join the seeds, start processEvents.                              *)

Create ==
  /\ pc = "new" /\ CanSend
  /\ pc' = "create"
  /\ members' = {localAddr}
  /\ eventsCh' = <<[event |-> "join", addr |-> localAddr]>>
  /\ UNCHANGED <<env, vhash, ring, getters, undialled, changes>>

AddSelf ==
  /\ pc = "create"
  /\ pc' = "join"
  /\ ring' = AddNode(ring, localAddr, vhash[localAddr])
  /\ UNCHANGED <<env, vhash, getters, eventsCh, members, undialled, changes>>

JoinSeed(addr) ==
  /\ pc = "join"
  /\ addr \in SeedPeers \ members
  /\ members' = members \cup {addr}
  /\ Notify("join", addr)
  /\ UNCHANGED <<env, vhash, ring, getters, undialled, changes>>

\* A seed that was not reached is only logged.
StartProcessEvents ==
  /\ pc = "join"
  /\ SeedPeers \subseteq members \/ "join" \in env
  /\ pc' = "run"
  /\ UNCHANGED <<env, vhash, ring, getters, eventsCh, members, undialled, changes>>

-----------------------------------------------------------------------------
(* processEvents: the loop ends once the channel is closed and empty.      *)

Receive(event) ==
  /\ Started /\ eventsCh # <<>>
  /\ Head(eventsCh).event = event
  /\ eventsCh' = Tail(eventsCh)
  /\ UNCHANGED <<env, pc, vhash, members, changes>>

\* Mutated form of HandleJoin: an address is known if it is in the ring.
HandleJoinKnownInRing ==
  /\ Receive("join")
  /\ LET addr == Head(eventsCh).addr IN
       \/ /\ addr \in RingNodes(ring)
          /\ UNCHANGED <<ring, getters, undialled>>
       \/ /\ addr \notin RingNodes(ring)
          /\ ring' = AddNode(ring, addr, vhash[addr])
          /\ getters' = getters \cup {addr}
          /\ undialled' = undialled \ {addr}

\* addToRing; a known address is left alone.  Self has no client yet when its
\* own join arrives, and is added to the ring a second time.
HandleJoin ==
  /\ Receive("join")
  /\ LET addr == Head(eventsCh).addr IN
       \/ /\ addr \in getters
          /\ UNCHANGED <<ring, getters, undialled>>
       \/ /\ addr \notin getters
          /\ ring' = AddNode(ring, addr, vhash[addr])
          /\ getters' = getters \cup {addr}
          /\ undialled' = undialled \ {addr}
       \/ /\ addr \notin getters /\ "dial" \in env
          /\ undialled' = undialled \cup {addr}
          /\ UNCHANGED <<ring, getters>>

\* Mutated form of HandleLeave: the ring loses the address's hashes, whoever
\* has them now.
HandleLeaveByHash ==
  /\ Receive("leave")
  /\ LET addr == Head(eventsCh).addr IN
       /\ ring' = [ring EXCEPT !.keys = SelectSeq(@, LAMBDA h : h \notin ToSet(vhash[addr]))]
       /\ getters' = getters \ {addr}
       /\ undialled' = undialled \ {addr}

\* removeFromRing.
HandleLeave ==
  /\ Receive("leave")
  /\ LET addr == Head(eventsCh).addr IN
       /\ ring' = RemoveNode(ring, addr)
       /\ getters' = getters \ {addr}
       /\ undialled' = undialled \ {addr}

-----------------------------------------------------------------------------
(* Stop: close(eventsCh), then list.Leave, which reports the leave of the  *)
(* node itself.                                                            *)

StopClose ==
  /\ "stop" \in env
  /\ pc = "run"
  /\ pc' = "closed"
  /\ UNCHANGED <<env, vhash, ring, getters, eventsCh, members, undialled, changes>>

StopLeave ==
  /\ pc = "closed"
  /\ members' = members \ {localAddr}
  /\ Notify("leave", localAddr)
  /\ UNCHANGED <<env, vhash, ring, getters, undialled, changes>>

-----------------------------------------------------------------------------
(* What callers see.                                                       *)

PickPeer(hash) ==
  LET addr == Get(ring, hash)
  IN IF addr \in {"none", localAddr} \/ addr \notin getters THEN "none" ELSE addr

PickPeerWithFallback(hash, n) ==
  SelectSeq(GetN(ring, hash, n), LAMBDA addr : addr # localAddr /\ addr \in getters)

All == getters \ {localAddr}

Startup == Create \/ AddSelf \/ (\E addr \in Nodes : JoinSeed(addr)) \/ StartProcessEvents

Next ==
  \/ Startup
  \/ \E addr \in Nodes : MemberJoins(addr) \/ MemberLeaves(addr)
  \/ HandleJoin \/ HandleLeave
  \/ StopClose \/ StopLeave

\* NewRegistry and processEvents run until they have nothing to do.  memberlist's
\* changes and Stop come from outside.
Fairness == WF_vars(Startup) /\ WF_vars(HandleJoin) /\ WF_vars(HandleLeave)

Spec == Init /\ [][Next]_vars /\ Fairness

-----------------------------------------------------------------------------
\* Every variable of the registry has its type, and the ring is sorted, which is
\* what sort.Search relies on.
TypeOK ==
  /\ pc \in {"new", "create", "join", "run", "closed", "panic"}
  /\ vhash \in [Nodes -> Hashes]
  /\ ring.keys \in Seq(Positions)
  /\ \A i \in 1 .. Len(ring.keys) - 1 : ring.keys[i] <= ring.keys[i + 1]
  /\ ring.hashMap \in [Positions -> Nodes \cup {"none"}]
  /\ getters \subseteq Nodes /\ members \subseteq Nodes /\ undialled \subseteq Nodes
  /\ \A i \in DOMAIN eventsCh : eventsCh[i].addr \in Nodes
  /\ Len(eventsCh) <= EventCap
  /\ env \in Environments

\* The node that owns a key by definition: the one with the first virtual node
\* at or after the key's hash, or else the first of all.
Successor(nodes, hash) ==
  LET at(h) == CHOOSE n \in nodes : h \in ToSet(vhash[n])
      all == UNION {ToSet(vhash[n]) : n \in nodes}
      after == {h \in all : h >= hash}
  IN at(Min(IF after # {} THEN after ELSE all))

\* Get and GetN route a key by the set of addresses in the ring alone: GetN lists
\* the key's owner, then the owner it would have without that one, and so on, and
\* ends early only for want of addresses.  So whatever the order of joins, leaves
\* and repeated joins was, two registries with the same members agree on the owner
\* of a key and on its replicas; hash collisions may change the order but never
\* list an address twice (consistenthash.go, Add, Remove, Get, GetN).
RoutesToSuccessor ==
  LET owners == RingNodes(ring)
      unique == Injective
  IN \A h \in Positions, n \in 2 .. Cardinality(Nodes) :
       LET l == GetN(ring, h, n) IN
         /\ Len(l) = IF n < Cardinality(owners) THEN n ELSE Cardinality(owners)
         /\ IsInjective(l)
         /\ l # <<>> => l[1] = Get(ring, h)
         /\ unique => \A i \in DOMAIN l :
              l[i] = Successor(owners \ {l[j] : j \in 1 .. i - 1}, h)

\* Ring and clients stay in step: every address the ring routes to, other than the
\* node itself, has a client, so PickPeer never turns a remote key into a local one
\* and no replica is left out of PickPeerWithFallback.  Once the events are handled
\* both are exactly the members that memberlist reported, less those that could
\* not be dialled.
RingFollowsMembers ==
  /\ \A h \in Positions :
       LET peers == PickPeerWithFallback(h, Cardinality(Nodes)) IN
         /\ PickPeer(h) = "none" => Get(ring, h) \in {"none", localAddr}
         /\ peers = Remove(GetN(ring, h, Cardinality(Nodes)), localAddr)
         /\ ToSet(peers) \subseteq All
  /\ pc = "run" /\ eventsCh = <<>> =>
       /\ getters = members \ undialled
       /\ Injective => RingNodes(ring) = getters \cup {localAddr}

\* NewRegistry returns and every change of membership is applied in the end, as
\* long as the channel holds the events of the members found at the start, which
\* nobody reads before the seeds are joined (registry.go, NewRegistry): time and
\* again the clients are those of the members, until Stop.
Converges == []<>(pc \in {"closed", "panic"} \/ (pc = "run" /\ getters = members \ undialled))

\* A join or a leave moves only keys to, or from, the node that joins or leaves,
\* even when hashes collide (docs/03: node changes affect few keys).
OnlyItsKeysMove ==
  [][ring'.keys # <<>> /\ ring.keys # <<>> =>
       \A h \in Positions : Get(ring', h) # Get(ring, h) =>
         Head(eventsCh).addr \in {Get(ring', h), Get(ring, h)}]_vars
=============================================================================
