----------------------------- MODULE CacheGroup -----------------------------
(***************************************************************************)
(* A GeeCache group spread over several nodes (cache/geecache.go with      *)
(* cache.go, singleflight, invalidator.go, http.go and the gRPC handlers), *)
(* seen from one key.  Every Get, Delete and remote Get is a goroutine of  *)
(* its own.  Values are the versions of the key in the source of truth.    *)
(* The local LRU is an entry that may be evicted at any time (see          *)
(* LRUCache); the ring is fixed (see PeerRegistry).  Nodes start, drain    *)
(* and stop as cache/run.go has it, or crash, and are started again.       *)
(***************************************************************************)
EXTENDS Integers, Sequences, FiniteSets, Functions

CONSTANTS
  Nodes,
  Owners,      \* hashRing.GetN(key, replicationFactor): the primary first
  HotOwners,   \* hashRing.GetN(key, hot replicas + 1)
  Members,     \* registry.All(), with the node itself
  SemCap,      \* capacity of replicationSem (100 in the code)
  Calls,       \* goroutines that may be in progress at once
  MaxStarts,   \* bound on calls by clients
  MaxWrites,   \* bound on writes to the source of truth
  MaxMarks,    \* bound on slot migrations
  MaxLate,     \* bound on messages that outlive their sender's patience
  MaxStops,    \* bound on shutdowns and crashes; no restart after the last
  Environments \* what may happen besides calls: "write": the source changes;
               \* "evict": the LRU evicts; "mark": slots migrate; "hot": the key is
               \* hot; "db": the getter fails; "net": a peer is not reached, a message
               \* is lost or late; "life": nodes start, stop and crash

ASSUME GroupAssumption ==
  \* GetN and All return distinct nodes.
  /\ Owners \in Seq(Nodes) /\ IsInjective(Owners)
  /\ HotOwners \in Seq(Nodes) /\ IsInjective(HotOwners)
  /\ Members \in Seq(Nodes) /\ IsInjective(Members) /\ Range(Members) = Nodes
  /\ Calls \cap {"client", "gone", "none"} = {} /\ "none" \notin Nodes
  /\ SemCap \in Nat \ {0}
  /\ Environments \subseteq SUBSET {"write", "evict", "mark", "hot", "db", "net", "life"}
  /\ MaxStarts \in Nat /\ MaxWrites \in Nat /\ MaxMarks \in Nat /\ MaxLate \in Nat
  /\ MaxStops \in Nat

VARIABLES
  db,      \* version of the key in the source of truth
  cached,  \* mainCache of each node: an entry or NoEntry
  dirty,   \* cacheDirty of each node
  marks,   \* history: migrations each node was told of
  call,    \* the goroutines
  tasks,   \* pushes and invalidations under way, and how many of each
  life,    \* where Run stands on each node: start, up, drain, close or down
  stops,   \* shutdowns and crashes so far
  erased,  \* history: the version the last undisturbed Delete removed
  starts,  \* calls by clients so far
  env      \* what may happen in this behaviour

bounds == <<stops, starts, env>>
vars == <<db, cached, dirty, marks, call, tasks, life, erased, bounds>>

NoEntry == [v |-> -1, epoch |-> -1]
Entry(n, v) == [v |-> v, epoch |-> marks[n]]

\* A task that several goroutines carry is counted: tasks maps it to their number.
NoTasks == [t \in {} |-> 0]
Counted(f) == f \in [DOMAIN f -> Nat \ {0}]
With(f, t) ==
  [u \in DOMAIN f \cup {t} |->
     IF u # t THEN f[u] ELSE IF t \in DOMAIN f THEN f[t] + 1 ELSE 1]
Without(f, t) ==
  [u \in (IF f[t] = 1 THEN DOMAIN f \ {t} ELSE DOMAIN f) |->
     IF u # t THEN f[u] ELSE f[t] - 1]

\* floor is history: the version sure to be seen when the call began.
Idle == [pc |-> "free", node |-> "none", caller |-> "none", idx |-> 0, v |-> -1,
         todo |-> <<>>, floor |-> 0]

Active(c) == call[c].pc # "free"

Init ==
  /\ db = 0
  /\ cached = [n \in Nodes |-> NoEntry]
  /\ dirty = [n \in Nodes |-> FALSE]
  /\ marks = [n \in Nodes |-> 0]
  /\ call = [c \in Calls |-> Idle]
  /\ tasks = NoTasks
  /\ stops = 0 /\ starts = 0 /\ erased = 0
  /\ env \in Environments
  /\ life = [n \in Nodes |-> "up"]

At(c, pc) == call[c].pc = pc
Returning(c) == At(c, "return") \/ (At(c, "send") /\ call[c].todo = <<>>)
Goto(c, pc) == call' = [call EXCEPT ![c].pc = pc]

-----------------------------------------------------------------------------
(* Calls come and go.                                                      *)

\* No copy of the key exists anywhere and none is under way.
Cold ==
  /\ \A n \in Nodes : cached[n] = NoEntry
  /\ tasks = NoTasks
  /\ \A c \in Calls : ~Active(c)

NewCall(n, caller, pc) ==
  [pc |-> pc, node |-> n, caller |-> caller, idx |-> 0, v |-> -1, todo |-> <<>>,
   floor |-> IF Cold THEN db ELSE 0]

\* A Delete is being carried out somewhere.
Erasing ==
  \/ \E t \in DOMAIN tasks : t.kind = "invalidate"
  \/ \E c \in Calls : At(c, "delete") \/ \E i \in DOMAIN call[c].todo :
                                            call[c].todo[i].kind = "invalidate"

Forgotten == IF Erasing THEN 0 ELSE erased

\* A goroutine to begin with: which one does not matter.
Free(c) == ~Active(c) /\ c = CHOOSE d \in Calls : ~Active(d)

\* The API server answers from the end of start-up until gRPC has drained.
Start(c, n, pc) ==
  /\ Free(c) /\ starts < MaxStarts
  /\ life[n] \in {"up", "drain"}
  /\ starts' = starts + 1
  /\ call' = [call EXCEPT ![c] = NewCall(n, "client", pc)]
  /\ erased' = Forgotten
  /\ UNCHANGED <<db, cached, dirty, marks, tasks, life, stops, env>>

StartGet(c, n) == Start(c, n, "swap")
StartDelete(c, n) == Start(c, n, "delete")

WriteSource ==
  /\ "write" \in env /\ db < MaxWrites
  /\ db' = db + 1
  /\ UNCHANGED <<cached, dirty, marks, call, tasks, life, erased, bounds>>

\* markSlotMigrated, through InvalidateSlot or InvalidateSlots.
MarkSlotMigrated(n) ==
  /\ "mark" \in env /\ SumFunction(marks) < MaxMarks
  /\ marks' = [marks EXCEPT ![n] = @ + 1]
  /\ dirty' = [dirty EXCEPT ![n] = TRUE]
  /\ UNCHANGED <<db, cached, call, tasks, life, erased, bounds>>

Evict(n) ==
  /\ "evict" \in env /\ cached[n] # NoEntry
  /\ cached' = [cached EXCEPT ![n] = NoEntry]
  /\ UNCHANGED <<db, dirty, marks, call, tasks, life, erased, bounds>>

-----------------------------------------------------------------------------
(* A node starts, drains, closes and ends.                                 *)

\* startGrpcServer and startAPIServer, the last steps of the start.
Serve(n) ==
  /\ life[n] = "start"
  /\ life' = [life EXCEPT ![n] = "up"]
  /\ UNCHANGED <<db, cached, dirty, marks, call, tasks, erased, bounds>>

Stopping == "life" \in env /\ stops < MaxStops /\ stops' = stops + 1

\* SIGTERM, or Serve fails: GracefulStop refuses new RPCs.
Drain(n) ==
  /\ life[n] = "up" /\ Stopping
  /\ life' = [life EXCEPT ![n] = "drain"]
  /\ UNCHANGED <<db, cached, dirty, marks, call, tasks, erased, starts, env>>

\* d is the RPC that c waits for.
Serves(d, c) == call[d].caller = c /\ At(c, "wait")

\* GracefulStop returns: no handler is running, wanted or not.
GracefulStop(n) ==
  /\ life[n] = "drain"
  /\ \A c \in Calls : call[c].node = n => call[c].caller = "client"
  /\ life' = [life EXCEPT ![n] = "close"]
  /\ UNCHANGED <<db, cached, dirty, marks, call, tasks, erased, bounds>>

\* The process ends: its goroutines and its cache are gone, its callers see the
\* connection break, and what it was sending may or may not arrive.
End(n) ==
  /\ life' = [life EXCEPT ![n] = "down"]
  /\ cached' = [cached EXCEPT ![n] = NoEntry]
  /\ dirty' = [dirty EXCEPT ![n] = FALSE]
  /\ call' = [c \in Calls |->
       IF call[c].node = n THEN Idle
       ELSE IF \E d \in Calls : call[d].node = n /\ Serves(d, c)
         THEN [call[c] EXCEPT !.pc = "next"]
       ELSE IF \E d \in Calls : call[d].node = n /\ call[c].caller = d
         THEN [call[c] EXCEPT !.caller = "gone"]
       ELSE call[c]]
  /\ LET sent == {t \in DOMAIN tasks : t.from = n} IN
       \E kept \in SUBSET sent :
         LET late == {[t EXCEPT !.sem = FALSE] : t \in kept} IN
         tasks' = [t \in (DOMAIN tasks \ sent) \cup late |->
                     IF t \in late THEN 1 ELSE tasks[t]]
  /\ erased' = Forgotten
  /\ UNCHANGED <<db, marks, starts, env>>

\* The two HTTP servers are shut down, for 10 s at most; the tracker and the
\* registry stop and Run returns.
Exit(n) == life[n] = "close" /\ End(n) /\ UNCHANGED stops

\* A crash, or a gRPC address in use, on which Run returns at once.
Crash(n) == life[n] # "down" /\ Stopping /\ End(n)

Restart(n) ==
  /\ life[n] = "down" /\ stops < MaxStops
  /\ life' = [life EXCEPT ![n] = "start"]
  /\ UNCHANGED <<db, cached, dirty, marks, call, tasks, erased, bounds>>

\* A remote Get answers its caller, if it still waits; ok: err == nil.
Return(c, ok) ==
  call' = [d \in Calls |->
             IF d = c THEN Idle
             ELSE IF d = call[c].caller /\ call[d].pc = "wait"
               THEN [call[d] EXCEPT !.pc = IF ok THEN "fetched" ELSE "next",
                                    !.v = call[c].v]
             ELSE IF call[d].caller = c THEN [call[d] EXCEPT !.caller = "gone"]
             ELSE call[d]]

-----------------------------------------------------------------------------
(* Get.                                                                    *)

\* Mutated form of Swap: the flag is cleared and nothing is purged.
SwapOnly(c) ==
  LET n == call[c].node IN
  /\ At(c, "swap")
  /\ dirty' = [dirty EXCEPT ![n] = FALSE]
  /\ Goto(c, "lookup")
  /\ UNCHANGED <<db, cached, marks, tasks, life, erased, bounds>>

\* cacheDirty.Swap(false); the purge is a step of its own.
Swap(c) ==
  LET n == call[c].node IN
  /\ At(c, "swap")
  /\ dirty' = [dirty EXCEPT ![n] = FALSE]
  /\ Goto(c, IF dirty[n] THEN "purge" ELSE "lookup")
  /\ UNCHANGED <<db, cached, marks, tasks, life, erased, bounds>>

Purge(c) ==
  /\ At(c, "purge")
  /\ cached' = [cached EXCEPT ![call[c].node] = NoEntry]
  /\ Goto(c, "lookup")
  /\ UNCHANGED <<db, dirty, marks, tasks, life, erased, bounds>>

\* singleflight Do: the call is never entered into g.m, so no caller ever finds
\* one to wait for, and each runs fn itself.
Do(c) == Goto(c, "next")

Lookup(c) ==
  LET e == cached[call[c].node] IN
  /\ At(c, "lookup")
  /\ \/ /\ e # NoEntry
        /\ call' = [call EXCEPT ![c].pc = "return", ![c].v = e.v]
     \/ /\ e = NoEntry
        /\ Do(c)
  /\ UNCHANGED <<db, cached, dirty, marks, tasks, life, erased, bounds>>

-----------------------------------------------------------------------------
(* load: PickPeerWithFallback, fetchFromPeer for each, getLocally.         *)

Candidates(owners, n) ==
  LET k == CHOOSE i \in DOMAIN owners : owners[i] = n IN
  IF n \notin Range(owners) THEN owners
  ELSE [i \in 1 .. Len(owners) - 1 |-> owners[IF i < k THEN i ELSE i + 1]]

Peers(c) == Candidates(Owners, call[c].node)

\* The peer's handler runs Get in a goroutine of its own.
AskPeer(c, d) ==
  LET k == call[c].idx + 1 IN
  /\ At(c, "next") /\ k <= Len(Peers(c))
  /\ Free(d) /\ life[Peers(c)[k]] = "up"
  /\ call' = [call EXCEPT ![c].pc = "wait", ![c].idx = k,
                          ![d] = NewCall(Peers(c)[k], c, "swap")]
  /\ UNCHANGED <<db, cached, dirty, marks, tasks, life, erased, bounds>>

\* The peer is not reached, refuses, or has no stream left for another call.
AskFails(c) ==
  LET k == call[c].idx + 1 IN
  /\ At(c, "next") /\ k <= Len(Peers(c))
  /\ "net" \in env \/ life[Peers(c)[k]] # "up" \/ \A d \in Calls : Active(d)
  /\ call' = [call EXCEPT ![c].idx = @ + 1]
  /\ UNCHANGED <<db, cached, dirty, marks, tasks, life, erased, bounds>>

\* Mutated form of Timeout: the error is dropped and an empty answer taken.
TimeoutIgnored(c) ==
  /\ At(c, "wait")
  /\ call' = [d \in Calls |->
                IF d = c THEN [call[c] EXCEPT !.pc = "fetched", !.v = 0]
                ELSE IF call[d].caller = c THEN [call[d] EXCEPT !.caller = "gone"]
                ELSE call[d]]
  /\ UNCHANGED <<db, cached, dirty, marks, tasks, life, erased, bounds>>

\* 3 s without an answer.  The peer's handler goes on.
Timeout(c) ==
  /\ At(c, "wait")
  /\ call' = [d \in Calls |->
                IF d = c THEN [call[c] EXCEPT !.pc = "next"]
                ELSE IF call[d].caller = c THEN [call[d] EXCEPT !.caller = "gone"]
                ELSE call[d]]
  /\ UNCHANGED <<db, cached, dirty, marks, tasks, life, erased, bounds>>

\* The rest of fetchFromPeer.
Fetched(c) ==
  LET n == call[c].node IN
  /\ At(c, "fetched")
  /\ cached' = [cached EXCEPT ![n] = Entry(n, call[c].v)]
  /\ Goto(c, "return")
  /\ UNCHANGED <<db, dirty, marks, tasks, life, erased, bounds>>

\* dbLimiter.Wait and getter.Get.
GetterGet(c) ==
  /\ At(c, "next") /\ call[c].idx = Len(Peers(c))
  /\ \/ call' = [call EXCEPT ![c].pc = "store", ![c].v = db]
     \/ "db" \in env /\ Goto(c, "error")
  /\ UNCHANGED <<db, cached, dirty, marks, tasks, life, erased, bounds>>

Push(to) == [kind |-> "push", to |-> to]
Invalidation(to) == [kind |-> "invalidate", to |-> to]

\* populateCache, then what replicateToSecondaries (its first candidate only)
\* and replicateIfHot have to send.
Store(c) ==
  LET n == call[c].node
      secondary == IF Len(Owners) < 2 THEN <<>> ELSE SubSeq(Peers(c), 1, 1)
      pushes(l) == [i \in DOMAIN l |-> Push(l[i])]
  IN
  /\ At(c, "store")
  /\ cached' = [cached EXCEPT ![n] = Entry(n, call[c].v)]
  /\ \E hot \in {<<>>} \cup {Candidates(HotOwners, n) : f \in env \cap {"hot"}} :
       call' = [call EXCEPT ![c].pc = "send", ![c].todo = pushes(secondary \o hot)]
  /\ UNCHANGED <<db, dirty, marks, tasks, life, erased, bounds>>

-----------------------------------------------------------------------------
(* Delete, the semaphore and the goroutines it admits.                     *)

\* Nothing else is in progress.
Alone(c) == tasks = NoTasks /\ \A d \in Calls \ {c} : ~Active(d)

\* Mutated form of Delete: the registry is not set and no peer is told.
DeleteOnly(c) ==
  /\ At(c, "delete")
  /\ cached' = [cached EXCEPT ![call[c].node] = NoEntry]
  /\ call' = [call EXCEPT ![c].pc = "send"]
  /\ erased' = IF Alone(c) THEN db ELSE erased
  /\ UNCHANGED <<db, dirty, marks, tasks, life, bounds>>

Delete(c) ==
  LET n == call[c].node
      all == Candidates(Members, n)
  IN
  /\ At(c, "delete")
  /\ cached' = [cached EXCEPT ![n] = NoEntry]
  /\ call' = [call EXCEPT ![c].pc = "send",
                          ![c].todo = [i \in DOMAIN all |-> Invalidation(all[i])]]
  /\ erased' = IF Alone(c) THEN db ELSE erased
  /\ UNCHANGED <<db, dirty, marks, tasks, life, bounds>>

\* The tasks that hold a place of node n's replicationSem, copy by copy.
Admitted(n) ==
  UNION {{t} \X (1 .. tasks[t]) : t \in {u \in DOMAIN tasks : u.from = n /\ u.sem}}

\* Places of node n's replicationSem that are taken.
InSem(n) == Cardinality(Admitted(n))

\* Mutated form of Acquire: the goroutine is started without waiting.
AcquireAtOnce(n) == TRUE

\* replicationSem <- struct{}{} does not block.
Acquire(n) == InSem(n) < SemCap

Send(c) ==
  LET n == call[c].node
      m == Head(call[c].todo)
  IN
  /\ At(c, "send") /\ call[c].todo # <<>>
  /\ Acquire(n)
  /\ tasks' = With(tasks, [kind |-> m.kind, from |-> n, to |-> m.to,
                           v |-> call[c].v, sem |-> TRUE])
  /\ call' = [call EXCEPT ![c].todo = Tail(@)]
  /\ UNCHANGED <<db, cached, dirty, marks, life, erased, bounds>>

Answer(c) ==
  /\ Returning(c) /\ Return(c, TRUE)
  /\ UNCHANGED <<db, cached, dirty, marks, tasks, life, erased, bounds>>

AnswerError(c) ==
  /\ At(c, "error") /\ Return(c, FALSE)
  /\ UNCHANGED <<db, cached, dirty, marks, tasks, life, erased, bounds>>

\* Mutated form of Deliver: the semaphore is not released at the end.
DeliverHolding(t) ==
  /\ life[t.to] = "up"
  /\ cached' = [cached EXCEPT ![t.to] =
                  IF t.kind = "push" THEN Entry(t.to, t.v) ELSE NoEntry]
  /\ UNCHANGED <<tasks, db, dirty, marks, call, life, erased, bounds>>

\* The peer's handler: StoreReplica or DeleteLocal.
Deliver(t) ==
  /\ life[t.to] = "up"
  /\ cached' = [cached EXCEPT ![t.to] =
                  IF t.kind = "push" THEN Entry(t.to, t.v) ELSE NoEntry]
  /\ tasks' = Without(tasks, t)
  /\ UNCHANGED <<db, dirty, marks, call, life, erased, bounds>>

Late == SumFunctionOnSet(tasks, {t \in DOMAIN tasks : ~t.sem})

\* The sender's context expires: its place is free again, while the message is
\* lost or still on its way.  A node that is not serving refuses it.
GiveUp(t) ==
  /\ LET rest == Without(tasks, t) IN
       \/ /\ life[t.to] # "up" \/ ("net" \in env /\ t.sem)
          /\ tasks' = rest
       \/ /\ "net" \in env /\ t.sem /\ Late < MaxLate
          /\ tasks' = With(rest, [t EXCEPT !.sem = FALSE])
  /\ erased' = IF t.kind = "invalidate" /\ life[t.to] # "down" THEN 0 ELSE erased
  /\ UNCHANGED <<db, cached, dirty, marks, call, life, bounds>>

-----------------------------------------------------------------------------
CallStep(c) ==
  \/ Swap(c) \/ Purge(c) \/ Lookup(c)
  \/ (\E d \in Calls : AskPeer(c, d)) \/ AskFails(c) \/ Timeout(c) \/ Fetched(c)
  \/ GetterGet(c) \/ Store(c) \/ Delete(c) \/ Send(c)
  \/ Answer(c) \/ AnswerError(c)

TaskStep == \E t \in DOMAIN tasks : Deliver(t) \/ GiveUp(t)

\* A goroutine of the group, or Run on one of the nodes, takes a step.
Step ==
  \/ TaskStep
  \/ \E c \in Calls : CallStep(c)
  \/ \E n \in Nodes : Serve(n) \/ GracefulStop(n) \/ Exit(n)

Next ==
  \/ Step
  \/ \E c \in Calls, n \in Nodes : StartGet(c, n) \/ StartDelete(c, n)
  \/ \E n \in Nodes : MarkSlotMigrated(n) \/ Evict(n)
  \/ \E n \in Nodes : Drain(n) \/ Crash(n) \/ Restart(n)
  \/ WriteSource

Spec == Init /\ [][Next]_vars

\* While goroutines can run, some goroutine runs; remote calls, pushes and
\* invalidations end by their timeouts at the latest.
FairSpec == Spec /\ WF_vars(Step)

-----------------------------------------------------------------------------
EntryOK(n, e) == e = NoEntry \/ (e.v \in 0 .. db /\ e.epoch \in 0 .. marks[n])

\* Every variable has its type, a cached version has existed in the source, and
\* no node has more goroutines under way than replicationSem admits.
TypeOK ==
  /\ db \in 0 .. MaxWrites
  /\ \A n \in Nodes : EntryOK(n, cached[n])
  /\ dirty \in [Nodes -> BOOLEAN]
  /\ marks \in [Nodes -> Nat]
  /\ \A c \in Calls :
       /\ call[c].node \in Nodes \cup {"none"}
       /\ call[c].caller \in Calls \cup {"client", "gone", "none"}
       /\ call[c].v \in -1 .. db
  /\ Counted(tasks) /\ env \in Environments
  /\ life \in [Nodes -> {"start", "up", "drain", "close", "down"}]
  /\ \A n \in Nodes : InSem(n) <= SemCap

\* An entry cached before a slot migration survives only until somebody sees the
\* flag: when cacheDirty is clear and no Get is about to purge, everything in the
\* cache was put there after the last migration (Get and markSlotMigrated).
PurgeComplete ==
  \A n \in Nodes :
    cached[n] # NoEntry /\ cached[n].epoch < marks[n] =>
      dirty[n] \/ \E c \in Calls : call[c].node = n /\ At(c, "purge")

\* A Get that begins while no copy of the key exists or is under way returns a
\* version at least as new as the source had then, however peers time out, fall
\* back and push replicas meanwhile.
ColdGetIsFresh ==
  \A c \in Calls : Returning(c) /\ call[c].v # -1 => call[c].v >= call[c].floor

\* Every Get and Delete returns: neither the semaphore nor nodes that wait for
\* each other can hold it up for ever.
CallReturns == \A c \in Calls : []<>~Active(c)

\* Stop gives GracefulStop no time limit, and nodes that drain at once may hold
\* each other's handlers, yet it always returns (run.go, shutdown; http.go, the
\* time limits of remote calls; geecache.go, the semaphore).
DrainEnds == \A n \in Nodes : []<>(life[n] # "drain")

\* A Delete that meets no other call, and whose invalidations all arrive, removes
\* every copy of what the source held before it, on all nodes and for good: an
\* older version can come back only through an overlapping load or push, or a
\* lost or late message (geecache.go, Delete; http.go, BroadcastInvalidation).
EraseHolds == (\A n \in Nodes : cached[n] = NoEntry \/ cached[n].v >= erased) \/ Erasing

\* What README and docs/01 say of single-flight: concurrent misses of a key are
\* merged, so a node loads it from the source at most once at a time.
OneLoadAtATime ==
  \A c, d \in Calls :
    c # d /\ At(c, "store") /\ At(d, "store") => call[c].node # call[d].node
=============================================================================
