------------------------- MODULE SlotMigrationProofs -------------------------
(***************************************************************************)
(* Proofs about SlotMigration, for any slots, sources, keys, numbers of    *)
(* workers, batch sizes and faults: every slot is worked on once, no slot  *)
(* is ever without an owner, and all variables keep their types.           *)
(***************************************************************************)
EXTENDS SlotMigration, FiniteSetTheorems, TLAPS

-----------------------------------------------------------------------------
(* The worker pool.                                                        *)

Waiting == UNION {tasks[g] : g \in Sources}
Busy == {w \in Workers : slot[w] # None}
Working == {"importing", "migrating", "getKeys", "moveKeys", "deleteBig", "nodeDst", "nodeSrc"}

\* What the steps of a worker do to the pool, apart from Take and Quit.
Moves(w) ==
  /\ pc[w] \in Working
  /\ \E l \in Working : pc' = [pc EXCEPT ![w] = l]
  /\ UNCHANGED <<tasks, slot, completed, main>>

Finishes(w) ==
  /\ pc[w] \in Working
  /\ pc' = [pc EXCEPT ![w] = "take"]
  /\ slot' = [slot EXCEPT ![w] = None]
  /\ completed' = completed + 1
  /\ UNCHANGED <<tasks, main>>

\* A step of a worker takes a slot, quits, moves on with its slot or finishes it
\* (executeSlotMigration, the worker loop).
LEMMA StepKinds ==
  ASSUME NEW w \in Workers, WorkerStep(w)
  PROVE  Take(w) \/ Quit(w) \/ Moves(w) \/ Finishes(w)
<1>1. CASE Take(w) \/ Quit(w)
  BY <1>1
<1>2. CASE SetImporting(w)
  BY <1>2 DEF SetImporting, Continue, FinishSlot, Goto, Moves, Finishes, Working, pool
<1>3. CASE SetMigrating(w)
  BY <1>3 DEF SetMigrating, Continue, FinishSlot, Goto, Moves, Finishes, Working, pool
<1>4. CASE GetKeys(w)
  BY ZenonT(40), <1>4 DEF GetKeys, Goto, Moves, Working, pool
<1>5. CASE MigrateKeyBatch(w)
  BY ZenonT(40), <1>5 DEF MigrateKeyBatch, Left, Goto, Moves, Working, pool
<1>6. CASE CopyBigKey(w)
  BY <1>6 DEF CopyBigKey, Goto, Moves, Working, pool
<1>7. CASE DeleteBigKey(w)
  BY ZenonT(40), <1>7 DEF DeleteBigKey, Left, Goto, Moves, Working, pool
<1>8. CASE SkipKey(w)
  BY ZenonT(40), <1>8 DEF SkipKey, Left, Goto, Moves, Working, pool
<1>9. CASE SetNodeDst(w)
  BY <1>9 DEF SetNodeDst, Continue, FinishSlot, Goto, Moves, Finishes, Working, pool
<1>10. CASE SetNodeSrc(w)
  BY <1>10 DEF SetNodeSrc, FinishSlot, Goto, Finishes, Working
<1>11. CASE CommandFails(w)
  BY <1>11 DEF CommandFails, FinishSlot, Goto, Finishes, Working
<1> QED
  BY <1>1, <1>2, <1>3, <1>4, <1>5, <1>6, <1>7, <1>8, <1>9, <1>10, <1>11 DEF WorkerStep

-----------------------------------------------------------------------------
\* TasksConserved with the counts spelled out.
Conserved ==
  /\ \A w \in Busy : slot[w] \notin Waiting /\ From[slot[w]] = w[1]
  /\ \A v, w \in Busy : slot[v] = slot[w] => v = w
  /\ completed + Cardinality(Busy) + Cardinality(Waiting) = Cardinality(Slots)

PoolType ==
  /\ main \in {"wait", "returned"}
  /\ tasks \in [Sources -> SUBSET Slots]
  /\ pc \in [Workers -> Working \cup {"take", "done"}]
  /\ slot \in [Workers -> Slots \cup {None}]
  /\ completed \in Nat

Pool == PoolType /\ PoolInv /\ Conserved

\* The sets that are counted are finite: there is one task per slot and a fixed
\* number of workers per source (groupSlotTasks, executeSlotMigration).
LEMMA Finite ==
  ASSUME PoolType
  PROVE  /\ IsFiniteSet(Busy) /\ IsFiniteSet(Waiting)
         /\ Cardinality(Busy) \in Nat /\ Cardinality(Waiting) \in Nat
         /\ Cardinality(Slots) \in Nat
<1>1. IsFiniteSet(1 .. NumWorkers)
  BY FS_Interval, MigrationAssumption
<1>2. IsFiniteSet(Workers)
  BY ZenonT(40), <1>1, FS_Product, MigrationAssumption DEF Workers
<1>3. Busy \subseteq Workers /\ Waiting \subseteq Slots
  BY DEF Busy, Waiting, PoolType
<1>4. IsFiniteSet(Busy) /\ IsFiniteSet(Waiting)
  BY <1>2, <1>3, FS_Subset, MigrationAssumption
<1> QED
  BY <1>4, FS_CardinalityType, MigrationAssumption

\* Initially all slots are waiting.
LEMMA PoolInit == Init => Pool
<1> SUFFICES ASSUME Init PROVE Pool
  OBVIOUS
<1>1. PoolType /\ PoolInv
  BY MigrationAssumption DEF Init, PoolType, PoolInv, Workers, Working
<1>2. Busy = {}
  BY DEF Init, Busy
<1>3. Waiting = Slots
  BY MigrationAssumption DEF Init, Waiting
<1>4. Cardinality(Busy) = 0
  BY <1>2, FS_EmptySet
<1>5. Cardinality(Slots) \in Nat
  BY FS_CardinalityType, MigrationAssumption
<1>6. Conserved
  BY <1>2, <1>3, <1>4, <1>5 DEF Conserved, Init
<1> QED
  BY <1>1, <1>6 DEF Pool

\* Take moves one slot from the channel of a source to one of its workers.
LEMMA TakePool ==
  ASSUME Pool, NEW w \in Workers, Take(w)
  PROVE  Pool'
<1> USE DEF Pool
<1>w. w[1] \in Sources
  BY DEF Workers
<1>1. PICK s \in tasks[w[1]] : /\ tasks' = [tasks EXCEPT ![w[1]] = @ \ {s}]
                              /\ slot' = [slot EXCEPT ![w] = s]
  BY ZenonT(40) DEF Take
<1>s. s \in Slots /\ s # None /\ s \in Waiting /\ From[s] = w[1]
  BY <1>w, MigrationAssumption DEF PoolType, PoolInv, Waiting
<1>2. pc[w] = "take" /\ pc' = [pc EXCEPT ![w] = "importing"] /\ main' = main /\ completed' = completed
  BY DEF Take, Goto
<1>3. slot[w] = None
  BY <1>2 DEF PoolInv
<1>4. PoolType'
  BY <1>1, <1>2, <1>s, <1>w DEF PoolType, Working
<1>5. PoolInv'
  <2>1. \A v \in Workers : slot'[v] = None <=> pc'[v] \in {"take", "done"}
    BY <1>1, <1>2, <1>s DEF PoolType, PoolInv
  <2>2. \A v \in Workers : pc'[v] = "done" => tasks'[v[1]] = {}
    BY <1>1, <1>2, <1>w DEF PoolType, PoolInv, Workers
  <2>3. \A g \in Sources : \A x \in tasks'[g] : From[x] = g
    BY <1>1, <1>w DEF PoolType, PoolInv
  <2>4. main' = "returned" => \A v \in Workers : pc'[v] = "done"
    BY <1>2 DEF PoolInv
  <2> QED
    BY <2>1, <2>2, <2>3, <2>4 DEF PoolInv
<1>6. Busy' = Busy \cup {w} /\ w \notin Busy
  BY <1>1, <1>3, <1>s DEF Busy, PoolType
<1>7. Waiting' = Waiting \ {s}
  <2>1. \A g \in Sources : g # w[1] => s \notin tasks[g]
    BY <1>s DEF PoolInv
  <2> QED
    BY <1>1, <1>w, <2>1 DEF Waiting, PoolType
<1>8. Cardinality(Busy') = Cardinality(Busy) + 1
  BY ZenonT(40), <1>6, Finite, FS_AddElement
<1>9. Cardinality(Waiting') = Cardinality(Waiting) - 1
  BY ZenonT(40), <1>7, <1>s, Finite, FS_RemoveElement
<1>10. Conserved'
  <2>1. \A v \in Busy' : slot'[v] \notin Waiting' /\ From[slot'[v]] = v[1]
    BY <1>1, <1>6, <1>7, <1>s DEF Conserved, PoolType, Busy
  <2>2. \A u, v \in Busy' : slot'[u] = slot'[v] => u = v
    BY <1>1, <1>6, <1>s DEF Conserved, PoolType, Busy
  <2>3. completed' + Cardinality(Busy') + Cardinality(Waiting') = Cardinality(Slots)
    BY <1>2, <1>8, <1>9, Finite DEF Conserved, PoolType
  <2> QED
    BY <2>1, <2>2, <2>3 DEF Conserved
<1> QED
  BY <1>4, <1>5, <1>10

\* FinishSlot counts the slot that its worker gives up.
LEMMA FinishPool ==
  ASSUME Pool, NEW w \in Workers, Finishes(w)
  PROVE  Pool'
<1> USE DEF Pool
<1>1. slot[w] # None
  BY DEF Finishes, PoolInv, Working
<1>2. PoolType'
  BY DEF Finishes, PoolType, Working
<1>3. PoolInv'
  BY DEF Finishes, PoolType, PoolInv, Working
<1>4. Busy' = Busy \ {w} /\ w \in Busy
  BY <1>1 DEF Finishes, Busy, PoolType
<1>5. Waiting' = Waiting
  BY DEF Finishes, Waiting
<1>6. Cardinality(Busy') = Cardinality(Busy) - 1
  BY ZenonT(40), <1>4, Finite, FS_RemoveElement
<1>7. Conserved'
  <2>1. \A v \in Busy' : v \in Busy /\ slot'[v] = slot[v]
    BY <1>4 DEF Finishes, PoolType, Busy
  <2>2. completed' + Cardinality(Busy') + Cardinality(Waiting') = Cardinality(Slots)
    BY <1>5, <1>6, Finite DEF Finishes, Conserved, PoolType
  <2> QED
    BY <1>5, <2>1, <2>2 DEF Conserved
<1> QED
  BY <1>2, <1>3, <1>7

\* Every step of the system keeps the pool in order.
LEMMA PoolStep ==
  ASSUME Pool, [Next]_vars
  PROVE  Pool'
<1> USE DEF Pool
<1>1. ASSUME NEW w \in Workers, WorkerStep(w) PROVE Pool'
  <2>1. CASE Take(w)
    BY <2>1, TakePool
  <2>2. CASE Quit(w)
    <3>1. UNCHANGED <<main, tasks, slot, completed>>
      BY <2>2 DEF Quit, pool
    <3>2. pc[w] = "take" /\ tasks[w[1]] = {} /\ pc' = [pc EXCEPT ![w] = "done"]
      BY <2>2 DEF Quit, Goto
    <3>3. PoolType' /\ PoolInv'
      BY <3>1, <3>2 DEF PoolType, PoolInv
    <3> QED
      BY <3>1, <3>3 DEF Conserved, Busy, Waiting
  <2>3. CASE Moves(w)
    <3>1. PoolType' /\ PoolInv'
      BY <2>3 DEF Moves, PoolType, PoolInv, Working
    <3> QED
      BY <2>3, <3>1 DEF Moves, Conserved, Busy, Waiting
  <2>4. CASE Finishes(w)
    BY <2>4, FinishPool
  <2> QED
    BY <1>1, <2>1, <2>2, <2>3, <2>4, StepKinds
<1>2. CASE Return
  <2>1. PoolType' /\ PoolInv'
    BY <1>2 DEF Return, local, PoolType, PoolInv
  <2> QED
    BY <1>2, <2>1 DEF Return, local, Conserved, Busy, Waiting
<1>3. ASSUME UNCHANGED <<pool, local>> PROVE Pool'
  <2>1. PoolType' /\ PoolInv'
    BY <1>3 DEF pool, local, PoolType, PoolInv
  <2> QED
    BY <1>3, <2>1 DEF pool, local, Conserved, Busy, Waiting
<1>4. ASSUME NEW s \in Slots, Gossip(s) PROVE Pool'
  BY <1>3, <1>4 DEF Gossip
<1>5. ASSUME NEW k \in Keys, NEW v, Write(k, v) PROVE Pool'
  BY <1>3, <1>5 DEF Write
<1>6. CASE UNCHANGED vars
  BY <1>3, <1>6 DEF vars
<1> QED
  BY <1>1, <1>2, <1>4, <1>5, <1>6 DEF Next

\* The pool is in order in every state of executeSlotMigration.
LEMMA PoolInvariant == Spec => []Pool
<1> QED
  BY PoolInit, PoolStep, PTL DEF Spec

\* Every slot is worked on once, whatever fails and however workers interleave, and
\* when executeSlotMigration returns all slots are counted (executeSlotMigration).
THEOREM SlotsWorkedOnce == Spec => []TasksConserved
<1>1. Pool => TasksConserved
  <2> SUFFICES ASSUME Pool PROVE TasksConserved
    OBVIOUS
  <2>1. ASSUME main = "returned" PROVE completed = Cardinality(Slots)
    <3>1. Busy = {}
      BY <2>1 DEF Pool, PoolInv, Busy
    <3>2. \A g \in Sources : <<g, 1>> \in Workers
      BY MigrationAssumption DEF Workers
    <3>3. \A g \in Sources : tasks[g] = {}
      <4> TAKE g \in Sources
      <4>1. pc[<<g, 1>>] = "done"
        BY <2>1, <3>2 DEF Pool, PoolInv
      <4>2. <<g, 1>>[1] = g
        OBVIOUS
      <4> QED
        BY <3>2, <4>1, <4>2 DEF Pool, PoolInv
    <3>5. Waiting = {}
      BY <3>3 DEF Waiting
    <3>4. Cardinality({}) = 0
      BY FS_EmptySet
    <3> QED
      BY <3>1, <3>4, <3>5, Finite DEF Pool, Conserved, PoolType
  <2> QED
    BY <2>1 DEF Pool, Conserved, TasksConserved, Busy, Waiting
<1> QED
  BY <1>1, PoolInvariant, PTL

-----------------------------------------------------------------------------
(* The owners of slots, and the types.                                     *)

ServeType ==
  /\ srcOwns \in [Slots -> BOOLEAN] /\ migrating \in [Slots -> BOOLEAN]
  /\ importing \in [Slots -> BOOLEAN] /\ dstOwns \in [Slots -> BOOLEAN]

Serve == ServeType /\ ServeInv

\* What no step takes back: the destination stays the owner, and stops importing
\* only when it is.
Forward ==
  \A s \in Slots :
    /\ dstOwns[s] => dstOwns'[s]
    /\ importing[s] => importing'[s] \/ dstOwns'[s]

\* A worker's own obligations are all there is to show: Forward keeps those of the
\* other workers (setupSlotMigration, finalizeSlotMigration).
LEMMA ServeOthers ==
  ASSUME Pool, Serve, NEW w \in Workers, Forward,
         \A v \in Workers \ {w} : pc'[v] = pc[v] /\ slot'[v] = slot[v],
         \A s \in Slots : srcOwns'[s] \/ dstOwns'[s],
         \A s \in Slots : migrating'[s] => importing'[s] \/ dstOwns'[s],
         pc'[w] = "migrating" => importing'[slot'[w]] \/ dstOwns'[slot'[w]],
         pc'[w] = "nodeSrc" => dstOwns'[slot'[w]]
  PROVE  ServeInv'
<1>1. \A v \in Workers : pc[v] \in Working => slot[v] \in Slots
  BY DEF Pool, PoolType, PoolInv, Working
<1>2. ASSUME NEW v \in Workers \ {w}, pc'[v] = "migrating"
      PROVE  importing'[slot'[v]] \/ dstOwns'[slot'[v]]
  BY <1>1, <1>2 DEF Serve, ServeInv, Forward, Working
<1>3. ASSUME NEW v \in Workers \ {w}, pc'[v] = "nodeSrc"
      PROVE  dstOwns'[slot'[v]]
  BY <1>1, <1>3 DEF Serve, ServeInv, Forward, Working
<1> QED
  BY <1>2, <1>3 DEF ServeInv

\* What a worker does to the owners of slots is in the order that ServeInv needs.
LEMMA ServeWorker ==
  ASSUME Pool, Serve, NEW w \in Workers, WorkerStep(w)
  PROVE  Serve'
<1>t. /\ pc \in [Workers -> Working \cup {"take", "done"}]
      /\ slot \in [Workers -> Slots \cup {None}]
  BY DEF Pool, PoolType
<1>o. \A v \in Workers \ {w} : pc'[v] = pc[v] /\ slot'[v] = slot[v]
  <2>1. Take(w) \/ Quit(w) => \A v \in Workers \ {w} : pc'[v] = pc[v] /\ slot'[v] = slot[v]
    BY <1>t DEF Take, Quit, Goto
  <2>2. Moves(w) \/ Finishes(w) => \A v \in Workers \ {w} : pc'[v] = pc[v] /\ slot'[v] = slot[v]
    BY <1>t DEF Moves, Finishes
  <2> QED
    BY <2>1, <2>2, StepKinds
<1>s. pc[w] \in Working => slot[w] \in Slots
  BY DEF Pool, PoolType, PoolInv, Working
<1>1. ASSUME UNCHANGED redis, pc'[w] \notin {"migrating", "nodeSrc"} PROVE Serve'
  <2>1. Forward
    BY Zenon, <1>1 DEF redis, Forward
  <2>2. ServeInv'
    BY <1>1, <1>o, <2>1, ServeOthers DEF redis, Serve, ServeInv
  <2> QED
    BY <1>1, <2>2 DEF redis, Serve, ServeType
<1>2. CASE SetImporting(w)
  <2>1. /\ pc[w] = "importing" /\ importing' = [importing EXCEPT ![slot[w]] = TRUE]
        /\ UNCHANGED <<srcOwns, migrating, dstOwns>>
    BY <1>2 DEF SetImporting
  <2>2. slot[w] \in Slots
    BY <1>s, <2>1 DEF Working
  <2>3. (pc'[w] = "migrating" /\ slot'[w] = slot[w]) \/ pc'[w] = "take"
    BY <1>2, <1>t DEF SetImporting, Continue, FinishSlot, Goto
  <2>4. ServeType' /\ Forward
    BY Zenon, <2>1, <2>2 DEF Serve, ServeType, Forward
  <2>5. ServeInv'
    BY ZenonT(40), <1>o, <2>1, <2>2, <2>3, <2>4, ServeOthers DEF Serve, ServeInv, ServeType
  <2> QED
    BY Zenon, <2>4, <2>5 DEF Serve
<1>3. CASE SetMigrating(w)
  <2>1. /\ pc[w] = "migrating" /\ migrating' = [migrating EXCEPT ![slot[w]] = TRUE]
        /\ UNCHANGED <<srcOwns, importing, dstOwns>>
    BY Zenon, <1>3 DEF SetMigrating
  <2>2. slot[w] \in Slots
    BY <1>s, <2>1 DEF Working
  <2>3. pc'[w] \in {"getKeys", "take"}
    BY <1>3, <1>t DEF SetMigrating, Continue, FinishSlot, Goto
  <2>4. ServeType' /\ Forward
    BY <2>1, <2>2 DEF Serve, ServeType, Forward
  <2>5. \A s \in Slots : migrating'[s] => importing'[s] \/ dstOwns'[s]
    BY Zenon, <2>1, <2>2 DEF Serve, ServeInv, ServeType
  <2>6. ServeInv'
    BY Zenon, <1>o, <2>1, <2>3, <2>4, <2>5, ServeOthers DEF Serve, ServeInv
  <2> QED
    BY ZenonT(40), <2>4, <2>6 DEF Serve
<1>4. CASE SetNodeDst(w)
  <2>1. /\ pc[w] = "nodeDst" /\ dstOwns' = [dstOwns EXCEPT ![slot[w]] = TRUE]
        /\ importing' = [importing EXCEPT ![slot[w]] = FALSE]
        /\ UNCHANGED <<srcOwns, migrating>>
    BY <1>4 DEF SetNodeDst
  <2>2. slot[w] \in Slots
    BY <1>s, <2>1 DEF Working
  <2>3. (pc'[w] = "nodeSrc" /\ slot'[w] = slot[w]) \/ pc'[w] = "take"
    BY <1>4, <1>t DEF SetNodeDst, Continue, FinishSlot, Goto
  <2>4. ServeType' /\ Forward
    BY <2>1, <2>2 DEF Serve, ServeType, Forward
  <2>5. /\ \A s \in Slots : srcOwns'[s] \/ dstOwns'[s]
        /\ \A s \in Slots : migrating'[s] => importing'[s] \/ dstOwns'[s]
    BY <2>1, <2>2 DEF Serve, ServeInv, ServeType
  <2>6. dstOwns'[slot[w]]
    BY <2>1, <2>2 DEF Serve, ServeType
  <2>7. ServeInv'
    BY <1>o, <2>3, <2>4, <2>5, <2>6, ServeOthers
  <2> QED
    BY ZenonT(40), <2>4, <2>7 DEF Serve
<1>5. CASE SetNodeSrc(w)
  <2>1. /\ pc[w] = "nodeSrc" /\ UNCHANGED <<importing, dstOwns>>
        /\ \/ /\ srcOwns' = [srcOwns EXCEPT ![slot[w]] = FALSE]
              /\ migrating' = [migrating EXCEPT ![slot[w]] = FALSE]
           \/ UNCHANGED <<srcOwns, migrating>>
    BY ZenonT(40), <1>5 DEF SetNodeSrc
  <2>2. slot[w] \in Slots /\ dstOwns[slot[w]]
    BY <1>s, <2>1 DEF Working, Serve, ServeInv
  <2>3. pc'[w] = "take"
    BY <1>5, <1>t DEF SetNodeSrc, FinishSlot, Goto
  <2>4. ServeType' /\ Forward
    BY ZenonT(40), <2>1, <2>2 DEF Serve, ServeType, Forward
  <2>5. /\ \A s \in Slots : srcOwns'[s] \/ dstOwns'[s]
        /\ \A s \in Slots : migrating'[s] => importing'[s] \/ dstOwns'[s]
    BY <2>1, <2>2 DEF Serve, ServeInv, ServeType
  <2>6. ServeInv'
    BY Zenon, <1>o, <2>3, <2>4, <2>5, ServeOthers
  <2> QED
    BY ZenonT(40), <2>4, <2>6 DEF Serve
<1>6. CASE Take(w) \/ Quit(w) \/ CommandFails(w)
  BY <1>1, <1>6, <1>t DEF Take, Quit, CommandFails, FinishSlot, Goto, redis
<1>7. CASE GetKeys(w) \/ CopyBigKey(w)
  BY Zenon, <1>1, <1>7, <1>t DEF GetKeys, CopyBigKey, Goto, redis
<1>8. CASE MigrateKeyBatch(w) \/ DeleteBigKey(w) \/ SkipKey(w)
  BY <1>1, <1>8, <1>t DEF MigrateKeyBatch, DeleteBigKey, SkipKey, Left, Goto, redis
<1> QED
  BY <1>2, <1>3, <1>4, <1>5, <1>6, <1>7, <1>8 DEF WorkerStep

\* Every state has the owners that the SETSLOT commands given so far call for.
LEMMA ServeInvariant == Spec => []Serve
<1>1. Init => Serve
  BY MigrationAssumption DEF Init, Serve, ServeType, ServeInv
<1>2. ASSUME Pool, Serve, [Next]_vars PROVE Serve'
  <2>1. ASSUME NEW w \in Workers, WorkerStep(w) PROVE Serve'
    BY Zenon, <1>2, <2>1, ServeWorker
  <2>2. ASSUME NEW s \in Slots, Gossip(s) PROVE Serve'
    <3>1. ServeType'
      BY <1>2, <2>2 DEF Gossip, Serve, ServeType
    <3>2. /\ \A r \in Slots : srcOwns'[r] \/ dstOwns'[r]
          /\ \A r \in Slots : migrating'[r] => importing'[r] \/ dstOwns'[r]
      BY ZenonT(40), <1>2, <2>2 DEF Gossip, Serve, ServeType, ServeInv
    <3>3. UNCHANGED <<pc, slot, importing, dstOwns>>
      BY <2>2 DEF Gossip, local
    <3> QED
      BY ZenonT(40), <1>2, <3>1, <3>2, <3>3 DEF Serve, ServeInv
  <2>3. CASE UNCHANGED <<pc, slot, redis>>
    BY <1>2, <2>3 DEF redis, Serve, ServeType, ServeInv
  <2>4. CASE Return
    BY <2>3, <2>4 DEF Return, local
  <2>5. ASSUME NEW k \in Keys, NEW v, Write(k, v) PROVE Serve'
    BY <2>3, <2>5 DEF Write, local
  <2>6. CASE UNCHANGED vars
    BY Zenon, <2>3, <2>6 DEF vars, local
  <2> QED
    BY <1>2, <2>1, <2>2, <2>4, <2>5, <2>6 DEF Next
<1> QED
  BY <1>1, <1>2, PoolInvariant, PTL DEF Spec

\* No slot is ever without an owner, and ASK always leads to a node that answers,
\* for any commands that fail or whose answers are lost (setupSlotMigration,
\* finalizeSlotMigration).
THEOREM SlotsStayServed == Spec => []SlotServed
<1>1. Serve => SlotServed
  BY DEF Serve, ServeInv, SlotServed
<1> QED
  BY <1>1, ServeInvariant, PTL

-----------------------------------------------------------------------------
KeyType ==
  /\ keys \in [Workers -> SUBSET Keys]
  /\ \A w \in Workers : \A k \in keys[w] : SlotOf[k] = slot[w]
  /\ hand \in [Workers -> Keys \cup {None}]
  /\ mode \in [Workers -> {"batch", "classified"}]
  /\ errs \in 0 .. Cardinality(Slots)
  /\ src \in [Keys -> Nat] /\ dst \in [Keys -> Nat] /\ acked \in [Keys -> Nat]
  /\ writes \in Nat /\ faults \in Environments

Types == Pool /\ Serve /\ KeyType

\* A worker holds only keys of its slot, whatever it does with them
\* (migrateSlotShared, migrateSlotKeys).
LEMMA KeyTypeWorker ==
  ASSUME Pool, KeyType, NEW w \in Workers, WorkerStep(w)
  PROVE  KeyType'
<1>t. /\ slot \in [Workers -> Slots \cup {None}] /\ Cardinality(Slots) \in Nat
      /\ slot[w] = None => keys[w] = {}
  BY SMTT(20), Finite, MigrationAssumption DEF Pool, PoolType, KeyType
<1>f. ASSUME NEW failed \in BOOLEAN, FinishSlot(w, failed), UNCHANGED <<store, client>>
      PROVE  KeyType'
  BY SMTT(20), <1>f, <1>t DEF FinishSlot, KeyType, store, client
<1>1. CASE Take(w)
  <2>1. keys[w] = {}
    BY <1>1, <1>t DEF Take, Pool, PoolInv
  <2>2. \A v \in Workers \ {w} : slot'[v] = slot[v]
    BY Zenon, <1>1, <1>t DEF Take
  <2> QED
    BY Zenon, <1>1, <2>1, <2>2 DEF Take, KeyType, store, client
<1>2. CASE Quit(w)
  BY <1>2 DEF Quit, KeyType, pool, store, client
<1>3. CASE SetImporting(w) \/ SetMigrating(w) \/ SetNodeDst(w)
  <2>1. CASE FinishSlot(w, TRUE)
    BY ZenonT(40), <1>3, <1>f, <2>1 DEF SetImporting, SetMigrating, SetNodeDst
  <2>2. CASE UNCHANGED <<pool, slot, keys, hand, mode>>
    BY <1>3, <2>2 DEF SetImporting, SetMigrating, SetNodeDst, KeyType, pool, store, client
  <2> QED
    BY ZenonT(40), <1>3, <2>1, <2>2 DEF SetImporting, SetMigrating, SetNodeDst, Continue
<1>4. CASE SetNodeSrc(w)
  BY ZenonT(40), <1>4, <1>f DEF SetNodeSrc
<1>5. CASE CommandFails(w)
  BY ZenonT(40), <1>5, <1>f DEF CommandFails
<1>6. CASE GetKeys(w)
  <2>1. PICK got \in SUBSET KeysAt(src, slot[w]) :
          /\ keys' = [keys EXCEPT ![w] = got]
          /\ mode' = [mode EXCEPT ![w] = IF Cardinality(got) <= SmallBatch THEN "batch" ELSE "classified"]
    BY ZenonT(40), <1>6 DEF GetKeys, kSubset
  <2>2. got \subseteq Keys /\ \A k \in got : SlotOf[k] = slot[w]
    BY Zenon DEF KeysAt
  <2> QED
    BY <1>6, <2>1, <2>2 DEF GetKeys, KeyType, pool, store, client
<1>7. CASE MigrateKeyBatch(w)
  <2>1. /\ \E moved : keys' = [keys EXCEPT ![w] = @ \ moved]
        /\ UNCHANGED <<pool, slot, hand, mode, client>>
    BY ZenonT(40), <1>7 DEF MigrateKeyBatch, Left
  <2>2. src' \in [Keys -> Nat] /\ dst' \in [Keys -> Nat]
    BY <1>7 DEF MigrateKeyBatch, KeyType
  <2>3. /\ keys' \in [Workers -> SUBSET Keys]
        /\ \A v \in Workers : \A k \in keys'[v] : SlotOf[k] = slot[v]
    BY ZenonT(40), <2>1 DEF KeyType
  <2> QED
    BY <2>1, <2>2, <2>3 DEF KeyType, pool, client
<1>8. CASE CopyBigKey(w)
  BY ZenonT(40), <1>8 DEF CopyBigKey, KeyType, pool, client
<1>9. CASE DeleteBigKey(w)
  BY SMTT(20), <1>9 DEF DeleteBigKey, Left, KeyType, pool, client
<1>10. CASE SkipKey(w)
  BY <1>10 DEF SkipKey, Left, KeyType, pool, store, client
<1> QED
  BY ZenonT(40), <1>1, <1>2, <1>3, <1>4, <1>5, <1>6, <1>7, <1>8, <1>9, <1>10 DEF WorkerStep

\* Pool, owners and keys in hand keep their types in every state.
LEMMA TypesInvariant == Spec => []Types
<1>1. Init => KeyType
  BY SMTT(20), FS_CardinalityType, MigrationAssumption DEF Init, KeyType
<1>2. ASSUME Pool, KeyType, [Next]_vars PROVE KeyType'
  <2>1. ASSUME NEW w \in Workers, WorkerStep(w) PROVE KeyType'
    BY ZenonT(40), <1>2, <2>1, KeyTypeWorker
  <2>2. CASE Return
    BY Zenon, <1>2, <2>2 DEF Return, local, store, client, KeyType
  <2>3. ASSUME NEW s \in Slots, Gossip(s) PROVE KeyType'
    BY Zenon, <1>2, <2>3 DEF Gossip, pool, local, client, KeyType
  <2>4. ASSUME NEW k \in Keys, NEW x \in {0, writes + 1}, Write(k, x) PROVE KeyType'
    <3>1. src \in [Keys -> Nat] /\ dst \in [Keys -> Nat] /\ acked \in [Keys -> Nat] /\ writes \in Nat
      BY <1>2 DEF KeyType
    <3>2. /\ acked' = [acked EXCEPT ![k] = x] /\ writes' = writes + 1
          /\ \/ src' = [src EXCEPT ![k] = x] /\ dst' = dst
             \/ dst' = [dst EXCEPT ![k] = x] /\ src' = src
          /\ UNCHANGED <<pool, local>>
      BY <2>4 DEF Write
    <3>3. x \in Nat
      BY <3>1
    <3>4. src' \in [Keys -> Nat] /\ dst' \in [Keys -> Nat] /\ acked' \in [Keys -> Nat] /\ writes' \in Nat
      BY SMTT(20), <3>1, <3>2, <3>3
    <3> QED
      BY <1>2, <3>2, <3>4 DEF pool, local, KeyType
  <2>5. CASE UNCHANGED vars
    BY Zenon, <1>2, <2>5 DEF vars, pool, local, store, client, KeyType
  <2> QED
    BY Zenon, <1>2, <2>1, <2>2, <2>3, <2>4, <2>5 DEF Next
<1> QED
  BY <1>1, <1>2, PoolInvariant, ServeInvariant, PTL DEF Spec, Types

\* The variables keep their types, and progress never exceeds the number of tasks
\* (executeSlotMigration, the counter and errCh).
THEOREM MigrationTypeCorrect == Spec => []TypeOK
<1>1. Types => TypeOK
  <2> SUFFICES ASSUME Types PROVE TypeOK
    OBVIOUS
  <2>1. completed \in 0 .. Cardinality(Slots)
    BY Finite DEF Types, Pool, PoolType, Conserved
  <2> QED
    BY Zenon, <2>1 DEF Types, Pool, PoolType, Serve, ServeType, KeyType, TypeOK, Working
<1> QED
  BY <1>1, TypesInvariant, PTL
=============================================================================
