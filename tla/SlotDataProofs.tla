--------------------------- MODULE SlotDataProofs ---------------------------
(***************************************************************************)
(* The proof that a migration without failing commands loses no write and  *)
(* undoes none: AnswersAgree of SlotMigration, for any slots, keys,        *)
(* workers, batch sizes and client writes.                                 *)
(***************************************************************************)
EXTENDS SlotMigrationProofs

\* A worker that takes no step keeps its part of the invariant, as long as no key
\* appears at the source and no source goes back to an ordinary owner.
LEMMA IdleWorker ==
  ASSUME Types, NEW v \in Workers, WorkerKeys(v),
         pc'[v] = pc[v], slot'[v] = slot[v], keys'[v] = keys[v], hand'[v] = hand[v],
         \A s \in Slots : migrating[s] \/ ~srcOwns[s] => migrating'[s] \/ ~srcOwns'[s],
         \A k \in Keys \ Big : src'[k] # 0 => src[k] # 0
  PROVE  WorkerKeys(v)'
<1>1. pc[v] \in Working => slot[v] \in Slots
  BY DEF Types, Pool, PoolType, PoolInv, Working
<1> QED
  BY <1>1 DEF WorkerKeys, Working

\* The steps that leave Redis and the keys alone.
LEMMA DataQuiet ==
  ASSUME Types, DataInv, NEW w \in Workers, UNCHANGED <<redis, store, client>>,
         \A v \in Workers \ {w} : /\ pc'[v] = pc[v] /\ slot'[v] = slot[v]
                                  /\ keys'[v] = keys[v] /\ hand'[v] = hand[v],
         WorkerKeys(w)'
  PROVE  DataInv'
<1>1. \A v \in Workers \ {w} : WorkerKeys(v)'
  BY IdleWorker DEF DataInv, redis, store
<1>2. \A k \in Keys \ Big : KeyPlaced(k)'
  BY DEF DataInv, KeyPlaced, redis, store, client
<1> QED
  BY <1>1, <1>2 DEF DataInv, redis

\* Without failures the scan of GetKeys finds every key of the slot.
LEMMA ScanFindsAll ==
  ASSUME Types, OneScanSuffices, faults = {}, NEW w \in Workers, GetKeys(w)
  PROVE  /\ keys' = [keys EXCEPT ![w] = KeysAt(src, slot[w])]
         /\ pc' = [pc EXCEPT ![w] = IF KeysAt(src, slot[w]) = {} THEN "nodeDst" ELSE "moveKeys"]
<1> DEFINE all == KeysAt(src, slot[w])
           n == IF Cardinality(all) < ScanLimit THEN Cardinality(all) ELSE ScanLimit
           here == {k \in Keys : SlotOf[k] = slot[w]}
<1>1. slot[w] \in Slots
  BY DEF GetKeys, Types, Pool, PoolType, PoolInv
<1>2. all \subseteq here /\ here \subseteq Keys
  BY DEF KeysAt
<1>3. IsFiniteSet(here) /\ IsFiniteSet(all)
  BY <1>2, FS_Subset, MigrationAssumption
<1>4. Cardinality(all) <= Cardinality(here) /\ Cardinality(here) <= ScanLimit
  BY <1>1, <1>2, <1>3, FS_Subset DEF OneScanSuffices
<1>5. Cardinality(all) \in Nat /\ Cardinality(here) \in Nat /\ ScanLimit \in Nat
  BY <1>3, FS_CardinalityType, MigrationAssumption
<1>6. n = Cardinality(all)
  BY <1>4, <1>5
<1>7. ASSUME NEW got \in kSubset(n, all) PROVE got = all
  <2>1. got \subseteq all /\ Cardinality(got) = Cardinality(all)
    BY <1>6, <1>7 DEF kSubset
  <2> QED
    BY <1>3, <2>1, FS_Subset
<1>8. PICK got \in kSubset(n, all) :
        /\ keys' = [keys EXCEPT ![w] = got]
        /\ pc' = [pc EXCEPT ![w] = IF got = {} THEN "nodeDst" ELSE "moveKeys"]
  BY ZenonT(40) DEF GetKeys, Goto
<1> QED
  BY ZenonT(40), <1>7, <1>8

\* One MIGRATE without failures moves every normal key of its chunk.
LEMMA BatchMoves ==
  ASSUME Types, DataInv, faults = {}, NEW w \in Workers, MigrateKeyBatch(w)
  PROVE  \E chunk \in SUBSET keys[w] :
           /\ Left(w, chunk)
           /\ \A k \in Keys \ Big :
                IF k \in chunk /\ src[k] # 0
                THEN src'[k] = 0 /\ dst'[k] = src[k]
                ELSE src'[k] = src[k] /\ dst'[k] = dst[k]
<1>1. PICK chunk \in SUBSET keys[w] :
        LET movable == {k \in chunk : src[k] # 0 /\ dst[k] = 0} IN
          /\ dst' = [k \in Keys |-> IF k \in movable THEN src[k] ELSE dst[k]]
          /\ src' = [k \in Keys |-> IF k \in movable THEN 0 ELSE src[k]]
          /\ Left(w, chunk)
  <2> DEFINE n == Cardinality(keys[w])
             size == IF mode[w] = "batch" \/ n < Chunk THEN n ELSE Chunk
             movable(chunk) == {k \in chunk : src[k] # 0 /\ dst[k] = 0}
  <2>1. PICK chunk \in kSubset(size, keys[w]) :
          /\ \E copied \in SUBSET movable(chunk) : \E moved \in SUBSET copied :
               /\ "cmd" \in faults \/ moved = movable(chunk)
               /\ dst' = [k \in Keys |-> IF k \in copied THEN src[k] ELSE dst[k]]
               /\ src' = [k \in Keys |-> IF k \in moved THEN 0 ELSE src[k]]
          /\ Left(w, chunk)
    BY Zenon DEF MigrateKeyBatch
  <2>2. PICK copied \in SUBSET movable(chunk) : \E moved \in SUBSET copied :
          /\ moved = movable(chunk)
          /\ dst' = [k \in Keys |-> IF k \in copied THEN src[k] ELSE dst[k]]
          /\ src' = [k \in Keys |-> IF k \in moved THEN 0 ELSE src[k]]
    BY ZenonT(40), <2>1
  <2>3. copied = movable(chunk)
    BY <2>2
  <2>4. chunk \in SUBSET keys[w]
    BY DEF kSubset
  <2> QED
    BY <2>1, <2>2, <2>3, <2>4
<1>2. \A k \in Keys \ Big : src[k] # 0 => dst[k] = 0
  BY DEF DataInv, KeyPlaced
<1> QED
  BY <1>1, <1>2

\* Without failures every step of a worker keeps the keys where the clients find
\* them (migrateSlotShared).
LEMMA DataWorker ==
  ASSUME Types, DataInv, OneScanSuffices, faults = {}, NEW w \in Workers, WorkerStep(w)
  PROVE  DataInv'
<1> USE DEF redis, store, client, pool, Goto
<1>t. /\ pc \in [Workers -> Working \cup {"take", "done"}]
      /\ slot \in [Workers -> Slots \cup {None}]
      /\ keys \in [Workers -> SUBSET Keys] /\ hand \in [Workers -> Keys \cup {None}]
      /\ srcOwns \in [Slots -> BOOLEAN] /\ migrating \in [Slots -> BOOLEAN]
      /\ dstOwns \in [Slots -> BOOLEAN]
      /\ src \in [Keys -> Nat] /\ dst \in [Keys -> Nat]
  BY DEF Types, Pool, PoolType, Serve, ServeType, KeyType
<1>s. pc[w] \in Working => slot[w] \in Slots
  BY <1>t DEF Types, Pool, PoolInv, Working
<1>k. WorkerKeys(w)
  BY DEF DataInv
<1>o. SlotOf \in [Keys -> Slots]
  BY MigrationAssumption
<1>1. CASE Take(w)
  BY <1>1, <1>t, DataQuiet DEF Take, WorkerKeys
<1>2. CASE Quit(w)
  BY <1>2, <1>t, DataQuiet DEF Quit, WorkerKeys
<1>3. CASE SetImporting(w)
  <2>1. pc' = [pc EXCEPT ![w] = "migrating"] /\ UNCHANGED <<slot, keys, hand>>
    BY <1>3 DEF SetImporting, Continue
  <2>2. \A v \in Workers \ {w} : WorkerKeys(v)'
    BY <1>3, <1>t, <2>1, IdleWorker DEF SetImporting, DataInv
  <2>3. WorkerKeys(w)'
    BY ZenonT(40), <1>t, <2>1 DEF WorkerKeys
  <2>4. \A k \in Keys \ Big : KeyPlaced(k)'
    BY <1>3 DEF SetImporting, DataInv, KeyPlaced
  <2> QED
    BY ZenonT(40), <1>3, <2>2, <2>3, <2>4 DEF SetImporting, DataInv
<1>4. CASE SetMigrating(w)
  <2>1. pc' = [pc EXCEPT ![w] = "getKeys"] /\ UNCHANGED <<slot, keys, hand>>
    BY <1>4 DEF SetMigrating, Continue
  <2>2. /\ migrating' = [migrating EXCEPT ![slot[w]] = TRUE]
        /\ UNCHANGED <<srcOwns, dstOwns, src, dst, acked>> /\ slot[w] \in Slots
    BY ZenonT(40), <1>4, <1>s DEF SetMigrating, Working
  <2>3. \A v \in Workers \ {w} : WorkerKeys(v)'
    BY <1>t, <2>1, <2>2, IdleWorker DEF DataInv
  <2>4. WorkerKeys(w)'
    BY ZenonT(40), <1>t, <2>1, <2>2 DEF WorkerKeys
  <2>5. \A k \in Keys \ Big : KeyPlaced(k)'
    BY <1>t, <1>o, <2>2 DEF DataInv, KeyPlaced
  <2> QED
    BY <1>t, <2>2, <2>3, <2>4, <2>5 DEF DataInv
<1>5. CASE GetKeys(w)
  <2>1. /\ keys' = [keys EXCEPT ![w] = KeysAt(src, slot[w])]
        /\ pc' = [pc EXCEPT ![w] = IF KeysAt(src, slot[w]) = {} THEN "nodeDst" ELSE "moveKeys"]
    BY <1>5, ScanFindsAll
  <2>2. UNCHANGED <<slot, hand, redis, store, client>> /\ pc[w] = "getKeys"
    BY <1>5 DEF GetKeys
  <2>3. WorkerKeys(w)'
    BY <1>t, <1>k, <2>1, <2>2 DEF WorkerKeys, KeysAt
  <2> QED
    BY Zenon, <1>t, <2>1, <2>2, <2>3, DataQuiet
<1>6. CASE MigrateKeyBatch(w)
  <2>1. PICK chunk \in SUBSET keys[w] :
          /\ Left(w, chunk)
          /\ \A k \in Keys \ Big :
               IF k \in chunk /\ src[k] # 0
               THEN src'[k] = 0 /\ dst'[k] = src[k]
               ELSE src'[k] = src[k] /\ dst'[k] = dst[k]
    BY <1>6, BatchMoves
  <2>2. UNCHANGED <<slot, hand, redis, client>> /\ pc[w] = "moveKeys"
    BY <1>6 DEF MigrateKeyBatch
  <2>3. \A v \in Workers \ {w} : WorkerKeys(v)'
    BY ZenonT(40), <1>t, <2>1, <2>2, IdleWorker DEF DataInv, Left
  <2>4. WorkerKeys(w)'
    BY ZenonT(40), <1>t, <1>k, <2>1, <2>2 DEF WorkerKeys, Left
  <2>5. ASSUME NEW k \in Keys \ Big, k \in chunk, src[k] # 0 PROVE migrating[SlotOf[k]] \/ dstOwns[SlotOf[k]]
    <3>1. SlotOf[k] = slot[w] /\ slot[w] \in Slots
      BY <1>s, <2>2, <2>5 DEF Types, KeyType, Working
    <3> QED
      BY <1>k, <2>2, <3>1 DEF WorkerKeys, Types, Serve, ServeInv
  <2>6. ASSUME NEW k \in Keys \ Big PROVE KeyPlaced(k)'
    <3>1. KeyPlaced(k)
      BY DEF DataInv
    <3>2. CASE k \in chunk /\ src[k] # 0
      BY Zenon, <2>1, <2>2, <2>5, <3>1, <3>2 DEF KeyPlaced
    <3>3. CASE ~(k \in chunk /\ src[k] # 0)
      BY <2>1, <2>2, <3>1, <3>3 DEF KeyPlaced
    <3> QED
      BY <3>2, <3>3
  <2> QED
    BY ZenonT(40), <2>2, <2>3, <2>4, <2>6 DEF DataInv
<1>7. CASE CopyBigKey(w)
  <2>1. PICK b \in keys[w] \cap Big :
          /\ dst' = [dst EXCEPT ![b] = IF src[b] # 0 THEN src[b] ELSE @]
          /\ hand' = [hand EXCEPT ![w] = b]
    BY ZenonT(40), <1>7 DEF CopyBigKey
  <2>2. /\ UNCHANGED <<slot, keys, redis, src, client>> /\ pc[w] = "moveKeys"
        /\ pc' = [pc EXCEPT ![w] = "deleteBig"]
    BY Zenon, <1>7 DEF CopyBigKey
  <2>3. \A v \in Workers \ {w} : WorkerKeys(v)'
    BY Zenon, <1>t, <2>1, <2>2, IdleWorker DEF DataInv
  <2>4. WorkerKeys(w)'
    BY Zenon, <1>t, <1>k, <2>1, <2>2 DEF WorkerKeys
  <2>5. \A k \in Keys \ Big : KeyPlaced(k)'
    BY <1>t, <2>1, <2>2 DEF DataInv, KeyPlaced
  <2> QED
    BY ZenonT(40), <2>2, <2>3, <2>4, <2>5 DEF DataInv
<1>8. CASE DeleteBigKey(w)
  <2>1. /\ src' = [src EXCEPT ![hand[w]] = 0] /\ hand[w] \in Big
        /\ Left(w, {hand[w]}) /\ hand' = [hand EXCEPT ![w] = None]
        /\ UNCHANGED <<slot, redis, dst, client>> /\ pc[w] = "deleteBig"
    BY Zenon, <1>8, <1>k DEF DeleteBigKey, WorkerKeys
  <2>2. \A v \in Workers \ {w} : WorkerKeys(v)'
    BY ZenonT(40), <1>t, <2>1, IdleWorker DEF DataInv, Left
  <2>3. WorkerKeys(w)'
    BY <1>t, <1>k, <2>1 DEF WorkerKeys, Left
  <2>4. \A k \in Keys \ Big : KeyPlaced(k)'
    BY ZenonT(40), <1>t, <2>1 DEF DataInv, KeyPlaced
  <2> QED
    BY Zenon, <2>1, <2>2, <2>3, <2>4 DEF DataInv
<1>9. CASE SetNodeDst(w)
  <2>1. pc' = [pc EXCEPT ![w] = "nodeSrc"] /\ UNCHANGED <<slot, keys, hand>>
    BY <1>9 DEF SetNodeDst, Continue
  <2>2. /\ dstOwns' = [dstOwns EXCEPT ![slot[w]] = TRUE] /\ pc[w] = "nodeDst"
        /\ UNCHANGED <<srcOwns, migrating, src, dst, acked>> /\ slot[w] \in Slots
    BY <1>9, <1>s DEF SetNodeDst, Working
  <2>3. \A v \in Workers \ {w} : WorkerKeys(v)'
    BY <1>t, <2>1, <2>2, IdleWorker DEF DataInv
  <2>4. WorkerKeys(w)'
    BY ZenonT(40), <1>t, <2>1 DEF WorkerKeys
  <2>5. \A k \in Keys \ Big : KeyPlaced(k)'
    BY <1>t, <1>o, <1>k, <2>2 DEF DataInv, KeyPlaced, WorkerKeys
  <2>6. \A s \in Slots : srcOwns'[s] /\ dstOwns'[s] => migrating'[s]
    BY ZenonT(40), <1>t, <1>k, <2>2 DEF DataInv, WorkerKeys
  <2> QED
    BY ZenonT(40), <2>3, <2>4, <2>5, <2>6 DEF DataInv
<1>10. CASE SetNodeSrc(w)
  <2>1. /\ pc' = [pc EXCEPT ![w] = "take"] /\ slot' = [slot EXCEPT ![w] = None]
        /\ keys' = [keys EXCEPT ![w] = {}] /\ hand' = hand
    BY <1>10 DEF SetNodeSrc, FinishSlot
  <2>2. /\ UNCHANGED <<dstOwns, store, client>> /\ slot[w] \in Slots /\ dstOwns[slot[w]]
        /\ \/ UNCHANGED <<srcOwns, migrating>>
           \/ /\ srcOwns' = [srcOwns EXCEPT ![slot[w]] = FALSE]
              /\ migrating' = [migrating EXCEPT ![slot[w]] = FALSE]
    BY ZenonT(40), <1>10, <1>s DEF SetNodeSrc, Types, Serve, ServeInv, Working
  <2>3. \A v \in Workers \ {w} : WorkerKeys(v)'
    BY <1>t, <2>1, <2>2, IdleWorker DEF DataInv
  <2>4. WorkerKeys(w)'
    BY ZenonT(40), <1>t, <2>1 DEF WorkerKeys
  <2>5. \A k \in Keys \ Big : KeyPlaced(k)'
    BY SMTT(20), <1>t, <1>o, <2>2 DEF DataInv, KeyPlaced
  <2>6. \A s \in Slots : srcOwns'[s] /\ dstOwns'[s] => migrating'[s]
    BY <1>t, <2>2 DEF DataInv
  <2> QED
    BY ZenonT(40), <2>3, <2>4, <2>5, <2>6 DEF DataInv
<1>11. CASE SkipKey(w) \/ CommandFails(w)
  BY ZenonT(40), <1>11 DEF SkipKey, CommandFails
<1> QED
  BY <1>1, <1>2, <1>3, <1>4, <1>5, <1>6, <1>7, <1>8, <1>9, <1>10, <1>11 DEF WorkerStep

\* A source that hears of the new owner has no key left to drop (Gossip).
LEMMA DataGossip ==
  ASSUME Types, DataInv, NEW s \in Slots, Gossip(s)
  PROVE  DataInv'
<1>t. /\ srcOwns \in [Slots -> BOOLEAN] /\ migrating \in [Slots -> BOOLEAN]
      /\ src \in [Keys -> Nat] /\ SlotOf \in [Keys -> Slots]
  BY MigrationAssumption DEF Types, Serve, ServeType, KeyType
<1>1. /\ dstOwns[s] /\ UNCHANGED <<local, dstOwns, dst, client>>
      /\ srcOwns' = [srcOwns EXCEPT ![s] = FALSE] /\ migrating' = [migrating EXCEPT ![s] = FALSE]
      /\ src' = [k \in Keys |-> IF SlotOf[k] = s THEN 0 ELSE src[k]]
  BY DEF Gossip
<1>2. \A k \in Keys \ Big : src'[k] = src[k]
  BY <1>t, <1>1 DEF DataInv, KeyPlaced
<1>3. \A v \in Workers : WorkerKeys(v)'
  BY ZenonT(40), <1>t, <1>1, <1>2, IdleWorker DEF DataInv, local
<1>4. \A k \in Keys \ Big : KeyPlaced(k)'
  BY <1>t, <1>1, <1>2 DEF DataInv, KeyPlaced, client
<1> QED
  BY Zenon, <1>t, <1>1, <1>3, <1>4 DEF DataInv

\* Whoever answers a client's write has the only copy of the key, or makes the only
\* one (Write).
LEMMA DataWrite ==
  ASSUME Types, DataInv, NEW k \in Keys, NEW x \in {0, writes + 1}, Write(k, x)
  PROVE  DataInv'
<1>t. /\ src \in [Keys -> Nat] /\ dst \in [Keys -> Nat] /\ acked \in [Keys -> Nat]
      /\ SlotOf \in [Keys -> Slots]
  BY MigrationAssumption DEF Types, KeyType
<1>1. acked' = [acked EXCEPT ![k] = x] /\ UNCHANGED <<local, srcOwns, migrating, importing, dstOwns>>
  BY DEF Write, redis
<1>2. CASE SrcAnswers(k) /\ src' = [src EXCEPT ![k] = x] /\ UNCHANGED dst
  <2>1. ASSUME NEW v \in Workers PROVE WorkerKeys(v)'
    <3>1. WorkerKeys(v)
      BY DEF DataInv
    <3>2. SlotOf[k] = slot[v] /\ pc[v] \in {"getKeys", "moveKeys", "deleteBig", "nodeDst"} => src[k] # 0
      BY ZenonT(40), <1>2, <3>1 DEF WorkerKeys, SrcAnswers
    <3> QED
      BY Zenon, <1>t, <1>1, <1>2, <3>1, <3>2 DEF WorkerKeys, local
  <2>2. ASSUME NEW j \in Keys \ Big PROVE KeyPlaced(j)'
    <3>1. KeyPlaced(j) /\ SlotOf[j] \in Slots
      BY <1>t DEF DataInv
    <3>2. srcOwns[SlotOf[j]] /\ dstOwns[SlotOf[j]] => migrating[SlotOf[j]]
      BY <3>1 DEF DataInv
    <3> QED
      BY Zenon, <1>t, <1>1, <1>2, <3>1, <3>2 DEF KeyPlaced, SrcAnswers
  <2> QED
    BY ZenonT(40), <1>1, <2>1, <2>2 DEF DataInv
<1>3. CASE (AskAnswers(k) \/ DstAnswers(k)) /\ dst' = [dst EXCEPT ![k] = x] /\ UNCHANGED src
  <2>1. \A v \in Workers : WorkerKeys(v)'
    BY <1>1, <1>3, IdleWorker DEF DataInv, local
  <2>2. ASSUME NEW j \in Keys \ Big PROVE KeyPlaced(j)'
    <3>1. KeyPlaced(j)
      BY DEF DataInv
    <3> QED
      BY ZenonT(40), <1>t, <1>1, <1>3, <3>1 DEF KeyPlaced, AskAnswers, DstAnswers
  <2> QED
    BY Zenon, <1>1, <2>1, <2>2 DEF DataInv
<1> QED
  BY <1>2, <1>3 DEF Write

\* Where the keys are, in every state of a behaviour without failures.
LEMMA SoundInvariant == Spec => []Sound
<1>1. Init => Sound
  <2> SUFFICES ASSUME Init PROVE DataInv
    BY DEF Sound
  <2>1. \A w \in Workers : WorkerKeys(w)
    BY DEF Init, WorkerKeys
  <2>2. \A k \in Keys \ Big : KeyPlaced(k)
    BY MigrationAssumption DEF Init, KeyPlaced
  <2> QED
    BY <2>1, <2>2 DEF Init, DataInv
<1>2. ASSUME Types, Sound, [Next]_vars PROVE Sound'
  <2> SUFFICES ASSUME faults' = {}, OneScanSuffices PROVE DataInv'
    BY DEF Sound, OneScanSuffices
  <2>1. ASSUME NEW w \in Workers, WorkerStep(w) PROVE faults' = faults
    BY ZenonT(40), <2>1 DEF WorkerStep, Take, Quit, SetImporting, SetMigrating, GetKeys, MigrateKeyBatch,
       CopyBigKey, DeleteBigKey, SkipKey, SetNodeDst, SetNodeSrc, CommandFails, Continue, FinishSlot, pool
  <2>2. ASSUME NEW w \in Workers, WorkerStep(w) PROVE DataInv'
    BY <1>2, <2>1, <2>2, DataWorker DEF Sound
  <2>3. CASE Return
    <3>1. UNCHANGED <<faults, local, redis, store, client>>
      BY <2>3 DEF Return
    <3>2. DataInv
      BY <1>2, <3>1 DEF Sound
    <3> QED
      BY ZenonT(40), <3>1, <3>2 DEF local, redis, store, client, DataInv, WorkerKeys, KeyPlaced
  <2>4. ASSUME NEW s \in Slots, Gossip(s) PROVE DataInv'
    BY ZenonT(40), <1>2, <2>4, DataGossip DEF Sound, Gossip, pool
  <2>5. ASSUME NEW k \in Keys, NEW x \in {0, writes + 1}, Write(k, x) PROVE DataInv'
    BY ZenonT(40), <1>2, <2>5, DataWrite DEF Sound, Write, pool
  <2>6. CASE UNCHANGED vars
    <3>1. UNCHANGED <<faults, local, redis, store, client>>
      BY <2>6 DEF vars, pool
    <3>2. DataInv
      BY <1>2, <3>1 DEF Sound
    <3> QED
      BY <3>1, <3>2 DEF local, redis, store, client, DataInv, WorkerKeys, KeyPlaced
  <2> QED
    BY <1>2, <2>2, <2>3, <2>4, <2>5, <2>6 DEF Next
<1> QED
  BY <1>1, <1>2, TypesInvariant, PTL DEF Spec

\* When no command fails and one scan lists all keys of a slot, every node that
\* answers for a key answers with the value last acknowledged, for any number of
\* slots, workers, keys and writes (migrateSlotShared).
THEOREM MigrationLosesNothing == Spec => []AnswersAgree
<1>1. Sound /\ Types => AnswersAgree
  <2> SUFFICES ASSUME Sound, Types, faults = {}, OneScanSuffices, NEW k \in Keys \ Big
               PROVE  Agree(k)
    BY DEF AnswersAgree
  <2>1. KeyPlaced(k) /\ SlotOf[k] \in Slots
    BY ZenonT(40), MigrationAssumption DEF Sound, DataInv
  <2>2. srcOwns[SlotOf[k]] /\ dstOwns[SlotOf[k]] => migrating[SlotOf[k]]
    BY <2>1 DEF Sound, DataInv
  <2> QED
    BY ZenonT(40), <2>1, <2>2 DEF KeyPlaced, Agree, SrcAnswers, AskAnswers, DstAnswers
<1> QED
  BY <1>1, SoundInvariant, TypesInvariant, PTL
=============================================================================
