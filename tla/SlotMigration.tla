--------------------------- MODULE SlotMigration ---------------------------
(***************************************************************************)
(* executeSlotMigration and migrateSlotShared of cluster/model/manager.go: *)
(* worker goroutines take slots from the channel of their source master    *)
(* and move each slot with its keys to its destination, while clients of   *)
(* the Redis cluster go on reading and writing.                            *)
(*                                                                         *)
(* Each slot has one source and one destination.  Redis itself is external *)
(* to the repository: a node answers for a slot as the cluster protocol    *)
(* says (owner, MIGRATING with ASK, IMPORTING), refuses to give away a     *)
(* slot it holds keys of, and drops those keys when it hears by gossip     *)
(* that another node owns the slot.  A value is a version number; 0 means  *)
(* that the key is absent.                                                 *)
(***************************************************************************)
EXTENDS Integers, FiniteSets, Sequences, FiniteSetsExt

CONSTANTS
  Slots,       \* the slots of the tasks
  Sources,     \* source masters (one group each)
  From,        \* source master of each slot
  NumWorkers,  \* migrationWorkers
  Keys,        \* keys of those slots
  SlotOf,      \* slot of each key
  Big,         \* keys of at least bigKeyThreshold bytes
  SmallBatch,  \* smallKeyBatch
  Chunk,       \* size of one batch of normal keys
  ScanLimit,   \* keys GETKEYSINSLOT is asked for
  None,        \* no slot, no key
  MaxWrites,   \* bound on client writes
  Environments \* sets of faults; "cmd": a command to a node may fail

ASSUME MigrationAssumption ==
  /\ IsFiniteSet(Slots) /\ IsFiniteSet(Sources) /\ IsFiniteSet(Keys)
  /\ From \in [Slots -> Sources]
  /\ SlotOf \in [Keys -> Slots]
  /\ NumWorkers \in Nat \ {0} /\ Chunk \in Nat \ {0}
  /\ SmallBatch \in Nat /\ ScanLimit \in Nat /\ MaxWrites \in Nat
  /\ None \notin Slots \cup Keys
  /\ Environments \subseteq SUBSET {"cmd"}

Workers == Sources \X (1 .. NumWorkers)

VARIABLES
  main,       \* "wait": wg.Wait, "returned"
  tasks,      \* per source: the slots still in taskCh
  pc,         \* per worker
  slot,       \* per worker: the slot in hand
  keys,       \* per worker: keys of the slot still to be moved
  hand,       \* per worker: the big key copied and not yet deleted
  mode,       \* per worker: "batch", or "classified" into big and normal keys
  errs,       \* errors sent to errCh
  completed,  \* the progress counter
  srcOwns,    \* per slot: the source takes itself for the owner
  migrating,  \* per slot: MIGRATING is set at the source
  importing,  \* per slot: IMPORTING is set at the destination
  dstOwns,    \* per slot: the destination takes itself for the owner
  src, dst,   \* per key: the value at the source and at the destination
  acked,      \* per key: the value last acknowledged to a client
  writes,     \* client writes so far
  faults      \* the faults of this behaviour

redis == <<srcOwns, migrating, importing, dstOwns>>
store == <<src, dst>>
client == <<acked, writes>>
pool == <<main, tasks, errs, completed, faults>>
local == <<pc, slot, keys, hand, mode>>
vars == <<pool, local, redis, store, client>>

Init ==
  /\ main = "wait" /\ faults \in Environments
  /\ tasks = [g \in Sources |-> {s \in Slots : From[s] = g}]
  /\ pc = [w \in Workers |-> "take"]
  /\ slot = [w \in Workers |-> None]
  /\ keys = [w \in Workers |-> {}]
  /\ hand = [w \in Workers |-> None]
  /\ mode = [w \in Workers |-> "batch"]
  /\ errs = 0 /\ completed = 0
  /\ srcOwns = [s \in Slots |-> TRUE] /\ dstOwns = [s \in Slots |-> FALSE]
  /\ migrating = [s \in Slots |-> FALSE] /\ importing = [s \in Slots |-> FALSE]
  /\ src \in [Keys -> {0, 1}] /\ dst = [k \in Keys |-> 0]
  /\ acked = src /\ writes = 1

KeysAt(store_, s) == {k \in Keys : SlotOf[k] = s /\ store_[k] # 0}

Goto(w, l) == pc' = [pc EXCEPT ![w] = l]

\* Mutated form of FinishSlot: errCh is one short.
FinishSlotSmallCh(w, failed) ==
  /\ failed => errs < Cardinality(Slots) - 1
  /\ errs' = errs + (IF failed THEN 1 ELSE 0)
  /\ completed' = completed + 1
  /\ Goto(w, "take")
  /\ slot' = [slot EXCEPT ![w] = None]
  /\ keys' = [keys EXCEPT ![w] = {}]
  /\ mode' = [mode EXCEPT ![w] = "batch"]
  /\ UNCHANGED <<main, tasks, hand, faults>>

\* The end of one round of the loop: the error, if any, goes to errCh, which has
\* room for one error per task.
FinishSlot(w, failed) ==
  /\ failed => errs < Cardinality(Slots)
  /\ errs' = errs + (IF failed THEN 1 ELSE 0)
  /\ completed' = completed + 1
  /\ Goto(w, "take")
  /\ slot' = [slot EXCEPT ![w] = None]
  /\ keys' = [keys EXCEPT ![w] = {}]
  /\ mode' = [mode EXCEPT ![w] = "batch"]
  /\ UNCHANGED <<main, tasks, hand, faults>>

\* After a SETSLOT that took effect: on to the next command, unless the answer is
\* lost, which migrateSlotShared takes for a failure.
Continue(w, l) ==
  \/ Goto(w, l) /\ UNCHANGED <<pool, slot, keys, hand, mode>>
  \/ "cmd" \in faults /\ FinishSlot(w, TRUE)

-----------------------------------------------------------------------------
(* The worker loop.                                                        *)

\* Mutated form of Take: the task stays in the channel.
TakeKeepsTask(w) ==
  /\ pc[w] = "take"
  /\ \E s \in tasks[w[1]] : slot' = [slot EXCEPT ![w] = s]
  /\ Goto(w, "importing")
  /\ UNCHANGED <<tasks, main, errs, completed, faults, keys, hand, mode, redis, store, client>>

\* for t := range taskCh; the slots of one channel are interchangeable, so which
\* of them is at its head is left open.
Take(w) ==
  /\ pc[w] = "take"
  /\ \E s \in tasks[w[1]] :
       /\ tasks' = [tasks EXCEPT ![w[1]] = @ \ {s}]
       /\ slot' = [slot EXCEPT ![w] = s]
  /\ Goto(w, "importing")
  /\ UNCHANGED <<main, errs, completed, faults, keys, hand, mode, redis, store, client>>

\* The channel is closed and drained: wg.Done.
Quit(w) ==
  /\ pc[w] = "take" /\ tasks[w[1]] = {}
  /\ Goto(w, "done")
  /\ UNCHANGED <<pool, slot, keys, hand, mode, redis, store, client>>

\* A SETSLOT fails without effect: the slot is given up where it stands.
CommandFails(w) ==
  /\ "cmd" \in faults
  /\ pc[w] \in {"importing", "migrating", "nodeDst", "nodeSrc"}
  /\ FinishSlot(w, TRUE)
  /\ UNCHANGED <<redis, store, client>>

\* Mutated form of SetImporting: the source is told first.
SetImportingSwapped(w) ==
  /\ pc[w] = "importing"
  /\ migrating' = [migrating EXCEPT ![slot[w]] = TRUE]
  /\ Continue(w, "migrating")
  /\ UNCHANGED <<srcOwns, importing, dstOwns, store, client>>

SetImporting(w) ==
  /\ pc[w] = "importing"
  /\ importing' = [importing EXCEPT ![slot[w]] = TRUE]
  /\ Continue(w, "migrating")
  /\ UNCHANGED <<srcOwns, migrating, dstOwns, store, client>>

\* Mutated form of SetMigrating: the source is not told.
SetMigratingDropped(w) ==
  /\ pc[w] = "migrating"
  /\ Continue(w, "getKeys")
  /\ UNCHANGED <<redis, store, client>>

SetMigrating(w) ==
  /\ pc[w] = "migrating"
  /\ migrating' = [migrating EXCEPT ![slot[w]] = TRUE]
  /\ Continue(w, "getKeys")
  /\ UNCHANGED <<srcOwns, importing, dstOwns, store, client>>

\* Mutated form of GetKeys: the keys of all slots of the source are taken.
GetKeysOfSource(w) ==
  LET all == UNION {KeysAt(src, s) : s \in {t \in Slots : From[t] = w[1]}}
      n == IF Cardinality(all) < ScanLimit THEN Cardinality(all) ELSE ScanLimit
  IN /\ pc[w] = "getKeys"
     /\ \E got \in kSubset(n, all) :
          /\ keys' = [keys EXCEPT ![w] = got]
          /\ mode' = [mode EXCEPT ![w] = IF Cardinality(got) <= SmallBatch THEN "batch" ELSE "classified"]
          /\ Goto(w, IF got = {} THEN "nodeDst" ELSE "moveKeys")
     /\ UNCHANGED <<pool, slot, hand, redis, store, client>>

\* GETKEYSINSLOT returns up to ScanLimit keys; an error is taken for no keys.
GetKeys(w) ==
  LET all == KeysAt(src, slot[w])
      n == IF Cardinality(all) < ScanLimit THEN Cardinality(all) ELSE ScanLimit
  IN /\ pc[w] = "getKeys"
     /\ \E got \in kSubset(n, all) \cup (IF "cmd" \in faults THEN {{}} ELSE {}) :
          /\ keys' = [keys EXCEPT ![w] = got]
          /\ mode' = [mode EXCEPT ![w] = IF Cardinality(got) <= SmallBatch THEN "batch" ELSE "classified"]
          /\ Goto(w, IF got = {} THEN "nodeDst" ELSE "moveKeys")
     /\ UNCHANGED <<pool, slot, hand, redis, store, client>>

Left(w, moved) ==
  /\ keys' = [keys EXCEPT ![w] = @ \ moved]
  /\ Goto(w, IF keys[w] \subseteq moved THEN "nodeDst" ELSE "moveKeys")

\* One MIGRATE ... KEYS command: few keys go in one batch; otherwise the normal
\* keys follow the big ones, chunk by chunk.  A key that is gone is ignored, one
\* that the destination has already is refused.  A command that is cut short may
\* have moved some keys and copied others; its error is only logged.
MigrateKeyBatch(w) ==
  LET n == Cardinality(keys[w])
      size == IF mode[w] = "batch" \/ n < Chunk THEN n ELSE Chunk
  IN /\ pc[w] = "moveKeys"
     /\ mode[w] = "batch" \/ keys[w] \cap Big = {}
     /\ \E chunk \in kSubset(size, keys[w]) :
          LET movable == {k \in chunk : src[k] # 0 /\ dst[k] = 0} IN
            /\ \E copied \in SUBSET movable : \E moved \in SUBSET copied :
                 /\ "cmd" \in faults \/ moved = movable
                 /\ dst' = [k \in Keys |-> IF k \in copied THEN src[k] ELSE dst[k]]
                 /\ src' = [k \in Keys |-> IF k \in moved THEN 0 ELSE src[k]]
            /\ Left(w, chunk)
     /\ UNCHANGED <<pool, slot, hand, mode, redis, client>>

\* migrateBigKey, first command: MIGRATE ... COPY REPLACE.
CopyBigKey(w) ==
  /\ pc[w] = "moveKeys" /\ mode[w] = "classified"
  /\ \E k \in keys[w] \cap Big :
       /\ dst' = [dst EXCEPT ![k] = IF src[k] # 0 THEN src[k] ELSE @]
       /\ hand' = [hand EXCEPT ![w] = k]
  /\ Goto(w, "deleteBig")
  /\ UNCHANGED <<pool, slot, keys, mode, redis, src, client>>

\* migrateBigKey, second command: DEL at the source; an error is only logged.
DeleteBigKey(w) ==
  /\ pc[w] = "deleteBig"
  /\ \/ src' = [src EXCEPT ![hand[w]] = 0]
     \/ "cmd" \in faults /\ UNCHANGED src
  /\ Left(w, {hand[w]})
  /\ hand' = [hand EXCEPT ![w] = None]
  /\ UNCHANGED <<pool, slot, mode, redis, dst, client>>

\* A key whose size or existence cannot be asked for, or whose copy fails, is left
\* out (classifyKeys, filterExistingKeys, migrateBigKey).
SkipKey(w) ==
  /\ "cmd" \in faults
  /\ pc[w] = "moveKeys" /\ mode[w] = "classified"
  /\ \E k \in keys[w] : Left(w, {k})
  /\ UNCHANGED <<pool, slot, hand, mode, redis, store, client>>

SetNodeDst(w) ==
  /\ pc[w] = "nodeDst"
  /\ dstOwns' = [dstOwns EXCEPT ![slot[w]] = TRUE]
  /\ importing' = [importing EXCEPT ![slot[w]] = FALSE]
  /\ Continue(w, "nodeSrc")
  /\ UNCHANGED <<srcOwns, migrating, store, client>>

\* The source refuses while it holds keys of the slot.
SetNodeSrc(w) ==
  /\ pc[w] = "nodeSrc"
  /\ IF KeysAt(src, slot[w]) = {}
     THEN /\ srcOwns' = [srcOwns EXCEPT ![slot[w]] = FALSE]
          /\ migrating' = [migrating EXCEPT ![slot[w]] = FALSE]
          /\ FinishSlot(w, FALSE) \/ ("cmd" \in faults /\ FinishSlot(w, TRUE))
     ELSE /\ FinishSlot(w, TRUE)
          /\ UNCHANGED <<srcOwns, migrating>>
  /\ UNCHANGED <<importing, dstOwns, store, client>>

\* wg.Wait returns; errCh is closed and its errors are logged.
Return ==
  /\ main = "wait"
  /\ \A w \in Workers : pc[w] = "done"
  /\ main' = "returned"
  /\ UNCHANGED <<tasks, errs, completed, faults, local, redis, store, client>>

-----------------------------------------------------------------------------
(* Redis and its clients.                                                  *)

\* The source hears that the destination owns the slot and drops its keys.
Gossip(s) ==
  /\ dstOwns[s] /\ srcOwns[s]
  /\ srcOwns' = [srcOwns EXCEPT ![s] = FALSE]
  /\ migrating' = [migrating EXCEPT ![s] = FALSE]
  /\ src' = [k \in Keys |-> IF SlotOf[k] = s THEN 0 ELSE src[k]]
  /\ UNCHANGED <<pool, local, importing, dstOwns, dst, client>>

\* Who answers a command about key k: the source itself, the destination after an
\* ASK redirection, or the destination as the owner.
SrcAnswers(k) == srcOwns[SlotOf[k]] /\ (~migrating[SlotOf[k]] \/ src[k] # 0)
AskAnswers(k) ==
  /\ srcOwns[SlotOf[k]] /\ migrating[SlotOf[k]] /\ src[k] = 0
  /\ importing[SlotOf[k]] \/ dstOwns[SlotOf[k]]
DstAnswers(k) == dstOwns[SlotOf[k]]

\* A client writes or deletes (v = 0) key k.
Write(k, v) ==
  /\ writes < MaxWrites
  /\ writes' = writes + 1
  /\ acked' = [acked EXCEPT ![k] = v]
  /\ \/ SrcAnswers(k) /\ src' = [src EXCEPT ![k] = v] /\ UNCHANGED dst
     \/ (AskAnswers(k) \/ DstAnswers(k)) /\ dst' = [dst EXCEPT ![k] = v] /\ UNCHANGED src
  /\ UNCHANGED <<pool, local, redis>>

-----------------------------------------------------------------------------
WorkerStep(w) ==
  \/ Take(w) \/ Quit(w) \/ SetImporting(w) \/ SetMigrating(w) \/ GetKeys(w)
  \/ MigrateKeyBatch(w) \/ CopyBigKey(w) \/ DeleteBigKey(w) \/ SkipKey(w)
  \/ SetNodeDst(w) \/ SetNodeSrc(w) \/ CommandFails(w)

Next ==
  \/ \E w \in Workers : WorkerStep(w)
  \/ Return
  \/ \E s \in Slots : Gossip(s)
  \/ \E k \in Keys : \E v \in {0, writes + 1} : Write(k, v)

Spec == Init /\ [][Next]_vars

\* Goroutines that can run do run; a command is answered or fails.
FairSpec == Spec /\ WF_vars(Return) /\ \A w \in Workers : WF_vars(WorkerStep(w))

-----------------------------------------------------------------------------
\* Every variable has its type; a worker has only keys of its slot in hand.
TypeOK ==
  /\ main \in {"wait", "returned"}
  /\ tasks \in [Sources -> SUBSET Slots]
  /\ pc \in [Workers -> {"take", "importing", "migrating", "getKeys", "moveKeys", "deleteBig",
                         "nodeDst", "nodeSrc", "done"}]
  /\ slot \in [Workers -> Slots \cup {None}]
  /\ keys \in [Workers -> SUBSET Keys]
  /\ \A w \in Workers : \A k \in keys[w] : SlotOf[k] = slot[w]
  /\ hand \in [Workers -> Keys \cup {None}]
  /\ mode \in [Workers -> {"batch", "classified"}]
  /\ errs \in 0 .. Cardinality(Slots) /\ completed \in 0 .. Cardinality(Slots)
  /\ srcOwns \in [Slots -> BOOLEAN] /\ migrating \in [Slots -> BOOLEAN]
  /\ importing \in [Slots -> BOOLEAN] /\ dstOwns \in [Slots -> BOOLEAN]
  /\ src \in [Keys -> Nat] /\ dst \in [Keys -> Nat] /\ acked \in [Keys -> Nat]
  /\ writes \in Nat /\ faults \in Environments

\* However commands fail and workers interleave, no slot is ever without an owner,
\* and a client that the source sends away with ASK is answered by the destination
\* (the order of the SETSLOT commands in setupSlotMigration and
\* finalizeSlotMigration).
SlotServed ==
  \A s \in Slots :
    /\ srcOwns[s] \/ dstOwns[s]
    /\ srcOwns[s] /\ migrating[s] => importing[s] \/ dstOwns[s]

Agree(k) ==
  /\ SrcAnswers(k) => src[k] = acked[k]
  /\ AskAnswers(k) \/ DstAnswers(k) => dst[k] = acked[k]

\* The single GETKEYSINSLOT of a slot lists all its keys.
OneScanSuffices == \A s \in Slots : Cardinality({k \in Keys : SlotOf[k] = s}) <= ScanLimit

\* While slots move and no command fails, every node that answers for a key
\* answers with the value last acknowledged: no write is lost, none is undone
\* (migrateSlotShared), provided one scan finds all keys of a slot.  Large keys
\* are the subject of CopyModeIsSafe.
AnswersAgree == faults = {} /\ OneScanSuffices => \A k \in Keys \ Big : Agree(k)

\* Every slot is worked on once: it is waiting in the channel of its source, in the
\* hands of one worker, or counted as completed; when executeSlotMigration returns
\* all of them are counted.
TasksConserved ==
  LET waiting == UNION {tasks[g] : g \in Sources}
      busy == {w \in Workers : slot[w] # None}
  IN /\ \A w \in busy : slot[w] \notin waiting /\ From[slot[w]] = w[1]
     /\ \A v, w \in busy : slot[v] = slot[w] => v = w
     /\ completed + Cardinality(busy) + Cardinality(waiting) = Cardinality(Slots)
     /\ main = "returned" => completed = Cardinality(Slots)

\* What TasksConserved rests on: a worker has a slot exactly between taking it and
\* finishing with it, and leaves the loop only when its channel is drained.
PoolInv ==
  /\ \A w \in Workers : slot[w] = None <=> pc[w] \in {"take", "done"}
  /\ \A w \in Workers : pc[w] = "done" => tasks[w[1]] = {}
  /\ \A g \in Sources : \A s \in tasks[g] : From[s] = g
  /\ main = "returned" => \A w \in Workers : pc[w] = "done"

\* What SlotServed rests on: where a worker stands tells which commands about its
\* slot have taken effect.
ServeInv ==
  /\ \A s \in Slots : srcOwns[s] \/ dstOwns[s]
  /\ \A s \in Slots : migrating[s] => importing[s] \/ dstOwns[s]
  /\ \A w \in Workers : pc[w] = "migrating" => importing[slot[w]] \/ dstOwns[slot[w]]
  /\ \A w \in Workers : pc[w] = "nodeSrc" => dstOwns[slot[w]]

\* What AnswersAgree rests on.  Where a worker stands tells which keys may still be
\* at the source; a key is at one node only, and where it is absent from both the
\* client knows it to be.
WorkerKeys(w) ==
  /\ pc[w] \in {"getKeys", "moveKeys", "deleteBig", "nodeDst"} =>
       migrating[slot[w]] \/ ~srcOwns[slot[w]]
  /\ pc[w] = "deleteBig" => hand[w] \in Big
  /\ \A k \in Keys \ Big :
       SlotOf[k] = slot[w] /\ src[k] # 0 =>
         /\ pc[w] \in {"moveKeys", "deleteBig"} => k \in keys[w]
         /\ pc[w] # "nodeDst"

KeyPlaced(k) ==
  LET s == SlotOf[k] IN
  /\ src[k] # 0 => src[k] = acked[k] /\ dst[k] = 0 /\ ~dstOwns[s]
  /\ src[k] = 0 => dst[k] = acked[k]
  /\ src[k] = 0 /\ ~migrating[s] /\ ~dstOwns[s] => dst[k] = 0

DataInv ==
  /\ \A s \in Slots : srcOwns[s] /\ dstOwns[s] => migrating[s]
  /\ \A w \in Workers : WorkerKeys(w)
  /\ \A k \in Keys \ Big : KeyPlaced(k)

\* DataInv holds as long as no command fails and one scan lists all keys of a slot.
Sound == faults = {} /\ OneScanSuffices => DataInv

\* executeSlotMigration returns: errCh has room for every error, no worker waits.
Terminates == <>(main = "returned")

\* What the comment on migrateBigKey promises of the COPY mode: no write is lost
\* and none is undone while a large key moves.
CopyModeIsSafe == faults = {} /\ OneScanSuffices => \A k \in Big : Agree(k)
=============================================================================
