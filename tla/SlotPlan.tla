------------------------------ MODULE SlotPlan ------------------------------
(***************************************************************************)
(* Which master gets which slots: assignSlotsToMasters for a new cluster   *)
(* and collectSlotTasks for each scale of cluster/model/manager.go.  The   *)
(* loops are unrolled: one action per iteration.  Redis is the function    *)
(* owner.                                                                  *)
(*                                                                         *)
(* Masters are numbered in the order in which they join.  masterIDs lists  *)
(* them sorted by node ID, which has nothing to do with that order.        *)
(***************************************************************************)
EXTENDS Integers, FiniteSets, FiniteSetsExt, Sequences, SequencesExt

CONSTANTS
  TotalSlots,  \* 16384 in the code
  MaxMasters,  \* bound on the masters of the cluster
  Retry        \* Step.Retry of migrate-slots, 1 in the code

ASSUME PlanAssumption ==
  /\ MaxMasters \in Nat \ {0} /\ Retry \in Nat
  /\ TotalSlots \in Nat /\ TotalSlots >= MaxMasters

VARIABLES
  phase,     \* "alloc", "ready", "plan", "move"
  order,     \* the masters, those to come included, sorted by node ID
  n,         \* number of masters
  old,       \* number of masters before the last scale
  owner,     \* owner of each slot, 0: none
  known,     \* the owners in topo.nodes, read once, before the scale
  empty,     \* topo.empty: the masters without slots
  attempt,   \* attempt of migrate-slots
  slotsNum,  \* ClusterNode.SlotsNum in topo.nodes of each master
  filled,    \* ClusterNode.SlotsNum in topo.empty of each of them
  mi,        \* index of the loop over masterIDs
  at,        \* slotNum of the innermost loop, -1: between two masters
  empIdx,    \* index into topo.empty
  tasks      \* the slot tasks planned so far

scale == <<order, n, old, known, empty>>
loop == <<attempt, slotsNum, filled, mi, at, empIdx, tasks>>
vars == <<phase, owner, scale, loop>>

Slots == 0 .. TotalSlots - 1
masterIDs == SelectSeq(order, LAMBDA m : m <= n)
SlotsOf(m) == {s \in Slots : owner[s] = m}

\* ClusterNode.Slots of master m, and the last slots of its ranges, ascending.
KnownSlots(m) == {s \in Slots : known[s] = m}
RangeEnds(m) == {s \in KnownSlots(m) : s + 1 \notin KnownSlots(m)}

calculateSlots(m) == Cardinality(SlotsOf(m))

Init ==
  /\ phase = "alloc"
  /\ order \in SetToSeqs(1 .. MaxMasters)
  /\ n \in 1 .. MaxMasters
  /\ old = 0
  /\ owner = [s \in Slots |-> 0] /\ known = owner /\ empty = <<>>
  /\ attempt = 1
  /\ slotsNum = [m \in 1 .. MaxMasters |-> 0] /\ filled = slotsNum
  /\ mi = 1 /\ at = -1 /\ empIdx = 1
  /\ tasks = <<>>

-----------------------------------------------------------------------------
(* assignSlotsToMasters: CLUSTER ADDSLOTS to one master after the other.   *)

\* Mutated form of endPoint: the last master does not get the remainder.
endPointNoRemainder(i) == i * (TotalSlots \div n) - 1

startPoint(i) == (i - 1) * (TotalSlots \div n)
endPoint(i) == IF i = n THEN TotalSlots - 1 ELSE startPoint(i) + (TotalSlots \div n) - 1

\* Mutated form of AddSlots: the loop runs one master too far.
AddSlotsTooFar ==
  /\ phase = "alloc"
  /\ mi <= n + 1
  /\ owner' = [s \in Slots |->
                 IF s \in startPoint(mi) .. endPoint(mi) THEN masterIDs[mi] ELSE owner[s]]
  /\ mi' = mi + 1
  /\ UNCHANGED <<phase, scale, attempt, slotsNum, filled, at, empIdx, tasks>>

AddSlots ==
  /\ phase = "alloc"
  /\ mi <= n
  /\ owner' = [s \in Slots |->
                 IF s \in startPoint(mi) .. endPoint(mi) THEN masterIDs[mi] ELSE owner[s]]
  /\ mi' = mi + 1
  /\ UNCHANGED <<phase, scale, attempt, slotsNum, filled, at, empIdx, tasks>>

Allocated ==
  /\ phase = "alloc"
  /\ mi > n
  /\ phase' = "ready"
  /\ UNCHANGED <<owner, scale, loop>>

\* What checkSlotCounts expects of the i-th master.
expectedSlots(i) ==
  (TotalSlots \div n) + (IF i = n THEN TotalSlots % n ELSE 0)

-----------------------------------------------------------------------------
(* scale: k masters have joined; the tasks are collected.                  *)

newV == TotalSlots \div n

\* The loops of collectSlotTasks begin.
Plan == phase' = "plan" /\ mi' = 1 /\ at' = -1 /\ empIdx' = 1 /\ tasks' = <<>>

\* The orders in which CLUSTER NODES may list the masters without slots among n;
\* the new ones are numbered as they appear.
EmptyOrders ==
  {e \in SetToSeqs({m \in 1 .. n' : SlotsOf(m) = {}}) :
     \A i, j \in DOMAIN e : n < e[i] /\ e[i] < e[j] => i < j}

\* UpdateAfterMeet has read the ranges, UpdateSlots has counted the slots of the
\* masters and collected those that have none, the new ones and perhaps others.
Scale(k) ==
  /\ phase = "ready"
  /\ n + k <= MaxMasters
  /\ Plan
  /\ n' = n + k /\ old' = n
  /\ known' = owner /\ empty' \in EmptyOrders
  /\ attempt' = 1
  /\ slotsNum' = [m \in 1 .. MaxMasters |-> calculateSlots(m)]
  /\ filled' = [m \in 1 .. MaxMasters |-> 0]
  /\ UNCHANGED <<order, owner>>

\* A master that has no more than its new share is left alone, and once
\* topo.empty is used up so are all the others.
SkipMaster ==
  /\ phase = "plan" /\ at = -1
  /\ mi <= n
  /\ slotsNum[masterIDs[mi]] <= newV \/ empIdx > Len(empty)
  /\ mi' = mi + 1
  /\ UNCHANGED <<phase, owner, scale, attempt, slotsNum, filled, at, empIdx, tasks>>

\* collectTasksFromMaster starts at the end of the first range.
EnterMaster ==
  /\ phase = "plan" /\ at = -1
  /\ mi <= n
  /\ slotsNum[masterIDs[mi]] > newV /\ empIdx <= Len(empty)
  /\ at' = Min(RangeEnds(masterIDs[mi]))
  /\ UNCHANGED <<phase, owner, scale, attempt, slotsNum, filled, mi, empIdx, tasks>>

NextEmpty(e) == IF filled[e] + 1 = newV THEN empIdx + 1 ELSE empIdx

\* Mutated form of NextSlot: the loop stays at the end of the first range.
NextSlotStays(m, leave) ==
  LET ends == {e \in RangeEnds(m) : e > Min({x \in RangeEnds(m) : x >= at})} IN
    IF ~leave /\ at \in KnownSlots(m) THEN at
    ELSE IF ends # {} THEN Min(ends) ELSE -1

\* Down the range; at its start, or when the inner loop is left by break, the end
\* of the next range; -1 after the last one.
NextSlot(m, leave) ==
  LET ends == {e \in RangeEnds(m) : e > Min({x \in RangeEnds(m) : x >= at})} IN
    IF ~leave /\ at - 1 \in KnownSlots(m) THEN at - 1
    ELSE IF ends # {} THEN Min(ends) ELSE -1

\* Mutated form of TakeSlot: the surplus of the master is not looked at.
TakeSlotGreedy ==
  LET m == masterIDs[mi]
      e == empty[empIdx]
  IN /\ phase = "plan" /\ at # -1
     /\ empIdx <= Len(empty)
     /\ tasks' = Append(tasks, [slot |-> at, from |-> m, to |-> e])
     /\ filled' = [filled EXCEPT ![e] = @ + 1]
     /\ slotsNum' = [slotsNum EXCEPT ![m] = @ - 1]
     /\ empIdx' = NextEmpty(e)
     /\ at' = NextSlot(m, FALSE)
     /\ mi' = IF at' = -1 THEN mi + 1 ELSE mi
     /\ UNCHANGED <<phase, owner, scale, attempt>>

\* One iteration of the innermost loop.  (A master that gives slots is never the
\* empty master itself: the first break of the loop is not reached.)
TakeSlot ==
  LET m == masterIDs[mi]
      e == empty[empIdx]
  IN /\ phase = "plan" /\ at # -1
     /\ empIdx <= Len(empty)
     /\ tasks' = Append(tasks, [slot |-> at, from |-> m, to |-> e])
     /\ filled' = [filled EXCEPT ![e] = @ + 1]
     /\ slotsNum' = [slotsNum EXCEPT ![m] = @ - 1]
     /\ empIdx' = NextEmpty(e)
     /\ at' = NextSlot(m, slotsNum[m] - 1 = newV)
     /\ mi' = IF at' = -1 THEN mi + 1 ELSE mi
     /\ UNCHANGED <<phase, owner, scale, attempt>>

\* topo.empty is used up in the middle of a master: no loop runs any more.
StopTaking ==
  /\ phase = "plan" /\ at # -1
  /\ empIdx > Len(empty)
  /\ at' = -1 /\ mi' = mi + 1
  /\ UNCHANGED <<phase, owner, scale, attempt, slotsNum, filled, empIdx, tasks>>

Collected ==
  /\ phase = "plan" /\ at = -1
  /\ mi > n
  /\ phase' = IF tasks = <<>> THEN "ready" ELSE "move"
  /\ UNCHANGED <<owner, scale, loop>>

\* Mutated form of migrateSlotShared: it goes on when setupSlotMigration fails.
migrateRegardless ==
  [s \in Slots |->
     LET moved == {t \in ToSet(tasks) : t.slot = s} IN
     IF moved = {} THEN owner[s] ELSE (CHOOSE t \in moved : TRUE).to]

\* The owners after executeSlotMigration, when no connection fails: IMPORTING is
\* refused by the owner of the slot and MIGRATING by everybody else.
migrateSlotShared ==
  [s \in Slots |->
     LET moved == {t \in ToSet(tasks) : t.slot = s /\ owner[s] = t.from} IN
     IF moved = {} THEN owner[s] ELSE (CHOOSE t \in moved : TRUE).to]

Migrate ==
  /\ phase = "move"
  /\ phase' = "ready"
  /\ owner' = migrateSlotShared
  /\ UNCHANGED <<scale, loop>>

\* PrintClusterNodesInfo fails after the migration, and with it the step: Do runs
\* once more on the topology in memory, with the counts the first plan has left.
MigrateAgain ==
  /\ phase = "move" /\ attempt <= Retry
  /\ Plan
  /\ attempt' = attempt + 1
  /\ owner' = migrateSlotShared
  /\ UNCHANGED <<scale, slotsNum, filled>>

Next ==
  \/ AddSlots \/ Allocated
  \/ \E k \in 1 .. MaxMasters : Scale(k)
  \/ SkipMaster \/ EnterMaster \/ TakeSlot \/ StopTaking \/ Collected
  \/ Migrate \/ MigrateAgain

Spec == Init /\ [][Next]_vars

-----------------------------------------------------------------------------
\* Every variable has its type.
TypeOK ==
  /\ phase \in {"alloc", "ready", "plan", "move"}
  /\ order \in [1 .. MaxMasters -> 1 .. MaxMasters]
  /\ n \in 1 .. MaxMasters /\ old \in 0 .. n - 1
  /\ owner \in [Slots -> 0 .. MaxMasters] /\ known \in [Slots -> 0 .. MaxMasters]
  /\ attempt \in 1 .. Retry + 1
  /\ slotsNum \in [1 .. MaxMasters -> -TotalSlots .. TotalSlots]
  /\ filled \in [1 .. MaxMasters -> 0 .. TotalSlots]
  /\ mi \in 1 .. n + 1
  /\ at \in Slots \cup {-1}
  /\ empIdx \in 1 .. Len(empty) + 1 /\ ToSet(empty) \subseteq 1 .. n
  /\ tasks \in Seq([slot : Slots, from : 1 .. n, to : 1 .. n])

\* assignSlotsToMasters gives out every slot, and each master the number of slots
\* that checkSlotCounts will wait for.
AllocationVerifies ==
  phase = "ready" /\ old = 0 =>
    /\ \A s \in Slots : owner[s] # 0
    /\ \A i \in 1 .. n : calculateSlots(masterIDs[i]) = expectedSlots(i)

\* No slot is planned twice, every task is for a master that had no slot, and at
\* the first attempt it takes the slot from its owner (collectTasksFromMaster).
PlannedOnce ==
  phase \in {"plan", "move"} =>
    /\ IsInjective([i \in DOMAIN tasks |-> tasks[i].slot])
    /\ \A i \in DOMAIN tasks :
         /\ tasks[i].to \in ToSet(empty) /\ known[tasks[i].slot] = tasks[i].from
         /\ attempt = 1 => owner[tasks[i].slot] = tasks[i].from

\* A scale gives every new master its share, however many scales came before and
\* however the slots are spread over ranges: what the others have above the share
\* is always enough.  It is exact, unless migrate-slots is retried: the second
\* plan, made from ranges read before the first and with the counts that one
\* left, takes nothing back, but may add to the first of topo.empty.
ScaleFillsNewMasters ==
  phase = "ready" /\ old > 0 =>
    \A m \in ToSet(empty) \cup (old + 1 .. n) :
      calculateSlots(m) = newV \/ (attempt > 1 /\ calculateSlots(m) > newV)

\* A master whose slots formed one range, and reached the new share, keeps it,
\* retries included: it gives up no more than it has above it.
SourceKeepsShare ==
  phase = "ready" /\ old > 0 =>
    \A m \in 1 .. old :
      Cardinality(RangeEnds(m)) = 1 /\ Cardinality(KnownSlots(m)) >= newV =>
        calculateSlots(m) >= newV
=============================================================================
