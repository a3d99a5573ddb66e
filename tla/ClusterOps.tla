----------------------------- MODULE ClusterOps -----------------------------
(***************************************************************************)
(* The three commands of cluster/ops (create, scale, delete) run by the    *)
(* pipeline engine against the world they change: the containers of the    *)
(* backend, the Redis cluster inside them, the runtime config file and the *)
(* records of the SQLite store.  One cluster name; one command at a time.  *)
(*                                                                         *)
(* A container is the number in its name (<cluster>-redis-<n>), and stands *)
(* for its IP address and its Redis node ID too.  Slots are abstracted to  *)
(* the set of nodes that own some and to whether all of them are owned.    *)
(***************************************************************************)
EXTENDS Integers, FiniteSets, Sequences, Functions

CONSTANTS
  Shards,       \* shards asked for by create
  AddShards,    \* shards asked for by scale
  NPS,          \* nodesPerShard
  MaxLaunches,  \* bound on the commands started
  Environments  \* sets of faults: "crash", "step" (a Do fails), "rm" (podman rm
                \* fails), "gossip" (a node has not heard of a new replica),
                \* "handshake" (a node that was met shows its handshake still)

ASSUME OpsAssumption ==
  /\ Shards \in Nat \ {0} /\ AddShards \in Nat \ {0}
  /\ NPS \in Nat \ {0, 1}
  /\ MaxLaunches \in Nat
  /\ Environments \subseteq SUBSET {"crash", "step", "rm", "gossip", "handshake"}

VARIABLES
  pc, pipe, persist, completed, cur, attempt, failedAt, outcome, rows, lost,  \* engine
  containers,  \* running containers
  broken,      \* containers that exist but do not run
  joined,      \* running nodes that have met
  replicas,    \* running nodes made a replica
  slotted,     \* running nodes that own slots
  covered,     \* every slot is owned
  config,      \* "none", "dir": the state directory, "file": the runtime config in it
  db,          \* records of the cluster: shards (0: none) and containers
  nodes,       \* memory: baseNodeManager.Nodes
  topo,        \* memory: clusterTopology.nodes
  temp,        \* memory: the nodes of topo whose ID is the one of a handshake
  masters,     \* memory: clusterTopology.masterIDs
  empty,       \* memory: clusterTopology.empty
  sub,         \* progress inside the Do that is running
  restored,    \* history: the steps New restored
  before,      \* history: the nodes that owned slots at the start
  launches,    \* commands started
  faults       \* the faults of this behaviour

Plan ==
  [create |-> <<"validate", "create-containers", "meet-nodes", "update-topology", "set-roles",
                "alloc-slots", "persist-config", "persist-db", "print-info">>,
   scale  |-> <<"validate", "sync-state", "create-containers", "meet-nodes", "update-topology",
                "set-roles", "migrate-slots", "persist-db">>,
   delete |-> <<"delete-config", "delete-resources", "persist-db", "cleanup-state">>]

\* Of each pipeline, the steps that have an Undo and how often each is retried.
Undos == [create |-> {2, 7, 8}, scale |-> {3}, delete |-> {}]
Retries ==
  [create |-> <<0, 1, 0, 0, 0, 0, 0, 0, 0>>,
   scale  |-> <<0, 0, 1, 0, 0, 0, 1, 0>>,
   delete |-> <<0, 2, 0, 0>>]
Commands == DOMAIN Plan
Lengths == [p \in Commands |-> Len(Plan[p])]

INSTANCE Pipeline WITH
  Pipelines <- Commands, NumSteps <- Lengths, Undoable <- Undos, Retry <- Retries,
  Faults <- {"crash"}

engine == <<pc, pipe, persist, completed, cur, attempt, failedAt, outcome, rows, lost>>
redis == <<joined, replicas, slotted, covered>>
disk == <<config, db>>
memory == <<nodes, topo, temp, masters, empty>>
history == <<restored, before, launches, faults>>
vars == <<engine, containers, broken, redis, disk, memory, sub, history>>

NoRecord == [shards |-> 0, containers |-> {}]
NewPods == (IF pipe = "create" THEN Shards ELSE AddShards) * NPS

Init ==
  /\ EngineInit
  /\ containers = {} /\ broken = {}
  /\ joined = {} /\ replicas = {} /\ slotted = {} /\ covered = FALSE
  /\ config = "none" /\ db = NoRecord
  /\ nodes = <<>> /\ topo = {} /\ temp = {} /\ masters = {} /\ empty = {}
  /\ sub = 0 /\ restored = {} /\ before = {} /\ launches = 0
  /\ faults \in Environments

-----------------------------------------------------------------------------
(* Helpers.                                                                *)

InOrder(S) == [i \in 1 .. Cardinality(S) |-> CHOOSE x \in S : Cardinality({y \in S : y < x}) = i - 1]

At(step) == pc = "do" /\ Plan[pipe][cur] = step

\* The first registered node can be found and answers.
LoginOK == nodes # <<>> /\ nodes[1] \in containers

\* CLUSTER NODES as the login node answers it, restricted to registered nodes.
GetClusterNodes == (IF nodes[1] \in joined THEN joined ELSE {nodes[1]}) \cap Range(nodes)

Destroy(S) ==
  /\ containers' = containers \ S
  /\ broken' = broken \ S
  /\ joined' = joined \ S
  /\ replicas' = replicas \ S
  /\ slotted' = slotted \ S
  /\ covered' = (covered /\ S \cap slotted = {})

\* Mutated form of DeleteAll: containers that do not run are not listed.
DeleteRunning == Destroy(containers)

\* Every container is removed, except those podman rm fails on (only logged).
DeleteAll ==
  \E kept \in IF "rm" \in faults THEN SUBSET (containers \cup broken) ELSE {{}} :
    Destroy((containers \cup broken) \ kept)

\* The memory of a process that has not begun, or has ended.
NoMemory == nodes' = <<>> /\ topo' = {} /\ temp' = {} /\ masters' = {} /\ empty' = {} /\ sub' = 0

\* The process ends: what it knew, and what this run was about, are gone.
Ended == NoMemory /\ restored' = {} /\ before' = {} /\ UNCHANGED <<launches, faults>>

Keep(step, ok) == At(step) /\ Attempt(ok) /\ UNCHANGED <<sub, history>>
-----------------------------------------------------------------------------
(* A command starts.  scale gives up at once without a runtime config.     *)

Launch(p) ==
  /\ launches < MaxLaunches
  /\ p = "scale" => config = "file"
  /\ New(p)
  /\ NoMemory
  /\ restored' = completed'
  /\ before' = slotted
  /\ launches' = launches + 1
  /\ UNCHANGED <<containers, broken, redis, disk, faults>>

CallRun ==
  /\ outcome = "none"
  /\ Run
  /\ UNCHANGED <<containers, broken, redis, disk, memory, sub, history>>

-----------------------------------------------------------------------------
(* validate and sync-state.                                                *)

ListPodsByCluster == nodes' = InOrder(containers)

Validate ==
  /\ Keep("validate", (pipe = "create") <=> (containers = {}))
  /\ ListPodsByCluster
  /\ UNCHANGED <<containers, broken, redis, disk, topo, temp, masters, empty>>

SyncState ==
  /\ Keep("sync-state", LoginOK)
  /\ IF LoginOK
     THEN LET seen == GetClusterNodes IN
            /\ topo' = topo \cup seen
            /\ masters' = seen \ replicas
            /\ empty' = (seen \ replicas) \ slotted
     ELSE UNCHANGED <<topo, masters, empty>>
  /\ UNCHANGED <<containers, broken, redis, disk, nodes, temp>>

-----------------------------------------------------------------------------
(* create-containers (CreatePods): sub counts the containers this call     *)
(* has started; the next one is number Num + 1.                            *)

\* Mutated form of NextPod: numbering starts at Num.
NextPodFromZero == Len(nodes)

NextPod == Len(nodes) + 1

RunPod ==
  /\ At("create-containers")
  /\ sub < NewPods
  /\ NextPod \notin containers \cup broken
  /\ containers' = containers \cup {NextPod}
  /\ nodes' = Append(nodes, NextPod)
  /\ sub' = sub + 1
  /\ UNCHANGED <<engine, broken, redis, disk, topo, temp, masters, empty, history>>

PodsCreated ==
  /\ At("create-containers")
  /\ sub = NewPods
  /\ Attempt(TRUE)
  /\ sub' = 0
  /\ UNCHANGED <<containers, broken, redis, disk, memory, history>>

\* podman run fails: the name is taken, or for a reason of its own, and then it
\* may leave a container behind that does not run.
RunPodFails ==
  /\ At("create-containers")
  /\ sub < NewPods
  /\ \/ NextPod \in containers \cup broken /\ UNCHANGED broken
     \/ "step" \in faults /\ NextPod \notin containers /\ broken' \in {broken, broken \cup {NextPod}}
  /\ Attempt(FALSE)
  /\ sub' = 0
  /\ UNCHANGED <<containers, redis, disk, memory, history>>

\* The container does not become ready in time: the containers of this call are
\* removed (cleanupContainers), their entries in Nodes stay.
PodTimesOut ==
  /\ "step" \in faults
  /\ At("create-containers")
  /\ sub < NewPods
  /\ NextPod \notin containers \cup broken
  /\ Destroy((NextPod - sub) .. NextPod)
  /\ Attempt(FALSE)
  /\ sub' = 0
  /\ UNCHANGED <<disk, memory, history>>

-----------------------------------------------------------------------------
(* meet-nodes: CLUSTER MEET from the login node to every registered node,  *)
(* then wait until each of them counts as many nodes as are registered.    *)

SendMeet ==
  /\ At("meet-nodes")
  /\ sub = 0
  /\ LoginOK
  /\ joined' = joined \cup (Range(nodes) \cap containers)
  /\ sub' = 1
  /\ UNCHANGED <<engine, containers, broken, replicas, slotted, covered, disk, memory, history>>

NoLogin ==
  /\ Keep("meet-nodes", FALSE)
  /\ sub = 0 /\ ~LoginOK
  /\ UNCHANGED <<containers, broken, redis, disk, memory>>

\* Mutated form of MeetSync: nobody waits for the nodes to agree.
MeetNoSync ==
  /\ At("meet-nodes")
  /\ sub = 1
  /\ Attempt(TRUE)
  /\ sub' = 0
  /\ UNCHANGED <<containers, broken, redis, disk, memory, history>>

\* Mutated form of MeetSync: the nodes expected are those known before the meet.
MeetSyncOldCount ==
  /\ At("meet-nodes")
  /\ sub = 1
  /\ Attempt(topo = {} \/ joined = topo)
  /\ sub' = 0
  /\ UNCHANGED <<containers, broken, redis, disk, memory, history>>

MeetSync ==
  /\ At("meet-nodes")
  /\ sub = 1
  /\ Attempt(joined = Range(nodes))
  /\ sub' = 0
  /\ UNCHANGED <<containers, broken, redis, disk, memory, history>>

\* A line of CLUSTER NODES counts as an active node while its handshake lasts
\* (countActiveNodes), so a node may be recorded under the ID of the handshake,
\* which is void once the handshake is over.
UpdateTopology ==
  /\ Keep("update-topology", LoginOK)
  /\ LET new == IF LoginOK THEN GetClusterNodes \ topo ELSE {} IN
       /\ topo' = topo \cup new
       /\ \E early \in IF "handshake" \in faults THEN SUBSET new ELSE {{}} :
            /\ early # {} => nodes[1] \notin early
            /\ temp' = temp \cup early
  /\ UNCHANGED <<containers, broken, redis, disk, nodes, masters, empty>>

-----------------------------------------------------------------------------
(* set-roles.  create: of the nodes sorted by address the first n become   *)
(* masters, the next n * (NPS - 1) their replicas.  scale: among the last  *)
(* registered nodes the first of each NPS becomes a master.                *)

Sorted == InOrder(topo)
NumMasters == Cardinality(topo) \div NPS

\* Mutated form of NewStart: the new nodes are looked for at the head of the list.
NewStartAtHead == IF Len(nodes) < NewPods THEN -1 ELSE 0

NewStart == Len(nodes) - NewPods

NewMasters ==
  IF pipe = "create"
  THEN {Sorted[i] : i \in 1 .. NumMasters}
  ELSE {nodes[NewStart + i] : i \in {j \in 1 .. NewPods : j % NPS = 1}}

NewReplicas ==
  IF pipe = "create"
  THEN {Sorted[i] : i \in NumMasters + 1 .. NumMasters * NPS}
  ELSE {nodes[NewStart + i] : i \in {j \in 1 .. NewPods : j % NPS # 1}}

\* CLUSTER REPLICATE with the ID of a handshake is refused; a node still in its
\* handshake is taken for a replica without a master when the roles are read
\* again.  Either is an error, after some of the commands were executed.
RolesRefused ==
  /\ Keep("set-roles", FALSE)
  /\ temp # {} /\ NewStart >= 0
  /\ \E R \in SUBSET NewReplicas : replicas' = replicas \cup R
  /\ UNCHANGED <<containers, broken, joined, slotted, covered, disk, memory>>

\* SetAllNodeRole: verifyNodeTypeSet compares what each node reports with what
\* was asked for.  With nothing registered and no topology nothing is done.
SetAllNodeRole ==
  /\ pipe = "create"
  /\ NewMasters \cap temp = {}
  /\ Keep("set-roles", nodes = <<>> \/ joined \ (replicas \cup NewReplicas) = NewMasters)
  /\ replicas' = replicas \cup NewReplicas
  /\ masters' = IF nodes = <<>> THEN masters ELSE joined \ replicas'
  /\ UNCHANGED <<containers, broken, joined, slotted, covered, disk, nodes, topo, temp, empty>>

\* The last CLUSTER NODES is read from the first node right after the last
\* CLUSTER REPLICATE: it may still show new replicas as masters.
SetScaleRoles ==
  /\ pipe = "scale"
  /\ NewStart >= 0 /\ NewMasters \cap temp = {}
  /\ Keep("set-roles", NewReplicas \subseteq containers)
  /\ empty' = NewMasters \cap topo
  /\ replicas' = replicas \cup (NewReplicas \cap containers)
  /\ \E stale \in IF "gossip" \in faults THEN SUBSET NewReplicas ELSE {{}} :
       masters' = (joined \ replicas') \cup stale
  /\ UNCHANGED <<containers, broken, joined, slotted, covered, disk, nodes, topo, temp>>

\* A negative index into Nodes: the process panics, nothing is rolled back.
ScalePanics ==
  /\ pipe = "scale"
  /\ At("set-roles")
  /\ NewStart < 0
  /\ Terminate /\ Ended
  /\ UNCHANGED <<containers, broken, redis, disk>>

-----------------------------------------------------------------------------
(* Slots.                                                                  *)

\* Mutated form of AllocateSlots: the remainder of the division is given to nobody.
AllocateSlotsNoRemainder ==
  LET ok == LoginOK /\ masters # {} /\ masters \subseteq topo \ temp /\ slotted = {} IN
    /\ Keep("alloc-slots", ok)
    /\ slotted' = IF ok THEN masters ELSE slotted
    /\ UNCHANGED <<containers, broken, joined, replicas, covered, disk, memory>>

\* ADDSLOTS fails when a slot is busy; the verification after it never does.
AllocateSlots ==
  LET ok == LoginOK /\ masters # {} /\ masters \subseteq topo \ temp /\ slotted = {} IN
    /\ Keep("alloc-slots", ok)
    /\ slotted' = IF ok THEN masters ELSE slotted
    /\ covered' = (ok \/ covered)
    /\ UNCHANGED <<containers, broken, joined, replicas, disk, memory>>

\* Errors of single slots are only logged: the step succeeds all the same.
MigrateSlotsToEmptyNode ==
  /\ Keep("migrate-slots", empty # {} /\ masters # {} /\ LoginOK)
  /\ \E moved \in IF "step" \in faults THEN SUBSET empty ELSE {empty} :
       slotted' = IF slotted = {} \/ masters = {} THEN slotted ELSE slotted \cup moved
  /\ UNCHANGED <<containers, broken, joined, replicas, covered, disk, memory>>

PrintInfo ==
  /\ Keep("print-info", LoginOK)
  /\ UNCHANGED <<containers, broken, redis, disk, memory>>

-----------------------------------------------------------------------------
(* Files and records.                                                      *)

PersistConfig ==
  /\ Keep("persist-config", TRUE)
  /\ config' = "file"
  /\ UNCHANGED <<containers, broken, redis, db, memory>>

RemoveConfig == config' = IF config = "file" THEN "dir" ELSE config

DeleteConfig ==
  /\ Keep("delete-config", TRUE)
  /\ RemoveConfig
  /\ UNCHANGED <<containers, broken, redis, db, memory>>

CleanupState ==
  /\ Keep("cleanup-state", TRUE)
  /\ config' = IF config = "dir" THEN "none" ELSE config
  /\ UNCHANGED <<containers, broken, redis, db, memory>>

DeleteResources ==
  /\ Keep("delete-resources", TRUE)
  /\ DeleteAll
  /\ UNCHANGED <<disk, memory>>

\* persist-db, in three steps: the records are written or deleted, the rows of
\* this very pipeline are deleted, Do returns (and the engine saves the step).
WriteRecords ==
  /\ At("persist-db")
  /\ sub = 0
  /\ db' = CASE pipe = "delete" -> NoRecord
             [] OTHER -> [shards |-> IF pipe = "create" THEN Shards ELSE Cardinality(masters),
                          containers |-> db.containers \cup Range(nodes)]
  /\ sub' = 1
  /\ UNCHANGED <<engine, containers, broken, redis, config, memory, history>>

ClearRows ==
  /\ At("persist-db")
  /\ sub = 1
  /\ DeletePipeline
  /\ sub' = 2
  /\ UNCHANGED <<pc, pipe, persist, completed, cur, attempt, failedAt, outcome>>
  /\ UNCHANGED <<containers, broken, redis, disk, memory, history>>

RecordsWritten ==
  /\ At("persist-db")
  /\ sub = 2
  /\ Attempt(TRUE)
  /\ sub' = 0
  /\ UNCHANGED <<containers, broken, redis, disk, memory, history>>

-----------------------------------------------------------------------------
(* Undo functions.  scale, like create, undoes create-containers with      *)
(* DeleteResources.                                                        *)

UndoCreateContainers ==
  /\ UndoStep
  /\ Plan[pipe][cur] = "create-containers"
  /\ DeleteAll
  /\ UNCHANGED <<disk, memory, sub, history>>

\* Mutated form of UndoPersistConfig: the file stays.
UndoPersistConfigKeepsFile ==
  /\ UndoStep
  /\ Plan[pipe][cur] = "persist-config"
  /\ UNCHANGED <<containers, broken, redis, disk, memory, sub, history>>

UndoPersistConfig ==
  /\ UndoStep
  /\ Plan[pipe][cur] = "persist-config"
  /\ RemoveConfig
  /\ UNCHANGED <<containers, broken, redis, db, memory, sub, history>>

UndoPersistDB ==
  /\ UndoStep
  /\ Plan[pipe][cur] = "persist-db"
  /\ db' = NoRecord
  /\ UNCHANGED <<containers, broken, redis, config, memory, sub, history>>

-----------------------------------------------------------------------------
(* Faults.                                                                 *)

\* What a Do or Undo may leave behind when it is interrupted half way.
Interrupted ==
  \/ UNCHANGED <<containers, broken, redis, config>>
  \/ /\ At("set-roles") /\ NewStart >= 0
     /\ \E R \in SUBSET NewReplicas : replicas' = replicas \cup (R \cap containers)
     /\ UNCHANGED <<containers, broken, joined, slotted, covered, config>>
  \/ /\ At("alloc-slots") /\ LoginOK /\ masters # {} /\ slotted = {}
     /\ slotted' \in SUBSET masters
     /\ covered' = (slotted' = masters)
     /\ UNCHANGED <<containers, broken, joined, replicas, config>>
  \/ /\ At("migrate-slots") /\ slotted # {}
     /\ \E moved \in SUBSET empty : slotted' = slotted \cup moved
     /\ UNCHANGED <<containers, broken, joined, replicas, covered, config>>
  \/ /\ At("persist-config")
     /\ config' \in {"dir", "file"}
     /\ UNCHANGED <<containers, broken, redis>>
  \/ /\ At("delete-resources") \/ (pc = "rollback" /\ cur > 0 /\ Plan[pipe][cur] = "create-containers")
     /\ \E S \in SUBSET (containers \cup broken) : Destroy(S)
     /\ UNCHANGED config

\* A Do returns an error: a command, a connection or a poll fails.  The errors of
\* create-containers are RunPodFails and PodTimesOut; persist-db fails only
\* before it writes; the last check of alloc-slots never fails.
StepFails ==
  /\ "step" \in faults
  /\ pc = "do" /\ Plan[pipe][cur] # "create-containers"
  /\ At("persist-db") => sub = 0
  /\ Attempt(FALSE)
  /\ sub' = 0
  /\ Interrupted
  /\ UNCHANGED <<db, memory, history>>

Die ==
  /\ "crash" \in faults
  /\ Crash /\ Ended
  /\ Interrupted
  /\ UNCHANGED db

Advance == EngineStep /\ UNCHANGED <<containers, broken, redis, disk, memory, sub, history>>

End == Exit /\ Ended /\ UNCHANGED <<containers, broken, redis, disk>>

Next ==
  \/ \E p \in Commands : Launch(p)
  \/ CallRun \/ Advance \/ End
  \/ Validate \/ SyncState
  \/ RunPod \/ PodsCreated \/ RunPodFails \/ PodTimesOut
  \/ SendMeet \/ NoLogin \/ MeetSync \/ UpdateTopology
  \/ SetAllNodeRole \/ SetScaleRoles \/ RolesRefused \/ ScalePanics
  \/ AllocateSlots \/ MigrateSlotsToEmptyNode \/ PrintInfo
  \/ PersistConfig \/ DeleteConfig \/ CleanupState \/ DeleteResources
  \/ WriteRecords \/ ClearRows \/ RecordsWritten
  \/ UndoCreateContainers \/ UndoPersistConfig \/ UndoPersistDB
  \/ StepFails \/ Die

Spec == Init /\ [][Next]_vars

-----------------------------------------------------------------------------
\* Every variable has its type, and what is said of Redis nodes is said of
\* running containers.
TypeOK ==
  /\ EngineTypeOK
  /\ containers \subseteq Nat \ {0} /\ broken \subseteq Nat \ {0}
  /\ containers \cap broken = {}
  /\ joined \subseteq containers
  /\ replicas \subseteq joined /\ slotted \subseteq joined
  /\ covered \in BOOLEAN
  /\ config \in {"none", "dir", "file"}
  /\ DOMAIN db = {"shards", "containers"} /\ db.shards \in Nat
  /\ db.containers \subseteq Nat \ {0}
  /\ nodes \in Seq(Nat \ {0})
  /\ topo \subseteq Range(nodes) /\ temp \subseteq topo /\ masters \subseteq topo /\ empty \subseteq masters
  /\ sub \in Nat /\ launches \in 0 .. MaxLaunches
  /\ restored \subseteq Steps(pipe) /\ before \subseteq Nat \ {0}

Finished(p, result) == pc = "idle" /\ pipe = p /\ outcome = result
Fresh == restored = {}

\* No Do and no podman rm fails by itself.
Dependable == faults \cap {"step", "rm"} = {}

\* A create that started from scratch, met no failure and reports success has
\* built what was asked for, whatever commands and crashes came before: the right number of containers, all in one cluster, one master in
\* NPS owning slots and every slot owned, the config file and the records written
\* (create.go, the nine steps).
FreshCreateComplete ==
  Finished("create", "ok") /\ Fresh /\ Dependable =>
    /\ Cardinality(containers) = Shards * NPS
    /\ joined = containers /\ slotted = joined \ replicas /\ Cardinality(slotted) = Shards
    /\ covered /\ config = "file"
    /\ db.shards = Shards /\ containers \subseteq db.containers

\* A scale that started from scratch on a serving cluster, met no failure and no
\* slow gossip, and reports success has kept every master that owned slots, given slots to the new masters, lost no
\* slot, and recorded the shards and the containers there really are.
FreshScaleComplete ==
  Finished("scale", "ok") /\ Fresh /\ before # {} /\ Dependable /\ "gossip" \notin faults =>
    /\ before \subseteq slotted /\ covered
    /\ Cardinality(slotted) = Cardinality(before) + AddShards
    /\ joined = containers /\ slotted = joined \ replicas
    /\ db.shards = Cardinality(slotted) /\ containers \subseteq db.containers

\* A delete that started from scratch and reports success leaves no container,
\* no file and no record, whatever failed, crashed and was retried before, unless
\* podman rm fails (delete.go).
FreshDeleteComplete ==
  Finished("delete", "ok") /\ Fresh /\ "rm" \notin faults =>
    containers = {} /\ broken = {} /\ config = "none" /\ db = NoRecord

\* A create that fails after its containers were created removes all of them,
\* and the file and the records if it had written them, whatever it was resumed
\* from, unless podman rm fails (the Undos of create.go).
FailedCreateCleansUp ==
  Finished("create", "err") /\ failedAt > 2 /\ "rm" \notin faults =>
    /\ containers = {} /\ broken = {}
    /\ failedAt > 7 => config # "file"
    /\ failedAt > 8 => db = NoRecord

MeetStep == CHOOSE s \in Steps(pipe) : Plan[pipe][s] = "meet-nodes"

\* Once meet-nodes has succeeded in a process that has validated, that process
\* knows exactly the containers that run, and they form one cluster: the later
\* steps configure no node that is gone and miss none, whatever failed, timed out
\* and was retried before (podman.go, CreatePods; manager.go, MeetNodes).
RegistryAccurate ==
  pipe # "delete" /\ pc \in {"loop", "do", "save"} /\ cur > MeetStep /\ 1 \notin restored =>
    Range(nodes) = containers /\ joined = containers

\* Without failures only delete takes slots away from a node that serves them, in
\* any order of commands on one name.
OnlyDeleteStopsServing ==
  [][faults = {} /\ pipe # "delete" => slotted \subseteq slotted']_vars

-----------------------------------------------------------------------------
(* What the documentation and the comments promise.                        *)

\* What docs/05 says of delete: afterwards every container of the cluster is gone.
DeleteRemovesContainers == Finished("delete", "ok") => containers = {}

\* What the comment on scale's Undo says: it deletes only the newly created pods.
ScaleUndoKeepsOldPods == Finished("scale", "err") => before \subseteq containers
=============================================================================
