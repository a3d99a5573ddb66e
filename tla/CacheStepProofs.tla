-------------------------- MODULE CacheStepProofs ---------------------------
(***************************************************************************)
(* The steps in which goroutines, messages and nodes meet keep the         *)
(* invariant of CacheGroupProofs: no version is made up, and a migration's *)
(* purge is complete.  CacheSemProofs and CacheFreshProofs go on from      *)
(* here.                                                                   *)
(***************************************************************************)
EXTENDS CacheGroupProofs

-----------------------------------------------------------------------------
(* Steps of several goroutines.                                            *)

\* x is a goroutine as the invariant has it.
Rests(x) ==
  IF x.pc = "free" THEN x = Idle
  ELSE /\ x.node \in Nodes /\ life[x.node] \notin {"down", "start"}
       /\ StandsAt(x) /\ (x.v = -1 \/ Held(x.v))

LEMMA AllRest ==
  ASSUME GroupInv, NEW c \in Calls
  PROVE  Rests(call[c]) /\ call[c] \in Goroutine
BY DEF GroupInv, Shape, Placed, Stands, Active, Rests, Held

\* A step that changes only goroutines, and leaves those that purge alone, keeps
\* the invariant.
LEMMA CallsKeep ==
  ASSUME GroupInv, call' \in [Calls -> Goroutine], \A d \in Calls : Rests(call'[d]),
         \A d \in Calls : call[d].pc = "purge" =>
           call'[d].pc = "purge" /\ call'[d].node = call[d].node,
         UNCHANGED <<db, cached, dirty, marks, tasks, life, env>>, erased' \in Nat
  PROVE  StepOK
<1>1. Shape /\ Placed /\ Stamped /\ PurgeComplete
  BY DEF GroupInv
<1>2. Shape'
  BY <1>1 DEF Shape
<1>3. Placed'
  BY <1>1 DEF Placed, Active, Rests
<1>4. Stands'
  <2>1. StandsAt(Idle)
    BY DEF StandsAt, Idle
  <2>2. \A d \in Calls : StandsAt(call'[d])
    BY <2>1 DEF Rests
  <2> QED
    BY <2>2 DEF Stands, StandsAt
<1>5. Stamped'
  BY <1>1 DEF Stamped
<1>6. PurgeComplete'
  BY <1>1 DEF PurgeComplete, At
<1>7. Sends
  BY NothingSent
<1>8. Sourced
  <2>1. \A d \in Calls : call'[d].v = -1 \/ Held(call'[d].v)
    BY DEF Rests, Idle
  <2> QED
    BY <1>7, <2>1 DEF Sourced, Sends, Held
<1> QED
  BY <1>2, <1>3, <1>4, <1>5, <1>6, <1>7, <1>8 DEF StepOK, Sends

\* A client's call begins.
LEMMA StartKeeps ==
  ASSUME GroupInv, NEW c \in Calls, NEW n \in Nodes, NEW pc \in {"swap", "delete"},
         Start(c, n, pc)
  PROVE  StepOK
<1>1. /\ ~Active(c) /\ UNCHANGED <<db, cached, dirty, marks, tasks, life, env>>
      /\ life[n] \in {"up", "drain"}
  BY DEF Start, Free
<1>2. erased' \in Nat /\ db \in Nat /\ call \in [Calls -> Goroutine]
  BY DEF Start, Forgotten, GroupInv, Shape
<1>3. PICK x \in Goroutine : x = NewCall(n, "client", pc)
  BY <1>2, NewCallType DEF PCs
<1>4. x.pc = pc /\ x.node = n /\ x.caller = "client" /\ x.v = -1 /\ x.todo = <<>>
  BY <1>3 DEF NewCall
<1>5. call' = [call EXCEPT ![c] = x]
  BY <1>3, SMTT(30) DEF Start
<1>6. Rests(x)
  BY <1>1, <1>4 DEF Rests, StandsAt
<1>7. \A d \in Calls : Rests(call'[d])
  BY <1>2, <1>5, <1>6, AllRest
<1>8. call[c].pc = "free"
  BY <1>1 DEF Active
<1>9. /\ call' \in [Calls -> Goroutine]
      /\ \A d \in Calls : call[d].pc = "purge" =>
           call'[d].pc = "purge" /\ call'[d].node = call[d].node
  BY <1>2, <1>5, <1>8, SMTT(30)
<1> QED
  BY <1>1, <1>2, <1>7, <1>9, CallsKeep

\* A remote Get begins at a peer.
LEMMA AskPeerKeeps ==
  ASSUME GroupInv, NEW c \in Calls, NEW d \in Calls, AskPeer(c, d)
  PROVE  StepOK
<1>1. /\ ~Active(d) /\ call[c].pc = "next" /\ call[d].pc = "free"
      /\ UNCHANGED <<db, cached, dirty, marks, tasks, life, env>>
  BY DEF AskPeer, Free, At, Active, bounds
<1>2. erased' \in Nat /\ db \in Nat /\ call \in [Calls -> Goroutine]
  BY DEF AskPeer, GroupInv, Shape
<1>3. PICK k, n : /\ k = call[c].idx + 1 /\ n = Peers(c)[k] /\ life[n] = "up"
                  /\ k <= Len(Peers(c))
                  /\ call' = [call EXCEPT ![c].pc = "wait", ![c].idx = k,
                                          ![d] = NewCall(n, c, "swap")]
  BY Zenon DEF AskPeer
<1>4. k \in Nat \ {0}
  BY <1>2, <1>3 DEF Goroutine
<1>5. n \in Nodes
  BY <1>3, <1>4, CandidatesType, GroupAssumption, SMTT(30) DEF Peers
<1>6. PICK x \in Goroutine : x = NewCall(n, c, "swap")
  BY <1>2, <1>5, NewCallType, SMTT(30) DEF PCs
<1>7. PICK y \in Goroutine : y = [call[c] EXCEPT !.pc = "wait", !.idx = k]
  BY <1>2, <1>4, GoroutineUpdates, Zenon DEF PCs
<1>8. /\ x.pc = "swap" /\ x.node = n /\ x.v = -1 /\ x.todo = <<>>
      /\ y.pc = "wait" /\ y.node = call[c].node /\ y.v = call[c].v
      /\ y.todo = call[c].todo
  BY <1>2, <1>6, <1>7 DEF NewCall, Goroutine
<1>9. call' \in [Calls -> Goroutine] /\ call'[d] = x /\ call'[c] = y
      /\ \A e \in Calls \ {c, d} : call'[e] = call[e]
  BY <1>1, <1>2, <1>3, <1>6, <1>7, SMTT(30)
<1>10. Rests(x) /\ Rests(y)
  <2>1. Rests(call[c])
    BY AllRest
  <2> QED
    BY <1>1, <1>3, <1>5, <1>8, <2>1 DEF Rests, StandsAt
<1>11. \A e \in Calls : Rests(call'[e])
  BY <1>9, <1>10, AllRest
<1>12. \A e \in Calls : call[e].pc = "purge" =>
         call'[e].pc = "purge" /\ call'[e].node = call[e].node
  BY <1>1, <1>9
<1> QED
  BY <1>1, <1>2, <1>9, <1>11, <1>12, CallsKeep, SMTT(30)

\* The caller of a remote Get is told, or is no longer there.
LEMMA OtherCalls ==
  ASSUME GroupInv, NEW d \in Calls
  PROVE  /\ [call[d] EXCEPT !.caller = "gone"] \in Goroutine
         /\ call[d].caller \in Calls => Rests([call[d] EXCEPT !.caller = "gone"])
         /\ [call[d] EXCEPT !.pc = "next"] \in Goroutine
         /\ call[d].pc = "wait" => Rests([call[d] EXCEPT !.pc = "next"])
         /\ [call[d] EXCEPT !.caller = "gone"].pc = call[d].pc
         /\ [call[d] EXCEPT !.caller = "gone"].node = call[d].node
<1>1. call[d] \in Goroutine /\ Rests(call[d])
  BY AllRest, SMTT(30)
<1>2. PICK x \in Goroutine : x = [call[d] EXCEPT !.caller = "gone"]
  BY <1>1, GoroutineUpdates, Zenon
<1>3. PICK y \in Goroutine : y = [call[d] EXCEPT !.pc = "next"]
  BY <1>1, GoroutineUpdates, Zenon DEF PCs
<1>4. /\ x.pc = call[d].pc /\ x.node = call[d].node /\ x.v = call[d].v
      /\ x.todo = call[d].todo
      /\ y.pc = "next" /\ y.node = call[d].node /\ y.v = call[d].v
      /\ y.todo = call[d].todo
  BY <1>1, <1>2, <1>3, SMTT(30) DEF Goroutine
<1>5. call[d].caller \in Calls => Rests(x)
  <2>1. call[d].caller \in Calls => call[d].caller # "client" /\ call[d].caller # "none"
    BY GroupAssumption, SMTT(30)
  <2>2. call[d].caller \in Calls => call[d] # Idle
    BY <2>1, SMTT(30) DEF Idle
  <2> QED
    BY <1>1, <1>4, <2>1, <2>2 DEF Rests, StandsAt
<1>6. call[d].pc = "wait" => Rests(y)
  BY <1>1, <1>4, SMTT(30) DEF Rests, StandsAt
<1> QED
  BY <1>2, <1>3, <1>4, <1>5, <1>6

LEMMA TimeoutKeeps ==
  ASSUME GroupInv, NEW c \in Calls, Timeout(c)
  PROVE  StepOK
<1>1. /\ call[c].pc = "wait" /\ UNCHANGED <<db, cached, dirty, marks, tasks, life, env>>
      /\ erased' \in Nat
  BY SMTT(30) DEF Timeout, At, bounds, GroupInv, Shape
<1>2. ASSUME NEW d \in Calls
      PROVE  /\ call'[d] \in Goroutine /\ Rests(call'[d])
             /\ call[d].pc = "purge" => call'[d].pc = "purge" /\ call'[d].node = call[d].node
  <2>1. CASE d = c
    <3>1. call'[d] = [call[d] EXCEPT !.pc = "next"]
      BY <2>1 DEF Timeout
    <3> QED
      BY <1>1, <2>1, <3>1, OtherCalls, Zenon
  <2>2. CASE d # c /\ call[d].caller = c
    <3>1. call'[d] = [call[d] EXCEPT !.caller = "gone"]
      BY <2>2 DEF Timeout
    <3> QED
      BY <2>2, <3>1, OtherCalls, Zenon
  <2>3. CASE d # c /\ call[d].caller # c
    <3>1. call'[d] = call[d]
      BY <2>3 DEF Timeout
    <3> QED
      BY <3>1, AllRest
  <2> QED
    BY <2>1, <2>2, <2>3
<1>3. call' \in [Calls -> Goroutine]
  BY <1>2 DEF Timeout
<1> QED
  BY <1>1, <1>2, <1>3, CallsKeep

\* A goroutine ends, with an answer or with an error.
LEMMA ReturnKeeps ==
  ASSUME GroupInv, NEW c \in Calls, NEW ok \in BOOLEAN, Return(c, ok),
         ok => call[c].v # -1 \/ call[c].caller = "client", call[c].pc # "purge",
         UNCHANGED <<db, cached, dirty, marks, tasks, life, env, erased>>
  PROVE  StepOK
<1>1. ASSUME NEW d \in Calls
      PROVE  /\ call'[d] \in Goroutine /\ Rests(call'[d])
             /\ call[d].pc = "purge" => call'[d].pc = "purge" /\ call'[d].node = call[d].node
  <2>1. CASE d = c
    <3>1. call'[d] = Idle
      BY <2>1, Zenon DEF Return
    <3> QED
      BY <2>1, <3>1, IdleType, SMTT(30) DEF Rests, Idle
  <2>2. CASE d # c /\ d = call[c].caller /\ call[d].pc = "wait"
    <3>1. PICK pc \in PCs : pc = IF ok THEN "fetched" ELSE "next"
      BY SMTT(30) DEF PCs
    <3>2. call'[d] = [call[d] EXCEPT !.pc = pc, !.v = call[c].v]
      BY <2>2, <3>1, Zenon DEF Return
    <3>3. /\ call[c] \in Goroutine /\ call[d] \in Goroutine /\ call[c].v \in Int
          /\ Rests(call[d]) /\ (call[c].v = -1 \/ Held(call[c].v))
      BY AllRest DEF Goroutine, Held
    <3>4. call'[d] \in Goroutine
      <4>1. PICK b \in Int : b = call[c].v
        BY <3>3, SMTT(30)
      <4>2. [call[d] EXCEPT !.pc = pc, !.v = b] \in Goroutine
        BY <3>3, GoroutineUpdates, Zenon
      <4> QED
        BY <3>2, <4>1, <4>2, SMTT(30)
    <3>5. /\ call'[d].pc = pc /\ call'[d].v = call[c].v /\ call'[d].node = call[d].node
          /\ call'[d].todo = call[d].todo
      BY <3>2, <3>3, SMTT(30) DEF Goroutine
    <3>6. ok => call[c].v # -1
      BY <2>2, GroupAssumption, SMTT(30)
    <3>7. Rests(call'[d])
      BY <2>2, <3>1, <3>3, <3>5, <3>6, Zenon DEF Rests, StandsAt
    <3> QED
      BY <2>2, <3>4, <3>7
  <2>3. CASE d # c /\ ~(d = call[c].caller /\ call[d].pc = "wait") /\ call[d].caller = c
    <3>1. call'[d] = [call[d] EXCEPT !.caller = "gone"]
      BY <2>3, Zenon DEF Return
    <3> QED
      BY <2>3, <3>1, OtherCalls, Zenon
  <2>4. CASE d # c /\ ~(d = call[c].caller /\ call[d].pc = "wait") /\ call[d].caller # c
    <3>1. call'[d] = call[d]
      BY <2>4, Zenon DEF Return
    <3> QED
      BY <3>1, AllRest, SMTT(30)
  <2> QED
    BY <2>1, <2>2, <2>3, <2>4, SMTT(30)
<1>2. call' \in [Calls -> Goroutine]
  BY <1>1, Zenon DEF Return
<1>3. erased' \in Nat
  BY DEF GroupInv, Shape
<1> QED
  BY <1>1, <1>2, <1>3, CallsKeep, SMTT(30)

LEMMA AnswerKeeps ==
  ASSUME GroupInv, NEW c \in Calls, Answer(c) \/ AnswerError(c)
  PROVE  StepOK
<1>1. UNCHANGED <<db, cached, dirty, marks, tasks, life, env, erased>>
  BY Zenon DEF Answer, AnswerError, bounds
<1>2. CASE Answer(c)
  <2>1. StandsAt(call[c]) /\ Return(c, TRUE) /\ call[c].pc \in {"return", "send"}
    BY <1>2, Zenon DEF GroupInv, Stands, Answer, Returning, At
  <2> QED
    BY <1>1, <2>1, ReturnKeeps, Zenon DEF StandsAt
<1>3. CASE AnswerError(c)
  BY <1>1, <1>3, ReturnKeeps, Zenon DEF AnswerError, At
<1> QED
  BY <1>2, <1>3

-----------------------------------------------------------------------------
(* Steps of tasks, of the source and of nodes.                             *)

\* Tasks that come from tasks, with no more places taken.
LEMMA FewerTasks ==
  ASSUME GroupInv, Counted(tasks'),
         \A u \in DOMAIN tasks' :
           /\ u \in Task
           /\ u.sem => u \in DOMAIN tasks /\ tasks'[u] <= tasks[u]
           /\ u.kind = "push" => \E w \in DOMAIN tasks : w.kind = "push" /\ w.v = u.v
  PROVE  Sends
<1>1. \A u \in DOMAIN tasks' : u.kind = "push" => Held(u.v)
  BY DEF Held
<1> QED
  BY <1>1 DEF Sends, Places

\* Steps that change caches and tasks: an entry goes, or a version that is held is
\* put into a cache that runs.
LEMMA CachesKeep ==
  ASSUME GroupInv, Sends, cached' \in [Nodes -> [v : Int, epoch : Int]],
         \A m \in Nodes :
           \/ cached'[m] = cached[m] \/ cached'[m] = NoEntry
           \/ /\ life[m] \notin {"down", "start"} /\ Held(cached'[m].v)
              /\ cached'[m].epoch = marks[m],
         UNCHANGED <<db, dirty, marks, call, life, env>>, erased' \in Nat
  PROVE  StepOK
<1>1. Shape /\ Placed /\ Stands /\ Stamped /\ PurgeComplete
  BY SMTT(30) DEF GroupInv
<1>2. Shape'
  BY <1>1 DEF Shape, Sends
<1>3. Placed'
  BY <1>1, SMTT(30) DEF Placed, Active
<1>4. Stands'
  BY <1>1 DEF Stands, StandsAt
<1>5. \A m \in Nodes : marks[m] \in Nat
  BY <1>1, SMTT(30) DEF Shape
<1>6. Stamped'
  BY <1>1, <1>5, SMTT(30) DEF Stamped, NoEntry
<1>7. PurgeComplete'
  BY <1>1, <1>5, SMTT(30) DEF PurgeComplete, At, NoEntry
<1>8. Sourced
  BY SMTT(30) DEF Sourced, Sends, Held, NoEntry
<1> QED
  BY <1>2, <1>3, <1>4, <1>6, <1>7, <1>8, SMTT(30) DEF StepOK, Sends

LEMMA DeliverKeeps ==
  ASSUME GroupInv, NEW t \in DOMAIN tasks, Deliver(t)
  PROVE  StepOK
<1>1. /\ UNCHANGED <<db, dirty, marks, call, life, env>> /\ erased' \in Nat
      /\ Counted(tasks) /\ DOMAIN tasks \subseteq Task /\ t \in Task
      /\ cached \in [Nodes -> [v : Int, epoch : Int]] /\ marks \in [Nodes -> Nat]
  BY Zenon DEF Deliver, bounds, GroupInv, Shape
<1>2. tasks' = Without(tasks, t) /\ life[t.to] = "up"
  BY DEF Deliver
<1>3. /\ Counted(tasks') /\ DOMAIN tasks' \subseteq DOMAIN tasks
      /\ \A u \in DOMAIN tasks' : tasks'[u] <= tasks[u]
  <2>1. PICK rest : rest = Without(tasks, t)
    OBVIOUS
  <2>2. /\ Counted(rest) /\ DOMAIN rest \subseteq DOMAIN tasks
        /\ \A u \in DOMAIN rest : rest[u] <= tasks[u]
    BY <1>1, <2>1, OneFewer
  <2>3. tasks' = rest
    BY <1>2, <2>1, Zenon
  <2> QED
    BY <2>2, <2>3, Zenon
<1>4. Sends
  BY <1>1, <1>3, FewerTasks, SMTT(30)
<1>5. t.to \in Nodes /\ t.v \in Int /\ (t.kind = "push" => Held(t.v))
  BY <1>1 DEF Task, Held
<1>6. PICK n \in Nodes : n = t.to /\ life[n] = "up"
  BY <1>2, <1>5, SMTT(30)
<1>7. /\ cached' \in [Nodes -> [v : Int, epoch : Int]]
      /\ \A m \in Nodes : m # n => cached'[m] = cached[m]
      /\ \/ cached'[n] = NoEntry
         \/ t.kind = "push" /\ cached'[n].v = t.v /\ cached'[n].epoch = marks[n]
  BY <1>1, <1>5, <1>6 DEF Deliver, Entry, NoEntry
<1> QED
  BY <1>1, <1>4, <1>5, <1>6, <1>7, CachesKeep, SMTT(30)

LEMMA GiveUpKeeps ==
  ASSUME GroupInv, NEW t \in DOMAIN tasks, GiveUp(t)
  PROVE  StepOK
<1>1. /\ UNCHANGED <<db, cached, dirty, marks, call, life, env>> /\ erased' \in Nat
      /\ Counted(tasks) /\ DOMAIN tasks \subseteq Task /\ t \in Task
      /\ cached \in [Nodes -> [v : Int, epoch : Int]]
  BY DEF GiveUp, bounds, GroupInv, Shape
<1>2. PICK rest : rest = Without(tasks, t)
  OBVIOUS
<1>3. /\ Counted(rest) /\ DOMAIN rest \subseteq DOMAIN tasks
      /\ \A u \in DOMAIN rest : rest[u] <= tasks[u]
  BY <1>1, <1>2, OneFewer, SMTT(30)
<1>4. CASE tasks' = rest
  BY <1>1, <1>3, <1>4, FewerTasks, CachesKeep, SMTT(30)
<1>5. CASE tasks' = With(rest, [t EXCEPT !.sem = FALSE])
  <2>1. PICK w \in Task : /\ w = [t EXCEPT !.sem = FALSE]
                          /\ w.kind = t.kind /\ w.v = t.v /\ w.sem = FALSE
    <3>1. /\ [t EXCEPT !.sem = FALSE] \in Task /\ [t EXCEPT !.sem = FALSE].kind = t.kind
          /\ [t EXCEPT !.sem = FALSE].v = t.v /\ [t EXCEPT !.sem = FALSE].sem = FALSE
      BY <1>1, Zenon DEF Task
    <3> QED
      BY <3>1, Zenon
  <2>2. /\ Counted(tasks') /\ DOMAIN tasks' = DOMAIN rest \cup {w}
        /\ \A u \in DOMAIN rest : u # w => tasks'[u] = rest[u]
    <3>1. PICK C : C = With(rest, w)
      OBVIOUS
    <3>2. /\ Counted(C) /\ DOMAIN C = DOMAIN rest \cup {w}
          /\ \A u \in DOMAIN rest : u # w => C[u] = rest[u]
      <4>1. Counted(rest)
        BY <1>3
      <4>2. /\ Counted(With(rest, w))
            /\ DOMAIN With(rest, w) = DOMAIN rest \cup {w}
            /\ \A u \in DOMAIN rest : u # w => With(rest, w)[u] = rest[u]
        BY <4>1, AddCopy, Zenon
      <4> QED
        BY <3>1, <4>2, Zenon
    <3>3. tasks' = C
      BY <1>5, <2>1, <3>1, Zenon
    <3> QED
      BY <3>2, <3>3, Zenon
  <2>3. Sends
    BY <1>1, <1>3, <2>1, <2>2, FewerTasks, Zenon
  <2> QED
    BY <1>1, <2>3, CachesKeep
<1> QED
  BY <1>2, <1>4, <1>5 DEF GiveUp

\* The LRU evicts, the source changes, slots migrate.
LEMMA EvictKeeps ==
  ASSUME GroupInv, NEW n \in Nodes, Evict(n)
  PROVE  StepOK
<1>1. /\ UNCHANGED <<db, dirty, marks, call, life, env, tasks>> /\ erased' \in Nat
      /\ cached \in [Nodes -> [v : Int, epoch : Int]]
  BY DEF Evict, bounds, GroupInv, Shape
<1>2. /\ cached' \in [Nodes -> [v : Int, epoch : Int]]
      /\ \A m \in Nodes : cached'[m] = cached[m] \/ cached'[m] = NoEntry
  BY <1>1 DEF Evict, NoEntry
<1> QED
  BY <1>1, <1>2, NothingSent, CachesKeep

LEMMA WriteSourceKeeps ==
  ASSUME GroupInv, WriteSource
  PROVE  StepOK
<1>1. /\ UNCHANGED <<cached, dirty, marks, call, tasks, life, erased, env>>
      /\ db' = db + 1 /\ db < MaxWrites
  BY DEF WriteSource, bounds
<1>2. Shape /\ Placed /\ Stands /\ Stamped /\ PurgeComplete
  BY DEF GroupInv
<1>3. Shape'
  BY <1>1, <1>2, GroupAssumption, SMTT(30) DEF Shape
<1>4. Placed' /\ Stands'
  BY <1>1, <1>2, SMTT(30) DEF Placed, Active, Stands, StandsAt
<1>5. Stamped' /\ PurgeComplete'
  BY <1>1, <1>2, SMTT(30) DEF Stamped, PurgeComplete, At
<1>6. Places
  BY <1>1, NothingSent, SMTT(30) DEF Sends
<1>7. Sourced
  BY <1>1 DEF Sourced, Held
<1> QED
  BY <1>3, <1>4, <1>5, <1>6, <1>7 DEF StepOK

LEMMA MarkKeeps ==
  ASSUME GroupInv, NEW n \in Nodes, MarkSlotMigrated(n)
  PROVE  StepOK
<1>1. /\ UNCHANGED <<db, cached, call, tasks, life, erased, env>>
      /\ marks' = [marks EXCEPT ![n] = @ + 1] /\ dirty' = [dirty EXCEPT ![n] = TRUE]
  BY DEF MarkSlotMigrated, bounds
<1>2. Shape /\ Placed /\ Stands /\ Stamped /\ PurgeComplete
  BY DEF GroupInv
<1>3. Shape'
  BY <1>1, <1>2, SMTT(30) DEF Shape
<1>4. Placed' /\ Stands'
  BY <1>1, <1>2, Zenon DEF Placed, Active, Stands, StandsAt
<1>5. /\ marks \in [Nodes -> Nat] /\ dirty \in [Nodes -> BOOLEAN]
      /\ cached \in [Nodes -> [v : Int, epoch : Int]]
  BY <1>2 DEF Shape
<1>6. Stamped'
  BY <1>1, <1>2, <1>5, SMTT(30) DEF Stamped
<1>7. PurgeComplete'
  BY <1>1, <1>2, <1>5, SMTT(30) DEF PurgeComplete, At
<1>8. Places
  BY <1>1, NothingSent, SMTT(30) DEF Sends
<1>9. Sourced
  BY <1>1 DEF Sourced, Held
<1> QED
  BY <1>3, <1>4, <1>6, <1>7, <1>8, <1>9, SMTT(30) DEF StepOK

\* Run goes on, on a node.
LEMMA LifeKeeps ==
  ASSUME GroupInv, NEW n \in Nodes, NEW at \in {"start", "up", "drain", "close"},
         life' = [life EXCEPT ![n] = at], at = "start" => life[n] = "down",
         UNCHANGED <<db, cached, dirty, marks, call, tasks, env, erased>>
  PROVE  StepOK
<1>1. Shape /\ Placed /\ Stands /\ Stamped /\ PurgeComplete
  BY DEF GroupInv
<1>2. Shape'
  BY <1>1, SMTT(30) DEF Shape
<1>3. Placed'
  <2>1. life \in [Nodes -> {"start", "up", "drain", "close", "down"}]
    BY <1>1, SMTT(30) DEF Shape
  <2> QED
    BY <1>1, <2>1 DEF Placed, Active
<1>4. Stands' /\ Stamped' /\ PurgeComplete'
  BY <1>1, Zenon DEF Stands, StandsAt, Stamped, PurgeComplete, At
<1>5. Places
  BY NothingSent DEF Sends
<1>6. Sourced
  BY DEF Sourced, Held
<1> QED
  BY <1>2, <1>3, <1>4, <1>5, <1>6, SMTT(30) DEF StepOK

\* The tasks of a node that ends: some of what it sent may still arrive.
LEMMA EndSends ==
  ASSUME GroupInv, NEW n \in Nodes, End(n)
  PROVE  Sends
<1>1. Counted(tasks) /\ DOMAIN tasks \subseteq Task
  BY DEF GroupInv, Shape
<1>2. PICK kept, S :
               /\ kept \in SUBSET {t \in DOMAIN tasks : t.from = n}
               /\ S = {[t EXCEPT !.sem = FALSE] : t \in kept}
               /\ tasks' = [t \in (DOMAIN tasks \ {u \in DOMAIN tasks : u.from = n}) \cup S |->
                             IF t \in S THEN 1 ELSE tasks[t]]
  BY Zenon DEF End
<1>3. \A w \in S : /\ w \in Task /\ w.sem = FALSE
                   /\ \E t \in DOMAIN tasks : w.kind = t.kind /\ w.v = t.v
  <2>1. SUFFICES ASSUME NEW w \in S
                 PROVE  /\ w \in Task /\ w.sem = FALSE
                        /\ \E t \in DOMAIN tasks : w.kind = t.kind /\ w.v = t.v
    BY Zenon
  <2>2. PICK t \in kept : w = [t EXCEPT !.sem = FALSE]
    BY <1>2, <2>1, Zenon
  <2>3. t \in DOMAIN tasks /\ t \in Task
    BY <1>1, <1>2
  <2>4. w \in Task /\ w.sem = FALSE /\ w.kind = t.kind /\ w.v = t.v
    BY <2>2, <2>3, Zenon DEF Task
  <2> QED
    BY <2>3, <2>4
<1>4. \A u \in DOMAIN tasks : tasks[u] \in Nat \ {0}
  BY <1>1 DEF Counted
<1>5. \A u \in DOMAIN tasks' :
        \/ u \in S /\ tasks'[u] = 1
        \/ u \notin S /\ u \in DOMAIN tasks /\ tasks'[u] = tasks[u]
  BY <1>2
<1>6. Counted(tasks')
  <2>1. PICK C : C = tasks'
    OBVIOUS
  <2>2. \A u \in DOMAIN C : C[u] \in Nat \ {0}
    BY <1>4, <1>5, <2>1
  <2>3. C \in [DOMAIN C -> Nat \ {0}]
    BY <1>2, <2>1, <2>2, Zenon
  <2>4. Counted(C)
    BY <2>3 DEF Counted
  <2> QED
    BY <2>1, <2>4, Zenon
<1>7. ASSUME NEW u \in DOMAIN tasks'
      PROVE  /\ u \in Task
             /\ u.sem => u \in DOMAIN tasks /\ tasks'[u] <= tasks[u]
             /\ u.kind = "push" => \E w \in DOMAIN tasks : w.kind = "push" /\ w.v = u.v
  BY <1>1, <1>3, <1>4, <1>5
<1> QED
  BY <1>6, <1>7, FewerTasks

\* A node ends: its goroutines and its cache are gone.
LEMMA EndKeeps ==
  ASSUME GroupInv, NEW n \in Nodes, End(n)
  PROVE  StepOK
<1>1. Shape /\ Placed /\ Stands /\ Stamped /\ PurgeComplete
  BY DEF GroupInv
<1>2. /\ UNCHANGED <<db, marks, env>> /\ erased' \in Nat
      /\ life' = [life EXCEPT ![n] = "down"] /\ cached' = [cached EXCEPT ![n] = NoEntry]
      /\ dirty' = [dirty EXCEPT ![n] = FALSE]
  BY <1>1 DEF End, Forgotten, Shape
<1>3. Sends
  BY EndSends
<1>4. /\ cached \in [Nodes -> [v : Int, epoch : Int]] /\ dirty \in [Nodes -> BOOLEAN]
      /\ marks \in [Nodes -> Nat] /\ NoEntry \in [v : Int, epoch : Int]
      /\ life \in [Nodes -> {"start", "up", "drain", "close", "down"}]
  BY <1>1, SMTT(30) DEF Shape, NoEntry
<1>5. ASSUME NEW c \in Calls
      PROVE  /\ call'[c] \in Goroutine /\ Rests(call'[c])
             /\ call'[c].pc # "free" => call'[c].node = call[c].node /\ call[c].node # n
             /\ call[c].pc = "purge" /\ call[c].node # n =>
                  call'[c].pc = "purge" /\ call'[c].node = call[c].node
  <2>1. call[c] \in Goroutine /\ Rests(call[c])
    BY AllRest, SMTT(30)
  <2>2. CASE call[c].node = n
    <3>1. call'[c] = Idle
      BY <2>2 DEF End
    <3>2. Idle.pc = "free" /\ Rests(Idle)
      BY Zenon DEF Rests, Idle
    <3> QED
      BY <2>2, <3>1, <3>2, IdleType, Zenon
  <2>3. CASE call[c].node # n /\ \E d \in Calls : call[d].node = n /\ Serves(d, c)
    <3>1. call'[c] = [call[c] EXCEPT !.pc = "next"] /\ call[c].pc = "wait"
      BY <2>3 DEF End, Serves, At
    <3>2. [call[c] EXCEPT !.pc = "next"].node = call[c].node
      BY <2>1 DEF Goroutine
    <3> QED
      BY <2>3, <3>1, <3>2, OtherCalls, Zenon
  <2>4. CASE /\ call[c].node # n /\ ~ \E d \in Calls : call[d].node = n /\ Serves(d, c)
             /\ \E d \in Calls : call[d].node = n /\ call[c].caller = d
    <3>1. call'[c] = [call[c] EXCEPT !.caller = "gone"] /\ call[c].caller \in Calls
      BY <2>4, SMTT(30) DEF End
    <3> QED
      BY <2>4, <3>1, OtherCalls, Zenon
  <2>5. CASE /\ call[c].node # n /\ ~ \E d \in Calls : call[d].node = n /\ Serves(d, c)
             /\ ~ \E d \in Calls : call[d].node = n /\ call[c].caller = d
    <3>1. call'[c] = call[c]
      BY <2>5 DEF End
    <3> QED
      BY <2>1, <2>5, <3>1
  <2> QED
    BY <2>2, <2>3, <2>4, <2>5, Zenon
<1>6. call' \in [Calls -> Goroutine]
  BY <1>5, SMTT(30) DEF End
<1>7. Shape'
  BY <1>1, <1>2, <1>3, <1>4, <1>6, Zenon DEF Shape, Sends
<1>8. Placed'
  BY <1>1, <1>2, <1>4, <1>5, SMTT(30) DEF Placed, Active, Rests
<1>9. Stands'
  <2>1. StandsAt(Idle)
    BY SMTT(30) DEF StandsAt, Idle
  <2>2. \A d \in Calls : StandsAt(call'[d])
    BY <1>5, <2>1, SMTT(30) DEF Rests
  <2> QED
    BY <2>2 DEF Stands, StandsAt
<1>10. Stamped'
  BY <1>1, <1>2, <1>4, SMTT(30) DEF Stamped
<1>11. PurgeComplete'
  <2>1. SUFFICES ASSUME NEW m \in Nodes, cached'[m] # NoEntry, cached'[m].epoch < marks[m]
                 PROVE  dirty'[m] \/ \E d \in Calls : call'[d].node = m /\ call'[d].pc = "purge"
    BY <1>2 DEF PurgeComplete, At, NoEntry
  <2>2. m # n /\ cached'[m] = cached[m] /\ dirty'[m] = dirty[m]
    BY <1>2, <1>4, <2>1, Zenon
  <2>3. dirty[m] \/ \E d \in Calls : call[d].node = m /\ call[d].pc = "purge"
    BY <1>1, <2>1, <2>2, SMTT(30) DEF PurgeComplete, At
  <2> QED
    BY <1>5, <2>2, <2>3, SMTT(30)
<1>12. Sourced
  <2>1. \A d \in Calls : call'[d].v = -1 \/ Held(call'[d].v)
    BY <1>5 DEF Rests, Idle
  <2>2. \A m \in Nodes : cached'[m] = cached[m] \/ cached'[m] = NoEntry
    BY <1>2, <1>4
  <2> QED
    BY <1>2, <1>3, <2>1, <2>2, SMTT(30) DEF Sourced, Sends, Held, NoEntry
<1> QED
  BY <1>3, <1>7, <1>8, <1>9, <1>10, <1>11, <1>12 DEF StepOK, Sends

-----------------------------------------------------------------------------
(* The theorems.                                                           *)

LEMMA GroupInit ==
  ASSUME Init
  PROVE  GroupInv
<1>1. Counted(tasks) /\ DOMAIN tasks = {}
  BY DEF Init, NoTasks, Counted
<1>2. Shape
  <2>1. call \in [Calls -> Goroutine]
    BY IdleType, SMTT(30) DEF Init
  <2> QED
    BY <1>1, <2>1, GroupAssumption DEF Init, Shape, NoEntry
<1>3. Placed /\ Stands /\ Stamped /\ PurgeComplete
  BY SMTT(30) DEF Init, Placed, Stands, StandsAt, Stamped, PurgeComplete, Active, Idle
<1>4. Known
  BY <1>1 DEF Init, Known, Held, Idle
<1> QED
  BY <1>2, <1>3, <1>4 DEF GroupInv

\* Every step keeps the invariant, and versions come from the source only.
LEMMA GroupStep ==
  ASSUME GroupInv, [Next]_vars
  PROVE  StepOK
<1>1. ASSUME NEW c \in Calls, CallStep(c)
      PROVE  StepOK
  <2>1. CASE Swap(c)
    BY <2>1, SwapKeeps
  <2>2. CASE Purge(c)
    BY <2>2, PurgeKeeps
  <2>3. CASE Lookup(c)
    BY <2>3, LookupKeeps
  <2>4. CASE \E d \in Calls : AskPeer(c, d)
    BY <2>4, AskPeerKeeps, SMTT(30)
  <2>5. CASE AskFails(c)
    BY <2>5, AskFailsKeeps
  <2>6. CASE Timeout(c)
    BY <2>6, TimeoutKeeps
  <2>7. CASE Fetched(c)
    BY <2>7, FetchedKeeps
  <2>8. CASE GetterGet(c)
    BY <2>8, GetterGetKeeps
  <2>9. CASE Store(c)
    BY <2>9, StoreKeeps
  <2>10. CASE Delete(c)
    BY <2>10, DeleteKeeps
  <2>11. CASE Send(c)
    BY <2>11, SendKeeps
  <2>12. CASE Answer(c) \/ AnswerError(c)
    BY <2>12, AnswerKeeps
  <2> QED
    BY <1>1, <2>1, <2>2, <2>3, <2>4, <2>5, <2>6, <2>7, <2>8, <2>9, <2>10, <2>11, <2>12, SMTT(30) DEF CallStep
<1>2. ASSUME NEW n \in Nodes, Serve(n) \/ GracefulStop(n) \/ Drain(n) \/ Restart(n)
      PROVE  StepOK
  <2>1. UNCHANGED <<db, cached, dirty, marks, call, tasks, env, erased>>
    BY <1>2, SMTT(30) DEF Serve, GracefulStop, Drain, Restart, bounds
  <2>2. PICK at \in {"start", "up", "drain", "close"} :
          life' = [life EXCEPT ![n] = at] /\ (at = "start" => life[n] = "down")
    BY <1>2 DEF Serve, GracefulStop, Drain, Restart
  <2> QED
    BY <2>1, <2>2, LifeKeeps, Zenon
<1>3. ASSUME NEW n \in Nodes, Exit(n) \/ Crash(n)
      PROVE  StepOK
  BY <1>3, EndKeeps DEF Exit, Crash
<1>4. ASSUME NEW c \in Calls, NEW n \in Nodes, StartGet(c, n) \/ StartDelete(c, n)
      PROVE  StepOK
  BY <1>4, StartKeeps, SMTT(30) DEF StartGet, StartDelete
<1>5. CASE UNCHANGED vars
  <2>1. UNCHANGED <<db, cached, dirty, marks, call, tasks, life, env>> /\ erased' \in Nat
    BY <1>5 DEF vars, bounds, GroupInv, Shape
  <2>2. cached' \in [Nodes -> [v : Int, epoch : Int]]
    BY <2>1 DEF GroupInv, Shape
  <2> QED
    BY <2>1, <2>2, NothingSent, CachesKeep, Zenon
<1> QED
  BY <1>1, <1>2, <1>3, <1>4, <1>5, DeliverKeeps, GiveUpKeeps, MarkKeeps, EvictKeeps,
     WriteSourceKeeps, SMTT(30) DEF Next, Step, TaskStep

LEMMA KnownKept ==
  ASSUME GroupInv, StepOK, db' >= db
  PROVE  Known'
<1>1. db \in Nat /\ db' \in Nat
  BY DEF GroupInv, StepOK, Shape
<1>2. \A x \in Int : Held(x)' => x \in 0 .. db'
  BY <1>1 DEF GroupInv, StepOK, Known, Sourced
<1> QED
  BY <1>2 DEF Known

LEMMA SourceGrows ==
  ASSUME GroupInv, [Next]_vars
  PROVE  db' >= db
<1>1. db \in Nat
  BY SMTT(30) DEF GroupInv, Shape
<1>2. db' = db \/ db' = db + 1
  BY Zenon DEF Next, Step, TaskStep, CallStep, Swap, Purge, Lookup, AskPeer, AskFails, Timeout,
     Fetched, GetterGet, Store, Delete, Send, Answer, AnswerError, Deliver, GiveUp, Serve,
     GracefulStop, Exit, End, StartGet, StartDelete, Start, MarkSlotMigrated, Evict, Drain,
     Crash, Restart, WriteSource, vars
<1> QED
  BY <1>1, <1>2

LEMMA GroupInvHolds == Spec => []GroupInv
<1>1. Init => GroupInv
  BY GroupInit
<1>2. GroupInv /\ [Next]_vars => GroupInv'
  <2>1. SUFFICES ASSUME GroupInv, [Next]_vars
                 PROVE  GroupInv'
    OBVIOUS
  <2>2. StepOK
    BY <2>1, GroupStep
  <2>3. Known'
    BY <2>1, <2>2, KnownKept, SourceGrows
  <2> QED
    BY <2>2, <2>3 DEF GroupInv, StepOK
<1> QED
  BY <1>1, <1>2, PTL DEF Spec

\* An entry cached before a slot migration survives only until somebody sees the
\* flag, whatever goroutines, evictions, restarts and late pushes do in between
\* (geecache.go: Get and markSlotMigrated).
THEOREM PurgeIsComplete == Spec => []PurgeComplete
<1>1. GroupInv => PurgeComplete
  BY DEF GroupInv
<1> QED
  BY <1>1, GroupInvHolds, PTL
=============================================================================
