-------------------------- MODULE CacheGroupProofs --------------------------
(***************************************************************************)
(* The inductive invariant of a GeeCache group, for any number of nodes    *)
(* and goroutines, any owners of the key and any bounds, and that every    *)
(* step a goroutine takes by itself keeps it.  CacheStepProofs goes on.    *)
(***************************************************************************)
EXTENDS CacheGroup, TLAPS

-----------------------------------------------------------------------------
(* The inductive invariant.                                                *)

PCs == {"free", "swap", "purge", "lookup", "next", "wait", "fetched", "store",
        "send", "return", "error", "delete"}
Errand == [kind : {"push", "invalidate"}, to : Nodes]
Goroutine == [pc : PCs, node : Nodes \cup {"none"},
              caller : Calls \cup {"client", "gone", "none"}, idx : Nat, v : Int,
              todo : Seq(Errand), floor : Nat]
Task == [kind : {"push", "invalidate"}, from : Nodes, to : Nodes, v : Int, sem : BOOLEAN]

Shape ==
  /\ db \in 0 .. MaxWrites /\ erased \in Nat /\ env \in Environments
  /\ cached \in [Nodes -> [v : Int, epoch : Int]]
  /\ dirty \in [Nodes -> BOOLEAN] /\ marks \in [Nodes -> Nat]
  /\ call \in [Calls -> Goroutine]
  /\ Counted(tasks) /\ DOMAIN tasks \subseteq Task
  /\ life \in [Nodes -> {"start", "up", "drain", "close", "down"}]

\* A goroutine at work runs on a node that runs; a node that does not run has
\* nothing cached.
Placed ==
  /\ \A c \in Calls : IF Active(c)
                      THEN call[c].node \in Nodes /\ life[call[c].node] \notin {"down", "start"}
                      ELSE call[c] = Idle
  /\ \A n \in Nodes : life[n] \in {"down", "start"} => cached[n] = NoEntry

\* What a goroutine holds where it stands: the answer of a Get is a version, only
\* Send has errands, and a Delete has no version and no caller but the client.
StandsAt(x) ==
  /\ x.pc \in {"store", "fetched", "return"} => x.v # -1
  /\ x.pc # "send" => x.todo = <<>>
  /\ x.pc = "delete" => x.caller = "client" /\ x.v = -1
  /\ x.pc = "send" /\ x.v = -1 =>
       x.caller = "client" /\ \A i \in DOMAIN x.todo : x.todo[i].kind = "invalidate"

Stands == \A c \in Calls : StandsAt(call[c])

\* x is in the source, in a cache, in a goroutine's hands or in a push.
Held(x) ==
  \/ x = db
  \/ \E n \in Nodes : cached[n] # NoEntry /\ cached[n].v = x
  \/ \E c \in Calls : call[c].v # -1 /\ call[c].v = x
  \/ \E t \in DOMAIN tasks : t.kind = "push" /\ t.v = x

Known == \A x \in Int : Held(x) => x \in 0 .. db
Stamped == \A n \in Nodes : cached[n] = NoEntry \/ cached[n].epoch \in 0 .. marks[n]

GroupInv == Shape /\ Placed /\ Stands /\ Known /\ Stamped /\ PurgeComplete

\* What a step makes of the invariant: no version comes from anywhere but the
\* source and those already held, and a task takes a place of the semaphore only
\* when there is one.
Places ==
  \/ \A t \in DOMAIN tasks' : t.sem => t \in DOMAIN tasks /\ tasks'[t] <= tasks[t]
  \/ \E t : tasks' = With(tasks, t) /\ InSem(t.from) < SemCap
Sourced == \A x \in Int : Held(x)' => Held(x) \/ x = db'
StepOK ==
  Shape' /\ Placed' /\ Stands' /\ Stamped' /\ Places /\ PurgeComplete' /\ Sourced

-----------------------------------------------------------------------------
(* Goroutines, candidates and counted tasks.                               *)

\* The fields of a goroutine keep their types when some of them are assigned.
LEMMA GoroutineUpdates ==
  ASSUME NEW x \in Goroutine
  PROVE  /\ [x EXCEPT !.caller = "gone"] \in Goroutine
         /\ \A k \in Nat : [x EXCEPT !.idx = k] \in Goroutine
         /\ \A s \in Seq(Errand) : [x EXCEPT !.todo = s] \in Goroutine
         /\ \A a \in PCs : [x EXCEPT !.pc = a] \in Goroutine
         /\ \A a \in PCs, b \in Int : [x EXCEPT !.pc = a, !.v = b] \in Goroutine
         /\ \A a \in PCs, k \in Nat : [x EXCEPT !.pc = a, !.idx = k] \in Goroutine
         /\ \A a \in PCs, s \in Seq(Errand) : [x EXCEPT !.pc = a, !.todo = s] \in Goroutine
<1>1. ASSUME NEW y \in Goroutine
      PROVE  /\ \A b \in Int : [y EXCEPT !.v = b] \in Goroutine
             /\ \A k \in Nat : [y EXCEPT !.idx = k] \in Goroutine
             /\ \A s \in Seq(Errand) : [y EXCEPT !.todo = s] \in Goroutine
             /\ \A a \in PCs : [y EXCEPT !.pc = a] \in Goroutine
             /\ [y EXCEPT !.caller = "gone"] \in Goroutine
  BY Zenon DEF Goroutine
<1>2. ASSUME NEW a \in PCs
      PROVE  /\ \A b \in Int : [x EXCEPT !.pc = a, !.v = b] \in Goroutine
             /\ \A k \in Nat : [x EXCEPT !.pc = a, !.idx = k] \in Goroutine
             /\ \A s \in Seq(Errand) : [x EXCEPT !.pc = a, !.todo = s] \in Goroutine
  <2>1. PICK y \in Goroutine : y = [x EXCEPT !.pc = a]
    BY <1>1, Zenon
  <2>2. /\ \A b \in Int : [x EXCEPT !.pc = a, !.v = b] = [y EXCEPT !.v = b]
        /\ \A k \in Nat : [x EXCEPT !.pc = a, !.idx = k] = [y EXCEPT !.idx = k]
        /\ \A s \in Seq(Errand) : [x EXCEPT !.pc = a, !.todo = s] = [y EXCEPT !.todo = s]
    BY <2>1
  <2> QED
    BY <1>1, <2>2, Zenon
<1> QED
  BY <1>1, <1>2, Zenon

\* A free goroutine, and a new one on node n.
LEMMA IdleType == Idle \in Goroutine
<1>1. <<>> \in Seq(Errand)
  OBVIOUS
<1> QED
  BY <1>1 DEF Idle, Goroutine, PCs

LEMMA NewCallType ==
  ASSUME NEW n \in Nodes, NEW caller \in Calls \cup {"client"}, NEW pc \in PCs, db \in Nat
  PROVE  NewCall(n, caller, pc) \in Goroutine
<1>1. <<>> \in Seq(Errand)
  OBVIOUS
<1> QED
  BY <1>1 DEF NewCall, Goroutine

\* A function on 1 .. k is a sequence.
LEMMA SeqOf ==
  ASSUME NEW S, NEW k \in Nat, NEW f \in [1 .. k -> S]
  PROVE  f \in Seq(S) /\ Len(f) = k /\ DOMAIN f = 1 .. k
OBVIOUS

\* The candidates of a sequence of nodes are nodes, all but one of them, and have
\* every node but n.
LEMMA CandidatesType ==
  ASSUME NEW s \in Seq(Nodes), NEW n
  PROVE  /\ Candidates(s, n) \in Seq(Nodes) /\ Len(Candidates(s, n)) >= Len(s) - 1
         /\ \A m \in Range(s) \ {n} :
              \E i \in DOMAIN Candidates(s, n) : Candidates(s, n)[i] = m
<1>1. CASE n \in Range(s)
  <2>1. PICK k \in 1 .. Len(s) : k = CHOOSE i \in DOMAIN s : s[i] = n
    BY <1>1 DEF Range
  <2>2. s[k] = n
    BY <1>1, <2>1 DEF Range
  <2>3. PICK l \in Nat : l = Len(s) - 1 /\ DOMAIN s = 1 .. l + 1
    BY <2>1
  <2>4. \A i \in 1 .. l : s[IF i < k THEN i ELSE i + 1] \in Nodes
    BY <2>1, <2>3
  <2>5. PICK f \in [1 .. l -> Nodes] : f = [i \in 1 .. l |-> s[IF i < k THEN i ELSE i + 1]]
    BY <2>4, Zenon
  <2>6. f \in Seq(Nodes) /\ Len(f) = l /\ DOMAIN f = 1 .. l
    BY SeqOf
  <2>7. Candidates(s, n) = f
    BY <1>1, <2>1, <2>3, <2>5, Zenon DEF Candidates
  <2>8. ASSUME NEW m \in Range(s) \ {n}
        PROVE  \E i \in DOMAIN f : f[i] = m
    <3>1. PICK j \in 1 .. l + 1 : s[j] = m /\ j # k
      BY <2>2, <2>3 DEF Range
    <3>2. k \in 1 .. l + 1
      BY <2>1, <2>3
    <3>3. CASE j < k
      <4>1. j \in 1 .. l /\ f[j] = s[j]
        BY <2>5, <3>2, <3>3
      <4> QED
        BY <2>6, <3>1, <4>1, Zenon
    <3>4. CASE ~(j < k)
      <4>1. j - 1 \in 1 .. l /\ ~(j - 1 < k) /\ j - 1 + 1 = j
        BY <3>1, <3>2, <3>4
      <4>2. f[j - 1] = s[j]
        BY <2>5, <4>1
      <4> QED
        BY <2>6, <3>1, <4>1, <4>2, Zenon
    <3> QED
      BY <3>3, <3>4
  <2>9. Len(f) >= Len(s) - 1
    BY <2>3, <2>6
  <2> QED
    BY <2>6, <2>7, <2>8, <2>9, Zenon
<1>2. CASE n \notin Range(s)
  BY <1>2 DEF Range, Candidates
<1> QED
  BY <1>1, <1>2

\* Pushes and invalidations to the nodes of a list.
LEMMA Errands ==
  ASSUME NEW l \in Seq(Nodes)
  PROVE  /\ [i \in DOMAIN l |-> Push(l[i])] \in Seq(Errand)
         /\ [i \in DOMAIN l |-> Invalidation(l[i])] \in Seq(Errand)
<1>1. PICK k \in Nat : DOMAIN l = 1 .. k
  OBVIOUS
<1>2. \A i \in DOMAIN l : Push(l[i]) \in Errand /\ Invalidation(l[i]) \in Errand
  BY DEF Push, Invalidation, Errand
<1>3. /\ [i \in DOMAIN l |-> Push(l[i])] \in [1 .. k -> Errand]
      /\ [i \in DOMAIN l |-> Invalidation(l[i])] \in [1 .. k -> Errand]
  BY <1>1, <1>2, Zenon
<1> QED
  BY <1>1, <1>3, SeqOf, Zenon

\* Delete's list of the other nodes has each of them.
LEMMA AllOthers ==
  ASSUME NEW n
  PROVE  /\ Candidates(Members, n) \in Seq(Nodes)
         /\ \A m \in Nodes \ {n} :
              \E i \in DOMAIN Candidates(Members, n) : Candidates(Members, n)[i] = m
<1>1. Members \in Seq(Nodes) /\ Range(Members) = Nodes
  BY GroupAssumption
<1> QED
  BY <1>1, CandidatesType

\* One goroutine more for a task, and one fewer.
LEMMA AddCopy ==
  ASSUME NEW B, NEW t, Counted(B)
  PROVE  /\ Counted(With(B, t))
         /\ DOMAIN With(B, t) = DOMAIN B \cup {t}
         /\ \A u \in DOMAIN B : u # t => With(B, t)[u] = B[u]
         /\ With(B, t)[t] = IF t \in DOMAIN B THEN B[t] + 1 ELSE 1
<1>1. \A e \in DOMAIN B : B[e] \in Nat \ {0}
  BY DEF Counted
<1>2. PICK C : C = With(B, t)
  OBVIOUS
<1>3. /\ DOMAIN C = DOMAIN B \cup {t} /\ \A u \in DOMAIN B : u # t => C[u] = B[u]
      /\ C[t] = IF t \in DOMAIN B THEN B[t] + 1 ELSE 1
  BY <1>2 DEF With
<1>4. \A e \in DOMAIN C : C[e] \in Nat \ {0}
  BY <1>1, <1>3
<1>5. C \in [DOMAIN C -> Nat \ {0}]
  BY <1>2, <1>4, Zenon DEF With
<1>6. Counted(C)
  BY <1>5 DEF Counted
<1> QED
  BY <1>2, <1>3, <1>6, Zenon

LEMMA RemoveCopy ==
  ASSUME NEW B, NEW t \in DOMAIN B, Counted(B)
  PROVE  /\ Counted(Without(B, t))
         /\ DOMAIN Without(B, t) = IF B[t] = 1 THEN DOMAIN B \ {t} ELSE DOMAIN B
         /\ \A u \in DOMAIN Without(B, t) : Without(B, t)[u] <= B[u]
<1>1. \A e \in DOMAIN B : B[e] \in Nat \ {0}
  BY DEF Counted
<1>2. PICK C : C = Without(B, t)
  OBVIOUS
<1>3. /\ DOMAIN C = IF B[t] = 1 THEN DOMAIN B \ {t} ELSE DOMAIN B
      /\ \A u \in DOMAIN C : C[u] = IF u # t THEN B[u] ELSE B[t] - 1
  BY <1>2 DEF Without
<1>4. \A u \in DOMAIN C : C[u] \in Nat \ {0} /\ C[u] <= B[u]
  BY <1>1, <1>3
<1>5. C \in [DOMAIN C -> Nat \ {0}]
  BY <1>2, <1>4 DEF Without
<1>6. Counted(C)
  BY <1>5 DEF Counted
<1> QED
  BY <1>2, <1>3, <1>4, <1>6, Zenon

LEMMA OneFewer ==
  ASSUME NEW B, NEW t \in DOMAIN B, Counted(B), NEW rest, rest = Without(B, t)
  PROVE  /\ Counted(rest) /\ DOMAIN rest \subseteq DOMAIN B
         /\ \A u \in DOMAIN rest : rest[u] <= B[u]
<1>1. /\ Counted(rest) /\ \A u \in DOMAIN rest : rest[u] <= B[u]
      /\ DOMAIN rest = IF B[t] = 1 THEN DOMAIN B \ {t} ELSE DOMAIN B
  BY RemoveCopy, Zenon
<1> QED
  BY <1>1

-----------------------------------------------------------------------------
(* Steps of one goroutine.                                                 *)

\* Goroutine c moves on to x on its node.
Moves(c, x) ==
  /\ Active(c) /\ x \in Goroutine /\ call' = [call EXCEPT ![c] = x]
  /\ x.pc # "free" /\ x.node = call[c].node /\ StandsAt(x) /\ (x.v = -1 \/ Held(x.v))

\* It leaves its node's cache alone, empties it, or puts its version there.
Fills(c) ==
  \/ cached' = cached
  \/ cached' = [cached EXCEPT ![call[c].node] = NoEntry]
  \/ /\ call[c].v # -1
     /\ cached' = [cached EXCEPT ![call[c].node] = Entry(call[c].node, call[c].v)]

\* The duty to purge stays with the flag or a goroutine, or it is done.
PassesPurge(c, x) ==
  /\ dirty' \in [Nodes -> BOOLEAN]
  /\ \A n \in Nodes : dirty[n] \/ (call[c].node = n /\ call[c].pc = "purge") =>
       dirty'[n] \/ (call[c].node = n /\ x.pc = "purge") \/ cached'[n] = NoEntry

\* Its tasks carry versions that are held, within the semaphore's limit.
Sends ==
  /\ Counted(tasks)' /\ DOMAIN tasks' \subseteq Task /\ Places
  /\ \A t \in DOMAIN tasks' : t.kind = "push" => Held(t.v)

\* A goroutine's step of this form keeps the invariant.
LEMMA MoveSends ==
  ASSUME GroupInv, NEW c \in Calls, NEW x, Moves(c, x), Fills(c), PassesPurge(c, x), Sends,
         UNCHANGED <<db, marks, life, env>>, erased' \in Nat
  PROVE  StepOK
<1>1. Shape /\ Placed /\ Stands /\ Stamped /\ PurgeComplete
  BY DEF GroupInv
<1>2. PICK n \in Nodes : n = call[c].node /\ life[n] \notin {"down", "start"}
  BY <1>1 DEF Placed, Moves
<1>3. /\ call'[c] = x /\ \A d \in Calls : d # c => call'[d] = call[d]
      /\ call' \in [Calls -> Goroutine]
  BY <1>1 DEF Shape, Moves
<1>4. /\ cached' \in [Nodes -> [v : Int, epoch : Int]]
      /\ \A m \in Nodes : m # n => cached'[m] = cached[m]
      /\ \/ cached'[n] = cached[n] \/ cached'[n] = NoEntry
         \/ /\ cached'[n].v = call[c].v /\ call[c].v # -1
            /\ cached'[n].epoch = marks[n]
  <2>1. cached \in [Nodes -> [v : Int, epoch : Int]] /\ marks[n] \in Nat /\ call[c].v \in Int
    BY <1>1, <1>2 DEF Shape, Goroutine
  <2> QED
    BY <1>2, <2>1 DEF Fills, NoEntry, Entry
<1>5. Shape'
  BY <1>1, <1>3, <1>4, SMTT(30) DEF Shape, PassesPurge, Sends
<1>6. Placed'
  BY <1>1, <1>2, <1>3, <1>4, SMTT(30) DEF Placed, Active, Moves
<1>7. Stands'
  <2>1. StandsAt(x)
    BY DEF Moves
  <2> QED
    BY <1>1, <1>3, <2>1 DEF Stands, StandsAt
<1>8. \A m \in Nodes : marks[m] \in Nat
  BY <1>1 DEF Shape
<1>9. Stamped'
  BY <1>1, <1>4, <1>8 DEF Stamped
<1>10. Places
  BY DEF Sends
<1>11. PurgeComplete'
  <2>1. SUFFICES ASSUME NEW m \in Nodes, cached'[m] # NoEntry, cached'[m].epoch < marks[m]
                 PROVE  dirty'[m] \/ \E d \in Calls : call'[d].node = m /\ call'[d].pc = "purge"
    BY DEF PurgeComplete, At, NoEntry
  <2>2. cached'[m] = cached[m]
    BY <1>4, <1>8, <2>1
  <2>3. dirty[m] \/ \E d \in Calls : call[d].node = m /\ call[d].pc = "purge"
    BY <1>1, <2>1, <2>2 DEF PurgeComplete, At
  <2>4. x.node = call[c].node
    BY DEF Moves
  <2> QED
    BY <1>3, <2>1, <2>3, <2>4 DEF PassesPurge
<1>12. Sourced
  <2>1. x.v = -1 \/ Held(x.v)
    BY DEF Moves
  <2> QED
    BY <1>3, <1>4, <2>1 DEF Sourced, Held, NoEntry, Sends
<1> QED
  BY <1>5, <1>6, <1>7, <1>9, <1>10, <1>11, <1>12, SMTT(30) DEF StepOK

LEMMA NothingSent ==
  ASSUME GroupInv, tasks' = tasks
  PROVE  Sends
<1>1. Counted(tasks) /\ DOMAIN tasks \subseteq Task
  BY DEF GroupInv, Shape
<1>2. \A t \in DOMAIN tasks' : t \in DOMAIN tasks /\ tasks'[t] <= tasks[t]
  BY <1>1 DEF Counted
<1> QED
  BY <1>1, <1>2 DEF Sends, Places, Held

LEMMA MoveKeeps ==
  ASSUME GroupInv, NEW c \in Calls, NEW x, Moves(c, x), Fills(c), PassesPurge(c, x),
         UNCHANGED <<db, marks, life, env, tasks>>, erased' \in Nat
  PROVE  StepOK
BY NothingSent, MoveSends

\* The goroutine goes on at pc, with the version it has or with a version b.
LEMMA GotoMoves ==
  ASSUME GroupInv, NEW c \in Calls, Active(c), call[c].pc # "send",
         NEW pc \in PCs \ {"free", "send", "delete"},
         pc \in {"store", "fetched", "return"} => call[c].v # -1, Goto(c, pc)
  PROVE  Moves(c, [call[c] EXCEPT !.pc = pc])
<1>1. call[c] \in Goroutine /\ StandsAt(call[c]) /\ call \in [Calls -> Goroutine]
  BY SMTT(30) DEF GroupInv, Shape, Stands
<1>2. [call[c] EXCEPT !.pc = pc] \in Goroutine
  BY <1>1, GoroutineUpdates, Zenon
<1>3. call[c].v = -1 \/ Held(call[c].v)
  BY DEF Held
<1> QED
  BY <1>1, <1>2, <1>3 DEF Moves, Goto, Goroutine, StandsAt

LEMMA TakesMoves ==
  ASSUME GroupInv, NEW c \in Calls, Active(c), call[c].pc # "send",
         NEW pc \in {"store", "return"}, NEW b \in Int, b # -1, Held(b),
         call' = [call EXCEPT ![c].pc = pc, ![c].v = b]
  PROVE  Moves(c, [call[c] EXCEPT !.pc = pc, !.v = b])
<1>1. call[c] \in Goroutine /\ StandsAt(call[c]) /\ call \in [Calls -> Goroutine]
  BY DEF GroupInv, Shape, Stands
<1>2. pc \in PCs
  BY DEF PCs
<1>3. PICK x \in Goroutine : x = [call[c] EXCEPT !.pc = pc, !.v = b]
  BY <1>1, <1>2, GoroutineUpdates, Zenon
<1>4. call' = [call EXCEPT ![c] = x]
  BY <1>1, <1>3, Zenon
<1>5. x.pc = pc /\ x.v = b /\ x.todo = call[c].todo /\ x.node = call[c].node
  BY <1>1, <1>3 DEF Goroutine
<1> QED
  BY <1>1, <1>3, <1>4, <1>5, Zenon DEF Moves, StandsAt

\* Get: the flag, the purge, the lookup.
LEMMA SwapKeeps ==
  ASSUME GroupInv, NEW c \in Calls, Swap(c)
  PROVE  StepOK
<1>1. PICK pc : pc = IF dirty[call[c].node] THEN "purge" ELSE "lookup"
  OBVIOUS
<1>2. Moves(c, [call[c] EXCEPT !.pc = pc])
  BY <1>1, GotoMoves DEF Swap, Active, At, PCs
<1>3. PassesPurge(c, [call[c] EXCEPT !.pc = pc])
  <2>1. call[c] \in Goroutine /\ dirty \in [Nodes -> BOOLEAN]
    BY DEF GroupInv, Shape
  <2> QED
    BY <1>1, <2>1, Zenon DEF PassesPurge, Swap, At, Goroutine
<1>4. UNCHANGED <<db, marks, life, env, tasks>> /\ erased' \in Nat
  BY DEF Swap, GroupInv, Shape, bounds
<1> QED
  BY <1>2, <1>3, <1>4, MoveKeeps DEF Swap, Fills

LEMMA PurgeKeeps ==
  ASSUME GroupInv, NEW c \in Calls, Purge(c)
  PROVE  StepOK
<1>1. Moves(c, [call[c] EXCEPT !.pc = "lookup"])
  BY GotoMoves DEF Purge, Active, At, PCs
<1>2. PassesPurge(c, [call[c] EXCEPT !.pc = "lookup"])
  <2>1. dirty \in [Nodes -> BOOLEAN] /\ cached \in [Nodes -> [v : Int, epoch : Int]]
    BY DEF GroupInv, Shape
  <2> QED
    BY <2>1 DEF PassesPurge, Purge
<1>3. UNCHANGED <<db, marks, life, env, tasks>> /\ erased' \in Nat
  BY DEF Purge, GroupInv, Shape, bounds
<1> QED
  BY <1>1, <1>2, <1>3, MoveKeeps, Zenon DEF Purge, Fills

\* A goroutine that does not stand before a purge leaves the duty to purge alone.
LEMMA NoDuty ==
  ASSUME GroupInv, NEW c \in Calls, NEW x, call[c].pc # "purge", dirty' = dirty
  PROVE  PassesPurge(c, x)
BY DEF GroupInv, Shape, PassesPurge

LEMMA LookupKeeps ==
  ASSUME GroupInv, NEW c \in Calls, Lookup(c)
  PROVE  StepOK
<1>1. Active(c) /\ call[c].pc = "lookup" /\ dirty' = dirty /\ cached' = cached
  BY DEF Lookup, Active, At
<1>2. UNCHANGED <<db, marks, life, env, tasks>> /\ erased' \in Nat
  BY DEF Lookup, GroupInv, Shape, bounds
<1>3. PICK e : e = cached[call[c].node]
  OBVIOUS
<1>4. CASE e # NoEntry /\ call' = [call EXCEPT ![c].pc = "return", ![c].v = e.v]
  <2>1. call[c].node \in Nodes
    BY <1>1 DEF GroupInv, Placed
  <2>2. e \in [v : Int, epoch : Int] /\ Held(e.v)
    BY <1>3, <1>4, <2>1 DEF GroupInv, Shape, Held
  <2>3. e.v # -1
    BY <2>2, SMTT(30) DEF GroupInv, Known
  <2>4. Moves(c, [call[c] EXCEPT !.pc = "return", !.v = e.v])
    BY <1>1, <1>4, <2>2, <2>3, TakesMoves, Zenon
  <2> QED
    BY <1>1, <1>2, <2>4, NoDuty, MoveKeeps DEF Fills
<1>5. CASE Goto(c, "next")
  <2>1. Moves(c, [call[c] EXCEPT !.pc = "next"])
    BY <1>1, <1>5, GotoMoves DEF PCs
  <2> QED
    BY <1>1, <1>2, <2>1, NoDuty, MoveKeeps DEF Fills
<1> QED
  BY <1>3, <1>4, <1>5 DEF Lookup, Do

\* load: a candidate that is not asked, an answer, the source, and what is sent.
LEMMA AskFailsKeeps ==
  ASSUME GroupInv, NEW c \in Calls, AskFails(c)
  PROVE  StepOK
<1>1. /\ Active(c) /\ call[c].pc = "next" /\ dirty' = dirty /\ cached' = cached
      /\ UNCHANGED <<db, marks, life, env, tasks>> /\ erased' \in Nat
  BY DEF AskFails, Active, At, GroupInv, Shape, bounds
<1>2. call[c] \in Goroutine /\ StandsAt(call[c]) /\ call \in [Calls -> Goroutine]
  BY DEF GroupInv, Shape, Stands
<1>3. PICK k \in Nat : k = call[c].idx + 1
  BY <1>2, SMTT(30) DEF Goroutine
<1>4. PICK x \in Goroutine : x = [call[c] EXCEPT !.idx = k]
  BY <1>2, GoroutineUpdates, Zenon
<1>5. call' = [call EXCEPT ![c] = x]
  BY <1>2, <1>3, <1>4 DEF AskFails
<1>6. x.pc = "next" /\ x.v = call[c].v /\ x.todo = <<>> /\ x.node = call[c].node
  BY <1>1, <1>2, <1>4 DEF Goroutine, StandsAt
<1>7. Moves(c, x)
  BY <1>1, <1>5, <1>6 DEF Moves, StandsAt, Held
<1> QED
  BY <1>1, <1>7, NoDuty, MoveKeeps DEF Fills

LEMMA FetchedKeeps ==
  ASSUME GroupInv, NEW c \in Calls, Fetched(c)
  PROVE  StepOK
<1>1. /\ Active(c) /\ call[c].pc = "fetched" /\ dirty' = dirty
      /\ UNCHANGED <<db, marks, life, env, tasks>> /\ erased' \in Nat
  BY DEF Fetched, Active, At, GroupInv, Shape, bounds
<1>2. call[c].v # -1
  BY <1>1 DEF GroupInv, Stands, StandsAt
<1>3. Moves(c, [call[c] EXCEPT !.pc = "return"])
  BY <1>1, <1>2, GotoMoves DEF Fetched, PCs
<1>4. Fills(c)
  BY <1>2 DEF Fetched, Fills
<1> QED
  BY <1>1, <1>3, <1>4, NoDuty, MoveKeeps

LEMMA GetterGetKeeps ==
  ASSUME GroupInv, NEW c \in Calls, GetterGet(c)
  PROVE  StepOK
<1>1. /\ Active(c) /\ call[c].pc = "next" /\ dirty' = dirty /\ cached' = cached
      /\ UNCHANGED <<db, marks, life, env, tasks>> /\ erased' \in Nat
  BY DEF GetterGet, Active, At, GroupInv, Shape, bounds
<1>2. CASE call' = [call EXCEPT ![c].pc = "store", ![c].v = db]
  <2>1. db \in Int /\ db # -1 /\ Held(db)
    BY SMTT(30) DEF GroupInv, Shape, Held
  <2>2. Moves(c, [call[c] EXCEPT !.pc = "store", !.v = db])
    BY <1>1, <1>2, <2>1, TakesMoves, Zenon
  <2> QED
    BY <1>1, <2>2, NoDuty, MoveKeeps DEF Fills
<1>3. CASE Goto(c, "error")
  <2>1. Moves(c, [call[c] EXCEPT !.pc = "error"])
    BY <1>1, <1>3, GotoMoves DEF PCs
  <2> QED
    BY <1>1, <2>1, NoDuty, MoveKeeps DEF Fills
<1> QED
  BY <1>2, <1>3 DEF GetterGet

\* The goroutine goes on to send s.
LEMMA SendMoves ==
  ASSUME GroupInv, NEW c \in Calls, Active(c), NEW s \in Seq(Errand),
         call[c].v = -1 =>
           call[c].caller = "client" /\ \A i \in DOMAIN s : s[i].kind = "invalidate",
         call' = [call EXCEPT ![c].pc = "send", ![c].todo = s]
  PROVE  Moves(c, [call[c] EXCEPT !.pc = "send", !.todo = s])
<1>1. call[c] \in Goroutine /\ call \in [Calls -> Goroutine]
  BY DEF GroupInv, Shape
<1>2. "send" \in PCs
  BY DEF PCs
<1>3. PICK x \in Goroutine : x = [call[c] EXCEPT !.pc = "send", !.todo = s]
  BY <1>1, <1>2, GoroutineUpdates, Zenon
<1>4. call' = [call EXCEPT ![c] = x]
  BY <1>1, <1>3, Zenon
<1>5. /\ x.pc = "send" /\ x.v = call[c].v /\ x.todo = s /\ x.node = call[c].node
      /\ x.caller = call[c].caller
  BY <1>1, <1>3 DEF Goroutine
<1> QED
  BY <1>3, <1>4, <1>5, Zenon DEF Moves, StandsAt, Held

LEMMA StoreKeeps ==
  ASSUME GroupInv, NEW c \in Calls, Store(c)
  PROVE  StepOK
<1>1. /\ Active(c) /\ call[c].pc = "store" /\ dirty' = dirty
      /\ UNCHANGED <<db, marks, life, env, tasks>> /\ erased' \in Nat
  BY DEF Store, Active, At, GroupInv, Shape, bounds
<1>2. call[c].v # -1
  BY <1>1 DEF GroupInv, Stands, StandsAt
<1>3. PICK l \in Seq(Nodes) :
        call' = [call EXCEPT ![c].pc = "send", ![c].todo = [i \in DOMAIN l |-> Push(l[i])]]
  <2>1. PICK n, p : n = call[c].node /\ p = Peers(c)
    OBVIOUS
  <2>2. /\ p \in Seq(Nodes) /\ Len(p) >= Len(Owners) - 1 /\ Len(Owners) \in Nat
        /\ Candidates(HotOwners, n) \in Seq(Nodes)
    BY <2>1, CandidatesType, GroupAssumption DEF Peers
  <2>3. PICK a \in Seq(Nodes) : a = IF Len(Owners) < 2 THEN <<>> ELSE SubSeq(p, 1, 1)
    <3>1. CASE Len(Owners) < 2
      <4>1. <<>> \in Seq(Nodes)
        OBVIOUS
      <4> QED
        BY <3>1, <4>1, Zenon
    <3>2. CASE ~(Len(Owners) < 2)
      <4>1. p[1] \in Nodes /\ \A i \in 1 .. 1 : i = 1
        BY <2>2, <3>2
      <4>2. SubSeq(p, 1, 1) \in Seq(Nodes)
        BY <2>2, <4>1
      <4> QED
        BY <3>2, <4>2, Zenon
    <3> QED
      BY <3>1, <3>2
  <2>4. PICK hot \in {<<>>, Candidates(HotOwners, n)} :
          call' = [call EXCEPT ![c].pc = "send",
                               ![c].todo = [i \in DOMAIN (a \o hot) |-> Push((a \o hot)[i])]]
    BY <2>1, <2>3, Zenon DEF Store
  <2>5. hot \in Seq(Nodes)
    <3>1. <<>> \in Seq(Nodes)
      OBVIOUS
    <3> QED
      BY <2>2, <2>4, <3>1, Zenon
  <2>6. a \o hot \in Seq(Nodes)
    BY <2>5
  <2> QED
    BY <2>4, <2>6, Zenon
<1>4. PICK s \in Seq(Errand) : s = [i \in DOMAIN l |-> Push(l[i])]
  BY Errands, Zenon
<1>5. Moves(c, [call[c] EXCEPT !.pc = "send", !.todo = s])
  BY <1>1, <1>2, <1>3, <1>4, SendMoves, Zenon
<1>6. Fills(c)
  BY <1>2 DEF Store, Fills
<1> QED
  BY <1>1, <1>5, <1>6, NoDuty, MoveKeeps

\* Delete: the entry goes and the others are told.
LEMMA DeleteKeeps ==
  ASSUME GroupInv, NEW c \in Calls, Delete(c)
  PROVE  StepOK
<1>1. /\ Active(c) /\ call[c].pc = "delete" /\ dirty' = dirty
      /\ UNCHANGED <<db, marks, life, env, tasks>> /\ erased' \in Nat
  BY DEF Delete, Active, At, GroupInv, Shape, bounds
<1>2. call[c].v = -1 /\ call[c].caller = "client"
  BY <1>1 DEF GroupInv, Stands, StandsAt
<1>3. PICK l \in Seq(Nodes) : l = Candidates(Members, call[c].node)
  BY AllOthers
<1>4. PICK s \in Seq(Errand) : s = [i \in DOMAIN l |-> Invalidation(l[i])]
  BY Errands, Zenon
<1>5. /\ call' = [call EXCEPT ![c].pc = "send", ![c].todo = s]
      /\ \A i \in DOMAIN s : s[i].kind = "invalidate"
  BY <1>3, <1>4, SMTT(30) DEF Delete, Invalidation
<1>6. Moves(c, [call[c] EXCEPT !.pc = "send", !.todo = s])
  BY <1>1, <1>2, <1>5, SendMoves, Zenon
<1>7. Fills(c)
  BY DEF Delete, Fills
<1> QED
  BY <1>1, <1>6, <1>7, NoDuty, MoveKeeps

\* The semaphore admits one more task, and the errand is done.
LEMMA SendKeeps ==
  ASSUME GroupInv, NEW c \in Calls, Send(c)
  PROVE  StepOK
<1>1. /\ Active(c) /\ call[c].pc = "send" /\ dirty' = dirty /\ cached' = cached
      /\ UNCHANGED <<db, marks, life, env>> /\ erased' \in Nat
  BY DEF Send, Active, At, GroupInv, Shape, bounds
<1>2. call[c] \in Goroutine /\ StandsAt(call[c]) /\ call \in [Calls -> Goroutine]
  BY DEF GroupInv, Shape, Stands
<1>3. PICK n \in Nodes : n = call[c].node
  BY <1>1 DEF GroupInv, Placed
<1>4. PICK s \in Seq(Errand) : s = call[c].todo /\ s # <<>>
  BY <1>2 DEF Send, Goroutine
<1>5. /\ Head(s) \in Errand /\ Head(s) = s[1] /\ 1 \in DOMAIN s /\ Tail(s) \in Seq(Errand)
      /\ \A i \in DOMAIN Tail(s) : i + 1 \in DOMAIN s /\ Tail(s)[i] = s[i + 1]
  BY <1>4
<1>6. Moves(c, [call[c] EXCEPT !.todo = Tail(s)])
  <2>1. PICK x \in Goroutine : x = [call[c] EXCEPT !.todo = Tail(s)]
    BY <1>2, <1>5, GoroutineUpdates, Zenon
  <2>2. call' = [call EXCEPT ![c] = x]
    BY <1>2, <1>4, <2>1 DEF Send
  <2>3. /\ x.pc = "send" /\ x.v = call[c].v /\ x.todo = Tail(s) /\ x.node = call[c].node
        /\ x.caller = call[c].caller
    BY <1>1, <1>2, <2>1, SMTT(30) DEF Goroutine
  <2>4. StandsAt(x)
    BY <1>1, <1>2, <1>4, <1>5, <2>3, SMTT(30) DEF StandsAt
  <2> QED
    BY <1>1, <2>1, <2>2, <2>3, <2>4, SMTT(30) DEF Moves, Held
<1>7. PICK t : /\ t = [kind |-> Head(s).kind, from |-> n, to |-> Head(s).to,
                       v |-> call[c].v, sem |-> TRUE]
               /\ tasks' = With(tasks, t)
  BY <1>3, <1>4, SMTT(30) DEF Send
<1>8. t \in Task /\ t.from = n /\ t.v = call[c].v /\ t.kind = s[1].kind
  BY <1>2, <1>5, <1>7 DEF Task, Errand, Goroutine
<1>9. Counted(tasks) /\ DOMAIN tasks \subseteq Task
  BY SMTT(30) DEF GroupInv, Shape
<1>10. Counted(tasks') /\ DOMAIN tasks' = DOMAIN tasks \cup {t}
  BY <1>7, <1>9, AddCopy, Zenon
<1>11. t.kind = "push" => Held(t.v)
  BY <1>1, <1>2, <1>4, <1>5, <1>8, Zenon DEF StandsAt, Held
<1>12. Places
  <2>1. InSem(t.from) < SemCap
    BY <1>3, <1>8 DEF Send, Acquire
  <2> QED
    BY <1>7, <2>1, Zenon DEF Places
<1>13. Sends
  <2>1. Counted(tasks)' /\ DOMAIN tasks' \subseteq Task
    BY <1>8, <1>9, <1>10
  <2>2. \A u \in DOMAIN tasks' : u.kind = "push" => Held(u.v)
    BY <1>9, <1>10, <1>11 DEF Held
  <2> QED
    BY <1>12, <2>1, <2>2 DEF Sends
<1> QED
  BY <1>1, <1>6, <1>13, NoDuty, MoveSends, SMTT(30) DEF Fills
=============================================================================
