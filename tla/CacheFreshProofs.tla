-------------------------- MODULE CacheFreshProofs --------------------------
(***************************************************************************)
(* How old the versions are that a GeeCache group holds: a Get that begins *)
(* when no copy exists is fresh, and a Delete that meets no other call     *)
(* removes every copy for good.  Both rest on Sourced: no step of the      *)
(* group makes a version, each comes from the source or from one already   *)
(* held.                                                                   *)
(***************************************************************************)
EXTENDS CacheStepProofs

-----------------------------------------------------------------------------
(* The inductive invariant.                                                *)

\* No copy anywhere is older than version f.
AllFrom(f) == \A x \in Int : Held(x) => x >= f

Floors == \A c \in Calls : AllFrom(call[c].floor)

\* Node n has yet to be told to remove its entry.
Pending(n) ==
  \/ \E t \in DOMAIN tasks : t.kind = "invalidate" /\ t.to = n
  \/ \E c \in Calls : \E i \in DOMAIN call[c].todo :
       call[c].todo[i].kind = "invalidate" /\ call[c].todo[i].to = n

\* A Delete that met no other call is being carried out: the nodes with an older
\* entry have yet to be told, and nothing else is under way.
Sweeping ==
  /\ \A n \in Nodes : cached[n] = NoEntry \/ cached[n].v >= erased \/ Pending(n)
  /\ \A c \in Calls : Active(c) => call[c].pc = "send" /\ call[c].v = -1
  /\ \A t \in DOMAIN tasks : t.kind = "invalidate"
  /\ erased <= db

Erased == AllFrom(erased) \/ Sweeping

FreshInv == GroupInv /\ Floors /\ Erased

-----------------------------------------------------------------------------
(* Versions and floors.                                                    *)

\* What no copy is older than, no copy ever is.
LEMMA FromKept ==
  ASSUME GroupInv, StepOK, db' >= db, NEW f \in Int, AllFrom(f)
  PROVE  AllFrom(f)'
<1>1. db \in Int /\ db' \in Int
  BY DEF GroupInv, StepOK, Shape
<1>2. db >= f
  BY <1>1 DEF AllFrom, Held
<1>3. \A x \in Int : Held(x)' => x >= f
  BY <1>1, <1>2 DEF StepOK, Sourced, AllFrom
<1> QED
  BY <1>3 DEF AllFrom

\* No version is below 0.
LEMMA FromZero ==
  ASSUME GroupInv
  PROVE  AllFrom(0)
BY DEF GroupInv, Known, AllFrom, Shape

\* When the group is cold, the only version is the source's.
LEMMA ColdFrom ==
  ASSUME GroupInv, Cold
  PROVE  AllFrom(db)
<1>1. DOMAIN tasks = {}
  BY DEF Cold, NoTasks
<1>2. \A c \in Calls : call[c].v = -1
  BY DEF Cold, GroupInv, Placed, Idle
<1>3. db \in Int /\ \A n \in Nodes : cached[n] = NoEntry
  BY DEF Cold, GroupInv, Shape
<1> QED
  BY <1>1, <1>2, <1>3 DEF AllFrom, Held

\* A floor stays, goes with its goroutine, or is the source's version when a call
\* begins in a cold group.
FloorOK(c) ==
  \/ call'[c].floor = call[c].floor \/ call'[c].floor = 0
  \/ Cold /\ call'[c].floor = db

LEMMA FloorsMove ==
  ASSUME GroupInv, [Next]_vars, NEW c \in Calls
  PROVE  FloorOK(c)
<1>1. call \in [Calls -> Goroutine]
  BY DEF GroupInv, Shape
<1>2. ASSUME NEW d \in Calls, NEW pc, NEW s,
             \/ call' = [call EXCEPT ![d].pc = pc]
             \/ call' = [call EXCEPT ![d].pc = pc, ![d].v = s]
             \/ call' = [call EXCEPT ![d].pc = pc, ![d].todo = s]
             \/ call' = [call EXCEPT ![d].todo = s]
             \/ call' = [call EXCEPT ![d].idx = s]
      PROVE  FloorOK(c)
  <2>1. call'[c].floor = call[c].floor
    <3>1. CASE call' = [call EXCEPT ![d].pc = pc]
      BY <1>1, <3>1 DEF Goroutine
    <3>2. CASE call' = [call EXCEPT ![d].pc = pc, ![d].v = s]
      BY <1>1, <3>2 DEF Goroutine
    <3>3. CASE call' = [call EXCEPT ![d].pc = pc, ![d].todo = s]
      BY <1>1, <3>3 DEF Goroutine
    <3>4. CASE call' = [call EXCEPT ![d].todo = s]
      BY <1>1, <3>4 DEF Goroutine
    <3>5. CASE call' = [call EXCEPT ![d].idx = s]
      BY <1>1, <3>5 DEF Goroutine
    <3> QED
      BY <1>2, <3>1, <3>2, <3>3, <3>4, <3>5
  <2> QED
    BY <2>1 DEF FloorOK
<1>3. ASSUME NEW d \in Calls, \/ Swap(d) \/ Purge(d) \/ Lookup(d) \/ AskFails(d) \/ Fetched(d)
                              \/ GetterGet(d) \/ Store(d) \/ Delete(d) \/ Send(d)
      PROVE  FloorOK(c)
  <2>1. CASE Swap(d) \/ Purge(d) \/ Fetched(d)
    BY <1>2, <2>1, Zenon DEF Swap, Purge, Fetched, Goto
  <2>2. CASE Lookup(d) \/ GetterGet(d)
    BY <1>2, <2>2, Zenon DEF Lookup, GetterGet, Goto, Do
  <2>3. CASE AskFails(d) \/ Send(d)
    BY <1>2, <2>3, Zenon DEF AskFails, Send
  <2>4. CASE Store(d) \/ Delete(d)
    <3>1. PICK s : call' = [call EXCEPT ![d].pc = "send", ![d].todo = s]
      BY <2>4, Zenon DEF Store, Delete
    <3> QED
      BY <1>2, <3>1, Zenon
  <2> QED
    BY <1>3, <2>1, <2>2, <2>3, <2>4
<1>4. ASSUME NEW d \in Calls, NEW e \in Calls, AskPeer(d, e)
      PROVE  FloorOK(c)
  <2>1. PICK k, n : call' = [call EXCEPT ![d].pc = "wait", ![d].idx = k,
                                         ![e] = NewCall(n, d, "swap")]
    BY <1>4, Zenon DEF AskPeer
  <2>2. CASE c = e
    BY <1>1, <2>1, <2>2 DEF NewCall, FloorOK
  <2>3. CASE c # e
    BY <1>1, <2>1, <2>3 DEF Goroutine, FloorOK
  <2> QED
    BY <2>2, <2>3
<1>5. ASSUME NEW a, NEW b,
             \/ call'[c] = Idle \/ call'[c] = [call[c] EXCEPT !.pc = a, !.v = b]
             \/ call'[c] = [call[c] EXCEPT !.pc = a]
             \/ call'[c] = [call[c] EXCEPT !.caller = "gone"] \/ call'[c] = call[c]
      PROVE  FloorOK(c)
  <2>1. CASE call'[c] = [call[c] EXCEPT !.pc = a, !.v = b]
    BY <1>1, <2>1 DEF Goroutine, FloorOK
  <2>2. CASE \/ call'[c] = [call[c] EXCEPT !.pc = a]
             \/ call'[c] = [call[c] EXCEPT !.caller = "gone"]
    BY <1>1, <2>2 DEF Goroutine, FloorOK
  <2>3. CASE call'[c] = Idle \/ call'[c] = call[c]
    BY <2>3 DEF Idle, FloorOK
  <2> QED
    BY <1>5, <2>1, <2>2, <2>3
<1>6. ASSUME NEW d \in Calls, Timeout(d) \/ Answer(d) \/ AnswerError(d)
      PROVE  FloorOK(c)
  <2>1. CASE Timeout(d)
    <3>1. \/ call'[c] = [call[c] EXCEPT !.pc = "next"]
          \/ call'[c] = [call[c] EXCEPT !.caller = "gone"] \/ call'[c] = call[c]
      BY <2>1, SMTT(30) DEF Timeout
    <3> QED
      BY <1>5, <3>1, Zenon
  <2>2. CASE \E ok \in BOOLEAN : Return(d, ok)
    <3>1. PICK ok, a, b :
            Return(d, ok) /\ a = (IF ok THEN "fetched" ELSE "next") /\ b = call[d].v
      BY <2>2, SMTT(30)
    <3>2. \/ call'[c] = Idle \/ call'[c] = [call[c] EXCEPT !.pc = a, !.v = b]
          \/ call'[c] = [call[c] EXCEPT !.caller = "gone"] \/ call'[c] = call[c]
      BY <3>1, Zenon DEF Return
    <3> QED
      BY <1>5, <3>2, Zenon
  <2> QED
    BY <1>6, <2>1, <2>2, Zenon DEF Answer, AnswerError
<1>7. ASSUME NEW d \in Calls, NEW n \in Nodes, StartGet(d, n) \/ StartDelete(d, n)
      PROVE  FloorOK(c)
  BY <1>1, <1>7, SMTT(30) DEF StartGet, StartDelete, Start, NewCall, FloorOK
<1>8. ASSUME NEW n \in Nodes, End(n)
      PROVE  FloorOK(c)
  <2>1. \/ call'[c] = Idle \/ call'[c] = [call[c] EXCEPT !.pc = "next"]
        \/ call'[c] = [call[c] EXCEPT !.caller = "gone"] \/ call'[c] = call[c]
    BY <1>8 DEF End
  <2> QED
    BY <1>5, <2>1, Zenon
<1>9. CASE \E d \in Calls : CallStep(d)
  BY <1>3, <1>4, <1>6, <1>9 DEF CallStep
<1>10. CASE call' = call
  BY <1>10 DEF FloorOK
<1>11. \/ call' = call \/ (\E d \in Calls : CallStep(d))
       \/ (\E d \in Calls, n \in Nodes : StartGet(d, n) \/ StartDelete(d, n))
       \/ (\E n \in Nodes : End(n))
  BY Zenon DEF Next, Step, TaskStep, Deliver, GiveUp, Serve, GracefulStop, Exit, Crash,
     MarkSlotMigrated, Evict, Drain, Restart, WriteSource, vars
<1> QED
  BY <1>7, <1>8, <1>9, <1>10, <1>11

LEMMA FloorsKept ==
  ASSUME GroupInv, Floors, [Next]_vars, StepOK, db' >= db, GroupInv'
  PROVE  Floors'
<1>1. SUFFICES ASSUME NEW c \in Calls
               PROVE  AllFrom(call[c].floor)'
  BY DEF Floors
<1>2. PICK f \in Int : f = call'[c].floor
  BY DEF StepOK, Shape, Goroutine
<1>3. AllFrom(f)'
  <2>1. CASE f = call[c].floor
    BY <2>1, FromKept DEF Floors
  <2>2. CASE f = 0
    <3>1. AllFrom(0)
      BY FromZero
    <3> QED
      BY <2>2, <3>1, FromKept
  <2>3. CASE Cold /\ f = db
    BY <2>3, ColdFrom, FromKept
  <2> QED
    BY <1>2, <2>1, <2>2, <2>3, FloorsMove DEF FloorOK
<1> QED
  BY <1>2, <1>3 DEF AllFrom

-----------------------------------------------------------------------------
(* Deletes.                                                                *)

\* Once no invalidation is left, no old copy is.
LEMMA SweptFrom ==
  ASSUME GroupInv, Sweeping, ~Erasing
  PROVE  AllFrom(erased)
<1>1. \A n \in Nodes : ~Pending(n)
  BY DEF Pending, Erasing
<1>2. \A t \in DOMAIN tasks : FALSE
  BY DEF Sweeping, Erasing
<1>3. \A c \in Calls : call[c].v = -1
  BY DEF Sweeping, GroupInv, Placed, Idle
<1> QED
  BY <1>1, <1>2, <1>3 DEF Sweeping, AllFrom, Held

\* A step that puts nothing into a cache, loses no invalidation that is still
\* wanted and begins nothing else goes on sweeping.
LEMMA SweepKept ==
  ASSUME GroupInv, Sweeping, db' >= db, StepOK, erased' = erased,
         \A n \in Nodes : cached'[n] = cached[n] \/ cached'[n] = NoEntry,
         \A n \in Nodes : Pending(n) => Pending(n)' \/ cached'[n] = NoEntry,
         \A c \in Calls : call'[c].pc = "free" \/ (call'[c].pc = "send" /\ call'[c].v = -1),
         \A t \in DOMAIN tasks' : t.kind = "invalidate"
  PROVE  Sweeping'
<1>1. db \in Int /\ db' \in Int /\ erased \in Int
  BY DEF GroupInv, StepOK, Shape
<1>2. erased' <= db'
  BY <1>1 DEF Sweeping
<1>3. \A n \in Nodes : cached'[n] = NoEntry \/ cached'[n].v >= erased' \/ Pending(n)'
  BY DEF Sweeping
<1> QED
  BY <1>2, <1>3 DEF Sweeping, Active, NoEntry

\* Sweeping, a goroutine that is not idle has errands to send, and no caller.
LEMMA Sweepers ==
  ASSUME GroupInv, Sweeping, NEW c \in Calls
  PROVE  /\ call[c] \in Goroutine /\ call[c].caller \notin Calls
         /\ call[c].pc = "free" \/ (call[c].pc = "send" /\ call[c].v = -1)
         /\ \A i \in DOMAIN call[c].todo : call[c].todo[i].kind = "invalidate"
<1>1. /\ call[c] \in Goroutine /\ StandsAt(call[c])
      /\ call[c].pc = "free" => call[c] = Idle
      /\ call[c].pc = "free" \/ (call[c].pc = "send" /\ call[c].v = -1)
  BY DEF GroupInv, Shape, Stands, Placed, Active, Sweeping
<1> QED
  BY <1>1, GroupAssumption DEF StandsAt, Idle

\* A Delete that meets nothing else begins to sweep.
LEMMA DeleteSweeps ==
  ASSUME GroupInv, NEW c \in Calls, Delete(c), Alone(c)
  PROVE  Sweeping'
<1>1. /\ db' = db /\ erased' = db /\ tasks' = tasks /\ db \in Int
      /\ call \in [Calls -> Goroutine] /\ cached \in [Nodes -> [v : Int, epoch : Int]]
  BY DEF Delete, GroupInv, Shape
<1>2. call[c].v = -1 /\ call[c].pc = "delete"
  BY DEF GroupInv, Stands, StandsAt, Delete, At
<1>3. PICK n, l : n = call[c].node /\ l = Candidates(Members, n)
  OBVIOUS
<1>4. l \in Seq(Nodes) /\ \A m \in Nodes \ {n} : \E i \in DOMAIN l : l[i] = m
  BY <1>3, AllOthers, Zenon
<1>5. PICK s \in Seq(Errand) : s = [i \in DOMAIN l |-> Invalidation(l[i])]
  BY <1>4, Errands, Zenon
<1>6. /\ call' = [call EXCEPT ![c].pc = "send", ![c].todo = s]
      /\ cached' = [cached EXCEPT ![n] = NoEntry]
  BY <1>3, <1>5, Zenon DEF Delete
<1>7. /\ call'[c].pc = "send" /\ call'[c].v = -1 /\ call'[c].todo = s
      /\ \A d \in Calls : d # c => call'[d] = call[d]
  BY <1>1, <1>2, <1>6 DEF Goroutine
<1>8. ASSUME NEW m \in Nodes, m # n
      PROVE  Pending(m)'
  <2>1. PICK i \in DOMAIN l : l[i] = m
    BY <1>4, <1>8
  <2>2. i \in DOMAIN s /\ s[i].kind = "invalidate" /\ s[i].to = m
    BY <1>5, <2>1 DEF Invalidation
  <2> QED
    BY <1>7, <2>2 DEF Pending
<1>9. \A m \in Nodes : cached'[m] = NoEntry \/ Pending(m)'
  BY <1>1, <1>6, <1>8
<1>10. \A d \in Calls : call'[d].pc = "free" \/ (call'[d].pc = "send" /\ call'[d].v = -1)
  BY <1>7 DEF Alone, Active
<1>11. \A t \in DOMAIN tasks' : FALSE
  BY <1>1 DEF Alone, NoTasks
<1> QED
  BY <1>1, <1>9, <1>10, <1>11 DEF Sweeping, Active, NoEntry

\* The errand becomes a task.
LEMMA SendSweeps ==
  ASSUME GroupInv, Sweeping, StepOK, NEW c \in Calls, Send(c)
  PROVE  Sweeping'
<1>1. /\ UNCHANGED <<db, cached, erased>> /\ call \in [Calls -> Goroutine] /\ db \in Int
      /\ Counted(tasks) /\ call[c].pc = "send"
  BY DEF Send, At, GroupInv, Shape
<1>2. /\ call[c] \in Goroutine /\ call[c].v = -1
      /\ \A i \in DOMAIN call[c].todo : call[c].todo[i].kind = "invalidate"
  BY <1>1, Sweepers
<1>3. PICK s \in Seq(Errand) : s = call[c].todo /\ s # <<>>
  BY <1>2 DEF Send, Goroutine
<1>4. /\ Head(s) = s[1] /\ 1 \in DOMAIN s
      /\ \A i \in DOMAIN s : i # 1 => i - 1 \in DOMAIN Tail(s) /\ Tail(s)[i - 1] = s[i]
  BY <1>3, SMTT(30)
<1>5. call' = [call EXCEPT ![c].todo = Tail(s)]
  BY <1>1, <1>3 DEF Send
<1>6. /\ call'[c].pc = "send" /\ call'[c].v = -1 /\ call'[c].todo = Tail(s)
      /\ \A d \in Calls : d # c => call'[d] = call[d]
  BY <1>1, <1>2, <1>5 DEF Goroutine
<1>7. PICK t : /\ t.kind = "invalidate" /\ t.to = s[1].to
               /\ tasks' = With(tasks, t)
  <2>1. PICK t : /\ t = [kind |-> Head(s).kind, from |-> call[c].node, to |-> Head(s).to,
                         v |-> call[c].v, sem |-> TRUE]
                 /\ tasks' = With(tasks, t)
    BY <1>3 DEF Send
  <2>2. t.kind = "invalidate" /\ t.to = s[1].to
    BY <1>2, <1>3, <1>4, <2>1
  <2> QED
    BY <2>1, <2>2
<1>8. DOMAIN tasks' = DOMAIN tasks \cup {t}
  BY <1>1, <1>7, AddCopy, Zenon
<1>9. ASSUME NEW n \in Nodes, Pending(n)
      PROVE  Pending(n)'
  <2>1. CASE \E u \in DOMAIN tasks : u.kind = "invalidate" /\ u.to = n
    BY <1>8, <2>1 DEF Pending
  <2>2. CASE \E d \in Calls \ {c} : \E i \in DOMAIN call[d].todo :
               call[d].todo[i].kind = "invalidate" /\ call[d].todo[i].to = n
    BY <1>6, <2>2 DEF Pending
  <2>3. CASE \E i \in DOMAIN s : s[i].kind = "invalidate" /\ s[i].to = n
    <3>1. PICK i \in DOMAIN s : s[i].kind = "invalidate" /\ s[i].to = n
      BY <2>3
    <3>2. CASE i = 1
      BY <1>7, <1>8, <3>1, <3>2 DEF Pending
    <3>3. CASE i # 1
      <4>1. PICK j \in DOMAIN Tail(s) : Tail(s)[j] = s[i]
        BY <1>4, <3>3, SMTT(30)
      <4> QED
        BY <1>6, <3>1, <4>1 DEF Pending
    <3> QED
      BY <3>2, <3>3
  <2> QED
    BY <1>3, <1>9, <2>1, <2>2, <2>3 DEF Pending
<1>10. \A d \in Calls : call'[d].pc = "free" \/ (call'[d].pc = "send" /\ call'[d].v = -1)
  BY <1>6, Sweepers
<1>11. \A u \in DOMAIN tasks' : u.kind = "invalidate"
  BY <1>7, <1>8 DEF Sweeping
<1> QED
  BY <1>1, <1>9, <1>10, <1>11, SweepKept

\* The Delete returns: all its errands are tasks or done.
LEMMA AnswerSweeps ==
  ASSUME GroupInv, Sweeping, StepOK, NEW c \in Calls, Answer(c)
  PROVE  Sweeping'
<1>1. UNCHANGED <<db, cached, tasks, erased>> /\ db \in Int
  BY DEF Answer, GroupInv, Shape
<1>2. call[c].pc = "send" /\ call[c].todo = <<>>
  BY Sweepers, SMTT(30) DEF Answer, Returning, At
<1>3. call'[c] = Idle
  BY Zenon DEF Answer, Return
<1>4. ASSUME NEW d \in Calls, d # c
      PROVE  call'[d] = call[d]
  <2>1. call[c].caller \notin Calls /\ call[d].caller \notin Calls
    BY Sweepers
  <2> QED
    BY <1>4, <2>1, Zenon DEF Answer, Return
<1>5. \A n \in Nodes : Pending(n) => Pending(n)'
  BY <1>1, <1>2, <1>4 DEF Pending
<1>6. \A d \in Calls : call'[d].pc = "free" \/ (call'[d].pc = "send" /\ call'[d].v = -1)
  <2>1. call'[c].pc = "free"
    BY <1>3 DEF Idle
  <2> QED
    BY <1>4, <2>1, Sweepers
<1>7. \A t \in DOMAIN tasks' : t.kind = "invalidate"
  BY <1>1 DEF Sweeping
<1> QED
  BY <1>1, <1>5, <1>6, <1>7, SweepKept

\* An invalidation arrives, or is given up for a node that is down.
LEMMA TaskSweeps ==
  ASSUME GroupInv, Sweeping, StepOK, NEW t \in DOMAIN tasks,
         Deliver(t) \/ (GiveUp(t) /\ life[t.to] = "down")
  PROVE  Sweeping'
<1>1. /\ UNCHANGED <<db, call, erased>> /\ db \in Int /\ Counted(tasks) /\ t \in Task
      /\ cached \in [Nodes -> [v : Int, epoch : Int]] /\ t.kind = "invalidate"
  BY DEF Deliver, GiveUp, GroupInv, Shape, Sweeping
<1>2. t.to \in Nodes
  BY <1>1 DEF Task
<1>3. /\ cached'[t.to] = NoEntry
      /\ \A n \in Nodes : n # t.to => cached'[n] = cached[n]
  <2>1. CASE Deliver(t)
    BY <1>1, <1>2, <2>1 DEF Deliver
  <2>2. CASE GiveUp(t) /\ life[t.to] = "down"
    BY <1>2, <2>2 DEF GiveUp, GroupInv, Placed
  <2> QED
    BY <2>1, <2>2
<1>4. PICK rest : rest = Without(tasks, t)
  OBVIOUS
<1>5. /\ Counted(rest) /\ DOMAIN tasks \ {t} \subseteq DOMAIN rest
      /\ DOMAIN rest \subseteq DOMAIN tasks
  <2>1. /\ Counted(rest)
        /\ DOMAIN rest = IF tasks[t] = 1 THEN DOMAIN tasks \ {t} ELSE DOMAIN tasks
    BY <1>1, <1>4, RemoveCopy, Zenon
  <2> QED
    BY <2>1
<1>6. /\ DOMAIN tasks \ {t} \subseteq DOMAIN tasks'
      /\ \A u \in DOMAIN tasks' : u.kind = "invalidate"
  <2>1. CASE tasks' = rest
    BY <1>5, <2>1 DEF Sweeping
  <2>2. CASE tasks' = With(rest, [t EXCEPT !.sem = FALSE])
    <3>1. PICK w : w = [t EXCEPT !.sem = FALSE] /\ w.kind = t.kind
      <4>1. [t EXCEPT !.sem = FALSE].kind = t.kind
        BY <1>1 DEF Task
      <4> QED
        BY <4>1, Zenon
    <3>2. tasks' = With(rest, w)
      BY <2>2, <3>1, Zenon
    <3>3. DOMAIN tasks' = DOMAIN rest \cup {w}
      BY <1>5, <3>2, AddCopy, Zenon
    <3> QED
      BY <1>1, <1>5, <3>1, <3>3, Zenon DEF Sweeping
  <2> QED
    BY <1>4, <2>1, <2>2 DEF Deliver, GiveUp
<1>7. \A n \in Nodes : Pending(n) => Pending(n)' \/ cached'[n] = NoEntry
  BY <1>1, <1>3, <1>6 DEF Pending
<1>8. \A d \in Calls : call'[d].pc = "free" \/ (call'[d].pc = "send" /\ call'[d].v = -1)
  BY <1>1, Sweepers
<1> QED
  BY <1>1, <1>3, <1>6, <1>7, <1>8, SweepKept

\* Any other step that keeps erased leaves goroutines and tasks alone.
LEMMA QuietSweeps ==
  ASSUME GroupInv, Sweeping, StepOK, db' >= db, UNCHANGED <<call, tasks, erased>>,
         \A n \in Nodes : cached'[n] = cached[n] \/ cached'[n] = NoEntry
  PROVE  Sweeping'
<1>1. \A n \in Nodes : Pending(n) => Pending(n)'
  BY DEF Pending
<1>2. \A d \in Calls : call'[d].pc = "free" \/ (call'[d].pc = "send" /\ call'[d].v = -1)
  BY Sweepers
<1>3. \A t \in DOMAIN tasks' : t.kind = "invalidate"
  BY DEF Sweeping
<1> QED
  BY <1>1, <1>2, <1>3, SweepKept

\* What a step does to erased.
LEMMA ErasedMoves ==
  ASSUME GroupInv, [Next]_vars
  PROVE  \/ erased' = erased \/ erased' = 0
         \/ \E c \in Calls : Delete(c) /\ Alone(c)
<1>1. CASE \E c \in Calls : CallStep(c)
  BY <1>1, Zenon DEF CallStep, Swap, Purge, Lookup, AskPeer, AskFails, Timeout, Fetched, GetterGet,
     Store, Delete, Send, Answer, AnswerError
<1>2. CASE ~ \E c \in Calls : CallStep(c)
  BY <1>2, Zenon DEF Next, Step, TaskStep, Deliver, GiveUp, Serve, GracefulStop, Exit, End,
     Forgotten, StartGet, StartDelete, Start, MarkSlotMigrated, Evict, Drain, Crash, Restart,
     WriteSource, vars
<1> QED
  BY <1>1, <1>2, SMTT(30)

\* While a Delete sweeps, a step keeps sweeping, or it leaves erased as it was when
\* nothing old is left, or forgets it.
LEMMA SweepStep ==
  ASSUME GroupInv, Sweeping, StepOK, db' >= db, [Next]_vars
  PROVE  Sweeping' \/ AllFrom(erased) \/ erased' = 0
<1>1. ASSUME NEW c \in Calls, CallStep(c)
      PROVE  Sweeping'
  <2>1. call[c].pc \in {"free", "send"}
    BY Sweepers
  <2>2. Send(c) \/ Answer(c)
    BY <1>1, <2>1, Zenon DEF CallStep, Swap, Purge, Lookup, AskPeer, AskFails, Timeout, Fetched,
       GetterGet, Store, Delete, AnswerError, At
  <2> QED
    BY <2>2, SendSweeps, AnswerSweeps
<1>2. ASSUME NEW t \in DOMAIN tasks, Deliver(t) \/ GiveUp(t)
      PROVE  Sweeping' \/ erased' = 0
  <2>1. CASE GiveUp(t) /\ life[t.to] # "down"
    BY <2>1 DEF GiveUp, Sweeping
  <2>2. CASE Deliver(t) \/ (GiveUp(t) /\ life[t.to] = "down")
    BY <2>2, TaskSweeps
  <2> QED
    BY <1>2, <2>1, <2>2
<1>3. ASSUME erased' = Forgotten
      PROVE  AllFrom(erased) \/ erased' = 0
  BY <1>3, SweptFrom DEF Forgotten
<1>4. ASSUME UNCHANGED <<call, tasks, erased>>,
             \A n \in Nodes : cached'[n] = cached[n] \/ cached'[n] = NoEntry
      PROVE  Sweeping'
  BY <1>4, QuietSweeps
<1>5. ASSUME NEW n \in Nodes, Evict(n)
      PROVE  Sweeping'
  <2>1. cached \in [Nodes -> [v : Int, epoch : Int]]
    BY SMTT(30) DEF GroupInv, Shape
  <2> QED
    BY <1>4, <1>5, <2>1 DEF Evict
<1>6. \/ (\E c \in Calls : CallStep(c))
      \/ (\E t \in DOMAIN tasks : Deliver(t) \/ GiveUp(t))
      \/ erased' = Forgotten \/ (\E n \in Nodes : Evict(n))
      \/ UNCHANGED <<call, tasks, erased, cached>>
  BY DEF Next, Step, TaskStep, Serve, GracefulStop, Exit, End, StartGet, StartDelete, Start,
     MarkSlotMigrated, Drain, Crash, Restart, WriteSource, vars
<1> QED
  BY <1>1, <1>2, <1>3, <1>4, <1>5, <1>6

LEMMA ErasedKept ==
  ASSUME GroupInv, Erased, [Next]_vars, StepOK, db' >= db, GroupInv'
  PROVE  Erased'
<1>1. erased \in Int /\ erased' \in Int
  BY DEF GroupInv, StepOK, Shape
<1>2. CASE erased' = 0
  BY <1>2, FromZero, FromKept DEF Erased, AllFrom
<1>3. CASE erased' = erased /\ AllFrom(erased)
  <2>1. PICK f \in Int : f = erased /\ AllFrom(f)
    BY <1>1, <1>3
  <2>2. AllFrom(f)'
    BY <2>1, FromKept
  <2> QED
    BY <1>3, <2>1, <2>2 DEF Erased, AllFrom
<1>4. CASE \E c \in Calls : Delete(c) /\ Alone(c)
  BY <1>4, DeleteSweeps DEF Erased
<1>5. CASE erased' = erased /\ Sweeping
  BY <1>2, <1>3, <1>5, SweepStep DEF Erased
<1> QED
  BY <1>2, <1>3, <1>4, <1>5, ErasedMoves, SMTT(30) DEF Erased

-----------------------------------------------------------------------------
(* The theorems.                                                           *)

LEMMA FreshInvHolds == Spec => []FreshInv
<1>1. Init => FreshInv
  <2>1. SUFFICES ASSUME Init
                 PROVE  FreshInv
    OBVIOUS
  <2>2. GroupInv /\ AllFrom(0)
    BY <2>1, GroupInit, FromZero
  <2>3. erased = 0 /\ \A c \in Calls : call[c].floor = 0
    BY <2>1 DEF Init, Idle
  <2> QED
    BY <2>2, <2>3 DEF FreshInv, Floors, Erased
<1>2. FreshInv /\ [Next]_vars => FreshInv'
  <2>1. SUFFICES ASSUME FreshInv, [Next]_vars
                 PROVE  FreshInv'
    OBVIOUS
  <2>2. GroupInv /\ Floors /\ Erased
    BY <2>1 DEF FreshInv
  <2>3. StepOK /\ db' >= db
    BY <2>1, <2>2, GroupStep, SourceGrows
  <2>4. GroupInv'
    BY <2>2, <2>3, KnownKept DEF GroupInv, StepOK
  <2>5. Floors' /\ Erased'
    BY <2>1, <2>2, <2>3, <2>4, FloorsKept, ErasedKept
  <2> QED
    BY <2>4, <2>5 DEF FreshInv
<1> QED
  BY <1>1, <1>2, PTL DEF Spec

\* A Get that begins while no copy of the key exists or is under way returns a
\* version at least as new as the source had then, for any number of nodes, peers
\* and replicas (geecache.go: Get, load, StoreReplica).
THEOREM ColdGetFresh == Spec => []ColdGetIsFresh
<1>1. FreshInv => ColdGetIsFresh
  <2>1. SUFFICES ASSUME FreshInv, NEW c \in Calls, call[c].v # -1
                 PROVE  call[c].v >= call[c].floor
    BY DEF ColdGetIsFresh
  <2>2. call[c].v \in Int /\ Held(call[c].v)
    BY <2>1 DEF FreshInv, GroupInv, Shape, Goroutine, Held
  <2> QED
    BY <2>1, <2>2 DEF FreshInv, Floors, AllFrom
<1> QED
  BY <1>1, FreshInvHolds, PTL

\* A Delete that meets no other call, and whose invalidations all arrive, removes
\* every copy of what the source held before it, on all nodes and for good
\* (geecache.go: Delete, DeleteLocal; http.go: BroadcastInvalidation).
THEOREM DeleteErases == Spec => []EraseHolds
<1>1. FreshInv => EraseHolds
  <2>1. SUFFICES ASSUME FreshInv, ~Erasing
                 PROVE  \A n \in Nodes : cached[n] = NoEntry \/ cached[n].v >= erased
    BY DEF EraseHolds
  <2>2. GroupInv /\ Erased
    BY <2>1 DEF FreshInv
  <2>3. AllFrom(erased)
    BY <2>1, <2>2, SweptFrom DEF Erased
  <2>4. \A n \in Nodes : cached[n].v \in Int
    BY <2>2 DEF GroupInv, Shape
  <2> QED
    BY <2>3, <2>4 DEF AllFrom, Held
<1> QED
  BY <1>1, FreshInvHolds, PTL
=============================================================================
