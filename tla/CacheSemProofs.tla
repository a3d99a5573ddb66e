--------------------------- MODULE CacheSemProofs ---------------------------
(***************************************************************************)
(* replicationSem holds its limit on every node of a GeeCache group, and   *)
(* every variable has its type, for any number of nodes, goroutines and    *)
(* messages.                                                               *)
(***************************************************************************)
EXTENDS CacheStepProofs, FiniteSetTheorems

Within == \A n \in Nodes : IsFiniteSet(Admitted(n)) /\ InSem(n) <= SemCap

\* A set that fits under one that is within the limit is within it.
LEMMA FitsUnder ==
  ASSUME NEW S, NEW A, S \in SUBSET A, IsFiniteSet(A), Cardinality(A) <= SemCap
  PROVE  IsFiniteSet(S) /\ Cardinality(S) <= SemCap
<1>1. IsFiniteSet(S) /\ Cardinality(S) <= Cardinality(A)
  BY FS_Subset, Zenon
<1>2. Cardinality(S) \in Nat /\ Cardinality(A) \in Nat /\ SemCap \in Nat
  <2>1. SemCap \in Nat
    BY GroupAssumption
  <2> QED
    BY <1>1, <2>1, FS_CardinalityType, Zenon
<1> QED
  BY <1>1, <1>2

\* Tasks that give up their places, and tasks that never had one, take none.
LEMMA AdmittedShrinks ==
  ASSUME NEW n \in Nodes, IsFiniteSet(Admitted(n)), InSem(n) <= SemCap,
         Counted(tasks), Counted(tasks)',
         \A t \in DOMAIN tasks' : t.sem => t \in DOMAIN tasks /\ tasks'[t] <= tasks[t]
  PROVE  IsFiniteSet(Admitted(n)') /\ InSem(n)' <= SemCap
<1>1. /\ \A t \in DOMAIN tasks : tasks[t] \in Nat
      /\ \A t \in DOMAIN tasks' : tasks'[t] \in Nat
  BY DEF Counted
<1>2. ASSUME NEW p \in Admitted(n)'
      PROVE  p \in Admitted(n)
  <2>1. PICK t \in DOMAIN tasks' : t.from = n /\ t.sem /\ p \in {t} \X (1 .. tasks'[t])
    BY DEF Admitted
  <2>2. t \in DOMAIN tasks /\ p \in {t} \X (1 .. tasks[t])
    BY <1>1, <2>1
  <2> QED
    BY <2>1, <2>2 DEF Admitted
<1>3. Admitted(n)' \in SUBSET Admitted(n)
  BY <1>2
<1> QED
  BY <1>3, FitsUnder, Zenon DEF InSem

\* A new task takes one place on the node it is sent from, and none elsewhere.
LEMMA AdmittedGrows ==
  ASSUME NEW n \in Nodes, NEW t, Counted(tasks), tasks' = With(tasks, t)
  PROVE  /\ Admitted(n)' \subseteq Admitted(n) \cup {<<t, tasks'[t]>>}
         /\ t.from # n => Admitted(n)' \subseteq Admitted(n)
<1>1. /\ DOMAIN tasks' = DOMAIN tasks \cup {t}
      /\ \A u \in DOMAIN tasks : u # t => tasks'[u] = tasks[u]
      /\ tasks'[t] = IF t \in DOMAIN tasks THEN tasks[t] + 1 ELSE 1
  BY AddCopy, Zenon
<1>2. \A u \in DOMAIN tasks : tasks[u] \in Nat
  BY DEF Counted
<1>3. ASSUME NEW p \in Admitted(n)'
      PROVE  p \in Admitted(n) \/ (p = <<t, tasks'[t]>> /\ t.from = n)
  <2>1. PICK u \in DOMAIN tasks' : u.from = n /\ u.sem /\ p \in {u} \X (1 .. tasks'[u])
    BY DEF Admitted
  <2>2. PICK i \in 1 .. tasks'[u] : p = <<u, i>>
    BY <2>1
  <2>3. CASE u # t
    <3>1. u \in DOMAIN tasks /\ p \in {u} \X (1 .. tasks[u])
      BY <1>1, <2>1, <2>3
    <3> QED
      BY <2>1, <3>1 DEF Admitted
  <2>4. CASE u = t /\ i = tasks'[t]
    BY <2>1, <2>2, <2>4
  <2>5. CASE u = t /\ i # tasks'[t]
    <3>1. t \in DOMAIN tasks /\ i \in 1 .. tasks[t]
      BY <1>1, <1>2, <2>2, <2>5
    <3>2. p \in {t} \X (1 .. tasks[t])
      BY <2>2, <2>5, <3>1
    <3> QED
      BY <2>1, <2>5, <3>1, <3>2 DEF Admitted
  <2> QED
    BY <2>3, <2>4, <2>5
<1> QED
  BY <1>3

LEMMA WithinKept ==
  ASSUME GroupInv, Within, StepOK
  PROVE  Within'
<1>1. Counted(tasks) /\ Counted(tasks)' /\ Places
  BY DEF GroupInv, StepOK, Shape
<1>2. CASE \A t \in DOMAIN tasks' : t.sem => t \in DOMAIN tasks /\ tasks'[t] <= tasks[t]
  BY <1>1, <1>2, AdmittedShrinks DEF Within
<1>3. CASE \E t : tasks' = With(tasks, t) /\ InSem(t.from) < SemCap
  <2>1. PICK t : tasks' = With(tasks, t) /\ InSem(t.from) < SemCap
    BY <1>3
  <2>2. ASSUME NEW n \in Nodes
        PROVE  IsFiniteSet(Admitted(n)') /\ InSem(n)' <= SemCap
    <3>1. /\ IsFiniteSet(Admitted(n)) /\ Cardinality(Admitted(n)) <= SemCap
          /\ SemCap \in Nat
      BY GroupAssumption DEF Within, InSem
    <3>2. Cardinality(Admitted(n)) \in Nat
      BY <3>1, FS_CardinalityType, Zenon
    <3>3. CASE t.from = n
      <4>1. Cardinality(Admitted(n)) < SemCap
        BY <2>1, <3>3 DEF InSem
      <4>2. PICK p : Admitted(n)' \subseteq Admitted(n) \cup {p}
        BY <1>1, <2>1, AdmittedGrows, Zenon
      <4>3. /\ IsFiniteSet(Admitted(n) \cup {p})
            /\ Cardinality(Admitted(n) \cup {p}) \in
                 {Cardinality(Admitted(n)), Cardinality(Admitted(n)) + 1}
        BY <3>1, FS_AddElement
      <4>4. Cardinality(Admitted(n) \cup {p}) <= SemCap
        BY <3>1, <3>2, <4>1, <4>3
      <4> QED
        BY <4>2, <4>3, <4>4, FitsUnder, Zenon DEF InSem
    <3>4. CASE t.from # n
      <4>1. Admitted(n)' \in SUBSET Admitted(n)
        BY <1>1, <2>1, <3>4, AdmittedGrows, Zenon
      <4> QED
        BY <3>1, <4>1, FitsUnder, Zenon DEF InSem
    <3> QED
      BY <3>3, <3>4
  <2> QED
    BY <2>2 DEF Within
<1> QED
  BY <1>1, <1>2, <1>3 DEF Places

LEMMA WithinHolds == Spec => []Within
<1>1. Init => Within
  <2>1. SUFFICES ASSUME Init
                 PROVE  Within
    OBVIOUS
  <2>2. \A n \in Nodes : \A p \in Admitted(n) : FALSE
    BY <2>1 DEF Init, NoTasks, Admitted
  <2>3. \A n \in Nodes : Admitted(n) = {}
    BY <2>2, Zenon
  <2>4. IsFiniteSet({}) /\ Cardinality({}) = 0 /\ 0 <= SemCap
    BY FS_EmptySet, GroupAssumption
  <2> QED
    BY <2>3, <2>4, Zenon DEF Within, InSem
<1>2. GroupInv /\ Within /\ [Next]_vars => Within'
  BY GroupStep, WithinKept, Zenon
<1> QED
  BY <1>1, <1>2, GroupInvHolds, PTL DEF Spec

\* Every variable has its type, a cached version has existed in the source, and no
\* node has more goroutines under way than replicationSem admits (geecache.go:
\* replicateToSecondaries, Delete).
THEOREM GroupTypeCorrect == Spec => []TypeOK
<1>1. GroupInv /\ Within => TypeOK
  <2>1. SUFFICES ASSUME GroupInv, Within
                 PROVE  TypeOK
    OBVIOUS
  <2>2. /\ Shape /\ Known /\ Stamped
    BY <2>1 DEF GroupInv
  <2>3. \A n \in Nodes : EntryOK(n, cached[n])
    <3>1. ASSUME NEW n \in Nodes, cached[n] # NoEntry
          PROVE  cached[n].v \in 0 .. db /\ cached[n].epoch \in 0 .. marks[n]
      <4>1. cached[n].v \in Int /\ Held(cached[n].v)
        BY <2>2, <3>1 DEF Shape, Held
      <4> QED
        BY <2>2, <3>1, <4>1, SMTT(30) DEF Known, Stamped
    <3> QED
      BY <3>1 DEF EntryOK
  <2>4. \A c \in Calls : /\ call[c].node \in Nodes \cup {"none"}
                         /\ call[c].caller \in Calls \cup {"client", "gone", "none"}
                         /\ call[c].v \in -1 .. db
    <3>1. SUFFICES ASSUME NEW c \in Calls
                   PROVE  call[c].v \in -1 .. db
      BY <2>2 DEF Shape, Goroutine
    <3>2. call[c].v \in Int /\ db \in Nat /\ (call[c].v = -1 \/ Held(call[c].v))
      BY <2>2 DEF Shape, Goroutine, Held
    <3> QED
      BY <2>2, <3>2 DEF Known
  <2> QED
    BY <2>1, <2>2, <2>3, <2>4 DEF TypeOK, Shape, Within
<1> QED
  BY <1>1, GroupInvHolds, WithinHolds, PTL
=============================================================================
