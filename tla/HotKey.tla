------------------------------- MODULE HotKey -------------------------------
(***************************************************************************)
(* cache/hotkey.go: the detector of hot keys of one cache node, for one    *)
(* key.  Requests call Record concurrently; the prune loop resets the      *)
(* counters once per sample window.  Record looks its counter up under the *)
(* mutex but increments it after the mutex is released, so prune may reset *)
(* or drop the counter in between: counters are objects with an identity.  *)
(***************************************************************************)
EXTENDS Integers, FiniteSets

CONSTANTS
  Requests,    \* goroutines that call Record
  threshold,
  Stride,      \* the count is compared at multiples of it (64 in the code)
  cooldown,    \* in sample windows
  MaxRecords,  \* bound on calls of Record
  MaxWindows   \* bound on ticks of the prune loop

ASSUME HotKeyAssumption ==
  /\ threshold \in Nat \ {0} /\ Stride \in Nat \ {0} /\ cooldown \in Nat
  /\ MaxRecords \in Nat /\ MaxWindows \in Nat
  \* Requests that prune overtakes are far fewer than the threshold.
  /\ IsFiniteSet(Requests) /\ Cardinality(Requests) < threshold

VARIABLES
  counter,  \* t.counters[key]: the counter object, 0 when there is none
  count,    \* the value of every counter object made so far
  hot,      \* t.hotKeys[key]: window of the last detection, -1 when not hot
  window,   \* the current sample window
  req,      \* the goroutines: pc, counter held, count read
  records,  \* calls of Record so far
  arrived   \* history: increments in each window

vars == <<counter, count, hot, window, req, records, arrived>>

Idle == [pc |-> "idle", c |-> 0, n |-> 0]
Objects == 1 .. MaxRecords

Init ==
  /\ counter = 0
  /\ count = [c \in Objects |-> 0]
  /\ hot = -1
  /\ window = 0
  /\ req = [r \in Requests |-> Idle]
  /\ records = 0
  /\ arrived = [w \in 0 .. MaxWindows |-> 0]

\* Record, under the mutex: find the counter or make one.
Find(r) ==
  /\ req[r].pc = "idle" /\ records < MaxRecords
  /\ records' = records + 1
  /\ LET c == IF counter # 0 THEN counter ELSE records' IN
       /\ counter' = c
       /\ req' = [req EXCEPT ![r] = [pc |-> "add", c |-> c, n |-> 0]]
  /\ UNCHANGED <<count, hot, window, arrived>>

\* Mutated form of Due: the comparison is off by one.
DueAfter(n) == n % Stride = 1

Due(n) == n % Stride = 0

\* Record, after the mutex: the atomic increment.
Increment(r) ==
  LET c == req[r].c
      n == count[c] + 1
  IN
  /\ req[r].pc = "add"
  /\ count' = [count EXCEPT ![c] = n]
  /\ arrived' = [arrived EXCEPT ![window] = @ + 1]
  /\ req' = [req EXCEPT ![r] = IF Due(n) THEN [pc |-> "check", c |-> c, n |-> n]
                                 ELSE Idle]
  /\ UNCHANGED <<counter, hot, window, records>>

\* Mutated form of CheckHot: the comparison is a stride too generous.
CheckHotEarly(r) ==
  /\ req[r].pc = "check"
  /\ hot' = IF counter # 0 /\ req[r].n + Stride > threshold THEN window ELSE hot
  /\ req' = [req EXCEPT ![r] = Idle]
  /\ UNCHANGED <<counter, count, window, records, arrived>>

\* Mutated form of CheckHot: the end of the cooldown is stored, not the detection.
CheckHotUntil(r) ==
  /\ req[r].pc = "check"
  /\ hot' = IF counter # 0 /\ req[r].n >= threshold THEN window + cooldown ELSE hot
  /\ req' = [req EXCEPT ![r] = Idle]
  /\ UNCHANGED <<counter, count, window, records, arrived>>

\* checkHot: the time of detection is set or refreshed.
CheckHot(r) ==
  /\ req[r].pc = "check"
  /\ hot' = IF counter # 0 /\ req[r].n >= threshold THEN window ELSE hot
  /\ req' = [req EXCEPT ![r] = Idle]
  /\ UNCHANGED <<counter, count, window, records, arrived>>

\* prune, at the end of a window: the counter is reset, dropped unless the key is
\* hot, and the key cools down.
Prune ==
  /\ window < MaxWindows
  /\ window' = window + 1
  /\ count' = IF counter # 0 THEN [count EXCEPT ![counter] = 0] ELSE count
  /\ counter' = IF hot = -1 THEN 0 ELSE counter
  /\ hot' = IF hot # -1 /\ window' - hot > cooldown THEN -1 ELSE hot
  /\ UNCHANGED <<req, records, arrived>>

Next == Prune \/ \E r \in Requests : Find(r) \/ Increment(r) \/ CheckHot(r)

Spec == Init /\ [][Next]_vars

-----------------------------------------------------------------------------
\* Every variable has its type; a detection is never in the future.
TypeOK ==
  /\ counter \in 0 .. MaxRecords
  /\ count \in [Objects -> 0 .. MaxRecords]
  /\ hot \in -1 .. window
  /\ window \in 0 .. MaxWindows
  /\ req \in [Requests -> [pc : {"idle", "add", "check"}, c : 0 .. MaxRecords,
                           n : 0 .. MaxRecords]]
  /\ records \in 0 .. MaxRecords

\* A key is hot only if some window brought at least threshold requests, even
\* when prune runs between a request's lookup, its increment and its check.
HotIsEarned == hot # -1 => \E w \in 0 .. window : arrived[w] >= threshold

\* The count at which a key is noticed: the first multiple of Stride that is not
\* below threshold.
NoticedAt == ((threshold + Stride - 1) \div Stride) * Stride

\* A key whose counter has reached that multiple in this window is hot, or the
\* request that reached it is about to mark it: no interleaving skips the check.
HotIsNoticed ==
  counter # 0 /\ count[counter] >= NoticedAt =>
    hot # -1 \/ \E r \in Requests : req[r].pc = "check" /\ req[r].c = counter
=============================================================================
