---------------------------- MODULE HotKeyProofs ----------------------------
(***************************************************************************)
(* What holds of the hot-key detector for every number of goroutines,      *)
(* every threshold, stride and cooldown, and every bound: its types, that  *)
(* a hot key has earned it, and that no interleaving of Record and prune   *)
(* skips the check.                                                        *)
(***************************************************************************)
EXTENDS HotKey, FiniteSetTheorems, TLAPS

-----------------------------------------------------------------------------
(* The inductive invariant.                                                *)

\* The requests that hold counter object c and have not yet incremented it.
Holders(c) == {r \in Requests : req[r].pc = "add" /\ req[r].c = c}

Shape ==
  /\ records \in 0 .. MaxRecords /\ window \in 0 .. MaxWindows
  /\ counter \in 0 .. records /\ hot \in -1 .. window
  /\ count \in [Objects -> Nat]
  /\ arrived \in [0 .. MaxWindows -> Nat]
  /\ req \in [Requests -> [pc : {"idle", "add", "check"}, c : 0 .. MaxRecords,
                           n : 0 .. MaxRecords]]
  /\ \A r \in Requests : req[r].pc # "idle" => req[r].c \in 1 .. records

\* No increment without a call of Record: what a counter shows and what its
\* holders will add never exceed the calls so far.
Paid == \A c \in Objects : count[c] + Cardinality(Holders(c)) <= records

\* A counter made in the future is still zero.
Unmade == \A c \in Objects : c > records => count[c] = 0

\* The counter in the map counts this window only; one that prune dropped gets
\* no new holders, so the requests it was dropped under bound it for ever.
ThisWindow == counter # 0 => count[counter] <= arrived[window]
Dropped ==
  \A c \in Objects : c <= records /\ c # counter =>
    count[c] + Cardinality(Holders(c)) <= Cardinality(Requests)

Reached == \E w \in 0 .. window : arrived[w] >= threshold

\* A count of threshold or more that a request carries to checkHot was reached
\* within one window.
CheckEarned ==
  \A r \in Requests : req[r].pc = "check" /\ req[r].n >= threshold => Reached

\* HotIsNoticed, with the count the request carries.
Noticed ==
  counter # 0 /\ count[counter] >= NoticedAt =>
    hot # -1 \/ \E r \in Requests : /\ req[r].pc = "check" /\ req[r].c = counter
                                    /\ req[r].n >= threshold

HotInv ==
  /\ Shape /\ Paid /\ Unmade /\ ThisWindow /\ Dropped
  /\ CheckEarned /\ HotIsEarned /\ Noticed

-----------------------------------------------------------------------------
(* The arithmetic of the stride, and the sets of holders.                  *)

\* What integer division and remainder are for each other.
LEMMA DivMod ==
  ASSUME NEW a \in Nat, NEW b \in Nat \ {0}
  PROVE  a \div b \in Nat /\ (a % b) \in 0 .. b - 1 /\ a = b * (a \div b) + (a % b)
OBVIOUS

\* A multiple of b has no remainder by b.
LEMMA MultipleMod ==
  ASSUME NEW q \in Nat, NEW b \in Nat \ {0}
  PROVE  (q * b) % b = 0
OBVIOUS

\* Record compares the count at NoticedAt, which is not below threshold.
LEMMA NoticedAtDue == NoticedAt \in Nat /\ NoticedAt >= threshold /\ Due(NoticedAt)
<1> DEFINE a == threshold + Stride - 1
           q == a \div Stride
<1>1. a \in Nat /\ Stride \in Nat \ {0} /\ threshold \in Nat
  BY HotKeyAssumption
<1>2. q \in Nat /\ (a % Stride) \in 0 .. Stride - 1 /\ a = Stride * q + (a % Stride)
  BY <1>1, DivMod, Zenon
<1>3. (q * Stride) % Stride = 0
  BY <1>1, <1>2, MultipleMod, Zenon
<1>4. NoticedAt = q * Stride
  BY DEF NoticedAt
<1> HIDE DEF q
<1>5. q * Stride \in Nat /\ q * Stride = Stride * q
  BY <1>1, <1>2
<1>6. q * Stride >= threshold
  BY <1>1, <1>2, <1>5
<1> QED
  BY <1>3, <1>4, <1>5, <1>6 DEF Due

\* The holders of a counter are finitely many, at most all requests.
LEMMA HoldersFinite ==
  ASSUME NEW c
  PROVE  /\ IsFiniteSet(Holders(c)) /\ Cardinality(Holders(c)) \in Nat
         /\ Cardinality(Holders(c)) <= Cardinality(Requests)
         /\ Cardinality(Requests) \in Nat
<1>1. IsFiniteSet(Requests)
  BY HotKeyAssumption
<1>2. Holders(c) \in SUBSET Requests
  BY DEF Holders
<1> QED
  BY <1>1, <1>2, FS_Subset, FS_CardinalityType

\* One request that becomes a holder counts for one.
LEMMA HoldersAdd ==
  ASSUME NEW c, NEW r \in Requests, r \notin Holders(c),
         Holders(c)' = Holders(c) \cup {r}
  PROVE  Cardinality(Holders(c)') = Cardinality(Holders(c)) + 1
BY HoldersFinite, FS_AddElement, SMTT(20)

\* One that stops being a holder counts for one.
LEMMA HoldersRemove ==
  ASSUME NEW c, NEW r \in Holders(c), Holders(c)' = Holders(c) \ {r}
  PROVE  /\ Cardinality(Holders(c)') = Cardinality(Holders(c)) - 1
         /\ Cardinality(Holders(c)) >= 1
<1>1. /\ Cardinality(Holders(c)') = Cardinality(Holders(c)) - 1
      /\ IsFiniteSet(Holders(c)')
  BY HoldersFinite, FS_RemoveElement
<1>2. Cardinality(Holders(c)') \in Nat
  BY <1>1, FS_CardinalityType
<1> QED
  BY <1>1, <1>2, HoldersFinite

-----------------------------------------------------------------------------
(* One lemma for each action.                                              *)

\* The detector starts with no counter, no count and no hot key.
LEMMA HotInit == Init => HotInv
<1> SUFFICES ASSUME Init PROVE HotInv
  OBVIOUS
<1> USE HotKeyAssumption DEF Init
<1>1. Shape /\ Unmade /\ ThisWindow /\ CheckEarned /\ HotIsEarned /\ Noticed
  BY DEF Shape, Unmade, ThisWindow, CheckEarned, HotIsEarned, Noticed, Objects, Idle
<1>2. \A c \in Objects : Cardinality(Holders(c)) = 0
  <2>1. \A c \in Objects : Holders(c) = {}
    BY DEF Holders, Idle
  <2> QED
    BY <2>1, FS_EmptySet, Zenon
<1>3. Paid /\ Dropped
  BY <1>2 DEF Paid, Dropped, Objects
<1> QED
  BY <1>1, <1>3 DEF HotInv

\* Record's lookup: the new holder is paid for by the call that brings it, and a
\* counter made now is zero.
LEMMA FindPreserves ==
  ASSUME HotInv, NEW r \in Requests, Find(r)
  PROVE  HotInv'
<1> DEFINE k == IF counter # 0 THEN counter ELSE records + 1
<1>1. /\ Shape /\ Paid /\ Unmade /\ ThisWindow /\ Dropped /\ CheckEarned
      /\ HotIsEarned /\ Noticed
  BY DEF HotInv
<1>2. /\ req[r].pc = "idle" /\ records < MaxRecords /\ records' = records + 1
      /\ counter' = k /\ req' = [req EXCEPT ![r] = [pc |-> "add", c |-> k, n |-> 0]]
      /\ count' = count /\ hot' = hot /\ window' = window /\ arrived' = arrived
  BY DEF Find
<1>3. MaxRecords \in Nat /\ records \in Nat /\ counter \in Nat /\ k \in 1 .. records + 1
  BY <1>1, HotKeyAssumption DEF Shape
<1>4. Shape'
  BY <1>1, <1>2, <1>3 DEF Shape
<1>5. /\ req \in [Requests -> [pc : {"idle", "add", "check"}, c : 0 .. MaxRecords,
                               n : 0 .. MaxRecords]]
      /\ count \in [Objects -> Nat]
  BY <1>1 DEF Shape
<1>6. ASSUME NEW c \in Objects
      PROVE  Cardinality(Holders(c)') = IF c = k THEN Cardinality(Holders(c)) + 1
                                        ELSE Cardinality(Holders(c))
  <2>1. CASE c = k
    <3>1. r \notin Holders(c) /\ Holders(c)' = Holders(c) \cup {r}
      BY <1>2, <1>5, <2>1 DEF Holders
    <3> QED
      BY <2>1, <3>1, HoldersAdd
  <2>2. CASE c # k
    <3>1. Holders(c)' = Holders(c)
      BY <1>2, <1>5, <2>2 DEF Holders
    <3> QED
      BY <2>2, <3>1
  <2> QED
    BY <2>1, <2>2
<1>7. \A c \in Objects : Cardinality(Holders(c)) \in Nat /\ count[c] \in Nat /\ c \in Nat \ {0}
  BY <1>3, <1>5, HoldersFinite DEF Objects
<1> HIDE DEF k
<1>8. Paid'
  BY <1>1, <1>2, <1>3, <1>6, <1>7 DEF Paid
<1>9. Unmade'
  BY <1>1, <1>2, <1>3, <1>7 DEF Unmade
<1>10. ThisWindow'
  <2>1. k = counter \/ (k = records + 1 /\ counter = 0)
    BY DEF k
  <2>2. arrived[window] \in Nat
    BY <1>1 DEF Shape
  <2>3. k = records + 1 => count[k] = 0
    BY <1>1, <1>2, <1>3 DEF Unmade, Objects
  <2> QED
    BY <1>1, <1>2, <1>3, <2>1, <2>2, <2>3 DEF ThisWindow
<1>11. Dropped'
  <2>1. SUFFICES ASSUME NEW c \in Objects, c <= records + 1, c # k
                 PROVE  count[c] + Cardinality(Holders(c)) <= Cardinality(Requests)
    BY <1>2, <1>6 DEF Dropped
  <2>2. CASE c = records + 1
    <3>1. count[c] = 0
      BY <1>1, <1>3, <1>7, <2>2 DEF Unmade
    <3> QED
      BY <3>1, HoldersFinite
  <2>3. CASE c # records + 1
    <3>1. c <= records /\ c # counter
      BY <1>3, <1>7, <2>1, <2>3 DEF k
    <3> QED
      BY <1>1, <3>1 DEF Dropped
  <2> QED
    BY <2>2, <2>3
<1>12. CheckEarned' /\ HotIsEarned'
  BY <1>1, <1>2, <1>5 DEF CheckEarned, HotIsEarned, Reached
<1>13. Noticed'
  <2>1. CASE counter = 0
    <3>1. k = records + 1 /\ k \in Objects
      BY <1>2, <1>3, <2>1 DEF k, Objects
    <3>2. count[k] = 0 /\ 0 < NoticedAt
      BY <1>1, <1>3, <3>1, NoticedAtDue, HotKeyAssumption DEF Unmade
    <3> QED
      BY <1>2, <3>2, NoticedAtDue DEF Noticed, NoticedAt
  <2>2. CASE counter # 0
    <3>1. k = counter
      BY <2>2 DEF k
    <3>2. \A q \in Requests : req[q].pc = "check" => req'[q] = req[q]
      BY <1>2, <1>5
    <3> QED
      BY <1>1, <1>2, <2>2, <3>1, <3>2 DEF Noticed, NoticedAt
  <2> QED
    BY <2>1, <2>2
<1> QED
  BY <1>4, <1>8, <1>9, <1>10, <1>11, <1>12, <1>13 DEF HotInv

\* Record's increment: it moves one from the holders to the count, and what it
\* adds to the counter in the map it adds to this window.
LEMMA IncrementPreserves ==
  ASSUME HotInv, NEW r \in Requests, Increment(r)
  PROVE  HotInv'
<1>1. /\ Shape /\ Paid /\ Unmade /\ ThisWindow /\ Dropped /\ CheckEarned
      /\ HotIsEarned /\ Noticed
  BY DEF HotInv
<1>2. PICK k : k = req[r].c
  OBVIOUS
<1> DEFINE m == count[k] + 1
<1>3. /\ req[r].pc = "add" /\ req[r].c = k
      /\ count' = [count EXCEPT ![k] = m]
      /\ arrived' = [arrived EXCEPT ![window] = @ + 1]
      /\ counter' = counter /\ hot' = hot /\ window' = window /\ records' = records
  BY <1>2 DEF Increment
<1>4. req' = [req EXCEPT ![r] = IF Due(m) THEN [pc |-> "check", c |-> k, n |-> m]
                                 ELSE Idle]
  BY <1>2 DEF Increment
<1>5. /\ req \in [Requests -> [pc : {"idle", "add", "check"}, c : 0 .. MaxRecords,
                               n : 0 .. MaxRecords]]
      /\ count \in [Objects -> Nat] /\ arrived \in [0 .. MaxWindows -> Nat]
      /\ window \in 0 .. MaxWindows /\ records \in 0 .. MaxRecords /\ MaxRecords \in Nat
      /\ counter \in 0 .. records /\ MaxWindows \in Nat
  BY <1>1, HotKeyAssumption DEF Shape
<1>6. k \in 1 .. records /\ k \in Objects /\ m \in Nat
  <2>1. k \in 1 .. records
    BY <1>1, <1>3 DEF Shape
  <2> QED
    BY <1>5, <2>1 DEF Objects
<1>7. /\ Cardinality(Holders(k)') = Cardinality(Holders(k)) - 1
      /\ Cardinality(Holders(k)) >= 1
  <2>1. r \in Holders(k) /\ Holders(k)' = Holders(k) \ {r}
    BY <1>3, <1>5, <1>4 DEF Holders, Idle
  <2> QED
    BY <2>1, HoldersRemove, Zenon
<1>8. ASSUME NEW c \in Objects, c # k
      PROVE  Cardinality(Holders(c)') = Cardinality(Holders(c))
  <2>1. Holders(c)' = Holders(c)
    BY <1>3, <1>5, <1>8, <1>4 DEF Holders, Idle
  <2> QED
    BY <2>1
<1>9. \A c \in Objects : Cardinality(Holders(c)) \in Nat /\ count[c] \in Nat /\ c \in Nat \ {0}
  BY <1>5, HoldersFinite DEF Objects
<1>10. m <= records
  BY <1>1, <1>5, <1>6, <1>7, <1>9 DEF Paid
<1>11. /\ \A c \in Objects : count'[c] = IF c = k THEN m ELSE count[c]
       /\ \A w \in 0 .. MaxWindows : arrived'[w] = IF w = window THEN arrived[w] + 1
                                                   ELSE arrived[w]
       /\ \A w \in 0 .. MaxWindows : arrived[w] \in Nat
  BY <1>3, <1>5, <1>6
<1>12. Shape'
  <2>1. /\ count' \in [Objects -> Nat] /\ arrived' \in [0 .. MaxWindows -> Nat]
    BY <1>3, <1>5, <1>6, SMTT(20)
  <2>2. m \in 0 .. MaxRecords /\ k \in 0 .. MaxRecords
    BY <1>5, <1>6, <1>10
  <2> HIDE DEF m
  <2>3. req' \in [Requests -> [pc : {"idle", "add", "check"}, c : 0 .. MaxRecords,
                               n : 0 .. MaxRecords]]
    BY <1>5, <1>4, <2>2 DEF Idle
  <2>4. \A q \in Requests : req'[q].pc # "idle" => req'[q].c \in 1 .. records
    BY <1>1, <1>5, <1>6, <1>4 DEF Shape, Idle
  <2> QED
    BY <1>1, <1>3, <2>1, <2>3, <2>4 DEF Shape
<1>13. \A c \in Objects : count'[c] + Cardinality(Holders(c)') = count[c] + Cardinality(Holders(c))
  <2>1. count'[k] + Cardinality(Holders(k)') = count[k] + Cardinality(Holders(k))
    BY <1>6, <1>7, <1>9, <1>11
  <2>2. ASSUME NEW c \in Objects, c # k
        PROVE  count'[c] + Cardinality(Holders(c)') = count[c] + Cardinality(Holders(c))
    BY <1>8, <1>11, <2>2
  <2> QED
    BY <2>1, <2>2
<1>14. Paid'
  BY <1>1, <1>3, <1>13 DEF Paid
<1>15. Unmade'
  <2>1. \A c \in Objects : c > records => c # k
    BY <1>5, <1>6
  <2> QED
    BY <1>1, <1>3, <1>11, <2>1 DEF Unmade
<1>16. ThisWindow'
  <2>1. CASE k = counter
    <3>1. count'[k] = count[k] + 1 /\ arrived'[window] = arrived[window] + 1
      BY <1>5, <1>6, <1>11
    <3>2. count[k] \in Nat /\ arrived[window] \in Nat
      BY <1>5, <1>6
    <3> QED
      BY <1>1, <1>3, <2>1, <3>1, <3>2 DEF ThisWindow
  <2>2. CASE k # counter /\ counter # 0
    <3>1. counter \in Objects
      BY <1>5, <2>2 DEF Objects
    <3>2. count'[counter] = count[counter] /\ arrived'[window] = arrived[window] + 1
      BY <1>5, <1>11, <2>2, <3>1
    <3>3. count[counter] \in Nat /\ arrived[window] \in Nat
      BY <1>5, <3>1
    <3> QED
      BY <1>1, <1>3, <2>2, <3>2, <3>3 DEF ThisWindow
  <2> QED
    BY <1>3, <2>1, <2>2 DEF ThisWindow
<1>17. Dropped'
  BY <1>1, <1>3, <1>13 DEF Dropped
<1>18. Reached => Reached'
  <2>1. threshold \in Nat
    BY HotKeyAssumption
  <2> QED
    BY <1>3, <1>5, <1>11, <2>1 DEF Reached
<1>19. m >= threshold => Reached'
  <2>1. threshold \in Nat /\ Cardinality(Requests) < threshold
    BY HotKeyAssumption
  <2>2. CASE k = counter
    <3>1. arrived'[window] >= m /\ window' = window /\ arrived'[window] \in Nat
      BY <1>1, <1>3, <1>5, <1>6, <1>9, <1>11, <2>2, SMTT(20) DEF ThisWindow
    <3> QED
      BY <1>5, <1>6, <2>1, <3>1, SMTT(20) DEF Reached
  <2>3. CASE k # counter
    <3>1. m <= Cardinality(Requests) /\ Cardinality(Requests) \in Nat
      BY <1>1, <1>5, <1>6, <1>7, <1>9, <2>3, HoldersFinite, SMTT(20) DEF Dropped
    <3> QED
      BY <1>6, <2>1, <3>1
  <2> QED
    BY <2>2, <2>3
<1> HIDE DEF m
<1>20. CheckEarned'
  BY <1>1, <1>5, <1>18, <1>19, <1>4 DEF CheckEarned, Idle
<1>21. HotIsEarned'
  BY <1>1, <1>3, <1>18 DEF HotIsEarned, Reached
<1>22. Noticed'
  <2>1. NoticedAt' = NoticedAt /\ NoticedAt \in Nat /\ threshold \in Nat
    BY NoticedAtDue, HotKeyAssumption DEF NoticedAt
  <2>2. SUFFICES ASSUME counter # 0, count'[counter] >= NoticedAt, hot = -1
                 PROVE  \E q \in Requests : /\ req'[q].pc = "check" /\ req'[q].c = counter
                                            /\ req'[q].n >= threshold
    BY <1>3, <2>1 DEF Noticed
  <2>3. counter \in Objects
    BY <1>5, <2>2 DEF Objects
  <2>4. CASE count[counter] >= NoticedAt
    <3>1. PICK q \in Requests : /\ req[q].pc = "check" /\ req[q].c = counter
                                /\ req[q].n >= threshold
      BY <1>1, <2>2, <2>4 DEF Noticed
    <3>2. req'[q] = req[q]
      BY <1>3, <1>5, <1>4, <3>1
    <3> QED
      BY <3>1, <3>2
  <2>5. CASE ~(count[counter] >= NoticedAt)
    <3>1. k = counter /\ m = NoticedAt
      BY <1>6, <1>9, <1>11, <2>1, <2>2, <2>3, <2>5 DEF m
    <3>2. Due(m) /\ m >= threshold
      BY <3>1, NoticedAtDue
    <3>3. req'[r] = [pc |-> "check", c |-> k, n |-> m]
      BY <1>5, <1>4, <3>2
    <3> QED
      BY <3>1, <3>2, <3>3
  <2> QED
    BY <2>4, <2>5
<1> QED
  BY <1>12, <1>14, <1>15, <1>16, <1>17, <1>20, <1>21, <1>22 DEF HotInv

\* checkHot: the count carried is the count earned, and a key that was noticed is
\* now hot.
LEMMA CheckHotPreserves ==
  ASSUME HotInv, NEW r \in Requests, CheckHot(r)
  PROVE  HotInv'
<1>1. /\ Shape /\ Paid /\ Unmade /\ ThisWindow /\ Dropped /\ CheckEarned
      /\ HotIsEarned /\ Noticed
  BY DEF HotInv
<1>2. /\ req[r].pc = "check" /\ req' = [req EXCEPT ![r] = Idle]
      /\ hot' = IF counter # 0 /\ req[r].n >= threshold THEN window ELSE hot
      /\ counter' = counter /\ count' = count /\ window' = window /\ records' = records
      /\ arrived' = arrived
  BY DEF CheckHot
<1>3. /\ req \in [Requests -> [pc : {"idle", "add", "check"}, c : 0 .. MaxRecords,
                               n : 0 .. MaxRecords]]
      /\ window \in 0 .. MaxWindows /\ MaxRecords \in Nat /\ MaxWindows \in Nat
  BY <1>1, HotKeyAssumption DEF Shape
<1>4. ASSUME NEW q \in Requests
      PROVE  req'[q] = IF q = r THEN Idle ELSE req[q]
  BY <1>2, <1>3
<1>5. Shape'
  <2>1. req' \in [Requests -> [pc : {"idle", "add", "check"}, c : 0 .. MaxRecords,
                               n : 0 .. MaxRecords]]
    BY <1>2, <1>3 DEF Idle
  <2>2. \A q \in Requests : req'[q].pc # "idle" => req'[q].c \in 1 .. records
    BY <1>1, <1>4, SMTT(20) DEF Shape, Idle
  <2>3. hot' \in -1 .. window
    BY <1>1, <1>2, <1>3 DEF Shape
  <2> QED
    BY <1>1, <1>2, <2>1, <2>2, <2>3 DEF Shape
<1>6. \A c : Holders(c)' = Holders(c)
  BY <1>2, <1>4 DEF Holders, Idle
<1>7. Paid' /\ Unmade' /\ ThisWindow' /\ Dropped'
  BY <1>1, <1>2, <1>6 DEF Paid, Unmade, ThisWindow, Dropped
<1>8. CheckEarned'
  BY <1>1, <1>2, <1>4 DEF CheckEarned, Reached, Idle
<1>9. HotIsEarned'
  BY <1>1, <1>2 DEF CheckEarned, HotIsEarned, Reached
<1>10. Noticed'
  <2>1. SUFFICES ASSUME counter # 0, count[counter] >= NoticedAt, hot' = -1
                 PROVE  \E q \in Requests : /\ req'[q].pc = "check" /\ req'[q].c = counter
                                            /\ req'[q].n >= threshold
    BY <1>2 DEF Noticed, NoticedAt
  <2>2. hot = -1 /\ ~(req[r].n >= threshold)
    BY <1>2, <1>3, <2>1
  <2>3. PICK q \in Requests : /\ req[q].pc = "check" /\ req[q].c = counter
                              /\ req[q].n >= threshold
    BY <1>1, <2>1, <2>2 DEF Noticed
  <2>4. req'[q] = req[q]
    BY <1>4, <2>2, <2>3
  <2> QED
    BY <2>3, <2>4
<1> QED
  BY <1>5, <1>7, <1>8, <1>9, <1>10 DEF HotInv

\* prune: the counter in the map begins the window at zero, or it is dropped with
\* only its holders to come.
LEMMA PrunePreserves ==
  ASSUME HotInv, Prune
  PROVE  HotInv'
<1>1. /\ Shape /\ Paid /\ Unmade /\ ThisWindow /\ Dropped /\ CheckEarned
      /\ HotIsEarned /\ Noticed
  BY DEF HotInv
<1>2. /\ window < MaxWindows /\ window' = window + 1
      /\ count' = IF counter # 0 THEN [count EXCEPT ![counter] = 0] ELSE count
      /\ counter' = (IF hot = -1 THEN 0 ELSE counter)
      /\ hot' = (IF hot # -1 /\ window' - hot > cooldown THEN -1 ELSE hot)
      /\ req' = req /\ records' = records /\ arrived' = arrived
  BY DEF Prune
<1>3. /\ count \in [Objects -> Nat] /\ counter \in 0 .. records /\ hot \in -1 .. window
      /\ records \in 0 .. MaxRecords /\ window \in 0 .. MaxWindows
      /\ arrived \in [0 .. MaxWindows -> Nat] /\ MaxRecords \in Nat /\ MaxWindows \in Nat
  BY <1>1, HotKeyAssumption DEF Shape
<1>4. \A c \in Objects : count'[c] = IF c = counter THEN 0 ELSE count[c]
  <2>1. \A c \in Objects : c # 0
    BY <1>3 DEF Objects
  <2> QED
    BY <1>2, <1>3, <2>1
<1>5. \A c \in Objects : count[c] \in Nat /\ Cardinality(Holders(c)) \in Nat
  BY <1>3, HoldersFinite
<1>6. Shape'
  <2>1. count' \in [Objects -> Nat]
    BY <1>2, <1>3, Zenon
  <2>2. window' \in 0 .. MaxWindows /\ counter' \in 0 .. records /\ hot' \in -1 .. window'
    BY <1>2, <1>3
  <2> QED
    BY <1>1, <1>2, <2>1, <2>2 DEF Shape
<1>7. \A c : Holders(c)' = Holders(c)
  BY <1>2 DEF Holders
<1>8. Paid' /\ Unmade'
  BY <1>1, <1>2, <1>3, <1>4, <1>5, <1>7 DEF Paid, Unmade
<1>9. counter' # 0 => counter' = counter /\ counter \in Objects /\ count'[counter] = 0
  BY <1>2, <1>3, <1>4 DEF Objects
<1>10. ThisWindow'
  <2>1. arrived'[window'] \in Nat
    BY <1>2, <1>3
  <2> QED
    BY <1>9, <2>1 DEF ThisWindow
<1>11. Dropped'
  <2>1. SUFFICES ASSUME NEW c \in Objects, c <= records, c # counter'
                 PROVE  count'[c] + Cardinality(Holders(c)) <= Cardinality(Requests)
    BY <1>2, <1>7 DEF Dropped
  <2>2. CASE c = counter
    <3>1. count'[c] = 0
      BY <1>4, <2>2
    <3> QED
      BY <3>1, HoldersFinite
  <2>3. CASE c # counter
    <3>1. count'[c] = count[c]
      BY <1>4, <2>3
    <3> QED
      BY <1>1, <2>1, <2>3, <3>1 DEF Dropped
  <2> QED
    BY <2>2, <2>3
<1>12. Reached => Reached'
  BY <1>2, <1>3 DEF Reached
<1>13. CheckEarned' /\ HotIsEarned'
  <2>1. HotIsEarned <=> (hot # -1 => Reached)
    BY DEF HotIsEarned, Reached
  <2>2. HotIsEarned' <=> (hot' # -1 => Reached')
    BY DEF HotIsEarned, Reached
  <2> QED
    BY <1>1, <1>2, <1>12, <2>1, <2>2 DEF CheckEarned
<1>14. Noticed'
  <2>1. 0 < NoticedAt /\ NoticedAt' = NoticedAt
    BY NoticedAtDue, HotKeyAssumption DEF NoticedAt
  <2>2. NoticedAt \in Nat
    BY NoticedAtDue
  <2> QED
    BY <1>9, <2>1, <2>2 DEF Noticed
<1> QED
  BY <1>6, <1>8, <1>10, <1>11, <1>13, <1>14 DEF HotInv

-----------------------------------------------------------------------------
\* HotInv is inductive.
LEMMA HotInvHolds == Spec => []HotInv
<1>1. HotInv /\ [Next]_vars => HotInv'
  <2> SUFFICES ASSUME HotInv, [Next]_vars PROVE HotInv'
    OBVIOUS
  <2>1. CASE UNCHANGED vars
    BY <2>1 DEF HotInv, vars, Shape, Paid, Unmade, ThisWindow, Dropped, CheckEarned,
                HotIsEarned, Noticed, Reached, Holders, NoticedAt
  <2>2. CASE Prune
    BY <2>2, PrunePreserves
  <2>3. ASSUME NEW r \in Requests, Find(r) \/ Increment(r) \/ CheckHot(r)
        PROVE  HotInv'
    BY <2>3, FindPreserves, IncrementPreserves, CheckHotPreserves
  <2> QED
    BY <2>1, <2>2, <2>3 DEF Next
<1> QED
  BY <1>1, HotInit, PTL DEF Spec

\* Every variable keeps its type, for any number of calls and windows: no counter
\* exceeds the calls of Record, and a detection is never in the future (Record,
\* checkHot and prune of hotkey.go).
THEOREM HotTypeCorrect == Spec => []TypeOK
<1>1. HotInv => TypeOK
  <2> SUFFICES ASSUME HotInv PROVE TypeOK
    OBVIOUS
  <2>1. /\ Shape /\ Paid /\ MaxRecords \in Nat
    BY HotKeyAssumption DEF HotInv
  <2>2. \A c \in Objects : count[c] \in 0 .. MaxRecords
    BY <2>1, HoldersFinite DEF Shape, Paid
  <2>3. count \in [Objects -> 0 .. MaxRecords]
    BY <2>1, <2>2 DEF Shape
  <2> QED
    BY <2>1, <2>3 DEF TypeOK, Shape
<1> QED
  BY <1>1, HotInvHolds, PTL

\* A key is marked hot only when some sample window brought threshold requests,
\* even when prune resets or drops the counter between the lookup, the increment
\* and the check of Record.
THEOREM HotEarned == Spec => []HotIsEarned
<1>1. HotInv => HotIsEarned
  BY DEF HotInv
<1> QED
  BY <1>1, HotInvHolds, PTL

\* A counter that has reached the first multiple of the stride at or above the
\* threshold has its key hot, or a request on its way to mark it: comparing the
\* count at multiples of the stride only never misses a hot key.
THEOREM HotNoticed == Spec => []HotIsNoticed
<1>1. HotInv => HotIsNoticed
  BY DEF HotInv, Noticed, HotIsNoticed
<1> QED
  BY <1>1, HotInvHolds, PTL
=============================================================================
