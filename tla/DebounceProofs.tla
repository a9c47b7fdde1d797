--------------------------- MODULE DebounceProofs ---------------------------
(***************************************************************************)
(* Every property of the debounce algorithms, for any number of keys, any  *)
(* DEBOUNCE, any timer period and any gap between two scans.               *)
(*                                                                         *)
(* A counter is the difference between DEBOUNCE and a time that the code   *)
(* does not measure but the history variables do: how long a key has been  *)
(* quiet, or how long its state has been held.  The inductive invariants   *)
(* below say which difference, algorithm by algorithm.                     *)
(***************************************************************************)
EXTENDS Debounce, TLAPS

Times == 0 .. TimerMod - 1

-----------------------------------------------------------------------------
(* The inductive invariant *)

CounterAlgorithms == Algorithms \ {"sym_defer_g"}
Eager == {"sym_eager_pk", "sym_eager_pr"}

\* No counter runs unnoticed, and the next scan subtracts the time since this one.
Noticed ==
  /\ needUpdate => lastTime = now
  /\ \A u \in Unit : counter[u] # 0 => needUpdate

\* The counter of a key that differs has run since the key changed.
DeferPk ==
  \A u \in Unit :
    /\ counter[u] = 0 => raw[u] = cooked[u]
    /\ counter[u] # 0 => raw[u] # cooked[u] /\ quiet[u] = DEBOUNCE - counter[u]

\* That of a row that differs, since some row changed.
DeferPr ==
  \A u \in Unit :
    /\ counter[u] = 0 => raw[u] = cooked[u]
    /\ counter[u] # 0 => /\ raw[u] # cooked[u]
                         /\ quiet[u] >= DEBOUNCE - counter[u]
                         /\ \E v \in Unit : quiet[v] <= DEBOUNCE - counter[u]

\* The one timer has run since some key changed.
Debouncing == (now - lastTime) % TimerMod

DeferG ==
  /\ raw # cooked => needUpdate
  /\ needUpdate => /\ Debouncing < DEBOUNCE
                   /\ \A u \in Unit : quiet[u] >= Debouncing
                   /\ \E u \in Unit : quiet[u] <= Debouncing

\* The counter has run since the unit was passed on.
EagerInv ==
  \A u \in Unit :
    /\ held[u] >= DEBOUNCE - counter[u]
    /\ counter[u] = 0 => raw[u] = cooked[u]
    /\ counter[u] # 0 => held[u] <= DEBOUNCE - counter[u]

\* A counter runs only for a key that is passed on as pressed: since the press,
\* or since a scan that found it released and no other counter of it running.
Asym ==
  \A u \in Unit :
    /\ counter[u] = 0 => raw[u] = cooked[u]
    /\ counter[u] # 0 => cooked[u]
    /\ counter[u] # 0 /\ pressed[u] /\ ~raw[u] => quiet[u] <= DEBOUNCE - counter[u]
    /\ counter[u] # 0 /\ ~pressed[u] =>
         /\ ~raw[u]
         /\ quiet[u] >= DEBOUNCE - counter[u]
         /\ quiet[u] <= 2 * DEBOUNCE + MaxGap - 1 - counter[u]

IInv ==
  /\ TypeOK
  /\ algorithm \in CounterAlgorithms => Noticed
  /\ algorithm = "sym_defer_pk" => DeferPk
  /\ algorithm = "sym_defer_pr" => DeferPr
  /\ algorithm = "sym_defer_g" => DeferG
  /\ algorithm \in Eager => EagerInv
  /\ algorithm = "asym_eager_defer_pk" => Asym

-----------------------------------------------------------------------------
(* Time *)

LEMMA ModOfSum ==
  ASSUME NEW T \in Nat \ {0}, NEW x \in 0 .. T - 1, NEW y \in 0 .. T - 1
  PROVE  (x + y) % T \in 0 .. T - 1 /\ ((x + y) % T = x + y \/ (x + y) % T = x + y - T)
OBVIOUS

LEMMA ModOfDifference ==
  ASSUME NEW T \in Nat \ {0}, NEW x \in 0 .. T - 1, NEW y \in 0 .. T - 1
  PROVE  (x - y) % T \in 0 .. T - 1 /\ ((x - y) % T = x - y \/ (x - y) % T = x - y + T)
OBVIOUS

LEMMA Constants ==
  /\ DEBOUNCE \in Nat \ {0} /\ CounterMax \in Nat /\ DEBOUNCE <= CounterMax
  /\ MaxGap \in Nat \ {0} /\ TimerMod \in Nat \ {0} /\ TimerMod > DEBOUNCE + MaxGap
  /\ Forever \in Nat /\ Forever = 2 * DEBOUNCE + MaxGap
BY DebounceAssumption DEF Forever

LEMMA Around ==
  ASSUME NEW T \in Nat \ {0}, NEW n \in 0 .. T - 1, NEW t \in 0 .. T - 1, NEW d \in Nat,
         NEW m \in 0 .. T - 1, NEW e \in 0 .. T - 1, NEW f \in 0 .. T - 1,
         m = n + d \/ m = n + d - T, e = n - t \/ e = n - t + T,
         f = m - t \/ f = m - t + T, e + d < T
  PROVE  f = e + d
OBVIOUS

\* The timer never wraps unnoticed between two scans, nor while a state is awaited.
LEMMA TimeAdds ==
  ASSUME NEW n \in Times, NEW t \in Times, NEW d \in 0 .. MaxGap,
         ((n - t) % TimerMod) + d < TimerMod
  PROVE  /\ (n + d) % TimerMod \in Times
         /\ (((n + d) % TimerMod) - t) % TimerMod = ((n - t) % TimerMod) + d
<1> DEFINE m == (n + d) % TimerMod
           e == (n - t) % TimerMod
           f == (m - t) % TimerMod
<1>1. /\ TimerMod \in Nat \ {0} /\ n \in 0 .. TimerMod - 1 /\ t \in 0 .. TimerMod - 1
      /\ d \in 0 .. TimerMod - 1 /\ d \in Nat
  BY Constants DEF Times
<1>2. m \in 0 .. TimerMod - 1 /\ (m = n + d \/ m = n + d - TimerMod)
  BY <1>1, ModOfSum
<1>3. e \in 0 .. TimerMod - 1 /\ (e = n - t \/ e = n - t + TimerMod)
  BY <1>1, ModOfDifference
<1>4. e + d < TimerMod
  OBVIOUS
<1> HIDE DEF m, e
<1>5. f \in 0 .. TimerMod - 1 /\ (f = m - t \/ f = m - t + TimerMod)
  BY <1>1, <1>2, ModOfDifference
<1> HIDE DEF f
<1>6. f = e + d
  BY <1>1, <1>2, <1>3, <1>4, <1>5, Around
<1> QED  BY <1>2, <1>6 DEF m, e, f, Times

LEMMA TimeSinceNow ==
  ASSUME TypeOK, NEW d \in 0 .. MaxGap, now' = (now + d) % TimerMod
  PROVE  now' \in Times /\ TimeSince(now) = d
<1>1. now \in Times /\ now - now = 0
  BY Constants DEF TypeOK, Times
<1>2. 0 % TimerMod = 0
  BY Constants
<1>3. (now - now) % TimerMod = 0 /\ 0 + d < TimerMod
  BY <1>1, <1>2, Constants
<1>4. (now + d) % TimerMod \in Times /\ (((now + d) % TimerMod) - now) % TimerMod = ((now - now) % TimerMod) + d
  BY <1>1, <1>3, TimeAdds
<1>5. TimeSince(now) = 0 + d
  BY <1>3, <1>4 DEF TimeSince
<1> QED  BY <1>4, <1>5, Constants

-----------------------------------------------------------------------------
(* Counting down *)

LEMMA AtMostType ==
  ASSUME NEW a \in Nat, NEW b \in Nat
  PROVE  /\ AtMost(a, b) \in 0 .. b /\ AtMost(a, b) <= a
         /\ AtMost(a, b) = a \/ AtMost(a, b) = b
BY DEF AtMost

\* The cap on the time a counter is decremented by is never reached by a counter
\* that goes on running, so that a counter loses what the timer has gained.
LEMMA Countdown ==
  ASSUME TypeOK, Noticed, NEW d \in 0 .. MaxGap, now' = (now + d) % TimerMod
  PROVE  /\ \A u \in Unit : /\ Expires(u) <=> counter[u] # 0 /\ counter[u] <= d
                            /\ CountedDown[u] = IF counter[u] <= d THEN 0 ELSE counter[u] - d
                            /\ CountedDown[u] \in 0 .. DEBOUNCE
                            /\ CountedDown[u] # 0 => StillRunning
         /\ StillRunning \in BOOLEAN /\ (StillRunning => needUpdate)
<1>1. /\ needUpdate => Elapsed = AtMost(d, CounterMax)
      /\ ~needUpdate => Elapsed = 0
  BY TimeSinceNow DEF Noticed, Elapsed
<1>2. d \in Nat /\ Elapsed \in Nat /\ Elapsed <= d /\ (Elapsed # d /\ needUpdate => Elapsed >= DEBOUNCE)
  <2>1. d \in Nat /\ CounterMax \in Nat /\ DEBOUNCE \in Nat /\ DEBOUNCE <= CounterMax
    BY Constants
  <2>2. CASE needUpdate
    <3>1. AtMost(d, CounterMax) = IF d <= CounterMax THEN d ELSE CounterMax
      BY DEF AtMost
    <3>2. Elapsed = IF d <= CounterMax THEN d ELSE CounterMax
      BY <1>1, <2>2, <3>1
    <3>3. Elapsed \in Nat /\ Elapsed <= d /\ (Elapsed # d => Elapsed >= DEBOUNCE)
      BY <2>1, <3>2
    <3> QED  BY <2>1, <3>3
  <2>3. CASE ~needUpdate
    <3>1. Elapsed = 0
      BY <1>1, <2>3
    <3>2. Elapsed \in Nat /\ Elapsed <= d
      BY <2>1, <3>1
    <3> QED  BY <2>1, <2>3, <3>2
  <2> QED  BY <2>2, <2>3
<1>3. ASSUME NEW u \in Unit
      PROVE  /\ Expires(u) <=> counter[u] # 0 /\ counter[u] <= d
             /\ CountedDown[u] = IF counter[u] <= d THEN 0 ELSE counter[u] - d
             /\ CountedDown[u] \in 0 .. DEBOUNCE
  <2>1. counter[u] \in 0 .. DEBOUNCE /\ (counter[u] # 0 => needUpdate)
    BY DEF TypeOK, Noticed
  <2>2. CountedDown[u] = IF counter[u] <= Elapsed THEN 0 ELSE counter[u] - Elapsed
    BY DEF CountedDown
  <2> QED  BY <1>2, <2>1, <2>2, Constants DEF Expires
<1>4. needUpdate \in BOOLEAN
  BY DEF TypeOK
<1>5. ASSUME NEW u \in Unit, CountedDown[u] # 0
      PROVE  StillRunning
  <2>1. CASE Elapsed > 0
    BY <1>5, <2>1 DEF StillRunning
  <2>2. CASE ~(Elapsed > 0)
    BY <1>2, <1>3, <1>5, <2>2 DEF StillRunning, Noticed, TypeOK
  <2> QED  BY <2>1, <2>2
<1>6. StillRunning \in BOOLEAN /\ (StillRunning => needUpdate)
  <2>1. CASE Elapsed > 0
    BY <1>1, <1>4, <2>1 DEF StillRunning
  <2>2. CASE ~(Elapsed > 0)
    BY <1>4, <2>2 DEF StillRunning
  <2> QED  BY <2>1, <2>2
<1> QED  BY <1>3, <1>5, <1>6

\* The histories of a unit.
LEMMA History ==
  ASSUME TypeOK, NEW r \in Readings, NEW d \in 0 .. MaxGap, Read(r, d), Passed(d), NEW u \in Unit
  PROVE  /\ raw' = r /\ algorithm' = algorithm /\ now' = (now + d) % TimerMod
         /\ quiet'[u] \in 0 .. Forever /\ held'[u] \in 0 .. Forever
         /\ raw'[u] # raw[u] => quiet'[u] = 0 /\ Changed
         /\ raw'[u] = raw[u] => quiet'[u] = AtMost(quiet[u] + d, Forever)
         /\ quiet[u] \in 0 .. Forever /\ quiet'[u] <= quiet[u] + d
         /\ cooked'[u] # cooked[u] => held'[u] = 0
         /\ cooked'[u] = cooked[u] => held'[u] = AtMost(held[u] + d, Forever)
         /\ held[u] \in 0 .. Forever /\ held'[u] <= held[u] + d
<1>1. quiet[u] \in 0 .. Forever /\ held[u] \in 0 .. Forever /\ d \in Nat
  BY Constants DEF TypeOK
<1>2. /\ quiet'[u] = IF raw'[u] # raw[u] THEN 0 ELSE AtMost(quiet[u] + d, Forever)
      /\ held'[u] = IF cooked'[u] # cooked[u] THEN 0 ELSE AtMost(held[u] + d, Forever)
      /\ raw' = r /\ algorithm' = algorithm /\ now' = (now + d) % TimerMod
  BY DEF Read, Passed
<1>3. /\ AtMost(quiet[u] + d, Forever) \in 0 .. Forever /\ AtMost(quiet[u] + d, Forever) <= quiet[u] + d
      /\ AtMost(held[u] + d, Forever) \in 0 .. Forever /\ AtMost(held[u] + d, Forever) <= held[u] + d
  BY <1>1, Constants DEF AtMost
<1> QED  BY <1>1, <1>2, <1>3, Constants DEF Changed

-----------------------------------------------------------------------------
(* sym_defer_pk *)

\* What a scan of sym_defer_pk does to one key.
LEMMA DeferPkStep ==
  ASSUME IInv, algorithm = "sym_defer_pk",
         NEW r \in Readings, NEW d \in 0 .. MaxGap, Read(r, d), Passed(d), SymDeferPk,
         NEW u \in Unit
  PROVE  /\ counter'[u] = 0 => raw'[u] = cooked'[u]
         /\ counter'[u] # 0 => raw'[u] # cooked'[u] /\ quiet'[u] = DEBOUNCE - counter'[u]
         /\ counter'[u] # 0 => needUpdate'
         /\ counter'[u] \in 0 .. DEBOUNCE
         /\ cooked'[u] # cooked[u] => cooked'[u] = raw'[u] /\ quiet'[u] >= DEBOUNCE
<1>1. TypeOK /\ Noticed /\ DeferPk
  BY DEF IInv, CounterAlgorithms, Algorithms
<1>2. now' = (now + d) % TimerMod
  BY DEF Read
<1>3. /\ Expires(u) <=> counter[u] # 0 /\ counter[u] <= d
      /\ CountedDown[u] = IF counter[u] <= d THEN 0 ELSE counter[u] - d
      /\ CountedDown[u] # 0 => StillRunning
  BY <1>1, <1>2, Countdown
<1>4. counter[u] \in 0 .. DEBOUNCE /\ d \in Nat
  BY <1>1, Constants DEF TypeOK
<1>5. raw[u] \in BOOLEAN /\ cooked[u] \in BOOLEAN /\ raw'[u] \in BOOLEAN
  BY <1>1 DEF TypeOK, Readings, PerRow, Read
<1>6. /\ cooked'[u] = IF Expires(u) THEN raw'[u] ELSE cooked[u]
      /\ counter'[u] = IF Changed THEN IF raw'[u] = cooked'[u] THEN 0
                                       ELSE IF CountedDown[u] = 0 THEN DEBOUNCE ELSE CountedDown[u]
                       ELSE CountedDown[u]
      /\ needUpdate' = (StillRunning \/ (Changed /\ \E v \in Unit : Differs(v) /\ CountedDown[v] = 0))
  BY DEF SymDeferPk, Defer, Transferred, StartedPerKey, Differs
<1>7. Differs(u) <=> raw'[u] # cooked'[u]
  BY DEF SymDeferPk, Defer, Differs
<1>8. /\ counter[u] = 0 => raw[u] = cooked[u]
      /\ counter[u] # 0 => raw[u] # cooked[u] /\ quiet[u] = DEBOUNCE - counter[u]
  BY <1>1 DEF DeferPk
<1>9. /\ raw'[u] # raw[u] => quiet'[u] = 0 /\ Changed
      /\ raw'[u] = raw[u] => quiet'[u] = AtMost(quiet[u] + d, Forever)
      /\ quiet[u] \in 0 .. Forever
  BY <1>1, History
<1>10. raw'[u] = raw[u] => quiet'[u] = IF quiet[u] + d <= Forever THEN quiet[u] + d ELSE Forever
  BY <1>9 DEF AtMost
<1>11. CASE counter[u] = 0
  BY <1>3, <1>4, <1>5, <1>6, <1>7, <1>8, <1>9, <1>11, Constants
<1>12. CASE counter[u] # 0 /\ counter[u] <= d
  BY <1>3, <1>4, <1>5, <1>6, <1>8, <1>9, <1>10, <1>12, Constants
<1>13. CASE counter[u] > d
  BY <1>3, <1>4, <1>5, <1>6, <1>8, <1>9, <1>10, <1>13, Constants
<1> QED  BY <1>4, <1>11, <1>12, <1>13

-----------------------------------------------------------------------------
(* sym_defer_pr *)

LEMMA SomeUnitChanged ==
  ASSUME TypeOK, NEW r \in Readings, NEW d \in 0 .. MaxGap, Read(r, d), Passed(d), Changed
  PROVE  \E v \in Unit : quiet'[v] = 0
<1>1. PICK v \in Unit : raw'[v] # raw[v]
  BY DEF TypeOK, Read, Readings, Changed
<1> QED  BY <1>1, History

\* What a scan of sym_defer_pr does to one row.
LEMMA DeferPrStep ==
  ASSUME IInv, algorithm = "sym_defer_pr",
         NEW r \in Readings, NEW d \in 0 .. MaxGap, Read(r, d), Passed(d), SymDeferPr,
         NEW u \in Unit
  PROVE  /\ counter'[u] = 0 => raw'[u] = cooked'[u]
         /\ counter'[u] # 0 => /\ raw'[u] # cooked'[u]
                               /\ quiet'[u] >= DEBOUNCE - counter'[u]
                               /\ \E v \in Unit : quiet'[v] <= DEBOUNCE - counter'[u]
         /\ counter'[u] # 0 => needUpdate'
         /\ counter'[u] \in 0 .. DEBOUNCE
         /\ cooked'[u] # cooked[u] => cooked'[u] = raw'[u] /\ quiet[u] + d >= DEBOUNCE
<1>1. TypeOK /\ Noticed /\ DeferPr
  BY DEF IInv, CounterAlgorithms, Algorithms
<1>2. now' = (now + d) % TimerMod
  BY DEF Read
<1>3. /\ Expires(u) <=> counter[u] # 0 /\ counter[u] <= d
      /\ CountedDown[u] = IF counter[u] <= d THEN 0 ELSE counter[u] - d
      /\ CountedDown[u] # 0 => StillRunning
  BY <1>1, <1>2, Countdown
<1>4. counter[u] \in 0 .. DEBOUNCE /\ d \in Nat
  BY <1>1, Constants DEF TypeOK
<1>5. /\ cooked'[u] = IF Expires(u) THEN raw'[u] ELSE cooked[u]
      /\ counter'[u] = IF Changed THEN IF raw'[u] = cooked'[u] THEN 0 ELSE DEBOUNCE ELSE CountedDown[u]
      /\ needUpdate' = (StillRunning \/ (Changed /\ \E v \in Unit : Differs(v)))
  BY DEF SymDeferPr, Defer, Transferred, StartedPerRow, Differs
<1>6. Differs(u) <=> raw'[u] # cooked'[u]
  BY DEF SymDeferPr, Defer, Differs
<1>7. /\ counter[u] = 0 => raw[u] = cooked[u]
      /\ counter[u] # 0 => raw[u] # cooked[u] /\ quiet[u] >= DEBOUNCE - counter[u]
  BY <1>1 DEF DeferPr
<1>8. /\ raw'[u] # raw[u] => Changed
      /\ raw'[u] = raw[u] => quiet'[u] = AtMost(quiet[u] + d, Forever)
      /\ quiet[u] \in 0 .. Forever /\ quiet'[u] \in 0 .. Forever
  BY <1>1, History
<1>9. raw'[u] = raw[u] => quiet'[u] = IF quiet[u] + d <= Forever THEN quiet[u] + d ELSE Forever
  BY <1>8 DEF AtMost
<1>10. CASE Changed
  <2>1. PICK v \in Unit : quiet'[v] = 0
    BY <1>1, <1>10, SomeUnitChanged
  <2>2. counter'[u] = IF raw'[u] = cooked'[u] THEN 0 ELSE DEBOUNCE
    BY <1>5, <1>10
  <2>3. counter'[u] # 0 => needUpdate'
    BY <1>5, <1>6, <1>10, <2>2
  <2>4. cooked'[u] # cooked[u] => cooked'[u] = raw'[u] /\ quiet[u] + d >= DEBOUNCE
    BY <1>3, <1>4, <1>5, <1>7, <1>8, Constants
  <2>5. counter'[u] # 0 => /\ raw'[u] # cooked'[u]
                           /\ quiet'[u] >= DEBOUNCE - counter'[u]
                           /\ quiet'[v] <= DEBOUNCE - counter'[u]
    BY <1>8, <2>1, <2>2, Constants
  <2> QED  BY <2>2, <2>3, <2>4, <2>5, Constants
<1>11. CASE ~Changed
  <2>1. raw'[u] = raw[u]
    BY <1>11 DEF Changed
  <2>2. CASE counter[u] <= d
    BY <1>3, <1>4, <1>5, <1>7, <1>8, <1>11, <2>1, <2>2, Constants
  <2>3. CASE counter[u] > d
    <3>1. PICK v \in Unit : quiet[v] <= DEBOUNCE - counter[u]
      BY <1>1, <1>4, <2>3 DEF DeferPr
    <3>2. quiet'[v] <= quiet[v] + d /\ quiet'[v] \in 0 .. Forever /\ quiet[v] \in 0 .. Forever
      BY <1>1, History
    <3>3. counter'[u] = counter[u] - d /\ cooked'[u] = cooked[u] /\ needUpdate'
      <4>1. ~Expires(u) /\ CountedDown[u] = counter[u] - d /\ CountedDown[u] # 0
        BY <1>3, <1>4, <2>3
      <4>2. StillRunning /\ counter'[u] = CountedDown[u] /\ cooked'[u] = cooked[u]
        BY <1>3, <1>5, <1>11, <4>1
      <4> QED  BY <1>5, <4>1, <4>2
    <3>4. quiet'[v] <= DEBOUNCE - counter'[u]
      BY <1>4, <3>1, <3>2, <3>3, Constants
    <3> QED  BY <1>4, <1>7, <1>8, <1>9, <2>1, <2>3, <3>3, <3>4, Constants
  <2> QED  BY <1>4, <2>2, <2>3
<1> QED  BY <1>10, <1>11

-----------------------------------------------------------------------------
(* sym_defer_g *)

\* What a scan of sym_defer_g does.
LEMMA DeferGStep ==
  ASSUME IInv, algorithm = "sym_defer_g",
         NEW r \in Readings, NEW d \in 0 .. MaxGap, Read(r, d), Passed(d), SymDeferG
  PROVE  /\ DeferG'
         /\ \A u \in Unit : cooked'[u] # cooked[u] => cooked'[u] = raw'[u] /\ quiet'[u] >= DEBOUNCE
<1>1. TypeOK /\ DeferG
  BY DEF IInv
<1>2. /\ now \in Times /\ lastTime \in Times /\ d \in Nat /\ needUpdate \in BOOLEAN
      /\ now' = (now + d) % TimerMod /\ now' \in Times
  BY <1>1, TimeSinceNow, Constants DEF TypeOK, Times, Read
<1>3. Debouncing \in 0 .. TimerMod - 1
  BY <1>2, ModOfDifference, Constants DEF Debouncing, Times
<1>4. needUpdate => TimeSince(lastTime) = Debouncing + d
  <2>1. SUFFICES ASSUME needUpdate PROVE TimeSince(lastTime) = Debouncing + d
    OBVIOUS
  <2>2. Debouncing + d < TimerMod
    BY <1>1, <1>2, <1>3, <2>1, Constants DEF DeferG
  <2> QED  BY <1>2, <2>2, TimeAdds DEF Debouncing, TimeSince
<1>5. CASE Changed
  <2>1. /\ cooked' = cooked /\ needUpdate' /\ lastTime' = now'
    BY <1>5 DEF SymDeferG, Due
  <2>2. PICK v \in Unit : quiet'[v] = 0
    BY <1>1, <1>5, SomeUnitChanged
  <2>3. now' - now' = 0 /\ 0 % TimerMod = 0
    BY <1>2, Constants DEF Times
  <2>4. Debouncing' = 0
    BY <2>1, <2>3 DEF Debouncing
  <2>5. \A u \in Unit : quiet'[u] \in 0 .. Forever
    BY <1>1, History
  <2> QED  BY <2>1, <2>2, <2>4, <2>5, Constants DEF DeferG
<1>6. CASE ~Changed
  <2>1. raw' = raw /\ lastTime' = lastTime
    BY <1>6 DEF SymDeferG, Changed
  <2>2. Debouncing' = TimeSince(lastTime)
    BY <2>1 DEF Debouncing, TimeSince
  <2>3. \A u \in Unit : /\ quiet[u] \in 0 .. Forever
                        /\ quiet'[u] = IF quiet[u] + d <= Forever THEN quiet[u] + d ELSE Forever
    BY <1>1, <2>1, History DEF AtMost
  <2>4. CASE Due
    <3>1. needUpdate /\ Debouncing + d >= DEBOUNCE /\ cooked' = raw' /\ ~needUpdate'
      BY <1>2, <1>4, <1>6, <2>4 DEF Due, SymDeferG
    <3>2. ASSUME NEW u \in Unit PROVE quiet'[u] >= DEBOUNCE
      <4>1. quiet[u] >= Debouncing
        BY <1>1, <3>1 DEF DeferG
      <4> QED  BY <1>2, <1>3, <2>3, <3>1, <4>1, Constants
    <3> QED  BY <3>1, <3>2 DEF DeferG
  <2>5. CASE ~Due
    <3>1. cooked' = cooked /\ needUpdate' = needUpdate
      BY <1>2, <1>6, <2>5 DEF SymDeferG
    <3>2. raw' # cooked' => needUpdate'
      BY <1>1, <2>1, <3>1 DEF DeferG
    <3>3. ASSUME needUpdate'
          PROVE  /\ Debouncing' < DEBOUNCE
                 /\ \A u \in Unit : quiet'[u] >= Debouncing'
                 /\ \E u \in Unit : quiet'[u] <= Debouncing'
      <4>1. needUpdate /\ Debouncing' = Debouncing + d
        BY <1>4, <2>2, <3>1, <3>3
      <4>2. Debouncing + d < DEBOUNCE
        BY <1>2, <1>3, <1>4, <1>6, <2>5, <4>1, Constants DEF Due
      <4>3. ASSUME NEW u \in Unit PROVE quiet'[u] >= Debouncing'
        <5>1. quiet[u] >= Debouncing
          BY <1>1, <4>1 DEF DeferG
        <5> QED  BY <1>2, <1>3, <2>3, <4>1, <4>2, <5>1, Constants
      <4>4. PICK v \in Unit : quiet[v] <= Debouncing
        BY <1>1, <4>1 DEF DeferG
      <4>5. quiet'[v] <= Debouncing'
        BY <1>2, <1>3, <2>3, <4>1, <4>2, <4>4, Constants
      <4> QED  BY <4>1, <4>2, <4>3, <4>5
    <3> QED  BY <3>1, <3>2, <3>3 DEF DeferG
  <2> QED  BY <2>4, <2>5
<1> QED  BY <1>5, <1>6

-----------------------------------------------------------------------------
(* sym_eager_pk and sym_eager_pr *)

\* What a scan of the eager algorithms does to one unit.
LEMMA EagerStep ==
  ASSUME IInv, algorithm \in Eager,
         NEW r \in Readings, NEW d \in 0 .. MaxGap, Read(r, d), Passed(d), SymEager,
         NEW u \in Unit
  PROVE  /\ held'[u] >= DEBOUNCE - counter'[u]
         /\ counter'[u] = 0 => raw'[u] = cooked'[u]
         /\ counter'[u] # 0 => held'[u] <= DEBOUNCE - counter'[u]
         /\ counter'[u] # 0 => needUpdate'
         /\ counter'[u] \in 0 .. DEBOUNCE
         /\ cooked'[u] # cooked[u] => held[u] + d >= DEBOUNCE
<1>1. TypeOK /\ Noticed /\ EagerInv
  BY DEF IInv, CounterAlgorithms, Algorithms, Eager
<1>2. now' = (now + d) % TimerMod
  BY DEF Read
<1>3. \A v \in Unit : /\ Expires(v) <=> counter[v] # 0 /\ counter[v] <= d
                      /\ CountedDown[v] = IF counter[v] <= d THEN 0 ELSE counter[v] - d
                      /\ CountedDown[v] # 0 => StillRunning
  BY <1>1, <1>2, Countdown
<1>4. counter[u] \in 0 .. DEBOUNCE /\ d \in Nat
  BY <1>1, Constants DEF TypeOK
<1>5. /\ held[u] >= DEBOUNCE - counter[u]
      /\ counter[u] = 0 => raw[u] = cooked[u]
      /\ counter[u] # 0 => held[u] <= DEBOUNCE - counter[u]
  BY <1>1 DEF EagerInv
<1>6. /\ cooked'[u] = IF Flips(u) THEN raw'[u] ELSE cooked[u]
      /\ counter'[u] = IF Flips(u) THEN DEBOUNCE ELSE CountedDown[u]
      /\ needUpdate' = (StillRunning \/ \E v \in Unit : Flips(v))
  BY DEF SymEager
<1>7. /\ raw'[u] # raw[u] => Changed
      /\ cooked'[u] # cooked[u] => held'[u] = 0
      /\ cooked'[u] = cooked[u] => held'[u] = AtMost(held[u] + d, Forever)
      /\ held[u] \in 0 .. Forever
  BY <1>1, History
<1>8. cooked'[u] = cooked[u] => held'[u] = IF held[u] + d <= Forever THEN held[u] + d ELSE Forever
  BY <1>7 DEF AtMost
<1>9. CASE Flips(u)
  <2>1. CountedDown[u] = 0 /\ raw'[u] # cooked[u]
    BY <1>9 DEF Flips
  <2>2. cooked'[u] = raw'[u] /\ counter'[u] = DEBOUNCE /\ held'[u] = 0 /\ needUpdate'
    BY <1>6, <1>7, <1>9, <2>1
  <2>3. held[u] + d >= DEBOUNCE
    BY <1>3, <1>4, <1>5, <1>7, <2>1, Constants
  <2> QED  BY <2>2, <2>3, Constants
<1>10. CASE ~Flips(u)
  <2>1. cooked'[u] = cooked[u] /\ counter'[u] = CountedDown[u]
    BY <1>6, <1>10
  <2>2. held'[u] = IF held[u] + d <= Forever THEN held[u] + d ELSE Forever
    BY <1>8, <2>1
  <2>3. CountedDown[u] = IF counter[u] <= d THEN 0 ELSE counter[u] - d
    BY <1>3
  <2>4. counter'[u] # 0 => needUpdate'
    BY <1>3, <1>6, <2>1
  <2>5. counter'[u] = 0 => raw'[u] = cooked'[u]
    <3>1. SUFFICES ASSUME counter'[u] = 0, raw'[u] # cooked[u] PROVE FALSE
      BY <2>1
    <3>2. ~Changed /\ ~Expires(u)
      BY <1>10, <2>1, <3>1 DEF Flips
    <3>3. counter[u] = 0 /\ raw'[u] = raw[u]
      BY <1>3, <1>4, <1>7, <2>1, <2>3, <3>1, <3>2
    <3> QED  BY <1>5, <3>1, <3>3
  <2> QED  BY <1>4, <1>5, <1>7, <2>1, <2>2, <2>3, <2>4, <2>5, Constants
<1> QED  BY <1>9, <1>10

-----------------------------------------------------------------------------
(* asym_eager_defer_pk *)

AsymKey(u) ==
  /\ counter[u] = 0 => raw[u] = cooked[u]
  /\ counter[u] # 0 => cooked[u]
  /\ counter[u] # 0 /\ pressed[u] /\ ~raw[u] => quiet[u] <= DEBOUNCE - counter[u]
  /\ counter[u] # 0 /\ ~pressed[u] =>
       /\ ~raw[u]
       /\ quiet[u] >= DEBOUNCE - counter[u]
       /\ quiet[u] <= 2 * DEBOUNCE + MaxGap - 1 - counter[u]

\* What a scan of asym_eager_defer_pk does to one key.
LEMMA AsymStep ==
  ASSUME IInv, algorithm = "asym_eager_defer_pk",
         NEW r \in Readings, NEW d \in 0 .. MaxGap, Read(r, d), Passed(d), AsymEagerDefer,
         NEW u \in Unit
  PROVE  /\ AsymKey(u)'
         /\ counter'[u] # 0 => needUpdate'
         /\ counter'[u] \in 0 .. DEBOUNCE
         /\ cooked'[u] \in BOOLEAN /\ pressed'[u] \in BOOLEAN
         /\ cooked[u] /\ ~cooked'[u] => quiet'[u] >= DEBOUNCE
<1>1. TypeOK /\ Noticed /\ AsymKey(u)
  BY DEF IInv, CounterAlgorithms, Algorithms, Asym, AsymKey
<1>2. now' = (now + d) % TimerMod
  BY DEF Read
<1>3. /\ Expires(u) <=> counter[u] # 0 /\ counter[u] <= d
      /\ CountedDown[u] = IF counter[u] <= d THEN 0 ELSE counter[u] - d
      /\ CountedDown[u] # 0 => StillRunning
  BY <1>1, <1>2, Countdown
<1>4. counter[u] \in 0 .. DEBOUNCE /\ d \in 0 .. MaxGap
  BY <1>1 DEF TypeOK
<1>5. raw[u] \in BOOLEAN /\ cooked[u] \in BOOLEAN /\ raw'[u] \in BOOLEAN /\ pressed[u] \in BOOLEAN
  BY <1>1 DEF TypeOK, Readings, PerRow, Read
<1>6. /\ cooked'[u] = IF Starts(u) /\ raw'[u] THEN TRUE ELSE Released[u]
      /\ pressed'[u] = IF Starts(u) THEN raw'[u] ELSE pressed[u]
      /\ counter'[u] = IF Starts(u) THEN DEBOUNCE
                       ELSE IF Transfers /\ raw'[u] = Released[u] /\ ~pressed[u] THEN 0
                       ELSE CountedDown[u]
      /\ Starts(u) \/ StillRunning => needUpdate'
  BY DEF AsymEagerDefer
<1>7. /\ Released[u] = IF Expires(u) /\ ~pressed[u] THEN raw'[u] ELSE cooked[u]
      /\ Changed \/ (Expires(u) /\ pressed[u]) => Transfers
      /\ Starts(u) <=> Transfers /\ raw'[u] # Released[u] /\ CountedDown[u] = 0
  BY DEF Released, Transfers, Starts
<1>8. /\ raw'[u] # raw[u] => quiet'[u] = 0 /\ Changed
      /\ raw'[u] = raw[u] => quiet'[u] = AtMost(quiet[u] + d, Forever)
      /\ quiet[u] \in 0 .. Forever
  BY <1>1, History
<1>9. raw'[u] = raw[u] => quiet'[u] = IF quiet[u] + d <= Forever THEN quiet[u] + d ELSE Forever
  BY <1>8 DEF AtMost
\* Nothing runs: what is read is passed on, or its release begins to be awaited.
<1>10. CASE counter[u] = 0
  <2>1. raw[u] = cooked[u] /\ Released[u] = cooked[u] /\ CountedDown[u] = 0
    BY <1>1, <1>3, <1>4, <1>7, <1>10, Constants DEF AsymKey
  <2>2. CASE raw'[u] = raw[u]
    BY <1>5, <1>6, <1>7, <1>10, <2>1, <2>2, Constants DEF AsymKey
  <2>3. CASE raw'[u] # raw[u]
    <3>1. Starts(u) /\ counter'[u] = DEBOUNCE /\ pressed'[u] = raw'[u] /\ needUpdate'
      BY <1>6, <1>7, <1>8, <2>1, <2>3
    <3>2. counter'[u] # 0 /\ counter'[u] \in 0 .. DEBOUNCE
      BY <3>1, Constants
    <3>3. cooked'[u] = TRUE
      BY <1>5, <1>6, <2>1, <2>3, <3>1
    <3>4. /\ quiet'[u] >= DEBOUNCE - counter'[u]
          /\ quiet'[u] <= 2 * DEBOUNCE + MaxGap - 1 - counter'[u]
      <4>1. quiet'[u] = 0
        BY <1>8, <2>3
      <4> QED  BY <3>1, <4>1, Constants
    <3> QED  BY <1>5, <3>1, <3>2, <3>3, <3>4 DEF AsymKey
  <2> QED  BY <2>2, <2>3
\* The lock that follows a press.
<1>11. CASE counter[u] # 0 /\ pressed[u]
  <2>1. cooked[u] /\ Released[u] = cooked[u]
    BY <1>1, <1>7, <1>11 DEF AsymKey
  <2>2. ~raw[u] => quiet[u] <= DEBOUNCE - counter[u]
    BY <1>1, <1>11 DEF AsymKey
  <2>3. ~raw'[u] => quiet'[u] <= DEBOUNCE - counter[u] + d
    <3>1. CASE raw'[u] = raw[u]
      BY <1>4, <1>8, <1>9, <2>2, <3>1, Constants
    <3>2. CASE raw'[u] # raw[u]
      BY <1>4, <1>8, <3>2, Constants
    <3> QED  BY <3>1, <3>2
  <2>4. CASE counter[u] > d
    <3>1. CountedDown[u] = counter[u] - d /\ CountedDown[u] # 0
      BY <1>3, <1>4, <2>4, Constants
    <3>2. ~Starts(u) /\ StillRunning
      BY <1>3, <1>7, <3>1
    <3>3. cooked'[u] = cooked[u] /\ pressed'[u] = pressed[u] /\ counter'[u] = CountedDown[u] /\ needUpdate'
      BY <1>6, <1>11, <2>1, <3>2
    <3>4. counter'[u] \in 0 .. DEBOUNCE /\ counter'[u] # 0 /\ DEBOUNCE - counter'[u] = DEBOUNCE - counter[u] + d
      <4>1. counter'[u] = counter[u] - d /\ counter[u] > d
        BY <2>4, <3>1, <3>3
      <4> QED  BY <1>4, <4>1, Constants
    <3>5. cooked'[u] /\ pressed'[u] /\ (~raw'[u] => quiet'[u] <= DEBOUNCE - counter'[u])
      BY <1>11, <2>1, <2>3, <3>3, <3>4
    <3> QED  BY <1>5, <3>3, <3>4, <3>5 DEF AsymKey
  <2>5. CASE counter[u] <= d
    <3>1. CountedDown[u] = 0 /\ Expires(u) /\ Transfers
      BY <1>3, <1>7, <1>11, <2>5
    <3>2. CASE raw'[u] = cooked[u]
      <4>1. ~Starts(u) /\ cooked'[u] = cooked[u] /\ pressed'[u] = pressed[u] /\ counter'[u] = 0
        BY <1>6, <1>7, <2>1, <3>1, <3>2
      <4> QED  BY <1>5, <2>1, <3>2, <4>1, Constants DEF AsymKey
    <3>3. CASE raw'[u] # cooked[u]
      <4>1. ~raw'[u] /\ Starts(u)
        BY <1>5, <1>7, <2>1, <3>1, <3>3
      <4>2. cooked'[u] = cooked[u] /\ pressed'[u] = raw'[u] /\ counter'[u] = DEBOUNCE /\ needUpdate'
        BY <1>6, <2>1, <4>1
      <4>3. quiet'[u] <= 2 * DEBOUNCE + MaxGap - 1 - counter'[u] /\ quiet'[u] >= DEBOUNCE - counter'[u]
        <5>1. quiet'[u] <= DEBOUNCE - counter[u] + d /\ counter[u] \in 1 .. DEBOUNCE
          BY <1>4, <1>11, <2>3, <4>1
        <5>2. quiet'[u] \in 0 .. Forever
          BY <1>1, History
        <5> QED  BY <1>4, <4>2, <5>1, <5>2, Constants
      <4>4. counter'[u] # 0 /\ counter'[u] \in 0 .. DEBOUNCE
        BY <4>2, Constants
      <4> QED  BY <1>5, <2>1, <4>1, <4>2, <4>3, <4>4 DEF AsymKey
    <3> QED  BY <3>2, <3>3
  <2> QED  BY <1>4, <2>4, <2>5
\* A release that is awaited.
<1>12. CASE counter[u] # 0 /\ ~pressed[u]
  <2>1. cooked[u] /\ ~raw[u] /\ quiet[u] >= DEBOUNCE - counter[u]
        /\ quiet[u] <= 2 * DEBOUNCE + MaxGap - 1 - counter[u]
    BY <1>1, <1>12 DEF AsymKey
  <2>0. quiet[u] >= DEBOUNCE - counter[u] /\ quiet[u] <= 2 * DEBOUNCE + MaxGap - 1 - counter[u]
    BY <2>1
  <2>9. quiet[u] \in 0 .. Forever
    BY <1>8
  \* The key is pressed again.
  <2>2. CASE raw'[u]
    <3>1. Changed /\ Transfers /\ Released[u] = cooked[u] /\ raw'[u] = cooked[u]
      BY <1>5, <1>7, <1>8, <2>1, <2>2
    <3>2. ~Starts(u) /\ cooked'[u] = cooked[u] /\ counter'[u] = 0 /\ pressed'[u] = pressed[u]
      BY <1>6, <1>7, <1>12, <3>1
    <3> QED  BY <1>5, <2>1, <3>1, <3>2, Constants DEF AsymKey
  <2>3. CASE ~raw'[u] /\ counter[u] > d
    <3>1. CountedDown[u] = counter[u] - d /\ CountedDown[u] # 0 /\ ~Expires(u)
      BY <1>3, <1>4, <2>3, Constants
    <3>2. ~Starts(u) /\ StillRunning /\ Released[u] = cooked[u] /\ raw'[u] # cooked[u]
      BY <1>3, <1>7, <2>1, <2>3, <3>1
    <3>3. cooked'[u] = cooked[u] /\ pressed'[u] = pressed[u] /\ counter'[u] = CountedDown[u] /\ needUpdate'
      BY <1>6, <3>2
    <3>4. raw'[u] = raw[u]
      BY <1>5, <2>1, <2>3
    <3>5. /\ counter'[u] \in 0 .. DEBOUNCE /\ counter'[u] # 0
          /\ quiet'[u] >= DEBOUNCE - counter'[u]
          /\ quiet'[u] <= 2 * DEBOUNCE + MaxGap - 1 - counter'[u]
      <4>1. counter'[u] = counter[u] - d /\ counter[u] > d
        BY <2>3, <3>1, <3>3
      <4>2. quiet'[u] = IF quiet[u] + d <= Forever THEN quiet[u] + d ELSE Forever
        BY <1>9, <3>4
      <4> QED  BY <1>4, <2>0, <2>9, <4>1, <4>2, Constants
    <3> QED  BY <1>5, <1>12, <2>1, <2>3, <3>3, <3>5 DEF AsymKey
  <2>4. CASE ~raw'[u] /\ counter[u] <= d
    <3>1. CountedDown[u] = 0 /\ Expires(u) /\ Released[u] = raw'[u] /\ raw'[u] = raw[u]
      BY <1>3, <1>5, <1>7, <1>12, <2>1, <2>4
    <3>2. ~Starts(u) /\ cooked'[u] = raw'[u] /\ pressed'[u] = pressed[u] /\ counter'[u] = 0
      BY <1>6, <1>7, <3>1
    <3>3. quiet'[u] >= DEBOUNCE
      BY <1>4, <1>8, <1>9, <2>1, <2>4, <3>1, Constants
    <3> QED  BY <1>5, <3>2, <3>3, Constants DEF AsymKey
  <2> QED  BY <1>4, <2>2, <2>3, <2>4
<1> QED  BY <1>5, <1>10, <1>11, <1>12

-----------------------------------------------------------------------------
(* Every scan *)

\* What no algorithm decides: the time, what is read, and the histories.
LEMMA ReadingStep ==
  ASSUME TypeOK, NEW r \in Readings, NEW d \in 0 .. MaxGap, Read(r, d), Passed(d)
  PROVE  /\ algorithm' = algorithm /\ algorithm' \in Algorithms /\ now' \in Times
         /\ Readings' = Readings /\ raw' \in Readings'
         /\ quiet' \in [Unit -> 0 .. Forever] /\ held' \in [Unit -> 0 .. Forever]
<1>1. algorithm' = algorithm /\ raw' = r /\ now' = (now + d) % TimerMod
  BY DEF Read
<1>2. Readings' = Readings
  BY <1>1 DEF Readings
<1>3. now' \in Times
  BY <1>1, TimeSinceNow
<1>4. \A u \in Unit : quiet'[u] \in 0 .. Forever /\ held'[u] \in 0 .. Forever
  BY History
<1>5. quiet' = [u \in Unit |-> quiet'[u]] /\ held' = [u \in Unit |-> held'[u]]
  BY DEF Read, Passed
<1>6. quiet' \in [Unit -> 0 .. Forever] /\ held' \in [Unit -> 0 .. Forever]
  BY <1>4, <1>5
<1> QED  BY <1>1, <1>2, <1>3, <1>6 DEF TypeOK

\* A function on the units whose values have a type has the type.
LEMMA FunctionType ==
  ASSUME NEW f, NEW S, f = [u \in Unit |-> f[u]], \A u \in Unit : f[u] \in S
  PROVE  f \in [Unit -> S]
OBVIOUS

LEMMA DeferPkScan ==
  ASSUME IInv, algorithm = "sym_defer_pk",
         NEW r \in Readings, NEW d \in 0 .. MaxGap, Read(r, d), Passed(d), SymDeferPk
  PROVE  /\ counter' \in [Unit -> 0 .. DEBOUNCE] /\ cooked' \in Readings /\ pressed' = pressed
         /\ needUpdate' \in BOOLEAN /\ lastTime' \in Times
         /\ Noticed' /\ DeferPk'
<1>1. TypeOK /\ Noticed
  BY DEF IInv, CounterAlgorithms, Algorithms
<1>2. now' = (now + d) % TimerMod /\ now' \in Times /\ raw' = r
  BY <1>1, TimeSinceNow DEF Read
<1>3. counter' = [u \in Unit |-> counter'[u]]
  BY DEF SymDeferPk, Defer, StartedPerKey, CountedDown
<1>4. \A u \in Unit : counter'[u] \in 0 .. DEBOUNCE
  BY DeferPkStep
<1>5. counter' \in [Unit -> 0 .. DEBOUNCE]
  BY <1>3, <1>4, FunctionType
<1>6. cooked' \in Readings
  <2>1. cooked' = [u \in Unit |-> IF Expires(u) THEN raw'[u] ELSE cooked[u]]
    BY DEF SymDeferPk, Defer, Transferred
  <2>2. raw' \in [Unit -> BOOLEAN] /\ cooked \in [Unit -> BOOLEAN] /\ Readings = [Unit -> BOOLEAN]
    BY <1>1, <1>2 DEF TypeOK, Readings, PerRow
  <2>3. \A u \in Unit : raw'[u] \in BOOLEAN /\ cooked[u] \in BOOLEAN
    BY <2>2
  <2>4. \A u \in Unit : (IF Expires(u) THEN raw'[u] ELSE cooked[u]) \in BOOLEAN
    BY <2>3
  <2> QED  BY <2>1, <2>2, <2>4
<1>7. pressed' = pressed /\ lastTime' = IF needUpdate \/ Changed THEN now' ELSE lastTime
  BY DEF SymDeferPk, Defer
<1>8. StillRunning \in BOOLEAN /\ (StillRunning => needUpdate)
  BY <1>1, <1>2, Countdown
<1>9. needUpdate' \in BOOLEAN /\ (needUpdate' => needUpdate \/ Changed)
  BY <1>8 DEF SymDeferPk, Defer
<1>10. lastTime' \in Times /\ (needUpdate' => lastTime' = now')
  BY <1>1, <1>2, <1>7, <1>9 DEF TypeOK, Times
<1>11. Noticed' /\ DeferPk'
  BY <1>10, DeferPkStep DEF Noticed, DeferPk
<1> QED  BY <1>5, <1>6, <1>7, <1>9, <1>10, <1>11

LEMMA DeferPrScan ==
  ASSUME IInv, algorithm = "sym_defer_pr",
         NEW r \in Readings, NEW d \in 0 .. MaxGap, Read(r, d), Passed(d), SymDeferPr
  PROVE  /\ counter' \in [Unit -> 0 .. DEBOUNCE] /\ cooked' \in Readings /\ pressed' = pressed
         /\ needUpdate' \in BOOLEAN /\ lastTime' \in Times
         /\ Noticed' /\ DeferPr'
<1>1. TypeOK /\ Noticed
  BY DEF IInv, CounterAlgorithms, Algorithms
<1>2. now' = (now + d) % TimerMod /\ now' \in Times /\ raw' = r
  BY <1>1, TimeSinceNow DEF Read
<1>3. counter' = [u \in Unit |-> counter'[u]]
  BY DEF SymDeferPr, Defer, StartedPerRow, CountedDown
<1>4. \A u \in Unit : counter'[u] \in 0 .. DEBOUNCE
  BY DeferPrStep
<1>5. counter' \in [Unit -> 0 .. DEBOUNCE]
  BY <1>3, <1>4, FunctionType
<1>6. cooked' \in Readings
  <2>1. cooked' = [u \in Unit |-> IF Expires(u) THEN raw'[u] ELSE cooked[u]]
    BY DEF SymDeferPr, Defer, Transferred
  <2>2. raw' \in [Unit -> RowValue] /\ cooked \in [Unit -> RowValue] /\ Readings = [Unit -> RowValue]
    BY <1>1, <1>2 DEF TypeOK, Readings, PerRow
  <2>3. \A u \in Unit : raw'[u] \in RowValue /\ cooked[u] \in RowValue
    BY <2>2
  <2>4. \A u \in Unit : (IF Expires(u) THEN raw'[u] ELSE cooked[u]) \in RowValue
    BY <2>3
  <2> QED  BY <2>1, <2>2, <2>4
<1>7. pressed' = pressed /\ lastTime' = IF needUpdate \/ Changed THEN now' ELSE lastTime
  BY DEF SymDeferPr, Defer
<1>8. StillRunning \in BOOLEAN /\ (StillRunning => needUpdate)
  BY <1>1, <1>2, Countdown
<1>9. needUpdate' \in BOOLEAN /\ (needUpdate' => needUpdate \/ Changed)
  BY <1>8 DEF SymDeferPr, Defer
<1>10. lastTime' \in Times /\ (needUpdate' => lastTime' = now')
  BY <1>1, <1>2, <1>7, <1>9 DEF TypeOK, Times
<1>11. Noticed' /\ DeferPr'
  BY <1>10, DeferPrStep DEF Noticed, DeferPr
<1> QED  BY <1>5, <1>6, <1>7, <1>9, <1>10, <1>11

LEMMA DeferGScan ==
  ASSUME IInv, algorithm = "sym_defer_g",
         NEW r \in Readings, NEW d \in 0 .. MaxGap, Read(r, d), Passed(d), SymDeferG
  PROVE  /\ counter' = counter /\ cooked' \in Readings /\ pressed' = pressed
         /\ needUpdate' \in BOOLEAN /\ lastTime' \in Times
         /\ DeferG'
<1>1. TypeOK
  BY DEF IInv
<1>2. now' = (now + d) % TimerMod /\ now' \in Times /\ raw' = r
  BY <1>1, TimeSinceNow DEF Read
<1>3. cooked' \in Readings /\ lastTime' \in Times /\ needUpdate' \in BOOLEAN
  BY <1>1, <1>2 DEF SymDeferG, TypeOK, Times
<1>4. counter' = counter /\ pressed' = pressed
  BY DEF SymDeferG
<1> QED  BY <1>3, <1>4, DeferGStep

LEMMA EagerScan ==
  ASSUME IInv, algorithm \in Eager,
         NEW r \in Readings, NEW d \in 0 .. MaxGap, Read(r, d), Passed(d), SymEager
  PROVE  /\ counter' \in [Unit -> 0 .. DEBOUNCE] /\ cooked' \in Readings /\ pressed' = pressed
         /\ needUpdate' \in BOOLEAN /\ lastTime' \in Times
         /\ Noticed' /\ EagerInv'
<1>1. TypeOK /\ Noticed
  BY DEF IInv, CounterAlgorithms, Algorithms, Eager
<1>2. now' = (now + d) % TimerMod /\ now' \in Times /\ raw' = r
  BY <1>1, TimeSinceNow DEF Read
<1>3. counter' = [u \in Unit |-> counter'[u]]
  BY DEF SymEager
<1>4. \A u \in Unit : counter'[u] \in 0 .. DEBOUNCE
  BY EagerStep
<1>5. counter' \in [Unit -> 0 .. DEBOUNCE]
  BY <1>3, <1>4, FunctionType
<1>6. cooked' \in Readings
  <2>1. cooked' = [u \in Unit |-> IF Flips(u) THEN raw'[u] ELSE cooked[u]]
    BY DEF SymEager
  <2> DEFINE S == IF algorithm \in PerRow THEN RowValue ELSE BOOLEAN
  <2>2. raw' \in [Unit -> S] /\ cooked \in [Unit -> S] /\ Readings = [Unit -> S]
    BY <1>1, <1>2 DEF TypeOK, Readings
  <2> HIDE DEF S
  <2>3. \A u \in Unit : raw'[u] \in S /\ cooked[u] \in S
    BY <2>2
  <2>4. \A u \in Unit : (IF Flips(u) THEN raw'[u] ELSE cooked[u]) \in S
    BY <2>3
  <2> QED  BY <2>1, <2>2, <2>4
<1>7. pressed' = pressed /\ lastTime' = IF needUpdate \/ Changed THEN now' ELSE lastTime
  BY DEF SymEager
<1>8. StillRunning \in BOOLEAN /\ (StillRunning => needUpdate)
  BY <1>1, <1>2, Countdown
<1>9. \A u \in Unit : Flips(u) => needUpdate \/ Changed
  BY <1>1, <1>2, Countdown DEF Flips, Noticed, Expires
<1>10. needUpdate' \in BOOLEAN /\ (needUpdate' => needUpdate \/ Changed)
  BY <1>8, <1>9 DEF SymEager
<1>11. lastTime' \in Times /\ (needUpdate' => lastTime' = now')
  BY <1>1, <1>2, <1>7, <1>10 DEF TypeOK, Times
<1>12. Noticed' /\ EagerInv'
  BY <1>11, EagerStep DEF Noticed, EagerInv
<1> QED  BY <1>5, <1>6, <1>7, <1>10, <1>11, <1>12

LEMMA AsymScan ==
  ASSUME IInv, algorithm = "asym_eager_defer_pk",
         NEW r \in Readings, NEW d \in 0 .. MaxGap, Read(r, d), Passed(d), AsymEagerDefer
  PROVE  /\ counter' \in [Unit -> 0 .. DEBOUNCE] /\ cooked' \in Readings
         /\ pressed' \in [Unit -> BOOLEAN]
         /\ needUpdate' \in BOOLEAN /\ lastTime' \in Times
         /\ Noticed' /\ Asym'
<1>1. TypeOK /\ Noticed
  BY DEF IInv, CounterAlgorithms, Algorithms
<1>2. now' = (now + d) % TimerMod /\ now' \in Times
  BY <1>1, TimeSinceNow DEF Read
<1>3. /\ counter' = [u \in Unit |-> counter'[u]]
      /\ cooked' = [u \in Unit |-> cooked'[u]]
      /\ pressed' = [u \in Unit |-> pressed'[u]]
  BY DEF AsymEagerDefer
<1>4. \A u \in Unit : counter'[u] \in 0 .. DEBOUNCE /\ cooked'[u] \in BOOLEAN /\ pressed'[u] \in BOOLEAN
  BY AsymStep
<1>5. counter' \in [Unit -> 0 .. DEBOUNCE]
  BY <1>3, <1>4, FunctionType
<1>6. cooked' \in [Unit -> BOOLEAN] /\ pressed' \in [Unit -> BOOLEAN]
  BY <1>3, <1>4, FunctionType
<1>7. Readings = [Unit -> BOOLEAN]
  BY DEF Readings, PerRow
<1>8. lastTime' = IF needUpdate \/ Changed THEN now' ELSE lastTime
  BY DEF AsymEagerDefer
<1>9. StillRunning \in BOOLEAN /\ (StillRunning => needUpdate)
  BY <1>1, <1>2, Countdown
<1>10. \A u \in Unit : Starts(u) => needUpdate \/ Changed
  BY <1>1, <1>2, Countdown DEF Starts, Transfers, Noticed, Expires
<1>11. needUpdate' \in BOOLEAN /\ (needUpdate' => needUpdate \/ Changed)
  BY <1>9, <1>10 DEF AsymEagerDefer
<1>12. lastTime' \in Times /\ (needUpdate' => lastTime' = now')
  BY <1>1, <1>2, <1>8, <1>11 DEF TypeOK, Times
<1>13. \A u \in Unit : AsymKey(u)'
  BY AsymStep
<1>14. Asym'
  BY <1>13 DEF Asym, AsymKey
<1>15. Noticed'
  BY <1>12, AsymStep DEF Noticed
<1> QED  BY <1>5, <1>6, <1>7, <1>11, <1>12, <1>14, <1>15

-----------------------------------------------------------------------------
(* The invariant *)

LEMMA ScanKeepsIInv ==
  ASSUME IInv, NEW r \in Readings, NEW d \in 0 .. MaxGap, Scan(r, d)
  PROVE  IInv'
<1>1. TypeOK /\ Read(r, d) /\ Debounced /\ Passed(d)
  BY DEF IInv, Scan
<1>2. /\ algorithm' = algorithm /\ algorithm' \in Algorithms /\ now' \in Times
      /\ Readings' = Readings /\ raw' \in Readings'
      /\ quiet' \in [Unit -> 0 .. Forever] /\ held' \in [Unit -> 0 .. Forever]
  BY <1>1, ReadingStep
<1>3. counter \in [Unit -> 0 .. DEBOUNCE] /\ pressed \in [Unit -> BOOLEAN]
  BY <1>1 DEF TypeOK
<1>4. CASE algorithm = "sym_defer_pk"
  <2>1. SymDeferPk
    BY <1>1, <1>4 DEF Debounced
  <2>2. /\ counter' \in [Unit -> 0 .. DEBOUNCE] /\ cooked' \in Readings /\ pressed' = pressed
        /\ needUpdate' \in BOOLEAN /\ lastTime' \in Times
        /\ Noticed' /\ DeferPk'
    BY <1>1, <1>4, <2>1, DeferPkScan
  <2> QED  BY <1>2, <1>3, <1>4, <2>2 DEF IInv, TypeOK, Times, Eager
<1>5. CASE algorithm = "sym_defer_pr"
  <2>1. SymDeferPr
    BY <1>1, <1>5 DEF Debounced
  <2>2. /\ counter' \in [Unit -> 0 .. DEBOUNCE] /\ cooked' \in Readings /\ pressed' = pressed
        /\ needUpdate' \in BOOLEAN /\ lastTime' \in Times
        /\ Noticed' /\ DeferPr'
    BY <1>1, <1>5, <2>1, DeferPrScan
  <2> QED  BY <1>2, <1>3, <1>5, <2>2 DEF IInv, TypeOK, Times, Eager
<1>6. CASE algorithm = "sym_defer_g"
  <2>1. SymDeferG
    BY <1>1, <1>6 DEF Debounced
  <2>2. /\ counter' = counter /\ cooked' \in Readings /\ pressed' = pressed
        /\ needUpdate' \in BOOLEAN /\ lastTime' \in Times
        /\ DeferG'
    BY <1>1, <1>6, <2>1, DeferGScan
  <2> QED  BY <1>2, <1>3, <1>6, <2>2 DEF IInv, TypeOK, Times, Eager, CounterAlgorithms
<1>7. CASE algorithm \in Eager
  <2>1. SymEager
    BY <1>1, <1>7 DEF Debounced, Eager
  <2>2. /\ counter' \in [Unit -> 0 .. DEBOUNCE] /\ cooked' \in Readings /\ pressed' = pressed
        /\ needUpdate' \in BOOLEAN /\ lastTime' \in Times
        /\ Noticed' /\ EagerInv'
    BY <1>1, <1>7, <2>1, EagerScan
  <2> QED  BY <1>2, <1>3, <1>7, <2>2 DEF IInv, TypeOK, Times, Eager
<1>8. CASE algorithm = "asym_eager_defer_pk"
  <2>1. AsymEagerDefer
    BY <1>1, <1>8 DEF Debounced
  <2>2. /\ counter' \in [Unit -> 0 .. DEBOUNCE] /\ cooked' \in Readings
        /\ pressed' \in [Unit -> BOOLEAN]
        /\ needUpdate' \in BOOLEAN /\ lastTime' \in Times
        /\ Noticed' /\ Asym'
    BY <1>1, <1>8, <2>1, AsymScan
  <2> QED  BY <1>2, <1>3, <1>8, <2>2 DEF IInv, TypeOK, Times, Eager
<1> QED  BY <1>1, <1>4, <1>5, <1>6, <1>7, <1>8 DEF TypeOK, Algorithms, Eager

LEMMA InitialIInv ==
  ASSUME Init
  PROVE  IInv
<1>1. /\ Forever \in 0 .. Forever /\ DEBOUNCE <= Forever /\ 0 \in 0 .. TimerMod - 1
      /\ 0 \in 0 .. DEBOUNCE /\ Open \in RowValue
  BY Constants, DebounceAssumption
<1>2. raw \in Readings /\ cooked \in Readings /\ raw = cooked
  BY <1>1 DEF Init, Untouched, Readings
<1>3. TypeOK
  BY <1>1, <1>2 DEF Init, TypeOK
<1>4. \A u \in Unit : counter[u] = 0 /\ raw[u] = cooked[u] /\ held[u] = Forever
  BY DEF Init
<1>5. \A u \in Unit : held[u] >= DEBOUNCE - counter[u]
  <2>1. Forever >= DEBOUNCE - 0
    BY Constants
  <2> QED  BY <1>4, <2>1
<1>6. needUpdate = FALSE
  BY DEF Init
<1>8. Noticed /\ DeferG
  BY <1>2, <1>4, <1>6 DEF Noticed, DeferG
<1>9. DeferPk /\ DeferPr /\ Asym
  BY <1>4 DEF DeferPk, DeferPr, Asym
<1>7. EagerInv
  BY <1>4, <1>5 DEF EagerInv
<1> QED  BY <1>3, <1>7, <1>8, <1>9 DEF IInv

LEMMA StutterKeepsIInv ==
  ASSUME IInv, UNCHANGED vars
  PROVE  IInv'
<1>1. /\ algorithm' = algorithm /\ now' = now /\ lastTime' = lastTime /\ needUpdate' = needUpdate
      /\ raw' = raw /\ cooked' = cooked /\ counter' = counter /\ pressed' = pressed
      /\ quiet' = quiet /\ held' = held
  BY DEF vars
<1>2. TypeOK' <=> TypeOK
  BY <1>1 DEF TypeOK, Readings
<1>3. (Noticed' <=> Noticed) /\ (DeferPk' <=> DeferPk) /\ (DeferPr' <=> DeferPr)
  BY <1>1 DEF Noticed, DeferPk, DeferPr
<1>4. (DeferG' <=> DeferG) /\ (EagerInv' <=> EagerInv) /\ (Asym' <=> Asym)
  BY <1>1 DEF DeferG, Debouncing, EagerInv, Asym
<1> QED  BY <1>1, <1>2, <1>3, <1>4 DEF IInv

\* The inductive invariant holds of every state of every build: every counter is
\* the difference between DEBOUNCE and a time that has really passed.
THEOREM CountersMeasureTime == Spec => []IInv
<1>1. Init => IInv
  BY InitialIInv
<1>2. IInv /\ [Next]_vars => IInv'
  BY ScanKeepsIInv, StutterKeepsIInv DEF Next
<1> QED  BY <1>1, <1>2, PTL DEF Spec

-----------------------------------------------------------------------------
(* What follows of every state *)

\* Every variable keeps its type, and no counter leaves 0 .. DEBOUNCE, whatever
\* the timer and the gap between two scans.
THEOREM CountersBounded == Spec => []TypeOK
<1>1. IInv => TypeOK
  BY DEF IInv
<1> QED  BY <1>1, CountersMeasureTime, PTL

\* sym_defer_pk passes a key on when it has been quiet for DEBOUNCE ms, at the
\* first scan that can see that.
THEOREM QuietKeyIsPassedOn == Spec => []DeferPrompt
<1>1. IInv => DeferPrompt
  <2>1. SUFFICES ASSUME IInv, algorithm = "sym_defer_pk", NEW u \in Unit, raw[u] # cooked[u]
                 PROVE  quiet[u] < DEBOUNCE
    BY DEF DeferPrompt
  <2>2. counter[u] # 0 /\ quiet[u] = DEBOUNCE - counter[u] /\ counter[u] \in 0 .. DEBOUNCE
    BY <2>1 DEF IInv, DeferPk, TypeOK
  <2> QED  BY <2>2, Constants
<1> QED  BY <1>1, CountersMeasureTime, PTL

\* sym_defer_g and sym_defer_pr pass the whole matrix on once all of it has been
\* quiet for DEBOUNCE ms.
THEOREM QuietMatrixIsPassedOn == Spec => []DeferAllPrompt
<1>1. IInv => DeferAllPrompt
  <2>1. SUFFICES ASSUME IInv, algorithm \in {"sym_defer_g", "sym_defer_pr"}, raw # cooked
                 PROVE  \E v \in Unit : quiet[v] < DEBOUNCE
    BY DEF DeferAllPrompt
  <2>2. \A v \in Unit : quiet[v] \in 0 .. Forever
    BY <2>1 DEF IInv, TypeOK
  <2>3. CASE algorithm = "sym_defer_pr"
    <3>1. PICK u \in Unit : raw[u] # cooked[u]
      BY <2>1 DEF IInv, TypeOK, Readings
    <3>2. PICK v \in Unit : counter[u] \in 0 .. DEBOUNCE /\ counter[u] # 0 /\ quiet[v] <= DEBOUNCE - counter[u]
      BY <2>1, <2>3, <3>1 DEF IInv, DeferPr, TypeOK
    <3> QED  BY <2>2, <3>2, Constants
  <2>4. CASE algorithm = "sym_defer_g"
    <3>1. PICK v \in Unit : Debouncing < DEBOUNCE /\ quiet[v] <= Debouncing
      BY <2>1, <2>4 DEF IInv, DeferG
    <3>2. Debouncing \in 0 .. TimerMod - 1
      BY <2>1, ModOfDifference, Constants DEF Debouncing, IInv, TypeOK
    <3> QED  BY <2>2, <3>1, <3>2, Constants
  <2> QED  BY <2>1, <2>3, <2>4
<1> QED  BY <1>1, CountersMeasureTime, PTL

\* sym_eager_*: what is read is what is passed on, except during the lock of
\* DEBOUNCE ms that follows a change.
THEOREM OnlyTheLockDelays == Spec => []EagerPrompt
<1>1. IInv => EagerPrompt
  <2>1. SUFFICES ASSUME IInv, algorithm \in Eager, NEW u \in Unit, raw[u] # cooked[u]
                 PROVE  held[u] < DEBOUNCE
    BY DEF EagerPrompt, Eager
  <2>2. counter[u] # 0 /\ held[u] <= DEBOUNCE - counter[u]
    BY <2>1 DEF IInv, EagerInv
  <2>3. counter[u] \in 0 .. DEBOUNCE /\ held[u] \in 0 .. Forever
    BY <2>1 DEF IInv, TypeOK
  <2> QED  BY <2>2, <2>3, Constants
<1> QED  BY <1>1, CountersMeasureTime, PTL

\* asym_eager_defer_pk: a key that reads pressed is passed on as pressed.
THEOREM PressIsPassedOn == Spec => []PressPrompt
<1>1. IInv => PressPrompt
  <2>1. SUFFICES ASSUME IInv, algorithm = "asym_eager_defer_pk", NEW u \in Unit, raw[u]
                 PROVE  cooked[u]
    BY DEF PressPrompt
  <2>2. (counter[u] = 0 => raw[u] = cooked[u]) /\ (counter[u] # 0 => cooked[u])
    BY <2>1 DEF IInv, Asym
  <2> QED  BY <2>1, <2>2
<1> QED  BY <1>1, CountersMeasureTime, PTL

\* asym_eager_defer_pk: a release is passed on less than 2 * DEBOUNCE + MaxGap - 1
\* ms after the key was released for good.
THEOREM ReleaseIsPassedOn == Spec => []ReleasePrompt
<1>1. IInv => ReleasePrompt
  <2>1. SUFFICES ASSUME IInv, algorithm = "asym_eager_defer_pk", NEW u \in Unit, cooked[u], ~raw[u]
                 PROVE  quiet[u] < 2 * DEBOUNCE + MaxGap - 1
    BY DEF ReleasePrompt
  <2>2. counter[u] # 0
    BY <2>1 DEF IInv, Asym
  <2>3. quiet[u] <= DEBOUNCE - counter[u] \/ quiet[u] <= 2 * DEBOUNCE + MaxGap - 1 - counter[u]
    BY <2>1, <2>2 DEF IInv, Asym
  <2>4. counter[u] \in 0 .. DEBOUNCE /\ quiet[u] \in 0 .. Forever
    BY <2>1 DEF IInv, TypeOK
  <2> QED  BY <2>2, <2>3, <2>4, Constants
<1> QED  BY <1>1, CountersMeasureTime, PTL

-----------------------------------------------------------------------------
(* What no scan does *)

\* sym_defer_pk and sym_defer_g never pass on a bounce: a key passed on reads what
\* is passed on, and has for DEBOUNCE ms.
THEOREM BounceIsHeldBack == Spec => DeferStable
<1> DEFINE A == \A u \in Unit : algorithm \in {"sym_defer_pk", "sym_defer_g"} /\ cooked'[u] # cooked[u]
                   => cooked'[u] = raw'[u] /\ quiet'[u] >= DEBOUNCE
<1>1. IInv /\ [Next]_vars => [A]_vars
  <2>1. SUFFICES ASSUME IInv, NEW r \in Readings, NEW d \in 0 .. MaxGap, Scan(r, d) PROVE A
    BY DEF Next
  <2>2. Read(r, d) /\ Passed(d) /\ Debounced
    BY <2>1 DEF Scan
  <2>3. CASE algorithm = "sym_defer_pk"
    BY <2>1, <2>2, <2>3, DeferPkStep DEF Debounced
  <2>4. CASE algorithm = "sym_defer_g"
    BY <2>1, <2>2, <2>4, DeferGStep DEF Debounced
  <2> QED  BY <2>3, <2>4
<1> QED  BY <1>1, CountersMeasureTime, PTL DEF Spec, DeferStable

\* A row that sym_defer_pr passes on was quiet for DEBOUNCE ms up to the scan
\* before the one that passes it on.
THEOREM RowWasQuiet == Spec => RowStableBefore
<1> DEFINE A == \A u \in Unit : algorithm = "sym_defer_pr" /\ cooked'[u] # cooked[u]
                   => cooked'[u] = raw'[u] /\ quiet[u] + TimeSince(now) >= DEBOUNCE
<1>1. IInv /\ [Next]_vars => [A]_vars
  <2>1. SUFFICES ASSUME IInv, NEW r \in Readings, NEW d \in 0 .. MaxGap, Scan(r, d),
                        algorithm = "sym_defer_pr"
                 PROVE  A
    BY DEF Next
  <2>2. Read(r, d) /\ Passed(d) /\ SymDeferPr /\ TypeOK
    BY <2>1 DEF Scan, Debounced, IInv
  <2>3. TimeSince(now) = d
    BY <2>2, TimeSinceNow DEF Read
  <2> QED  BY <2>1, <2>2, <2>3, DeferPrStep
<1> QED  BY <1>1, CountersMeasureTime, PTL DEF Spec, RowStableBefore

\* sym_eager_*: a unit that has changed does not change again for DEBOUNCE ms.
THEOREM LockHolds == Spec => EagerLocked
<1> DEFINE A == \A u \in Unit : algorithm \in {"sym_eager_pk", "sym_eager_pr"} /\ cooked'[u] # cooked[u]
                   => held[u] + TimeSince(now) >= DEBOUNCE
<1>1. IInv /\ [Next]_vars => [A]_vars
  <2>1. SUFFICES ASSUME IInv, NEW r \in Readings, NEW d \in 0 .. MaxGap, Scan(r, d),
                        algorithm \in Eager
                 PROVE  A
    BY DEF Next, Eager
  <2>2. Read(r, d) /\ Passed(d) /\ SymEager /\ TypeOK
    BY <2>1 DEF Scan, Debounced, IInv, Eager
  <2>3. TimeSince(now) = d
    BY <2>2, TimeSinceNow DEF Read
  <2> QED  BY <2>1, <2>2, <2>3, EagerStep
<1> QED  BY <1>1, CountersMeasureTime, PTL DEF Spec, EagerLocked

\* asym_eager_defer_pk: a release is passed on only of a key that has been quiet
\* for DEBOUNCE ms.
THEOREM ReleaseWasQuiet == Spec => ReleaseStable
<1> DEFINE A == \A u \in Unit : algorithm = "asym_eager_defer_pk" /\ cooked[u] /\ ~cooked'[u]
                   => quiet'[u] >= DEBOUNCE
<1>1. IInv /\ [Next]_vars => [A]_vars
  <2>1. SUFFICES ASSUME IInv, NEW r \in Readings, NEW d \in 0 .. MaxGap, Scan(r, d),
                        algorithm = "asym_eager_defer_pk"
                 PROVE  A
    BY DEF Next
  <2>2. Read(r, d) /\ Passed(d) /\ AsymEagerDefer
    BY <2>1 DEF Scan, Debounced
  <2> QED  BY <2>1, <2>2, AsymStep
<1> QED  BY <1>1, CountersMeasureTime, PTL DEF Spec, ReleaseStable

=============================================================================
