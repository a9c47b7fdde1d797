------------------------- MODULE DeferredExecProofs -------------------------
(***************************************************************************)
(* The properties of DeferredExec hold for every number of slots, period   *)
(* of the timer and of the tokens, delay and lag that its assumption       *)
(* allows.                                                                 *)
(***************************************************************************)
EXTENDS DeferredExec, TLAPS

-----------------------------------------------------------------------------
(* Time *)

\* The longest that a walk takes.
Walk == NumSlots * MaxGap

LEMMA WalkFacts ==
  /\ Walk \in Nat /\ MaxGap \in Nat \ {0} /\ MaxGap <= Walk
  /\ MaxDelay \in Nat \ {0} /\ MaxLag \in Nat
  /\ TimeMod \in Nat \ {0} /\ 2 * (2 * MaxDelay + MaxLag + Walk) < TimeMod
  /\ NumSlots \in Nat \ {0}
<1>1. /\ NumSlots \in Nat \ {0} /\ MaxGap \in Nat \ {0} /\ MaxDelay \in Nat \ {0}
      /\ MaxLag \in Nat /\ TimeMod \in Nat \ {0}
  BY DeferredAssumption, TimerAssumption
<1>2. NumSlots * MaxGap \in Nat /\ NumSlots * MaxGap >= MaxGap
  BY <1>1
<1> QED BY <1>1, <1>2, DeferredAssumption DEF Walk

LEMMA Steps ==
  ASSUME NEW k \in Nat
  PROVE  /\ k * MaxGap \in Nat /\ (k + 1) * MaxGap = k * MaxGap + MaxGap
         /\ k < NumSlots => k * MaxGap + MaxGap <= Walk
<1>1. NumSlots \in Nat \ {0} /\ MaxGap \in Nat \ {0}
  BY DeferredAssumption, TimerAssumption
<1>2. k * MaxGap \in Nat /\ (k + 1) * MaxGap = k * MaxGap + MaxGap
  BY <1>1
<1>3. ASSUME k < NumSlots PROVE (k + 1) * MaxGap <= NumSlots * MaxGap
  <2>1. PICK m \in Nat : NumSlots = (k + 1) + m
    <3>1. NumSlots - (k + 1) \in Nat /\ NumSlots = (k + 1) + (NumSlots - (k + 1))
      BY <1>1, <1>3
    <3> QED BY <3>1
  <2>2. NumSlots * MaxGap = (k + 1) * MaxGap + m * MaxGap /\ m * MaxGap \in Nat
    BY <1>1, <2>1
  <2> QED BY <1>2, <2>2, <1>1
<1> QED BY <1>2, <1>3 DEF Walk

LEMMA ModOfSum ==
  ASSUME NEW T \in Nat \ {0}, NEW x \in 0 .. T - 1, NEW y \in 0 .. T - 1
  PROVE  (x + y) % T \in 0 .. T - 1 /\ ((x + y) % T = x + y \/ (x + y) % T = x + y - T)
OBVIOUS

LEMMA ModOfDifference ==
  ASSUME NEW T \in Nat \ {0}, NEW x \in 0 .. T - 1, NEW y \in 0 .. T - 1
  PROVE  (x - y) % T \in 0 .. T - 1 /\ ((x - y) % T = x - y \/ (x - y) % T = x - y + T)
OBVIOUS

LEMMA AfterFacts ==
  ASSUME NEW t \in Time, NEW d \in Nat, d <= MaxGap \/ d <= MaxDelay
  PROVE  After(t, d) \in Time /\ (After(t, d) = t + d \/ After(t, d) = t + d - TimeMod)
<1>1. TimeMod \in Nat \ {0} /\ t \in 0 .. TimeMod - 1 /\ d \in 0 .. TimeMod - 1
  BY WalkFacts DEF Time
<1> QED BY <1>1, ModOfSum DEF After, Time

LEMMA TimeFromFacts ==
  ASSUME NEW t \in Time, NEW u \in Time
  PROVE  /\ TimeFrom(t, u) \in Time
         /\ TimeFrom(t, u) = u - t \/ TimeFrom(t, u) = u - t + TimeMod
BY WalkFacts, ModOfDifference DEF Time, TimeFrom

\* t is l after n, or -l before it, on a timer that wraps.
Shifted(t, n, l) == t = n + l \/ t = n + l - TimeMod \/ t = n + l + TimeMod

\* What is due when the walk begins, and what is not.
LEMMA DueMeans ==
  ASSUME NEW w \in Time, NEW n \in Time, NEW t \in Time,
         NEW l \in -MaxLag .. 2 * MaxDelay, Shifted(t, n, l), TimeFrom(w, n) <= Walk
  PROVE  Due(t, w) <=> l + TimeFrom(w, n) <= 0
<1> DEFINE e == TimeFrom(w, n)
           f == TimeFrom(t, w)
           h == TimeMod \div 2
<1>1. e \in Time /\ (e = n - w \/ e = n - w + TimeMod)
  BY TimeFromFacts
<1>2. f \in Time /\ (f = w - t \/ f = w - t + TimeMod)
  BY TimeFromFacts
<1>3. h \in Nat /\ 2 * h <= TimeMod /\ TimeMod <= 2 * h + 1
  BY WalkFacts
<1>4. Due(t, w) <=> f <= h
  BY DEF Due, NotAfter
<1>5. e <= Walk
  OBVIOUS
<1> HIDE DEF e, f, h
<1>6. f = -(l + e) \/ f = TimeMod - (l + e)
  BY <1>1, <1>2, <1>5, WalkFacts DEF Time, Shifted
<1>7. CASE l + e <= 0
  BY <1>1, <1>2, <1>3, <1>4, <1>6, <1>7, WalkFacts DEF Time, e
<1>8. CASE l + e > 0
  BY <1>1, <1>2, <1>3, <1>4, <1>5, <1>6, <1>8, WalkFacts DEF Time, e
<1> QED BY <1>1, <1>7, <1>8, WalkFacts DEF Time

-----------------------------------------------------------------------------
(* Types and tokens *)

LEMMA NextSlotType ==
  ASSUME at \in 0 .. NumSlots, at # 0
  PROVE  NextSlot \in 0 .. NumSlots /\ (NextSlot = 0 \/ NextSlot = at + 1)
BY WalkFacts DEF NextSlot

\* Everything keeps its type.
THEOREM DeferredTypesCorrect == DeferredSpec => []DeferredTypeOK
<1>1. now = 0 /\ DeferredInit => DeferredTypeOK
  <2> SUFFICES ASSUME now = 0, DeferredInit PROVE DeferredTypeOK
    OBVIOUS
  <2>1. 0 \in Token /\ 0 \in Time /\ 0 \in 0 .. NumSlots
    BY WalkFacts, DeferredAssumption DEF Token, Time
  <2>2. table \in [Slot -> [token : Token, trigger : Time]]
    BY <2>1 DEF DeferredInit, Free, INVALID
  <2>3. left \in [Slot -> Int]
    BY DEF DeferredInit
  <2> QED BY <2>1, <2>2, <2>3 DEF DeferredInit, DeferredTypeOK, INVALID
<1>2. DeferredTypeOK /\ [DeferredNext]_<<now, deferredVars>> => DeferredTypeOK'
  <2> SUFFICES ASSUME DeferredTypeOK, [DeferredNext]_<<now, deferredVars>>
               PROVE  DeferredTypeOK'
    OBVIOUS
  <2>0. 0 \in Token /\ 0 \in Time /\ Free \in [token : Token, trigger : Time] /\ Slot = 1 .. NumSlots
    BY WalkFacts, DeferredAssumption DEF Free, INVALID, Token, Time, Slot
  <2> USE DEF DeferredTypeOK, INVALID
  <2>1. ASSUME NEW s \in Slot, NEW t \in Token, NEW d \in Delays, Schedule(s, t, d)
        PROVE  /\ table' \in [Slot -> [token : Token, trigger : Time]]
               /\ left' \in [Slot -> Int] /\ born' \subseteq Slot /\ owed' \subseteq Slot
    <3>1. After(now, d) \in Time /\ d \in Int
      BY AfterFacts, WalkFacts DEF Delays
    <3> QED BY <2>1, <3>1 DEF Schedule
  <2>2. ASSUME NEW s \in Slot, NEW t \in Token, NEW d \in Delays, Defer(s, t, d)
        PROVE  DeferredTypeOK'
    <3>1. Schedule(s, t, d)
      BY <2>2 DEF Defer
    <3>2. UNCHANGED <<now, lastCheck, at, walkNow, running, replaced>> /\ currentToken' = t
      BY <2>2 DEF Defer
    <3> QED BY <2>1, <3>1, <3>2
  <2>3. ASSUME NEW s \in Slot, NEW d \in Delays, Extend(s, d) PROVE DeferredTypeOK'
    <3>1. Schedule(s, table[s].token, d) /\ table[s].token \in Token
      BY <2>3 DEF Extend
    <3>2. UNCHANGED <<now, currentToken, lastCheck, at, walkNow, running, replaced>>
      BY <2>3 DEF Extend
    <3> QED BY <2>1, <3>1, <3>2
  <2>4. ASSUME NEW s \in Slot, Cancel(s) PROVE DeferredTypeOK'
    BY <2>0, <2>4 DEF Cancel, Cleared
  <2>5. ASSUME NEW d \in 0 .. MaxGap, Round(d) PROVE DeferredTypeOK'
    <3>1. now' \in Time
      BY <2>5, AfterFacts, WalkFacts DEF Round, Pass
    <3>2. left' \in [Slot -> Int]
      BY <2>5, WalkFacts DEF Round
    <3>3. /\ lastCheck' \in Time /\ walkNow' \in Time
          /\ born' \subseteq Slot /\ owed' \subseteq Slot
      BY <2>5, <3>1 DEF Round
    <3>4. at' \in 0 .. NumSlots
      BY <2>5, WalkFacts DEF Round
    <3>5. UNCHANGED <<currentToken, table, running, replaced>> /\ running = 0
      BY <2>5 DEF Round
    <3> QED BY <3>1, <3>2, <3>3, <3>4, <3>5
  <2>6. CASE Skip
    BY <2>6, NextSlotType DEF Skip
  <2>7. CASE Invoke
    <3>1. running' \in Token
      BY <2>7, <2>0 DEF Invoke
    <3> QED BY <2>7, <3>1 DEF Invoke
  <2>8. ASSUME NEW delay \in 0 .. MaxDelay, NEW d \in 0 .. MaxGap, Return(delay, d)
        PROVE  DeferredTypeOK'
    <3>1. now' \in Time
      BY <2>8, AfterFacts, WalkFacts DEF Return, Pass
    <3>2. at \in Slot /\ at' \in 0 .. NumSlots
      BY <2>8, <2>0, NextSlotType DEF Return
    <3>3. After(table[at].trigger, delay) \in Time
      BY <3>2, AfterFacts, WalkFacts
    <3>4. table' \in [Slot -> [token : Token, trigger : Time]]
      BY <2>8, <2>0, <3>2, <3>3 DEF Return
    <3>5. left' \in [Slot -> Int]
      BY <2>8, WalkFacts DEF Return
    <3>6. /\ running' = 0 /\ born' \subseteq Slot
          /\ UNCHANGED <<currentToken, lastCheck, walkNow, owed, replaced>>
      BY <2>8 DEF Return
    <3> QED BY <2>0, <3>1, <3>2, <3>4, <3>5, <3>6
  <2>9. CASE UNCHANGED <<now, deferredVars>>
    BY <2>9 DEF deferredVars
  <2> QED BY <2>2, <2>3, <2>4, <2>5, <2>6, <2>7, <2>8, <2>9 DEF DeferredNext
<1> QED BY <1>1, <1>2, PTL DEF DeferredSpec

\* However often the tokens have gone round, one names one entry.
THEOREM TokensAreUnique == DeferredSpec => []UniqueTokens
<1>1. now = 0 /\ DeferredInit => UniqueTokens
  BY DEF DeferredInit, UniqueTokens, Used, Free
<1>2. DeferredTypeOK /\ UniqueTokens /\ [DeferredNext]_<<now, deferredVars>> => UniqueTokens'
  <2> SUFFICES ASSUME DeferredTypeOK, UniqueTokens, [DeferredNext]_<<now, deferredVars>>
               PROVE  UniqueTokens'
    OBVIOUS
  <2> USE DEF UniqueTokens, Used
  <2>1. table \in [Slot -> [token : Token, trigger : Time]]
    BY DEF DeferredTypeOK
  <2>2. ASSUME NEW s \in Slot, NEW t \in Token, NEW d \in Delays, Defer(s, t, d)
        PROVE  UniqueTokens'
    <3>1. TokenCanBeUsed(t) /\ table' = [table EXCEPT ![s] = [token |-> t, trigger |-> After(now, d)]]
      BY <2>2 DEF Defer, Allocated, Schedule
    <3> QED BY <2>1, <3>1 DEF TokenCanBeUsed
  <2>3. ASSUME NEW s \in Slot, NEW d \in Delays, Extend(s, d) PROVE UniqueTokens'
    <3>1. \A r \in Slot : table'[r].token = table[r].token
      BY <2>1, <2>3 DEF Extend, Schedule
    <3> QED BY <3>1
  <2>4. ASSUME NEW s \in Slot, Cancel(s) PROVE UniqueTokens'
    <3>1. \A r \in Slot : table'[r].token = IF r = s THEN INVALID ELSE table[r].token
      BY <2>1, <2>4 DEF Cancel, Cleared, Free
    <3> QED BY <3>1
  <2>5. ASSUME NEW delay \in 0 .. MaxDelay, NEW d \in 0 .. MaxGap, Return(delay, d)
        PROVE  UniqueTokens'
    <3>1. \A r \in Slot : table'[r].token \in {table[r].token, INVALID}
      BY <2>1, <2>5 DEF Return, Free
    <3> QED BY <3>1
  <2>6. CASE UNCHANGED table
    BY <2>6
  <2> QED BY <2>2, <2>3, <2>4, <2>5, <2>6 DEF DeferredNext, Round, Skip, Invoke, deferredVars
<1> QED BY <1>1, <1>2, DeferredTypesCorrect, PTL DEF DeferredSpec

-----------------------------------------------------------------------------
(* What the watch shows *)

\* What is left to wait for an entry, and when the timer says that it is due.
Timed ==
  \A s \in Slot : Used(s) =>
    left[s] \in -MaxLag .. 2 * MaxDelay /\ Shifted(table[s].trigger, now, left[s])

\* An entry that is not due again already is not, whatever its callback asks for.
OwnDelay == running # INVALID /\ table[at].token = running => left[at] <= MaxDelay

WalkTime == at # 0 => TimeFrom(walkNow, now) <= (at - 1) * MaxGap

OwedAhead ==
  \A s \in owed : /\ at # 0 /\ s >= at /\ (running # INVALID => s # at)
                  /\ Used(s) /\ Due(table[s].trigger, walkNow)

BornLater ==
  at # 0 => \A s \in born : s > at \/ (s = at /\ running = INVALID)
                               => ~Due(table[s].trigger, walkNow)

Punctual == Timed /\ OwnDelay /\ WalkTime /\ OwedAhead /\ BornLater

LEMMA ShiftedLater ==
  ASSUME NEW t \in Time, NEW n \in Time, NEW l \in -MaxLag .. 2 * MaxDelay,
         NEW d \in 0 .. MaxGap, l - d >= -MaxLag, Shifted(t, n, l)
  PROVE  /\ l - d \in -MaxLag .. 2 * MaxDelay
         /\ Shifted(t, After(n, d), l - d)
<1> DEFINE m == After(n, d)
<1>1. m \in Time /\ (m = n + d \/ m = n + d - TimeMod)
  BY AfterFacts, WalkFacts
<1> HIDE DEF m
<1>2. l - d \in -MaxLag .. 2 * MaxDelay
  BY WalkFacts
<1>3. Shifted(t, m, l - d)
  BY <1>1, <1>2, WalkFacts DEF Shifted, Time
<1> QED BY <1>2, <1>3 DEF m

LEMMA ShiftedAgain ==
  ASSUME NEW t \in Time, NEW n \in Time, NEW l \in -MaxLag .. MaxDelay,
         NEW d \in 0 .. MaxDelay, Shifted(t, n, l)
  PROVE  /\ l + d \in -MaxLag .. 2 * MaxDelay
         /\ Shifted(After(t, d), n, l + d)
<1> DEFINE m == After(t, d)
<1>1. m \in Time /\ (m = t + d \/ m = t + d - TimeMod)
  BY AfterFacts, WalkFacts
<1> HIDE DEF m
<1>2. l + d \in -MaxLag .. 2 * MaxDelay
  BY WalkFacts
<1>3. Shifted(m, n, l + d)
  BY <1>1, <1>2, WalkFacts DEF Shifted, Time
<1> QED BY <1>2, <1>3 DEF m

LEMMA WalkLater ==
  ASSUME NEW w \in Time, NEW n \in Time, NEW d \in 0 .. MaxGap, TimeFrom(w, n) + d <= Walk
  PROVE  TimeFrom(w, After(n, d)) = TimeFrom(w, n) + d
<1> DEFINE m == After(n, d)
           e == TimeFrom(w, n)
           f == TimeFrom(w, m)
<1>1. m \in Time /\ (m = n + d \/ m = n + d - TimeMod)
  BY AfterFacts, WalkFacts
<1>2. e \in Time /\ (e = n - w \/ e = n - w + TimeMod)
  BY TimeFromFacts
<1>3. e + d <= Walk
  OBVIOUS
<1> HIDE DEF m, e
<1>4. f \in Time /\ (f = m - w \/ f = m - w + TimeMod)
  BY <1>1, TimeFromFacts
<1> HIDE DEF f
<1>5. f = e + d
  BY <1>1, <1>2, <1>3, <1>4, WalkFacts DEF Time
<1> QED BY <1>5 DEF m, e, f

\* How far the walk has got bounds how long it has taken.
LEMMA InWalk ==
  ASSUME DeferredTypeOK, WalkTime, at # 0
  PROVE  /\ TimeFrom(walkNow, now) \in Nat /\ TimeFrom(walkNow, now) <= Walk
         /\ \A d \in 0 .. MaxGap : TimeFrom(walkNow, now) + d <= Walk
<1>1. at - 1 \in Nat /\ at - 1 < NumSlots
  BY WalkFacts DEF DeferredTypeOK
<1>2. (at - 1) * MaxGap \in Nat /\ (at - 1) * MaxGap + MaxGap <= Walk
  BY <1>1, Steps
<1>3. TimeFrom(walkNow, now) \in Nat
  BY TimeFromFacts, WalkFacts DEF DeferredTypeOK, Time
<1> QED BY <1>2, <1>3, WalkFacts DEF WalkTime

LEMMA ScheduledLater ==
  ASSUME DeferredTypeOK, Punctual, NEW s \in Slot, NEW t \in Token, NEW d \in Delays,
         Schedule(s, t, d), CodeRuns,
         UNCHANGED <<now, lastCheck, at, walkNow, running, replaced>>
  PROVE  Punctual'
<1>1. d \in 1 .. MaxDelay /\ d \in -MaxLag .. 2 * MaxDelay
  BY WalkFacts DEF Delays
<1>2. /\ table' = [table EXCEPT ![s] = [token |-> t, trigger |-> After(now, d)]]
      /\ left' = [left EXCEPT ![s] = d] /\ born' = born \cup {s} /\ owed' = owed \ {s}
  BY DEF Schedule
<1>3. /\ table'[s] = [token |-> t, trigger |-> After(now, d)] /\ left'[s] = d
      /\ \A r \in Slot : r # s => table'[r] = table[r] /\ left'[r] = left[r]
  BY <1>2 DEF DeferredTypeOK
<1>4. After(now, d) \in Time /\ Shifted(After(now, d), now, d)
  BY <1>1, AfterFacts DEF DeferredTypeOK, Shifted
<1>5. Timed'
  BY <1>1, <1>3, <1>4 DEF Punctual, Timed, Used
<1>6. OwnDelay'
  <2>1. running # INVALID => at \in Slot
    BY WalkFacts DEF DeferredTypeOK, Slot
  <2> QED BY <1>1, <1>3, <2>1 DEF Punctual, OwnDelay, Slot
<1>7. WalkTime'
  BY DEF Punctual, WalkTime
<1>8. OwedAhead'
  BY <1>2, <1>3 DEF Punctual, OwedAhead, Used, DeferredTypeOK
<1>9. BornLater'
  <2>1. ASSUME at # 0 PROVE ~Due(After(now, d), walkNow)
    <3>1. TimeFrom(walkNow, now) \in Nat /\ TimeFrom(walkNow, now) <= Walk
      BY <2>1, InWalk DEF Punctual
    <3>2. now \in Time /\ walkNow \in Time
      BY DEF DeferredTypeOK
    <3>3. Due(After(now, d), walkNow) <=> d + TimeFrom(walkNow, now) <= 0
      BY <1>1, <1>4, <3>1, <3>2, DueMeans
    <3> QED BY <1>1, <3>1, <3>3
  <2>2. ASSUME NEW r \in born', at' # 0, r > at' \/ (r = at' /\ running' = INVALID)
        PROVE  ~Due(table'[r].trigger, walkNow')
    BY <1>2, <1>3, <2>1, <2>2 DEF Punctual, BornLater, DeferredTypeOK
  <2> QED BY <2>2 DEF BornLater
<1> QED BY <1>5, <1>6, <1>7, <1>8, <1>9 DEF Punctual

LEMMA CancelledPunctual ==
  ASSUME DeferredTypeOK, Punctual, NEW s \in Slot, Cancel(s) PROVE Punctual'
<1>1. /\ table'[s] = Free
      /\ \A r \in Slot : r # s => table'[r] = table[r] /\ left'[r] = left[r]
      /\ born' = born \ {s} /\ owed' = owed \ {s}
      /\ UNCHANGED <<now, at, walkNow, running>>
  BY DEF Cancel, Cleared, DeferredTypeOK
<1>2. Timed'
  BY <1>1 DEF Punctual, Timed, Used, Free
<1>3. OwnDelay'
  BY <1>1, WalkFacts DEF Punctual, OwnDelay, Free, INVALID, DeferredTypeOK, Slot
<1>4. WalkTime' /\ OwedAhead'
  BY <1>1 DEF Punctual, WalkTime, OwedAhead, Used, DeferredTypeOK
<1>5. BornLater'
  BY <1>1 DEF Punctual, BornLater, DeferredTypeOK
<1> QED BY <1>2, <1>3, <1>4, <1>5 DEF Punctual

LEMMA RoundPunctual ==
  ASSUME DeferredTypeOK, Punctual, NEW d \in 0 .. MaxGap, Round(d) PROVE Punctual'
<1>1. /\ now' = After(now, d) /\ at = 0 /\ table' = table /\ running' = running
      /\ \A s \in Slot : Used(s) => left[s] - d >= -MaxLag /\ left'[s] = left[s] - d
  BY DEF Round, Pass, DeferredTypeOK
<1>2. now' \in Time
  BY <1>1, AfterFacts, WalkFacts DEF DeferredTypeOK
<1>3. ASSUME NEW s \in Slot, Used(s)
      PROVE  /\ left'[s] \in -MaxLag .. 2 * MaxDelay
             /\ Shifted(table[s].trigger, now', left'[s])
  <2>1. /\ table[s].trigger \in Time /\ now \in Time /\ left[s] \in -MaxLag .. 2 * MaxDelay
        /\ Shifted(table[s].trigger, now, left[s])
    BY <1>3 DEF DeferredTypeOK, Punctual, Timed
  <2> QED BY <1>1, <1>3, <2>1, ShiftedLater
<1>4. Timed'
  BY <1>1, <1>3 DEF Timed, Used
<1>5. running' = INVALID
  BY <1>1 DEF DeferredTypeOK
<1>6. CASE at' = 0
  <2>1. owed' = owed /\ born' = born /\ owed = {}
    BY <1>1, <1>6 DEF Round, Punctual, OwedAhead
  <2> QED BY <1>4, <1>5, <1>6, <2>1 DEF Punctual, OwnDelay, WalkTime, OwedAhead, BornLater
<1>7. CASE at' # 0
  <2>1. /\ at' = 1 /\ walkNow' = now' /\ born' = {}
        /\ owed' = {s \in Slot : Used(s) /\ left'[s] <= 0}
    BY <1>1, <1>7 DEF Round
  <2>2. TimeFrom(now', now') = 0
    BY <1>2, TimeFromFacts, WalkFacts DEF Time
  <2>3. WalkTime'
    <3>1. (1 - 1) * MaxGap = 0
      BY WalkFacts
    <3> QED BY <2>1, <2>2, <3>1 DEF WalkTime
  <2>4. ASSUME NEW s \in owed'
        PROVE  s >= at' /\ Used(s) /\ Due(table[s].trigger, now')
    <3>1. s \in Slot /\ Used(s) /\ left'[s] <= 0
      BY <2>1
    <3>2. /\ left'[s] \in -MaxLag .. 2 * MaxDelay
          /\ Shifted(table[s].trigger, now', left'[s])
      BY <1>3, <3>1
    <3>3. table[s].trigger \in Time
      BY <3>1 DEF DeferredTypeOK
    <3>4. Due(table[s].trigger, now') <=> left'[s] + TimeFrom(now', now') <= 0
      BY <1>2, <2>2, <3>2, <3>3, DueMeans, WalkFacts
    <3>5. Due(table[s].trigger, now')
      BY <2>2, <3>1, <3>2, <3>4
    <3> QED BY <2>1, <3>1, <3>5 DEF Slot
  <2>5. OwedAhead'
    BY <1>1, <1>5, <2>1, <2>4 DEF OwedAhead, Used
  <2>6. BornLater'
    BY <2>1 DEF BornLater
  <2>7. OwnDelay'
    BY <1>5 DEF OwnDelay
  <2> QED BY <1>4, <2>3, <2>5, <2>6, <2>7 DEF Punctual
<1> QED BY <1>6, <1>7

LEMMA SkippedPunctual ==
  ASSUME DeferredTypeOK, Punctual, Skip PROVE Punctual'
<1>1. /\ at # 0 /\ running = INVALID /\ at' = NextSlot
      /\ ~(Used(at) /\ Due(table[at].trigger, walkNow))
      /\ UNCHANGED <<now, table, walkNow, running, left, born, owed>>
  BY DEF Skip
<1>2. at \in 1 .. NumSlots /\ ((at' = 0 /\ at = NumSlots) \/ at' = at + 1)
  BY <1>1, WalkFacts DEF DeferredTypeOK, NextSlot
<1>3. Timed' /\ OwnDelay'
  BY <1>1 DEF Punctual, Timed, OwnDelay, Used
<1>4. ASSUME NEW s \in owed PROVE s \in Slot /\ s > at /\ at' # 0 /\ s >= at'
  BY <1>1, <1>2, <1>4, WalkFacts DEF Punctual, OwedAhead, DeferredTypeOK, Slot
<1>5. OwedAhead'
  BY <1>1, <1>4 DEF Punctual, OwedAhead, Used
<1>6. BornLater'
  BY <1>1, <1>2 DEF Punctual, BornLater, DeferredTypeOK, Slot
<1>7. WalkTime'
  <2>1. ASSUME at' # 0 PROVE TimeFrom(walkNow, now) <= (at' - 1) * MaxGap
    <3>1. at - 1 \in Nat /\ at' - 1 = (at - 1) + 1
      BY <1>2, <2>1
    <3>2. (at - 1) * MaxGap \in Nat /\ (at' - 1) * MaxGap = (at - 1) * MaxGap + MaxGap
      BY <3>1, Steps
    <3>3. TimeFrom(walkNow, now) <= (at - 1) * MaxGap /\ TimeFrom(walkNow, now) \in Nat
      BY <1>1, InWalk DEF Punctual, WalkTime
    <3> QED BY <3>2, <3>3, WalkFacts
  <2> QED BY <1>1, <2>1 DEF WalkTime
<1> QED BY <1>3, <1>5, <1>6, <1>7 DEF Punctual

\* What a due entry has left.
LEMMA DueNow ==
  ASSUME DeferredTypeOK, Punctual, at # 0, Used(at), Due(table[at].trigger, walkNow)
  PROVE  left[at] \in -MaxLag .. 0
<1>1. at \in Slot
  BY WalkFacts DEF DeferredTypeOK, Slot
<1>2. /\ table[at].trigger \in Time /\ now \in Time /\ walkNow \in Time
      /\ left[at] \in -MaxLag .. 2 * MaxDelay /\ Shifted(table[at].trigger, now, left[at])
  BY <1>1 DEF DeferredTypeOK, Punctual, Timed
<1>3. TimeFrom(walkNow, now) \in Nat /\ TimeFrom(walkNow, now) <= Walk
  BY InWalk DEF Punctual
<1>4. left[at] + TimeFrom(walkNow, now) <= 0
  BY <1>2, <1>3, DueMeans
<1> QED BY <1>2, <1>3, <1>4, WalkFacts

LEMMA InvokedPunctual ==
  ASSUME DeferredTypeOK, Punctual, Invoke PROVE Punctual'
<1>1. /\ at # 0 /\ running = INVALID /\ Used(at) /\ Due(table[at].trigger, walkNow)
      /\ owed' = owed \ {at} /\ running' # INVALID
      /\ UNCHANGED <<now, table, at, walkNow, left, born>>
  BY DEF Invoke, Used
<1>2. OwnDelay'
  BY <1>1, DueNow, WalkFacts DEF OwnDelay
<1>3. Timed' /\ WalkTime'
  BY <1>1 DEF Punctual, Timed, WalkTime, Used
<1>4. OwedAhead'
  BY <1>1 DEF Punctual, OwedAhead, Used
<1>5. BornLater'
  BY <1>1 DEF Punctual, BornLater
<1> QED BY <1>2, <1>3, <1>4, <1>5 DEF Punctual

LEMMA ReturnedPunctual ==
  ASSUME DeferredTypeOK, Punctual, NEW delay \in 0 .. MaxDelay, NEW d \in 0 .. MaxGap,
         Return(delay, d)
  PROVE  Punctual'
<1>1. /\ running # INVALID /\ running' = INVALID /\ at # 0 /\ at \in Slot
      /\ at' = NextSlot /\ now' = After(now, d)
      /\ \A s \in Slot : Used(s) => left[s] - d >= -MaxLag
      /\ UNCHANGED <<walkNow, owed>>
  BY WalkFacts DEF Return, Pass, DeferredTypeOK, Slot
<1>2. at \in 1 .. NumSlots /\ ((at' = 0 /\ at = NumSlots) \/ at' = at + 1)
  BY <1>1, WalkFacts DEF DeferredTypeOK, NextSlot
<1>3. now \in Time /\ now' \in Time
  BY <1>1, AfterFacts, WalkFacts DEF DeferredTypeOK
<1>4. ASSUME NEW s \in Slot, Used(s)
      PROVE  /\ table[s].trigger \in Time
             /\ left[s] - d \in -MaxLag .. 2 * MaxDelay
             /\ Shifted(table[s].trigger, now', left[s] - d)
  <2>1. /\ table[s].trigger \in Time /\ left[s] \in -MaxLag .. 2 * MaxDelay
        /\ Shifted(table[s].trigger, now, left[s]) /\ left[s] - d >= -MaxLag
    BY <1>1, <1>4 DEF DeferredTypeOK, Punctual, Timed
  <2> QED BY <1>1, <1>3, <2>1, ShiftedLater
<1>5. /\ \A s \in Slot : s # at => table'[s] = table[s]
      /\ \A s \in Slot : s # at /\ Used(s) => left'[s] = left[s] - d
      /\ born' \subseteq born
  BY <1>1 DEF Return, DeferredTypeOK
<1>6. ASSUME table'[at].token # INVALID
      PROVE  /\ left'[at] \in -MaxLag .. 2 * MaxDelay
             /\ Shifted(table'[at].trigger, now', left'[at])
  <2>1. CASE table[at].token # running
    <3>1. table' = table /\ left'[at] = left[at] - d /\ Used(at)
      BY <1>1, <1>6, <2>1 DEF Return, DeferredTypeOK, Used
    <3> QED BY <1>1, <1>4, <3>1
  <2>2. CASE table[at].token = running
    <3>1. Used(at) /\ left[at] <= MaxDelay
      BY <1>1, <2>2 DEF Used, Punctual, OwnDelay
    <3>2. delay > 0 /\ table' = [table EXCEPT ![at].trigger = After(@, delay)]
      BY <1>1, <1>6, <2>2, WalkFacts DEF Return, DeferredTypeOK, Used, Free
    <3>3. left'[at] = left[at] - d + delay
      BY <1>1, <2>2, <3>1, <3>2 DEF Return, DeferredTypeOK
    <3>4. table'[at].trigger = After(table[at].trigger, delay)
      BY <1>1, <3>2 DEF DeferredTypeOK
    <3>5. /\ table[at].trigger \in Time /\ left[at] - d \in -MaxLag .. MaxDelay
          /\ Shifted(table[at].trigger, now', left[at] - d)
      <4>1. left[at] \in Int
        BY <1>1 DEF DeferredTypeOK
      <4> QED BY <1>1, <1>4, <3>1, <4>1, WalkFacts
    <3> QED BY <1>3, <3>3, <3>4, <3>5, ShiftedAgain
  <2> QED BY <2>1, <2>2
<1>7. Timed'
  <2>1. ASSUME NEW s \in Slot, Used(s)'
        PROVE  /\ left'[s] \in -MaxLag .. 2 * MaxDelay
               /\ Shifted(table'[s].trigger, now', left'[s])
    <3>1. CASE s = at
      BY <1>6, <2>1, <3>1 DEF Used
    <3>2. CASE s # at
      BY <1>4, <1>5, <2>1, <3>2 DEF Used
    <3> QED BY <3>1, <3>2
  <2> QED BY <2>1 DEF Timed
<1>8. OwnDelay'
  BY <1>1 DEF OwnDelay
<1>9. WalkTime'
  <2>1. ASSUME at' # 0 PROVE TimeFrom(walkNow, now') <= (at' - 1) * MaxGap
    <3>1. at - 1 \in Nat /\ at' - 1 = (at - 1) + 1
      BY <1>2, <2>1
    <3>2. (at - 1) * MaxGap \in Nat /\ (at' - 1) * MaxGap = (at - 1) * MaxGap + MaxGap
      BY <3>1, Steps
    <3>3. /\ TimeFrom(walkNow, now) <= (at - 1) * MaxGap /\ TimeFrom(walkNow, now) \in Nat
          /\ TimeFrom(walkNow, now) + d <= Walk
      BY <1>1, InWalk DEF Punctual, WalkTime
    <3>4. TimeFrom(walkNow, now') = TimeFrom(walkNow, now) + d
      BY <1>1, <1>3, <3>3, WalkLater DEF DeferredTypeOK
    <3> QED BY <3>2, <3>3, <3>4, WalkFacts
  <2> QED BY <1>1, <2>1 DEF WalkTime
<1>10. OwedAhead'
  <2>1. ASSUME NEW s \in owed PROVE s \in Slot /\ s # at /\ at' # 0 /\ s >= at'
    BY <1>1, <1>2, <2>1, WalkFacts DEF Punctual, OwedAhead, DeferredTypeOK, Slot
  <2> QED BY <1>1, <1>5, <2>1 DEF Punctual, OwedAhead, Used
<1>11. BornLater'
  BY <1>1, <1>2, <1>5 DEF Punctual, BornLater, DeferredTypeOK, Slot
<1> QED BY <1>7, <1>8, <1>9, <1>10, <1>11 DEF Punctual

LEMMA StaysPunctual ==
  ASSUME DeferredTypeOK, Punctual, [DeferredNext]_<<now, deferredVars>> PROVE Punctual'
<1>1. ASSUME NEW s \in Slot, NEW t \in Token, NEW d \in Delays, Defer(s, t, d) PROVE Punctual'
  <2>1. Schedule(s, t, d) /\ CodeRuns /\ UNCHANGED <<now, lastCheck, at, walkNow, running, replaced>>
    BY <1>1 DEF Defer
  <2> QED BY <2>1, ScheduledLater
<1>2. ASSUME NEW s \in Slot, NEW d \in Delays, Extend(s, d) PROVE Punctual'
  <2>1. /\ Schedule(s, table[s].token, d) /\ CodeRuns /\ table[s].token \in Token
        /\ UNCHANGED <<now, lastCheck, at, walkNow, running, replaced>>
    BY <1>2 DEF Extend, DeferredTypeOK
  <2> QED BY <2>1, ScheduledLater
<1>3. CASE UNCHANGED <<now, deferredVars>>
  BY <1>3 DEF deferredVars, Punctual, Timed, OwnDelay, WalkTime, OwedAhead, BornLater, Used
<1> QED BY <1>1, <1>2, <1>3, CancelledPunctual, RoundPunctual, SkippedPunctual,
           InvokedPunctual, ReturnedPunctual DEF DeferredNext

LEMMA StartsPunctual == DeferredInit => Punctual
<1> SUFFICES ASSUME DeferredInit PROVE Punctual
  OBVIOUS
<1>1. \A s \in Slot : ~Used(s)
  BY DEF DeferredInit, Used, Free
<1> QED BY <1>1 DEF DeferredInit, Punctual, Timed, OwnDelay, WalkTime, OwedAhead, BornLater

LEMMA AlwaysPunctual == DeferredSpec => []Punctual
<1>1. now = 0 /\ DeferredInit => Punctual
  BY StartsPunctual
<1>2. DeferredTypeOK /\ Punctual /\ [DeferredNext]_<<now, deferredVars>> => Punctual'
  BY StaysPunctual
<1> QED BY <1>1, <1>2, DeferredTypesCorrect, PTL DEF DeferredSpec

\* Only Invoke calls a callback.
LEMMA OnlyInvoke ==
  ASSUME [DeferredNext]_<<now, deferredVars>>, running = INVALID, running' # INVALID
  PROVE  Invoke
BY DEF DeferredNext, Defer, Extend, Cancel, Round, Skip, Return, deferredVars

\* A walk leaves out no entry that was due when it began.
THEOREM NoneIsMissed == DeferredSpec => []NoneMissed
<1>1. Punctual => NoneMissed
  BY DEF Punctual, OwedAhead, NoneMissed
<1> QED BY <1>1, AlwaysPunctual, PTL

\* No callback is called before its time.
THEOREM NoneIsEarly == DeferredSpec => NotEarly
<1>1. DeferredTypeOK /\ Punctual /\ [DeferredNext]_<<now, deferredVars>>
        => [running = INVALID /\ running' # INVALID => left[at] <= 0]_running
  <2> SUFFICES ASSUME DeferredTypeOK, Punctual, [DeferredNext]_<<now, deferredVars>>,
                      running = INVALID, running' # INVALID
               PROVE  left[at] <= 0
    OBVIOUS
  <2>1. at # 0 /\ Used(at) /\ Due(table[at].trigger, walkNow)
    BY OnlyInvoke DEF Invoke
  <2> QED BY <2>1, DueNow, WalkFacts
<1> QED BY <1>1, DeferredTypesCorrect, AlwaysPunctual, PTL DEF DeferredSpec, NotEarly

\* What a callback queues or extends waits for the next walk.
THEOREM FreshEntriesWait == DeferredSpec => FreshWaits
<1>1. Punctual /\ [DeferredNext]_<<now, deferredVars>>
        => [running = INVALID /\ running' # INVALID => at \notin born]_running
  <2> SUFFICES ASSUME Punctual, [DeferredNext]_<<now, deferredVars>>,
                      running = INVALID, running' # INVALID
               PROVE  at \notin born
    OBVIOUS
  <2>1. at # 0 /\ Due(table[at].trigger, walkNow)
    BY OnlyInvoke DEF Invoke
  <2> QED BY <2>1 DEF Punctual, BornLater
<1> QED BY <1>1, AlwaysPunctual, PTL DEF DeferredSpec, FreshWaits
=============================================================================
