----------------------------- MODULE Debounce -----------------------------
(***************************************************************************)
(* The debounce algorithms of quantum/debounce: every matrix scan reads    *)
(* the raw matrix and calls debounce(), which decides what part of it the  *)
(* rest of the firmware sees (cooked).  A build links one algorithm, so    *)
(* the variable algorithm never changes.                                   *)
(*                                                                         *)
(* A unit is what has a timer of its own: a key in the _pk algorithms, a   *)
(* row in the _pr ones.  The code of sym_eager_pk.c and sym_eager_pr.c     *)
(* differs in nothing else.                                                *)
(*                                                                         *)
(* quiet and held are history: they record what a reader of the physical   *)
(* keyboard would know, and no algorithm reads them.                       *)
(***************************************************************************)
EXTENDS Integers

CONSTANTS
  Unit,
  RowValue, Open, \* what a row can read, and what it reads untouched
  DEBOUNCE,
  CounterMax,     \* the largest elapsed time a counter is decremented by
  TimerMod,       \* the period of timer_read_fast()
  MaxGap          \* the longest time between two scans

ASSUME DebounceAssumption ==
  /\ Open \in RowValue
  /\ CounterMax \in Nat
  /\ DEBOUNCE \in 1 .. CounterMax
  /\ MaxGap \in Nat \ {0}
  /\ TimerMod \in Nat /\ TimerMod > DEBOUNCE + MaxGap

VARIABLES
  algorithm,   \* DEBOUNCE_TYPE of the build
  now,         \* timer_read_fast()
  raw, cooked, \* per unit
  counter,     \* debounce_counters; 0 is DEBOUNCE_ELAPSED
  pressed,     \* asym_eager_defer_pk: what the running counter is for
  needUpdate,  \* counters_need_update; sym_defer_g: debouncing
  lastTime,    \* last_time; sym_defer_g: debouncing_time
  quiet,       \* ms since the raw state of a unit changed, at most Forever
  held         \* ms since the cooked state of a unit changed, at most Forever

vars == <<algorithm, now, raw, cooked, counter, pressed, needUpdate, lastTime, quiet, held>>

Forever == 2 * DEBOUNCE + MaxGap

Algorithms == {"sym_defer_pk", "sym_defer_pr", "sym_defer_g",
               "sym_eager_pk", "sym_eager_pr", "asym_eager_defer_pk"}

PerRow == {"sym_defer_pr", "sym_eager_pr"}

\* A key reads TRUE while it is pressed.
Untouched == IF algorithm \in PerRow THEN Open ELSE FALSE
Readings == [Unit -> IF algorithm \in PerRow THEN RowValue ELSE BOOLEAN]

Init ==
  /\ algorithm \in Algorithms
  /\ now = 0 /\ lastTime = 0 /\ needUpdate = FALSE
  /\ raw = [u \in Unit |-> Untouched] /\ cooked = raw
  /\ counter = [u \in Unit |-> 0]
  /\ pressed = [u \in Unit |-> FALSE]
  /\ quiet = [u \in Unit |-> Forever] /\ held = quiet

-----------------------------------------------------------------------------
(* A scan: d after the previous one, the matrix reads r *)

AtMost(a, b) == IF a <= b THEN a ELSE b

Read(r, d) ==
  /\ UNCHANGED algorithm
  /\ now' = (now + d) % TimerMod
  /\ raw' = r
  /\ quiet' = [u \in Unit |-> IF r[u] # raw[u] THEN 0 ELSE AtMost(quiet[u] + d, Forever)]

\* Once debounce() has returned.
Passed(d) ==
  held' = [u \in Unit |-> IF cooked'[u] # cooked[u] THEN 0 ELSE AtMost(held[u] + d, Forever)]

Changed == raw' # raw

TimeSince(t) == (now' - t) % TimerMod

\* The time the counters are decremented by: none unless one may be running.
Elapsed == IF needUpdate THEN AtMost(TimeSince(lastTime), CounterMax) ELSE 0

Expires(u) == counter[u] # 0 /\ counter[u] <= Elapsed

\* Mutant: subtracts without looking.
CountedDownBlindly == [u \in Unit |-> counter[u] - Elapsed]

\* The counters after update_debounce_counters, and whether one still runs.
CountedDown == [u \in Unit |-> IF counter[u] <= Elapsed THEN 0 ELSE counter[u] - Elapsed]

StillRunning ==
  IF Elapsed > 0 THEN \E u \in Unit : CountedDown[u] # 0 ELSE needUpdate

-----------------------------------------------------------------------------
(* Defer: the raw state is passed on once it has not changed for DEBOUNCE *)

\* Expired counters pass on what the unit reads now.
Transferred == [u \in Unit |-> IF Expires(u) THEN raw'[u] ELSE cooked[u]]

Differs(u) == raw'[u] # Transferred[u]

\* Mutant: a bounce back does not stop the counter.
StartedUncleared ==
  [u \in Unit |-> IF Differs(u) /\ CountedDown[u] = 0 THEN DEBOUNCE ELSE CountedDown[u]]

\* start_debounce_counters of sym_defer_pr: every differing row starts again.
StartedPerRow == [u \in Unit |-> IF Differs(u) THEN DEBOUNCE ELSE 0]

\* start_debounce_counters of sym_defer_pk: a running counter runs on.
StartedPerKey ==
  [u \in Unit |-> IF ~Differs(u) THEN 0
                  ELSE IF CountedDown[u] = 0 THEN DEBOUNCE ELSE CountedDown[u]]

Defer(started, starts) ==
  /\ cooked' = Transferred
  /\ counter' = IF Changed THEN started ELSE CountedDown
  /\ needUpdate' = (StillRunning \/ (Changed /\ \E u \in Unit : starts[u]))
  /\ lastTime' = IF needUpdate \/ Changed THEN now' ELSE lastTime
  /\ UNCHANGED pressed

SymDeferPk ==
  Defer(StartedPerKey, [u \in Unit |-> Differs(u) /\ CountedDown[u] = 0])

SymDeferPr ==
  Defer(StartedPerRow, [u \in Unit |-> Differs(u)])

\* Mutant: waits a millisecond more.
DueLate == ~Changed /\ needUpdate /\ TimeSince(lastTime) > DEBOUNCE

\* sym_defer_g: one timer, and all or nothing.
Due == ~Changed /\ needUpdate /\ TimeSince(lastTime) >= DEBOUNCE

SymDeferG ==
  /\ cooked' = IF Due THEN raw' ELSE cooked
  /\ needUpdate' = (Changed \/ (needUpdate /\ ~Due))
  /\ lastTime' = IF Changed THEN now' ELSE lastTime
  /\ UNCHANGED <<counter, pressed>>

-----------------------------------------------------------------------------
(* Eager: a change is passed on at once, and the next one after DEBOUNCE *)

\* Mutants: the lock is ignored, or its end is.
FlipsUnlocked(u) ==
  (Changed \/ \E v \in Unit : Expires(v)) /\ raw'[u] # cooked[u]

FlipsOnChange(u) ==
  Changed /\ raw'[u] # cooked[u] /\ CountedDown[u] = 0

\* A unit that differs and is not locked.
Flips(u) ==
  /\ Changed \/ \E v \in Unit : Expires(v)
  /\ raw'[u] # cooked[u] /\ CountedDown[u] = 0

SymEager ==
  /\ cooked' = [u \in Unit |-> IF Flips(u) THEN raw'[u] ELSE cooked[u]]
  /\ counter' = [u \in Unit |-> IF Flips(u) THEN DEBOUNCE ELSE CountedDown[u]]
  /\ needUpdate' = (StillRunning \/ \E u \in Unit : Flips(u))
  /\ lastTime' = IF needUpdate \/ Changed THEN now' ELSE lastTime
  /\ UNCHANGED pressed

-----------------------------------------------------------------------------
(* asym_eager_defer_pk: presses at once, releases deferred *)

Released == [u \in Unit |-> IF Expires(u) /\ ~pressed[u] THEN raw'[u] ELSE cooked[u]]

\* Mutant: the end of the lock is ignored.
TransfersOnChange == Changed

Transfers == Changed \/ \E u \in Unit : Expires(u) /\ pressed[u]

Starts(u) == Transfers /\ raw'[u] # Released[u] /\ CountedDown[u] = 0

\* Mutant: releases at once, presses deferred.
AsymSwapped ==
  /\ cooked' = [u \in Unit |-> IF Starts(u) /\ ~raw'[u] THEN FALSE ELSE Released[u]]
  /\ pressed' = [u \in Unit |-> IF Starts(u) THEN raw'[u] ELSE pressed[u]]
  /\ counter' = [u \in Unit |-> IF Starts(u) THEN DEBOUNCE ELSE CountedDown[u]]
  /\ needUpdate' = (StillRunning \/ \E u \in Unit : Starts(u))
  /\ lastTime' = IF needUpdate \/ Changed THEN now' ELSE lastTime

\* Mutant: a bounce back does not stop a deferred release.
AsymUncleared ==
  /\ cooked' = [u \in Unit |-> IF Starts(u) /\ raw'[u] THEN TRUE ELSE Released[u]]
  /\ pressed' = [u \in Unit |-> IF Starts(u) THEN raw'[u] ELSE pressed[u]]
  /\ counter' = [u \in Unit |-> IF Starts(u) THEN DEBOUNCE ELSE CountedDown[u]]
  /\ needUpdate' = (StillRunning \/ \E u \in Unit : Starts(u))
  /\ lastTime' = IF needUpdate \/ Changed THEN now' ELSE lastTime

AsymEagerDefer ==
  /\ cooked' = [u \in Unit |-> IF Starts(u) /\ raw'[u] THEN TRUE ELSE Released[u]]
  /\ pressed' = [u \in Unit |-> IF Starts(u) THEN raw'[u] ELSE pressed[u]]
  /\ counter' = [u \in Unit |->
       IF Starts(u) THEN DEBOUNCE
       ELSE IF Transfers /\ raw'[u] = Released[u] /\ ~pressed[u] THEN 0
       ELSE CountedDown[u]]
  /\ needUpdate' = (StillRunning \/ \E u \in Unit : Starts(u))
  /\ lastTime' = IF needUpdate \/ Changed THEN now' ELSE lastTime

-----------------------------------------------------------------------------
(* The firmware only ever scans *)

Debounced ==
  \/ algorithm = "sym_defer_pk" /\ SymDeferPk
  \/ algorithm = "sym_defer_pr" /\ SymDeferPr
  \/ algorithm = "sym_defer_g" /\ SymDeferG
  \/ algorithm \in {"sym_eager_pk", "sym_eager_pr"} /\ SymEager
  \/ algorithm = "asym_eager_defer_pk" /\ AsymEagerDefer

Scan(r, d) == Read(r, d) /\ Debounced /\ Passed(d)

Next == \E r \in Readings, d \in 0 .. MaxGap : Scan(r, d)

Spec == Init /\ [][Next]_vars

-----------------------------------------------------------------------------
(* Properties *)

\* Counters stay within DEBOUNCE.
TypeOK ==
  /\ algorithm \in Algorithms
  /\ now \in 0 .. TimerMod - 1 /\ lastTime \in 0 .. TimerMod - 1
  /\ raw \in Readings /\ cooked \in Readings
  /\ counter \in [Unit -> 0 .. DEBOUNCE]
  /\ pressed \in [Unit -> BOOLEAN]
  /\ needUpdate \in BOOLEAN
  /\ quiet \in [Unit -> 0 .. Forever] /\ held \in [Unit -> 0 .. Forever]

\* sym_defer_pk and sym_defer_g: what is passed on has been read, and nothing
\* else has been read of that key, for DEBOUNCE ms, so a bounce or noise is never
\* passed on.
DeferStable ==
  [][\A u \in Unit : algorithm \in {"sym_defer_pk", "sym_defer_g"} /\ cooked'[u] # cooked[u]
         => cooked'[u] = raw'[u] /\ quiet'[u] >= DEBOUNCE]_vars

\* What docs/feature_debounce_type.md says of sym_defer_pr: a row is passed on
\* when it has not changed for DEBOUNCE ms.
RowStable ==
  [][\A u \in Unit : algorithm = "sym_defer_pr" /\ cooked'[u] # cooked[u]
         => cooked'[u] = raw'[u] /\ quiet'[u] >= DEBOUNCE]_vars

\* What sym_defer_pr does: the row was quiet up to the scan before.  The scan
\* that ends the wait passes on what it reads itself, bounces included.
RowStableBefore ==
  [][\A u \in Unit : algorithm = "sym_defer_pr" /\ cooked'[u] # cooked[u]
         => cooked'[u] = raw'[u] /\ quiet[u] + TimeSince(now) >= DEBOUNCE]_vars

\* sym_defer_pk: a key that has not changed for DEBOUNCE ms has been passed on,
\* whatever the others do.
DeferPrompt ==
  \A u \in Unit : algorithm = "sym_defer_pk" /\ raw[u] # cooked[u] => quiet[u] < DEBOUNCE

\* sym_defer_g, and sym_defer_pr too, where a change in any row starts the timer
\* of every row that differs again: once the whole matrix has been quiet for
\* DEBOUNCE ms, all of it has been passed on.
DeferAllPrompt ==
  algorithm \in {"sym_defer_g", "sym_defer_pr"} /\ raw # cooked
    => \E u \in Unit : quiet[u] < DEBOUNCE

\* sym_eager_*: after a unit changed, DEBOUNCE ms pass before it changes again.
EagerLocked ==
  [][\A u \in Unit : algorithm \in {"sym_eager_pk", "sym_eager_pr"} /\ cooked'[u] # cooked[u]
         => held[u] + TimeSince(now) >= DEBOUNCE]_vars

\* sym_eager_*: only a lock delays a change: outside of it what is read is what
\* is passed on, and a change during the lock is passed on at its end.
EagerPrompt ==
  \A u \in Unit : algorithm \in {"sym_eager_pk", "sym_eager_pr"} /\ raw[u] # cooked[u]
    => held[u] < DEBOUNCE

\* asym_eager_defer_pk: a press is passed on by the scan that reads it, even
\* one that cuts the release of the same key short.
PressPrompt ==
  \A u \in Unit : algorithm = "asym_eager_defer_pk" /\ raw[u] => cooked[u]

\* asym_eager_defer_pk: a release is passed on when the key has read released
\* for DEBOUNCE ms.  One that begins during the lock that follows the press
\* waits for the scan that ends the lock, and DEBOUNCE more.
ReleaseStable ==
  [][\A u \in Unit : algorithm = "asym_eager_defer_pk" /\ cooked[u] /\ ~cooked'[u]
         => quiet'[u] >= DEBOUNCE]_vars

ReleasePrompt ==
  \A u \in Unit : algorithm = "asym_eager_defer_pk" /\ cooked[u] /\ ~raw[u]
    => quiet[u] < 2 * DEBOUNCE + MaxGap - 1

=============================================================================
