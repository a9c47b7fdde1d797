---------------------------- MODULE DeferredExec ----------------------------
(***************************************************************************)
(* Deferred execution, quantum/deferred_exec.c: a table of callbacks with  *)
(* the times they are due, and a task that walks the table at most once a  *)
(* millisecond.  The keyboard's code, and the callbacks themselves while   *)
(* the task waits for them to return, queue, extend and cancel entries.    *)
(* A token names an entry to its user; 8-bit tokens are handed out in      *)
(* turn, skipping those in use.                                            *)
(*                                                                         *)
(* left, born, owed and replaced are history: what somebody with a watch   *)
(* would know of the entries.                                              *)
(***************************************************************************)
EXTENDS Timer

CONSTANTS
  NumSlots,   \* MAX_DEFERRED_EXECUTORS
  TokenMod,   \* 256, the period of current_token
  MaxDelay,   \* the longest delay asked for
  MaxLag      \* how far the main loop may fall behind an entry

ASSUME DeferredAssumption ==
  /\ NumSlots \in Nat \ {0}
  /\ TokenMod \in Nat /\ NumSlots < TokenMod
  /\ MaxDelay \in Nat \ {0} /\ MaxLag \in Nat
  /\ 2 * (2 * MaxDelay + MaxLag + NumSlots * MaxGap) < TimeMod

Slot == 1 .. NumSlots
INVALID == 0
Token == 0 .. TokenMod - 1

VARIABLES
  currentToken,  \* current_token
  table,         \* per slot, token and trigger_time
  lastCheck,     \* last_deferred_exec_check
  at,            \* the slot the task is at; 0 outside the task
  walkNow,       \* the task's now
  running,       \* curr_token, while its callback has not returned
  left,          \* the ms to each entry's due time
  born,          \* the slots queued or extended since the task began
  owed,          \* the slots that were due then and nobody has dealt with
  replaced       \* the running callback has cancelled its own entry

deferredVars ==
  <<currentToken, table, lastCheck, at, walkNow, running, left, born, owed, replaced>>

Free == [token |-> INVALID, trigger |-> 0]

Used(s) == table[s].token # INVALID

DeferredInit ==
  /\ currentToken = 0
  /\ table = [s \in Slot |-> Free]
  /\ lastCheck = 0 /\ walkNow = 0
  /\ at = 0 /\ running = INVALID
  /\ left = [s \in Slot |-> 0]
  /\ born = {} /\ owed = {} /\ replaced = FALSE

-----------------------------------------------------------------------------
(* What the keyboard's code and the callbacks call *)

CodeRuns == at = 0 \/ running # INVALID

\* Mutant: only the reserved token is skipped.
TokenCanBeUsedBlindly(t) == t # INVALID

TokenCanBeUsed(t) == t # INVALID /\ \A s \in Slot : table[s].token # t

\* How many steps on from current_token allocate_token finds token t.
StepsTo(t) == IF t = currentToken THEN TokenMod ELSE (t - currentToken) % TokenMod

Allocated(t) ==
  /\ TokenCanBeUsed(t)
  /\ \A u \in Token : TokenCanBeUsed(u) => StepsTo(t) <= StepsTo(u)

\* Entry s is now due d from now.
Schedule(s, t, d) ==
  /\ table' = [table EXCEPT ![s] = [token |-> t, trigger |-> After(now, d)]]
  /\ left' = [left EXCEPT ![s] = d]
  /\ born' = born \cup {s} /\ owed' = owed \ {s}

\* Mutant: a delay of zero is accepted.
DelaysWithZero == 0 .. MaxDelay

Delays == 1 .. MaxDelay

\* defer_exec, which does nothing when every slot is in use.
Defer(s, t, d) ==
  /\ CodeRuns
  /\ ~Used(s) /\ \A r \in 1 .. s - 1 : Used(r)
  /\ Allocated(t)
  /\ currentToken' = t
  /\ Schedule(s, t, d)
  /\ UNCHANGED <<now, lastCheck, at, walkNow, running, replaced>>

\* extend_deferred_exec, for the token of slot s.
Extend(s, d) ==
  /\ CodeRuns
  /\ Used(s)
  /\ Schedule(s, table[s].token, d)
  /\ UNCHANGED <<now, currentToken, lastCheck, at, walkNow, running, replaced>>

Cleared(s) ==
  /\ table' = [table EXCEPT ![s] = Free]
  /\ left' = [left EXCEPT ![s] = 0]
  /\ born' = born \ {s}

\* cancel_deferred_exec, for the token of slot s.
Cancel(s) ==
  /\ CodeRuns
  /\ Used(s)
  /\ Cleared(s)
  /\ owed' = owed \ {s}
  /\ replaced' = (replaced \/ s = at)
  /\ UNCHANGED <<now, currentToken, lastCheck, at, walkNow, running>>

-----------------------------------------------------------------------------
(* deferred_exec_task *)

\* d milliseconds pass, and no entry falls further behind than MaxLag.
Pass(d) ==
  /\ now' = After(now, d)
  /\ \A s \in Slot : Used(s) => left[s] - d >= -MaxLag

\* Mutant: times compared as unsigned numbers that never wrap.
DueUnwrapped(t, u) == t <= u

Due(t, u) == NotAfter(t, u)

\* The main loop comes round to the task, d after it did last.
Round(d) ==
  /\ at = 0
  /\ Pass(d)
  /\ left' = [s \in Slot |-> IF Used(s) THEN left[s] - d ELSE 0]
  /\ \/ /\ Before(lastCheck, now')
        /\ lastCheck' = now' /\ walkNow' = now'
        /\ at' = 1
        /\ born' = {} /\ owed' = {s \in Slot : Used(s) /\ left'[s] <= 0}
     \/ /\ ~Before(lastCheck, now')
        /\ UNCHANGED <<lastCheck, walkNow, at, born, owed>>
  /\ UNCHANGED <<currentToken, table, running, replaced>>

\* Mutant: a callback whose entry is no longer its own ends the walk.
NextSlotOrBreak ==
  IF at = NumSlots \/ (running # INVALID /\ table[at].token # running) THEN 0 ELSE at + 1

NextSlot == IF at = NumSlots THEN 0 ELSE at + 1

\* The entry is not due.
Skip ==
  /\ at # 0 /\ running = INVALID
  /\ ~(Used(at) /\ Due(table[at].trigger, walkNow))
  /\ at' = NextSlot
  /\ UNCHANGED <<now, currentToken, table, lastCheck, walkNow, running, left, born, owed, replaced>>

\* It is: its callback is called.
Invoke ==
  /\ at # 0 /\ running = INVALID
  /\ Used(at) /\ Due(table[at].trigger, walkNow)
  /\ running' = table[at].token
  /\ owed' = owed \ {at}
  /\ replaced' = FALSE
  /\ UNCHANGED <<now, currentToken, table, lastCheck, at, walkNow, left, born>>

\* The callback returns delay, d after it was called.
Return(delay, d) ==
  /\ running # INVALID
  /\ Pass(d)
  /\ \/ /\ table[at].token # running
        /\ left' = [s \in Slot |-> IF Used(s) THEN left[s] - d ELSE 0]
        /\ UNCHANGED <<table, born>>
     \/ /\ table[at].token = running /\ delay > 0
        /\ table' = [table EXCEPT ![at].trigger = After(@, delay)]
        /\ left' = [s \in Slot |->
                      IF Used(s) THEN left[s] - d + (IF s = at THEN delay ELSE 0) ELSE 0]
        /\ UNCHANGED born
     \/ /\ table[at].token = running /\ delay = 0
        /\ table' = [table EXCEPT ![at] = Free]
        /\ left' = [s \in Slot |-> IF Used(s) /\ s # at THEN left[s] - d ELSE 0]
        /\ born' = born \ {at}
  /\ running' = INVALID
  /\ at' = NextSlot
  /\ UNCHANGED <<currentToken, lastCheck, walkNow, owed, replaced>>

DeferredNext ==
  \/ \E s \in Slot, t \in Token, d \in Delays : Defer(s, t, d)
  \/ \E s \in Slot, d \in Delays : Extend(s, d)
  \/ \E s \in Slot : Cancel(s)
  \/ \E d \in 0 .. MaxGap : Round(d)
  \/ Skip \/ Invoke
  \/ \E delay \in 0 .. MaxDelay, d \in 0 .. MaxGap : Return(delay, d)

DeferredSpec == now = 0 /\ DeferredInit /\ [][DeferredNext]_<<now, deferredVars>>

-----------------------------------------------------------------------------
(* Properties *)

\* Tokens, slots and times stay in range, and while a callback runs the task
\* is at a slot.
DeferredTypeOK ==
  /\ now \in Time /\ lastCheck \in Time /\ walkNow \in Time
  /\ currentToken \in Token /\ running \in Token
  /\ table \in [Slot -> [token : Token, trigger : Time]]
  /\ at \in 0 .. NumSlots
  /\ running # INVALID => at # 0
  /\ left \in [Slot -> Int]
  /\ born \subseteq Slot /\ owed \subseteq Slot
  /\ replaced \in BOOLEAN

\* A token names one entry: however often the 8-bit counter has gone round,
\* cancel_deferred_exec and extend_deferred_exec find the entry their caller
\* queued or none.
UniqueTokens ==
  \A r, s \in Slot : Used(r) /\ table[r].token = table[s].token => r = s

\* No callback is called before its time, whatever callbacks before it in the
\* walk have done and wherever the timer wraps.
NotEarly == [][running = INVALID /\ running' # INVALID => left[at] <= 0]_running

\* An entry that a callback queues or extends is not called in the same walk,
\* so that callbacks that queue one another do not keep the main loop.
FreshWaits == [][running = INVALID /\ running' # INVALID => at \notin born]_running

\* A walk leaves out no entry that was due when it began, even when callbacks
\* cancel themselves, cancel others or queue new entries behind the task.
NoneMissed == at = 0 => owed = {}

\* What the task's comment "If the token has changed, then the callback has
\* canceled and re-queued. Skip further processing." relies on: what a callback
\* returns is applied to its own entry, never to one queued in its place.
OwnEntryOnly ==
  [][running # INVALID /\ running' = INVALID /\ replaced /\ Used(at)
       => table'[at] = table[at]]_<<running, table>>
=============================================================================
