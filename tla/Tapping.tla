------------------------------ MODULE Tapping ------------------------------
(***************************************************************************)
(* The tap-or-hold state machine of quantum/action_tapping.c: one tapping  *)
(* key, a waiting buffer of events that cannot be interpreted before the   *)
(* tapping key is, and the 16-bit time stamps that decide.                 *)
(*                                                                         *)
(* action_tapping_process(event) is several steps here, taken one after    *)
(* the other: the event arrives (KeyEvent or TickEvent), process_tapping   *)
(* judges it, and then judges the waiting buffer from its tail until it    *)
(* refuses an entry or the buffer is empty.  pc is the place in that       *)
(* function; no other event arrives before pc is "scan" again.  Every      *)
(* action between a guard Judging and an ending Consumed or Kept is one    *)
(* branch of process_tapping.                                              *)
(*                                                                         *)
(* The configuration is the one the keyboards of this repository build:    *)
(* PERMISSIVE_HOLD or not, HOLD_ON_OTHER_KEY_PRESS or not, per key, and    *)
(* neither CHORDAL_HOLD, FLOW_TAP_TERM, SPECULATIVE_HOLD nor RETRO_SHIFT.  *)
(* The keymap and those two options are fixed when the firmware is built,  *)
(* so the variable build never changes.                                    *)
(***************************************************************************)
EXTENDS Integers, Sequences

CONSTANTS
  Key,
  NoKey,              \* the key of no event at all
  Builds,             \* the keymaps and options to choose from
  TappingTerm, QuickTapTerm,
  BufferSize,         \* WAITING_BUFFER_SIZE: one more than the events that fit
  MaxTap,             \* 15, the largest tap count a record can hold
  TimeMod,            \* 2^16, the period of timer_read()
  MaxGap,             \* the longest time between two rounds of the main loop
  Overtaking          \* bound: whether a key may change while Leftovers wait

\* modTap and layerTap are the keys with MT() and LT(), modKey the modifiers,
\* permissive and onOther the keys for which get_permissive_hold() and
\* get_hold_on_other_key_press() are true.
Build == [modTap : SUBSET Key, layerTap : SUBSET Key, modKey : SUBSET Key,
          permissive : SUBSET Key, onOther : SUBSET Key]

ASSUME KeysAssumption ==
  /\ NoKey \notin Key
  /\ Builds \subseteq Build
  /\ \A b \in Builds : /\ b.modTap \cap b.layerTap = {}
                       /\ b.modKey \cap (b.modTap \cup b.layerTap) = {}

ASSUME TermsAssumption ==
  /\ TimeMod \in Nat \ {0}
  /\ MaxTap \in Nat \ {0, 1}
  /\ BufferSize \in Nat \ {0, 1}
  /\ MaxGap \in Nat \ {0}
  /\ TappingTerm \in 1 .. TimeMod - 1
  /\ QuickTapTerm \in 0 .. TappingTerm
  /\ Overtaking \in BOOLEAN

VARIABLES
  build,
  now,         \* timer_read()
  ticked,      \* a tick was generated at this very time (last_tick = now)
  matrix,      \* the keys reported pressed
  moved,       \* the keys that changed since the last tick
  cur,         \* the event action_tapping_process was called with, while
               \* process_tapping has not judged it
  pc,          \* "scan", "event" or "drain"
  tapping,     \* tapping_key
  buf,         \* waiting_buffer from tail to head
  registered   \* per key, the actions process_action has begun and not ended

vars == <<build, now, ticked, matrix, moved, cur, pc, tapping, buf, registered>>

ModTap == build.modTap
LayerTap == build.layerTap
ModKey == build.modKey
PermissiveHold == build.permissive
HoldOnOther == build.onOther

TapKey == ModTap \cup LayerTap

Record == [key : Key, pressed : BOOLEAN, time : 0 .. TimeMod - 1,
           count : 0 .. MaxTap, interrupted : BOOLEAN]

\* {.event = event}: no tap state yet.
NewRecord(k, press, t) ==
  [key |-> k, pressed |-> press, time |-> t, count |-> 0, interrupted |-> FALSE]

TickAt(t) == NewRecord(NoKey, FALSE, t)

\* (keyrecord_t){0}: the tapping key when there is none.
NoRecord == TickAt(0)

IsEvent(r) == r.key # NoKey

Init ==
  /\ build \in Builds
  /\ now = 0 /\ ticked = TRUE
  /\ matrix = {} /\ moved = {}
  /\ cur = NoRecord
  /\ pc = "scan"
  /\ tapping = NoRecord
  /\ buf = <<>>
  /\ registered = [k \in Key |-> {}]

-----------------------------------------------------------------------------
(* Events arrive *)

\* Mutant: 16-bit times subtracted without wrapping.
TimerDiffSigned(a, b) == a - b

TimerDiff(a, b) == (a - b) % TimeMod

Receive(k, press, d) ==
  /\ pc = "scan"
  /\ now' = (now + d) % TimeMod
  /\ cur' = NewRecord(k, press, now')
  /\ pc' = "event"
  /\ UNCHANGED <<build, tapping, buf, registered>>

\* The tapping key is down and neither its release nor its term has come.
Undecided ==
  /\ IsEvent(tapping) /\ tapping.pressed /\ tapping.count = 0
  /\ \A i \in DOMAIN buf : buf[i].key = tapping.key => buf[i].pressed

\* Events wait although no key is undecided: the drain broke off, and only the
\* next event or tick goes on with it, after it has been judged itself.
Leftovers == buf # <<>> /\ ~Undecided

\* matrix_task found key k changed, d after the previous round of the loop.
\* Debouncing keeps two changes of one key at least DEBOUNCE apart, and a
\* round that finds no change, hence a tick, comes in between.
KeyEvent(k, d) ==
  /\ k \notin moved
  /\ Overtaking \/ ~Leftovers
  /\ moved' = moved \cup {k}
  /\ Receive(k, k \notin matrix, d)
  /\ matrix' = IF k \in matrix THEN matrix \ {k} ELSE matrix \cup {k}
  /\ ticked' = (ticked /\ d = 0)

\* matrix_task found no change, and the timer has moved since the last tick.
TickEvent(d) ==
  /\ d > 0 \/ ~ticked
  /\ Receive(NoKey, FALSE, d)
  /\ ticked' = TRUE /\ moved' = {}
  /\ UNCHANGED matrix

-----------------------------------------------------------------------------
(* What process_record does with a record it is handed *)

\* HOLD_ON_OTHER_KEY_PRESS turns an interrupted tap back into a hold.
Cancelled(r) ==
  /\ r.key \in ModTap \cap HoldOnOther
  /\ r.pressed /\ r.count > 0 /\ r.interrupted

\* Mutant: the release does not learn how its press was settled.
WithTapForgotten(r, t) == r

\* The tap state of the tapping key, copied to its release.
WithTap(r, t) == [r EXCEPT !.count = t.count, !.interrupted = t.interrupted]

\* Which of a key's actions the record begins or ends.
Role(r) ==
  IF r.key \notin TapKey THEN "key"
  ELSE IF r.count > 0 /\ ~Cancelled(r) THEN "tap" ELSE "hold"

Processed(reg, r) ==
  [reg EXCEPT ![r.key] = IF r.pressed THEN @ \cup {Role(r)} ELSE @ \ {Role(r)}]

\* process_action zeroes the tap count of a cancelled tap in place.
AfterProcess(r) == IF Cancelled(r) THEN [r EXCEPT !.count = 0] ELSE r

-----------------------------------------------------------------------------
(* process_tapping: the record it judges, what it asks, how it ends *)

Rec == IF pc = "event" THEN cur ELSE Head(buf)

Judging == pc = "event" \/ pc = "drain"

WithinTappingTerm(r) == TimerDiff(r.time, tapping.time) < TappingTerm
WithinQuickTapTerm(r) == TimerDiff(r.time, tapping.time) < QuickTapTerm

Idle      == Judging /\ ~IsEvent(tapping)
Pressed   == Judging /\ IsEvent(tapping) /\ tapping.pressed
Released  == Judging /\ IsEvent(tapping) /\ ~tapping.pressed
Unsettled == Pressed /\ tapping.count = 0
Tapped    == Pressed /\ tapping.count > 0

IsTapPress(r)   == r.pressed /\ r.key \in TapKey
IsTapRelease(r) == ~r.pressed /\ r.key = tapping.key

\* waiting_buffer_typed: the opposite transition of the same key waits.
Typed(r) == \E i \in DOMAIN buf : buf[i].key = r.key /\ buf[i].pressed # r.pressed

\* Mutant: the buffer waits for the next event.
DrainLater(b) == buf' = b /\ pc' = "scan"

\* The rest of action_tapping_process once the record, or the buffer entry,
\* is dealt with: go on with the buffer, unless it is empty.
Drain(b) ==
  /\ buf' = b
  /\ pc' = IF b = <<>> THEN "scan" ELSE "drain"

\* Mutant: one entry of the buffer a round.
ConsumedOnce(b) ==
  /\ buf' = IF pc = "drain" THEN Tail(b) ELSE b
  /\ pc' = IF pc = "drain" \/ b = <<>> THEN "scan" ELSE "drain"
  /\ cur' = NoRecord
  /\ UNCHANGED <<build, now, ticked, matrix, moved>>

\* process_tapping returns true, having left b in the buffer.
Consumed(b) ==
  /\ Drain(IF pc = "drain" THEN Tail(b) ELSE b)
  /\ cur' = NoRecord
  /\ UNCHANGED <<build, now, ticked, matrix, moved>>

\* Mutant: the buffer is taken for full one entry early.
BufferFullEarly == Len(buf) >= BufferSize - 2

\* Mutant: the ring's free slot is used too.
BufferFullLate == Len(buf) >= BufferSize

BufferFull == Len(buf) >= BufferSize - 1

\* clear_keyboard lets go of keys and modifiers, not of layers.
Cleared(reg) == [k \in Key |-> IF k \in LayerTap THEN reg[k] \cap {"hold"} ELSE {}]

\* process_tapping returns false on record r, with tapping key t and actions
\* reg.  A new event joins the buffer; when it is full, everything is cleared.
\* A buffer entry stays at the tail and the loop over the buffer breaks.
Kept(r, t, reg) ==
  /\ cur' = NoRecord
  /\ UNCHANGED <<build, now, ticked, matrix, moved>>
  /\ \/ /\ pc = "drain"
        /\ buf' = [buf EXCEPT ![1] = r]
        /\ pc' = "scan"
        /\ tapping' = t /\ registered' = reg
     \/ /\ pc = "event"
        /\ ~IsEvent(r)
        /\ Drain(buf)
        /\ tapping' = t /\ registered' = reg
     \/ /\ pc = "event"
        /\ IsEvent(r) /\ ~BufferFull
        /\ Drain(Append(buf, r))
        /\ tapping' = t /\ registered' = reg
     \/ /\ pc = "event"
        /\ IsEvent(r) /\ BufferFull
        /\ Drain(<<>>)
        /\ tapping' = NoRecord
        /\ registered' = Cleared(reg)

-----------------------------------------------------------------------------
(* The branches of process_tapping *)

\* A tick that finds nothing to time out.
TickIgnored ==
  /\ Judging /\ ~IsEvent(Rec)
  /\ \/ Idle
     \/ Pressed /\ (WithinTappingTerm(Rec) \/ tapping.count > 0)
     \/ Released /\ WithinTappingTerm(Rec)
  /\ Consumed(buf)
  /\ UNCHANGED <<tapping, registered>>

\* No tapping key: a regular key, or the release of any key, goes through.
PassThrough ==
  /\ Idle /\ IsEvent(Rec) /\ ~IsTapPress(Rec)
  /\ registered' = Processed(registered, Rec)
  /\ Consumed(buf)
  /\ UNCHANGED tapping

\* waiting_buffer_scan_tap for a new tapping key r: if its release already
\* waits, within the term, both are settled as a tap now.
ReleaseWaits(r, i) ==
  /\ buf[i].key = r.key /\ ~buf[i].pressed
  /\ TimerDiff(buf[i].time, r.time) < TappingTerm

BecomeTapping(r, reg) ==
  \/ /\ \A i \in DOMAIN buf : ~ReleaseWaits(r, i)
     /\ tapping' = r
     /\ registered' = reg
     /\ Consumed(buf)
  \/ \E i \in DOMAIN buf :
       LET tap == [r EXCEPT !.count = 1]
       IN /\ ReleaseWaits(r, i)
          /\ \A j \in 1 .. i - 1 : ~ReleaseWaits(r, j)
          /\ tapping' = AfterProcess(tap)
          /\ registered' = Processed(reg, tap)
          /\ Consumed([buf EXCEPT ![i].count = 1])

\* No tapping key: a tap key pressed becomes it.
StartTapping ==
  /\ Idle /\ IsTapPress(Rec)
  /\ BecomeTapping(Rec, registered)

\* The tapping key is released within its term: it was a tap.  The release
\* waits behind what is in the buffer.
FirstTap ==
  /\ Unsettled /\ WithinTappingTerm(Rec) /\ IsEvent(Rec)
  /\ IsTapRelease(Rec)
  /\ LET tap     == [tapping EXCEPT !.count = 1]
         settled == AfterProcess(tap)
     IN Kept(WithTap(Rec, settled), settled, Processed(registered, tap))

\* Mutant: the tapping key is settled, and stays the tapping key.
NestedTapUnsettled ==
  /\ Unsettled /\ WithinTappingTerm(Rec) /\ IsEvent(Rec)
  /\ ~Rec.pressed /\ Rec.key # tapping.key
  /\ Typed(Rec) /\ tapping.key \in PermissiveHold
  /\ Kept(Rec, tapping, Processed(registered, tapping))

\* Another key was pressed and released within the term: PERMISSIVE_HOLD
\* settles the tapping key as held.
NestedTap ==
  /\ Unsettled /\ WithinTappingTerm(Rec) /\ IsEvent(Rec)
  /\ ~Rec.pressed /\ Rec.key # tapping.key
  /\ Typed(Rec) /\ tapping.key \in PermissiveHold
  /\ Kept(Rec, NoRecord, Processed(registered, tapping))

\* The release of a key pressed before the tapping key: modifiers and layers
\* are kept to the end of this tapping, other keys released at once.
RetainedToEnd(r) ==
  \/ r.key \in ModKey
  \/ r.key \in ModTap /\ r.count = 0
  \/ r.key \in LayerTap

EarlierKeyReleased ==
  /\ Unsettled /\ WithinTappingTerm(Rec) /\ IsEvent(Rec)
  /\ ~Rec.pressed /\ Rec.key # tapping.key
  /\ ~Typed(Rec)
  /\ \/ /\ RetainedToEnd(Rec)
        /\ Kept(Rec, tapping, registered)
     \/ /\ ~RetainedToEnd(Rec)
        /\ registered' = Processed(registered, Rec)
        /\ Consumed(buf)
        /\ UNCHANGED tapping

\* Mutant: HOLD_ON_OTHER_KEY_PRESS forgotten here.
OtherKeyWaitsAlways ==
  /\ Unsettled /\ WithinTappingTerm(Rec) /\ IsEvent(Rec)
  /\ \/ /\ ~Rec.pressed /\ Rec.key # tapping.key
        /\ Typed(Rec) /\ tapping.key \notin PermissiveHold
        /\ Kept(Rec, tapping, registered)
     \/ /\ Rec.pressed
        /\ Kept(Rec, [tapping EXCEPT !.interrupted = TRUE], registered)

\* Another key pressed, or typed without PERMISSIVE_HOLD: it waits.  Under
\* HOLD_ON_OTHER_KEY_PRESS a press settles the tapping key as held.
OtherKeyWaits ==
  /\ Unsettled /\ WithinTappingTerm(Rec) /\ IsEvent(Rec)
  /\ \/ /\ ~Rec.pressed /\ Rec.key # tapping.key
        /\ Typed(Rec) /\ tapping.key \notin PermissiveHold
        /\ Kept(Rec, tapping, registered)
     \/ /\ Rec.pressed /\ tapping.key \notin HoldOnOther
        /\ Kept(Rec, [tapping EXCEPT !.interrupted = TRUE], registered)
     \/ /\ Rec.pressed /\ tapping.key \in HoldOnOther
        /\ Kept(Rec, NoRecord, Processed(registered, tapping))

\* The term passed before the tapping key was released: it is held.
HoldTimeout ==
  /\ Unsettled /\ ~WithinTappingTerm(Rec)
  /\ Kept(Rec, NoRecord, Processed(registered, tapping))

\* The tapping key, already tapped and pressed again, is released.
TapReleased ==
  /\ Tapped /\ IsEvent(Rec) /\ IsTapRelease(Rec)
  /\ LET r == WithTap(Rec, tapping)
     IN /\ registered' = Processed(registered, r)
        /\ tapping' = IF WithinTappingTerm(Rec) THEN r ELSE NoRecord
  /\ Consumed(buf)

\* Mutant: the last tap is not released.
TapInterruptedUnreleased ==
  /\ Tapped /\ IsEvent(Rec) /\ IsTapPress(Rec)
  /\ BecomeTapping(Rec, registered)

\* Another tap key is pressed while the last tap is down: a repeating tap
\* is released first.
TapInterrupted ==
  /\ Tapped /\ IsEvent(Rec) /\ IsTapPress(Rec)
  /\ LET release == [tapping EXCEPT !.pressed = FALSE, !.time = Rec.time]
     IN BecomeTapping(Rec, IF tapping.count > 1
                           THEN Processed(registered, release)
                           ELSE registered)

\* Any other event while the last tap is down goes through.
KeyDuringTap ==
  /\ Tapped /\ IsEvent(Rec) /\ ~IsTapRelease(Rec) /\ ~IsTapPress(Rec)
  /\ registered' = Processed(registered, Rec)
  /\ Consumed(buf)
  /\ UNCHANGED tapping

\* The tapping key is pressed again: a sequential tap if soon enough, else
\* it starts anew.
TapAgain ==
  /\ Released /\ WithinTappingTerm(Rec) /\ IsEvent(Rec)
  /\ Rec.pressed /\ Rec.key = tapping.key
  /\ LET sequential == /\ WithinQuickTapTerm(Rec)
                       /\ ~tapping.interrupted
                       /\ tapping.count > 0
         count == IF tapping.count < MaxTap THEN tapping.count + 1 ELSE MaxTap
         again == [Rec EXCEPT !.count = count]
     IN \/ /\ sequential
           /\ registered' = Processed(registered, again)
           /\ tapping' = again
        \/ /\ ~sequential
           /\ registered' = registered
           /\ tapping' = Rec
  /\ Consumed(buf)

\* A different tap key is pressed just after a tap.
OtherTapAfterTap ==
  /\ Released /\ WithinTappingTerm(Rec) /\ IsTapPress(Rec) /\ Rec.key # tapping.key
  /\ BecomeTapping(Rec, registered)

\* Any other event just after a tap goes through; a press rules out a
\* sequential tap.
KeyAfterTap ==
  /\ Released /\ WithinTappingTerm(Rec) /\ IsEvent(Rec)
  /\ ~IsTapPress(Rec)
  /\ registered' = Processed(registered, Rec)
  /\ tapping' = [tapping EXCEPT !.interrupted = @ \/ Rec.pressed]
  /\ Consumed(buf)

\* The term passed after the last tap: back to the reset state.
ReleaseTimeout ==
  /\ Released /\ ~WithinTappingTerm(Rec)
  /\ Kept(Rec, NoRecord, registered)

ProcessTapping ==
  \/ TickIgnored \/ PassThrough \/ StartTapping
  \/ FirstTap \/ NestedTap \/ EarlierKeyReleased \/ OtherKeyWaits \/ HoldTimeout
  \/ TapReleased \/ TapInterrupted \/ KeyDuringTap
  \/ TapAgain \/ OtherTapAfterTap \/ KeyAfterTap \/ ReleaseTimeout

Next ==
  \/ \E k \in Key, d \in 0 .. MaxGap : KeyEvent(k, d)
  \/ \E d \in 0 .. MaxGap : TickEvent(d)
  \/ ProcessTapping

Spec == Init /\ [][Next]_vars

\* The main loop never stops calling matrix_task, and process_tapping always
\* returns.  Ticks need no fairness of their own: a key that has changed does
\* not change again before one.
FairSpec == Spec /\ WF_vars(Next)


-----------------------------------------------------------------------------
(* Properties *)

Action == {"key", "tap", "hold"}

\* Every variable keeps to its type: time stamps wrap, the buffer never holds
\* more than WAITING_BUFFER_SIZE - 1 records (its ring has one free slot), and
\* a tap count never exceeds the four bits of tap_t.
TypeOK ==
  /\ build \in Builds
  /\ now \in 0 .. TimeMod - 1
  /\ ticked \in BOOLEAN
  /\ matrix \in SUBSET Key /\ moved \in SUBSET Key
  /\ pc \in {"scan", "event", "drain"}
  /\ cur \in Record \cup {TickAt(t) : t \in 0 .. TimeMod - 1}
  /\ tapping \in Record \cup {NoRecord}
  /\ buf \in Seq(Record) /\ Len(buf) < BufferSize
  /\ registered \in [Key -> SUBSET Action]

\* A key is never held down with its tap and its hold action at once: whatever
\* waited, timed out or was interrupted in between, the two process_record
\* calls of one press agree on the tap count.
OneAction == \A k \in Key : \A x, y \in registered[k] : x = y

\* When every switch is open and nothing waits, nothing is left registered:
\* no key, modifier or layer stays on with no release to come.
NothingStuck ==
  pc = "scan" /\ matrix = {} /\ buf = <<>> => \A k \in Key : registered[k] = {}

\* action.c's "ad hoc: set 0 to cancel tap" is never needed: a mod-tap that
\* settles on another key's press is not interrupted while it is down.
NeverCancelled ==
  tapping.pressed /\ tapping.key \in ModTap \cap HoldOnOther
    => ~tapping.interrupted

\* What no process_record call has seen: the press of an unsettled tapping key,
\* then the waiting buffer, then the new event.
Waiting ==
  LET press == IF IsEvent(tapping) /\ tapping.pressed /\ tapping.count = 0
               THEN <<tapping>> ELSE <<>>
  IN press \o IF pc = "event" /\ IsEvent(cur) THEN Append(buf, cur) ELSE buf

\* The transitions of key k in w.
Transitions(w, k) ==
  LET upTo[i \in 0 .. Len(w)] ==
        IF i = 0 THEN <<>>
        ELSE IF w[i].key = k THEN Append(upTo[i - 1], w[i].pressed) ELSE upTo[i - 1]
  IN upTo[Len(w)]

\* There is room for the press of an undecided tapping key and for a full buffer.
Delivery == INSTANCE KeyDelivery WITH
  Capacity <- BufferSize,
  undelivered <- [k \in Key |-> Transitions(Waiting, k)],
  down <- {k \in Key : registered[k] # {}}

\* The tapping layer implements KeyDelivery: however the decision on the
\* tapping key delays it, every switch transition reaches process_record once,
\* those of one key in their order; only an event that finds the buffer full
\* loses any, and then everything that waits is lost and every key let go.
Delivers == Delivery!Spec

\* What process_tapping's comment "should none in buffer" says of a key pressed
\* just after a tap: between a tap and the next event nothing is waiting.
NoneInBuffer ==
  pc # "drain" /\ IsEvent(tapping) /\ ~tapping.pressed => buf = <<>>

\* What action_tapping_process's comment "clear all in case of overflow" says:
\* when the buffer is thrown away, nothing stays registered.
OverflowClearsAll ==
  [][pc = "event" /\ buf # <<>> /\ buf' = <<>>
       => \A k \in Key : registered'[k] = {}]_vars

\* A tap key that is held down does not stay undecided: the tick settles it
\* even when no further key event comes.
Settles ==
  \A k \in Key :
    (tapping.key = k /\ tapping.pressed /\ tapping.count = 0)
      ~> ~(tapping.key = k /\ tapping.pressed /\ tapping.count = 0)

\* When typing stops, the waiting buffer empties: ticks alone work it off, one
\* round of the loop after the other.
WorksOff == <>[][UNCHANGED matrix]_vars => <>[](buf = <<>>)

=============================================================================
