# Verification of the QMK firmware core

TLA+ models of the parts of this firmware that decide, after the fact and under
time pressure, what a key press meant and where a setting is kept.  They are
checked with TLC on small instances; the theorems hold for every value of the
constants and are checked with TLAPS.

The firmware is one loop.  A round of it (`keyboard_task`, src/quantum/keyboard.c:705)
reads the switches, debounces them, turns every change into an event, decides
what the event means, and tells the host; then the timers of the other features
get their turn.  There are few threads and few locks.  What is hard is time: an
event is judged long after it happened, against state that other events have
changed since, by clocks that wrap; a power loss cuts a write to the flash in
two; the other half of the keyboard, the USB interrupt and the radio go away
and come back when they like.

    switches -> matrix_scan -> debounce -> matrix_task -> action_tapping_process
                                                          (waiting buffer, ticks)
      -> process_record -> process_record_quantum -> process_action -> host report
                           (one-shots, combos, tap dance, macros, ...)
    settings: eeconfig, VIA, dynamic keymaps -> nvm -> wear leveling -> flash


## Inventory

Status: **M** modelled, **P** partly modelled, **-** not modelled.

| Component | State it keeps | Operations | Interacts with |
|---|---|---|---|
| **P** Tap-or-hold, quantum/action_tapping.c | `tapping_key`, ring `waiting_buffer` | `action_tapping_process` (event or tick), `process_tapping`, `waiting_buffer_*` | called for every event; calls `process_record`; layer state; 16-bit timer |
| **M** Debouncing, quantum/debounce | per key or row counters, `last_time`, `counters_need_update`, cooked matrix | `debounce` | called by every matrix scan; fast timer |
| **P** Wear leveling, quantum/wear_leveling | RAM cache, `write_address`; on flash consolidated data, checksum, log | `init`, `read`, `write`, `erase`; internally playback, append, consolidate | flash driver below, eeprom driver and nvm above; power |
| **M** Deferred execution, deferred_exec.c | table of callbacks, token counter | defer, extend, cancel, task | callbacks call back into it; 32-bit timer |
| **P** Tap dance, process_tap_dance.c | pool of dance states, `active_td`, one time stamp | press, release, interruption, task | modifiers, one-shots, layers, reports |
| **P** Combos, process_combo.c | state per combo, key buffer, combo ring, one timer | press, release, flush, toggle, task | the record pipeline behind it |
| **P** Split transport, split_common | shared memory image, checksums, error count, throttle timer | transactions of both halves, forced sync, loss and return | matrix, encoders, layers, power of the other half |
| **P** Encoders, encoder.c | event ring, drain flag | enqueue, dequeue, drain | split transport, actions |
| **P** USB device events, tmk_core/protocol/chibios | event queue, device state, last suspend state; endpoints, report store | event callback (interrupt), queue task, suspend loop; send, idle | host, suspend, lighting |
| **P** Main loop, quantum/keyboard.c | previous matrix, last tick | `matrix_task`, `generate_tick_event`, the `*_task` of every feature | feeds everything |
| **P** Matrix, quantum/matrix*.c | raw and cooked matrix | `matrix_scan`, post-scan of the split half | debounce, split transport |
| **P** Actions, quantum/action.c | tap toggles, swap-hands, one-shot release bookkeeping | `process_record`, `process_action`, `clear_keyboard` | layers, modifiers, host |
| **P** Action state, quantum/action_util.c | real, weak, one-shot modifiers and layers with timeouts; reports | add, delete, set, clear; `send_keyboard_report` | actions, tap dance, host |
| **P** Timers, platforms/timer.* | the millisecond counter | differences and comparisons of times that wrap | all of the above |
| **-** Layers, action_layer.c, tri_layer.c, layer_lock.c | layer bits, source layer cache, locked layers | on, off, move, lock, idle timeout | tapping, actions |
| **-** Host and connection, host.c, connection.c | active and desired host, stored choice | send reports, switch host | all report senders |
| **-** Auto shift, key lock, caps word, leader, secure, repeat key, dynamic macros, key overrides and the like | small automata, timeouts | `process_*` on each record, `*_task` each round | the record pipeline, one another by order |
| **-** Settings, eeconfig.c, via.c, dynamic_keymap.c, nvm | nothing of their own: bytes in the store | read, update, reset | wear leveling |
| **-** Mouse keys, lighting, haptics, sensors, audio, displays | curves, effects | timers | output only |
| **-** Drivers, platforms, keyboards, build | - | - | - |

What makes each correct, and where it is hard:

- *Tap-or-hold.* Every switch transition reaches `process_record` once, a key's
  own in their order; press and release of a key agree on whether it was a tap;
  nothing stays registered when all switches are open; an undecided key is
  decided. Hard: events wait and are judged later; nested tap keys; overflow of
  the buffer; time stamps wrap.
- *Debouncing.* No bounce is passed on (defer) or passed on twice (eager), and
  every lasting change is passed on in time. Hard: counters are decremented by
  times between scans, capped and wrapping; counters of different keys interact.
- *Wear leveling.* What was written is read, also after a restart; a power loss
  costs at most what was being written. Hard: a power loss anywhere; a log whose
  end is recognised by its being erased; errors of the flash.
- *Deferred execution.* A callback runs once per due time and never early; what a
  user cancels is what he queued. Hard: callbacks that cancel and queue during the
  walk; token reuse; a clock that wraps.
- *Tap dance.* A dance releases what it registered and gives its state back; one
  dance at most is counting. Hard: interruption by keys, modifiers and other
  dances, a pool that runs out, one time stamp for all.
- *Combos.* What is held back is let go in time, in its order, or given up for a
  combo that takes effect. Hard: two bounded buffers, combos that overlap, a timer
  for which 0 means off.
- *Split transport and encoders.* The view of the other half is a state that half
  was in; it becomes current; a lost half is let go; a turn is carried out once.
  Hard: lost transactions, 8-bit checksums, a drain command that races new events.
- *USB.* The device state follows the bus; a keyboard in use is not left powered
  down. Hard: a bounded queue filled from an interrupt, state written in the loop and
  read in the interrupt.
- *Action state and layers.* The release undoes what the press did although
  layers changed in between; one-shots end once. Hard: 16-bit timeouts.
- *Settings.* A reset in the middle leaves either value. Hard: several bytes.

The hazards, each at its line, are listed in PROJECT.json, with the properties that
watch them or the reason why none does.


## Plan

| | Modules | State |
|---|---|---|
| 1 | `KeyDelivery` (abstract), `Tapping`, `TappingProofs`, `MCTapping` | done |
| 2 | `Debounce`, `DebounceProofs`, `MCDebounce` | done |
| 3 | `PersistentStore` (abstract), `WearLeveling`, `WearLevelingProofs`, `MCWearLeveling` | done |
| 4 | `Timer`, `DeferredExec`, `DeferredExecProofs` | done |
| 5 | `TapDance`, `TapDanceProofs`, `Combo`, `ComboProofs`, `MCCombo` | done |
| 6 | `SplitLink`, `SplitEncoder`, `SplitProofs` | done |
| 7 | `UsbEvents`, `UsbEventsProofs` | done |
| 8 | `MCFeatures`, which composes 4 to 7 | done |
| 9 | one-shots with their timeouts, and layers: a release finds the layer its press used | open |
| 10 | settings of several bytes on top of `PersistentStore` | open |
| 11 | CHORDAL_HOLD, FLOW_TAP_TERM and SPECULATIVE_HOLD as options of `Tapping` | open |

Every invariant and action property of the passing runs is proved; where a theorem needs
more than the assumptions on the constants, its statement and the section below name it.


## Tapping

`KeyDelivery` is what the tapping layer promises: `Sense` (a switch changes) and
`Deliver` (some keys' oldest undelivered transition takes effect, or a key that is down
is let go because the next transition of another key is a press). `Overflow` is the
exception the code makes, and it is tied to the room there is: only when more than
`Capacity` transitions wait, everything that waits is forgotten at once and every key
that is down is let go, and this or a delivery comes before the next switch is read.
`Tapping` implements it with `Capacity` = `BufferSize`: one undecided tapping key and the
`BufferSize` - 1 events that the ring holds, so that a layer that loses a transition while
there is room, or clears the buffer and leaves a key down, does not implement it.

`Tapping` follows quantum/action_tapping.c. `tapping` is `tapping_key`, `buf` the
ring `waiting_buffer` from tail to head, `cur` the event the function was called
with, `registered` the actions that process_action has begun and not ended; `pc`
is the place in `action_tapping_process`: "scan" (not in it), "event" (judging the
new event), "drain" (the loop over the buffer). `KeyEvent` and `TickEvent` are
matrix_task and `generate_tick_event`; each branch of `process_tapping` is an action
named for it; `Consumed` and `Kept` are its two results with what the caller does
next, the enqueue, the overflow and the drain. Time stamps are taken modulo `TimeMod`,
as `TIMER_DIFF_16` does.

Assumed: a key that changed does not change again before a tick came in between
(debouncing, see below, keeps two changes DEBOUNCE ms apart, and a round without
a change generates a tick: `moved`). Left out: CHORDAL_HOLD, FLOW_TAP_TERM,
SPECULATIVE_HOLD and RETRO_SHIFT, which no keyboard of this fork builds; keymaps
that change with layers while a key waits.

Which keys are mod-taps, layer-taps and modifiers, and which decide early, is a
`Build`, chosen at the start from `Builds` and never changed.

| Run | Builds | What it shows |
|---|---|---|
| tapping_default | 2 mod-taps and a letter; the mod-taps decided by their release, by the next press (HOLD_ON_OTHER_KEY_PRESS, one of them with PERMISSIVE_HOLD too), by a nested tap (PERMISSIVE_HOLD), or one by the next press and the other by a nested tap; a buffer of 4 events, which overflows | types and bounds; tap or hold, never both (`OneAction`); the cancelled tap of process_action never occurs (`NeverCancelled`); after a tap nothing waits, as the comment "should none in buffer" (action_tapping.c:632) has it (`NoneInBuffer`); KeyDelivery is implemented (`Delivers`); an undecided key is decided (`Settles`) and the buffer is worked off once typing stops (`WorksOff`) |
| tapping_nesting | a mod-tap, a layer-tap and a modifier; or PERMISSIVE_HOLD on a mod-tap, and 2 letters nested in it; a buffer that three keys do not fill | nothing stays registered although releases are retained (`NothingStuck`) |
| tapping_overflow | *violated:* `OverflowClearsAll`, with a layer-tap | the clear-all of an overflow leaves a layer on |
| tapping_race | *violated:* `Delivers`, two mod-taps under the default options; bounds of tapping_default | a new event overtakes what an earlier drain left waiting |

The race, and what the other two runs say around it. An undecided key is settled while
two taps of a second tap key wait. The drain settles the first of these taps and stops at
the release of the second, which it cannot judge yet; what is left in the buffer is judged
only after the next event has been. Four waiting events are
what this takes, and no option is needed. If the next event is a key, `Delivers` fails
(tapping_race), and so do `OneAction` and `NothingStuck`. A tick does no harm. So
tapping_default and tapping_nesting are checked under a proviso, the constant
`Overtaking` = FALSE: no key changes while `Leftovers` wait, that is while events wait
and no key is undecided. What they show is that this race is the only way in which the
properties fail, under every mixture of the options, as far as the bounds reach. On a
keyboard the proviso fails only when a key changes within the millisecond or so before
the next tick. Of the theorems, only those on `OneAction` and `NothingStuck` need it.

Bounds. A term of 3 ticks with a quick-tap term of 2 gives every outcome of a
comparison, before, at and after either term, and lets four key changes fit in one term:
that is what the race takes. `TimeMod` of 7 to 15 is more than twice a term, as 65536 is,
and small enough that the clock wraps many times within one behaviour; in tapping_default
and tapping_nesting it is the smallest that `NoWrap` below allows. Two tap keys are
the most that one state of the machine refers to; a third key is the letter or modifier
that interrupts. In tapping_default two keys fill the buffer within a term. In
tapping_nesting the buffer is larger than what three keys can put there, so that the flaw
of tapping_overflow stays out of the question asked. Tap counts stop at `MaxTap` = 2,
which is "more than one", all the code asks.

Fairness: `FairSpec` is `WF_vars(Next)`, the main loop goes on. Nothing is assumed
about ticks; that a key does not change twice without one forces them.

Proved (`TappingProofs`) for every keymap, term, buffer size and clock:
`TypeCorrect`, by the invariant `TypeInv` (types, and the drain loop only looks at a
buffer that holds something), which says that the ring never outgrows itself and a tap
count its four bits; and `CancelIsDead` (`NeverCancelled`), by `FreshInv`: a record that
is pressed and untapped was never marked interrupted, because under
HOLD_ON_OTHER_KEY_PRESS the press that would mark it settles it first. `NothingWaitsAfterTap` (`NoneInBuffer`): the
tapping record becomes a released tap only where the record that did it is consumed, and
the drain loop then goes on until nothing waits or another record is the tapping one.

`OneActionAtATime` (`OneAction`) and `NothingStaysOn` (`NothingStuck`) follow from the
invariant `Settled`. It looks at the `Line`, the waiting buffer with the event that has
arrived behind it, and has four parts:

- `ChainInv`: the events of one key in the line press and release it in turn, the last one
  leaves its switch as the matrix has it, and a key that is down, registered or about to
  be, is released by the first of its events that wait, or else its switch is still
  closed. With nothing waiting and every switch open this is `NothingStuck`.
- `RolesInv`: a tap key has its tap or its hold action registered, never both; and an event
  in the line knows its tap count just when it is the release of a key that is down as a
  tap, so that the release ends what the press began. A tap that is down without such a
  release is the tapping key, tapped again (`Repeating`).
- `Clock`: no entry of the buffer is so old that its time stamp, or the difference of two,
  wraps. Each place in the buffer costs at most one more round of the main loop, hence
  `NoWrap`: a term and one longest round for each place fit into the timer's period. With
  a term of 200 ms, a buffer of 8 and 16 bits these are rounds of 8 seconds. It is what
  makes `waiting_buffer_scan_tap` find the first release of the new tapping key.
- `Ordered`: a new event is judged before those that wait only while a key is undecided.

`DeliversEveryTransition` (`Delivers`) is the refinement of `KeyDelivery`, from the same
invariant. What is undelivered is `Waiting`: the press of an undecided tapping key, then
the line. Every branch of process_tapping does one of five things to it: it keeps an event
back (`StepWaits`), decides the press in front (`StepSettles`), hands the front of the line
to process_record (`StepHands`), makes the front the tapping key (`StepStarts`), or lets an
event of another key pass those that wait (`StepOvertakes`). The lemmas `Mapped...` show
each branch as a step of `KeyDelivery`, key by key: its oldest transitions take effect, or
nothing does. They need to know what taking an event from the front or adding one at the
end does to the `Transitions` of each key (`TransitionsFront`, `TransitionsAppend`), which
is proved along the positions of the line, with the least position where it would fail
(`Upwards`, from the least-element principle on the naturals).

An overflow has to be shown to happen only when there is no room left. `OwedCount` counts:
KeyDelivery's `Owed` has as many members as records wait. The full branch of `Kept` is
taken only behind an undecided tapping key (`KeptShape`; otherwise the buffer is empty, by
`NoneInBuffer`), so that what waits is its press, at least `BufferSize` - 1 entries and the
new event, one more than the capacity; and between two events no more than the capacity
waits (`MappedKey`). That a repeating tap is let go only for a press that interrupts it is
`PressInterrupts`: the press is the front of the line, and not the tapping key's own.

Two hypotheses besides `NoWrap` are not decoration: TLC finds all three properties violated
without the proviso `~Overtaking` (for `Delivers` this is tapping_race), and with it when
an overflow leaves a layer on, as in tapping_overflow. So the three theorems are about behaviours in which `OverflowClearsAll` holds;
`OverflowLosesNoLayer` says that without layer-taps in the keymaps these are all.
tapping_nesting, whose buffer does not overflow, has layer-taps.

Assumed of the constants: key kinds are disjoint, terms fit the clock, a tap count can be
more than one.


## Debounce

One module for six algorithms: `algorithm` is chosen at the start and never changes.
A *unit* has a timer of its own: a key in the `_pk` algorithms, a row in the `_pr`
ones, so that sym_eager_pk.c and sym_eager_pr.c are the same actions. `Scan` is
matrix_scan: `Read` takes a new raw matrix any time up to `MaxGap` after the last,
then the algorithm of the build, the whole of `debounce()`, sets `cooked`, `counter`,
`needUpdate` and `lastTime`. `quiet` and `held` are history: how long a unit has read
the same and been passed on the same. `CounterMax` is the cap of 255 on the elapsed
time, `TimerMod` the period of the fast timer.

The run **debounce** (two units, three values of a row, DEBOUNCE = CounterMax = 2,
TimerMod = 6, MaxGap = 3, so that gaps shorter than, equal to and longer than
DEBOUNCE and the cap occur and the timer wraps within a few scans; symmetric in the
units) checks

- defer: nothing is passed on that has not been quiet for DEBOUNCE (`DeferStable`),
  for rows up to the scan before (`RowStableBefore`); a quiet key is passed on at once
  (`DeferPrompt`), a quiet matrix is (`DeferAllPrompt`);
- eager: two changes are DEBOUNCE apart (`EagerLocked`) and only the lock delays one
  (`EagerPrompt`);
- asymmetric: presses at once (`PressPrompt`), releases after DEBOUNCE of quiet
  (`ReleaseStable`) and within twice that and a scan gap (`ReleasePrompt`).

**debounce_row** is violated: sym_defer_pr.c copies a row as the scan that ends the wait
reads it, so a second key of the row that bounces in this scan comes through at once,
while docs/feature_debounce_type.md:117 promises DEBOUNCE ms of no changes on the row.
A second disagreement has no run: the comment at sym_defer_pr.c:98 says that a counter is
set if it has elapsed, but line 107 restarts the counter of every row that differs, so
that a change in any row delays the others; `DeferAllPrompt` is what remains true.

All ten properties are proved (`DebounceProofs`) for any number of units, any DEBOUNCE
up to the cap, any gap and any timer period longer than DEBOUNCE and a gap. That last
assumption is what the code needs: a gap of a whole period goes unnoticed. The inductive
invariant `IInv` says, algorithm by algorithm, which time a running counter stands for:
`quiet = DEBOUNCE - counter` for sym_defer_pk; between the quiet time of the row and
that of the row that changed last for sym_defer_pr; the one timer for sym_defer_g;
`held` for the eager ones; and for the asymmetric one the time since the press, or since
the scan that found the release. `Noticed` says that no counter runs unnoticed and that
the next scan will subtract exactly the time since this one; `Countdown` concludes that the
cap never costs a counter anything that goes on running. `TimeAdds` is the modular
arithmetic. None of the properties is inductive: they speak of what counters imply.


## WearLeveling

`PersistentStore` is what the rest of the firmware may rely on: reads return what was
written last; a power loss may cost the bytes of the write under way, or any byte while
everything is being rewritten, but to the old value, the new or the erased one; a
restart brings back the rest.

`WearLeveling` follows quantum/wear_leveling/wear_leveling.c for stores of 2-, 4- and
8-byte words. `consolidated` and `log` are the flash, `cache` and `next` (write_address, as
the number of a word of the log) the RAM. The flash is programmed word by word and
erased sector by sector, each an action, and `PowerLoss` may come between any two. The
encodings of wear_leveling_internal.h are modelled bit by bit (`Raw`, `Multibyte`,
`Words`, and the reading side `Entry`, `EntryBytes`, `EntryAddress`), because what a torn
entry reads as is the point. `todo` is the write under way: the words left of the entry
being appended, and the bytes after it, which `Encoded` turns into the next entry. Every operation of the flash may also fail; the store then
promises nothing until a consolidation has succeeded (`failed`). Init is a blank flash.

| Run | Store | What it shows |
|---|---|---|
| wear_leveling | all word sizes, 8 bytes, a log of one sector that fills after a few writes | appends always meet erased words (`RestErased`), PersistentStore is implemented (`Persistent`) |
| wear_leveling_torn | *violated:* `ReadsLatest`, 2-byte words, addresses beyond the one-word range | a power loss after the first word of an entry: the header alone is played back, at another address |
| wear_leveling_sectors | *violated:* `ReadsLatest`, a log in two sectors | a power loss between two sectors of the erase: the end of the old log becomes reachable again |

Bounds. Eight bytes and a log of one to four words make every write fill the log, cut an
entry in two by its end, or find it full at playback. The three writes are a pair of 0 and
1 (the entry of one word), one byte, and more bytes than an entry takes. `ByteLimit` is
64 in the passing run, so that 2-byte stores use one-word entries only, which cannot be
torn, and 0 in wear_leveling_torn, where it stands for the addresses from 64 up. In the
passing run data, checksum and log are sectors of their own and the log has one, so that
an erase cannot be cut inside it; the two violated runs are the two exceptions.

No liveness is claimed: nothing in the code bounds the number of power losses.

Proved, in `WearLevelingProofs`, for any sizes of data, log and sectors, any writes, and
any of the three word sizes:

- `StoreTypesCorrect`: the types, from what each encoding returns (`EncodedOK`) and what
  playback reads (`EntryOK`);
- `RestStaysErased`: `RestErased`, if the log lies in the last sector
  (`LogInLastSector`). The assumption is needed: where an erase can be cut inside the log,
  as in wear_leveling_sectors, the end of an old log comes back. The invariant `RestInv` has
  to know how playback finds the end of the log, by lengths it reads there. `Visited` are the
  places it comes by; each begins an entry that ends where the next begins. It rests on
  an entry having as many words as its first one says (`NewEntry`), also one that was cut
  off: playback then skips the words that are still erased. `SoundPlaces` says the
  same of the log when the power is off, when nobody knows where it ends.
- `StoreIsPersistent`: the refinement `Persistent`, with the log in the last sector, entries
  of one word where words have two bytes (`OneWordEntries`) and addresses that fit the 19
  bits an entry has for them (`AddressesFit`, wear_leveling.c:116). The first two are what
  wear_leveling_sectors and wear_leveling_torn break; stores of 4- and 8-byte words need
  only the first and the third. `RestartReadsLatest` is what these runs ask, under the
  same conditions.

The invariant of the refinement, `Survives`, speaks of what playback *would* make of the
flash, without running it. `GoesOn` and `After` are one step of playback over any log; a
set of places and contents closed under that step stands for the whole of it, so that no
recursion is needed. `Logged`: from the consolidated data playback comes to
write_address with the cache. `Recoverable`: wherever playback ends, it ends with contents
that a power loss may leave (`Maybe`). `Entering`: during an append the log is `Logged` up to the
entry under way, of which some words are programmed. Three lemmas carry it. `EntryRead`:
an entry is read as it was written, and one of which the later words are missing has its
address and length, and some of its bytes as zeros, because its header is in the first word.
`EnteringDone` and `Torn`: with its last word the entry becomes part of the log; cut off
before, it costs bytes at risk only. `RecoverableBlank`: over erased data, while the sectors go
one by one, the same log gives the same bytes or erased ones.


## Timer and DeferredExec

`Timer` is the wrapping millisecond counter: `TimeFrom`, `NotAfter` and `Before` are
TIMER_DIFF and the comparisons of platforms/timer.h.

`DeferredExec` follows quantum/deferred_exec.c. `table` is the table of executors,
`currentToken` the counter of `allocate_token`, `at` the slot `deferred_exec_task` is at
(0 outside of it), `running` the token whose callback has not returned. `Defer`, `Extend`
and `Cancel` are the three calls; they happen outside the task and, while `running` is set,
inside a callback, any number of them and on any entry. `Round` enters the task, `Skip`,
`Invoke` and `Return` walk the table. `left`, `born`, `owed` and `replaced` are history:
the true time to each entry, which has no wrap, and what the walk still has to do.

Checked in **features** and proved for every table, token width and timer period:

- `UniqueTokens`: however often the 8-bit counter has gone round, a token names one entry;
- `NotEarly`: no callback is called before its time, across the wrap;
- `FreshWaits`: what is queued or extended during a walk is not called in it;
- `NoneMissed`: a walk leaves out no entry that was due when it began.

The proof of `NotEarly` rests on `Punctual`, which says for each entry which true time
its trigger stands for (`Timed`, `OwnDelay`), how far the walk may be behind the clock
(`WalkTime`), and that what is owed is due (`OwedAhead`) and what is born is not
(`BornLater`). It needs delays and delays of the loop to fit half the timer's period:
`2 * (2 * MaxDelay + MaxLag + NumSlots * MaxGap) < TimeMod`, where `MaxLag` is how far the
loop may fall behind an entry. For the 32-bit timer that is 24 days.

**deferred_token** is violated: a callback that cancels its own entry and queues another
may get the very token back, if the counter has gone round to it in the meantime, and what
it returns is then applied to the new entry, contrary to deferred_exec.c:135.

Bounds: 2 slots, 3 usable tokens and a timer of 16 ms, so that tokens and times wrap
often; delays of 1 and 2, rounds at most 1 ms apart.


## TapDance

`TapDance` follows quantum/process_keycode/process_tap_dance.c with the predefined
actions, `ACTION_TAP_DANCE_DOUBLE`, `_LAYER_MOVE` and `_LAYER_TOGGLE` (`kind`). One key
event runs through `preprocess_tap_dance`, `process_tap_dance` and the dance's functions in
one call, so the state they change is one record, `kb`, and each function an operator on
it, with the C function's name; `PressDance`, `ReleaseDance`, `OtherKey`, `ShiftKey`,
`OneShotKey` are the events, several of which one scan may report, and `DanceTask` is
`tap_dance_task`. One modifier stands for eight.

Checked in **features** and, but for `DanceEnds`, proved for any dances, pool, term and
period of the count: `NoOrphan` (`active_td` names the one dance that still counts,
and the task does not pass it over), `DanceLetsGo` (a dance that gave its state back has
released what it registered), `ModsReturn` (no modifier outlives the dances that took it
along), `DanceEnds` (a state is not kept by a dance that is over, so the pool does not run
dry). `DanceEnds` assumes that the task is called again and again while time goes on
(`DanceFairness`): the main loop calls it every round.

The proof has one lemma per C function: what it makes of the dance's own state, and that
it leaves those of other dances alone. The invariant `Sound` says of each dance which of
three things it is, and what it may have registered then: unused, with nothing down;
counting, and then it is `active_td` and has nothing down yet; or finished, and then it
waits for its key and has down only what its reset will unregister. That last part is what
the mutant of on_reset breaks. `PoolKept` counts the states, and `Brought` names for each
modifier that is on the key or the waiting dance that answers for it.

Bounds: two dances, one double and one of the other two kinds, and pools of 1 and 2, so
that the pool is exhausted; a term of 1 ms, at most two key changes per scan; counts
modulo 3, which wrap (256 in the code).

A deviation that no property states: `process_tap_dance_action_on_reset` takes the
one-shot modifiers of the dance away from the real ones (process_tap_dance.c:145), so a
Shift that is held down physically at that time is dropped too. `ModsReturn` only speaks of
modifiers whose key is up.


## Combo

`Combo` follows quantum/process_keycode/process_combo.c. `cb` holds the state of every
combo, `key_buffer` (`keys`), the combo ring, the timer and what the host sees. The
functions are operators on it: `ComboPress` and `ComboRelease` are `process_single_combo`,
`BufferCombo` the choice between combos that overlap, `ApplyCombos`, `DumpKeyBuffer` and
`ClearCombos` what their names say. The actions are a key press, a release, the toggle key
and `combo_task`.

The loops of the code are told by what they leave behind. The ring is the sequence `ready`
of what lies between its two indices: only its first entry ever makes room, so a loop that
drops entries shortens it at the front (`DropCombos`), and when it is full the indices meet
and it is empty (`Buffered`). `apply_combos` turns records of the key buffer into ticks and
combos, one combo after the other; a record is changed by a combo that has its key and
still lacks some key (`Takes`), and the last one that does so decides what it is
(`Becomes`). The loop of `process_combo` over all combos is the recursive function of
`SingleCombos`, since what one combo does to the ring the next one meets.

Checked in **features**: `ComboKeysReturn` (nothing stays registered once all switches are
open; a combo is down only while one of its keys is), `OneOfOverlapping` (of combos that
share a key only one takes effect), `NoPressLost` (a press held back is lost only to a combo
that takes effect), `HeldBackBriefly` (whenever a press is held back the timer runs, and not
beyond the term).

**combo_stale** is violated: `drop_combo_from_buffer` makes room only for the first combo
of the ring. A combo that was disabled behind another one stays, is enabled again by
`clear_combos`, and takes the presses of its keys away when the ring comes to it.
It takes a combo that overlaps an earlier one and a third one beside it; with the combos of
the passing run the stale entry is never met with keys of its own in the buffer.

All four are proved for any keys and combos, term and buffer lengths, each where it holds:

- `ComboTypeCorrect`, without a condition;
- `HeldBackNoLonger`, if the timer is never set in the very millisecond in which
  `timer_read()` is 0 (`ZeroReads` is FALSE): such a timer counts as off
  (process_combo.c:463), and `HeldBackBriefly` then fails, once in 65536 ms;
- `CombosReturn` and `OneTakesEffect`, if the ring has room for every combo of the keymap
  (`RoomForAll`; one slot stays free, so three combos with the default
  `COMBO_BUFFER_LENGTH` of 4). The code does not check for room (process_combo.c:494): a
  ring of 2 forgets a combo whose keys are held down, and TLC then finds `ComboKeysReturn`
  violated. A keymap with more combos of which only a few can be ready together is safe
  as well, but of that the theorem says nothing;
- `NoFreshPressLost`, if the key buffer, too, has room for the keys of all combos
  (`RoomForKeys`), and in behaviours in which no combo is applied that has lost a key
  (`NothingStale`). A press beyond a full key buffer is lost (process_combo.c:609), and
  what a stale combo does is the finding above. TLC finds `NothingStale` to hold with the
  combos of the passing run;
- `NoPressLostApart`: no two combos that share a key, and no stale combos arise at all.

The inductive invariant is `ComboInv`: an account (`Account`) of every key that is down,
and `Chords`. A key is held back, or down at the host as itself, or among the keys of a
combo: what a combo knows of its keys is never also at the host, an active combo
has a key of its own down that is not held back, and a combo that is not disabled has
noticed each of its keys that is held back. `Chords` says that a combo whose keys are all
down and that is not disabled is in `ready`, and that no two of those overlap. Neither is
invariant without the other: a combo that was forgotten by the ring keeps its state, and
no later release is taken for its first. `NoPressLost` needs the converse besides: a combo that
knows of a key has it in the key buffer (`Held`), and a ready combo has all its keys
(`ReadyFull`; `NothingStale` where combos overlap). The event in the middle of which the
combos learn of a key has an account of its own (`Unsettled`), and the loop over the combos
is proved by following the number of combos that have learned.

Bounds: three combos over four keys, two that share a key and one that contains another;
a key buffer of 4, which the four keys fill and, since every release empties it, never
overflow, and a ring of 4, the default; two key changes per scan.


## UsbEvents

`UsbEvents` follows the event half of tmk_core/protocol/chibios/usb_main.c and the suspend
loop of chibios.c. Five actions are the interrupt, `usb_event_cb`, for the five events of
the bus; the driver's own state, which ChibiOS keeps, is `driver`, `saved` and `configured`,
external and modelled from what usb_main.c reads of it. `HandleEvent` is
`usb_event_queue_task` for one event, and `TestSuspended`, `PowerDown`, `RestOfLoop` are
`protocol_pre_task`. The interrupt may come between any two. `lit` is what
`suspend_power_down` and `suspend_wakeup_init` leave of the lighting.

Checked in **features** and proved for any queue size: `DeviceMatches`, once the queue is
worked off the device state is the driver's, even if events were dropped, unless the newest
was (`unheard`); the invariant `Reported` says that the last event in the queue is the one
that explains the driver's state. And `LightsBack`: a configured keyboard that goes round
its loop with an empty queue is lit, unless an event was dropped (`lost`) or a power-down
went before its suspend event (`raced`); the invariant `DarkExplained` says which event in
the queue, or which place in the loop, accounts for darkness. The two exceptions are real
in the code, are stated where the property is, and are hazards of PROJECT.json.

Bounds: a queue of 4 (16 in the code), three events of which fit; events are dropped.


## SplitLink and SplitEncoder

`SplitLink` follows `slave_matrix_handlers_master` and `read_if_checksum_mismatch`
(transactions.c), `transport_master_if_connected` (split_util.c) and `matrix_post_scan`.
`there` is what the other half published, `shmem` and `lastMatrix` the two copies of the
half at the host, `half` its part of the matrix; `step` is where the half at the host is.
Between two transactions the other half may publish; a transaction may fail, and a transfer
of the matrix may arrive garbled. `lastUpdate` and `sinceCheck` are timers, capped where
nothing looks any further. `published` and `still` are history.

Checked in **features** and proved for any matrices, any checksum function, any limits:

- `LostHalfLetsGo`: a half taken to be lost holds no keys;
- `HeldThroughErrors`: its keys change only with a loss or to something whose checksum is
  that of a matrix published since the scan began;
- `ForcedSync`: after a still time of `FORCED_SYNC_THROTTLE_MS`, a check timeout and
  three scans, over a wire without errors, the half at the host has the other's matrix,
  whatever the 8-bit checksum confuses. The proof's `BecomesDue` relates `still` to both
  timers, and `AttemptsLeft` says that attempts do not run out before an error.

Bounds: three matrices, two of which have one checksum, as have garbled transfers; a half
that is lost after 2 errors; 2 attempts per scan (10 in the code).

`SplitEncoder` is the encoder queue of the other half (encoder.c) and its transactions:
the half at the host reads the queue, carries out what is new and sends a drain command, to
which the other half attends when its loop comes round. Turns are numbered; a queue, and
with it its checksum, is given by the numbers of the first and last turn in it, since the
counters in the queue change with every turn. `TurnOnce`: turns that come one at a time,
each after the last was dropped from the queue, are carried out once and not lost, however
the commands fail and overtake one another. Turns that come faster may be carried out twice
or dropped before they were read (transactions.c:254); the property says so (`overlapped`).
It is proved for any queue and any number of turns. The invariant `OneAtATime` says that
as long as turns come one at a time the queue holds at most the newest one, that what was
read of it is not from the future, and that a drain command is only on its way for a turn
that was carried out.

Bounds: a queue of 4 (3 fit), four turns.


## MCFeatures

These six parts share nothing but the main loop's time, so one run, **features**,
checks them side by side: `feature`, chosen at Init, says which of them runs, and the others
keep their initial state. `TypesOK` is the conjunction of their type invariants. Where
none dances, one build of the dances is enough.


## What is only model-checked

Liveness (`Settles`, `WorksOff`, `DanceEnds`) is checked by TLC only: TLAPS has no rule
here for fairness and ENABLED. The bounds of the runs do not limit the theorems.
`TypesOK` of MCFeatures is the conjunction of type invariants that are each proved.

## Not modelled

- Parts marked **-** in the inventory. Lighting, audio, displays, haptics are output
  without feedback; mouse curves and colour are arithmetic that unit tests cover; drivers
  are register access; keyboards and keymaps are data. Caps word, leader, repeat key and
  the like are automata of one actor with a flag and a timeout, which their unit tests
  reach. Host switching depends on radio drivers whose code is the vendor's.
- Of modelled parts: CHORDAL_HOLD, FLOW_TAP_TERM, SPECULATIVE_HOLD and RETRO_SHIFT of
  tap-or-hold; the options of combos (must hold, must tap, in order, repress, per-key
  terms); tap dances with functions a user writes; one-shot layers and the timeout of
  one-shots; endpoints and idle reports of USB, which are ChibiOS queues whose source is a
  submodule that is not here; the split transactions other than matrix and encoders, which
  copy one value and are one step that succeeds or fails; the wire protocols below them;
  the lock of the flash.
- Single steps of modelled parts: the consolidated data and their checksum are written
  together, and their checksum is always read (the result of that read is not looked at,
  wear_leveling.c:227); a failed transaction of the split leaves the shared memory as it was. What the hazards of
  PROJECT.json list without a property, or with a note, is the rest: it is either outside
  of what a property speaks of or beyond the bounds of its run.
- External, modelled only from its use: the power supply, the USB driver, the wire.

## Running

    tlc -config Tapping_default.cfg MCTapping
    tlc -config Debounce.cfg MCDebounce
    tlc -config WearLeveling.cfg MCWearLeveling
    tlc -config Features.cfg MCFeatures
    tlc -config Combo_stale.cfg MCCombo
    tlc -config Deferred_token.cfg DeferredExec
    tlapm TappingProofs.tla
    tlapm DebounceProofs.tla
    tlapm DeferredExecProofs.tla
    tlapm SplitProofs.tla
    tlapm UsbEventsProofs.tla
    tlapm ComboProofs.tla
    tlapm TapDanceProofs.tla
    tlapm WearLevelingProofs.tla

PROJECT.json lists every run, the mutation of the model that each property detects, the
lines each definition models, the findings, the hazards and the theorems.
