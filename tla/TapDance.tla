------------------------------ MODULE TapDance ------------------------------
(***************************************************************************)
(* Tap dance, quantum/process_keycode/process_tap_dance.c: keys that mean  *)
(* something else when tapped twice.  A dance begins with a press, counts  *)
(* further presses, is finished by the tapping term or by the press of     *)
(* another key, and is reset once its key is up.  Its state comes from a   *)
(* small pool, and one variable, active_td, says which dance is still      *)
(* counting.                                                               *)
(*                                                                         *)
(* One modifier stands for all eight.  A dance takes the modifiers of its  *)
(* last tap with it: weak ones, and one-shot ones, which the next report   *)
(* with a key in it uses up.                                               *)
(*                                                                         *)
(* A press goes through several of these functions in one call, so what    *)
(* they change is one record, kb, and each function maps it to another.    *)
(***************************************************************************)
EXTENDS Integers, FiniteSets

CONSTANTS
  Dance, NoDance,
  Keymaps,     \* what tap_dance_actions may be: the kind of each dance
  Pools,       \* what TAP_DANCE_MAX_SIMULTANEOUS may be
  DanceTerm,   \* GET_TAPPING_TERM
  DanceGap,    \* the longest time between a scan and the tasks
  MaxChanges,  \* bound: how many keys change in one scan
  CountMod     \* 256, the period of a dance's count

\* ACTION_TAP_DANCE_DOUBLE, _LAYER_MOVE and _LAYER_TOGGLE.
Kind == {"double", "move", "toggle"}

ASSUME DanceAssumption ==
  /\ NoDance \notin Dance
  /\ IsFiniteSet(Dance)
  /\ Keymaps \subseteq [Dance -> Kind]
  /\ Pools \subseteq Nat \ {0}
  /\ CountMod \in Nat /\ CountMod > 2
  /\ DanceTerm \in Nat /\ DanceGap \in Nat \ {0} /\ MaxChanges \in Nat \ {0}

VARIABLES
  kind,      \* the keymap's dances
  maxDances, \* TAP_DANCE_MAX_SIMULTANEOUS, the build's
  kb,
  sinceTap,  \* timer_elapsed(last_tap_time), at most OverTerm
  switches,  \* the dance keys that are physically down
  scanned    \* the keys whose change the running scan has already reported

danceVars == <<kind, maxDances, kb, sinceTap, switches, scanned>>

\* No dance is active for so long that the 16-bit difference could wrap.
OverTerm == DanceTerm + 2 * DanceGap

Code == {"first", "second"}

\* A plain key, the modifier's key and its one-shot key.
OtherKeys == {"other", "shift", "oneshot"}

State == [inUse : BOOLEAN, count : 0 .. CountMod - 1, weak : BOOLEAN, oneshot : BOOLEAN,
          pressed : BOOLEAN, finished : BOOLEAN, interrupted : BOOLEAN]

Unused == [inUse |-> FALSE, count |-> 0, weak |-> FALSE, oneshot |-> FALSE,
           pressed |-> FALSE, finished |-> FALSE, interrupted |-> FALSE]

Keyboard ==
  [states : [Dance -> State], active : Dance \cup {NoDance},
   down : [Dance -> SUBSET Code],                       \* keycodes registered
   layer : BOOLEAN,
   others : BOOLEAN,                                    \* another key is registered
   shift : BOOLEAN,                                     \* the modifier's switch
   mods : BOOLEAN, weak : BOOLEAN, oneshot : BOOLEAN]   \* and its three kinds

DanceInit ==
  /\ kind \in Keymaps
  /\ maxDances \in Pools
  /\ kb = [states |-> [d \in Dance |-> Unused], active |-> NoDance,
           down |-> [d \in Dance |-> {}], layer |-> FALSE, others |-> FALSE,
           shift |-> FALSE, mods |-> FALSE, weak |-> FALSE, oneshot |-> FALSE]
  /\ sinceTap = 0
  /\ switches = {} /\ scanned = {}

-----------------------------------------------------------------------------
(* The steps of a dance *)

\* send_keyboard_report: a report with a key in it uses up the one-shot modifier.
Report(b) ==
  [b EXCEPT !.oneshot = @ /\ ~b.others /\ \A d \in Dance : b.down[d] = {}]

Register(b, d, code) == Report([b EXCEPT !.down[d] = @ \cup {code}])
Unregister(b, d, code) == Report([b EXCEPT !.down[d] = @ \ {code}])

\* process_tap_dance_action_on_each_tap, with the dance's own function.
OnEachTap(b, d) ==
  LET count  == (b.states[d].count + 1) % CountMod
      tapped == [b EXCEPT !.states[d] =
                   [@ EXCEPT !.count = count, !.weak = b.mods \/ b.weak, !.oneshot = b.oneshot]]
      ended  == [tapped EXCEPT !.states[d].finished = TRUE]
  IN CASE count = 2 /\ kind[d] = "double" -> Register(ended, d, "second")
       [] count = 2 /\ kind[d] = "move"   -> [ended EXCEPT !.layer = TRUE]
       [] OTHER                           -> tapped

\* Mutant: on_reset looks at what the dance did last, not at its count.
OnResetFirstOnly(b, d) ==
  LET s == b.states[d]
      released == IF s.finished THEN Unregister(b, d, "first") ELSE b
  IN Report([released EXCEPT !.weak = @ /\ ~s.weak, !.mods = @ /\ ~s.oneshot,
                             !.states[d] = Unused])

\* process_tap_dance_action_on_reset.
OnReset(b, d) ==
  LET s == b.states[d]
      released == CASE s.count = 1                       -> Unregister(b, d, "first")
                    [] s.count = 2 /\ kind[d] = "double" -> Unregister(b, d, "second")
                    [] OTHER                             -> b
  IN Report([released EXCEPT !.weak = @ /\ ~s.weak, !.mods = @ /\ ~s.oneshot,
                             !.states[d] = Unused])

\* The dance's on_dance_finished function.
Finished(b, d) ==
  LET count == b.states[d].count
  IN CASE kind[d] = "double" \/ count = 1 -> Register(b, d, "first")
       [] kind[d] = "move" /\ count = 2   -> [b EXCEPT !.layer = TRUE]
       [] kind[d] = "toggle" /\ count = 2 -> [b EXCEPT !.layer = ~@]
       [] OTHER                           -> b

\* Mutant: the reset is left to a release that has been.
OnFinishedUnreset(b, d) ==
  LET s == b.states[d]
      withMods == Report([b EXCEPT !.states[d].finished = TRUE,
                                   !.weak = @ \/ s.weak, !.mods = @ \/ s.oneshot])
  IN [(IF s.finished THEN b ELSE Finished(withMods, d)) EXCEPT !.active = NoDance]

\* process_tap_dance_action_on_dance_finished: no release will come if the key is up.
OnFinished(b, d) ==
  LET s == b.states[d]
      withMods == Report([b EXCEPT !.states[d].finished = TRUE,
                                   !.weak = @ \/ s.weak, !.mods = @ \/ s.oneshot])
      finished == [(IF s.finished THEN b ELSE Finished(withMods, d)) EXCEPT !.active = NoDance]
  IN IF s.pressed THEN finished ELSE OnReset(finished, d)

\* action_exec clears the weak modifiers that earlier presses have left.
Arriving(b) == [b EXCEPT !.weak = FALSE]

\* Mutant: another dance key does not interrupt.
PreprocessOthersOnly(b, key) ==
  IF b.active = NoDance \/ key \in Dance \/ ~b.states[b.active].inUse
  THEN b
  ELSE [OnFinished([b EXCEPT !.states[b.active].interrupted = TRUE], b.active) EXCEPT !.weak = FALSE]

\* preprocess_tap_dance, for the press of key: it ends the dance of another key.
Preprocess(b, key) ==
  IF b.active = NoDance \/ b.active = key \/ ~b.states[b.active].inUse
  THEN b
  ELSE [OnFinished([b EXCEPT !.states[b.active].interrupted = TRUE], b.active) EXCEPT !.weak = FALSE]

InUse(b) == {d \in Dance : b.states[d].inUse}

\* Mutant: the pool has no end.
HasStateAlways(b, d) == TRUE

\* tap_dance_get_or_allocate_state finds a state for a press of d.
HasState(b, d) == b.states[d].inUse \/ Cardinality(InUse(b)) < maxDances

\* process_tap_dance, for a press it has a state for.
Pressed(b, d) ==
  LET tapped == OnEachTap([b EXCEPT !.states[d].inUse = TRUE, !.states[d].pressed = TRUE], d)
  IN [tapped EXCEPT !.active = IF tapped.states[d].finished THEN NoDance ELSE d]

\* process_tap_dance, for the release of d's key: on_each_release is NULL here.
ReleasedKey(b, d) ==
  LET up == [b EXCEPT !.states[d].pressed = FALSE]
      reset == OnReset(up, d)
  IN CASE ~b.states[d].inUse     -> b
       [] b.states[d].finished   -> [reset EXCEPT !.active = IF @ = d THEN NoDance ELSE @]
       [] OTHER                  -> up

-----------------------------------------------------------------------------
(* The main loop: the key events of a scan, then the tasks *)

Elapsed(t) == IF sinceTap + t < OverTerm THEN sinceTap + t ELSE OverTerm

\* The key at position k changed, t after the last event or task.  The changes
\* that one scan finds are reported together.
Event(k, t) ==
  /\ k \notin scanned /\ scanned' = scanned \cup {k}
  /\ Cardinality(scanned') <= MaxChanges
  /\ scanned # {} => t = 0
  /\ UNCHANGED <<kind, maxDances>>

PressDance(d, t) ==
  /\ Event(d, t)
  /\ d \notin switches /\ switches' = switches \cup {d}
  /\ LET b == Preprocess(Arriving(kb), d)
     IN \/ /\ HasState(b, d)
           /\ sinceTap' = 0
           /\ kb' = Pressed(b, d)
        \/ /\ ~HasState(b, d)
           /\ kb' = b
           /\ sinceTap' = Elapsed(t)

ReleaseDance(d, t) ==
  /\ Event(d, t)
  /\ d \in switches /\ switches' = switches \ {d}
  /\ kb' = ReleasedKey(kb, d)
  /\ sinceTap' = Elapsed(t)

\* A key that is no dance is pressed or released.
OtherKey(t) ==
  /\ Event("other", t)
  /\ kb' = IF kb.others
           THEN Report([kb EXCEPT !.others = FALSE])
           ELSE Report([Preprocess(Arriving(kb), NoDance) EXCEPT !.others = TRUE])
  /\ sinceTap' = Elapsed(t)
  /\ UNCHANGED switches

\* The modifier's key is pressed or released: add_mods, del_mods.
ShiftKey(t) ==
  /\ Event("shift", t)
  /\ kb' = IF kb.shift
           THEN Report([kb EXCEPT !.shift = FALSE, !.mods = FALSE])
           ELSE Report([Preprocess(Arriving(kb), NoDance) EXCEPT !.shift = TRUE, !.mods = TRUE])
  /\ sinceTap' = Elapsed(t)
  /\ UNCHANGED switches

\* A one-shot key of the modifier is tapped.
OneShotKey(t) ==
  /\ Event("oneshot", t)
  /\ kb' = [Preprocess(Arriving(kb), NoDance) EXCEPT !.oneshot = TRUE]
  /\ sinceTap' = Elapsed(t)
  /\ UNCHANGED switches

\* Mutant: the term is over only at a time that no task sees.
TermPassedNever == sinceTap' > OverTerm

TermPassed == sinceTap' > DanceTerm

\* tap_dance_task.
DanceTask(t) ==
  /\ scanned' = {}
  /\ sinceTap' = Elapsed(t)
  /\ kb' = IF /\ kb.active # NoDance /\ TermPassed
              /\ kb.states[kb.active].inUse /\ ~kb.states[kb.active].interrupted
           THEN OnFinished(kb, kb.active) ELSE kb
  /\ UNCHANGED <<kind, maxDances, switches>>

DanceNext ==
  \E t \in 0 .. DanceGap :
    \/ \E d \in Dance : PressDance(d, t) \/ ReleaseDance(d, t)
    \/ OtherKey(t) \/ ShiftKey(t) \/ OneShotKey(t)
    \/ DanceTask(t)

DanceSpec == DanceInit /\ [][DanceNext]_danceVars

\* The main loop never stops calling the tasks, and its time goes on.
DanceFairness == WF_danceVars(\E t \in 1 .. DanceGap : DanceTask(t))

-----------------------------------------------------------------------------
(* Properties *)

\* Every field keeps its type and no more dances run than there are states.
DanceTypeOK ==
  /\ kind \in Keymaps
  /\ maxDances \in Pools
  /\ sinceTap \in 0 .. OverTerm
  /\ kb \in Keyboard
  /\ switches \in SUBSET Dance
  /\ scanned \subseteq Dance \cup OtherKeys
  /\ Cardinality(InUse(kb)) <= maxDances

\* active_td names the one dance that is still counting: there is no other
\* unfinished one, which neither the task nor the next key would finish, and it
\* is not marked as interrupted, which the task passes over.
NoOrphan ==
  \A d \in Dance :
    (kb.states[d].inUse /\ ~kb.states[d].finished) <=> kb.active = d

\* A dance whose state went back to the pool has released what it registered.
DanceLetsGo == \A d \in Dance : ~kb.states[d].inUse => kb.down[d] = {}

\* No modifier outlives the dances that brought it.
ModsReturn == InUse(kb) = {} /\ ~kb.shift => ~kb.mods /\ ~kb.weak

\* A state is only kept for a dance whose key is down or whose term runs: the
\* pool is not used up by dances that are over.
DanceEnds ==
  \A d \in Dance : (kb.states[d].inUse /\ d \notin switches)
                     ~> (~kb.states[d].inUse \/ d \in switches)

=============================================================================
