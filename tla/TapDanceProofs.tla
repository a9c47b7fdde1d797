--------------------------- MODULE TapDanceProofs ---------------------------
(***************************************************************************)
(* What is proved of tap dances, for any number of dances and kinds, any   *)
(* pool, term and period of the count.  Each operator of TapDance maps a   *)
(* keyboard to a keyboard: its lemma says what becomes of the dance's own  *)
(* state, and that those of other dances stay.                             *)
(***************************************************************************)
EXTENDS TapDance, FiniteSetTheorems, TLAPS

\* r is b but for what belongs to d alone.
OthersKept(b, r, d) ==
  \A e \in Dance \ {d} : r.states[e] = b.states[e] /\ r.down[e] = b.down[e]

\* The keycodes that the reset of d, tapped count times, unregisters.
ResetCodes(d, count) ==
  CASE count = 1                       -> {"first"}
    [] count = 2 /\ kind[d] = "double" -> {"second"}
    [] OTHER                           -> {}

\* A dance that is over has nothing down; one that counts has not registered
\* anything yet; one that is finished waits for its key to go up, and its reset
\* unregisters what is down.
DanceSound(b, sw, d) ==
  LET s == b.states[d]
  IN /\ (s.inUse /\ ~s.finished) <=> b.active = d
     /\ ~s.inUse => s = Unused /\ b.down[d] = {}
     /\ b.active = d => b.down[d] = {} /\ (kind[d] = "double" => s.count = 1)
     /\ s.finished => s.pressed /\ b.down[d] \subseteq ResetCodes(d, s.count)
     /\ s.pressed => d \in sw

Sound(b, sw) ==
  /\ b \in Keyboard
  /\ \A d \in Dance : DanceSound(b, sw, d)

KindsOK == kind \in Keymaps /\ maxDances \in Pools

LEMMA Kinds ==
  ASSUME KindsOK, NEW d \in Dance PROVE kind[d] \in Kind
BY DanceAssumption DEF KindsOK

-----------------------------------------------------------------------------
(* Keyboards *)

\* The modifiers are the same.
ModsKept(b, r) == r.mods = b.mods /\ r.weak = b.weak /\ r.shift = b.shift

LEMMA ReportOK ==
  ASSUME NEW b \in Keyboard
  PROVE  /\ Report(b) \in Keyboard
         /\ Report(b).states = b.states /\ Report(b).active = b.active
         /\ Report(b).down = b.down
         /\ ModsKept(b, Report(b))
BY DEF Report, Keyboard, ModsKept

LEMMA RegisterOK ==
  ASSUME NEW b \in Keyboard, NEW d \in Dance, NEW code \in Code
  PROVE  /\ Register(b, d, code) \in Keyboard
         /\ Register(b, d, code).states = b.states
         /\ Register(b, d, code).active = b.active
         /\ Register(b, d, code).down = [b.down EXCEPT ![d] = @ \cup {code}]
         /\ ModsKept(b, Register(b, d, code))
<1> DEFINE r == [b EXCEPT !.down[d] = @ \cup {code}]
<1>1. /\ r \in Keyboard /\ r.states = b.states /\ r.active = b.active
      /\ r.down = [b.down EXCEPT ![d] = @ \cup {code}] /\ ModsKept(b, r)
  BY DEF Keyboard, ModsKept
<1> HIDE DEF r
<1>2. Register(b, d, code) = Report(r)
  BY DEF Register, r
<1> QED BY <1>1, <1>2, ReportOK DEF ModsKept

LEMMA UnregisterOK ==
  ASSUME NEW b \in Keyboard, NEW d \in Dance, NEW code \in Code
  PROVE  /\ Unregister(b, d, code) \in Keyboard
         /\ Unregister(b, d, code).states = b.states
         /\ Unregister(b, d, code).active = b.active
         /\ Unregister(b, d, code).down = [b.down EXCEPT ![d] = @ \ {code}]
         /\ ModsKept(b, Unregister(b, d, code))
<1> DEFINE r == [b EXCEPT !.down[d] = @ \ {code}]
<1>1. /\ r \in Keyboard /\ r.states = b.states /\ r.active = b.active
      /\ r.down = [b.down EXCEPT ![d] = @ \ {code}] /\ ModsKept(b, r)
  BY DEF Keyboard, ModsKept
<1> HIDE DEF r
<1>2. Unregister(b, d, code) = Report(r)
  BY DEF Unregister, r
<1> QED BY <1>1, <1>2, ReportOK DEF ModsKept

\* The fields of a keyboard, one by one.
LEMMA Fields ==
  ASSUME NEW b \in Keyboard
  PROVE  /\ b.states \in [Dance -> State] /\ b.active \in Dance \cup {NoDance}
         /\ b.down \in [Dance -> SUBSET Code]
         /\ b.layer \in BOOLEAN /\ b.others \in BOOLEAN /\ b.shift \in BOOLEAN
         /\ b.mods \in BOOLEAN /\ b.weak \in BOOLEAN /\ b.oneshot \in BOOLEAN
BY DEF Keyboard

LEMMA UnusedType == Unused \in State
BY DanceAssumption DEF Unused, State

-----------------------------------------------------------------------------
(* The steps of a dance *)

LEMMA OnResetOK ==
  ASSUME KindsOK, NEW b \in Keyboard, NEW d \in Dance
  PROVE  /\ OnReset(b, d) \in Keyboard
         /\ OnReset(b, d).states = [b.states EXCEPT ![d] = Unused]
         /\ OnReset(b, d).active = b.active
         /\ OnReset(b, d).down = [b.down EXCEPT ![d] = @ \ ResetCodes(d, b.states[d].count)]
         /\ OnReset(b, d).shift = b.shift
         /\ OnReset(b, d).mods = (b.mods /\ ~b.states[d].oneshot)
         /\ OnReset(b, d).weak = (b.weak /\ ~b.states[d].weak)
<1> DEFINE s == b.states[d]
           released == CASE s.count = 1                       -> Unregister(b, d, "first")
                         [] s.count = 2 /\ kind[d] = "double" -> Unregister(b, d, "second")
                         [] OTHER                             -> b
           r == [released EXCEPT !.weak = @ /\ ~s.weak, !.mods = @ /\ ~s.oneshot,
                                 !.states[d] = Unused]
<1>1. s \in State
  BY Fields
<1>2. /\ released \in Keyboard /\ released.states = b.states /\ released.active = b.active
      /\ released.down = [b.down EXCEPT ![d] = @ \ ResetCodes(d, s.count)]
      /\ ModsKept(b, released)
  <2>1. CASE s.count = 1
    <3>1. released = Unregister(b, d, "first") /\ ResetCodes(d, s.count) = {"first"}
      BY <2>1 DEF ResetCodes
    <3>2. /\ Unregister(b, d, "first") \in Keyboard
          /\ Unregister(b, d, "first").states = b.states
          /\ Unregister(b, d, "first").active = b.active
          /\ Unregister(b, d, "first").down = [b.down EXCEPT ![d] = @ \ {"first"}]
          /\ ModsKept(b, Unregister(b, d, "first"))
      BY UnregisterOK DEF Code
    <3> HIDE DEF released, s
    <3> QED BY <3>1, <3>2
  <2>2. CASE s.count = 2 /\ kind[d] = "double"
    <3>1. released = Unregister(b, d, "second") /\ ResetCodes(d, s.count) = {"second"}
      BY <2>2 DEF ResetCodes
    <3>2. /\ Unregister(b, d, "second") \in Keyboard
          /\ Unregister(b, d, "second").states = b.states
          /\ Unregister(b, d, "second").active = b.active
          /\ Unregister(b, d, "second").down = [b.down EXCEPT ![d] = @ \ {"second"}]
          /\ ModsKept(b, Unregister(b, d, "second"))
      BY UnregisterOK DEF Code
    <3> HIDE DEF released, s
    <3> QED BY <3>1, <3>2
  <2>3. CASE s.count # 1 /\ ~(s.count = 2 /\ kind[d] = "double")
    <3>1. released = b /\ ResetCodes(d, s.count) = {}
      BY <2>3 DEF ResetCodes
    <3> HIDE DEF released, s
    <3> QED BY <3>1, Fields DEF ModsKept
  <2> QED BY <2>1, <2>2, <2>3
<1> HIDE DEF released
<1>3. /\ r \in Keyboard /\ r.states = [released.states EXCEPT ![d] = Unused]
      /\ r.active = released.active /\ r.down = released.down /\ r.shift = released.shift
      /\ r.mods = (released.mods /\ ~s.oneshot) /\ r.weak = (released.weak /\ ~s.weak)
  <2>1. (released.weak /\ ~s.weak) \in BOOLEAN /\ (released.mods /\ ~s.oneshot) \in BOOLEAN
    OBVIOUS
  <2> HIDE DEF s
  <2> QED BY <1>2, <2>1, UnusedType DEF Keyboard
<1> HIDE DEF r
<1>4. OnReset(b, d) = Report(r)
  BY DEF OnReset, r, released
<1>5. /\ Report(r) \in Keyboard /\ Report(r).states = r.states
      /\ Report(r).active = r.active /\ Report(r).down = r.down /\ ModsKept(r, Report(r))
  BY <1>3, ReportOK
<1> HIDE DEF s
<1>6. /\ Report(r).shift = b.shift
      /\ Report(r).mods = (b.mods /\ ~s.oneshot)
      /\ Report(r).weak = (b.weak /\ ~s.weak)
  BY <1>2, <1>3, <1>5 DEF ModsKept
<1>7. /\ Report(r).states = [b.states EXCEPT ![d] = Unused]
      /\ Report(r).active = b.active
      /\ Report(r).down = [b.down EXCEPT ![d] = @ \ ResetCodes(d, s.count)]
  BY <1>2, <1>3, <1>5
<1> QED BY <1>4, <1>5, <1>6, <1>7 DEF s

\* The function of a dance's end registers "first" at most.
LEMMA FinishedOK ==
  ASSUME KindsOK, NEW b \in Keyboard, NEW d \in Dance
  PROVE  /\ Finished(b, d) \in Keyboard
         /\ Finished(b, d).states = b.states /\ Finished(b, d).active = b.active
         /\ Finished(b, d).down =
              IF kind[d] = "double" \/ b.states[d].count = 1
              THEN [b.down EXCEPT ![d] = @ \cup {"first"}] ELSE b.down
         /\ ModsKept(b, Finished(b, d))
<1> DEFINE count == b.states[d].count
<1>1. CASE kind[d] = "double" \/ count = 1
  <2>1. Finished(b, d) = Register(b, d, "first")
    BY <1>1 DEF Finished
  <2>2. /\ Register(b, d, "first") \in Keyboard
        /\ Register(b, d, "first").states = b.states
        /\ Register(b, d, "first").active = b.active
        /\ Register(b, d, "first").down = [b.down EXCEPT ![d] = @ \cup {"first"}]
        /\ ModsKept(b, Register(b, d, "first"))
    BY RegisterOK DEF Code
  <2> QED BY <1>1, <2>1, <2>2
<1>2. CASE ~(kind[d] = "double" \/ count = 1)
  <2>1. Finished(b, d) \in {[b EXCEPT !.layer = TRUE], [b EXCEPT !.layer = ~@], b}
    BY <1>2 DEF Finished
  <2>2. (~b.layer) \in BOOLEAN
    OBVIOUS
  <2>3. \A r \in {[b EXCEPT !.layer = TRUE], [b EXCEPT !.layer = ~@], b} :
          /\ r \in Keyboard /\ r.states = b.states /\ r.active = b.active /\ r.down = b.down
          /\ ModsKept(b, r)
    BY <2>2 DEF Keyboard, ModsKept
  <2> QED BY <1>2, <2>1, <2>3
<1> QED BY <1>1, <1>2

\* A counting dance is finished: it is reset at once if its key is up, else it
\* waits with what its reset will unregister.
LEMMA OnFinishedOK ==
  ASSUME KindsOK, NEW b \in Keyboard, NEW d \in Dance, ~b.states[d].finished
  PROVE  /\ OnFinished(b, d) \in Keyboard
         /\ OnFinished(b, d).active = NoDance
         /\ OnFinished(b, d).states =
              [b.states EXCEPT ![d] = IF @.pressed THEN [@ EXCEPT !.finished = TRUE] ELSE Unused]
         /\ \A e \in Dance \ {d} : OnFinished(b, d).down[e] = b.down[e]
         /\ LET codes == b.down[d] \cup (IF kind[d] = "double" \/ b.states[d].count = 1
                                        THEN {"first"} ELSE {})
            IN OnFinished(b, d).down[d] =
                 IF b.states[d].pressed THEN codes
                 ELSE codes \ ResetCodes(d, b.states[d].count)
         /\ OnFinished(b, d).shift = b.shift
         /\ OnFinished(b, d).mods => b.mods \/ (b.states[d].pressed /\ b.states[d].oneshot)
         /\ OnFinished(b, d).weak => b.weak \/ (b.states[d].pressed /\ b.states[d].weak)
<1> DEFINE s == b.states[d]
           marked == [b EXCEPT !.states[d].finished = TRUE,
                               !.weak = @ \/ s.weak, !.mods = @ \/ s.oneshot]
           withMods == Report(marked)
           finished == [Finished(withMods, d) EXCEPT !.active = NoDance]
           codes == b.down[d] \cup (IF kind[d] = "double" \/ s.count = 1 THEN {"first"} ELSE {})
<1>0. s \in State /\ b.states \in [Dance -> State] /\ b.down \in [Dance -> SUBSET Code]
  BY Fields
<1>1. /\ marked \in Keyboard /\ marked.active = b.active /\ marked.down = b.down
      /\ marked.states = [b.states EXCEPT ![d] = [s EXCEPT !.finished = TRUE]]
      /\ marked.shift = b.shift /\ marked.mods = (b.mods \/ s.oneshot)
      /\ marked.weak = (b.weak \/ s.weak)
  <2>1. (b.weak \/ s.weak) \in BOOLEAN /\ (b.mods \/ s.oneshot) \in BOOLEAN
    OBVIOUS
  <2>2. [s EXCEPT !.finished = TRUE] \in State
    BY <1>0 DEF State
  <2> QED BY <1>0, <2>1, <2>2 DEF Keyboard
<1> HIDE DEF marked
<1>2. /\ withMods \in Keyboard /\ withMods.states = marked.states
      /\ withMods.active = b.active /\ withMods.down = b.down
      /\ ModsKept(marked, withMods)
  BY <1>1, ReportOK
<1> HIDE DEF withMods
<1>3. /\ Finished(withMods, d) \in Keyboard
      /\ Finished(withMods, d).states = withMods.states
      /\ Finished(withMods, d).down =
           IF kind[d] = "double" \/ withMods.states[d].count = 1
           THEN [withMods.down EXCEPT ![d] = @ \cup {"first"}] ELSE withMods.down
      /\ ModsKept(withMods, Finished(withMods, d))
  BY <1>2, FinishedOK
<1>4. /\ withMods.states[d].count = s.count
      /\ withMods.states[d].oneshot = s.oneshot /\ withMods.states[d].weak = s.weak
  BY <1>0, <1>1, <1>2 DEF State
<1>5. /\ finished \in Keyboard /\ finished.active = NoDance
      /\ finished.states = withMods.states
      /\ finished.down = Finished(withMods, d).down
      /\ finished.shift = b.shift
      /\ finished.mods = (b.mods \/ s.oneshot)
      /\ finished.weak = (b.weak \/ s.weak)
  BY <1>1, <1>2, <1>3 DEF Keyboard, ModsKept
<1>6. /\ finished.down[d] = codes
      /\ \A e \in Dance \ {d} : finished.down[e] = b.down[e]
  BY <1>0, <1>2, <1>3, <1>4, <1>5
<1> HIDE DEF finished
<1>7. OnFinished(b, d) = IF s.pressed THEN finished ELSE OnReset(finished, d)
  BY DEF OnFinished, finished, withMods, marked
<1>8. CASE s.pressed
  BY <1>0, <1>1, <1>2, <1>5, <1>6, <1>7, <1>8
<1>9. CASE ~s.pressed
  <2>1. /\ OnReset(finished, d) \in Keyboard
        /\ OnReset(finished, d).states = [finished.states EXCEPT ![d] = Unused]
        /\ OnReset(finished, d).active = finished.active
        /\ OnReset(finished, d).down =
             [finished.down EXCEPT ![d] = @ \ ResetCodes(d, finished.states[d].count)]
        /\ OnReset(finished, d).shift = finished.shift
        /\ OnReset(finished, d).mods = (finished.mods /\ ~finished.states[d].oneshot)
        /\ OnReset(finished, d).weak = (finished.weak /\ ~finished.states[d].weak)
    BY <1>5, OnResetOK
  <2>2. [finished.states EXCEPT ![d] = Unused] = [b.states EXCEPT ![d] = Unused]
    BY <1>0, <1>1, <1>2, <1>5
  <2>3. finished.down \in [Dance -> SUBSET Code]
    BY <1>5, Fields
  <2>4. finished.states[d].count = s.count /\ finished.states[d].oneshot = s.oneshot
        /\ finished.states[d].weak = s.weak
    BY <1>4, <1>5
  <2>5. OnFinished(b, d) = OnReset(finished, d)
    BY <1>7, <1>9
  <2>6. /\ OnReset(finished, d).mods => b.mods
        /\ OnReset(finished, d).weak => b.weak
        /\ OnReset(finished, d).shift = b.shift
    <3> HIDE DEF s
    <3> QED BY <1>5, <2>1, <2>4
  <2>7. /\ OnReset(finished, d).down[d] = codes \ ResetCodes(d, s.count)
        /\ \A e \in Dance \ {d} : OnReset(finished, d).down[e] = b.down[e]
    <3> HIDE DEF s, codes
    <3> QED BY <1>6, <2>1, <2>3, <2>4
  <2>8. OnReset(finished, d).states = [b.states EXCEPT ![d] = Unused]
    BY <2>1, <2>2
  <2>9. [b.states EXCEPT ![d] = Unused]
          = [b.states EXCEPT ![d] = IF @.pressed THEN [@ EXCEPT !.finished = TRUE] ELSE Unused]
    BY <1>9
  <2> QED BY <1>5, <1>9, <2>1, <2>5, <2>6, <2>7, <2>8, <2>9
<1> QED BY <1>8, <1>9

\* What OnEachTap makes of the state of d.
Tapped(s, t, d) ==
  /\ t \in State /\ t.inUse = s.inUse /\ t.pressed = s.pressed
  /\ t.count = (s.count + 1) % CountMod
  /\ t.finished = (s.finished \/ (t.count = 2 /\ kind[d] \in {"double", "move"}))

LEMMA OnEachTapOK ==
  ASSUME KindsOK, NEW b \in Keyboard, NEW d \in Dance
  PROVE  /\ OnEachTap(b, d) \in Keyboard
         /\ OnEachTap(b, d).active = b.active
         /\ Tapped(b.states[d], OnEachTap(b, d).states[d], d)
         /\ \A e \in Dance \ {d} : OnEachTap(b, d).states[e] = b.states[e]
         /\ OnEachTap(b, d).down =
              IF (b.states[d].count + 1) % CountMod = 2 /\ kind[d] = "double"
              THEN [b.down EXCEPT ![d] = @ \cup {"second"}] ELSE b.down
         /\ ModsKept(b, OnEachTap(b, d))
<1> DEFINE s == b.states[d]
           count == (s.count + 1) % CountMod
           mark == [s EXCEPT !.count = count, !.weak = b.mods \/ b.weak, !.oneshot = b.oneshot]
           tapped == [b EXCEPT !.states[d] = mark]
           ended == [tapped EXCEPT !.states[d].finished = TRUE]
<1>0. s \in State /\ b.states \in [Dance -> State]
  BY Fields
<1>1. count \in 0 .. CountMod - 1
  BY <1>0, DanceAssumption DEF State
<1>c. count = (s.count + 1) % CountMod
  OBVIOUS
<1> HIDE DEF count
<1>2. /\ mark \in State /\ mark.inUse = s.inUse /\ mark.pressed = s.pressed
      /\ mark.count = count /\ mark.finished = s.finished
  <2>1. (b.mods \/ b.weak) \in BOOLEAN /\ b.oneshot \in BOOLEAN
    BY Fields
  <2> QED BY <1>0, <1>1, <2>1 DEF State
<1>3. /\ [mark EXCEPT !.finished = TRUE] \in State
      /\ [mark EXCEPT !.finished = TRUE].inUse = s.inUse
      /\ [mark EXCEPT !.finished = TRUE].pressed = s.pressed
      /\ [mark EXCEPT !.finished = TRUE].count = count
      /\ [mark EXCEPT !.finished = TRUE].finished = TRUE
  <2> HIDE DEF mark, s
  <2> QED BY <1>2 DEF State
<1> HIDE DEF mark
<1>4. /\ tapped \in Keyboard /\ tapped.active = b.active /\ tapped.down = b.down
      /\ tapped.states = [b.states EXCEPT ![d] = mark]
      /\ ModsKept(b, tapped)
  BY <1>2 DEF Keyboard, ModsKept
<1> HIDE DEF tapped
<1>5. /\ ended \in Keyboard /\ ended.active = b.active /\ ended.down = b.down
      /\ ended.states = [b.states EXCEPT ![d] = [mark EXCEPT !.finished = TRUE]]
      /\ ModsKept(b, ended)
  BY <1>0, <1>3, <1>4 DEF Keyboard, ModsKept
<1> HIDE DEF ended
<1>6. OnEachTap(b, d) = CASE count = 2 /\ kind[d] = "double" -> Register(ended, d, "second")
                          [] count = 2 /\ kind[d] = "move"   -> [ended EXCEPT !.layer = TRUE]
                          [] OTHER                           -> tapped
  BY DEF OnEachTap, ended, tapped, mark, count
<1>7. CASE count = 2 /\ kind[d] = "double"
  <2>1. OnEachTap(b, d) = Register(ended, d, "second")
    BY <1>6, <1>7
  <2>2. /\ Register(ended, d, "second") \in Keyboard
        /\ Register(ended, d, "second").states = ended.states
        /\ Register(ended, d, "second").active = ended.active
        /\ Register(ended, d, "second").down = [ended.down EXCEPT ![d] = @ \cup {"second"}]
        /\ ModsKept(ended, Register(ended, d, "second"))
    BY <1>5, RegisterOK DEF Code
  <2>3. (s.finished \/ (count = 2 /\ kind[d] \in {"double", "move"})) = TRUE
    BY <1>7
  <2>4. OnEachTap(b, d).states[d] = [mark EXCEPT !.finished = TRUE]
    BY <1>0, <1>5, <2>1, <2>2
  <2>5. Tapped(s, OnEachTap(b, d).states[d], d)
    BY <1>c, <1>3, <2>3, <2>4 DEF Tapped
  <2> QED BY <1>c, <1>0, <1>5, <1>7, <2>1, <2>2, <2>5 DEF ModsKept
<1>8. CASE count = 2 /\ kind[d] = "move"
  <2>1. OnEachTap(b, d) = [ended EXCEPT !.layer = TRUE]
    BY <1>6, <1>8
  <2>2. /\ [ended EXCEPT !.layer = TRUE] \in Keyboard
        /\ [ended EXCEPT !.layer = TRUE].states = ended.states
        /\ [ended EXCEPT !.layer = TRUE].active = ended.active
        /\ [ended EXCEPT !.layer = TRUE].down = ended.down
        /\ ModsKept(ended, [ended EXCEPT !.layer = TRUE])
    BY <1>5 DEF Keyboard, ModsKept
  <2>3. (s.finished \/ (count = 2 /\ kind[d] \in {"double", "move"})) = TRUE
    BY <1>8
  <2>4. OnEachTap(b, d).states[d] = [mark EXCEPT !.finished = TRUE]
    BY <1>0, <1>5, <2>1, <2>2
  <2>5. Tapped(s, OnEachTap(b, d).states[d], d)
    BY <1>c, <1>3, <2>3, <2>4 DEF Tapped
  <2> QED BY <1>c, <1>0, <1>5, <1>8, <2>1, <2>2, <2>5 DEF ModsKept
<1>9. CASE ~(count = 2 /\ kind[d] \in {"double", "move"})
  <2>1. OnEachTap(b, d) = tapped
    BY <1>6, <1>9
  <2>2. mark.finished \in BOOLEAN /\ mark.finished = (s.finished \/ FALSE)
    BY <1>0, <1>2 DEF State
  <2> QED BY <1>0, <1>2, <1>4, <1>9, <2>1, <2>2 DEF Tapped, count
<1> QED BY <1>7, <1>8, <1>9

-----------------------------------------------------------------------------
(* What a key event does, on a sound keyboard *)

LEMMA SoundTypes ==
  ASSUME NEW b, NEW sw, Sound(b, sw), NEW d \in Dance
  PROVE  /\ b \in Keyboard /\ b.states[d] \in State
         /\ b.active \in Dance \cup {NoDance} /\ b.down[d] \in SUBSET Code
         /\ DanceSound(b, sw, d)
BY Fields DEF Sound

\* Operations that leave the dances alone.
LEMMA SameDances ==
  ASSUME NEW b, NEW r \in Keyboard, NEW sw, Sound(b, sw),
         r.states = b.states, r.active = b.active, r.down = b.down
  PROVE  Sound(r, sw)
BY DEF Sound, DanceSound

LEMMA ArrivingSound ==
  ASSUME NEW b, NEW sw, Sound(b, sw)
  PROVE  Sound(Arriving(b), sw)
<1>1. /\ Arriving(b) \in Keyboard /\ Arriving(b).states = b.states
      /\ Arriving(b).active = b.active /\ Arriving(b).down = b.down
  BY DEF Arriving, Keyboard, Sound
<1> QED BY <1>1, SameDances

\* The one counting dance is finished.
LEMMA OnFinishedSound ==
  ASSUME KindsOK, NEW b, NEW sw, Sound(b, sw), b.active # NoDance
  PROVE  /\ Sound(OnFinished(b, b.active), sw) /\ OnFinished(b, b.active).active = NoDance
         /\ InUse(OnFinished(b, b.active)) \subseteq InUse(b)
<1> DEFINE d == b.active
           r == OnFinished(b, d)
           s == b.states[d]
           codes == b.down[d] \cup (IF kind[d] = "double" \/ s.count = 1 THEN {"first"} ELSE {})
<1>1. d \in Dance /\ b \in Keyboard
  BY Fields DEF Sound
<1>2. s \in State /\ s.inUse /\ ~s.finished /\ b.down[d] = {} /\ (kind[d] = "double" => s.count = 1)
      /\ (s.pressed => d \in sw)
  BY <1>1, SoundTypes DEF DanceSound
<1> HIDE DEF d
<1>3. /\ r \in Keyboard /\ r.active = NoDance
      /\ r.states = [b.states EXCEPT ![d] = IF @.pressed THEN [@ EXCEPT !.finished = TRUE] ELSE Unused]
      /\ \A e \in Dance \ {d} : r.down[e] = b.down[e]
      /\ r.down[d] = IF s.pressed THEN codes ELSE codes \ ResetCodes(d, s.count)
  BY <1>1, <1>2, OnFinishedOK
<1> HIDE DEF r
<1>4. codes \subseteq ResetCodes(d, s.count)
  BY <1>2 DEF ResetCodes
<1>5. DanceSound(r, sw, d)
  <2>1. CASE s.pressed
    <3>1. r.states[d] = [s EXCEPT !.finished = TRUE] /\ r.down[d] = codes
      BY <1>1, <1>3, <2>1, Fields
    <3>2. /\ r.states[d].inUse /\ r.states[d].finished /\ r.states[d].pressed
          /\ r.states[d].count = s.count
      BY <1>2, <2>1, <3>1 DEF State
    <3>3. r.active # d
      BY <1>1, <1>3, DanceAssumption
    <3> HIDE DEF s, codes
    <3> QED BY <1>2, <1>4, <2>1, <3>1, <3>2, <3>3 DEF DanceSound
  <2>2. CASE ~s.pressed
    <3>1. r.states[d] = Unused /\ r.down[d] = {}
      BY <1>1, <1>3, <1>4, <2>2, Fields
    <3>2. ~Unused.inUse /\ ~Unused.finished /\ ~Unused.pressed
      BY DEF Unused
    <3>3. r.active # d
      BY <1>1, <1>3, DanceAssumption
    <3> QED BY <3>1, <3>2, <3>3 DEF DanceSound
  <2> QED BY <2>1, <2>2
<1>6. ASSUME NEW e \in Dance \ {d} PROVE DanceSound(r, sw, e)
  <2>1. r.states[e] = b.states[e] /\ r.down[e] = b.down[e]
    BY <1>1, <1>3, Fields
  <2>2. b.active # e /\ r.active # e
    BY <1>3, DanceAssumption DEF d
  <2>3. DanceSound(b, sw, e)
    BY SoundTypes
  <2> QED BY <2>1, <2>2, <2>3 DEF DanceSound
<1>7. InUse(r) \subseteq InUse(b)
  BY <1>1, <1>2, <1>3, Fields DEF InUse
<1> QED BY <1>3, <1>5, <1>6, <1>7 DEF Sound, r, d

LEMMA PreprocessSound ==
  ASSUME KindsOK, NEW b, NEW sw, Sound(b, sw), NEW key \in Dance \cup {NoDance}
  PROVE  /\ Sound(Preprocess(b, key), sw)
         /\ Preprocess(b, key).active \in {NoDance, key}
         /\ InUse(Preprocess(b, key)) \subseteq InUse(b)
<1> DEFINE d == b.active
           s == b.states[d]
           marked == [b EXCEPT !.states[d].interrupted = TRUE]
           finished == OnFinished(marked, d)
           r == [finished EXCEPT !.weak = FALSE]
<1>1. CASE d \in {NoDance, key}
  BY <1>1 DEF Preprocess
<1>2. CASE d \notin {NoDance, key}
  <2>1. d \in Dance /\ b \in Keyboard /\ s \in State /\ DanceSound(b, sw, d)
    BY <1>2, Fields, SoundTypes DEF Sound
  <2>2. Preprocess(b, key) = r
    BY <1>2, <2>1 DEF Preprocess, DanceSound
  <2>3. [s EXCEPT !.interrupted = TRUE] \in State
    BY <2>1 DEF State
  <2>4. /\ marked \in Keyboard /\ marked.active = d /\ marked.down = b.down
        /\ marked.states = [b.states EXCEPT ![d] = [s EXCEPT !.interrupted = TRUE]]
    BY <2>1, <2>3 DEF Keyboard
  <2>5. DanceSound(marked, sw, d)
    <3>1. marked.states[d] = [s EXCEPT !.interrupted = TRUE]
      BY <2>1, <2>4, Fields
    <3>2. /\ marked.states[d].inUse = s.inUse /\ marked.states[d].finished = s.finished
          /\ marked.states[d].count = s.count /\ marked.states[d].pressed = s.pressed
      BY <2>1, <3>1 DEF State
    <3>3. s.inUse /\ ~s.finished
      BY <2>1 DEF DanceSound
    <3> HIDE DEF marked, s
    <3> QED BY <2>1, <2>4, <3>2, <3>3 DEF DanceSound, s
  <2>6. ASSUME NEW e \in Dance \ {d} PROVE DanceSound(marked, sw, e)
    <3>1. marked.states[e] = b.states[e]
      BY <2>1, <2>4, Fields
    <3> HIDE DEF marked
    <3> QED BY <2>4, <3>1, SoundTypes DEF DanceSound
  <2>7. Sound(marked, sw)
    BY <2>4, <2>5, <2>6 DEF Sound
  <2>8. InUse(marked) \subseteq InUse(b)
    <3>1. s.inUse
      BY <2>1 DEF DanceSound
    <3>2. \A e \in Dance \ {d} : marked.states[e] = b.states[e]
      BY <2>1, <2>4, Fields
    <3> HIDE DEF marked
    <3> QED BY <3>1, <3>2 DEF InUse
  <2> HIDE DEF marked
  <2>9. /\ Sound(finished, sw) /\ finished.active = NoDance
        /\ InUse(finished) \subseteq InUse(marked)
    BY <1>2, <2>4, <2>7, OnFinishedSound
  <2> HIDE DEF finished
  <2>10. /\ r \in Keyboard /\ r.states = finished.states
         /\ r.active = finished.active /\ r.down = finished.down
    BY <2>9 DEF Sound, Keyboard
  <2> HIDE DEF r
  <2> QED BY <2>2, <2>8, <2>9, <2>10, SameDances DEF InUse
<1> QED BY <1>1, <1>2

LEMMA PressedSound ==
  ASSUME KindsOK, NEW b, NEW sw, NEW d \in Dance, Sound(b, sw), d \notin sw,
         b.active \in {NoDance, d}
  PROVE  /\ Sound(Pressed(b, d), sw \cup {d})
         /\ InUse(Pressed(b, d)) = InUse(b) \cup {d}
<1> DEFINE s == b.states[d]
           held == [s EXCEPT !.inUse = TRUE, !.pressed = TRUE]
           begun == [b EXCEPT !.states[d].inUse = TRUE, !.states[d].pressed = TRUE]
           tapped == OnEachTap(begun, d)
           t == tapped.states[d]
           r == [tapped EXCEPT !.active = IF tapped.states[d].finished THEN NoDance ELSE d]
<1>1. /\ b \in Keyboard /\ s \in State /\ b.states \in [Dance -> State]
      /\ b.down \in [Dance -> SUBSET Code] /\ DanceSound(b, sw, d)
  BY SoundTypes, Fields
<1>2. ~s.finished /\ b.down[d] = {} /\ s.count \in 0 .. CountMod - 1
      /\ (kind[d] = "double" => s.count \in {0, 1})
  <2>1. ~s.finished /\ s.count \in 0 .. CountMod - 1
    BY <1>1 DEF DanceSound, State
  <2>2. CASE s.inUse
    BY <1>1, <2>1, <2>2 DEF DanceSound
  <2>3. CASE ~s.inUse
    <3>1. s = Unused /\ b.down[d] = {}
      BY <1>1, <2>3 DEF DanceSound
    <3> QED BY <2>1, <3>1 DEF Unused
  <2> QED BY <2>1, <2>2, <2>3
<1>3. /\ held \in State /\ held.inUse /\ held.pressed
      /\ held.finished = s.finished /\ held.count = s.count
  BY <1>1 DEF State
<1> HIDE DEF held
<1>4. /\ begun \in Keyboard /\ begun.down = b.down
      /\ begun.states = [b.states EXCEPT ![d] = held]
  BY <1>1, <1>3 DEF Keyboard, held
<1> HIDE DEF begun
<1>5. /\ begun.states[d] = held
      /\ \A e \in Dance \ {d} : begun.states[e] = b.states[e]
  BY <1>1, <1>4
<1>6. /\ tapped \in Keyboard
      /\ Tapped(begun.states[d], t, d)
      /\ \A e \in Dance \ {d} : tapped.states[e] = begun.states[e]
      /\ tapped.down = IF (begun.states[d].count + 1) % CountMod = 2 /\ kind[d] = "double"
                       THEN [begun.down EXCEPT ![d] = @ \cup {"second"}] ELSE begun.down
  BY <1>4, OnEachTapOK
<1> HIDE DEF tapped
<1>7. /\ t \in State /\ t.inUse /\ t.pressed /\ t.count = (s.count + 1) % CountMod
      /\ t.finished <=> (t.count = 2 /\ kind[d] \in {"double", "move"})
  BY <1>2, <1>3, <1>5, <1>6 DEF Tapped
<1>8. /\ tapped.down[d] = IF t.count = 2 /\ kind[d] = "double" THEN {"second"} ELSE {}
      /\ \A e \in Dance \ {d} : tapped.down[e] = b.down[e]
  <2>1. (begun.states[d].count + 1) % CountMod = t.count
    BY <1>3, <1>5, <1>7
  <2>2. tapped.down = IF t.count = 2 /\ kind[d] = "double"
                      THEN [b.down EXCEPT ![d] = @ \cup {"second"}] ELSE b.down
    BY <1>4, <1>6, <2>1
  <2> HIDE DEF t
  <2> QED BY <1>1, <1>2, <2>2
<1>9. kind[d] = "double" => t.count \in {1, 2}
  BY <1>2, <1>7, DanceAssumption
<1>10. /\ r \in Keyboard /\ r.states = tapped.states /\ r.down = tapped.down
       /\ r.active = IF t.finished THEN NoDance ELSE d
  BY <1>6 DEF Keyboard
<1>11. Pressed(b, d) = r
  BY DEF Pressed, r, tapped, begun
<1> HIDE DEF r
<1>12. DanceSound(r, sw \cup {d}, d)
  <2>1. r.states[d] = t /\ r.down[d] = tapped.down[d] /\ d # NoDance
    BY <1>10, DanceAssumption
  <2> HIDE DEF t, s
  <2>2. (t.inUse /\ ~t.finished) <=> r.active = d
    BY <1>7, <1>10, <2>1
  <2>3. r.active = d => r.down[d] = {} /\ (kind[d] = "double" => t.count = 1)
    BY <1>7, <1>8, <1>9, <1>10, <2>1
  <2>4. t.finished => t.pressed /\ r.down[d] \subseteq ResetCodes(d, t.count)
    BY <1>7, <1>8, <2>1 DEF ResetCodes
  <2> QED BY <1>7, <2>1, <2>2, <2>3, <2>4 DEF DanceSound
<1>13. ASSUME NEW e \in Dance \ {d} PROVE DanceSound(r, sw \cup {d}, e)
  <2>1. r.states[e] = b.states[e] /\ r.down[e] = b.down[e]
    BY <1>5, <1>6, <1>8, <1>10
  <2>2. b.active # e /\ r.active # e
    BY <1>10, DanceAssumption
  <2>3. DanceSound(b, sw, e)
    BY SoundTypes
  <2> QED BY <2>1, <2>2, <2>3 DEF DanceSound
<1>14. InUse(r) = InUse(b) \cup {d}
  BY <1>5, <1>6, <1>7, <1>10 DEF InUse
<1> QED BY <1>10, <1>11, <1>12, <1>13, <1>14 DEF Sound

LEMMA ReleasedKeySound ==
  ASSUME KindsOK, NEW b, NEW sw, NEW d \in Dance, Sound(b, sw)
  PROVE  /\ Sound(ReleasedKey(b, d), sw \ {d})
         /\ InUse(ReleasedKey(b, d)) \subseteq InUse(b)
<1> DEFINE s == b.states[d]
           up == [b EXCEPT !.states[d].pressed = FALSE]
           reset == OnReset(up, d)
           r == [reset EXCEPT !.active = IF @ = d THEN NoDance ELSE @]
<1>1. /\ b \in Keyboard /\ s \in State /\ b.states \in [Dance -> State]
      /\ b.down \in [Dance -> SUBSET Code] /\ DanceSound(b, sw, d)
  BY SoundTypes, Fields
<1>2. /\ [s EXCEPT !.pressed = FALSE] \in State /\ ~[s EXCEPT !.pressed = FALSE].pressed
      /\ [s EXCEPT !.pressed = FALSE].inUse = s.inUse
      /\ [s EXCEPT !.pressed = FALSE].finished = s.finished
      /\ [s EXCEPT !.pressed = FALSE].count = s.count
  BY <1>1 DEF State
<1>3. /\ up \in Keyboard /\ up.active = b.active /\ up.down = b.down
      /\ up.states = [b.states EXCEPT ![d] = [s EXCEPT !.pressed = FALSE]]
  BY <1>1, <1>2 DEF Keyboard
<1>4. ReleasedKey(b, d) = CASE ~s.inUse   -> b
                            [] s.finished -> r
                            [] OTHER      -> up
  BY DEF ReleasedKey
<1> HIDE DEF up
<1>5. up.states[d] = [s EXCEPT !.pressed = FALSE]
      /\ \A e \in Dance \ {d} : up.states[e] = b.states[e]
  BY <1>1, <1>3
<1>6. ASSUME NEW x \in Keyboard, x.active = b.active, NEW e \in Dance \ {d},
             x.states[e] = b.states[e], x.down[e] = b.down[e]
      PROVE  DanceSound(x, sw \ {d}, e)
  BY <1>6, SoundTypes DEF DanceSound
<1>7. CASE ~s.inUse
  <2>1. DanceSound(b, sw \ {d}, d)
    <3>1. s = Unused /\ ~Unused.pressed
      BY <1>1, <1>7 DEF DanceSound, Unused
    <3> QED BY <1>1, <3>1 DEF DanceSound
  <2>2. ReleasedKey(b, d) = b
    <3>1. ~s.finished
      BY <1>1, <1>7 DEF DanceSound, Unused
    <3> QED BY <1>4, <1>7, <3>1
  <2>3. \A e \in Dance \ {d} : DanceSound(b, sw \ {d}, e)
    BY <1>1, <1>6
  <2> QED BY <1>1, <2>1, <2>2, <2>3 DEF Sound
<1>8. CASE s.inUse /\ ~s.finished
  <2>1. ReleasedKey(b, d) = up
    BY <1>4, <1>8
  <2>2. DanceSound(up, sw \ {d}, d)
    <3> HIDE DEF s
    <3>1. b.active = d /\ b.down[d] = {} /\ (kind[d] = "double" => s.count = 1)
      BY <1>1, <1>8 DEF DanceSound, s
    <3> QED BY <1>2, <1>3, <1>5, <1>8, <3>1 DEF DanceSound
  <2>3. InUse(up) \subseteq InUse(b)
    BY <1>2, <1>5 DEF InUse
  <2> QED BY <1>3, <1>5, <1>6, <2>1, <2>2, <2>3 DEF Sound
<1>9. CASE s.inUse /\ s.finished
  <2>1. ReleasedKey(b, d) = r
    BY <1>4, <1>9
  <2>2. b.active # d /\ b.down[d] \subseteq ResetCodes(d, s.count)
    BY <1>1, <1>9 DEF DanceSound
  <2>3. /\ reset \in Keyboard /\ reset.active = b.active
        /\ reset.states = [up.states EXCEPT ![d] = Unused]
        /\ reset.down = [up.down EXCEPT ![d] = @ \ ResetCodes(d, up.states[d].count)]
    BY <1>3, OnResetOK
  <2> HIDE DEF reset
  <2>4. /\ r \in Keyboard /\ r.active = b.active /\ r.states = reset.states
        /\ r.down = reset.down
    BY <2>2, <2>3 DEF Keyboard
  <2> HIDE DEF r
  <2>5. up.states \in [Dance -> State] /\ up.down \in [Dance -> SUBSET Code]
    BY <1>3, Fields
  <2>6. r.states[d] = Unused /\ r.down[d] = {}
    BY <1>2, <1>3, <1>5, <2>2, <2>3, <2>4, <2>5
  <2>7. \A e \in Dance \ {d} : r.states[e] = b.states[e] /\ r.down[e] = b.down[e]
    BY <1>3, <1>5, <2>3, <2>4, <2>5
  <2>8. ~Unused.inUse /\ ~Unused.finished /\ ~Unused.pressed
    BY DEF Unused
  <2>9. DanceSound(r, sw \ {d}, d)
    BY <2>2, <2>4, <2>6, <2>8 DEF DanceSound
  <2>10. InUse(r) \subseteq InUse(b)
    BY <2>6, <2>7, <2>8 DEF InUse
  <2> QED BY <1>6, <2>1, <2>4, <2>7, <2>9, <2>10 DEF Sound
<1> QED BY <1>7, <1>8, <1>9

-----------------------------------------------------------------------------
(* The invariant *)

\* No more dances have a state than the pool has states.
PoolKept(b) == Cardinality(InUse(b)) <= maxDances

IInv ==
  /\ KindsOK
  /\ sinceTap \in 0 .. OverTerm
  /\ switches \in SUBSET Dance
  /\ scanned \subseteq Dance \cup OtherKeys
  /\ Sound(kb, switches)
  /\ PoolKept(kb)

LEMMA PoolType ==
  ASSUME KindsOK, NEW b
  PROVE  maxDances \in Nat \ {0} /\ IsFiniteSet(InUse(b)) /\ Cardinality(InUse(b)) \in Nat
<1>1. IsFiniteSet(InUse(b))
  BY FS_Subset, DanceAssumption DEF InUse
<1> QED BY <1>1, FS_CardinalityType, DanceAssumption DEF KindsOK

LEMMA PoolShrinks ==
  ASSUME KindsOK, NEW b, NEW r, InUse(r) \subseteq InUse(b), PoolKept(b)
  PROVE  PoolKept(r)
<1>1. Cardinality(InUse(r)) <= Cardinality(InUse(b))
  BY PoolType, FS_Subset
<1> QED BY <1>1, PoolType DEF PoolKept

LEMMA PoolGrows ==
  ASSUME KindsOK, NEW b, NEW r, NEW d \in Dance, InUse(r) = InUse(b) \cup {d},
         PoolKept(b), HasState(b, d)
  PROVE  PoolKept(r)
<1>1. CASE d \in InUse(b)
  <2>1. InUse(r) = InUse(b)
    BY <1>1
  <2> QED BY <2>1 DEF PoolKept
<1>2. CASE d \notin InUse(b)
  <2>1. Cardinality(InUse(r)) = Cardinality(InUse(b)) + 1
    BY <1>2, PoolType, FS_AddElement
  <2>2. Cardinality(InUse(b)) < maxDances
    BY <1>2 DEF HasState, InUse
  <2> QED BY <2>1, <2>2, PoolType DEF PoolKept
<1> QED BY <1>1, <1>2

LEMMA SinceTapType ==
  ASSUME sinceTap \in 0 .. OverTerm, NEW t \in 0 .. DanceGap
  PROVE  Elapsed(t) \in 0 .. OverTerm /\ 0 \in 0 .. OverTerm
BY DanceAssumption DEF Elapsed, OverTerm

LEMMA InvInit == DanceInit => IInv
<1> SUFFICES ASSUME DanceInit PROVE IInv
  OBVIOUS
<1> USE DEF DanceInit
<1>1. KindsOK /\ sinceTap \in 0 .. OverTerm
  BY DanceAssumption DEF KindsOK, OverTerm
<1>2. kb \in Keyboard
  BY UnusedType DEF Keyboard
<1>3. ASSUME NEW d \in Dance PROVE DanceSound(kb, switches, d)
  <2>1. kb.states[d] = Unused /\ kb.down[d] = {} /\ kb.active = NoDance /\ d # NoDance
    BY <1>3, DanceAssumption
  <2> QED BY <2>1 DEF DanceSound, Unused
<1>4. InUse(kb) = {}
  BY DEF InUse, Unused
<1>5. PoolKept(kb)
  <2>1. Cardinality(InUse(kb)) = 0
    BY <1>4, FS_EmptySet
  <2>2. maxDances \in Nat \ {0}
    BY <1>1, PoolType
  <2> QED BY <2>1, <2>2 DEF PoolKept
<1> QED BY <1>1, <1>2, <1>3, <1>5 DEF IInv, Sound

\* A key that is no dance's changes: b is what the dances have come to by then.
LEMMA OtherEvent ==
  ASSUME KindsOK, NEW b, NEW r \in Keyboard, NEW sw, Sound(b, sw), PoolKept(b),
         r.states = b.states, r.active = b.active, r.down = b.down
  PROVE  Sound(r, sw) /\ PoolKept(r)
<1>1. InUse(r) = InUse(b)
  BY DEF InUse
<1> QED BY <1>1, SameDances DEF PoolKept

\* The press of a key has ended the dances of other keys.
LEMMA PressBegins ==
  ASSUME KindsOK, NEW sw, Sound(kb, sw), PoolKept(kb), NEW key \in Dance \cup {NoDance}
  PROVE  LET b == Preprocess(Arriving(kb), key)
         IN Sound(b, sw) /\ PoolKept(b) /\ b.active \in {NoDance, key}
<1>1. Sound(Arriving(kb), sw) /\ InUse(Arriving(kb)) = InUse(kb)
  BY ArrivingSound DEF InUse, Arriving, Sound, Keyboard
<1>2. InUse(Preprocess(Arriving(kb), key)) \subseteq InUse(kb)
  BY <1>1, PreprocessSound
<1> QED BY <1>1, <1>2, PreprocessSound, PoolShrinks

\* What holds of the next keyboard holds next, the build being the same.
LEMMA SoundNext ==
  ASSUME UNCHANGED <<kind, maxDances>>, KindsOK, Sound(kb', switches'), PoolKept(kb')
  PROVE  KindsOK' /\ Sound(kb, switches)' /\ PoolKept(kb)'
BY DEF KindsOK, Sound, DanceSound, ResetCodes, PoolKept, InUse

LEMMA InvStep == IInv /\ [DanceNext]_danceVars => IInv'
<1> SUFFICES ASSUME IInv, [DanceNext]_danceVars PROVE IInv'
  OBVIOUS
<1>0. /\ KindsOK /\ Sound(kb, switches) /\ PoolKept(kb) /\ kb \in Keyboard
      /\ switches \in SUBSET Dance /\ NoDance \in Dance \cup {NoDance}
  BY DEF IInv, Sound
<1>1. ASSUME NEW d \in Dance, NEW t \in 0 .. DanceGap, PressDance(d, t) PROVE IInv'
  <2> DEFINE b == Preprocess(Arriving(kb), d)
  <2>1. Sound(b, switches) /\ PoolKept(b) /\ b.active \in {NoDance, d}
    BY <1>0, PressBegins
  <2>2. /\ UNCHANGED <<kind, maxDances>> /\ scanned' = scanned \cup {d}
        /\ d \notin switches /\ switches' = switches \cup {d}
        /\ sinceTap' \in {0, Elapsed(t)}
        /\ \/ HasState(b, d) /\ kb' = Pressed(b, d)
           \/ kb' = b
    BY <1>1 DEF PressDance, Event
  <2> HIDE DEF b
  <2>3. Sound(kb', switches') /\ PoolKept(kb')
    <3>1. CASE HasState(b, d) /\ kb' = Pressed(b, d)
      BY <1>0, <2>1, <2>2, <3>1, PressedSound, PoolGrows
    <3>2. CASE kb' = b
      <4>1. \A e \in Dance : DanceSound(b, switches', e)
        BY <2>1, <2>2 DEF Sound, DanceSound
      <4> QED BY <2>1, <3>2, <4>1 DEF Sound
    <3> QED BY <2>2, <3>1, <3>2
  <2> QED BY <1>0, <2>2, <2>3, SinceTapType, SoundNext DEF IInv
<1>2. ASSUME NEW d \in Dance, NEW t \in 0 .. DanceGap, ReleaseDance(d, t) PROVE IInv'
  <2>1. /\ UNCHANGED <<kind, maxDances>> /\ scanned' = scanned \cup {d}
        /\ switches' = switches \ {d} /\ sinceTap' = Elapsed(t)
        /\ kb' = ReleasedKey(kb, d)
    BY <1>2 DEF ReleaseDance, Event
  <2>2. Sound(kb', switches') /\ PoolKept(kb')
    BY <1>0, <2>1, ReleasedKeySound, PoolShrinks
  <2> QED BY <1>0, <2>1, <2>2, SinceTapType, SoundNext DEF IInv
<1>3. ASSUME NEW t \in 0 .. DanceGap, NEW key \in OtherKeys, Event(key, t),
             UNCHANGED switches, sinceTap' = Elapsed(t), Sound(kb', switches), PoolKept(kb')
      PROVE  IInv'
  BY <1>0, <1>3, SinceTapType, SoundNext DEF Event, IInv
<1> DEFINE b == Preprocess(Arriving(kb), NoDance)
<1>4. Sound(b, switches) /\ PoolKept(b) /\ b \in Keyboard
  BY <1>0, PressBegins DEF Sound
<1> HIDE DEF b
<1>5. ASSUME NEW t \in 0 .. DanceGap, OtherKey(t) PROVE IInv'
  <2>1. kb' \in {Report([kb EXCEPT !.others = FALSE]), Report([b EXCEPT !.others = TRUE])}
    BY <1>5 DEF OtherKey, b
  <2>2. /\ [kb EXCEPT !.others = FALSE] \in Keyboard /\ [b EXCEPT !.others = TRUE] \in Keyboard
        /\ [kb EXCEPT !.others = FALSE].states = kb.states
        /\ [kb EXCEPT !.others = FALSE].active = kb.active
        /\ [kb EXCEPT !.others = FALSE].down = kb.down
        /\ [b EXCEPT !.others = TRUE].states = b.states
        /\ [b EXCEPT !.others = TRUE].active = b.active
        /\ [b EXCEPT !.others = TRUE].down = b.down
    BY <1>0, <1>4 DEF Keyboard
  <2>3. Sound(kb', switches) /\ PoolKept(kb')
    BY <1>0, <1>4, <2>1, <2>2, ReportOK, OtherEvent
  <2> QED BY <1>3, <1>5, <2>3 DEF OtherKey, OtherKeys
<1>6. ASSUME NEW t \in 0 .. DanceGap, ShiftKey(t) PROVE IInv'
  <2> DEFINE up == [kb EXCEPT !.shift = FALSE, !.mods = FALSE]
             dn == [b EXCEPT !.shift = TRUE, !.mods = TRUE]
  <2>1. kb' \in {Report(up), Report(dn)}
    BY <1>6 DEF ShiftKey, b
  <2>2. /\ up \in Keyboard /\ dn \in Keyboard
        /\ up.states = kb.states /\ up.active = kb.active /\ up.down = kb.down
        /\ dn.states = b.states /\ dn.active = b.active /\ dn.down = b.down
    BY <1>0, <1>4 DEF Keyboard
  <2> HIDE DEF up, dn
  <2>3. Sound(kb', switches) /\ PoolKept(kb')
    BY <1>0, <1>4, <2>1, <2>2, ReportOK, OtherEvent
  <2> QED BY <1>3, <1>6, <2>3 DEF ShiftKey, OtherKeys
<1>7. ASSUME NEW t \in 0 .. DanceGap, OneShotKey(t) PROVE IInv'
  <2>1. kb' = [b EXCEPT !.oneshot = TRUE]
    BY <1>7 DEF OneShotKey, b
  <2>2. kb' \in Keyboard /\ kb'.states = b.states /\ kb'.active = b.active /\ kb'.down = b.down
    BY <1>4, <2>1 DEF Keyboard
  <2>3. Sound(kb', switches) /\ PoolKept(kb')
    BY <1>0, <1>4, <2>2, OtherEvent
  <2> QED BY <1>3, <1>7, <2>3 DEF OneShotKey, OtherKeys
<1>8. ASSUME NEW t \in 0 .. DanceGap, DanceTask(t) PROVE IInv'
  <2>1. /\ UNCHANGED <<kind, maxDances, switches>> /\ scanned' = {} /\ sinceTap' = Elapsed(t)
        /\ \/ kb' = kb
           \/ kb.active # NoDance /\ kb' = OnFinished(kb, kb.active)
    BY <1>8 DEF DanceTask
  <2>2. Sound(kb', switches) /\ PoolKept(kb')
    BY <1>0, <2>1, OnFinishedSound, PoolShrinks
  <2> QED BY <1>0, <2>1, <2>2, SinceTapType, SoundNext DEF IInv
<1>9. ASSUME UNCHANGED danceVars PROVE IInv'
  BY <1>0, <1>9, SoundNext DEF danceVars, IInv
<1> QED BY <1>1, <1>2, <1>5, <1>6, <1>7, <1>8, <1>9 DEF DanceNext

\* Every field keeps its type and no more dances run than there are states.
THEOREM DanceTypesCorrect == DanceSpec => []DanceTypeOK
<1>1. IInv => DanceTypeOK
  BY DEF IInv, KindsOK, Sound, PoolKept, DanceTypeOK
<1> QED BY InvInit, InvStep, <1>1, PTL DEF DanceSpec

\* active_td names the one dance that still counts, whatever pool and kinds.
THEOREM NoDanceIsForgotten == DanceSpec => []NoOrphan
<1>1. IInv => NoOrphan
  BY DEF IInv, Sound, DanceSound, NoOrphan
<1> QED BY InvInit, InvStep, <1>1, PTL DEF DanceSpec

\* A dance that gave its state back has nothing registered any more.
THEOREM DancesLetGo == DanceSpec => []DanceLetsGo
<1>1. IInv => DanceLetsGo
  BY DEF IInv, Sound, DanceSound, DanceLetsGo
<1> QED BY InvInit, InvStep, <1>1, PTL DEF DanceSpec

-----------------------------------------------------------------------------
(* The modifiers *)

\* A modifier that is on is held by its key or by a dance that waits for its own.
Brought(b) ==
  /\ b.mods => b.shift \/ \E d \in Dance : b.states[d].finished /\ b.states[d].oneshot
  /\ b.weak => \E d \in Dance : b.states[d].finished /\ b.states[d].weak

\* A step of d answers for the modifiers that d held before or brings now.
LEMMA BroughtBy ==
  ASSUME NEW b, NEW r, NEW d \in Dance, Brought(b),
         \A e \in Dance \ {d} : r.states[e] = b.states[e],
         r.shift = b.shift,
         r.mods => \/ b.mods /\ ~(b.states[d].finished /\ b.states[d].oneshot)
                   \/ r.states[d].finished /\ r.states[d].oneshot,
         r.weak => \/ b.weak /\ ~(b.states[d].finished /\ b.states[d].weak)
                   \/ r.states[d].finished /\ r.states[d].weak
  PROVE  Brought(r)
BY DEF Brought

\* A step of no dance answers to the modifier's key.
LEMMA BroughtSame ==
  ASSUME NEW b, NEW r, Brought(b), r.states = b.states,
         r.mods => (b.mods /\ r.shift = b.shift) \/ r.shift, r.weak => b.weak
  PROVE  Brought(r)
BY DEF Brought

LEMMA OnFinishedBrought ==
  ASSUME KindsOK, NEW b \in Keyboard, NEW d \in Dance, ~b.states[d].finished, Brought(b)
  PROVE  Brought(OnFinished(b, d)) /\ OnFinished(b, d) \in Keyboard
<1> DEFINE s == b.states[d]
           r == OnFinished(b, d)
<1>1. b.states \in [Dance -> State] /\ s \in State
  BY Fields
<1>2. /\ r \in Keyboard
      /\ r.states = [b.states EXCEPT ![d] = IF @.pressed THEN [@ EXCEPT !.finished = TRUE] ELSE Unused]
      /\ r.shift = b.shift
      /\ r.mods => b.mods \/ (s.pressed /\ s.oneshot)
      /\ r.weak => b.weak \/ (s.pressed /\ s.weak)
  BY OnFinishedOK
<1> HIDE DEF r
<1>3. \A e \in Dance \ {d} : r.states[e] = b.states[e]
  BY <1>1, <1>2
<1>4. s.pressed => /\ r.states[d].finished
                   /\ r.states[d].oneshot = s.oneshot /\ r.states[d].weak = s.weak
  <2>1. s.pressed => r.states[d] = [s EXCEPT !.finished = TRUE]
    BY <1>1, <1>2
  <2> HIDE DEF s
  <2> QED BY <1>1, <2>1 DEF State
<1> QED BY <1>1, <1>2, <1>3, <1>4, BroughtBy DEF r

LEMMA PreprocessBrought ==
  ASSUME KindsOK, NEW b, NEW sw, Sound(b, sw), Brought(b), NEW key \in Dance \cup {NoDance}
  PROVE  Brought(Preprocess(b, key))
<1> DEFINE d == b.active
           s == b.states[d]
           marked == [b EXCEPT !.states[d].interrupted = TRUE]
           finished == OnFinished(marked, d)
           r == [finished EXCEPT !.weak = FALSE]
<1>1. CASE d \in {NoDance, key}
  BY <1>1 DEF Preprocess
<1>2. CASE d \notin {NoDance, key}
  <2>1. /\ d \in Dance /\ b \in Keyboard /\ b.states \in [Dance -> State]
        /\ s \in State /\ DanceSound(b, sw, d)
    BY <1>2, Fields, SoundTypes DEF Sound
  <2>2. Preprocess(b, key) = r
    BY <1>2, <2>1 DEF Preprocess, DanceSound
  <2>3. [s EXCEPT !.interrupted = TRUE] \in State
    BY <2>1 DEF State
  <2>4. /\ marked \in Keyboard /\ marked.active = d
        /\ marked.states = [b.states EXCEPT ![d] = [s EXCEPT !.interrupted = TRUE]]
        /\ ModsKept(b, marked)
    BY <2>1, <2>3 DEF Keyboard, ModsKept
  <2> HIDE DEF marked, d
  <2>5. /\ marked.states[d] = [s EXCEPT !.interrupted = TRUE]
        /\ \A e \in Dance \ {d} : marked.states[e] = b.states[e]
    BY <2>1, <2>4
  <2>6. /\ ~marked.states[d].finished /\ ~s.finished
        /\ marked.states[d].oneshot = s.oneshot /\ marked.states[d].weak = s.weak
    <3>1. ~s.finished
      BY <2>1 DEF DanceSound, d
    <3> HIDE DEF s
    <3> QED BY <2>1, <2>5, <3>1 DEF State
  <2>7. Brought(marked)
    BY <2>1, <2>4, <2>5, <2>6, BroughtBy DEF ModsKept
  <2>8. Brought(finished) /\ finished \in Keyboard
    BY <2>1, <2>4, <2>6, <2>7, OnFinishedBrought
  <2> HIDE DEF finished
  <2>9. r.states = finished.states /\ r.mods = finished.mods /\ r.shift = finished.shift /\ ~r.weak
    BY <2>8 DEF Keyboard
  <2> HIDE DEF r
  <2> QED BY <2>2, <2>8, <2>9, BroughtSame
<1> QED BY <1>1, <1>2

LEMMA PressedBrought ==
  ASSUME KindsOK, NEW b, NEW sw, NEW d \in Dance, Sound(b, sw), d \notin sw, Brought(b)
  PROVE  Brought(Pressed(b, d))
<1> DEFINE s == b.states[d]
           begun == [b EXCEPT !.states[d].inUse = TRUE, !.states[d].pressed = TRUE]
           tapped == OnEachTap(begun, d)
           r == [tapped EXCEPT !.active = IF tapped.states[d].finished THEN NoDance ELSE d]
<1>1. b \in Keyboard /\ s \in State /\ b.states \in [Dance -> State] /\ ~s.finished
  BY SoundTypes, Fields DEF DanceSound
<1>2. [s EXCEPT !.inUse = TRUE, !.pressed = TRUE] \in State
  BY <1>1 DEF State
<1>3. /\ begun \in Keyboard /\ ModsKept(b, begun)
      /\ \A e \in Dance \ {d} : begun.states[e] = b.states[e]
  BY <1>1, <1>2 DEF Keyboard, ModsKept
<1> HIDE DEF begun
<1>4. /\ tapped \in Keyboard /\ ModsKept(begun, tapped)
      /\ \A e \in Dance \ {d} : tapped.states[e] = begun.states[e]
  BY <1>3, OnEachTapOK
<1> HIDE DEF tapped
<1>5. r.states = tapped.states /\ ModsKept(tapped, r)
  BY <1>4 DEF Keyboard, ModsKept
<1>6. Pressed(b, d) = r
  BY DEF Pressed, r, tapped, begun
<1> HIDE DEF r
<1> QED BY <1>1, <1>3, <1>4, <1>5, <1>6, BroughtBy DEF ModsKept

LEMMA ReleasedKeyBrought ==
  ASSUME KindsOK, NEW b, NEW sw, NEW d \in Dance, Sound(b, sw), Brought(b)
  PROVE  Brought(ReleasedKey(b, d))
<1> DEFINE s == b.states[d]
           up == [b EXCEPT !.states[d].pressed = FALSE]
           reset == OnReset(up, d)
           r == [reset EXCEPT !.active = IF @ = d THEN NoDance ELSE @]
<1>1. /\ b \in Keyboard /\ s \in State /\ b.states \in [Dance -> State]
      /\ DanceSound(b, sw, d)
  BY SoundTypes, Fields
<1>2. /\ [s EXCEPT !.pressed = FALSE] \in State
      /\ [s EXCEPT !.pressed = FALSE].finished = s.finished
      /\ [s EXCEPT !.pressed = FALSE].oneshot = s.oneshot
      /\ [s EXCEPT !.pressed = FALSE].weak = s.weak
  BY <1>1 DEF State
<1>3. /\ up \in Keyboard /\ ModsKept(b, up)
      /\ up.states = [b.states EXCEPT ![d] = [s EXCEPT !.pressed = FALSE]]
  BY <1>1, <1>2 DEF Keyboard, ModsKept
<1>4. ReleasedKey(b, d) = CASE ~s.inUse   -> b
                            [] s.finished -> r
                            [] OTHER      -> up
  BY DEF ReleasedKey
<1> HIDE DEF up
<1>5. up.states[d] = [s EXCEPT !.pressed = FALSE]
      /\ \A e \in Dance \ {d} : up.states[e] = b.states[e]
  BY <1>1, <1>3
<1>6. s.finished => s.inUse
  BY <1>1 DEF DanceSound, Unused
<1>7. CASE ~s.inUse
  BY <1>4, <1>6, <1>7
<1>8. CASE s.inUse /\ ~s.finished
  <2>1. ReleasedKey(b, d) = up
    BY <1>4, <1>8
  <2> HIDE DEF s
  <2>2. up.states[d].finished = s.finished
    BY <1>2, <1>5
  <2> QED BY <1>3, <1>5, <1>8, <2>1, BroughtBy DEF ModsKept, s
<1>9. CASE s.inUse /\ s.finished
  <2>1. ReleasedKey(b, d) = r
    BY <1>4, <1>9
  <2>2. /\ reset \in Keyboard /\ reset.states = [up.states EXCEPT ![d] = Unused]
        /\ reset.shift = up.shift
        /\ reset.mods = (up.mods /\ ~up.states[d].oneshot)
        /\ reset.weak = (up.weak /\ ~up.states[d].weak)
    BY <1>3, OnResetOK
  <2> HIDE DEF reset
  <2>3. r.states = reset.states /\ ModsKept(reset, r)
    BY <2>2 DEF Keyboard, ModsKept
  <2> HIDE DEF r
  <2>4. up.states \in [Dance -> State]
    BY <1>3, Fields
  <2>5. \A e \in Dance \ {d} : r.states[e] = b.states[e]
    BY <1>5, <2>2, <2>3, <2>4
  <2>6. r.shift = b.shift /\ (r.mods => b.mods /\ ~s.oneshot) /\ (r.weak => b.weak /\ ~s.weak)
    <3>1. up.states[d].oneshot = s.oneshot /\ up.states[d].weak = s.weak
      BY <1>2, <1>5
    <3> HIDE DEF s
    <3> QED BY <1>3, <2>2, <2>3, <3>1 DEF ModsKept
  <2> QED BY <2>1, <2>5, <2>6, BroughtBy
<1> QED BY <1>7, <1>8, <1>9

LEMMA BroughtStep ==
  IInv /\ Brought(kb) /\ [DanceNext]_danceVars => Brought(kb)'
<1> SUFFICES ASSUME IInv, Brought(kb), [DanceNext]_danceVars PROVE Brought(kb')
  BY DEF Brought
<1>0. KindsOK /\ Sound(kb, switches) /\ kb \in Keyboard /\ NoDance \in Dance \cup {NoDance}
  BY DEF IInv, Sound
<1>1. ASSUME NEW key \in Dance \cup {NoDance}
      PROVE  LET b == Preprocess(Arriving(kb), key)
             IN Sound(b, switches) /\ b \in Keyboard /\ Brought(b)
  <2>1. Sound(Arriving(kb), switches)
    BY <1>0, ArrivingSound
  <2>2. /\ Arriving(kb).states = kb.states /\ Arriving(kb).shift = kb.shift
        /\ Arriving(kb).mods = kb.mods /\ ~Arriving(kb).weak
    BY <1>0 DEF Arriving, Keyboard
  <2>3. Brought(Arriving(kb))
    BY <2>2, BroughtSame
  <2> QED BY <1>0, <2>1, <2>3, PreprocessSound, PreprocessBrought DEF Sound
<1>2. ASSUME NEW d \in Dance, NEW t \in 0 .. DanceGap, PressDance(d, t) PROVE Brought(kb')
  <2> DEFINE b == Preprocess(Arriving(kb), d)
  <2>1. Sound(b, switches) /\ Brought(b)
    BY <1>1
  <2>2. d \notin switches /\ kb' \in {b, Pressed(b, d)}
    BY <1>2 DEF PressDance
  <2> HIDE DEF b
  <2> QED BY <1>0, <2>1, <2>2, PressedBrought
<1>3. ASSUME NEW d \in Dance, NEW t \in 0 .. DanceGap, ReleaseDance(d, t) PROVE Brought(kb')
  BY <1>0, <1>3, ReleasedKeyBrought DEF ReleaseDance
<1> DEFINE b == Preprocess(Arriving(kb), NoDance)
<1>4. b \in Keyboard /\ Brought(b)
  BY <1>0, <1>1
<1> HIDE DEF b
<1>5. ASSUME NEW t \in 0 .. DanceGap, OtherKey(t) PROVE Brought(kb')
  <2> DEFINE up == [kb EXCEPT !.others = FALSE]
             dn == [b EXCEPT !.others = TRUE]
  <2>1. kb' \in {Report(up), Report(dn)}
    BY <1>5 DEF OtherKey, b
  <2>2. /\ up \in Keyboard /\ up.states = kb.states /\ ModsKept(kb, up)
        /\ dn \in Keyboard /\ dn.states = b.states /\ ModsKept(b, dn)
    BY <1>0, <1>4 DEF Keyboard, ModsKept
  <2> HIDE DEF up, dn
  <2> QED BY <1>4, <2>1, <2>2, ReportOK, BroughtSame DEF ModsKept
<1>6. ASSUME NEW t \in 0 .. DanceGap, ShiftKey(t) PROVE Brought(kb')
  <2> DEFINE up == [kb EXCEPT !.shift = FALSE, !.mods = FALSE]
             dn == [b EXCEPT !.shift = TRUE, !.mods = TRUE]
  <2>1. kb' \in {Report(up), Report(dn)}
    BY <1>6 DEF ShiftKey, b
  <2>2. /\ up \in Keyboard /\ up.states = kb.states /\ ~up.mods /\ up.weak = kb.weak
        /\ dn \in Keyboard /\ dn.states = b.states /\ dn.shift /\ dn.weak = b.weak
    BY <1>0, <1>4 DEF Keyboard
  <2> HIDE DEF up, dn
  <2> QED BY <1>4, <2>1, <2>2, ReportOK, BroughtSame DEF ModsKept
<1>7. ASSUME NEW t \in 0 .. DanceGap, OneShotKey(t) PROVE Brought(kb')
  <2>1. kb' = [b EXCEPT !.oneshot = TRUE]
    BY <1>7 DEF OneShotKey, b
  <2>2. kb'.states = b.states /\ ModsKept(b, kb')
    BY <1>4, <2>1 DEF Keyboard, ModsKept
  <2> QED BY <1>4, <2>2, BroughtSame DEF ModsKept
<1>8. ASSUME NEW t \in 0 .. DanceGap, DanceTask(t) PROVE Brought(kb')
  <2>1. \/ kb' = kb
        \/ kb.active # NoDance /\ kb' = OnFinished(kb, kb.active)
    BY <1>8 DEF DanceTask
  <2>2. kb.active # NoDance => kb.active \in Dance /\ ~kb.states[kb.active].finished
    BY <1>0, Fields, SoundTypes DEF DanceSound
  <2> QED BY <1>0, <2>1, <2>2, OnFinishedBrought
<1>9. ASSUME UNCHANGED danceVars PROVE Brought(kb')
  BY <1>9 DEF danceVars
<1> QED BY <1>2, <1>3, <1>5, <1>6, <1>7, <1>8, <1>9 DEF DanceNext

\* No modifier outlives the dances that brought it, and its own key.
THEOREM ModifiersReturn == DanceSpec => []ModsReturn
<1>1. DanceInit => Brought(kb)
  BY DEF DanceInit, Brought
<1>2. IInv /\ Brought(kb) => ModsReturn
  <2> SUFFICES ASSUME IInv, Brought(kb), InUse(kb) = {}, ~kb.shift PROVE ~kb.mods /\ ~kb.weak
    BY DEF ModsReturn
  <2>1. \A d \in Dance : ~kb.states[d].finished
    BY DEF InUse, IInv, Sound, DanceSound, Unused
  <2> QED BY <2>1 DEF Brought
<1> QED BY InvInit, InvStep, BroughtStep, <1>1, <1>2, PTL DEF DanceSpec
=============================================================================
