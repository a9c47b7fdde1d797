------------------------------- MODULE Combo -------------------------------
(***************************************************************************)
(* Combos, quantum/process_keycode/process_combo.c: keys pressed together  *)
(* that mean one other key.  The presses of keys that may become a combo   *)
(* are held back in the key buffer; combos whose keys are all down are     *)
(* held in a second, circular buffer, in case a longer one completes; when *)
(* the term is over, or another event comes, the combos are applied to the *)
(* held back presses and those are let go.                                 *)
(*                                                                         *)
(* A key event passes through several of these functions in one call, so   *)
(* what they change is one record, cb.  The circular buffer is the         *)
(* sequence of what lies between its two indices.  No option of combo.md   *)
(* is set.  The keys are plain ones: what is let go reaches the host at    *)
(* once, and the order of what is let go together does not show.           *)
(***************************************************************************)
EXTENDS Integers, FiniteSets, Sequences, Functions

CONSTANTS
  ComboKey,
  ComboKeys,     \* key_combos: per combo, in their order, the set of its keys
  ComboTerm,     \* COMBO_TERM
  KeyBufferLength, ComboBufferLength,
  ComboGap,      \* the longest time between a scan and the tasks
  MaxMoves,      \* bound: how many keys change in one scan
  ZeroReads      \* whether timer_read() may happen to be 0 at a key press

Combo == DOMAIN ComboKeys

ASSUME ComboAssumption ==
  /\ ComboKeys \in Seq(SUBSET ComboKey)
  /\ \A c \in Combo : IsFiniteSet(ComboKeys[c]) /\ Cardinality(ComboKeys[c]) > 1
  /\ ComboTerm \in Nat /\ ComboGap \in Nat \ {0} /\ MaxMoves \in Nat \ {0}
  /\ KeyBufferLength \in Nat \ {0} /\ ComboBufferLength \in Nat \ {0, 1}
  /\ ZeroReads \in BOOLEAN

VARIABLES
  cb,
  keysDown,    \* the keys that are physically down
  keysScanned  \* the keys whose change the running scan has already reported

comboVars == <<cb, keysDown, keysScanned>>

Off == -1
OverComboTerm == ComboTerm + 2 * ComboGap

ComboInit ==
  /\ cb = [state    |-> [c \in Combo |-> {}],     \* the keys of c that are down
           disabled |-> [c \in Combo |-> FALSE],
           active   |-> [c \in Combo |-> FALSE],
           ready    |-> <<>>,      \* combo_buffer from combo_buffer_read to _write
           keys     |-> <<>>,      \* key_buffer
           timer    |-> Off,       \* the time since timer was set
           longest  |-> 0,         \* longest_term
           enabled  |-> TRUE,
           down     |-> {},        \* the keys the host sees down
           combos   |-> {}]        \* and the combos
  /\ keysDown = {} /\ keysScanned = {}

-----------------------------------------------------------------------------
(* The two buffers *)

ClearCombos(b) ==
  [b EXCEPT !.longest = 0,
            !.state = [c \in Combo |-> IF b.active[c] THEN @[c] ELSE {}],
            !.disabled = [c \in Combo |-> b.active[c] /\ @[c]]]

\* Mutant: the keys of a combo are let go beside it.
LetGoAsKeys(b, plain, combos) ==
  [b EXCEPT !.down = @ \cup Range(b.keys), !.combos = @ \cup combos, !.keys = <<>>]

\* The key buffer is emptied: the records of plain as the keys they are, others
\* as the combos they have become, and ticks as nothing.
LetGo(b, plain, combos) ==
  [b EXCEPT !.down = @ \cup plain, !.combos = @ \cup combos, !.keys = <<>>]

DumpKeyBuffer(b) == LetGo(b, Range(b.keys), {})

\* drop_combo_from_buffer for each of gone, in the order of the buffer: only the
\* first in the buffer makes room.
DropCombos(ready, gone) ==
  LET front == CHOOSE n \in 0 .. Len(ready) :
                 /\ \A i \in 1 .. n : ready[i] \in gone
                 /\ n < Len(ready) => ready[n + 1] \notin gone
  IN SubSeq(ready, front + 1, Len(ready))

\* A full buffer looks empty: the write index has met the read index.
Buffered(ready, c) ==
  IF Len(ready) + 1 = ComboBufferLength THEN <<>> ELSE Append(ready, c)

\* apply_combo: the first n records of the key buffer hold all the keys of c.
Completes(b, c, n) == ComboKeys[c] \subseteq {b.keys[i] : i \in 1 .. n}

\* Record i is disabled or becomes c: its key is one of c's, and c still lacks some.
Takes(b, c, i) == b.keys[i] \in ComboKeys[c] /\ ~Completes(b, c, i - 1)

Applied(b) == {c \in Range(b.ready) : ~b.disabled[c]}

\* Of the combos that take a record the last one decides what it is.
Becomes(b, c, i) ==
  \E n \in DOMAIN b.ready :
    /\ b.ready[n] = c /\ Takes(b, c, i) /\ Completes(b, c, i)
    /\ \A m \in n + 1 .. Len(b.ready) :
         b.ready[m] \in Applied(b) => ~Takes(b, b.ready[m], i)

ApplyCombos(b) ==
  LET plain  == {b.keys[i] : i \in {j \in DOMAIN b.keys :
                                      \A c \in Applied(b) : ~Takes(b, c, j)}}
      combos == {c \in Applied(b) : \E i \in DOMAIN b.keys : Becomes(b, c, i)}
      done   == [b EXCEPT
                   !.active   = [c \in Combo |-> @[c] \/ (/\ c \in Applied(b)
                                                         /\ Completes(b, c, Len(b.keys)))],
                   !.disabled = [c \in Combo |-> @[c] \/ c \in Applied(b)],
                   !.ready    = DropCombos(@, Applied(b))]
  IN ClearCombos(LetGo(done, plain, combos))

-----------------------------------------------------------------------------
(* process_single_combo: one combo learns of a key event.  p is its result: *)
(* what has become of cb, and whether the key is part of a combo.           *)

TermOver(b) == b.timer # Off /\ b.timer > ComboTerm

\* overlaps(): which of two combos that share a key is dropped, the shorter
\* one or, of the same length, the first, which may be the second itself.
Overlap(c, d) == ComboKeys[c] \cap ComboKeys[d] # {}
DropSecond(c, d) == c = d \/ Cardinality(ComboKeys[d]) < Cardinality(ComboKeys[c])

\* Mutant: combos that overlap do not meet.
BufferComboAlways(b, c) == [b EXCEPT !.ready = Buffered(@, c)]

\* All keys of c are down in time: it meets the ready combos, up to the first that
\* drops it; those it overlaps are dropped.
BufferCombo(b, c) ==
  LET stops == {i \in DOMAIN b.ready : /\ Overlap(b.ready[i], c)
                                       /\ DropSecond(b.ready[i], c)}
      met   == {b.ready[i] : i \in {j \in DOMAIN b.ready :
                                     /\ Overlap(b.ready[j], c)
                                     /\ \A s \in stops : j < s}}
      off   == IF stops = {} THEN met ELSE met \cup {c}
      left  == DropCombos(b.ready, met)
  IN [b EXCEPT !.disabled = [d \in Combo |-> @[d] \/ d \in off],
               !.ready = IF stops = {} THEN Buffered(left, c) ELSE left]

ComboPress(p, c, k) ==
  LET b == p.b
      joined == IF b.active[c] THEN b
                ELSE [b EXCEPT !.state[c] = @ \cup {k}, !.longest = ComboTerm]
      full == joined.state[c] = ComboKeys[c]
  IN IF b.disabled[c] \/ ~b.enabled THEN p
     ELSE [b    |-> CASE ~full -> joined
                      [] full /\ TermOver(b) -> [joined EXCEPT !.disabled[c] = TRUE]
                      [] full /\ ~TermOver(b) -> BufferCombo(joined, c),
           part |-> TRUE]

\* The last key of an active combo that is down goes up.
LastKey(b, c, k) == b.active[c] /\ b.state[c] = {k}

ReleaseCombo(b, c) == [b EXCEPT !.combos = @ \ {c}, !.active[c] = FALSE]

ComboRelease(p, c, k) ==
  LET b == p.b
      up(x) == [x EXCEPT !.state[c] = @ \ {k}]
  IN CASE ~b.active[c] /\ b.state[c] = ComboKeys[c] ->
            IF b.disabled[c]
            THEN [b |-> up([b EXCEPT !.ready = DropCombos(@, {c})]), part |-> p.part]
            ELSE [b |-> up(b), part |-> p.part \/ b.enabled]
       [] LastKey(b, c, k) -> [b |-> up(ReleaseCombo(b, c)), part |-> TRUE]
       [] b.active[c] /\ k \in b.state[c] /\ ~LastKey(b, c, k) -> [b |-> up(b), part |-> TRUE]
       [] OTHER -> [b |-> up(b), part |-> p.part]

SingleCombos(b, k, press) ==
  LET upTo[c \in 0 .. Len(ComboKeys)] ==
        IF c = 0 THEN [b |-> b, part |-> FALSE]
        ELSE IF k \notin ComboKeys[c] THEN upTo[c - 1]
        ELSE IF press THEN ComboPress(upTo[c - 1], c, k)
        ELSE ComboRelease(upTo[c - 1], c, k)
  IN upTo[Len(ComboKeys)]

-----------------------------------------------------------------------------
(* process_combo and combo_task *)

\* Mutant: the timer is not set again.
HoldBackUntimed(b, k, zero) ==
  [b EXCEPT !.keys = IF Len(@) < KeyBufferLength
                     THEN Append(@, k) ELSE @]

\* A press that may become part of a combo; a timer set at time 0 is off.
HoldBack(b, k, zero) ==
  [b EXCEPT !.timer = IF zero THEN Off ELSE 0,
            !.keys = IF Len(@) < KeyBufferLength
                     THEN Append(@, k) ELSE @]

Flush(b) ==
  IF b.ready # <<>> THEN ApplyCombos(b)
  ELSE ClearCombos([DumpKeyBuffer(b) EXCEPT !.timer = Off])

\* The time since the timer was set, t later.
Aged(b, t) ==
  [b EXCEPT !.timer = IF @ = Off THEN Off
                      ELSE IF @ + t < OverComboTerm THEN @ + t ELSE OverComboTerm]

\* The changes that one scan finds are reported together.
Change(k, t) ==
  /\ k \notin keysScanned /\ keysScanned' = keysScanned \cup {k}
  /\ Cardinality(keysScanned') <= MaxMoves
  /\ keysScanned # {} => t = 0

ComboKeyDown(k, t, zero) ==
  /\ Change(k, t)
  /\ k \notin keysDown /\ keysDown' = keysDown \cup {k}
  /\ LET p == SingleCombos(Aged(cb, t), k, TRUE)
     IN cb' = IF p.part THEN HoldBack(p.b, k, zero)
              ELSE [Flush(p.b) EXCEPT !.down = @ \cup {k}]

ComboKeyUp(k, t) ==
  /\ Change(k, t)
  /\ k \in keysDown /\ keysDown' = keysDown \ {k}
  /\ LET p == SingleCombos(Aged(cb, t), k, FALSE)
         flushed == Flush(p.b)
     IN cb' = IF p.part THEN flushed ELSE [flushed EXCEPT !.down = @ \ {k}]

\* QK_COMBO_TOGGLE.
ComboToggle(t) ==
  /\ Change("toggle", t)
  /\ LET b == Aged(cb, t)
     IN cb' = IF b.enabled
              THEN DumpKeyBuffer(ClearCombos([b EXCEPT !.timer = Off, !.enabled = FALSE,
                                                       !.ready = <<>>]))
              ELSE [b EXCEPT !.enabled = TRUE]
  /\ UNCHANGED keysDown

ComboTask(t) ==
  /\ keysScanned' = {}
  /\ LET b == Aged(cb, t)
         over == b.enabled /\ b.timer # Off /\ b.timer > b.longest
     IN cb' = CASE ~over -> b
                [] over /\ b.ready # <<>> ->
                     [ApplyCombos(b) EXCEPT !.longest = 0, !.timer = Off]
                [] over /\ b.ready = <<>> ->
                     ClearCombos([DumpKeyBuffer(b) EXCEPT !.timer = Off])
  /\ UNCHANGED keysDown

ComboNext ==
  \E t \in 0 .. ComboGap :
    \/ \E k \in ComboKey : \/ \E zero \in {FALSE, ZeroReads} : ComboKeyDown(k, t, zero)
                           \/ ComboKeyUp(k, t)
    \/ ComboToggle(t)
    \/ ComboTask(t)

ComboSpec == ComboInit /\ [][ComboNext]_comboVars

-----------------------------------------------------------------------------
(* Properties *)

ComboRecord ==
  [state : [Combo -> SUBSET ComboKey], disabled : [Combo -> BOOLEAN],
   active : [Combo -> BOOLEAN], ready : Seq(Combo), keys : Seq(ComboKey),
   timer : {Off} \cup 0 .. OverComboTerm, longest : {0, ComboTerm}, enabled : BOOLEAN,
   down : SUBSET ComboKey, combos : SUBSET Combo]

\* The buffers do not outgrow their arrays, and what is known of a combo's keys is
\* about its own keys.
ComboTypeOK ==
  /\ cb \in ComboRecord /\ keysDown \subseteq ComboKey
  /\ \A c \in Combo : cb.state[c] \subseteq ComboKeys[c]
  /\ Len(cb.ready) < ComboBufferLength /\ Len(cb.keys) <= KeyBufferLength

\* Whatever was held back or combined, nothing stays registered once every
\* switch is open and no press waits; and a combo is down at the host only
\* while one of its keys is, whatever other combos its keys are part of.
ComboKeysReturn ==
  /\ keysDown = {} /\ cb.keys = <<>> => cb.down = {}
  /\ \A c \in cb.combos : ComboKeys[c] \cap keysDown # {}

\* Combos that share a key do not take effect together: when all the keys of
\* several are down only one is applied.
OneOfOverlapping ==
  [][\A c, d \in cb'.combos \ cb.combos : c # d => ~Overlap(c, d)]_cb

\* "Apply combo's result keycode to the last chord key of the combo and disable
\* the other keys": a press that was held back is lost only to a combo.
NoPressLost ==
  [][\A i \in DOMAIN cb.keys :
       LET k == cb.keys[i]
       IN cb'.keys = <<>> /\ k \in keysDown'
            => k \in cb'.down \/ \E c \in cb'.combos : k \in ComboKeys[c]]_comboVars

\* What is held back is let go in time, by the task if no other event does: the
\* timer runs whenever a press is held back, and never beyond the term.
HeldBackBriefly == cb.keys # <<>> => cb.timer \in 0 .. ComboTerm
=============================================================================
