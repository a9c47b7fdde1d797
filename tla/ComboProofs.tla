----------------------------- MODULE ComboProofs -----------------------------
(***************************************************************************)
(* What is proved of combos, for any keys and combos, term and buffers:    *)
(* every variable keeps its type, what is held back is let go in time,     *)
(* what is registered is released, of combos that overlap one takes        *)
(* effect, and a press is lost only to a combo.                            *)
(*                                                                         *)
(* The invariant is an account of where each key that is down has gone (it *)
(* is held back, down at the host, or part of an active combo), with what  *)
(* each combo knows of its own keys.                                       *)
(***************************************************************************)
EXTENDS Combo, TLAPS, WellFoundedInduction, SequenceTheorems, FiniteSetTheorems

(* What the array lengths leave room for: every combo can be ready at once. *)
RoomForAll == Len(ComboKeys) < ComboBufferLength

-----------------------------------------------------------------------------
(* The constants *)

LEMMA CombosAre ==
  /\ Len(ComboKeys) \in Nat /\ Combo = 1 .. Len(ComboKeys)
  /\ \A c \in Combo : ComboKeys[c] \subseteq ComboKey
BY ComboAssumption DEF Combo

LEMMA ConstantsAre ==
  /\ ComboTerm \in Nat /\ ComboGap \in Nat \ {0}
  /\ KeyBufferLength \in Nat \ {0} /\ ComboBufferLength \in Nat \ {0, 1}
  /\ OverComboTerm \in Nat /\ OverComboTerm > ComboTerm /\ Off = -1 /\ ZeroReads \in BOOLEAN
BY ComboAssumption DEF OverComboTerm, Off

\* A combo has two keys at least.
LEMMA TwoKeys ==
  ASSUME NEW c \in Combo, NEW k
  PROVE  ComboKeys[c] \ {k} # {} /\ ComboKeys[c] # {}
<1>1. IsFiniteSet(ComboKeys[c]) /\ Cardinality(ComboKeys[c]) > 1
  BY ComboAssumption
<1>2. Cardinality(ComboKeys[c]) \in Nat
  BY <1>1, FS_CardinalityType
<1>3. ComboKeys[c] # {}
  <2> SUFFICES ASSUME ComboKeys[c] = {} PROVE FALSE
    OBVIOUS
  <2>1. Cardinality(ComboKeys[c]) = 0
    BY FS_EmptySet
  <2> QED  BY <1>1, <2>1
<1>4. ComboKeys[c] # {k}
  <2> SUFFICES ASSUME ComboKeys[c] = {k} PROVE FALSE
    OBVIOUS
  <2>1. Cardinality(ComboKeys[c]) = 1
    BY FS_Singleton
  <2> QED  BY <1>1, <2>1
<1> QED  BY <1>3, <1>4

-----------------------------------------------------------------------------
(* Sequences without repetition *)

Distinct(s) == \A i, j \in DOMAIN s : s[i] = s[j] => i = j

LEMMA SequenceIs ==
  ASSUME NEW S, NEW s \in Seq(S)
  PROVE  /\ Len(s) \in Nat /\ DOMAIN s = 1 .. Len(s)
         /\ \A i \in 1 .. Len(s) : s[i] \in S
         /\ Range(s) = {s[i] : i \in 1 .. Len(s)} /\ Range(s) \subseteq S
         /\ s = <<>> <=> Len(s) = 0
         /\ s = <<>> <=> Range(s) = {}
<1>1. /\ Len(s) \in Nat /\ DOMAIN s = 1 .. Len(s)
      /\ \A i \in 1 .. Len(s) : s[i] \in S
  BY LenProperties, ElementOfSeq
<1>2. Range(s) = {s[i] : i \in 1 .. Len(s)}
  BY <1>1 DEF Range
<1>3. s = <<>> <=> Len(s) = 0
  BY EmptySeq
<1>4. Len(s) # 0 => s[1] \in Range(s)
  BY <1>1, <1>2
<1>5. Len(s) = 0 => Range(s) = {}
  BY <1>1, <1>2
<1> QED  BY <1>1, <1>2, <1>3, <1>4, <1>5

LEMMA EmptyIs ==
  ASSUME NEW S
  PROVE  /\ <<>> \in Seq(S) /\ Len(<<>>) = 0 /\ Range(<<>>) = {} /\ Distinct(<<>>)
<1>1. <<>> \in Seq(S) /\ Len(<<>>) = 0
  BY EmptySeq
<1>2. DOMAIN <<>> = {}
  BY <1>1, SequenceIs
<1> QED  BY <1>1, <1>2, SequenceIs DEF Distinct

LEMMA AppendIs ==
  ASSUME NEW S, NEW s \in Seq(S), NEW x \in S
  PROVE  /\ Append(s, x) \in Seq(S) /\ Len(Append(s, x)) = Len(s) + 1
         /\ Range(Append(s, x)) = Range(s) \cup {x}
         /\ Distinct(s) /\ x \notin Range(s) => Distinct(Append(s, x))
<1> DEFINE t == Append(s, x)
<1>1. /\ t \in Seq(S) /\ Len(t) = Len(s) + 1
      /\ \A i \in 1 .. Len(s) : t[i] = s[i]
      /\ t[Len(s) + 1] = x
  BY AppendProperties
<1>2. Len(s) \in Nat /\ Range(s) = {s[i] : i \in 1 .. Len(s)} /\ DOMAIN s = 1 .. Len(s)
  BY SequenceIs
<1>3. Range(t) = {t[i] : i \in 1 .. Len(t)} /\ DOMAIN t = 1 .. Len(t)
  BY <1>1, SequenceIs
<1> HIDE DEF t
<1>4. 1 .. Len(t) = 1 .. Len(s) \cup {Len(s) + 1}
  BY <1>1, <1>2
<1>5. Range(t) = Range(s) \cup {x}
  BY <1>1, <1>2, <1>3, <1>4
<1>6. Distinct(s) /\ x \notin Range(s) => Distinct(t)
  <2> SUFFICES ASSUME Distinct(s), x \notin Range(s),
                      NEW i \in 1 .. Len(t), NEW j \in 1 .. Len(t), t[i] = t[j]
               PROVE  i = j
    BY <1>3 DEF Distinct
  <2>1. \A l \in 1 .. Len(s) : s[l] \in Range(s)
    BY <1>2
  <2> QED  BY <1>1, <1>2, <1>4, <2>1 DEF Distinct
<1> QED  BY <1>1, <1>5, <1>6 DEF t

LEMMA SuffixIs ==
  ASSUME NEW S, NEW s \in Seq(S), NEW n \in 0 .. Len(s)
  PROVE  /\ SubSeq(s, n + 1, Len(s)) \in Seq(S)
         /\ Len(SubSeq(s, n + 1, Len(s))) = Len(s) - n
         /\ \A i \in 1 .. Len(s) - n : SubSeq(s, n + 1, Len(s))[i] = s[n + i]
<1>1. Len(s) \in Nat /\ \A i \in 1 .. Len(s) : s[i] \in S
  BY SequenceIs
<1> DEFINE m == n + 1
           l == Len(s)
<1>2. m \in Int /\ l \in Int /\ \A i \in m .. l : s[i] \in S
  BY <1>1
<1> HIDE DEF m, l
<1>3. /\ SubSeq(s, m, l) \in Seq(S)
      /\ Len(SubSeq(s, m, l)) = IF m <= l THEN l - m + 1 ELSE 0
      /\ \A i \in 1 .. l - m + 1 : SubSeq(s, m, l)[i] = s[m + i - 1]
  BY <1>2, SubSeqProperties
<1>4. l - m + 1 = l - n /\ (~(m <= l) => l - n = 0) /\ \A i \in Int : m + i - 1 = n + i
  BY <1>1 DEF m, l
<1>5. \A i \in 1 .. l - n : SubSeq(s, m, l)[i] = s[n + i]
  BY <1>3, <1>4
<1> QED  BY <1>3, <1>4, <1>5 DEF m, l

\* Induction along positions, without a predicate to instantiate: a set of numbers
\* that is not empty has a least one.
LEMMA LeastNumber ==
  ASSUME NEW T, T \subseteq Nat, T # {}
  PROVE  \E x \in T : \A y \in T : x <= y
<1> DEFINE R == OpToRel(<, Nat)
<1>1. IsWellFoundedOn(R, Nat)
  BY NatLessThanWellFounded, Zenon
<1>2. \A x, y \in Nat : <<x, y>> \in R <=> x < y
  BY Zenon DEF OpToRel
<1> HIDE DEF R
<1>3. PICK x \in T : \A y \in T : ~ (<<y, x>> \in R)
  BY <1>1, WFMin, Zenon
<1>4. \A y \in T : ~(y < x)
  BY <1>2, <1>3
<1>5. \A y \in T : x <= y
  BY <1>4
<1> QED  BY <1>5

LEMMA StepByStep ==
  ASSUME NEW n \in Nat, NEW S, 0 \in S, \A i \in 1 .. n : i - 1 \in S => i \in S
  PROVE  n \in S
<1> DEFINE T == {i \in 0 .. n : i \notin S}
<1> SUFFICES ASSUME T # {} PROVE FALSE
  OBVIOUS
<1>1. PICK x \in T : \A y \in T : x <= y
  <2>1. T \subseteq Nat
    OBVIOUS
  <2> QED  BY <2>1, LeastNumber
<1>2. x \in 1 .. n /\ x - 1 \in 0 .. n /\ x \notin S
  OBVIOUS
<1>3. x - 1 \in S
  BY <1>1, <1>2
<1> QED  BY <1>2, <1>3

\* What is left when the combos of gone are dropped.
LEMMA DropIs ==
  ASSUME NEW ready \in Seq(Combo), NEW gone
  PROVE  LET left == DropCombos(ready, gone)
         IN  /\ left \in Seq(Combo) /\ Len(left) <= Len(ready)
             /\ Range(left) \subseteq Range(ready)
             /\ \A c \in Range(ready) : c \notin gone => c \in Range(left)
             /\ Range(ready) \subseteq gone => left = <<>>
             /\ Distinct(ready) => Distinct(left)
<1> DEFINE len == Len(ready)
           P(n) == /\ \A i \in 1 .. n : ready[i] \in gone
                   /\ n < len => ready[n + 1] \notin gone
<1>1. /\ len \in Nat /\ DOMAIN ready = 1 .. len /\ Range(ready) = {ready[i] : i \in 1 .. len}
      /\ \A i \in 1 .. len : ready[i] \in Combo
  BY SequenceIs
<1>2. \E n \in 0 .. len : P(n)
  <2> DEFINE T == {n \in 0 .. len : n < len => ready[n + 1] \notin gone}
  <2>1. T \subseteq Nat /\ len \in T
    BY <1>1
  <2>2. T # {}
    BY <2>1
  <2> HIDE DEF T
  <2>3. PICK n \in T : \A m \in T : n <= m
    BY <2>1, <2>2, LeastNumber
  <2>4. n \in 0 .. len /\ (n < len => ready[n + 1] \notin gone)
    BY DEF T
  <2>5. ASSUME NEW i \in 1 .. n PROVE ready[i] \in gone
    <3>1. i - 1 \in 0 .. len /\ i - 1 < len /\ ~(n <= i - 1) /\ (i - 1) + 1 = i
      BY <1>1, <2>4
    <3>2. i - 1 \notin T
      BY <2>3, <3>1
    <3> QED  BY <3>1, <3>2 DEF T
  <2> QED  BY <2>4, <2>5
<1> DEFINE front == CHOOSE n \in 0 .. len : P(n)
           left  == SubSeq(ready, front + 1, len)
<1>3. front \in 0 .. len /\ P(front)
  <2> HIDE DEF P
  <2> QED  BY <1>2
<1>4. DropCombos(ready, gone) = left
  BY DEF DropCombos
<1> HIDE DEF front
<1>5. /\ left \in Seq(Combo) /\ Len(left) = len - front
      /\ \A i \in 1 .. len - front : left[i] = ready[front + i]
  BY <1>3, SuffixIs
<1> HIDE DEF left
<1>6. DOMAIN left = 1 .. len - front /\ Range(left) = {left[i] : i \in 1 .. len - front}
  BY <1>5, SequenceIs
<1>7. \A i \in 1 .. len - front : front + i \in 1 .. len
  BY <1>1, <1>3
<1>8. Range(left) \subseteq Range(ready)
  BY <1>1, <1>5, <1>6, <1>7
<1>9. ASSUME NEW c \in Range(ready), c \notin gone PROVE c \in Range(left)
  <2>1. PICK i \in 1 .. len : ready[i] = c
    BY <1>1
  <2>2. ~(i <= front)
    BY <1>3, <1>9, <2>1
  <2>3. i - front \in 1 .. len - front /\ front + (i - front) = i
    BY <1>1, <1>3, <2>2
  <2> QED  BY <1>5, <1>6, <2>1, <2>3
<1>10. ASSUME Range(ready) \subseteq gone PROVE left = <<>>
  <2>1. ~(front < len)
    <3> SUFFICES ASSUME front < len PROVE FALSE
      OBVIOUS
    <3>1. front + 1 \in 1 .. len
      BY <1>1, <1>3
    <3> QED  BY <1>1, <1>3, <1>10, <3>1
  <2>2. front = len
    <3>1. front \in 0 .. len
      BY <1>3
    <3> HIDE DEF P, len
    <3> QED  BY <1>1, <2>1, <3>1
  <2>3. Len(left) = 0
    BY <1>1, <1>5, <2>2
  <2> QED  BY <1>5, <2>3, SequenceIs
<1>11. ASSUME Distinct(ready) PROVE Distinct(left)
  <2> SUFFICES ASSUME NEW i \in 1 .. len - front, NEW j \in 1 .. len - front, left[i] = left[j]
               PROVE  i = j
    BY <1>6 DEF Distinct
  <2>1. ready[front + i] = ready[front + j]
    BY <1>5
  <2>2. front + i = front + j
    BY <1>1, <1>7, <1>11, <2>1 DEF Distinct
  <2> QED  BY <1>3, <2>2
<1>12. Len(left) <= len
  BY <1>1, <1>3, <1>5
<1> QED  BY <1>4, <1>5, <1>8, <1>9, <1>10, <1>11, <1>12

LEMMA BufferedIs ==
  ASSUME NEW ready \in Seq(Combo), NEW c \in Combo, Len(ready) < ComboBufferLength
  PROVE  LET now == Buffered(ready, c)
         IN  /\ now \in Seq(Combo) /\ Len(now) < ComboBufferLength
             /\ Distinct(ready) /\ c \notin Range(ready) => Distinct(now)
             /\ Len(ready) + 1 < ComboBufferLength => Range(now) = Range(ready) \cup {c}
<1>1. Len(ready) \in Nat /\ ComboBufferLength \in Nat \ {0, 1}
  BY SequenceIs, ConstantsAre
<1>2. CASE Len(ready) + 1 = ComboBufferLength
  BY <1>1, <1>2, EmptyIs DEF Buffered
<1>3. CASE Len(ready) + 1 < ComboBufferLength
  BY <1>1, <1>3, AppendIs DEF Buffered
<1> QED  BY <1>1, <1>2, <1>3

\* Without repetition, and without c, the ready combos leave room for c.
LEMMA RoomForOne ==
  ASSUME RoomForAll, NEW ready \in Seq(Combo), NEW c \in Combo, Distinct(ready),
         c \notin Range(ready)
  PROVE  Len(ready) + 1 < ComboBufferLength
<1> DEFINE s == Append(ready, c)
<1>1. s \in Seq(Combo) /\ Len(s) = Len(ready) + 1 /\ Distinct(s)
  BY AppendIs
<1> HIDE DEF s
<1>2. /\ Len(s) \in Nat /\ DOMAIN s = 1 .. Len(s) /\ \A i \in 1 .. Len(s) : s[i] \in Combo
      /\ s \in [1 .. Len(s) -> Combo]
  BY <1>1, SequenceIs, LenProperties
<1>3. Combo = 1 .. Len(ComboKeys) /\ Len(ComboKeys) \in Nat
  BY CombosAre
<1>4. /\ IsFiniteSet(Combo) /\ Cardinality(Combo) = Len(ComboKeys)
      /\ IsFiniteSet(1 .. Len(s)) /\ Cardinality(1 .. Len(s)) = Len(s)
  <2>1. \A n \in Nat : IsFiniteSet(1 .. n) /\ Cardinality(1 .. n) = n
    BY FS_Interval
  <2> QED  BY <1>2, <1>3, <2>1
<1>5. ~(Cardinality(Combo) < Cardinality(1 .. Len(s)))
  <2> SUFFICES ASSUME Cardinality(Combo) < Cardinality(1 .. Len(s)) PROVE FALSE
    OBVIOUS
  <2>1. \E x, y \in 1 .. Len(s) : x # y /\ s[x] = s[y]
    BY <1>2, <1>4, FS_PigeonHole
  <2> QED  BY <1>1, <1>2, <2>1 DEF Distinct
<1>6. ComboBufferLength \in Nat
  BY ConstantsAre
<1> QED  BY <1>1, <1>2, <1>3, <1>4, <1>5, <1>6 DEF RoomForAll

-----------------------------------------------------------------------------
(* What combos know of their keys *)

Fit(b) ==
  /\ b \in ComboRecord
  /\ \A c \in Combo : b.state[c] \subseteq ComboKeys[c]
  /\ Len(b.ready) < ComboBufferLength /\ Len(b.keys) <= KeyBufferLength

LEMMA FitParts ==
  ASSUME NEW b, Fit(b)
  PROVE  /\ b \in ComboRecord
         /\ b.state \in [Combo -> SUBSET ComboKey] /\ b.disabled \in [Combo -> BOOLEAN]
         /\ b.active \in [Combo -> BOOLEAN] /\ b.ready \in Seq(Combo) /\ b.keys \in Seq(ComboKey)
         /\ b.timer \in {Off} \cup 0 .. OverComboTerm /\ b.longest \in {0, ComboTerm}
         /\ b.enabled \in BOOLEAN /\ b.down \subseteq ComboKey /\ b.combos \subseteq Combo
         /\ Len(b.ready) < ComboBufferLength /\ Len(b.keys) <= KeyBufferLength
         /\ \A c \in Combo : b.state[c] \subseteq ComboKeys[c]
BY DEF Fit, ComboRecord

\* All keys of c are down, and c has not been dropped.
Full(b, c) == b.state[c] = ComboKeys[c] /\ ~b.disabled[c]

\* Of S, those whose keys are all down are ready, and no two of them overlap.
Chords(b, S) ==
  /\ Distinct(b.ready)
  /\ \A c \in S : Full(b, c) => c \in Range(b.ready)
  /\ \A c, d \in S : c # d /\ Full(b, c) /\ Full(b, d) => ~Overlap(c, d)

\* No two combos of the keymap share a key.
Apart == \A c, d \in Combo : c # d => ~Overlap(c, d)

\* Combos are ready only while all their keys are down, and they are not dropped.
ReadyFull(b) == \A c \in Range(b.ready) : Full(b, c)

LEMMA OverlapIs ==
  ASSUME NEW c \in Combo, NEW d \in Combo
  PROVE  Overlap(c, c) /\ DropSecond(c, c) /\ (Overlap(c, d) <=> Overlap(d, c))
BY TwoKeys DEF Overlap, DropSecond

LEMMA BufferComboIs ==
  ASSUME NEW b, Fit(b), NEW c \in Combo
  PROVE  LET r == BufferCombo(b, c)
         IN  /\ Fit(r) /\ r = [b EXCEPT !.disabled = r.disabled, !.ready = r.ready]
             /\ \A d \in Combo : b.disabled[d] => r.disabled[d]
             /\ Distinct(b.ready) => Distinct(r.ready)
             /\ RoomForAll /\ Chords(b, Combo \ {c}) => Chords(r, Combo)
             /\ RoomForAll /\ Apart /\ Distinct(b.ready) /\ c \notin Range(b.ready)
                  => Range(r.ready) \subseteq Range(b.ready) \cup {c} /\ r.disabled = b.disabled
<1> DEFINE stops == {i \in DOMAIN b.ready : Overlap(b.ready[i], c) /\ DropSecond(b.ready[i], c)}
           met   == {b.ready[i] : i \in {j \in DOMAIN b.ready :
                                           /\ Overlap(b.ready[j], c)
                                           /\ \A s \in stops : j < s}}
           off   == IF stops = {} THEN met ELSE met \cup {c}
           left  == DropCombos(b.ready, met)
           dis   == [d \in Combo |-> b.disabled[d] \/ d \in off]
           rdy   == IF stops = {} THEN Buffered(left, c) ELSE left
           r     == [b EXCEPT !.disabled = dis, !.ready = rdy]
<1>1. BufferCombo(b, c) = r
  BY DEF BufferCombo
<1>2. /\ b \in ComboRecord /\ b.ready \in Seq(Combo) /\ b.disabled \in [Combo -> BOOLEAN]
      /\ Len(b.ready) < ComboBufferLength /\ Len(b.ready) \in Nat /\ ComboBufferLength \in Nat
  BY FitParts, SequenceIs, ConstantsAre
<1>3. /\ DOMAIN b.ready = 1 .. Len(b.ready)
      /\ Range(b.ready) = {b.ready[i] : i \in 1 .. Len(b.ready)}
      /\ \A i \in 1 .. Len(b.ready) : b.ready[i] \in Combo
  BY <1>2, SequenceIs
<1>4. /\ left \in Seq(Combo) /\ Len(left) <= Len(b.ready) /\ Range(left) \subseteq Range(b.ready)
      /\ \A d \in Range(b.ready) : d \notin met => d \in Range(left)
      /\ Distinct(b.ready) => Distinct(left)
  <2> HIDE DEF met
  <2> QED  BY <1>2, DropIs
<1>5. Len(left) < ComboBufferLength
  <2> HIDE DEF left
  <2>1. Len(left) \in Nat
    BY <1>4, SequenceIs
  <2> QED  BY <1>2, <1>4, <2>1
<1>6. stops = {} => c \notin Range(b.ready)
  BY <1>3, OverlapIs
<1>7. \A d \in Range(b.ready) : stops = {} /\ Overlap(d, c) => d \in met
  BY <1>3
<1>18. ASSUME Apart, c \notin Range(b.ready) PROVE stops = {} /\ met = {}
  <2>1. \A i \in DOMAIN b.ready : ~Overlap(b.ready[i], c)
    BY <1>3, <1>18 DEF Apart
  <2> QED  BY <2>1
<1> HIDE DEF stops, met, left
<1>8. /\ Buffered(left, c) \in Seq(Combo) /\ Len(Buffered(left, c)) < ComboBufferLength
      /\ Distinct(left) /\ c \notin Range(left) => Distinct(Buffered(left, c))
      /\ Len(left) + 1 < ComboBufferLength => Range(Buffered(left, c)) = Range(left) \cup {c}
  BY <1>4, <1>5, BufferedIs
<1>9. rdy \in Seq(Combo) /\ Len(rdy) < ComboBufferLength
  BY <1>4, <1>5, <1>8
<1>10. Distinct(b.ready) => Distinct(rdy)
  BY <1>4, <1>6, <1>8
<1>11. dis \in [Combo -> BOOLEAN] /\ \A d \in Combo : dis[d] <=> b.disabled[d] \/ d \in off
  BY <1>2
<1>12. RoomForAll /\ Distinct(b.ready) => Range(rdy) = IF stops = {} THEN Range(left) \cup {c}
                                                     ELSE Range(left)
  BY <1>4, <1>6, <1>8, RoomForOne
<1>19. ASSUME RoomForAll, Apart, Distinct(b.ready), c \notin Range(b.ready)
       PROVE  Range(rdy) \subseteq Range(b.ready) \cup {c} /\ dis = b.disabled
  <2>1. stops = {} /\ off = {}
    BY <1>18, <1>19
  <2>2. Range(rdy) \subseteq Range(b.ready) \cup {c}
    BY <1>4, <1>12, <1>19, <2>1
  <2>3. \A d \in Combo : dis[d] = b.disabled[d]
    BY <1>2, <2>1
  <2>4. dis = b.disabled
    <3>1. dis \in [Combo -> BOOLEAN] /\ b.disabled \in [Combo -> BOOLEAN]
      BY <1>2, <1>11
    <3> HIDE DEF dis
    <3> QED  BY <2>3, <3>1
  <2> QED  BY <2>2, <2>4
<1>13. stops = {} => c \notin Range(left)
  BY <1>4, <1>6
<1> HIDE DEF dis, rdy
<1>14. /\ r \in ComboRecord /\ r.disabled = dis /\ r.ready = rdy /\ r.state = b.state
       /\ r.keys = b.keys
  BY <1>2, <1>9, <1>11 DEF ComboRecord
<1> HIDE DEF r
<1>15. Fit(r)
  BY <1>9, <1>14 DEF Fit
<1>16. ASSUME RoomForAll, Chords(b, Combo \ {c}) PROVE Chords(r, Combo)
  <2>1. \A d \in Combo : Full(r, d) => d \notin off /\ Full(b, d)
    BY <1>11, <1>14 DEF Full
  <2>2. \A d \in Combo : Full(r, d) /\ d # c => d \in Range(b.ready) /\ d \in Range(left)
    BY <1>4, <1>16, <2>1 DEF Chords
  <2>3. Full(r, c) => stops = {}
    BY <2>1
  <2>4. \A d \in Combo : Full(r, d) => d \in Range(rdy)
    BY <1>12, <1>16, <2>2, <2>3 DEF Chords
  <2>5. \A d \in Combo : Full(r, d) /\ d # c /\ Full(r, c) => ~Overlap(d, c) /\ ~Overlap(c, d)
    BY <1>7, <2>1, <2>2, <2>3, OverlapIs
  <2>6. ASSUME NEW d \in Combo, NEW e \in Combo, d # e, Full(r, d), Full(r, e)
        PROVE  ~Overlap(d, e)
    BY <1>16, <2>1, <2>5, <2>6 DEF Chords
  <2> QED  BY <1>10, <1>14, <1>16, <2>4, <2>6 DEF Chords
<1>17. r = [b EXCEPT !.disabled = r.disabled, !.ready = r.ready]
  BY <1>14 DEF r
<1> QED  BY <1>1, <1>10, <1>11, <1>14, <1>15, <1>16, <1>17, <1>19

-----------------------------------------------------------------------------
(* One combo learns of a key press *)

\* The keymap's combos are apart, and those that are ready do not have k.
Sober(a, k) ==
  /\ RoomForAll /\ Apart /\ ReadyFull(a) /\ Distinct(a.ready)
  /\ \A c \in Combo : k \notin a.state[c]

\* What has become of a after the first n combos have learned of the press of k.
Pressed(a, k, n, p) ==
  /\ Fit(p.b) /\ p.part \in BOOLEAN /\ (p.part => a.enabled)
  /\ p.b.keys = a.keys /\ p.b.timer = a.timer /\ p.b.enabled = a.enabled
  /\ p.b.down = a.down /\ p.b.combos = a.combos /\ p.b.active = a.active
  /\ \A c \in Combo : a.disabled[c] => p.b.disabled[c]
  /\ \A c \in Combo : p.b.state[c] # a.state[c] =>
       p.b.state[c] = a.state[c] \cup {k} /\ k \in ComboKeys[c] /\ ~a.disabled[c] /\ p.part
  /\ \A c \in 1 .. n : k \in ComboKeys[c] /\ a.enabled /\ ~p.b.disabled[c]
                         => k \in p.b.state[c] /\ p.part
  /\ Distinct(a.ready) => Distinct(p.b.ready)
  /\ RoomForAll /\ Chords(a, Combo) => Chords(p.b, Combo)
  /\ ~p.part => p.b = a
  /\ p.part => \E c \in Combo : k \in ComboKeys[c]
  /\ \A c \in Combo \ 1 .. n : p.b.state[c] = a.state[c]
  /\ Sober(a, k) => ReadyFull(p.b)

\* Combo c knows that k is down, or it is dropped, or it does not care.
Joined(b, c, k) == [b EXCEPT !.state[c] = @ \cup {k}, !.longest = ComboTerm]

LEMMA JoinedIs ==
  ASSUME NEW b, Fit(b), NEW c \in Combo, NEW k \in ComboKeys[c]
  PROVE  LET j == Joined(b, c, k)
         IN  /\ Fit(j) /\ j.state[c] = b.state[c] \cup {k}
             /\ \A d \in Combo : d # c => j.state[d] = b.state[d]
             /\ j.disabled = b.disabled /\ j.ready = b.ready /\ j.keys = b.keys
             /\ j.timer = b.timer /\ j.enabled = b.enabled /\ j.down = b.down
             /\ j.combos = b.combos /\ j.active = b.active
<1>1. /\ b \in ComboRecord /\ b.state \in [Combo -> SUBSET ComboKey] /\ k \in ComboKey
      /\ b.state[c] \cup {k} \in SUBSET ComboKey
  BY FitParts, CombosAre
<1> DEFINE st == [b.state EXCEPT ![c] = b.state[c] \cup {k}]
           j  == [b EXCEPT !.state = st, !.longest = ComboTerm]
<1>2. Joined(b, c, k) = j
  BY <1>1 DEF Joined, ComboRecord
<1>3. /\ st \in [Combo -> SUBSET ComboKey] /\ st[c] = b.state[c] \cup {k}
      /\ \A d \in Combo : d # c => st[d] = b.state[d]
  BY <1>1
<1> HIDE DEF st
<1>4. /\ j \in ComboRecord /\ j.state = st
      /\ j.disabled = b.disabled /\ j.ready = b.ready /\ j.keys = b.keys
      /\ j.timer = b.timer /\ j.enabled = b.enabled /\ j.down = b.down
      /\ j.combos = b.combos /\ j.active = b.active
  BY <1>1, <1>3 DEF ComboRecord
<1> HIDE DEF j
<1>5. \A d \in Combo : st[d] \subseteq ComboKeys[d]
  BY <1>3 DEF Fit
<1>6. Fit(j)
  BY <1>4, <1>5 DEF Fit
<1> QED  BY <1>2, <1>3, <1>4, <1>6

LEMMA PressedByOne ==
  ASSUME NEW a, NEW k, NEW c \in Combo, NEW p, Pressed(a, k, c - 1, p), k \in ComboKeys[c],
         \A d \in Combo : a.active[d] => a.disabled[d]
  PROVE  Pressed(a, k, c, ComboPress(p, c, k))
<1> DEFINE b == p.b
           j == Joined(b, c, k)
<1>1. /\ c \in Nat \ {0} /\ \A d \in 1 .. c : d = c \/ d \in 1 .. c - 1
      /\ \A d \in 1 .. c : d \in Combo
      /\ \A d \in Combo \ 1 .. c : d # c /\ d \in Combo \ 1 .. c - 1
      /\ c \in Combo \ 1 .. c - 1
  BY CombosAre
<1>2. /\ Fit(b) /\ b.active = a.active /\ b.enabled = a.enabled
      /\ \A d \in Combo : a.disabled[d] => b.disabled[d]
  BY DEF Pressed
<1>3. CASE b.disabled[c] \/ ~b.enabled
  <2>1. ComboPress(p, c, k) = p
    BY <1>3 DEF ComboPress
  <2> QED  BY <1>1, <1>2, <1>3, <2>1 DEF Pressed
<1>4. CASE ~b.disabled[c] /\ b.enabled
  <2>1. ~b.active[c] /\ ~a.disabled[c]
    BY <1>2, <1>4
  <2>2. /\ Fit(j) /\ j.state[c] = b.state[c] \cup {k}
        /\ \A d \in Combo : d # c => j.state[d] = b.state[d]
        /\ j.disabled = b.disabled /\ j.ready = b.ready /\ j.keys = b.keys
        /\ j.timer = b.timer /\ j.enabled = b.enabled /\ j.down = b.down
        /\ j.combos = b.combos /\ j.active = b.active
    BY <1>2, JoinedIs
  <2>3. ComboPress(p, c, k) =
          [b    |-> CASE j.state[c] # ComboKeys[c] -> j
                      [] j.state[c] = ComboKeys[c] /\ TermOver(b) ->
                           [j EXCEPT !.disabled[c] = TRUE]
                      [] j.state[c] = ComboKeys[c] /\ ~TermOver(b) -> BufferCombo(j, c),
           part |-> TRUE]
    BY <1>4, <2>1 DEF ComboPress, Joined
  <2>4. /\ \A d \in Combo : j.state[d] # a.state[d] =>
             j.state[d] = a.state[d] \cup {k} /\ k \in ComboKeys[d] /\ ~a.disabled[d]
        /\ \A d \in 1 .. c : k \in ComboKeys[d] /\ a.enabled /\ ~b.disabled[d] => k \in j.state[d]
    BY <1>1, <2>1, <2>2 DEF Pressed
  <2>5. RoomForAll /\ Chords(a, Combo) => Chords(j, Combo \ {c})
    <3> HIDE DEF j
    <3>1. RoomForAll /\ Chords(a, Combo) => Chords(b, Combo)
      BY DEF Pressed
    <3>2. \A d \in Combo \ {c} : Full(j, d) <=> Full(b, d)
      BY <2>2 DEF Full
    <3> QED  BY <2>2, <3>1, <3>2 DEF Chords
  <2>10. ASSUME Sober(a, k)
         PROVE  /\ RoomForAll /\ Apart /\ Distinct(j.ready) /\ c \notin Range(j.ready)
                /\ ReadyFull(j)
    <3>1. RoomForAll /\ Apart /\ Distinct(b.ready) /\ ReadyFull(b) /\ k \notin b.state[c]
      BY <1>1, <2>10 DEF Pressed, Sober
    <3>2. c \notin Range(b.ready)
      BY <3>1 DEF ReadyFull, Full
    <3>3. \A d \in Range(b.ready) : d \in Combo /\ d # c
      BY <1>2, <3>2, FitParts, SequenceIs
    <3> HIDE DEF j
    <3> QED  BY <2>2, <3>1, <3>2, <3>3 DEF ReadyFull, Full
  <2> HIDE DEF j
  <2>6. ASSUME NEW r, Fit(r), r = [j EXCEPT !.disabled = r.disabled, !.ready = r.ready],
               \A d \in Combo : j.disabled[d] => r.disabled[d],
               Distinct(j.ready) => Distinct(r.ready),
               RoomForAll /\ Chords(j, Combo \ {c}) => Chords(r, Combo),
               Sober(a, k) => ReadyFull(r)
        PROVE  Pressed(a, k, c, [b |-> r, part |-> TRUE])
    <3>1. /\ r.state = j.state /\ r.keys = j.keys /\ r.timer = j.timer /\ r.enabled = j.enabled
          /\ r.down = j.down /\ r.combos = j.combos /\ r.active = j.active
      <4>1. j \in ComboRecord
        BY <2>2, FitParts
      <4> DEFINE x == r.disabled
                 y == r.ready
      <4>2. r = [j EXCEPT !.disabled = x, !.ready = y]
        BY <2>6
      <4> HIDE DEF x, y
      <4> QED  BY <4>1, <4>2 DEF ComboRecord
    <3>2. \A d \in 1 .. c : k \in ComboKeys[d] /\ a.enabled /\ ~r.disabled[d] => k \in r.state[d]
      BY <1>1, <2>2, <2>4, <2>6, <3>1
    <3>3. Distinct(a.ready) => Distinct(r.ready)
      BY <2>2, <2>6 DEF Pressed
    <3>4. RoomForAll /\ Chords(a, Combo) => Chords(r, Combo)
      BY <2>5, <2>6
    <3>5. \A d \in Combo \ 1 .. c : r.state[d] = a.state[d]
      BY <1>1, <2>2, <3>1 DEF Pressed
    <3>6. \E d \in Combo : k \in ComboKeys[d]
      OBVIOUS
    <3> DEFINE q == [b |-> r, part |-> TRUE]
    <3>7. q.b = r /\ q.part = TRUE
      OBVIOUS
    <3> HIDE DEF q
    <3>8. Pressed(a, k, c, q)
      <4>1. /\ Fit(r) /\ a.enabled /\ r.keys = a.keys /\ r.timer = a.timer
            /\ r.enabled = a.enabled /\ r.down = a.down /\ r.combos = a.combos
            /\ r.active = a.active /\ \A d \in Combo : a.disabled[d] => r.disabled[d]
        BY <1>2, <1>4, <2>2, <2>6, <3>1 DEF Pressed
      <4>2. /\ \A d \in Combo : r.state[d] # a.state[d] =>
                  r.state[d] = a.state[d] \cup {k} /\ k \in ComboKeys[d] /\ ~a.disabled[d]
            /\ Sober(a, k) => ReadyFull(r)
        BY <2>4, <2>6, <3>1
      <4> QED  BY <3>2, <3>3, <3>4, <3>5, <3>6, <3>7, <4>1, <4>2 DEF Pressed
    <3> QED  BY <3>8 DEF q
  <2>7. CASE j.state[c] = ComboKeys[c] /\ TermOver(b)
    <3> DEFINE dis == [j.disabled EXCEPT ![c] = TRUE]
               r == [j EXCEPT !.disabled = dis, !.ready = j.ready]
    <3>1. j \in ComboRecord /\ j.disabled \in [Combo -> BOOLEAN]
      BY <2>2, FitParts
    <3>2. /\ dis \in [Combo -> BOOLEAN] /\ dis[c]
          /\ \A d \in Combo : d # c => dis[d] = j.disabled[d]
      BY <3>1
    <3>3. [j EXCEPT !.disabled[c] = TRUE] = r
      BY <3>1 DEF ComboRecord
    <3> HIDE DEF dis
    <3>4. /\ r \in ComboRecord /\ r.disabled = dis /\ r.ready = j.ready /\ r.state = j.state
          /\ r.keys = j.keys
      BY <3>1, <3>2 DEF ComboRecord
    <3>5. r = [j EXCEPT !.disabled = r.disabled, !.ready = r.ready]
      BY <3>4
    <3> HIDE DEF r
    <3>6. Fit(r)
      BY <2>2, <3>4 DEF Fit
    <3>7. \A d \in Combo : j.disabled[d] => r.disabled[d]
      BY <3>2, <3>4
    <3>8. RoomForAll /\ Chords(j, Combo \ {c}) => Chords(r, Combo)
      <4>1. \A d \in Combo : Full(r, d) => d \in Combo \ {c} /\ Full(j, d)
        BY <3>2, <3>4 DEF Full
      <4> QED  BY <3>4, <4>1 DEF Chords
    <3>10. Sober(a, k) => ReadyFull(r)
      <4>1. ReadyFull(j) /\ c \notin Range(j.ready) => ReadyFull(r)
        <5>1. \A d \in Range(j.ready) : d \in Combo
          BY <3>1, <2>2, FitParts, SequenceIs
        <5> QED  BY <3>2, <3>4, <5>1 DEF ReadyFull, Full
      <4> QED  BY <2>10, <4>1
    <3>9. Pressed(a, k, c, [b |-> r, part |-> TRUE])
      BY <2>6, <3>4, <3>5, <3>6, <3>7, <3>8, <3>10
    <3> QED  BY <2>3, <2>7, <3>3, <3>9
  <2>8. CASE j.state[c] = ComboKeys[c] /\ ~TermOver(b)
    <3> DEFINE r == BufferCombo(j, c)
    <3>1. /\ Fit(r) /\ r = [j EXCEPT !.disabled = r.disabled, !.ready = r.ready]
          /\ \A d \in Combo : j.disabled[d] => r.disabled[d]
          /\ Distinct(j.ready) => Distinct(r.ready)
          /\ RoomForAll /\ Chords(j, Combo \ {c}) => Chords(r, Combo)
          /\ RoomForAll /\ Apart /\ Distinct(j.ready) /\ c \notin Range(j.ready)
               => Range(r.ready) \subseteq Range(j.ready) \cup {c} /\ r.disabled = j.disabled
      BY <2>2, BufferComboIs
    <3> HIDE DEF r
    <3>3. ASSUME Sober(a, k) PROVE ReadyFull(r)
      <4>1. /\ Range(r.ready) \subseteq Range(j.ready) \cup {c} /\ r.disabled = j.disabled
            /\ ReadyFull(j)
        BY <2>10, <3>1, <3>3
      <4>2. r.state = j.state
        <5>1. j \in ComboRecord
          BY <2>2, FitParts
        <5> DEFINE x == r.disabled
                   y == r.ready
        <5>2. r = [j EXCEPT !.disabled = x, !.ready = y]
          BY <3>1
        <5> HIDE DEF x, y
        <5> QED  BY <5>1, <5>2 DEF ComboRecord
      <4>3. Full(r, c)
        BY <1>4, <2>2, <2>8, <4>1, <4>2 DEF Full
      <4> QED  BY <4>1, <4>2, <4>3 DEF ReadyFull, Full
    <3>2. Pressed(a, k, c, [b |-> r, part |-> TRUE])
      BY <2>6, <3>1, <3>3
    <3> QED  BY <2>3, <2>8, <3>2 DEF r
  <2>9. CASE j.state[c] # ComboKeys[c]
    <3>1. j = [j EXCEPT !.disabled = j.disabled, !.ready = j.ready]
      <4>1. j \in ComboRecord
        BY <2>2, FitParts
      <4> QED  BY <4>1 DEF ComboRecord
    <3>2. Chords(j, Combo \ {c}) => Chords(j, Combo)
      <4>1. ~Full(j, c)
        BY <2>9 DEF Full
      <4> QED  BY <4>1 DEF Chords
    <3>3. Pressed(a, k, c, [b |-> j, part |-> TRUE])
      BY <2>2, <2>6, <2>10, <3>1, <3>2
    <3> QED  BY <2>3, <2>9, <3>3
  <2> QED  BY <2>7, <2>8, <2>9
<1>5. b.enabled \in BOOLEAN /\ b.disabled[c] \in BOOLEAN
  BY <1>2, FitParts
<1> QED  BY <1>3, <1>4, <1>5

-----------------------------------------------------------------------------
(* One combo learns of a key release *)

\* What has become of a after the first n combos have learned of the release of k.
Released(a, k, n, p) ==
  /\ Fit(p.b) /\ p.part \in BOOLEAN
  /\ p.b.keys = a.keys /\ p.b.timer = a.timer /\ p.b.enabled = a.enabled
  /\ p.b.down = a.down /\ p.b.disabled = a.disabled
  /\ p.b.combos \subseteq a.combos /\ \A c \in p.b.combos : a.active[c] => p.b.active[c]
  /\ \A c \in Combo : p.b.active[c] => a.active[c]
  /\ \A c \in 1 .. n : p.b.state[c] = a.state[c] \ {k} /\ (p.b.active[c] => a.state[c] # {k})
  /\ \A c \in Combo \ 1 .. n : p.b.state[c] = a.state[c] /\ p.b.active[c] = a.active[c]
  /\ Distinct(a.ready) => Distinct(p.b.ready)
  /\ Range(p.b.ready) \subseteq Range(a.ready)
  /\ \A c \in Range(a.ready) : ~a.disabled[c] => c \in Range(p.b.ready)
  /\ p.part => \E c \in Combo : k \in a.state[c] /\ (a.active[c] \/ Full(a, c))

KeyUp(b, c, k) == [b EXCEPT !.state[c] = @ \ {k}]

LEMMA KeyUpIs ==
  ASSUME NEW b, Fit(b), NEW c \in Combo, NEW k
  PROVE  LET u == KeyUp(b, c, k)
         IN  /\ Fit(u) /\ u.state[c] = b.state[c] \ {k}
             /\ \A d \in Combo : d # c => u.state[d] = b.state[d]
             /\ u.disabled = b.disabled /\ u.ready = b.ready /\ u.keys = b.keys
             /\ u.timer = b.timer /\ u.enabled = b.enabled /\ u.down = b.down
             /\ u.combos = b.combos /\ u.active = b.active
<1>1. b \in ComboRecord /\ b.state \in [Combo -> SUBSET ComboKey]
  BY FitParts
<1> DEFINE st == [b.state EXCEPT ![c] = b.state[c] \ {k}]
           u  == [b EXCEPT !.state = st]
<1>2. KeyUp(b, c, k) = u
  BY <1>1 DEF KeyUp, ComboRecord
<1>3. /\ st \in [Combo -> SUBSET ComboKey] /\ st[c] = b.state[c] \ {k}
      /\ \A d \in Combo : d # c => st[d] = b.state[d]
  BY <1>1
<1> HIDE DEF st
<1>4. /\ u \in ComboRecord /\ u.state = st
      /\ u.disabled = b.disabled /\ u.ready = b.ready /\ u.keys = b.keys
      /\ u.timer = b.timer /\ u.enabled = b.enabled /\ u.down = b.down
      /\ u.combos = b.combos /\ u.active = b.active
  BY <1>1, <1>3 DEF ComboRecord
<1> HIDE DEF u
<1>5. Fit(u)
  BY <1>3, <1>4 DEF Fit
<1> QED  BY <1>2, <1>3, <1>4, <1>5

LEMMA ReleasedByOne ==
  ASSUME NEW a, NEW k, NEW c \in Combo, NEW p, Released(a, k, c - 1, p), k \in ComboKeys[c]
  PROVE  Released(a, k, c, ComboRelease(p, c, k))
<1> DEFINE b == p.b
<1>1. /\ \A d \in 1 .. c : d = c \/ d \in 1 .. c - 1
      /\ \A d \in Combo \ 1 .. c : d # c /\ d \in Combo \ 1 .. c - 1
      /\ \A d \in 1 .. c : d \in Combo
      /\ \A d \in 1 .. c - 1 : d # c
      /\ c \in Combo \ 1 .. c - 1
  BY CombosAre
<1>2. /\ Fit(b) /\ b.state[c] = a.state[c] /\ b.active[c] = a.active[c]
      /\ b.disabled = a.disabled
  BY <1>1 DEF Released
<1>3. ASSUME NEW x, Fit(x), NEW part \in BOOLEAN,
             x.keys = b.keys, x.timer = b.timer, x.enabled = b.enabled, x.down = b.down,
             x.disabled = b.disabled, x.state = b.state, x.combos \subseteq b.combos,
             \A d \in Combo : d # c => x.active[d] = b.active[d],
             x.active[c] => b.active[c] /\ b.state[c] # {k},
             c \in x.combos => (b.active[c] => x.active[c]),
             Distinct(b.ready) => Distinct(x.ready), Range(x.ready) \subseteq Range(b.ready),
             \A d \in Range(b.ready) : ~b.disabled[d] => d \in Range(x.ready),
             part => p.part \/ (k \in b.state[c] /\ (b.active[c] \/ Full(b, c)))
      PROVE  Released(a, k, c, [b |-> KeyUp(x, c, k), part |-> part])
  <2> DEFINE u == KeyUp(x, c, k)
             q == [b |-> u, part |-> part]
  <2>1. /\ Fit(u) /\ u.state[c] = x.state[c] \ {k}
        /\ \A d \in Combo : d # c => u.state[d] = x.state[d]
        /\ u.disabled = x.disabled /\ u.ready = x.ready /\ u.keys = x.keys
        /\ u.timer = x.timer /\ u.enabled = x.enabled /\ u.down = x.down
        /\ u.combos = x.combos /\ u.active = x.active
    BY <1>3, KeyUpIs
  <2> HIDE DEF u
  <2>2. /\ u.keys = a.keys /\ u.timer = a.timer /\ u.enabled = a.enabled
        /\ u.down = a.down /\ u.disabled = a.disabled
    BY <1>3, <2>1 DEF Released
  <2>3. /\ u.combos \subseteq a.combos /\ \A d \in u.combos : a.active[d] => u.active[d]
        /\ \A d \in Combo : u.active[d] => a.active[d]
    <3>1. \A d \in u.combos : d \in Combo
      BY <2>1, FitParts
    <3> QED  BY <1>2, <1>3, <2>1, <3>1 DEF Released
  <2>4. /\ \A d \in 1 .. c : u.state[d] = a.state[d] \ {k} /\ (u.active[d] => a.state[d] # {k})
        /\ \A d \in Combo \ 1 .. c : u.state[d] = a.state[d] /\ u.active[d] = a.active[d]
    BY <1>1, <1>2, <1>3, <2>1 DEF Released
  <2>5. /\ Distinct(a.ready) => Distinct(u.ready)
        /\ Range(u.ready) \subseteq Range(a.ready)
        /\ \A d \in Range(a.ready) : ~a.disabled[d] => d \in Range(u.ready)
    BY <1>2, <1>3, <2>1 DEF Released
  <2>6. part => \E d \in Combo : k \in a.state[d] /\ (a.active[d] \/ Full(a, d))
    BY <1>2, <1>3 DEF Released, Full
  <2>7. q.b = u /\ q.part = part
    OBVIOUS
  <2> HIDE DEF q
  <2>8. Released(a, k, c, q)
    BY <2>1, <2>2, <2>3, <2>4, <2>5, <2>6, <2>7 DEF Released
  <2> QED  BY <2>8 DEF u, q
<1>4. /\ b \in ComboRecord /\ b.active \in [Combo -> BOOLEAN] /\ b.ready \in Seq(Combo)
      /\ b.combos \subseteq Combo /\ b.enabled \in BOOLEAN /\ p.part \in BOOLEAN
      /\ Len(b.ready) < ComboBufferLength
  BY <1>2, FitParts DEF Released
<1>5. CASE ~b.active[c] /\ b.state[c] = ComboKeys[c] /\ b.disabled[c]
  <2> DEFINE left == DropCombos(b.ready, {c})
             x == [b EXCEPT !.ready = left]
  <2>1. ComboRelease(p, c, k) = [b |-> KeyUp(x, c, k), part |-> p.part]
    BY <1>4, <1>5 DEF ComboRelease, KeyUp, LastKey
  <2>2. /\ left \in Seq(Combo) /\ Len(left) <= Len(b.ready) /\ Range(left) \subseteq Range(b.ready)
        /\ \A d \in Range(b.ready) : d \notin {c} => d \in Range(left)
        /\ Distinct(b.ready) => Distinct(left)
    BY <1>4, DropIs
  <2>3. Len(left) < ComboBufferLength
    <3>1. Len(left) \in Nat /\ Len(b.ready) \in Nat /\ ComboBufferLength \in Nat
      BY <1>4, <2>2, SequenceIs, ConstantsAre
    <3> QED  BY <1>4, <2>2, <3>1
  <2> HIDE DEF left
  <2>4. /\ x \in ComboRecord /\ x.ready = left
        /\ x.keys = b.keys /\ x.timer = b.timer /\ x.enabled = b.enabled /\ x.down = b.down
        /\ x.disabled = b.disabled /\ x.state = b.state /\ x.combos = b.combos
        /\ x.active = b.active
    BY <1>4, <2>2 DEF ComboRecord
  <2> HIDE DEF x
  <2>5. Fit(x)
    BY <1>2, <2>3, <2>4 DEF Fit
  <2>6. Released(a, k, c, [b |-> KeyUp(x, c, k), part |-> p.part])
    BY <1>3, <1>4, <1>5, <2>2, <2>4, <2>5
  <2> QED  BY <2>1, <2>6
<1>6. ASSUME NEW part \in BOOLEAN, b.active[c] => b.state[c] # {k},
             part => p.part \/ (k \in b.state[c] /\ (b.active[c] \/ Full(b, c)))
      PROVE  Released(a, k, c, [b |-> KeyUp(b, c, k), part |-> part])
  BY <1>2, <1>3, <1>6
<1>7. CASE ~b.active[c] /\ b.state[c] = ComboKeys[c] /\ ~b.disabled[c]
  <2> DEFINE part == p.part \/ b.enabled
  <2>1. ComboRelease(p, c, k) = [b |-> KeyUp(b, c, k), part |-> part]
    BY <1>7 DEF ComboRelease, KeyUp, LastKey
  <2>2. part \in BOOLEAN
    OBVIOUS
  <2> HIDE DEF part
  <2>3. Released(a, k, c, [b |-> KeyUp(b, c, k), part |-> part])
    BY <1>6, <1>7, <2>2 DEF Full
  <2> QED  BY <2>1, <2>3
<1>8. CASE LastKey(b, c, k)
  <2> DEFINE act == [b.active EXCEPT ![c] = FALSE]
             x == [b EXCEPT !.combos = b.combos \ {c}, !.active = act]
  <2>1. ComboRelease(p, c, k) = [b |-> KeyUp(x, c, k), part |-> TRUE]
    BY <1>4, <1>8 DEF ComboRelease, KeyUp, LastKey, ReleaseCombo
  <2>2. /\ act \in [Combo -> BOOLEAN] /\ ~act[c]
        /\ \A d \in Combo : d # c => act[d] = b.active[d]
    BY <1>4
  <2> HIDE DEF act
  <2>3. /\ x \in ComboRecord /\ x.ready = b.ready
        /\ x.keys = b.keys /\ x.timer = b.timer /\ x.enabled = b.enabled /\ x.down = b.down
        /\ x.disabled = b.disabled /\ x.state = b.state /\ x.combos = b.combos \ {c}
        /\ x.active = act
    BY <1>4, <2>2 DEF ComboRecord
  <2> HIDE DEF x
  <2>4. Fit(x)
    BY <1>2, <2>3 DEF Fit
  <2>5. b.active[c] /\ k \in b.state[c]
    BY <1>8 DEF LastKey
  <2>6. Released(a, k, c, [b |-> KeyUp(x, c, k), part |-> TRUE])
    BY <1>3, <2>2, <2>3, <2>4, <2>5
  <2> QED  BY <2>1, <2>6
<1>9. CASE b.active[c] /\ k \in b.state[c] /\ ~LastKey(b, c, k)
  <2>1. ComboRelease(p, c, k) = [b |-> KeyUp(b, c, k), part |-> TRUE]
    BY <1>9 DEF ComboRelease, KeyUp
  <2> QED  BY <1>6, <1>9, <2>1 DEF LastKey
<1>10. CASE /\ ~(~b.active[c] /\ b.state[c] = ComboKeys[c]) /\ ~LastKey(b, c, k)
            /\ ~(b.active[c] /\ k \in b.state[c])
  <2>1. ComboRelease(p, c, k) = [b |-> KeyUp(b, c, k), part |-> p.part]
    BY <1>10 DEF ComboRelease, KeyUp
  <2> QED  BY <1>4, <1>6, <1>10, <2>1 DEF LastKey
<1> QED  BY <1>5, <1>7, <1>8, <1>9, <1>10

-----------------------------------------------------------------------------
(* All combos learn of a key event, one after the other *)

\* The equation upTo solves in SingleCombos.
Learn(b, k, press, f, c) ==
  IF c = 0 THEN [b |-> b, part |-> FALSE]
  ELSE IF k \notin ComboKeys[c] THEN f[c - 1]
  ELSE IF press THEN ComboPress(f[c - 1], c, k) ELSE ComboRelease(f[c - 1], c, k)

LEMMA LearnLooksBack ==
  ASSUME NEW b, NEW k, NEW press, NEW f, NEW g, NEW c, c # 0 => f[c - 1] = g[c - 1]
  PROVE  Learn(b, k, press, f, c) = Learn(b, k, press, g, c)
<1>1. CASE c = 0
  BY <1>1 DEF Learn
<1>2. CASE c # 0
  BY <1>2 DEF Learn
<1> QED  BY <1>1, <1>2

LEMMA LearningExists ==
  ASSUME NEW b, NEW k, NEW press, NEW n \in Nat
  PROVE  \E f : f = [c \in 0 .. n |-> Learn(b, k, press, f, c)]
<1> DEFINE S == {m \in Nat : \E f : f = [c \in 0 .. m |-> Learn(b, k, press, f, c)]}
<1>1. 0 \in S
  <2> DEFINE f == [c \in 0 .. 0 |-> [b |-> b, part |-> FALSE]]
  <2>1. f = [c \in 0 .. 0 |-> Learn(b, k, press, f, c)]
    BY DEF Learn
  <2> QED  BY <2>1
<1>2. ASSUME NEW m \in 1 .. n, m - 1 \in S PROVE m \in S
  <2>1. PICK f : f = [c \in 0 .. m - 1 |-> Learn(b, k, press, f, c)]
    BY <1>2
  <2> DEFINE g == [c \in 0 .. m |-> IF c = m THEN Learn(b, k, press, f, c) ELSE f[c]]
  <2>2. \A c \in 0 .. m - 1 : g[c] = f[c]
    OBVIOUS
  <2>3. \A c \in 0 .. m - 1 : f[c] = Learn(b, k, press, f, c)
    BY <2>1, Zenon
  <2>4. g[m] = Learn(b, k, press, f, m)
    OBVIOUS
  <2>5. DOMAIN g = 0 .. m /\ g = [c \in 0 .. m |-> g[c]]
    OBVIOUS
  <2> HIDE DEF g
  <2>6. ASSUME NEW c \in 0 .. m PROVE g[c] = Learn(b, k, press, g, c)
    <3>1. c # 0 => c - 1 \in 0 .. m - 1
      OBVIOUS
    <3>2. c # 0 => f[c - 1] = g[c - 1]
      BY <2>2, <3>1
    <3>3. Learn(b, k, press, f, c) = Learn(b, k, press, g, c)
      BY <3>2, LearnLooksBack
    <3>4. CASE c = m
      BY <2>4, <3>3, <3>4
    <3>5. CASE c # m
      <4>1. c \in 0 .. m - 1
        BY <3>5
      <4> QED  BY <2>2, <2>3, <3>3, <4>1
    <3> QED  BY <3>4, <3>5
  <2>7. g = [c \in 0 .. m |-> Learn(b, k, press, g, c)]
    <3> DEFINE h == [c \in 0 .. m |-> Learn(b, k, press, g, c)]
    <3>1. \A c \in 0 .. m : g[c] = h[c]
      BY <2>6
    <3> HIDE DEF h
    <3>2. h = [c \in 0 .. m |-> h[c]]
      BY DEF h
    <3> QED  BY <2>5, <3>1, <3>2 DEF h
  <2> QED  BY <2>7
<1> HIDE DEF S
<1>3. n \in S
  BY <1>1, <1>2, StepByStep
<1> QED  BY <1>3 DEF S

LEMMA SingleCombosLearn ==
  ASSUME NEW b, NEW k, NEW press
  PROVE  \E f : /\ SingleCombos(b, k, press) = f[Len(ComboKeys)]
                /\ f[0] = [b |-> b, part |-> FALSE]
                /\ \A c \in Combo :
                     f[c] = IF k \notin ComboKeys[c] THEN f[c - 1]
                            ELSE IF press THEN ComboPress(f[c - 1], c, k)
                            ELSE ComboRelease(f[c - 1], c, k)
<1>1. Len(ComboKeys) \in Nat /\ Combo = 1 .. Len(ComboKeys)
  BY CombosAre
<1> DEFINE f == CHOOSE f : f = [c \in 0 .. Len(ComboKeys) |-> Learn(b, k, press, f, c)]
<1>2. f = [c \in 0 .. Len(ComboKeys) |-> Learn(b, k, press, f, c)]
  BY <1>1, LearningExists
<1>3. SingleCombos(b, k, press) = f[Len(ComboKeys)]
  BY DEF SingleCombos, Learn
<1> HIDE DEF f
<1>4. \A c \in 0 .. Len(ComboKeys) : f[c] = Learn(b, k, press, f, c)
  BY <1>2, Zenon
<1>5. f[0] = [b |-> b, part |-> FALSE]
  <2>1. f[0] = Learn(b, k, press, f, 0)
    BY <1>1, <1>4
  <2>2. Learn(b, k, press, f, 0) = [b |-> b, part |-> FALSE]
    BY DEF Learn
  <2> QED  BY <2>1, <2>2
<1>6. ASSUME NEW c \in Combo
      PROVE  f[c] = IF k \notin ComboKeys[c] THEN f[c - 1]
                    ELSE IF press THEN ComboPress(f[c - 1], c, k)
                    ELSE ComboRelease(f[c - 1], c, k)
  <2>1. c # 0 /\ c \in 0 .. Len(ComboKeys)
    BY <1>1
  <2>2. f[c] = Learn(b, k, press, f, c)
    BY <1>4, <2>1
  <2> QED  BY <2>1, <2>2 DEF Learn
<1> QED  BY <1>3, <1>5, <1>6

\* What dropped combos have in common: an active combo is dropped.
Calm(b) == \A c \in Combo : b.active[c] => b.disabled[c]

LEMMA SingleCombosPress ==
  ASSUME NEW a, Fit(a), Calm(a), NEW k
  PROVE  Pressed(a, k, Len(ComboKeys), SingleCombos(a, k, TRUE))
<1>1. Len(ComboKeys) \in Nat /\ Combo = 1 .. Len(ComboKeys)
  BY CombosAre
<1>2. PICK f : /\ SingleCombos(a, k, TRUE) = f[Len(ComboKeys)]
               /\ f[0] = [b |-> a, part |-> FALSE]
               /\ \A c \in Combo : f[c] = IF k \notin ComboKeys[c] THEN f[c - 1]
                                          ELSE ComboPress(f[c - 1], c, k)
  <2> DEFINE press == TRUE
  <2>1. press
    OBVIOUS
  <2> HIDE DEF press
  <2>2. PICK f : /\ SingleCombos(a, k, press) = f[Len(ComboKeys)]
                 /\ f[0] = [b |-> a, part |-> FALSE]
                 /\ \A c \in Combo :
                      f[c] = IF k \notin ComboKeys[c] THEN f[c - 1]
                             ELSE IF press THEN ComboPress(f[c - 1], c, k)
                             ELSE ComboRelease(f[c - 1], c, k)
    BY SingleCombosLearn
  <2>3. SingleCombos(a, k, TRUE) = f[Len(ComboKeys)]
    BY <2>2 DEF press
  <2> QED  BY <2>1, <2>2, <2>3
<1> DEFINE S == {c \in 0 .. Len(ComboKeys) : Pressed(a, k, c, f[c])}
<1>3. 0 \in S
  <2>1. f[0].b = a /\ f[0].part = FALSE
    BY <1>2
  <2>2. 1 .. 0 = {}
    OBVIOUS
  <2> DEFINE p == f[0]
  <2>3. p.b = a /\ p.part = FALSE
    BY <2>1
  <2> HIDE DEF p
  <2>4. Pressed(a, k, 0, p)
    BY <2>2, <2>3 DEF Pressed, Sober
  <2>5. Pressed(a, k, 0, f[0])
    BY <2>4 DEF p
  <2> QED  BY <1>1, <2>5
<1>4. ASSUME NEW c \in 1 .. Len(ComboKeys), c - 1 \in S PROVE c \in S
  <2>1. c \in Combo /\ Pressed(a, k, c - 1, f[c - 1])
    BY <1>1, <1>4
  <2>2. CASE k \notin ComboKeys[c]
    <3>1. \A d \in 1 .. c : d = c \/ d \in 1 .. c - 1
      BY <1>1
    <3>2. f[c] = f[c - 1]
      BY <1>2, <2>1, <2>2
    <3>3. Pressed(a, k, c, f[c])
      BY <2>1, <2>2, <3>1, <3>2 DEF Pressed
    <3> QED  BY <1>1, <3>3
  <2>3. CASE k \in ComboKeys[c]
    <3>1. f[c] = ComboPress(f[c - 1], c, k)
      BY <1>2, <2>1, <2>3
    <3>2. Pressed(a, k, c, f[c])
      BY <2>1, <2>3, <3>1, PressedByOne DEF Calm
    <3> QED  BY <1>1, <3>2
  <2> QED  BY <2>2, <2>3
<1> HIDE DEF S
<1>5. Len(ComboKeys) \in S
  BY <1>1, <1>3, <1>4, StepByStep
<1> QED  BY <1>2, <1>5 DEF S

LEMMA SingleCombosRelease ==
  ASSUME NEW a, Fit(a), NEW k
  PROVE  Released(a, k, Len(ComboKeys), SingleCombos(a, k, FALSE))
<1>1. Len(ComboKeys) \in Nat /\ Combo = 1 .. Len(ComboKeys)
  BY CombosAre
<1>2. PICK f : /\ SingleCombos(a, k, FALSE) = f[Len(ComboKeys)]
               /\ f[0] = [b |-> a, part |-> FALSE]
               /\ \A c \in Combo : f[c] = IF k \notin ComboKeys[c] THEN f[c - 1]
                                          ELSE ComboRelease(f[c - 1], c, k)
  <2> DEFINE press == FALSE
  <2>1. ~press
    OBVIOUS
  <2> HIDE DEF press
  <2>2. PICK f : /\ SingleCombos(a, k, press) = f[Len(ComboKeys)]
                 /\ f[0] = [b |-> a, part |-> FALSE]
                 /\ \A c \in Combo :
                      f[c] = IF k \notin ComboKeys[c] THEN f[c - 1]
                             ELSE IF press THEN ComboPress(f[c - 1], c, k)
                             ELSE ComboRelease(f[c - 1], c, k)
    BY SingleCombosLearn
  <2>3. SingleCombos(a, k, FALSE) = f[Len(ComboKeys)]
    BY <2>2 DEF press
  <2> QED  BY <2>1, <2>2, <2>3
<1> DEFINE S == {c \in 0 .. Len(ComboKeys) : Released(a, k, c, f[c])}
<1>3. 0 \in S
  <2>1. f[0].b = a /\ f[0].part = FALSE
    BY <1>2
  <2>2. 1 .. 0 = {}
    OBVIOUS
  <2> DEFINE p == f[0]
  <2>3. p.b = a /\ p.part = FALSE
    BY <2>1
  <2> HIDE DEF p
  <2>4. Released(a, k, 0, p)
    BY <2>2, <2>3 DEF Released
  <2>5. Released(a, k, 0, f[0])
    BY <2>4 DEF p
  <2> QED  BY <1>1, <2>5
<1>4. ASSUME NEW c \in 1 .. Len(ComboKeys), c - 1 \in S PROVE c \in S
  <2>1. c \in Combo /\ Released(a, k, c - 1, f[c - 1])
    BY <1>1, <1>4
  <2>2. CASE k \notin ComboKeys[c]
    <3>1. /\ \A d \in 1 .. c : d = c \/ d \in 1 .. c - 1
          /\ \A d \in Combo \ 1 .. c : d \in Combo \ 1 .. c - 1
          /\ c \in Combo \ 1 .. c - 1
      BY <1>1
    <3>2. f[c] = f[c - 1]
      BY <1>2, <2>1, <2>2
    <3>3. k \notin a.state[c] /\ a.state[c] = a.state[c] \ {k} /\ a.state[c] # {k}
      BY <2>1, <2>2 DEF Fit
    <3>4. f[c].b.state[c] = a.state[c]
      BY <2>1, <3>1, <3>2 DEF Released
    <3>5. \A d \in 1 .. c : /\ f[c].b.state[d] = a.state[d] \ {k}
                            /\ f[c].b.active[d] => a.state[d] # {k}
      BY <2>1, <3>1, <3>2, <3>3, <3>4 DEF Released
    <3>6. Released(a, k, c, f[c])
      BY <2>1, <3>1, <3>2, <3>5 DEF Released
    <3> QED  BY <1>1, <3>6
  <2>3. CASE k \in ComboKeys[c]
    <3>1. f[c] = ComboRelease(f[c - 1], c, k)
      BY <1>2, <2>1, <2>3
    <3>2. Released(a, k, c, f[c])
      BY <2>1, <2>3, <3>1, ReleasedByOne
    <3> QED  BY <1>1, <3>2
  <2> QED  BY <2>2, <2>3
<1> HIDE DEF S
<1>5. Len(ComboKeys) \in S
  BY <1>1, <1>3, <1>4, StepByStep
<1> QED  BY <1>2, <1>5 DEF S

-----------------------------------------------------------------------------
(* The key buffer is emptied *)

LEMMA ClearCombosIs ==
  ASSUME NEW b, Fit(b)
  PROVE  LET r == ClearCombos(b)
         IN  /\ Fit(r) /\ r.longest = 0
             /\ \A c \in Combo : r.state[c] = IF b.active[c] THEN b.state[c] ELSE {}
             /\ \A c \in Combo : r.disabled[c] <=> b.active[c] /\ b.disabled[c]
             /\ r.active = b.active /\ r.ready = b.ready /\ r.keys = b.keys
             /\ r.timer = b.timer /\ r.enabled = b.enabled /\ r.down = b.down
             /\ r.combos = b.combos
<1> DEFINE st == [c \in Combo |-> IF b.active[c] THEN b.state[c] ELSE {}]
           dis == [c \in Combo |-> b.active[c] /\ b.disabled[c]]
           r == [b EXCEPT !.longest = 0, !.state = st, !.disabled = dis]
<1>1. b \in ComboRecord /\ b.state \in [Combo -> SUBSET ComboKey]
  BY FitParts
<1>2. ClearCombos(b) = r
  BY DEF ClearCombos
<1>3. /\ st \in [Combo -> SUBSET ComboKey] /\ dis \in [Combo -> BOOLEAN]
      /\ \A c \in Combo : st[c] = IF b.active[c] THEN b.state[c] ELSE {}
      /\ \A c \in Combo : dis[c] <=> b.active[c] /\ b.disabled[c]
  BY <1>1
<1> HIDE DEF st, dis
<1>4. /\ r \in ComboRecord /\ r.state = st /\ r.disabled = dis /\ r.longest = 0
      /\ r.active = b.active /\ r.ready = b.ready /\ r.keys = b.keys
      /\ r.timer = b.timer /\ r.enabled = b.enabled /\ r.down = b.down /\ r.combos = b.combos
  <2>1. 0 \in {0, ComboTerm}
    OBVIOUS
  <2> QED  BY <1>1, <1>3, <2>1 DEF ComboRecord
<1> HIDE DEF r
<1>5. \A c \in Combo : r.state[c] \subseteq ComboKeys[c]
  BY <1>3, <1>4 DEF Fit
<1>6. Fit(r)
  BY <1>4, <1>5 DEF Fit
<1> QED  BY <1>2, <1>3, <1>4, <1>6

LetGone(b, plain, combos, r) ==
  /\ Fit(r) /\ r.keys = <<>> /\ r.down = b.down \cup plain
  /\ r.combos = b.combos \cup combos
  /\ r.state = b.state /\ r.disabled = b.disabled /\ r.active = b.active
  /\ r.ready = b.ready /\ r.timer = b.timer /\ r.enabled = b.enabled
  /\ r.longest = b.longest

LEMMA LetGoIs ==
  ASSUME NEW b, Fit(b), NEW plain \in SUBSET ComboKey, NEW combos \in SUBSET Combo
  PROVE  LetGone(b, plain, combos, LetGo(b, plain, combos))
<1> DEFINE down == b.down \cup plain
           cs == b.combos \cup combos
           r == [b EXCEPT !.down = down, !.combos = cs, !.keys = <<>>]
<1>1. b \in ComboRecord /\ b.down \subseteq ComboKey /\ b.combos \subseteq Combo
  BY FitParts
<1>2. LetGo(b, plain, combos) = r
  BY DEF LetGo
<1>3. down \in SUBSET ComboKey /\ cs \in SUBSET Combo
  BY <1>1
<1>4. <<>> \in Seq(ComboKey) /\ Len(<<>>) = 0
  BY EmptyIs
<1> HIDE DEF down, cs
<1> DEFINE none == <<>>
<1>5. none \in Seq(ComboKey) /\ r = [b EXCEPT !.down = down, !.combos = cs, !.keys = none]
  BY <1>4
<1> HIDE DEF none, r
<1>6. /\ r \in ComboRecord /\ r.keys = none /\ r.down = down /\ r.combos = cs
      /\ r.state = b.state /\ r.disabled = b.disabled /\ r.active = b.active
      /\ r.ready = b.ready /\ r.timer = b.timer /\ r.enabled = b.enabled
      /\ r.longest = b.longest
  BY <1>1, <1>3, <1>5 DEF ComboRecord
<1>7. Len(r.keys) <= KeyBufferLength
  <2>1. Len(none) = 0 /\ KeyBufferLength \in Nat
    BY <1>4, ConstantsAre DEF none
  <2> QED  BY <1>6, <2>1
<1>8. Fit(r)
  BY <1>6, <1>7 DEF Fit
<1>9. LetGone(b, plain, combos, r)
  BY <1>6, <1>8 DEF none, down, cs, LetGone
<1> QED  BY <1>2, <1>9 DEF r

\* The combos of A that the held back keys complete.
Done(b, A, c) == c \in A /\ Completes(b, c, Len(b.keys))

\* Record i is a key of its own: no combo of A takes it.
Free(b, A, i) == \A c \in A : ~Takes(b, c, i)

\* c is complete, and no other combo of A has a key of its.
Alone(b, A, c) ==
  Distinct(b.ready) /\ Done(b, A, c) /\ \A e \in A : e # c => ~Overlap(c, e)

\* r is b with its key buffer emptied and the combos of A applied.
Flushed(b, A, r) ==
  /\ Fit(r) /\ r.keys = <<>> /\ r.longest = 0
  /\ \A c \in Combo : r.active[c] <=> b.active[c] \/ Done(b, A, c)
  /\ \A c \in Combo : r.state[c] = IF r.active[c] THEN b.state[c] ELSE {}
  /\ \A c \in Combo : r.disabled[c] <=> r.active[c] /\ (b.disabled[c] \/ c \in A)
  /\ Distinct(b.ready) => Distinct(r.ready)
  /\ \A x \in r.down : x \in b.down \/ \E i \in DOMAIN b.keys : b.keys[i] = x /\ Free(b, A, i)
  /\ \A i \in DOMAIN b.keys : Free(b, A, i) => b.keys[i] \in r.down
  /\ b.down \subseteq r.down
  /\ \A c \in r.combos : c \in b.combos \/ Done(b, A, c)
  /\ \A c \in Combo : Alone(b, A, c) => c \in r.combos
  /\ Range(b.ready) \subseteq A => r.ready = <<>>

\* x is b once the combos of A are applied and the buffer is still to be emptied.
Emptying(b, A, x, plain, combos) ==
  /\ Fit(b) /\ A \subseteq Combo /\ Fit(x)
  /\ x.state = b.state /\ x.keys = b.keys /\ x.down = b.down /\ x.combos = b.combos
  /\ \A c \in Combo : x.active[c] <=> b.active[c] \/ Done(b, A, c)
  /\ \A c \in Combo : x.disabled[c] <=> b.disabled[c] \/ c \in A
  /\ Distinct(b.ready) => Distinct(x.ready)
  /\ \A z \in plain : \E i \in DOMAIN b.keys : b.keys[i] = z /\ Free(b, A, i)
  /\ \A i \in DOMAIN b.keys : Free(b, A, i) => b.keys[i] \in plain
  /\ \A c \in combos : Done(b, A, c)
  /\ \A c \in Combo : Alone(b, A, c) => c \in combos
  /\ Range(b.ready) \subseteq A => x.ready = <<>>

LEMMA ClearingFlushes ==
  ASSUME NEW b, NEW A, NEW x, NEW plain, NEW combos, Emptying(b, A, x, plain, combos)
  PROVE  LET r == ClearCombos(LetGo(x, plain, combos))
         IN  Flushed(b, A, r) /\ r.timer = x.timer /\ r.enabled = x.enabled
<1> USE DEF Emptying
<1>1. plain \in SUBSET ComboKey /\ combos \in SUBSET Combo
  <2>1. \A i \in DOMAIN b.keys : b.keys[i] \in ComboKey
    BY FitParts, SequenceIs
  <2> QED  BY <2>1 DEF Done
<1> DEFINE y == LetGo(x, plain, combos)
<1>2. /\ Fit(y) /\ y.keys = <<>> /\ y.down = x.down \cup plain
      /\ y.combos = x.combos \cup combos
      /\ y.state = x.state /\ y.disabled = x.disabled /\ y.active = x.active
      /\ y.ready = x.ready /\ y.timer = x.timer /\ y.enabled = x.enabled
  <2>1. LetGone(x, plain, combos, y)
    BY <1>1, LetGoIs
  <2> HIDE DEF y
  <2> QED  BY <2>1 DEF LetGone
<1> HIDE DEF y
<1> DEFINE r == ClearCombos(y)
<1>3. /\ Fit(r) /\ r.longest = 0
      /\ \A c \in Combo : r.state[c] = IF y.active[c] THEN y.state[c] ELSE {}
      /\ \A c \in Combo : r.disabled[c] <=> y.active[c] /\ y.disabled[c]
      /\ r.active = y.active /\ r.ready = y.ready /\ r.keys = y.keys
      /\ r.timer = y.timer /\ r.enabled = y.enabled /\ r.down = y.down
      /\ r.combos = y.combos
  BY <1>2, ClearCombosIs
<1> HIDE DEF r
<1>4. /\ \A c \in Combo : r.active[c] <=> b.active[c] \/ Done(b, A, c)
      /\ \A c \in Combo : r.state[c] = IF r.active[c] THEN b.state[c] ELSE {}
      /\ \A c \in Combo : r.disabled[c] <=> r.active[c] /\ (b.disabled[c] \/ c \in A)
  BY <1>2, <1>3
<1>5. /\ \A z \in r.down : z \in b.down \/ \E i \in DOMAIN b.keys : b.keys[i] = z /\ Free(b, A, i)
      /\ \A i \in DOMAIN b.keys : Free(b, A, i) => b.keys[i] \in r.down
      /\ b.down \subseteq r.down
  BY <1>2, <1>3
<1>6. \A c \in r.combos : c \in b.combos \/ Done(b, A, c)
  BY <1>2, <1>3
<1>8. /\ \A c \in Combo : Alone(b, A, c) => c \in r.combos
      /\ Range(b.ready) \subseteq A => r.ready = <<>>
  BY <1>2, <1>3
<1>7. Flushed(b, A, r)
  BY <1>2, <1>3, <1>4, <1>5, <1>6, <1>8 DEF Flushed
<1> QED  BY <1>2, <1>3, <1>7 DEF r, y

\* A combo that has no key in common with the others applied takes effect.
LEMMA AloneTakesEffect ==
  ASSUME NEW b, Fit(b), NEW c \in Combo, Alone(b, Applied(b), c)
  PROVE  \E i \in DOMAIN b.keys : Becomes(b, c, i)
<1>1. /\ Len(b.keys) \in Nat /\ DOMAIN b.keys = 1 .. Len(b.keys)
      /\ DOMAIN b.ready = 1 .. Len(b.ready) /\ Len(b.ready) \in Nat
      /\ Range(b.ready) = {b.ready[i] : i \in 1 .. Len(b.ready)}
  BY FitParts, SequenceIs
<1>2. /\ c \in Applied(b) /\ Completes(b, c, Len(b.keys)) /\ Distinct(b.ready)
      /\ \A e \in Applied(b) : e # c => ~Overlap(c, e)
  BY DEF Alone, Done
<1> DEFINE T == {n \in 0 .. Len(b.keys) : Completes(b, c, n)}
<1>3. PICK i \in T : \A n \in T : i <= n
  <2>1. T \subseteq Nat /\ T # {}
    BY <1>1, <1>2
  <2> HIDE DEF T
  <2> QED  BY <2>1, LeastNumber
<1>4. i \in 0 .. Len(b.keys) /\ Completes(b, c, i)
  OBVIOUS
<1>5. i # 0
  <2> SUFFICES ASSUME i = 0 PROVE FALSE
    OBVIOUS
  <2>1. 1 .. 0 = {}
    OBVIOUS
  <2>2. ComboKeys[c] = {}
    BY <1>4, <2>1 DEF Completes
  <2> QED  BY <2>2, TwoKeys
<1>6. i \in 1 .. Len(b.keys) /\ i - 1 \in 0 .. Len(b.keys) /\ ~(i <= i - 1)
  BY <1>1, <1>4, <1>5
<1>7. ~Completes(b, c, i - 1)
  BY <1>3, <1>6
<1> HIDE DEF T
<1>8. b.keys[i] \in ComboKeys[c]
  <2>1. 1 .. i = 1 .. i - 1 \cup {i}
    BY <1>6
  <2> QED  BY <1>4, <1>7, <2>1 DEF Completes
<1>9. Takes(b, c, i)
  BY <1>7, <1>8 DEF Takes
<1>10. PICK n \in 1 .. Len(b.ready) : b.ready[n] = c
  BY <1>1, <1>2 DEF Applied
<1>11. ASSUME NEW m \in n + 1 .. Len(b.ready), b.ready[m] \in Applied(b)
       PROVE  ~Takes(b, b.ready[m], i)
  <2>1. m \in DOMAIN b.ready /\ n \in DOMAIN b.ready /\ m # n
    BY <1>1
  <2>2. b.ready[m] # c
    BY <1>2, <1>10, <2>1 DEF Distinct
  <2>3. ~Overlap(c, b.ready[m])
    BY <1>2, <1>11, <2>2
  <2> QED  BY <1>8, <2>3 DEF Overlap, Takes
<1>12. Becomes(b, c, i)
  BY <1>1, <1>4, <1>9, <1>10, <1>11 DEF Becomes
<1> QED  BY <1>1, <1>6, <1>12

LEMMA ApplyCombosFlushes ==
  ASSUME NEW b, Fit(b)
  PROVE  /\ Flushed(b, Applied(b), ApplyCombos(b))
         /\ ApplyCombos(b).timer = b.timer /\ ApplyCombos(b).enabled = b.enabled
<1> DEFINE A == Applied(b)
           plain == {b.keys[i] : i \in {j \in DOMAIN b.keys : \A c \in A : ~Takes(b, c, j)}}
           combos == {c \in A : \E i \in DOMAIN b.keys : Becomes(b, c, i)}
           act == [c \in Combo |-> b.active[c] \/ (c \in A /\ Completes(b, c, Len(b.keys)))]
           dis == [c \in Combo |-> b.disabled[c] \/ c \in A]
           left == DropCombos(b.ready, A)
           x == [b EXCEPT !.active = act, !.disabled = dis, !.ready = left]
<1>1. ApplyCombos(b) = ClearCombos(LetGo(x, plain, combos))
  BY DEF ApplyCombos
<1>2. /\ b \in ComboRecord /\ b.active \in [Combo -> BOOLEAN] /\ b.disabled \in [Combo -> BOOLEAN]
      /\ b.ready \in Seq(Combo) /\ Len(b.ready) < ComboBufferLength
      /\ b.keys \in Seq(ComboKey)
  BY FitParts
<1>3. A \in SUBSET Combo
  BY <1>2, SequenceIs DEF Applied
<1>4. /\ Len(b.keys) \in Nat /\ DOMAIN b.keys = 1 .. Len(b.keys)
  BY <1>2, SequenceIs
<1>5. \A c \in combos : Done(b, A, c)
  <2> SUFFICES ASSUME NEW c \in A, NEW i \in 1 .. Len(b.keys), Becomes(b, c, i)
               PROVE  Done(b, A, c)
    BY <1>4
  <2>1. Completes(b, c, i)
    BY DEF Becomes
  <2>2. 1 .. i \subseteq 1 .. Len(b.keys)
    BY <1>4
  <2> QED  BY <2>1, <2>2 DEF Completes, Done
<1>6. /\ \A z \in plain : \E i \in DOMAIN b.keys : b.keys[i] = z /\ Free(b, A, i)
      /\ \A i \in DOMAIN b.keys : Free(b, A, i) => b.keys[i] \in plain
  BY DEF Free
<1>15. \A c \in Combo : Alone(b, A, c) => c \in combos
  BY AloneTakesEffect DEF Alone, Done
<1> HIDE DEF A, combos, plain
<1>7. /\ act \in [Combo -> BOOLEAN] /\ dis \in [Combo -> BOOLEAN]
      /\ \A c \in Combo : act[c] <=> b.active[c] \/ Done(b, A, c)
      /\ \A c \in Combo : dis[c] <=> b.disabled[c] \/ c \in A
  BY <1>2 DEF Done
<1>9. Len(left) < ComboBufferLength
  <2>1. left \in Seq(Combo) /\ Len(left) <= Len(b.ready)
    BY <1>2, DropIs
  <2> HIDE DEF left
  <2>2. Len(left) \in Nat /\ Len(b.ready) \in Nat /\ ComboBufferLength \in Nat
    BY <1>2, <2>1, SequenceIs, ConstantsAre
  <2> QED  BY <1>2, <2>1, <2>2
<1>10. /\ left \in Seq(Combo) /\ (Distinct(b.ready) => Distinct(left))
       /\ Range(b.ready) \subseteq A => left = <<>>
  BY <1>2, DropIs
<1> HIDE DEF act, dis, left
<1>11. /\ x \in ComboRecord /\ x.active = act /\ x.disabled = dis /\ x.ready = left
       /\ x.state = b.state /\ x.keys = b.keys /\ x.timer = b.timer /\ x.enabled = b.enabled
       /\ x.down = b.down /\ x.combos = b.combos
  BY <1>2, <1>7, <1>10 DEF ComboRecord
<1> HIDE DEF x
<1>12. Fit(x)
  BY <1>9, <1>11 DEF Fit
<1>13. Emptying(b, A, x, plain, combos)
  BY <1>3, <1>5, <1>6, <1>7, <1>10, <1>11, <1>12, <1>15 DEF Emptying
<1>14. LET r == ClearCombos(LetGo(x, plain, combos))
       IN  Flushed(b, A, r) /\ r.timer = x.timer /\ r.enabled = x.enabled
  BY <1>13, ClearingFlushes
<1> QED  BY <1>1, <1>11, <1>14 DEF A

\* The key buffer is emptied and no combo is applied.
LEMMA DumpFlushes ==
  ASSUME NEW b, Fit(b), NEW x, Fit(x),
         x.state = b.state, x.keys = b.keys, x.down = b.down, x.combos = b.combos,
         x.active = b.active, x.disabled = b.disabled,
         Distinct(b.ready) => Distinct(x.ready), b.ready = <<>> => x.ready = <<>>
  PROVE  LET r == ClearCombos(DumpKeyBuffer(x))
         IN  Flushed(b, {}, r) /\ r.timer = x.timer /\ r.enabled = x.enabled
<1> DEFINE plain == Range(x.keys)
           A == {}
           combos == {}
<1>1. ClearCombos(DumpKeyBuffer(x)) = ClearCombos(LetGo(x, plain, combos))
  BY DEF DumpKeyBuffer
<1>2. /\ \A z \in plain : \E i \in DOMAIN b.keys : b.keys[i] = z /\ Free(b, A, i)
      /\ \A i \in DOMAIN b.keys : Free(b, A, i) => b.keys[i] \in plain
  BY DEF Range, Free
<1>3. /\ \A c \in combos : Done(b, A, c)
      /\ \A c \in Combo : x.active[c] <=> b.active[c] \/ Done(b, A, c)
      /\ \A c \in Combo : x.disabled[c] <=> b.disabled[c] \/ c \in A
  BY DEF Done
<1>4. /\ A \in SUBSET Combo /\ \A c \in Combo : ~Alone(b, A, c)
      /\ Range(b.ready) \subseteq A => x.ready = <<>>
  <2>1. Range(b.ready) \subseteq {} => b.ready = <<>>
    BY FitParts, SequenceIs
  <2> QED  BY <2>1 DEF Alone, Done
<1> HIDE DEF A, combos, plain
<1>5. Emptying(b, A, x, plain, combos)
  BY <1>2, <1>3, <1>4 DEF Emptying
<1>6. LET r == ClearCombos(LetGo(x, plain, combos))
      IN  Flushed(b, A, r) /\ r.timer = x.timer /\ r.enabled = x.enabled
  BY <1>5, ClearingFlushes
<1> QED  BY <1>1, <1>6 DEF A

LEMMA UntimedIs ==
  ASSUME NEW b, Fit(b), NEW t \in {Off} \cup 0 .. OverComboTerm
  PROVE  LET r == [b EXCEPT !.timer = t]
         IN  /\ Fit(r) /\ r.timer = t
             /\ r.state = b.state /\ r.keys = b.keys /\ r.down = b.down /\ r.combos = b.combos
             /\ r.active = b.active /\ r.disabled = b.disabled /\ r.ready = b.ready
             /\ r.enabled = b.enabled /\ r.longest = b.longest
<1> DEFINE r == [b EXCEPT !.timer = t]
<1>1. b \in ComboRecord
  BY FitParts
<1>2. /\ r \in ComboRecord /\ r.timer = t
      /\ r.state = b.state /\ r.keys = b.keys /\ r.down = b.down /\ r.combos = b.combos
      /\ r.active = b.active /\ r.disabled = b.disabled /\ r.ready = b.ready
      /\ r.enabled = b.enabled /\ r.longest = b.longest
  BY <1>1 DEF ComboRecord
<1> HIDE DEF r
<1>3. Fit(r)
  BY <1>2 DEF Fit
<1> QED  BY <1>2, <1>3 DEF r

LEMMA FlushFlushes ==
  ASSUME NEW b, Fit(b)
  PROVE  /\ Flushed(b, Applied(b), Flush(b)) /\ Flush(b).enabled = b.enabled
         /\ Flush(b).timer \in {b.timer, Off}
<1>1. CASE b.ready # <<>>
  <2>1. Flush(b) = ApplyCombos(b)
    BY <1>1 DEF Flush
  <2> QED  BY <2>1, ApplyCombosFlushes
<1>2. CASE b.ready = <<>>
  <2>1. Applied(b) = {}
    BY <1>2, FitParts, SequenceIs DEF Applied
  <2> DEFINE x == [b EXCEPT !.timer = Off]
  <2>2. /\ Fit(x) /\ x.timer = Off
        /\ x.state = b.state /\ x.keys = b.keys /\ x.down = b.down /\ x.combos = b.combos
        /\ x.active = b.active /\ x.disabled = b.disabled /\ x.ready = b.ready
        /\ x.enabled = b.enabled
    BY UntimedIs
  <2>3. Flush(b) = ClearCombos(DumpKeyBuffer(x))
    <3>1. b \in ComboRecord
      BY FitParts
    <3>2. [DumpKeyBuffer(b) EXCEPT !.timer = Off] = DumpKeyBuffer(x)
      BY <3>1 DEF DumpKeyBuffer, LetGo, ComboRecord
    <3> QED  BY <1>2, <3>2 DEF Flush
  <2> HIDE DEF x
  <2>4. LET r == ClearCombos(DumpKeyBuffer(x))
        IN  Flushed(b, {}, r) /\ r.timer = x.timer /\ r.enabled = x.enabled
    BY <2>2, DumpFlushes
  <2> QED  BY <2>1, <2>2, <2>3, <2>4
<1> QED  BY <1>1, <1>2

-----------------------------------------------------------------------------
(* What the actions do besides *)

\* r is b but for its timer.
Retimed(b, r) ==
  /\ Fit(r)
  /\ r.state = b.state /\ r.keys = b.keys /\ r.down = b.down /\ r.combos = b.combos
  /\ r.active = b.active /\ r.disabled = b.disabled /\ r.ready = b.ready
  /\ r.enabled = b.enabled /\ r.longest = b.longest

LEMMA AgedIs ==
  ASSUME NEW b, Fit(b), NEW t \in 0 .. ComboGap
  PROVE  /\ Retimed(b, Aged(b, t))
         /\ b.timer # Off => Aged(b, t).timer # Off
         /\ b.timer = Off => Aged(b, t).timer = Off
<1> DEFINE time == IF b.timer = Off THEN Off
                   ELSE IF b.timer + t < OverComboTerm THEN b.timer + t ELSE OverComboTerm
<1>1. b \in ComboRecord /\ b.timer \in {Off} \cup 0 .. OverComboTerm
  BY FitParts
<1>2. Aged(b, t) = [b EXCEPT !.timer = time]
  BY <1>1 DEF Aged, ComboRecord
<1>3. /\ time \in {Off} \cup 0 .. OverComboTerm
      /\ b.timer # Off => time # Off
      /\ b.timer = Off => time = Off
  BY <1>1, ConstantsAre
<1> HIDE DEF time
<1>4. LET r == [b EXCEPT !.timer = time] IN Retimed(b, r) /\ r.timer = time
  <2> DEFINE r == [b EXCEPT !.timer = time]
  <2>1. /\ Fit(r) /\ r.timer = time
        /\ r.state = b.state /\ r.keys = b.keys /\ r.down = b.down /\ r.combos = b.combos
        /\ r.active = b.active /\ r.disabled = b.disabled /\ r.ready = b.ready
        /\ r.enabled = b.enabled /\ r.longest = b.longest
    BY <1>3, UntimedIs
  <2> QED  BY <2>1 DEF Retimed
<1> QED  BY <1>2, <1>3, <1>4

\* r is b with k held back, where there is room for it.
HeldBack(b, k, r) ==
  /\ Fit(r)
  /\ r.keys = IF Len(b.keys) < KeyBufferLength THEN Append(b.keys, k) ELSE b.keys
  /\ r.state = b.state /\ r.down = b.down /\ r.combos = b.combos
  /\ r.active = b.active /\ r.disabled = b.disabled /\ r.ready = b.ready
  /\ r.enabled = b.enabled

LEMMA HoldBackIs ==
  ASSUME NEW b, Fit(b), NEW k \in ComboKey, NEW zero \in BOOLEAN
  PROVE  /\ HeldBack(b, k, HoldBack(b, k, zero))
         /\ ~zero => HoldBack(b, k, zero).timer = 0
<1> DEFINE keys == IF Len(b.keys) < KeyBufferLength THEN Append(b.keys, k) ELSE b.keys
           time == IF zero THEN Off ELSE 0
           r == [b EXCEPT !.timer = time, !.keys = keys]
<1>1. /\ b \in ComboRecord /\ b.keys \in Seq(ComboKey) /\ Len(b.keys) <= KeyBufferLength
      /\ KeyBufferLength \in Nat /\ OverComboTerm \in Nat /\ Len(b.keys) \in Nat
  BY FitParts, ConstantsAre, SequenceIs
<1>2. HoldBack(b, k, zero) = r
  BY <1>1 DEF HoldBack, ComboRecord
<1>3. keys \in Seq(ComboKey) /\ Len(keys) <= KeyBufferLength
  BY <1>1, AppendIs
<1>4. time \in {Off} \cup 0 .. OverComboTerm /\ (~zero => time = 0)
  BY <1>1
<1>5. keys = IF Len(b.keys) < KeyBufferLength THEN Append(b.keys, k) ELSE b.keys
  OBVIOUS
<1> HIDE DEF keys, time
<1>6. /\ r \in ComboRecord /\ r.keys = keys /\ r.timer = time
      /\ r.state = b.state /\ r.down = b.down /\ r.combos = b.combos
      /\ r.active = b.active /\ r.disabled = b.disabled /\ r.ready = b.ready
      /\ r.enabled = b.enabled
  BY <1>1, <1>3, <1>4 DEF ComboRecord
<1> HIDE DEF r
<1>7. Fit(r)
  BY <1>3, <1>6 DEF Fit
<1>8. HeldBack(b, k, r)
  BY <1>5, <1>6, <1>7 DEF HeldBack
<1> QED  BY <1>2, <1>4, <1>6, <1>8

\* r is b but for the keys that the host sees down.
Reported(b, down, r) ==
  /\ Fit(r) /\ r.down = down
  /\ r.state = b.state /\ r.keys = b.keys /\ r.combos = b.combos /\ r.timer = b.timer
  /\ r.active = b.active /\ r.disabled = b.disabled /\ r.ready = b.ready
  /\ r.enabled = b.enabled /\ r.longest = b.longest

LEMMA ReportedIs ==
  ASSUME NEW b, Fit(b), NEW down \in SUBSET ComboKey
  PROVE  Reported(b, down, [b EXCEPT !.down = down])
<1> DEFINE r == [b EXCEPT !.down = down]
<1>1. b \in ComboRecord
  BY FitParts
<1>2. /\ r \in ComboRecord /\ r.down = down
      /\ r.state = b.state /\ r.keys = b.keys /\ r.combos = b.combos /\ r.timer = b.timer
      /\ r.active = b.active /\ r.disabled = b.disabled /\ r.ready = b.ready
      /\ r.enabled = b.enabled /\ r.longest = b.longest
  BY <1>1 DEF ComboRecord
<1> HIDE DEF r
<1>3. Fit(r)
  BY <1>2 DEF Fit
<1>4. Reported(b, down, r)
  BY <1>2, <1>3 DEF Reported
<1> QED  BY <1>4 DEF r

\* QK_COMBO_TOGGLE switches combos off, and empties the buffers.
LEMMA ToggleOffIs ==
  ASSUME NEW b, Fit(b)
  PROVE  LET r == DumpKeyBuffer(ClearCombos([b EXCEPT !.timer = Off, !.enabled = FALSE,
                                                      !.ready = <<>>]))
         IN  Flushed(b, {}, r) /\ ~r.enabled /\ r.ready = <<>>
<1> DEFINE x == [b EXCEPT !.timer = Off, !.enabled = FALSE, !.ready = <<>>]
<1>1. b \in ComboRecord
  BY FitParts
<1> DEFINE none == <<>>
<1>2. none \in Seq(Combo) /\ Len(none) = 0 /\ Distinct(none)
  BY EmptyIs
<1>3. x = [b EXCEPT !.timer = Off, !.enabled = FALSE, !.ready = none]
  OBVIOUS
<1> HIDE DEF none, x
<1>4. /\ x \in ComboRecord /\ ~x.enabled /\ x.ready = none
      /\ x.state = b.state /\ x.keys = b.keys /\ x.down = b.down /\ x.combos = b.combos
      /\ x.active = b.active /\ x.disabled = b.disabled
  BY <1>1, <1>2, <1>3 DEF ComboRecord
<1>5. Len(x.ready) < ComboBufferLength
  BY <1>2, <1>4, ConstantsAre
<1>6. Fit(x)
  BY <1>4, <1>5 DEF Fit
<1>7. DumpKeyBuffer(ClearCombos(x)) = ClearCombos(DumpKeyBuffer(x))
  BY <1>4 DEF DumpKeyBuffer, LetGo, ClearCombos, ComboRecord
<1>8. LET r == ClearCombos(DumpKeyBuffer(x))
      IN  Flushed(b, {}, r) /\ r.timer = x.timer /\ r.enabled = x.enabled
  BY <1>2, <1>4, <1>6, DumpFlushes
<1>9. ClearCombos(DumpKeyBuffer(x)).ready = none
  <2>1. x \in ComboRecord
    BY <1>4
  <2> QED  BY <1>4, <2>1 DEF DumpKeyBuffer, LetGo, ClearCombos, ComboRecord
<1> QED  BY <1>4, <1>7, <1>8, <1>9 DEF x, none

\* ... and on again.
LEMMA ToggleOnIs ==
  ASSUME NEW b, Fit(b)
  PROVE  LET r == [b EXCEPT !.enabled = TRUE]
         IN  /\ Fit(r) /\ r.enabled
             /\ r.state = b.state /\ r.keys = b.keys /\ r.combos = b.combos
             /\ r.timer = b.timer /\ r.active = b.active /\ r.disabled = b.disabled
             /\ r.ready = b.ready /\ r.down = b.down
<1> DEFINE r == [b EXCEPT !.enabled = TRUE]
<1>1. b \in ComboRecord
  BY FitParts
<1>2. /\ r \in ComboRecord /\ r.enabled
      /\ r.state = b.state /\ r.keys = b.keys /\ r.combos = b.combos
      /\ r.timer = b.timer /\ r.active = b.active /\ r.disabled = b.disabled
      /\ r.ready = b.ready /\ r.down = b.down
  BY <1>1 DEF ComboRecord
<1> HIDE DEF r
<1>3. Fit(r)
  BY <1>2 DEF Fit
<1> QED  BY <1>2, <1>3 DEF r

\* What the task does when the term is over.
Expired(b) ==
  IF b.ready # <<>> THEN [ApplyCombos(b) EXCEPT !.longest = 0, !.timer = Off]
  ELSE ClearCombos([DumpKeyBuffer(b) EXCEPT !.timer = Off])

LEMMA ExpiredIs ==
  ASSUME NEW b, Fit(b)
  PROVE  Flushed(b, Applied(b), Expired(b)) /\ Expired(b).enabled = b.enabled
<1>1. CASE b.ready # <<>>
  <2> DEFINE x == ApplyCombos(b)
             r == [x EXCEPT !.timer = Off]
  <2>1. Flushed(b, Applied(b), x) /\ x.enabled = b.enabled
    BY ApplyCombosFlushes
  <2>2. Fit(x) /\ x \in ComboRecord /\ x.longest = 0
    <3>1. Fit(x) /\ x.longest = 0
      BY <2>1 DEF Flushed
    <3> QED  BY <3>1, FitParts
  <2> HIDE DEF x
  <2>3. [x EXCEPT !.longest = 0, !.timer = Off] = r
    BY <2>2 DEF ComboRecord
  <2>4. /\ Fit(r)
        /\ r.state = x.state /\ r.keys = x.keys /\ r.down = x.down /\ r.combos = x.combos
        /\ r.active = x.active /\ r.disabled = x.disabled /\ r.ready = x.ready
        /\ r.enabled = x.enabled /\ r.longest = x.longest
    BY <2>2, UntimedIs
  <2> HIDE DEF r
  <2>5. Flushed(b, Applied(b), r)
    BY <2>1, <2>4 DEF Flushed
  <2>6. Expired(b) = r
    BY <1>1, <2>3 DEF Expired, x
  <2> QED  BY <2>1, <2>4, <2>5, <2>6
<1>2. CASE b.ready = <<>>
  <2>1. Expired(b) = Flush(b)
    BY <1>2 DEF Expired, Flush
  <2> QED  BY <2>1, FlushFlushes
<1> QED  BY <1>1, <1>2

-----------------------------------------------------------------------------
(* The actions *)

\* How a press changes cb: k is held back, or what is held back is let go.
PressEffect(k, zero) ==
  \E a, p : /\ Retimed(cb, a) /\ Pressed(a, k, Len(ComboKeys), p)
            /\ p.part => HeldBack(p.b, k, cb') /\ (~zero => cb'.timer = 0)
            /\ ~p.part => \E r : /\ Flushed(p.b, Applied(p.b), r)
                                 /\ r.enabled = p.b.enabled
                                 /\ Reported(r, r.down \cup {k}, cb')

LEMMA KeyDownIs ==
  ASSUME Fit(cb), Calm(cb), NEW k \in ComboKey, NEW t \in 0 .. ComboGap,
         NEW zero \in {FALSE, ZeroReads}, ComboKeyDown(k, t, zero)
  PROVE  /\ k \notin keysDown /\ keysDown' = keysDown \cup {k}
         /\ PressEffect(k, zero)
<1> DEFINE a == Aged(cb, t)
           p == SingleCombos(a, k, TRUE)
           r == Flush(p.b)
<1>1. Retimed(cb, a)
  BY AgedIs
<1>2. Fit(a) /\ Calm(a)
  BY <1>1 DEF Retimed, Calm
<1>3. cb' = IF p.part THEN HoldBack(p.b, k, zero) ELSE [r EXCEPT !.down = @ \cup {k}]
  BY DEF ComboKeyDown
<1>4. k \notin keysDown /\ keysDown' = keysDown \cup {k}
  BY DEF ComboKeyDown
<1> HIDE DEF a
<1>5. Pressed(a, k, Len(ComboKeys), p)
  BY <1>2, SingleCombosPress
<1> HIDE DEF p
<1>6. Fit(p.b) /\ p.part \in BOOLEAN
  BY <1>5 DEF Pressed
<1>7. ASSUME p.part PROVE HeldBack(p.b, k, cb') /\ (~zero => cb'.timer = 0)
  <2>1. zero \in BOOLEAN
    BY ConstantsAre
  <2> QED  BY <1>3, <1>6, <1>7, <2>1, HoldBackIs
<1>8. ASSUME ~p.part
      PROVE  \E x : /\ Flushed(p.b, Applied(p.b), x) /\ x.enabled = p.b.enabled
                    /\ Reported(x, x.down \cup {k}, cb')
  <2>1. Flushed(p.b, Applied(p.b), r) /\ r.enabled = p.b.enabled
    BY <1>6, FlushFlushes
  <2> HIDE DEF r
  <2>2. Fit(r) /\ r \in ComboRecord /\ r.down \cup {k} \in SUBSET ComboKey
    <3>1. Fit(r)
      BY <2>1 DEF Flushed
    <3> QED  BY <3>1, FitParts
  <2> DEFINE down == r.down \cup {k}
  <2>3. cb' = [r EXCEPT !.down = down]
    BY <1>3, <1>8
  <2>4. Reported(r, down, [r EXCEPT !.down = down])
    BY <2>2, ReportedIs
  <2> QED  BY <2>1, <2>3, <2>4
<1>9. PressEffect(k, zero)
  BY <1>1, <1>5, <1>7, <1>8 DEF PressEffect
<1> QED  BY <1>4, <1>9

LEMMA KeyUpDoes ==
  ASSUME Fit(cb), NEW k \in ComboKey, NEW t \in 0 .. ComboGap, ComboKeyUp(k, t)
  PROVE  /\ k \in keysDown /\ keysDown' = keysDown \ {k}
         /\ \E a, p, r : /\ Retimed(cb, a) /\ Released(a, k, Len(ComboKeys), p)
                         /\ Flushed(p.b, Applied(p.b), r) /\ r.enabled = p.b.enabled
                         /\ p.part => cb' = r
                         /\ ~p.part => Reported(r, r.down \ {k}, cb')
<1> DEFINE a == Aged(cb, t)
           p == SingleCombos(a, k, FALSE)
           r == Flush(p.b)
<1>1. Retimed(cb, a)
  BY AgedIs
<1>2. Fit(a)
  BY <1>1 DEF Retimed
<1>3. cb' = IF p.part THEN r ELSE [r EXCEPT !.down = @ \ {k}]
  BY DEF ComboKeyUp
<1>4. k \in keysDown /\ keysDown' = keysDown \ {k}
  BY DEF ComboKeyUp
<1> HIDE DEF a
<1>5. Released(a, k, Len(ComboKeys), p)
  BY <1>2, SingleCombosRelease
<1> HIDE DEF p
<1>6. Fit(p.b) /\ p.part \in BOOLEAN
  BY <1>5 DEF Released
<1>7. Flushed(p.b, Applied(p.b), r) /\ r.enabled = p.b.enabled
  BY <1>6, FlushFlushes
<1> HIDE DEF r
<1>8. ASSUME ~p.part PROVE Reported(r, r.down \ {k}, cb')
  <2>1. Fit(r) /\ r \in ComboRecord /\ r.down \ {k} \in SUBSET ComboKey
    <3>1. Fit(r)
      BY <1>7 DEF Flushed
    <3> QED  BY <3>1, FitParts
  <2> DEFINE down == r.down \ {k}
  <2>2. cb' = [r EXCEPT !.down = down]
    BY <1>3, <1>8
  <2>3. Reported(r, down, [r EXCEPT !.down = down])
    BY <2>1, ReportedIs
  <2> QED  BY <2>2, <2>3
<1>9. p.part => cb' = r
  BY <1>3
<1> QED  BY <1>1, <1>4, <1>5, <1>7, <1>8, <1>9

\* r is b but for its timer and whether combos are enabled.
SameCombos(b, r) ==
  /\ Fit(r)
  /\ r.state = b.state /\ r.keys = b.keys /\ r.down = b.down /\ r.combos = b.combos
  /\ r.active = b.active /\ r.disabled = b.disabled /\ r.ready = b.ready

LEMMA ToggleDoes ==
  ASSUME Fit(cb), NEW t \in 0 .. ComboGap, ComboToggle(t)
  PROVE  /\ keysDown' = keysDown
         /\ \E a : /\ Retimed(cb, a)
                   /\ IF a.enabled THEN Flushed(a, {}, cb') /\ ~cb'.enabled /\ cb'.ready = <<>>
                      ELSE SameCombos(a, cb') /\ cb'.enabled
<1> DEFINE a == Aged(cb, t)
<1>1. Retimed(cb, a)
  BY AgedIs
<1>2. /\ keysDown' = keysDown
      /\ cb' = IF a.enabled
               THEN DumpKeyBuffer(ClearCombos([a EXCEPT !.timer = Off, !.enabled = FALSE,
                                                        !.ready = <<>>]))
               ELSE [a EXCEPT !.enabled = TRUE]
  BY DEF ComboToggle
<1> HIDE DEF a
<1>3. Fit(a)
  BY <1>1 DEF Retimed
<1>4. ASSUME a.enabled PROVE Flushed(a, {}, cb') /\ ~cb'.enabled /\ cb'.ready = <<>>
  BY <1>2, <1>3, <1>4, ToggleOffIs
<1>5. ASSUME ~a.enabled PROVE SameCombos(a, cb') /\ cb'.enabled
  <2> DEFINE r == [a EXCEPT !.enabled = TRUE]
  <2>1. /\ Fit(r) /\ r.enabled
        /\ r.state = a.state /\ r.keys = a.keys /\ r.combos = a.combos
        /\ r.timer = a.timer /\ r.active = a.active /\ r.disabled = a.disabled
        /\ r.ready = a.ready /\ r.down = a.down
    BY <1>3, ToggleOnIs
  <2>2. cb' = r
    BY <1>2, <1>5
  <2> HIDE DEF r
  <2> QED  BY <2>1, <2>2 DEF SameCombos
<1> QED  BY <1>1, <1>2, <1>4, <1>5

LEMMA TaskDoes ==
  ASSUME Fit(cb), NEW t \in 0 .. ComboGap, ComboTask(t)
  PROVE  /\ keysDown' = keysDown
         /\ \E a : /\ Retimed(cb, a) /\ (cb.timer # Off => a.timer # Off)
                   /\ \/ cb' = a /\ ~(a.enabled /\ a.timer # Off /\ a.timer > a.longest)
                      \/ Flushed(a, Applied(a), cb') /\ cb'.enabled = a.enabled
<1> DEFINE a == Aged(cb, t)
           over == a.enabled /\ a.timer # Off /\ a.timer > a.longest
<1>1. Retimed(cb, a) /\ (cb.timer # Off => a.timer # Off)
  BY AgedIs
<1>2. /\ keysDown' = keysDown
      /\ cb' = CASE ~over -> a
                 [] over /\ a.ready # <<>> ->
                      [ApplyCombos(a) EXCEPT !.longest = 0, !.timer = Off]
                 [] over /\ a.ready = <<>> ->
                      ClearCombos([DumpKeyBuffer(a) EXCEPT !.timer = Off])
  BY DEF ComboTask
<1> HIDE DEF a
<1>3. Fit(a)
  BY <1>1 DEF Retimed
<1>4. IF over THEN cb' = Expired(a) ELSE cb' = a
  BY <1>2 DEF Expired
<1>5. over => Flushed(a, Applied(a), cb') /\ cb'.enabled = a.enabled
  BY <1>3, <1>4, ExpiredIs
<1> QED  BY <1>1, <1>2, <1>4, <1>5

-----------------------------------------------------------------------------
(* Types, and how long a press is held back *)

\* While combos are off nothing is held back, and active combos are dropped.
Basics == ComboTypeOK /\ Calm(cb) /\ (~cb.enabled => cb.keys = <<>>)

LEMMA ComboTypeIs == ComboTypeOK <=> Fit(cb) /\ keysDown \subseteq ComboKey
BY DEF ComboTypeOK, Fit

LEMMA FlushingCalms ==
  ASSUME NEW b, Calm(b), NEW A, NEW r, Flushed(b, A, r)
  PROVE  Fit(r) /\ Calm(r) /\ r.keys = <<>>
BY DEF Flushed, Calm, Done

LEMMA BasicsInit == ASSUME ComboInit PROVE Basics /\ HeldBackBriefly
<1> DEFINE state == [c \in Combo |-> {}]
           no == [c \in Combo |-> FALSE]
           none == <<>>
           b == [state |-> state, disabled |-> no, active |-> no, ready |-> none, keys |-> none,
                 timer |-> Off, longest |-> 0, enabled |-> TRUE, down |-> {}, combos |-> {}]
<1>1. /\ none \in Seq(Combo) /\ none \in Seq(ComboKey) /\ Len(none) = 0
      /\ state \in [Combo -> SUBSET ComboKey] /\ no \in [Combo -> BOOLEAN]
      /\ \A c \in Combo : state[c] = {} /\ ~no[c]
  BY EmptyIs
<1>2. cb = b /\ keysDown = {}
  BY DEF ComboInit
<1> HIDE DEF state, no, none
<1>3. /\ cb \in ComboRecord /\ cb.state = state /\ cb.active = no /\ cb.ready = none
      /\ cb.keys = none /\ cb.enabled
  BY <1>1, <1>2 DEF ComboRecord
<1>4. Len(cb.ready) < ComboBufferLength /\ Len(cb.keys) <= KeyBufferLength
  BY <1>1, <1>3, ConstantsAre
<1>5. Fit(cb) /\ Calm(cb)
  BY <1>1, <1>3, <1>4 DEF Fit, Calm
<1>6. HeldBackBriefly
  BY <1>3 DEF HeldBackBriefly, none
<1> QED  BY <1>2, <1>3, <1>5, <1>6, ComboTypeIs DEF Basics

LEMMA BasicsStep ==
  ASSUME Basics, [ComboNext]_comboVars
  PROVE  /\ Basics'
         /\ HeldBackBriefly /\ ~ZeroReads => HeldBackBriefly'
<1>1. Fit(cb) /\ Calm(cb) /\ keysDown \subseteq ComboKey /\ (~cb.enabled => cb.keys = <<>>)
  BY ComboTypeIs DEF Basics
<1>2. ASSUME Fit(cb'), Calm(cb'), keysDown' \subseteq ComboKey, ~cb'.enabled => cb'.keys = <<>>
      PROVE  Basics'
  <2>1. ComboTypeOK'
    BY <1>2, ComboTypeIs DEF ComboTypeOK, Fit
  <2> QED  BY <1>2, <2>1 DEF Basics, Calm
<1>3. cb'.keys = <<>> => HeldBackBriefly'
  BY DEF HeldBackBriefly
<1>4. ASSUME NEW a, Retimed(cb, a)
      PROVE  Fit(a) /\ Calm(a) /\ a.keys = cb.keys /\ a.enabled = cb.enabled
  BY <1>1, <1>4 DEF Retimed, Calm
<1>5. ASSUME NEW t \in 0 .. ComboGap, NEW k \in ComboKey, NEW zero \in {FALSE, ZeroReads},
             ComboKeyDown(k, t, zero)
      PROVE  Basics' /\ (~ZeroReads => HeldBackBriefly')
  <2>1. PICK a, p : /\ Retimed(cb, a) /\ Pressed(a, k, Len(ComboKeys), p)
                    /\ p.part => HeldBack(p.b, k, cb') /\ (~zero => cb'.timer = 0)
                    /\ ~p.part => \E r : /\ Flushed(p.b, Applied(p.b), r)
                                         /\ r.enabled = p.b.enabled
                                         /\ Reported(r, r.down \cup {k}, cb')
    <3>1. PressEffect(k, zero)
      BY <1>1, <1>5, KeyDownIs
    <3> QED  BY <3>1 DEF PressEffect
  <2>2. Fit(a) /\ Calm(a) /\ a.enabled = cb.enabled
    BY <1>4, <2>1
  <2>3. Fit(p.b) /\ Calm(p.b) /\ (p.part => p.b.enabled) /\ p.part \in BOOLEAN
    BY <2>1, <2>2 DEF Pressed, Calm
  <2>4. keysDown' \subseteq ComboKey
    BY <1>1, <1>5, KeyDownIs
  <2>5. CASE p.part
    <3>1. Fit(cb') /\ Calm(cb') /\ cb'.enabled
      BY <2>1, <2>3, <2>5 DEF HeldBack, Calm
    <3>2. ~ZeroReads => cb'.timer = 0
      BY <2>1, <2>5
    <3>3. 0 \in 0 .. ComboTerm
      BY ConstantsAre
    <3> QED  BY <1>2, <2>4, <3>1, <3>2, <3>3 DEF HeldBackBriefly
  <2>6. CASE ~p.part
    <3>1. PICK r : Flushed(p.b, Applied(p.b), r) /\ Reported(r, r.down \cup {k}, cb')
      BY <2>1, <2>6
    <3>2. Fit(r) /\ Calm(r) /\ r.keys = <<>>
      BY <2>3, <3>1, FlushingCalms
    <3>3. Fit(cb') /\ Calm(cb') /\ cb'.keys = <<>>
      BY <3>1, <3>2 DEF Reported, Calm
    <3> QED  BY <1>2, <1>3, <2>4, <3>3
  <2> QED  BY <2>3, <2>5, <2>6
<1>6. ASSUME NEW t \in 0 .. ComboGap, NEW k \in ComboKey, ComboKeyUp(k, t)
      PROVE  Basics' /\ HeldBackBriefly'
  <2>1. PICK a, p, r : /\ Retimed(cb, a) /\ Released(a, k, Len(ComboKeys), p)
                       /\ Flushed(p.b, Applied(p.b), r)
                       /\ p.part => cb' = r
                       /\ ~p.part => Reported(r, r.down \ {k}, cb')
    BY <1>1, <1>6, KeyUpDoes
  <2>2. Calm(p.b)
    <3>1. Calm(a)
      BY <1>4, <2>1
    <3> QED  BY <2>1, <3>1 DEF Released, Calm
  <2>3. Fit(r) /\ Calm(r) /\ r.keys = <<>>
    BY <2>1, <2>2, FlushingCalms
  <2>4. Fit(cb') /\ Calm(cb') /\ cb'.keys = <<>>
    <3>1. CASE p.part
      BY <2>1, <2>3, <3>1
    <3>2. CASE ~p.part
      BY <2>1, <2>3, <3>2 DEF Reported, Calm
    <3> QED  BY <3>1, <3>2
  <2>5. keysDown' \subseteq ComboKey
    BY <1>1, <1>6, KeyUpDoes
  <2> QED  BY <1>2, <1>3, <2>4, <2>5
<1>7. ASSUME NEW t \in 0 .. ComboGap, ComboToggle(t)
      PROVE  Basics' /\ HeldBackBriefly'
  <2>1. PICK a : /\ Retimed(cb, a)
                 /\ IF a.enabled THEN Flushed(a, {}, cb') /\ ~cb'.enabled /\ cb'.ready = <<>>
                    ELSE SameCombos(a, cb') /\ cb'.enabled
    BY <1>1, <1>7, ToggleDoes
  <2>2. Calm(a) /\ a.keys = cb.keys /\ a.enabled = cb.enabled
    BY <1>4, <2>1
  <2>3. Fit(cb') /\ Calm(cb') /\ cb'.keys = <<>>
    <3>1. CASE a.enabled
      BY <2>1, <2>2, <3>1, FlushingCalms
    <3>2. CASE ~a.enabled
      BY <1>1, <2>1, <2>2, <3>2 DEF SameCombos, Calm
    <3> QED  BY <3>1, <3>2
  <2>4. keysDown' \subseteq ComboKey
    BY <1>1, <1>7, ToggleDoes
  <2> QED  BY <1>2, <1>3, <2>3, <2>4
<1>8. ASSUME NEW t \in 0 .. ComboGap, ComboTask(t)
      PROVE  Basics' /\ (HeldBackBriefly => HeldBackBriefly')
  <2>1. PICK a : /\ Retimed(cb, a) /\ (cb.timer # Off => a.timer # Off)
                 /\ \/ cb' = a /\ ~(a.enabled /\ a.timer # Off /\ a.timer > a.longest)
                    \/ Flushed(a, Applied(a), cb') /\ cb'.enabled = a.enabled
    BY <1>1, <1>8, TaskDoes
  <2>2. Fit(a) /\ Calm(a) /\ a.keys = cb.keys /\ a.enabled = cb.enabled
    BY <1>4, <2>1
  <2>3. keysDown' \subseteq ComboKey
    BY <1>1, <1>8, TaskDoes
  <2>4. CASE Flushed(a, Applied(a), cb')
    BY <1>2, <1>3, <2>2, <2>3, <2>4, FlushingCalms
  <2>5. CASE cb' = a /\ ~(a.enabled /\ a.timer # Off /\ a.timer > a.longest)
    <3>1. Basics'
      BY <1>1, <1>2, <2>2, <2>3, <2>5
    <3>2. ASSUME HeldBackBriefly PROVE HeldBackBriefly'
      <4>1. SUFFICES ASSUME cb.keys # <<>> PROVE a.timer \in 0 .. ComboTerm
        BY <2>2, <2>5 DEF HeldBackBriefly
      <4>2. cb.timer \in 0 .. ComboTerm /\ cb.enabled
        BY <1>1, <3>2, <4>1 DEF HeldBackBriefly
      <4>3. cb.timer # Off
        BY <4>2, ConstantsAre
      <4>4. /\ a.timer # Off /\ ~(a.timer > a.longest) /\ a.longest \in {0, ComboTerm}
            /\ a.timer \in {Off} \cup 0 .. OverComboTerm
        BY <2>1, <2>2, <2>5, <4>2, <4>3, FitParts
      <4> QED  BY <4>4, ConstantsAre
    <3> QED  BY <3>1, <3>2
  <2> QED  BY <2>1, <2>4, <2>5
<1>9. CASE UNCHANGED comboVars
  BY <1>9 DEF comboVars, Basics, ComboTypeOK, Calm, HeldBackBriefly
<1> QED  BY <1>5, <1>6, <1>7, <1>8, <1>9 DEF ComboNext

\* What combos know of their keys is about their own keys, and neither buffer
\* outgrows its array: process_combo, combo_task.
THEOREM ComboTypeCorrect == ComboSpec => []ComboTypeOK
<1>1. ComboInit => Basics
  BY BasicsInit
<1>2. Basics /\ [ComboNext]_comboVars => Basics'
  BY BasicsStep
<1>3. Basics => ComboTypeOK
  BY DEF Basics
<1> QED  BY <1>1, <1>2, <1>3, PTL DEF ComboSpec

\* A press that was held back is let go within the term, unless the timer happened
\* to be set at time 0, which stands for a timer that is off.
THEOREM HeldBackNoLonger == ASSUME ZeroReads = FALSE PROVE ComboSpec => []HeldBackBriefly
<1>1. ComboInit => Basics /\ HeldBackBriefly
  BY BasicsInit
<1>2. Basics /\ HeldBackBriefly /\ [ComboNext]_comboVars => (Basics /\ HeldBackBriefly)'
  BY BasicsStep
<1> QED  BY <1>1, <1>2, PTL DEF ComboSpec

-----------------------------------------------------------------------------
(* What the keys, the buffers and the host have in common *)

\* d are the keys that are down.  A key that an active combo holds, or a combo that
\* is not dropped, is not down at the host; a combo that is not dropped knows of all
\* its keys that are held back.
Account(b, d) ==
  /\ ~b.enabled => b.keys = <<>>
  /\ b.down \subseteq d /\ Range(b.keys) \subseteq d /\ Distinct(b.keys)
  /\ \A c \in Combo : b.state[c] \subseteq d /\ b.state[c] \cap b.down = {}
  /\ Calm(b)
  /\ \A c \in Combo : b.active[c] => b.state[c] # {} /\ b.state[c] \cap Range(b.keys) = {}
  /\ \A c \in b.combos : b.active[c]
  /\ \A c \in Combo : ~b.disabled[c] => Range(b.keys) \cap ComboKeys[c] \subseteq b.state[c]

\* The same, and combos whose keys are all down are ready and do not overlap.
Accounted(b, d) == Account(b, d) /\ Chords(b, Combo)

\* What is left of it once the combos have learned of a key, before the buffer is
\* emptied.
Unsettled(b, d) ==
  /\ Fit(b)
  /\ b.down \subseteq d /\ Range(b.keys) \subseteq d /\ Distinct(b.keys)
  /\ \A c \in Combo : b.state[c] \subseteq d /\ b.state[c] \cap b.down = {}
  /\ Calm(b)
  /\ \A c \in Combo : b.active[c] => b.state[c] # {} /\ b.state[c] \cap Range(b.keys) = {}
  /\ \A c \in b.combos : b.active[c]
  /\ \A c \in Combo : ~b.disabled[c] /\ ComboKeys[c] \subseteq Range(b.keys) => b.state[c] # {}
  /\ Distinct(b.ready)

LEMMA AccountedIsUnsettled ==
  ASSUME NEW b, Fit(b), NEW d, Accounted(b, d)
  PROVE  Unsettled(b, d)
<1>1. \A c \in Combo : ~b.disabled[c] /\ ComboKeys[c] \subseteq Range(b.keys) => b.state[c] # {}
  BY TwoKeys DEF Accounted, Account
<1> QED  BY <1>1 DEF Unsettled, Accounted, Account, Chords

\* A record that no combo of A takes is not a key of one.
LEMMA FreeIsNoKey ==
  ASSUME NEW b, Fit(b), Distinct(b.keys), NEW A, NEW i \in DOMAIN b.keys, Free(b, A, i),
         NEW c \in A
  PROVE  b.keys[i] \notin ComboKeys[c]
<1> SUFFICES ASSUME b.keys[i] \in ComboKeys[c] PROVE FALSE
  OBVIOUS
<1>1. Completes(b, c, i - 1)
  BY DEF Free, Takes
<1>2. Len(b.keys) \in Nat /\ DOMAIN b.keys = 1 .. Len(b.keys)
  BY FitParts, SequenceIs
<1>3. PICK j \in 1 .. i - 1 : b.keys[j] = b.keys[i]
  BY <1>1 DEF Completes
<1>4. j \in DOMAIN b.keys /\ j # i
  BY <1>2
<1> QED  BY <1>3, <1>4 DEF Distinct

\* Emptying the buffer settles it.
LEMMA FlushingSettles ==
  ASSUME NEW b, NEW d, Unsettled(b, d), NEW A \in SUBSET Combo, \A c \in A : ~b.disabled[c],
         NEW r, Flushed(b, A, r)
  PROVE  /\ Accounted(r, d) /\ Fit(r) /\ r.keys = <<>>
         /\ \A c \in Combo : r.state[c] \subseteq b.state[c]
         /\ \A c \in r.combos \ b.combos : c \in A /\ ComboKeys[c] \subseteq Range(b.keys)
<1>1. /\ Fit(b) /\ Len(b.keys) \in Nat /\ DOMAIN b.keys = 1 .. Len(b.keys)
      /\ Range(b.keys) = {b.keys[i] : i \in 1 .. Len(b.keys)}
      /\ b.combos \subseteq Combo
  BY FitParts, SequenceIs DEF Unsettled
<1>2. \A c \in Combo : Done(b, A, c) <=> c \in A /\ ComboKeys[c] \subseteq Range(b.keys)
  BY <1>1 DEF Done, Completes
<1>3. /\ Fit(r) /\ r.keys = <<>> /\ Range(r.keys) = {} /\ Distinct(r.keys)
      /\ r.combos \subseteq Combo /\ Distinct(r.ready)
  <2>1. Fit(r) /\ r.keys = <<>> /\ Distinct(r.ready)
    BY DEF Flushed, Unsettled
  <2> QED  BY <2>1, EmptyIs, FitParts
<1>4. /\ \A c \in Combo : r.active[c] <=> b.active[c] \/ Done(b, A, c)
      /\ \A c \in Combo : r.state[c] = IF r.active[c] THEN b.state[c] ELSE {}
      /\ \A c \in Combo : r.disabled[c] <=> r.active[c] /\ (b.disabled[c] \/ c \in A)
  BY DEF Flushed
<1>5. \A c \in Combo : r.active[c] => r.disabled[c] /\ r.state[c] # {}
  BY <1>2, <1>4 DEF Unsettled, Calm
<1>6. r.down \subseteq d
  BY <1>1 DEF Flushed, Unsettled
<1>7. ASSUME NEW c \in Combo, NEW x \in r.state[c], x \in r.down PROVE FALSE
  <2>1. r.active[c] /\ x \in b.state[c]
    BY <1>4, <1>7
  <2>2. x \notin b.down
    BY <2>1 DEF Unsettled
  <2>3. PICK i \in DOMAIN b.keys : b.keys[i] = x /\ Free(b, A, i)
    BY <1>7, <2>2 DEF Flushed
  <2>4. CASE b.active[c]
    <3>1. x \in Range(b.keys)
      BY <1>1, <2>3
    <3> QED  BY <2>1, <2>4, <3>1 DEF Unsettled
  <2>5. CASE Done(b, A, c)
    <3>1. c \in A /\ x \in ComboKeys[c]
      BY <1>1, <1>2, <2>1, <2>5 DEF Fit
    <3>2. Distinct(b.keys)
      BY DEF Unsettled
    <3> QED  BY <1>1, <2>3, <3>1, <3>2, FreeIsNoKey
  <2> QED  BY <1>4, <2>1, <2>4, <2>5
<1>8. \A c \in r.combos : r.active[c]
  <2>1. \A c \in r.combos : c \in b.combos \/ Done(b, A, c)
    BY DEF Flushed
  <2> QED  BY <1>3, <1>4, <2>1 DEF Unsettled
<1>9. \A c \in Combo : ~Full(r, c)
  BY <1>4, <1>5, TwoKeys DEF Full
<1>10. Chords(r, Combo)
  BY <1>3, <1>9 DEF Chords
<1>11. \A c \in Combo : r.state[c] \subseteq b.state[c] /\ r.state[c] \subseteq d
  BY <1>4 DEF Unsettled
<1>12. Account(r, d)
  BY <1>3, <1>5, <1>6, <1>7, <1>8, <1>11 DEF Account, Calm
<1>13. \A c \in r.combos \ b.combos : c \in A /\ ComboKeys[c] \subseteq Range(b.keys)
  <2>1. \A c \in r.combos : c \in b.combos \/ Done(b, A, c)
    BY DEF Flushed
  <2> QED  BY <1>2, <1>3, <2>1
<1> QED  BY <1>3, <1>10, <1>11, <1>12, <1>13 DEF Accounted

\* Between two events nothing changes but the timer and whether combos are enabled.
LEMMA SameIsAccounted ==
  ASSUME NEW b, Fit(b), NEW d, Accounted(b, d), NEW r, SameCombos(b, r),
         r.enabled = b.enabled \/ b.keys = <<>>
  PROVE  Accounted(r, d)
BY DEF Accounted, Account, Calm, Chords, Full, SameCombos

LEMMA RetimedIsAccounted ==
  ASSUME NEW b, Fit(b), NEW d, Accounted(b, d), NEW r, Retimed(b, r)
  PROVE  Accounted(r, d) /\ Fit(r)
<1>1. SameCombos(b, r) /\ r.enabled = b.enabled
  BY DEF Retimed, SameCombos
<1> QED  BY <1>1, SameIsAccounted DEF SameCombos

LEMMA HoldingBackAccounts ==
  ASSUME RoomForAll, NEW a, Fit(a), NEW d, Accounted(a, d), NEW k \in ComboKey, k \notin d, NEW p,
         Pressed(a, k, Len(ComboKeys), p), p.part, NEW r, HeldBack(p.b, k, r)
  PROVE  Accounted(r, d \cup {k})
<1>1. /\ Fit(p.b) /\ p.b.keys = a.keys /\ p.b.down = a.down /\ p.b.combos = a.combos
      /\ p.b.active = a.active /\ p.b.enabled = a.enabled /\ a.enabled
      /\ \A c \in Combo : a.disabled[c] => p.b.disabled[c]
      /\ \A c \in Combo : p.b.state[c] # a.state[c] =>
           p.b.state[c] = a.state[c] \cup {k} /\ ~a.disabled[c]
  BY DEF Pressed
<1>2. \A c \in Combo : k \in ComboKeys[c] /\ ~p.b.disabled[c] => k \in p.b.state[c]
  BY <1>1, CombosAre DEF Pressed
<1>3. Chords(p.b, Combo)
  BY DEF Pressed, Accounted
<1>4. /\ a.keys \in Seq(ComboKey) /\ Range(a.keys) \subseteq d /\ Distinct(a.keys)
      /\ k \notin Range(a.keys)
  BY FitParts DEF Accounted, Account
<1>5. /\ r.state = p.b.state /\ r.down = p.b.down /\ r.combos = p.b.combos
      /\ r.active = p.b.active /\ r.disabled = p.b.disabled /\ r.ready = p.b.ready
      /\ r.enabled = p.b.enabled
  BY DEF HeldBack
<1>6. Distinct(r.keys) /\ Range(r.keys) \subseteq Range(a.keys) \cup {k}
  <2>1. r.keys = Append(a.keys, k) \/ r.keys = a.keys
    BY <1>1 DEF HeldBack
  <2> DEFINE s == Append(a.keys, k)
  <2>2. Range(s) = Range(a.keys) \cup {k} /\ Distinct(s)
    BY <1>4, AppendIs
  <2> HIDE DEF s
  <2>3. CASE r.keys = s
    BY <2>2, <2>3
  <2>4. CASE r.keys = a.keys
    BY <1>4, <2>4
  <2> QED  BY <2>1, <2>3, <2>4 DEF s
<1>7. \A c \in Combo : r.active[c] => r.state[c] = a.state[c] /\ r.disabled[c]
  BY <1>1, <1>5 DEF Accounted, Account, Calm
<1>8. \A c \in Combo : a.state[c] \subseteq r.state[c] /\ r.state[c] \subseteq a.state[c] \cup {k}
  BY <1>1, <1>5
<1>9. \A c \in Combo : r.state[c] \subseteq d \cup {k} /\ r.state[c] \cap r.down = {}
  BY <1>1, <1>5, <1>8 DEF Accounted, Account
<1>10. \A c \in Combo : r.active[c] => r.state[c] # {} /\ r.state[c] \cap Range(r.keys) = {}
  <2>1. \A c \in Combo : r.active[c] => a.active[c] /\ k \notin a.state[c]
    BY <1>1, <1>5 DEF Accounted, Account
  <2> QED  BY <1>6, <1>7, <2>1 DEF Accounted, Account
<1>11. \A c \in Combo : ~r.disabled[c] => Range(r.keys) \cap ComboKeys[c] \subseteq r.state[c]
  <2>1. \A c \in Combo : ~r.disabled[c] => Range(a.keys) \cap ComboKeys[c] \subseteq r.state[c]
    BY <1>1, <1>5, <1>8 DEF Accounted, Account
  <2> QED  BY <1>2, <1>5, <1>6, <2>1
<1>12. /\ r.down \subseteq d \cup {k} /\ Range(r.keys) \subseteq d \cup {k}
       /\ \A c \in r.combos : r.active[c]
  BY <1>1, <1>4, <1>5, <1>6 DEF Accounted, Account
<1>13. Account(r, d \cup {k})
  BY <1>1, <1>5, <1>6, <1>7, <1>9, <1>10, <1>11, <1>12 DEF Account, Calm
<1>14. Chords(r, Combo)
  BY <1>3, <1>5 DEF Chords, Full
<1> QED  BY <1>13, <1>14 DEF Accounted

\* A press that is no part of a combo leaves what combos know of their keys alone.
LEMMA OtherPressUnsettles ==
  ASSUME NEW a, Fit(a), NEW d, Accounted(a, d), NEW k, NEW p,
         Pressed(a, k, Len(ComboKeys), p), ~p.part
  PROVE  Unsettled(p.b, d)
<1>1. /\ Fit(p.b) /\ p.b.keys = a.keys /\ p.b.down = a.down /\ p.b.combos = a.combos
      /\ p.b.active = a.active /\ p.b.enabled = a.enabled
      /\ \A c \in Combo : a.disabled[c] => p.b.disabled[c]
      /\ \A c \in Combo : p.b.state[c] = a.state[c]
      /\ Distinct(a.ready) => Distinct(p.b.ready)
  BY DEF Pressed
<1>2. \A c \in Combo : ~p.b.disabled[c] /\ ComboKeys[c] \subseteq Range(p.b.keys)
                         => p.b.state[c] # {}
  BY <1>1, TwoKeys DEF Accounted, Account
<1> QED  BY <1>1, <1>2 DEF Accounted, Account, Chords, Unsettled, Calm

LEMMA ReleaseUnsettles ==
  ASSUME NEW a, Fit(a), NEW d, Accounted(a, d), NEW k, NEW p,
         Released(a, k, Len(ComboKeys), p)
  PROVE  Unsettled(p.b, d) /\ \A c \in Combo : k \notin p.b.state[c]
<1>1. /\ Fit(p.b) /\ p.b.keys = a.keys /\ p.b.down = a.down /\ p.b.disabled = a.disabled
      /\ p.b.combos \subseteq a.combos /\ \A c \in p.b.combos : a.active[c] => p.b.active[c]
      /\ \A c \in Combo : p.b.active[c] => a.active[c]
      /\ Distinct(a.ready) => Distinct(p.b.ready)
  BY DEF Released
<1>2. \A c \in Combo : p.b.state[c] = a.state[c] \ {k} /\ (p.b.active[c] => a.state[c] # {k})
  BY CombosAre DEF Released
<1>3. \A c \in Combo : ~p.b.disabled[c] /\ ComboKeys[c] \subseteq Range(p.b.keys)
                         => p.b.state[c] # {}
  <2> SUFFICES ASSUME NEW c \in Combo, ~a.disabled[c], ComboKeys[c] \subseteq Range(a.keys)
               PROVE  a.state[c] \ {k} # {}
    BY <1>1, <1>2
  <2>1. ComboKeys[c] \subseteq a.state[c]
    BY DEF Accounted, Account
  <2> QED  BY <2>1, TwoKeys
<1>4. \A c \in Combo : p.b.active[c] =>
        p.b.state[c] # {} /\ p.b.state[c] \cap Range(p.b.keys) = {}
  <2> SUFFICES ASSUME NEW c \in Combo, p.b.active[c]
               PROVE  a.state[c] \ {k} # {} /\ (a.state[c] \ {k}) \cap Range(a.keys) = {}
    BY <1>1, <1>2
  <2>1. a.active[c] /\ a.state[c] # {} /\ a.state[c] \cap Range(a.keys) = {} /\ a.state[c] # {k}
    BY <1>1, <1>2 DEF Accounted, Account
  <2> QED  BY <2>1
<1>5. \A c \in Combo : p.b.state[c] \subseteq d /\ p.b.state[c] \cap p.b.down = {}
  BY <1>1, <1>2 DEF Accounted, Account
<1>6. /\ p.b.down \subseteq d /\ Range(p.b.keys) \subseteq d /\ Distinct(p.b.keys)
      /\ Calm(p.b) /\ \A c \in p.b.combos : p.b.active[c]
  <2>1. p.b.combos \subseteq Combo
    BY <1>1, FitParts
  <2> QED  BY <1>1, <2>1 DEF Accounted, Account, Calm
<1>7. Distinct(p.b.ready)
  BY <1>1 DEF Accounted, Chords
<1> QED  BY <1>1, <1>2, <1>3, <1>4, <1>5, <1>6, <1>7 DEF Unsettled

\* A key that is part of a combo when it goes up is not left down at the host.
LEMMA PartIsNotDown ==
  ASSUME NEW a, Fit(a), NEW d, Accounted(a, d), NEW k, NEW p,
         Released(a, k, Len(ComboKeys), p), p.part, NEW r, Flushed(p.b, Applied(p.b), r)
  PROVE  k \notin r.down
<1>1. PICK c \in Combo : k \in a.state[c] /\ (a.active[c] \/ Full(a, c))
  BY DEF Released
<1>2. /\ Fit(p.b) /\ p.b.keys = a.keys /\ p.b.down = a.down /\ p.b.disabled = a.disabled
      /\ \A e \in Range(a.ready) : ~a.disabled[e] => e \in Range(p.b.ready)
  BY DEF Released
<1>3. k \notin p.b.down
  BY <1>1, <1>2 DEF Accounted, Account
<1> SUFFICES ASSUME k \in r.down PROVE FALSE
  OBVIOUS
<1>4. PICK i \in DOMAIN p.b.keys : p.b.keys[i] = k /\ Free(p.b, Applied(p.b), i)
  BY <1>3 DEF Flushed
<1>5. CASE a.active[c]
  <2>1. k \in Range(a.keys)
    BY <1>2, <1>4 DEF Range
  <2> QED  BY <1>1, <1>5, <2>1 DEF Accounted, Account
<1>6. CASE Full(a, c)
  <2>1. c \in Range(a.ready) /\ ~a.disabled[c] /\ k \in ComboKeys[c]
    BY <1>1, <1>6 DEF Accounted, Chords, Full
  <2>2. c \in Applied(p.b)
    BY <1>2, <2>1 DEF Applied
  <2>3. Distinct(p.b.keys)
    BY <1>2 DEF Accounted, Account
  <2> QED  BY <1>2, <1>4, <2>1, <2>2, <2>3, FreeIsNoKey
<1> QED  BY <1>1, <1>5, <1>6

LEMMA KeyGoneAccounts ==
  ASSUME NEW r, Fit(r), NEW d, Accounted(r, d), r.keys = <<>>, NEW k,
         \A c \in Combo : k \notin r.state[c], NEW q,
         \/ Reported(r, r.down \ {k}, q)
         \/ q = r /\ k \notin r.down
  PROVE  Accounted(q, d \ {k})
<1>1. /\ q.down = r.down \ {k}
      /\ q.state = r.state /\ q.keys = r.keys /\ q.combos = r.combos
      /\ q.active = r.active /\ q.disabled = r.disabled /\ q.ready = r.ready
      /\ q.enabled = r.enabled
  <2>1. CASE Reported(r, r.down \ {k}, q)
    BY <2>1 DEF Reported
  <2>2. CASE q = r /\ k \notin r.down
    <3>1. r.down = r.down \ {k}
      BY <2>2
    <3> QED  BY <2>2, <3>1
  <2> QED  BY <2>1, <2>2
<1>2. Range(q.keys) = {}
  BY <1>1, EmptyIs
<1>3. Chords(q, Combo)
  BY <1>1 DEF Accounted, Chords, Full
<1>4. \A c \in Combo : q.state[c] \subseteq d \ {k} /\ q.state[c] \cap q.down = {}
  BY <1>1 DEF Accounted, Account
<1>5. Account(q, d \ {k})
  BY <1>1, <1>2, <1>4 DEF Accounted, Account, Calm
<1> QED  BY <1>3, <1>5 DEF Accounted

LEMMA KeyThereAccounts ==
  ASSUME NEW r, Fit(r), NEW d, Accounted(r, d), r.keys = <<>>, NEW k, k \notin d, NEW q,
         Reported(r, r.down \cup {k}, q)
  PROVE  Accounted(q, d \cup {k})
<1>1. /\ q.down = r.down \cup {k}
      /\ q.state = r.state /\ q.keys = r.keys /\ q.combos = r.combos
      /\ q.active = r.active /\ q.disabled = r.disabled /\ q.ready = r.ready
      /\ q.enabled = r.enabled
  BY DEF Reported
<1>2. Range(q.keys) = {}
  BY <1>1, EmptyIs
<1>3. Chords(q, Combo)
  BY <1>1 DEF Accounted, Chords, Full
<1>4. \A c \in Combo : q.state[c] \subseteq d \cup {k} /\ q.state[c] \cap q.down = {}
  BY <1>1 DEF Accounted, Account
<1>5. Account(q, d \cup {k})
  BY <1>1, <1>2, <1>4 DEF Accounted, Account, Calm
<1> QED  BY <1>3, <1>5 DEF Accounted

\* A combo that takes effect has all its keys held back.
LEMMA NewIsFull ==
  ASSUME NEW a, NEW d, Accounted(a, d), NEW c \in Combo, ~a.disabled[c], Fit(a),
         ComboKeys[c] \subseteq Range(a.keys)
  PROVE  Full(a, c)
BY DEF Accounted, Account, Full, Fit

-----------------------------------------------------------------------------
(* The invariant *)

ComboInv == ComboTypeOK /\ Accounted(cb, keysDown)

LEMMA ComboInvParts ==
  ASSUME ComboInv
  PROVE  Basics /\ Fit(cb) /\ Calm(cb) /\ Accounted(cb, keysDown)
<1>1. Fit(cb) /\ Accounted(cb, keysDown)
  BY ComboTypeIs DEF ComboInv
<1>2. Calm(cb) /\ (~cb.enabled => cb.keys = <<>>)
  BY <1>1 DEF Accounted, Account
<1> QED  BY <1>1, <1>2 DEF Basics, ComboInv

LEMMA ComboInvInit == ComboInit => ComboInv
<1> SUFFICES ASSUME ComboInit PROVE ComboInv
  OBVIOUS
<1>1. Basics
  BY BasicsInit
<1> DEFINE state == [c \in Combo |-> {}]
           no == [c \in Combo |-> FALSE]
           none == <<>>
<1>2. /\ Range(none) = {} /\ Distinct(none)
      /\ \A c \in Combo : state[c] = {} /\ ~no[c]
  BY EmptyIs
<1>3. /\ cb.state = state /\ cb.active = no /\ cb.ready = none /\ cb.keys = none /\ cb.enabled
      /\ cb.down = {} /\ cb.combos = {} /\ cb.disabled = no
  BY DEF ComboInit
<1> HIDE DEF state, no, none
<1>4. Account(cb, keysDown)
  BY <1>2, <1>3 DEF Account, Calm
<1>5. \A c \in Combo : ~Full(cb, c)
  BY <1>2, <1>3, TwoKeys DEF Full
<1>6. Chords(cb, Combo)
  BY <1>2, <1>3, <1>5 DEF Chords
<1> QED  BY <1>1, <1>4, <1>6 DEF ComboInv, Basics, Accounted

\* Combos that take effect in this step have had their keys down at its beginning.
NewOnesFull == \A c \in cb'.combos \ cb.combos : c \in Combo /\ Full(cb, c)

LEMMA ComboInvStep ==
  ASSUME RoomForAll, ComboInv, [ComboNext]_comboVars
  PROVE  ComboInv' /\ NewOnesFull
<1>1. Fit(cb) /\ Calm(cb) /\ Accounted(cb, keysDown) /\ Basics
  BY ComboInvParts
<1>2. Basics'
  BY <1>1, BasicsStep
<1>3. ASSUME Accounted(cb', keysDown') PROVE ComboInv'
  BY <1>2, <1>3 DEF ComboInv, Basics, Accounted, Account, Chords, Full, Calm
<1>4. ASSUME NEW a, Retimed(cb, a)
      PROVE  /\ Accounted(a, keysDown) /\ Fit(a) /\ a.keys = cb.keys /\ a.combos = cb.combos
             /\ \A c \in Combo : Full(a, c) => Full(cb, c)
             /\ a.enabled = cb.enabled
  <2>1. Accounted(a, keysDown) /\ Fit(a)
    BY <1>1, <1>4, RetimedIsAccounted
  <2> QED  BY <1>4, <2>1 DEF Retimed, Full
<1>5. ASSUME NEW b, Fit(b) PROVE Applied(b) \in SUBSET Combo /\ \A c \in Applied(b) : ~b.disabled[c]
  BY <1>5, FitParts, SequenceIs DEF Applied
<1>6. ASSUME NEW a, Retimed(cb, a), NEW c \in Combo, ~a.disabled[c],
             ComboKeys[c] \subseteq Range(a.keys)
      PROVE  Full(cb, c)
  <2>1. Accounted(a, keysDown) /\ Fit(a)
    BY <1>4, <1>6
  <2>2. Full(a, c)
    BY <1>6, <2>1, NewIsFull
  <2> QED  BY <1>4, <1>6, <2>2
<1>7. ASSUME NEW t \in 0 .. ComboGap, NEW k \in ComboKey, NEW zero \in {FALSE, ZeroReads},
             ComboKeyDown(k, t, zero)
      PROVE  ComboInv' /\ NewOnesFull
  <2>1. k \notin keysDown /\ keysDown' = keysDown \cup {k} /\ PressEffect(k, zero)
    BY <1>1, <1>7, KeyDownIs
  <2>2. PICK a, p : /\ Retimed(cb, a) /\ Pressed(a, k, Len(ComboKeys), p)
                    /\ p.part => HeldBack(p.b, k, cb') /\ (~zero => cb'.timer = 0)
                    /\ ~p.part => \E r : /\ Flushed(p.b, Applied(p.b), r)
                                         /\ r.enabled = p.b.enabled
                                         /\ Reported(r, r.down \cup {k}, cb')
    BY <2>1 DEF PressEffect
  <2>3. Accounted(a, keysDown) /\ Fit(a) /\ a.combos = cb.combos
    BY <1>4, <2>2
  <2>4. /\ p.part \in BOOLEAN /\ Fit(p.b) /\ p.b.combos = a.combos /\ p.b.keys = a.keys
        /\ \A c \in Combo : a.disabled[c] => p.b.disabled[c]
    BY <2>2 DEF Pressed
  <2>5. CASE p.part
    <3>1. HeldBack(p.b, k, cb')
      BY <2>2, <2>5
    <3>2. Accounted(cb', keysDown \cup {k})
      BY <2>1, <2>2, <2>3, <2>5, <3>1, HoldingBackAccounts
    <3>3. NewOnesFull
      BY <2>3, <2>4, <3>1 DEF NewOnesFull, HeldBack
    <3> QED  BY <1>3, <2>1, <3>2, <3>3
  <2>6. CASE ~p.part
    <3>1. PICK r : Flushed(p.b, Applied(p.b), r) /\ Reported(r, r.down \cup {k}, cb')
      BY <2>2, <2>6
    <3>2. Unsettled(p.b, keysDown)
      BY <2>2, <2>3, <2>6, OtherPressUnsettles
    <3> DEFINE A == Applied(p.b)
    <3>3. A \in SUBSET Combo /\ \A c \in A : ~p.b.disabled[c]
      BY <1>5, <2>4
    <3>4. Flushed(p.b, A, r)
      BY <3>1
    <3> HIDE DEF A
    <3>5. /\ Accounted(r, keysDown) /\ Fit(r) /\ r.keys = <<>>
          /\ \A c \in r.combos \ p.b.combos : c \in A /\ ComboKeys[c] \subseteq Range(p.b.keys)
      BY <3>2, <3>3, <3>4, FlushingSettles
    <3>6. Accounted(cb', keysDown \cup {k})
      BY <2>1, <3>1, <3>5, KeyThereAccounts
    <3>7. cb'.combos = r.combos
      BY <3>1 DEF Reported
    <3>8. \A c \in cb'.combos \ cb.combos :
            c \in Combo /\ ~a.disabled[c] /\ ComboKeys[c] \subseteq Range(a.keys)
      BY <2>3, <2>4, <3>3, <3>5, <3>7
    <3>9. NewOnesFull
      BY <1>6, <2>2, <3>8 DEF NewOnesFull
    <3> QED  BY <1>3, <2>1, <3>6, <3>9
  <2> QED  BY <2>4, <2>5, <2>6
<1>8. ASSUME NEW t \in 0 .. ComboGap, NEW k \in ComboKey, ComboKeyUp(k, t)
      PROVE  ComboInv' /\ NewOnesFull
  <2>1. k \in keysDown /\ keysDown' = keysDown \ {k}
    BY <1>1, <1>8, KeyUpDoes
  <2>2. PICK a, p, r : /\ Retimed(cb, a) /\ Released(a, k, Len(ComboKeys), p)
                       /\ Flushed(p.b, Applied(p.b), r)
                       /\ p.part => cb' = r
                       /\ ~p.part => Reported(r, r.down \ {k}, cb')
    BY <1>1, <1>8, KeyUpDoes
  <2>3. Accounted(a, keysDown) /\ Fit(a) /\ a.combos = cb.combos
    BY <1>4, <2>2
  <2>4. /\ p.part \in BOOLEAN /\ Fit(p.b) /\ p.b.keys = a.keys /\ p.b.disabled = a.disabled
        /\ p.b.combos \subseteq a.combos /\ \A c \in p.b.combos : a.active[c] => p.b.active[c]
    BY <2>2 DEF Released
  <2>5. Unsettled(p.b, keysDown) /\ \A c \in Combo : k \notin p.b.state[c]
    BY <2>2, <2>3, ReleaseUnsettles
  <2> DEFINE A == Applied(p.b)
  <2>6. A \in SUBSET Combo /\ \A c \in A : ~p.b.disabled[c]
    BY <1>5, <2>4
  <2>7. Flushed(p.b, A, r)
    BY <2>2
  <2> HIDE DEF A
  <2>8. /\ Accounted(r, keysDown) /\ Fit(r) /\ r.keys = <<>>
        /\ \A c \in Combo : r.state[c] \subseteq p.b.state[c]
        /\ \A c \in r.combos \ p.b.combos : c \in A /\ ComboKeys[c] \subseteq Range(p.b.keys)
    BY <2>5, <2>6, <2>7, FlushingSettles
  <2>9. \A c \in Combo : k \notin r.state[c]
    BY <2>5, <2>8
  <2>10. p.part => k \notin r.down
    BY <2>2, <2>3, PartIsNotDown
  <2>11. Accounted(cb', keysDown \ {k})
    <3>1. CASE p.part
      BY <2>2, <2>8, <2>9, <2>10, <3>1, KeyGoneAccounts
    <3>2. CASE ~p.part
      BY <2>2, <2>8, <2>9, <3>2, KeyGoneAccounts
    <3> QED  BY <2>4, <3>1, <3>2
  <2>12. cb'.combos = r.combos
    BY <2>2, <2>4 DEF Reported
  <2>13. \A c \in cb'.combos \ cb.combos :
           c \in Combo /\ ~a.disabled[c] /\ ComboKeys[c] \subseteq Range(a.keys)
    BY <2>3, <2>4, <2>6, <2>8, <2>12
  <2>14. NewOnesFull
    BY <1>6, <2>2, <2>13 DEF NewOnesFull
  <2> QED  BY <1>3, <2>1, <2>11, <2>14
<1>9. ASSUME NEW a, Retimed(cb, a), NEW A \in SUBSET Combo, \A c \in A : ~a.disabled[c],
             Flushed(a, A, cb'), keysDown' = keysDown
      PROVE  ComboInv' /\ NewOnesFull
  <2>1. Accounted(a, keysDown) /\ Fit(a) /\ a.combos = cb.combos
    BY <1>4, <1>9
  <2>2. Unsettled(a, keysDown)
    BY <2>1, AccountedIsUnsettled
  <2>3. /\ Accounted(cb', keysDown)
        /\ \A c \in cb'.combos \ a.combos : c \in A /\ ComboKeys[c] \subseteq Range(a.keys)
    BY <1>9, <2>2, FlushingSettles
  <2>4. NewOnesFull
    BY <1>6, <1>9, <2>1, <2>3 DEF NewOnesFull
  <2> QED  BY <1>3, <1>9, <2>3, <2>4
<1>10. ASSUME NEW a, Retimed(cb, a), SameCombos(a, cb'), cb'.enabled = a.enabled \/ a.keys = <<>>,
              keysDown' = keysDown
       PROVE  ComboInv' /\ NewOnesFull
  <2>1. Accounted(a, keysDown) /\ Fit(a) /\ a.combos = cb.combos
    BY <1>4, <1>10
  <2>2. Accounted(cb', keysDown)
    BY <1>10, <2>1, SameIsAccounted
  <2>3. NewOnesFull
    BY <1>10, <2>1 DEF SameCombos, NewOnesFull
  <2> QED  BY <1>3, <1>10, <2>2, <2>3
<1>11. ASSUME NEW t \in 0 .. ComboGap, ComboToggle(t)
       PROVE  ComboInv' /\ NewOnesFull
  <2>1. keysDown' = keysDown
    BY <1>1, <1>11, ToggleDoes
  <2>2. PICK a : /\ Retimed(cb, a)
                 /\ IF a.enabled THEN Flushed(a, {}, cb') /\ ~cb'.enabled /\ cb'.ready = <<>>
                    ELSE SameCombos(a, cb') /\ cb'.enabled
    BY <1>1, <1>11, ToggleDoes
  <2>3. a.enabled = cb.enabled /\ a.keys = cb.keys
    BY <1>4, <2>2
  <2>4. CASE a.enabled
    BY <1>9, <2>1, <2>2, <2>4
  <2>5. CASE ~a.enabled
    BY <1>1, <1>10, <2>1, <2>2, <2>3, <2>5 DEF Basics
  <2> QED  BY <2>4, <2>5
<1>12. ASSUME NEW t \in 0 .. ComboGap, ComboTask(t)
       PROVE  ComboInv' /\ NewOnesFull
  <2>1. keysDown' = keysDown
    BY <1>1, <1>12, TaskDoes
  <2>2. PICK a : /\ Retimed(cb, a)
                 /\ cb' = a \/ Flushed(a, Applied(a), cb')
    BY <1>1, <1>12, TaskDoes
  <2>3. Fit(a)
    BY <1>4, <2>2
  <2>4. CASE cb' = a
    BY <1>10, <2>1, <2>2, <2>3, <2>4 DEF SameCombos
  <2>5. CASE Flushed(a, Applied(a), cb')
    BY <1>5, <1>9, <2>1, <2>2, <2>3, <2>5
  <2> QED  BY <2>2, <2>4, <2>5
<1>13. CASE UNCHANGED comboVars
  <2>1. cb' = cb /\ keysDown' = keysDown
    BY <1>13 DEF comboVars
  <2> QED  BY <1>1, <1>3, <2>1 DEF NewOnesFull
<1> QED  BY <1>7, <1>8, <1>11, <1>12, <1>13 DEF ComboNext

\* A combo takes effect once at a time: the keys of those that take effect in one
\* step have no key in common.
LEMMA NewOnesAreApart ==
  ASSUME ComboInv, NewOnesFull, NEW c \in cb'.combos \ cb.combos,
         NEW d \in cb'.combos \ cb.combos, c # d
  PROVE  ~Overlap(c, d)
BY ComboInvParts DEF NewOnesFull, Accounted, Chords

LEMMA ComboInvReturns == ComboInv => ComboKeysReturn
<1> SUFFICES ASSUME ComboInv PROVE ComboKeysReturn
  OBVIOUS
<1>1. Fit(cb) /\ Accounted(cb, keysDown)
  BY ComboInvParts
<1>2. keysDown = {} => cb.down = {}
  BY <1>1 DEF Accounted, Account
<1>3. ASSUME NEW c \in cb.combos PROVE ComboKeys[c] \cap keysDown # {}
  <2>1. c \in Combo
    BY <1>1, FitParts
  <2>2. cb.state[c] # {} /\ cb.state[c] \subseteq keysDown /\ cb.state[c] \subseteq ComboKeys[c]
    BY <1>1, <2>1 DEF Accounted, Account, Fit
  <2> QED  BY <2>2
<1> QED  BY <1>2, <1>3 DEF ComboKeysReturn

\* Where every combo fits into the buffer of combos, nothing stays down at the host
\* once every switch is open, and a combo is down only while one of its keys is.
THEOREM CombosReturn == ASSUME RoomForAll PROVE ComboSpec => []ComboKeysReturn
<1>1. ComboInit => ComboInv
  BY ComboInvInit
<1>2. ComboInv /\ [ComboNext]_comboVars => ComboInv'
  BY ComboInvStep
<1>3. ComboInv => ComboKeysReturn
  BY ComboInvReturns
<1> QED  BY <1>1, <1>2, <1>3, PTL DEF ComboSpec

\* Where every combo fits into the buffer of combos, those that take effect together
\* have no key in common: process_single_combo drops all but one of those that do.
THEOREM OneTakesEffect == ASSUME RoomForAll PROVE ComboSpec => OneOfOverlapping
<1>1. ComboInit => ComboInv
  BY ComboInvInit
<1>2. ComboInv /\ [ComboNext]_comboVars => ComboInv'
  BY ComboInvStep
<1>3. ComboInv /\ [ComboNext]_comboVars
        => [\A c, d \in cb'.combos \ cb.combos : c # d => ~Overlap(c, d)]_cb
  BY ComboInvStep, NewOnesAreApart
<1> QED  BY <1>1, <1>2, <1>3, PTL DEF ComboSpec, OneOfOverlapping

-----------------------------------------------------------------------------
(* No press is lost *)

ChordKeys == UNION {ComboKeys[c] : c \in Combo}

(* What the array lengths leave room for: every key of a combo can be held back. *)
RoomForKeys == Cardinality(ChordKeys) <= KeyBufferLength

\* What a combo that is not active knows to be down is held back.
Held(b) ==
  /\ Range(b.keys) \subseteq ChordKeys
  /\ \A c \in Combo : ~b.active[c] => b.state[c] \subseteq Range(b.keys)

\* Every combo that would be applied has all its keys down.
NothingStale == \A c \in Applied(cb) : Full(cb, c)

LEMMA ChordKeysFinite == IsFiniteSet(ChordKeys)
<1> DEFINE U == {ComboKeys[c] : c \in Combo}
<1>1. IsFiniteSet(Combo)
  BY CombosAre, FS_Interval
<1>2. IsFiniteSet(U)
  <2>1. ComboKeys \in [Combo -> U] /\ \A S \in U : \E c \in Combo : ComboKeys[c] = S
    <3>1. ComboKeys \in [Combo -> SUBSET ComboKey]
      BY CombosAre, ComboAssumption, LenProperties
    <3> QED  BY <3>1
  <2> HIDE DEF U
  <2>2. ComboKeys \in Surjection(Combo, U)
    BY <2>1 DEF Surjection
  <2> QED  BY <1>1, <2>2, FS_Surjection
<1>3. \A S \in U : IsFiniteSet(S)
  BY ComboAssumption
<1> HIDE DEF U
<1>4. IsFiniteSet(UNION U)
  BY <1>2, <1>3, FS_UNION
<1> QED  BY <1>4 DEF U, ChordKeys

LEMMA RoomForKey ==
  ASSUME RoomForKeys, NEW s \in Seq(ComboKey), NEW k \in ComboKey, Distinct(s), k \notin Range(s),
         Range(s) \cup {k} \subseteq ChordKeys
  PROVE  Len(s) < KeyBufferLength
<1> DEFINE u == Append(s, k)
<1>1. u \in Seq(ComboKey) /\ Len(u) = Len(s) + 1 /\ Range(u) = Range(s) \cup {k} /\ Distinct(u)
  BY AppendIs
<1> HIDE DEF u
<1>2. /\ Len(u) \in Nat /\ DOMAIN u = 1 .. Len(u) /\ Len(s) \in Nat
      /\ u \in [1 .. Len(u) -> ChordKeys]
  <2>1. /\ Len(u) \in Nat /\ DOMAIN u = 1 .. Len(u) /\ Len(s) \in Nat
        /\ Range(u) = {u[i] : i \in 1 .. Len(u)} /\ u \in [1 .. Len(u) -> ComboKey]
    BY <1>1, SequenceIs, LenProperties
  <2>2. \A i \in 1 .. Len(u) : u[i] \in ChordKeys
    BY <1>1, <2>1
  <2> QED  BY <2>1, <2>2
<1>3. /\ IsFiniteSet(ChordKeys) /\ Cardinality(ChordKeys) \in Nat
      /\ IsFiniteSet(1 .. Len(u)) /\ Cardinality(1 .. Len(u)) = Len(u)
  <2>1. \A n \in Nat : IsFiniteSet(1 .. n) /\ Cardinality(1 .. n) = n
    BY FS_Interval
  <2> QED  BY <1>2, <2>1, ChordKeysFinite, FS_CardinalityType
<1>4. ~(Cardinality(ChordKeys) < Cardinality(1 .. Len(u)))
  <2> SUFFICES ASSUME Cardinality(ChordKeys) < Cardinality(1 .. Len(u)) PROVE FALSE
    OBVIOUS
  <2>1. \E x, y \in 1 .. Len(u) : x # y /\ u[x] = u[y]
    BY <1>2, <1>3, FS_PigeonHole
  <2> QED  BY <1>1, <1>2, <2>1 DEF Distinct
<1>5. KeyBufferLength \in Nat
  BY ConstantsAre
<1> QED  BY <1>1, <1>2, <1>3, <1>4, <1>5 DEF RoomForKeys

LEMMA FlushingHolds ==
  ASSUME NEW b, NEW A, NEW r, Flushed(b, A, r)
  PROVE  Held(r)
<1>1. Fit(r) /\ Range(r.keys) = {}
  BY EmptyIs DEF Flushed
<1> QED  BY <1>1 DEF Flushed, Held

LEMMA HoldingBackHolds ==
  ASSUME RoomForKeys, NEW a, Fit(a), NEW d, Accounted(a, d), Held(a),
         NEW k \in ComboKey, k \notin d, NEW p,
         Pressed(a, k, Len(ComboKeys), p), p.part, NEW r, HeldBack(p.b, k, r)
  PROVE  Held(r)
<1>1. /\ Fit(p.b) /\ p.b.keys = a.keys /\ p.b.active = a.active
      /\ \A c \in Combo : p.b.state[c] \subseteq a.state[c] \cup {k}
      /\ k \in ChordKeys
  BY DEF Pressed, ChordKeys
<1>2. /\ a.keys \in Seq(ComboKey) /\ Distinct(a.keys) /\ k \notin Range(a.keys)
      /\ Range(a.keys) \cup {k} \subseteq ChordKeys
  BY <1>1, FitParts DEF Accounted, Account, Held
<1>3. Len(a.keys) < KeyBufferLength
  BY <1>2, RoomForKey
<1>4. r.keys = Append(a.keys, k) /\ r.state = p.b.state /\ r.active = p.b.active
  BY <1>1, <1>3 DEF HeldBack
<1> DEFINE s == Append(a.keys, k)
<1>5. Range(s) = Range(a.keys) \cup {k}
  BY <1>2, AppendIs
<1>6. r.keys = s
  BY <1>4
<1> HIDE DEF s
<1> QED  BY <1>1, <1>2, <1>4, <1>5, <1>6 DEF Held

\* What was held back is seen by the host as a key or within a combo.
LEMMA LetGoIsSeen ==
  ASSUME NEW a, Fit(a), NEW d, Accounted(a, d), Held(a), \A c \in Applied(a) : Full(a, c),
         NEW b, b.keys = a.keys, Distinct(b.ready), NEW A, A \subseteq Applied(a),
         NEW r, Flushed(b, A, r), NEW i \in DOMAIN a.keys
  PROVE  a.keys[i] \in r.down \/ \E c \in r.combos : a.keys[i] \in ComboKeys[c]
<1>1. A \subseteq Combo /\ \A c \in A : Full(a, c)
  BY FitParts, SequenceIs DEF Applied
<1>2. Len(a.keys) \in Nat /\ Range(a.keys) = {a.keys[j] : j \in 1 .. Len(a.keys)}
  BY FitParts, SequenceIs
<1>3. CASE Free(b, A, i)
  BY <1>3 DEF Flushed
<1>4. CASE ~Free(b, A, i)
  <2>1. PICK c \in A : a.keys[i] \in ComboKeys[c]
    BY <1>4 DEF Free, Takes
  <2>2. ComboKeys[c] \subseteq Range(a.keys)
    <3>1. ~a.active[c]
      BY <1>1 DEF Accounted, Account, Calm, Full
    <3> QED  BY <1>1, <3>1 DEF Held, Full
  <2>3. Done(b, A, c)
    BY <1>2, <2>2 DEF Done, Completes
  <2>4. \A e \in A : e # c => ~Overlap(c, e)
    BY <1>1 DEF Accounted, Chords
  <2>5. c \in r.combos
    BY <1>1, <2>3, <2>4 DEF Alone, Flushed
  <2> QED  BY <2>1, <2>5
<1> QED  BY <1>3, <1>4

\* The presses held back that this step lets go, if it does, are seen by the host.
PressesKept ==
  \A i \in DOMAIN cb.keys :
    LET k == cb.keys[i]
    IN cb'.keys = <<>> /\ k \in keysDown'
         => k \in cb'.down \/ \E c \in cb'.combos : k \in ComboKeys[c]

LEMMA PressStep ==
  ASSUME RoomForAll, RoomForKeys, ComboInv, Held(cb), [ComboNext]_comboVars
  PROVE  /\ Held(cb')
         /\ NothingStale => PressesKept
         /\ Apart /\ ReadyFull(cb) => ReadyFull(cb')
<1>1. Fit(cb) /\ Calm(cb) /\ Accounted(cb, keysDown) /\ Basics
  BY ComboInvParts
<1>2. ASSUME NEW a, Retimed(cb, a)
      PROVE  /\ Accounted(a, keysDown) /\ Fit(a) /\ a.keys = cb.keys /\ Held(a)
             /\ NothingStale => \A c \in Applied(a) : Full(a, c)
             /\ ReadyFull(cb) => ReadyFull(a)
             /\ a.enabled = cb.enabled
  <2>1. Accounted(a, keysDown) /\ Fit(a)
    BY <1>1, <1>2, RetimedIsAccounted
  <2>2. NothingStale => \A c \in Applied(a) : Full(a, c)
    BY <1>2 DEF Retimed, NothingStale, Applied, Full
  <2> QED  BY <1>2, <2>1, <2>2 DEF Retimed, Held, ReadyFull, Full
<1>3. ASSUME NEW b, Fit(b) PROVE Applied(b) = {c \in Range(b.ready) : ~b.disabled[c]}
  BY DEF Applied
<1>4. ASSUME NEW b, ReadyFull(b) PROVE Range(b.ready) \subseteq Applied(b)
  BY <1>4 DEF ReadyFull, Full, Applied
<1>5. ASSUME NEW b, b.ready = <<>> PROVE ReadyFull(b)
  BY <1>5, EmptyIs DEF ReadyFull
<1>6. ASSUME NEW b, NEW x, b.keys # <<>> \/ b.keys = x.keys, NEW i \in DOMAIN x.keys,
             Fit(x)
      PROVE  b.keys # <<>>
  BY <1>6, FitParts, SequenceIs
<1>7. ASSUME NEW t \in 0 .. ComboGap, NEW k \in ComboKey, NEW zero \in {FALSE, ZeroReads},
             ComboKeyDown(k, t, zero)
      PROVE  /\ Held(cb') /\ (NothingStale => PressesKept)
             /\ Apart /\ ReadyFull(cb) => ReadyFull(cb')
  <2>1. k \notin keysDown /\ keysDown' = keysDown \cup {k} /\ PressEffect(k, zero)
    BY <1>1, <1>7, KeyDownIs
  <2>2. PICK a, p : /\ Retimed(cb, a) /\ Pressed(a, k, Len(ComboKeys), p)
                    /\ p.part => HeldBack(p.b, k, cb') /\ (~zero => cb'.timer = 0)
                    /\ ~p.part => \E r : /\ Flushed(p.b, Applied(p.b), r)
                                         /\ r.enabled = p.b.enabled
                                         /\ Reported(r, r.down \cup {k}, cb')
    BY <2>1 DEF PressEffect
  <2>3. Accounted(a, keysDown) /\ Fit(a) /\ a.keys = cb.keys /\ Held(a)
    BY <1>2, <2>2
  <2>4. p.part \in BOOLEAN /\ Fit(p.b) /\ p.b.keys = a.keys /\ (~p.part => p.b = a)
    BY <2>2 DEF Pressed
  <2>5. CASE p.part
    <3>1. HeldBack(p.b, k, cb')
      BY <2>2, <2>5
    <3>2. Held(cb')
      BY <2>1, <2>2, <2>3, <2>5, <3>1, HoldingBackHolds
    <3>3. PressesKept
      <4>1. cb'.keys = Append(cb.keys, k) \/ cb'.keys = cb.keys
        BY <2>3, <2>4, <3>1 DEF HeldBack
      <4>2. Append(cb.keys, k) # <<>>
        <5>1. cb.keys \in Seq(ComboKey)
          BY <1>1, FitParts
        <5> DEFINE s == Append(cb.keys, k)
        <5>2. s \in Seq(ComboKey) /\ Len(s) = Len(cb.keys) + 1 /\ Len(cb.keys) \in Nat
          BY <5>1, AppendIs, SequenceIs
        <5> HIDE DEF s
        <5>3. Len(s) # 0
          BY <5>2
        <5>4. s # <<>>
          BY <5>2, <5>3, SequenceIs
        <5> QED  BY <5>4 DEF s
      <4>3. \A i \in DOMAIN cb.keys : cb'.keys # <<>>
        <5>1. \A i \in DOMAIN cb.keys : cb.keys # <<>>
          BY <1>1, <1>6
        <5> QED  BY <4>1, <4>2, <5>1
      <4> QED  BY <4>3 DEF PressesKept
    <3>4. ASSUME Apart, ReadyFull(cb) PROVE ReadyFull(cb')
      <4>1. ReadyFull(a)
        BY <1>2, <2>2, <3>4
      <4>2. Sober(a, k)
        BY <2>1, <2>3, <3>4, <4>1 DEF Sober, Accounted, Account, Chords
      <4>3. ReadyFull(p.b)
        BY <2>2, <4>2 DEF Pressed
      <4> QED  BY <3>1, <4>3 DEF HeldBack, ReadyFull, Full
    <3> QED  BY <3>2, <3>3, <3>4
  <2>6. CASE ~p.part
    <3>1. PICK r : Flushed(a, Applied(a), r) /\ Reported(r, r.down \cup {k}, cb')
      BY <2>2, <2>4, <2>6
    <3>2. Held(cb')
      <4>1. Held(r)
        BY <3>1, FlushingHolds
      <4> QED  BY <3>1, <4>1 DEF Reported, Held
    <3>3. ASSUME NothingStale PROVE PressesKept
      <4>1. \A c \in Applied(a) : Full(a, c)
        BY <1>2, <2>2, <3>3
      <4>2. Distinct(a.ready)
        BY <2>3 DEF Accounted, Chords
      <4> DEFINE A == Applied(a)
      <4>3. A \subseteq Applied(a) /\ Flushed(a, A, r)
        BY <3>1
      <4> HIDE DEF A
      <4>4. \A i \in DOMAIN a.keys :
              a.keys[i] \in r.down \/ \E c \in r.combos : a.keys[i] \in ComboKeys[c]
        BY <2>3, <4>1, <4>2, <4>3, LetGoIsSeen
      <4>5. r.down \subseteq cb'.down /\ cb'.combos = r.combos
        BY <3>1 DEF Reported
      <4> QED  BY <2>3, <4>4, <4>5 DEF PressesKept
    <3>4. ASSUME ReadyFull(cb) PROVE ReadyFull(cb')
      <4>1. Range(a.ready) \subseteq Applied(a)
        BY <1>2, <1>4, <2>2, <3>4
      <4>2. cb'.ready = <<>>
        BY <3>1, <4>1 DEF Flushed, Reported
      <4> QED  BY <1>5, <4>2
    <3> QED  BY <3>2, <3>3, <3>4
  <2> QED  BY <2>4, <2>5, <2>6
<1>8. ASSUME NEW t \in 0 .. ComboGap, NEW k \in ComboKey, ComboKeyUp(k, t)
      PROVE  /\ Held(cb') /\ (NothingStale => PressesKept)
             /\ Apart /\ ReadyFull(cb) => ReadyFull(cb')
  <2>1. k \in keysDown /\ keysDown' = keysDown \ {k}
    BY <1>1, <1>8, KeyUpDoes
  <2>2. PICK a, p, r : /\ Retimed(cb, a) /\ Released(a, k, Len(ComboKeys), p)
                       /\ Flushed(p.b, Applied(p.b), r)
                       /\ p.part => cb' = r
                       /\ ~p.part => Reported(r, r.down \ {k}, cb')
    BY <1>1, <1>8, KeyUpDoes
  <2>3. Accounted(a, keysDown) /\ Fit(a) /\ a.keys = cb.keys /\ Held(a)
    BY <1>2, <2>2
  <2>4. /\ p.part \in BOOLEAN /\ Fit(p.b) /\ p.b.keys = a.keys /\ p.b.disabled = a.disabled
        /\ Range(p.b.ready) \subseteq Range(a.ready) /\ (Distinct(a.ready) => Distinct(p.b.ready))
    BY <2>2 DEF Released
  <2>5. /\ cb'.combos = r.combos /\ cb'.keys = r.keys /\ cb'.active = r.active
        /\ cb'.state = r.state /\ cb'.ready = r.ready /\ r.down \ {k} \subseteq cb'.down
    BY <2>2, <2>4 DEF Reported
  <2>6. Held(cb')
    <3>1. Held(r)
      BY <2>2, FlushingHolds
    <3> QED  BY <2>5, <3>1 DEF Held
  <2>7. ASSUME NothingStale PROVE PressesKept
    <3>1. \A c \in Applied(a) : Full(a, c)
      BY <1>2, <2>2, <2>7
    <3>2. Distinct(p.b.ready)
      BY <2>3, <2>4 DEF Accounted, Chords
    <3> DEFINE A == Applied(p.b)
               b == p.b
    <3>3. A \subseteq Applied(a) /\ Flushed(b, A, r) /\ b.keys = a.keys /\ Distinct(b.ready)
      BY <2>2, <2>4, <3>2 DEF Applied
    <3> HIDE DEF A, b
    <3>4. \A i \in DOMAIN a.keys :
            a.keys[i] \in r.down \/ \E c \in r.combos : a.keys[i] \in ComboKeys[c]
      BY <2>3, <3>1, <3>3, LetGoIsSeen
    <3> QED  BY <2>1, <2>3, <2>5, <3>4 DEF PressesKept
  <2>8. ASSUME ReadyFull(cb) PROVE ReadyFull(cb')
    <3>1. \A c \in Range(a.ready) : ~a.disabled[c]
      BY <1>2, <2>2, <2>8 DEF ReadyFull, Full
    <3>2. Range(p.b.ready) \subseteq Applied(p.b)
      BY <2>4, <3>1 DEF Applied
    <3>3. cb'.ready = <<>>
      BY <2>2, <2>5, <3>2 DEF Flushed
    <3> QED  BY <1>5, <3>3
  <2> QED  BY <2>6, <2>7, <2>8
<1>9. ASSUME NEW a, Retimed(cb, a), NEW A, A \subseteq Applied(a), Flushed(a, A, cb')
      PROVE  Held(cb') /\ (NothingStale => PressesKept)
  <2>1. Held(cb')
    BY <1>9, FlushingHolds
  <2>2. Accounted(a, keysDown) /\ Fit(a) /\ a.keys = cb.keys /\ Held(a) /\ Distinct(a.ready)
    BY <1>2, <1>9 DEF Accounted, Chords
  <2>3. ASSUME NothingStale PROVE PressesKept
    <3>1. \A c \in Applied(a) : Full(a, c)
      BY <1>2, <1>9, <2>3
    <3>2. \A i \in DOMAIN a.keys :
            a.keys[i] \in cb'.down \/ \E c \in cb'.combos : a.keys[i] \in ComboKeys[c]
      BY <1>9, <2>2, <3>1, LetGoIsSeen
    <3> QED  BY <2>2, <3>2 DEF PressesKept
  <2> QED  BY <2>1, <2>3
<1>10. ASSUME NEW a, Retimed(cb, a), SameCombos(a, cb')
       PROVE  Held(cb') /\ PressesKept /\ (ReadyFull(cb) => ReadyFull(cb'))
  <2>1. Held(a) /\ a.keys = cb.keys /\ (ReadyFull(cb) => ReadyFull(a))
    BY <1>2, <1>10
  <2>2. Held(cb') /\ (ReadyFull(cb) => ReadyFull(cb'))
    BY <1>10, <2>1 DEF SameCombos, Held, ReadyFull, Full
  <2>3. cb'.keys = cb.keys
    BY <1>10, <2>1 DEF SameCombos
  <2>4. \A i \in DOMAIN cb.keys : cb'.keys # <<>>
    BY <1>1, <1>6, <2>3
  <2> QED  BY <2>2, <2>4 DEF PressesKept
<1>11. ASSUME NEW t \in 0 .. ComboGap, ComboToggle(t)
       PROVE  /\ Held(cb') /\ (NothingStale => PressesKept)
              /\ Apart /\ ReadyFull(cb) => ReadyFull(cb')
  <2>1. PICK a : /\ Retimed(cb, a)
                 /\ IF a.enabled THEN Flushed(a, {}, cb') /\ ~cb'.enabled /\ cb'.ready = <<>>
                    ELSE SameCombos(a, cb') /\ cb'.enabled
    BY <1>1, <1>11, ToggleDoes
  <2>2. CASE a.enabled
    BY <1>5, <1>9, <2>1, <2>2
  <2>3. CASE ~a.enabled
    BY <1>10, <2>1, <2>3
  <2> QED  BY <2>2, <2>3
<1>12. ASSUME NEW t \in 0 .. ComboGap, ComboTask(t)
       PROVE  /\ Held(cb') /\ (NothingStale => PressesKept)
              /\ Apart /\ ReadyFull(cb) => ReadyFull(cb')
  <2>1. PICK a : Retimed(cb, a) /\ (cb' = a \/ Flushed(a, Applied(a), cb'))
    BY <1>1, <1>12, TaskDoes
  <2>2. CASE cb' = a
    <3>1. SameCombos(a, cb')
      BY <1>2, <2>1, <2>2 DEF SameCombos
    <3> QED  BY <1>10, <2>1, <3>1
  <2>3. CASE Flushed(a, Applied(a), cb')
    <3>1. Held(cb') /\ (NothingStale => PressesKept)
      BY <1>9, <2>1, <2>3
    <3>2. ASSUME ReadyFull(cb) PROVE ReadyFull(cb')
      <4>1. Range(a.ready) \subseteq Applied(a)
        BY <1>2, <1>4, <2>1, <3>2
      <4>2. cb'.ready = <<>>
        BY <2>3, <4>1 DEF Flushed
      <4> QED  BY <1>5, <4>2
    <3> QED  BY <3>1, <3>2
  <2> QED  BY <2>1, <2>2, <2>3
<1>13. CASE UNCHANGED comboVars
  <2>1. cb' = cb
    BY <1>13 DEF comboVars
  <2>2. \A i \in DOMAIN cb.keys : cb'.keys # <<>>
    BY <1>1, <1>6, <2>1
  <2> QED  BY <2>1, <2>2 DEF PressesKept
<1> QED  BY <1>7, <1>8, <1>11, <1>12, <1>13 DEF ComboNext

LEMMA HeldInit == ComboInit => Held(cb) /\ ReadyFull(cb)
<1> SUFFICES ASSUME ComboInit PROVE Held(cb) /\ ReadyFull(cb)
  OBVIOUS
<1>1. cb.keys = <<>> /\ cb.ready = <<>> /\ cb.state = [c \in Combo |-> {}]
  BY DEF ComboInit
<1> QED  BY <1>1, EmptyIs DEF Held, ReadyFull

LEMMA ReadyFullIsFresh == ReadyFull(cb) => NothingStale
BY DEF ReadyFull, NothingStale, Applied

\* "Apply combo's result keycode to the last chord key of the combo and disable the
\* other keys": where the buffers have room and no combo that would be applied has
\* lost a key, a press that was held back is let go as a key or within a combo.
THEOREM NoFreshPressLost ==
  ASSUME RoomForAll, RoomForKeys
  PROVE  ComboSpec /\ []NothingStale => NoPressLost
<1>1. ComboInit => ComboInv /\ Held(cb)
  BY ComboInvInit, HeldInit
<1>2. ComboInv /\ Held(cb) /\ [ComboNext]_comboVars => (ComboInv /\ Held(cb))'
  BY ComboInvStep, PressStep
<1>3. ComboInv /\ Held(cb) /\ NothingStale /\ [ComboNext]_comboVars => [PressesKept]_comboVars
  BY PressStep
<1>4. [][PressesKept]_comboVars => NoPressLost
  BY DEF PressesKept, NoPressLost
<1> QED  BY <1>1, <1>2, <1>3, <1>4, PTL DEF ComboSpec

\* Where moreover no two combos of the keymap share a key, none is ever applied that
\* has lost a key: no press is lost.
THEOREM NoPressLostApart ==
  ASSUME RoomForAll, RoomForKeys, Apart
  PROVE  ComboSpec => NoPressLost
<1>1. ComboInit => ComboInv /\ Held(cb) /\ ReadyFull(cb)
  BY ComboInvInit, HeldInit
<1>2. ComboInv /\ Held(cb) /\ ReadyFull(cb) /\ [ComboNext]_comboVars
        => (ComboInv /\ Held(cb) /\ ReadyFull(cb))'
  BY ComboInvStep, PressStep DEF ReadyFull, Held, Full
<1>3. ComboInv /\ Held(cb) /\ ReadyFull(cb) /\ [ComboNext]_comboVars => [PressesKept]_comboVars
  BY PressStep, ReadyFullIsFresh
<1>4. [][PressesKept]_comboVars => NoPressLost
  BY DEF PressesKept, NoPressLost
<1> QED  BY <1>1, <1>2, <1>3, <1>4, PTL DEF ComboSpec

=============================================================================
