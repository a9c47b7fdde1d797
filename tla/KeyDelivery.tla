---------------------------- MODULE KeyDelivery ----------------------------
(***************************************************************************)
(* What the tapping layer promises the rest of the firmware: every switch  *)
(* transition the matrix reports is delivered to process_record() once, a  *)
(* key's own transitions in the order they happened, however long and in   *)
(* whatever order across keys the tap-or-hold decision makes them wait.    *)
(*                                                                         *)
(* Two exceptions are part of the promise.  A key that is down may be      *)
(* released early, when another key's press is the next of its transitions *)
(* to be delivered: that press interrupts a repeating tap.  And when more  *)
(* transitions wait than the layer has room for, and only then, all of     *)
(* them are forgotten at once and every key that is down is let go.        *)
(***************************************************************************)
EXTENDS Integers, Sequences, FiniteSets

CONSTANTS
  Key,
  Capacity      \* the most transitions that may wait

VARIABLES
  matrix,       \* the keys whose switch is closed
  undelivered,  \* per key, the transitions not delivered yet; TRUE is a press
  down          \* the keys whose press has taken effect and whose release has not

vars == <<matrix, undelivered, down>>

Init ==
  /\ matrix = {}
  /\ undelivered = [k \in Key |-> <<>>]
  /\ down = {}

\* The transitions that wait: of each key the first, the second and so on.
Owed == UNION {{k} \X DOMAIN undelivered[k] : k \in Key}

\* The switch of key k opens or closes.  What the layer has no room for is dealt
\* with before the next switch is read.
Sense(k) ==
  /\ Cardinality(Owed) <= Capacity
  /\ matrix' = IF k \in matrix THEN matrix \ {k} ELSE matrix \cup {k}
  /\ undelivered' = [undelivered EXCEPT ![k] = Append(@, k \notin matrix)]
  /\ UNCHANGED down

\* What may happen to key k while the firmware works through its backlog.
Waits(k) == undelivered'[k] = undelivered[k] /\ (k \in down' <=> k \in down)

Delivered(k) ==
  /\ undelivered[k] # <<>>
  /\ undelivered'[k] = Tail(undelivered[k])
  /\ k \in down' <=> Head(undelivered[k])

\* The next transition of another key is a press.
Interrupted(k) ==
  \E j \in Key \ {k} : undelivered[j] # <<>> /\ Head(undelivered[j])

LetGo(k) ==
  /\ Interrupted(k)
  /\ undelivered'[k] = undelivered[k] /\ k \in down /\ k \notin down'

Deliver ==
  /\ \A k \in Key : Waits(k) \/ Delivered(k) \/ LetGo(k)
  /\ DOMAIN undelivered' = Key
  /\ down' \subseteq Key
  /\ UNCHANGED matrix

\* There is no room for what waits.
Overflow ==
  /\ Cardinality(Owed) > Capacity
  /\ undelivered' = [k \in Key |-> <<>>]
  /\ down' = {}
  /\ UNCHANGED matrix

Next == (\E k \in Key : Sense(k)) \/ Deliver \/ Overflow

Spec == Init /\ [][Next]_vars

=============================================================================
