---------------------------- MODULE SplitProofs ----------------------------
(***************************************************************************)
(* What is proved of the halves of a split keyboard: of the transfer of    *)
(* matrices, for any matrices, checksums, limits and times, and of the     *)
(* encoders of the other half, whose turns are carried out once and not    *)
(* lost, for any queue, as long as they come one at a time.                *)
(***************************************************************************)
EXTENDS SplitLink, SplitEncoder, TLAPS

-----------------------------------------------------------------------------
(* The link *)

\* TypeOK is inductive once it is known that a read is one of the attempts left.
AttemptsLeft == step \in {"checksum", "data"} => tries > 0

LEMMA StillEnoughType == StillEnough \in Nat \ {0}
<1>1. SyncThrottle \in Nat /\ CheckTimeout \in Nat \ {0} /\ SplitGap \in Nat \ {0}
  BY SplitAssumption
<1> QED BY <1>1 DEF StillEnough

LEMMA CappedType ==
  ASSUME NEW t \in Nat, NEW max \in Nat PROVE Capped(t, max) \in 0 .. max
BY DEF Capped

LEMMA CappedFull ==
  ASSUME NEW t \in Nat, NEW max \in Nat, t >= max PROVE Capped(t, max) = max
BY DEF Capped

\* Everything keeps its type.
THEOREM SplitTypesCorrect == SplitSpec => [](SplitTypeOK /\ AttemptsLeft)
<1>1. SplitInit => SplitTypeOK /\ AttemptsLeft
  <2> SUFFICES ASSUME SplitInit PROVE SplitTypeOK /\ AttemptsLeft
    OBVIOUS
  <2>1. 0 \in 0 .. ErrorsMax /\ 0 \in 0 .. SyncThrottle /\ 0 \in 0 .. CheckTimeout
    BY SplitAssumption
  <2>2. 0 \in 0 .. Retries /\ 0 \in 0 .. StillEnough
    BY SplitAssumption, StillEnoughType
  <2>3. NoKeys \in Image /\ NoKeys \in Image \cup Garbled
    BY SplitAssumption
  <2> QED BY <2>1, <2>2, <2>3 DEF SplitInit, SplitTypeOK, AttemptsLeft
<1>2. SplitTypeOK /\ AttemptsLeft /\ [SplitNext]_splitVars => SplitTypeOK' /\ AttemptsLeft'
  <2> SUFFICES ASSUME SplitTypeOK, AttemptsLeft, [SplitNext]_splitVars
               PROVE SplitTypeOK' /\ AttemptsLeft'
    OBVIOUS
  <2> USE SplitAssumption, StillEnoughType DEF SplitTypeOK, AttemptsLeft, linkVars
  <2>1. ASSUME NEW image \in Image, Publish(image) PROVE SplitTypeOK' /\ AttemptsLeft'
    BY <2>1 DEF Publish
  <2>2. ASSUME NEW t \in 0 .. SplitGap, BeginScan(t) PROVE SplitTypeOK' /\ AttemptsLeft'
    <3>1. /\ sinceCheck + t \in Nat /\ lastUpdate + t \in Nat /\ still + t \in Nat
          /\ CheckTimeout \in Nat /\ SyncThrottle \in Nat /\ StillEnough \in Nat
      OBVIOUS
    <3>2. /\ Capped(sinceCheck + t, CheckTimeout) \in 0 .. CheckTimeout
          /\ Capped(lastUpdate + t, SyncThrottle) \in 0 .. SyncThrottle
          /\ Capped(still + t, StillEnough) \in 0 .. StillEnough
      BY <3>1, CappedType
    <3>3. /\ tries' \in 0 .. Retries /\ tries' > 0
          /\ step' \in {"checksum", "lost"}
          /\ published' \subseteq Image
      BY <2>2 DEF BeginScan
    <3> QED BY <2>2, <3>2, <3>3 DEF BeginScan
  <2>3. CASE ReadChecksum
    BY <2>3 DEF ReadChecksum, TryAgain
  <2>4. CASE ReadData
    BY <2>4 DEF ReadData, TryAgain
  <2>5. CASE OtherTransactions
    BY <2>5 DEF OtherTransactions
  <2>6. CASE EndGood
    BY <2>6 DEF EndGood, Accept
  <2>7. CASE EndBad
    <3>1. errors' \in 0 .. ErrorsMax
      BY <2>7 DEF EndBad
    <3>2. sinceCheck' \in 0 .. CheckTimeout
      BY <2>7 DEF EndBad
    <3>3. half' \in Image \cup Garbled /\ wasConnected' \in BOOLEAN
      BY <2>7 DEF EndBad, Accept, Reject
    <3> QED BY <2>7, <3>1, <3>2, <3>3 DEF EndBad
  <2>8. CASE EndLost
    BY <2>8 DEF EndLost, Reject
  <2>9. CASE UNCHANGED splitVars
    BY <2>9 DEF splitVars
  <2> QED BY <2>1, <2>2, <2>3, <2>4, <2>5, <2>6, <2>7, <2>8, <2>9 DEF SplitNext
<1> QED BY <1>1, <1>2, PTL DEF SplitSpec

-----------------------------------------------------------------------------
(* Keys of the other half *)

\* A half without keys is what a lost half has left, and what a half that was
\* never connected has.
LostIsEmpty ==
  /\ ~Connected => half = NoKeys
  /\ ~wasConnected => half = NoKeys

\* A half that is taken to be lost holds no keys.
THEOREM LostKeysAreLetGo == SplitSpec => []LostHalfLetsGo
<1>1. SplitInit => LostIsEmpty
  BY DEF SplitInit, LostIsEmpty
<1>2. SplitTypeOK /\ LostIsEmpty /\ [SplitNext]_splitVars => LostIsEmpty'
  <2> SUFFICES ASSUME SplitTypeOK, LostIsEmpty, [SplitNext]_splitVars PROVE LostIsEmpty'
    OBVIOUS
  <2> USE SplitAssumption DEF SplitTypeOK, LostIsEmpty, Connected, linkVars
  <2>1. ASSUME NEW image \in Image, Publish(image) PROVE LostIsEmpty'
    BY <2>1 DEF Publish
  <2>2. ASSUME NEW t \in 0 .. SplitGap, BeginScan(t) PROVE LostIsEmpty'
    BY <2>2 DEF BeginScan
  <2>3. CASE ReadChecksum
    BY <2>3 DEF ReadChecksum
  <2>4. CASE ReadData
    BY <2>4 DEF ReadData
  <2>5. CASE OtherTransactions
    BY <2>5 DEF OtherTransactions
  <2>6. CASE EndGood
    BY <2>6 DEF EndGood, Accept
  <2>7. CASE EndBad
    BY <2>7 DEF EndBad, Accept, Reject
  <2>8. CASE EndLost
    BY <2>8 DEF EndLost, Reject
  <2>9. CASE UNCHANGED splitVars
    BY <2>9 DEF splitVars
  <2> QED BY <2>1, <2>2, <2>3, <2>4, <2>5, <2>6, <2>7, <2>8, <2>9 DEF SplitNext
<1>3. LostIsEmpty => LostHalfLetsGo
  BY DEF LostIsEmpty, LostHalfLetsGo
<1> QED BY <1>1, <1>2, <1>3, SplitTypesCorrect, PTL DEF SplitSpec

\* The other half has shown, in this scan, something with the checksum of image.
ShownAs(image) == \E other \in published : Crc[other] = Crc[image]

\* What a read of the checksum found, what may be accepted because of it, and
\* what was accepted before.
FromChecksum ==
  /\ there \in published
  /\ step = "data" => \E other \in published : Crc[other] = sum
  /\ step \in {"others", "done"} => ShownAs(lastMatrix)
  /\ step = "lost" => ~Connected
  /\ Connected => lastMatrix = half \/ ShownAs(lastMatrix)
  /\ Connected /\ step = "idle" => lastMatrix = half

\* Keys of the other half come and go only with the half itself, or because it
\* showed a matrix with the checksum of what is accepted in the same scan.
THEOREM KeysAreShown == SplitSpec => HeldThroughErrors
<1>1. SplitInit => FromChecksum
  BY SplitAssumption DEF SplitInit, FromChecksum, ShownAs
<1>2. SplitTypeOK /\ FromChecksum /\ [SplitNext]_splitVars => FromChecksum'
  <2> SUFFICES ASSUME SplitTypeOK, FromChecksum, [SplitNext]_splitVars PROVE FromChecksum'
    OBVIOUS
  <2> USE SplitAssumption DEF SplitTypeOK, FromChecksum, Connected, linkVars, ShownAs
  <2>1. ASSUME NEW image \in Image, Publish(image) PROVE FromChecksum'
    BY <2>1 DEF Publish
  <2>2. ASSUME NEW t \in 0 .. SplitGap, BeginScan(t) PROVE FromChecksum'
    BY <2>2 DEF BeginScan
  <2>3. CASE ReadChecksum
    BY <2>3 DEF ReadChecksum, TryAgain
  <2>4. CASE ReadData
    BY <2>4 DEF ReadData, TryAgain, Believed
  <2>5. CASE OtherTransactions
    BY <2>5 DEF OtherTransactions
  <2>6. CASE EndGood
    BY <2>6 DEF EndGood, Accept
  <2>7. CASE EndBad
    BY <2>7 DEF EndBad, Accept, Reject
  <2>8. CASE EndLost
    BY <2>8 DEF EndLost, Reject
  <2>9. CASE UNCHANGED splitVars
    BY <2>9 DEF splitVars
  <2> QED BY <2>1, <2>2, <2>3, <2>4, <2>5, <2>6, <2>7, <2>8, <2>9 DEF SplitNext
<1>3. SplitTypeOK /\ FromChecksum /\ [SplitNext]_splitVars
        => [half' # half => ~Connected' \/ \E image \in published : Crc[image] = Crc[half']]_<<half, step>>
  <2> SUFFICES ASSUME SplitTypeOK, FromChecksum, [SplitNext]_splitVars, half' # half, Connected'
               PROVE \E image \in published : Crc[image] = Crc[half']
    OBVIOUS
  <2> USE SplitAssumption DEF SplitTypeOK, FromChecksum, Connected, linkVars, ShownAs
  <2>1. CASE EndGood
    BY <2>1 DEF EndGood, Accept
  <2>2. CASE EndBad
    BY <2>2 DEF EndBad, Accept
  <2>3. CASE EndLost
    BY <2>3 DEF EndLost, Reject
  <2> QED
    BY <2>1, <2>2, <2>3
    DEF SplitNext, Publish, BeginScan, ReadChecksum, ReadData, OtherTransactions, splitVars
<1> QED BY <1>1, <1>2, <1>3, SplitTypesCorrect, PTL DEF SplitSpec, HeldThroughErrors

-----------------------------------------------------------------------------
(* Forced synchronisation *)

Known == shmem = there /\ lastMatrix = there

\* Nothing has failed, arrived garbled or changed for still: until the matrix is
\* known the time of its last transfer, and of the last attempt at a lost half,
\* is at least as long ago; so a transfer, and an attempt, become due.
BecomesDue ==
  /\ Known \/ lastUpdate = SyncThrottle \/ lastUpdate >= still
  /\ ~Connected => sinceCheck = CheckTimeout \/ sinceCheck >= still
  /\ step = "failed" => still = 0
  /\ step = "lost" => ~Connected /\ sinceCheck < CheckTimeout
  /\ step \in {"others", "done"} => Known \/ lastUpdate < SyncThrottle \/ still = 0
  /\ step = "idle" /\ ~Connected => still < CheckTimeout
  /\ step = "idle" /\ Connected /\ still > 0 /\ still >= SyncThrottle => Known /\ half = there

\* However checksums collide, a half that has been still for a forced
\* synchronisation and a reconnection is known.
THEOREM StillHalfIsKnown == SplitSpec => []ForcedSync
<1>1. SplitInit => BecomesDue
  BY SplitAssumption DEF SplitInit, BecomesDue, Known, Connected
<1>2. SplitTypeOK /\ AttemptsLeft /\ BecomesDue /\ [SplitNext]_splitVars => BecomesDue'
  <2> SUFFICES ASSUME SplitTypeOK, BecomesDue, [SplitNext]_splitVars PROVE BecomesDue'
    OBVIOUS
  <2> USE SplitAssumption, StillEnoughType DEF SplitTypeOK, BecomesDue, Known, Connected, linkVars
  <2>1. ASSUME NEW image \in Image, Publish(image) PROVE BecomesDue'
    BY <2>1 DEF Publish
  <2>2. ASSUME NEW t \in 0 .. SplitGap, BeginScan(t) PROVE BecomesDue'
    <3>1. /\ lastUpdate' = SyncThrottle \/ lastUpdate' = lastUpdate + t
          /\ sinceCheck' = CheckTimeout \/ sinceCheck' = sinceCheck + t
          /\ still' <= still + t
          /\ still' \in Nat /\ still + t \in Nat
      BY <2>2, StillEnoughType DEF BeginScan, Capped
    <3>2. lastUpdate \in Nat /\ sinceCheck \in Nat /\ still \in Nat /\ t \in Nat
      OBVIOUS
    <3>3. Known' <=> Known
      BY <2>2 DEF BeginScan
    <3>4. Known' \/ lastUpdate' = SyncThrottle \/ lastUpdate' >= still'
      <4>1. CASE Known
        BY <4>1, <3>3
      <4>2. CASE lastUpdate = SyncThrottle
        <5>1. lastUpdate + t >= SyncThrottle /\ lastUpdate + t \in Nat /\ SyncThrottle \in Nat
          BY <4>2
        <5>2. Capped(lastUpdate + t, SyncThrottle) = SyncThrottle
          BY <5>1, CappedFull
        <5> QED BY <5>2, <2>2 DEF BeginScan
      <4>3. CASE lastUpdate >= still
        BY <4>3, <3>1, <3>2
      <4> QED BY <4>1, <4>2, <4>3
    <3>5. ~Connected' => sinceCheck' = CheckTimeout \/ sinceCheck' >= still'
      <4>1. CASE sinceCheck = CheckTimeout
        <5>1. sinceCheck + t >= CheckTimeout /\ sinceCheck + t \in Nat /\ CheckTimeout \in Nat
          BY <4>1
        <5>2. Capped(sinceCheck + t, CheckTimeout) = CheckTimeout
          BY <5>1, CappedFull
        <5> QED BY <5>2, <2>2 DEF BeginScan
      <4>2. CASE sinceCheck >= still
        BY <4>2, <3>1, <3>2
      <4> QED BY <4>1, <4>2, <2>2 DEF BeginScan
    <3>6. /\ step' \in {"checksum", "lost"}
          /\ step' = "lost" => ~Connected' /\ sinceCheck' # CheckTimeout
          /\ sinceCheck' \in 0 .. CheckTimeout
      BY <2>2, CappedType DEF BeginScan, Capped
    <3> QED BY <3>4, <3>5, <3>6
  <2>3. CASE ReadChecksum
    BY <2>3 DEF ReadChecksum, TryAgain, TransferDue
  <2>4. CASE ReadData
    BY <2>4 DEF ReadData, TryAgain
  <2>5. CASE OtherTransactions
    BY <2>5 DEF OtherTransactions
  <2>6. CASE EndGood
    BY <2>6 DEF EndGood, Accept
  <2>7. CASE EndBad
    <3>1. /\ still' = 0 /\ step' = "idle" /\ sinceCheck' \in {0, sinceCheck}
          /\ lastUpdate' = lastUpdate /\ Known' = Known
          /\ sinceCheck' \in Nat /\ lastUpdate' \in Nat
      BY <2>7 DEF EndBad
    <3> QED BY <3>1
  <2>8. CASE EndLost
    BY <2>8 DEF EndLost
  <2>9. CASE UNCHANGED splitVars
    BY <2>9 DEF splitVars
  <2> QED BY <2>1, <2>2, <2>3, <2>4, <2>5, <2>6, <2>7, <2>8, <2>9 DEF SplitNext
<1>3. SplitTypeOK /\ BecomesDue => ForcedSync
  <2>1. StillEnough >= SyncThrottle /\ StillEnough >= CheckTimeout /\ StillEnough > 0
    BY SplitAssumption DEF StillEnough
  <2> QED BY <2>1, SplitAssumption, StillEnoughType DEF SplitTypeOK, BecomesDue, ForcedSync
<1> QED BY <1>1, <1>2, <1>3, SplitTypesCorrect, PTL DEF SplitSpec

-----------------------------------------------------------------------------
(* The encoders *)


\* Every copy of the queue keeps to its type, and has dequeued no more than has
\* been enqueued.
TypeInv ==
  /\ EncoderTypeOK
  /\ \A q \in {queue, shown, copy, lastSum, eventsSum} : q.dequeued <= q.enqueued

\* What the half at the host has believed or been shown is older than the queue.
Older ==
  /\ lastSum.dequeued <= shown.dequeued /\ lastSum.enqueued <= shown.enqueued
  /\ shown.dequeued <= queue.dequeued /\ shown.enqueued <= queue.enqueued

\* No queue holds more than one turn.
OneWaits == \A q \in {queue, shown, lastSum} : Waits(q) <= 1

\* The turns carried out are those of the last queue worked off, and no others
\* have been dropped.
CarriedOut == carried = lastSum.enqueued /\ queue.dequeued <= carried

\* A queue that is shown with a new turn is still the queue.
NewIsCurrent == shown.enqueued > carried => queue = shown

\* A drain, signalled or about to be, finds nothing but the turn carried out.
DrainsCarried ==
  /\ drainSignal => queue.enqueued = carried
  /\ hostAt = "drain" => ~drainSignal /\ Waits(queue) > 0 /\ queue.enqueued = carried

OneAtATime ==
  /\ ~twice /\ ~missed
  /\ Older /\ OneWaits /\ CarriedOut /\ NewIsCurrent /\ DrainsCarried

IInv == TypeInv /\ (~overlapped /\ ~full => OneAtATime)

-----------------------------------------------------------------------------
(* Types *)

LEMMA TypeInit == EncoderInit => TypeInv
  <1> SUFFICES ASSUME EncoderInit PROVE TypeInv
    OBVIOUS
  <1>1. NoEvents \in EventsIn /\ NoEvents.dequeued <= NoEvents.enqueued
        /\ Waits(NoEvents) \in 0 .. EncoderQueue - 1 /\ 0 \in Turns
    BY EncoderAssumption DEF NoEvents, EventsIn, Turns, Waits
  <1> QED BY <1>1 DEF EncoderInit, TypeInv, EncoderTypeOK

LEMMA WorkOffTypes ==
  ASSUME TypeInv, NEW room \in 0 .. EncoderQueue - 1,
         NEW events \in EventsIn, events.dequeued <= events.enqueued,
         NEW newSum \in EventsIn, WorkOff(newSum, events, room)
  PROVE  /\ copy' \in EventsIn /\ copy'.dequeued <= copy'.enqueued
         /\ lastSum' = newSum
         /\ hostAt' \in {"checksum", "drain"}
         /\ carried' \in Turns
         /\ twice' \in BOOLEAN /\ full' \in BOOLEAN
  <1>1. CASE ~News(newSum)
    BY <1>1 DEF WorkOff, TypeInv, EncoderTypeOK
  <1>2. CASE News(newSum)
    <2> DEFINE last == events.dequeued + (IF room < Waits(events) THEN room ELSE Waits(events))
               more == events.enqueued > last
    <2>1. /\ lastSum' = newSum
          /\ copy' = [events EXCEPT !.dequeued = IF more THEN last + 1 ELSE last]
          /\ carried' = IF last > carried THEN last ELSE carried
          /\ twice' = (twice \/ (last > events.dequeued /\ events.dequeued < carried))
          /\ full' = (full \/ more)
          /\ hostAt' = IF Waits(events) > 0 THEN "drain" ELSE "checksum"
      BY <1>2 DEF WorkOff
    <2>2. last \in Turns /\ last <= events.enqueued
      BY EncoderAssumption DEF EventsIn, Turns, Waits
    <2>3. (IF more THEN last + 1 ELSE last) \in Turns
          /\ (IF more THEN last + 1 ELSE last) <= events.enqueued
      BY <2>2, EncoderAssumption DEF EventsIn, Turns
    <2>4. copy' \in EventsIn /\ copy'.dequeued <= copy'.enqueued
      BY <2>1, <2>3 DEF EventsIn
    <2>5. carried' \in Turns
      BY <2>1, <2>2 DEF TypeInv, EncoderTypeOK
    <2> HIDE DEF last, more
    <2> QED BY <2>1, <2>4, <2>5
  <1> QED BY <1>1, <1>2

LEMMA TypeStep == TypeInv /\ [EncoderNext]_encoderVars => TypeInv'
  <1> SUFFICES ASSUME TypeInv, [EncoderNext]_encoderVars PROVE TypeInv'
    OBVIOUS
  <1>1. ASSUME NEW turned \in BOOLEAN, EncoderTask(turned) PROVE TypeInv'
    <2>1. Drained \in EventsIn /\ Drained.dequeued <= Drained.enqueued
          /\ Drained.enqueued = queue.enqueued /\ Waits(Drained) \in 0 .. EncoderQueue - 1
      BY EncoderAssumption DEF Drained, TypeInv, EncoderTypeOK, EventsIn, Turns, Waits
    <2>2. queue' \in EventsIn /\ queue'.dequeued <= queue'.enqueued
          /\ Waits(queue') \in 0 .. EncoderQueue - 1
      BY <1>1, <2>1, EncoderAssumption
      DEF EncoderTask, TypeInv, EncoderTypeOK, EventsIn, Turns, Waits
    <2> QED BY <1>1, <2>2 DEF EncoderTask, hostVars, TypeInv, EncoderTypeOK, Waits
  <1>2. ASSUME ShowEvents PROVE TypeInv'
    BY <1>2 DEF ShowEvents, hostVars, TypeInv, EncoderTypeOK, Waits
  <1>3. ASSUME NEW due \in BOOLEAN, NEW room \in 0 .. EncoderQueue - 1, ReadEventsSum(due, room)
        PROVE  TypeInv'
    <2>1. CASE hostAt' = "events" /\ UNCHANGED <<copy, lastSum, carried, twice, full>>
      BY <1>3, <2>1 DEF ReadEventsSum, otherVars, TypeInv, EncoderTypeOK, Waits
    <2>2. CASE WorkOff(shown, copy, room)
      <3>1. copy \in EventsIn /\ copy.dequeued <= copy.enqueued /\ shown \in EventsIn
        BY DEF TypeInv, EncoderTypeOK
      <3> QED BY <1>3, <2>2, <3>1, WorkOffTypes
              DEF ReadEventsSum, otherVars, TypeInv, EncoderTypeOK, Waits
    <2> QED BY <1>3, <2>1, <2>2 DEF ReadEventsSum
  <1>4. ASSUME NEW room \in 0 .. EncoderQueue - 1, ReadEvents(room) PROVE TypeInv'
    <2>1. CASE WorkOff(eventsSum, shown, room)
      <3>1. shown \in EventsIn /\ shown.dequeued <= shown.enqueued /\ eventsSum \in EventsIn
        BY DEF TypeInv, EncoderTypeOK
      <3> QED BY <1>4, <2>1, <3>1, WorkOffTypes
              DEF ReadEvents, otherVars, TypeInv, EncoderTypeOK, Waits
    <2>2. CASE /\ hostAt' = "checksum" /\ copy' \in {copy, shown}
               /\ UNCHANGED <<lastSum, carried, twice, full>>
      BY <1>4, <2>2 DEF ReadEvents, otherVars, TypeInv, EncoderTypeOK, Waits
    <2> QED BY <1>4, <2>1, <2>2 DEF ReadEvents
  <1>5. ASSUME SignalDrain PROVE TypeInv'
    BY <1>5 DEF SignalDrain, TypeInv, EncoderTypeOK, Waits
  <1>6. ASSUME UNCHANGED encoderVars PROVE TypeInv'
    BY <1>6 DEF encoderVars, TypeInv, EncoderTypeOK, Waits
  <1> QED BY <1>1, <1>2, <1>3, <1>4, <1>5, <1>6 DEF EncoderNext

-----------------------------------------------------------------------------
(* One turn at a time *)

\* In numbers, what IInv says of the queues.
LEMMA Numbers ==
  ASSUME TypeInv
  PROVE  /\ queue \in EventsIn /\ shown \in EventsIn /\ lastSum \in EventsIn
         /\ queue.dequeued \in Nat /\ queue.enqueued \in Nat
         /\ shown.dequeued \in Nat /\ shown.enqueued \in Nat
         /\ lastSum.dequeued \in Nat /\ lastSum.enqueued \in Nat
         /\ carried \in Nat
         /\ queue.dequeued <= queue.enqueued /\ shown.dequeued <= shown.enqueued
         /\ lastSum.dequeued <= lastSum.enqueued
  BY EncoderAssumption DEF TypeInv, EncoderTypeOK, EventsIn, Turns

\* Queues that were dropped and added to alike are the same.
LEMMA SameEvents ==
  ASSUME NEW q \in EventsIn, NEW r \in EventsIn,
         q.dequeued = r.dequeued, q.enqueued = r.enqueued
  PROVE  q = r
  BY DEF EventsIn

\* A queue with a turn in it that is news has a turn that was not carried out,
\* is still the queue, and no drain is under way.
LEMMA NewsIsNew ==
  ASSUME TypeInv, OneAtATime, News(shown), Waits(shown) > 0
  PROVE  /\ shown.enqueued > carried /\ shown.dequeued >= carried
         /\ queue = shown /\ ~drainSignal
  <1>1. shown.enqueued > carried
    <2>1. SUFFICES ASSUME shown.enqueued = lastSum.enqueued PROVE FALSE
      BY Numbers DEF OneAtATime, Older, CarriedOut
    <2>2. shown.dequeued = lastSum.dequeued
      BY <2>1, Numbers DEF OneAtATime, Older, OneWaits, Waits
    <2> QED BY <2>1, <2>2, Numbers, SameEvents DEF News
  <1>2. shown.dequeued >= carried
    BY <1>1, Numbers DEF OneAtATime, OneWaits, Waits
  <1>3. queue = shown
    BY <1>1 DEF OneAtATime, NewIsCurrent
  <1>4. ~drainSignal
    BY <1>1, <1>3, Numbers DEF OneAtATime, DrainsCarried
  <1> QED BY <1>1, <1>2, <1>3, <1>4

\* A queue that was once full for a turn stays recorded as such.
LEMMA WorkOffFull ==
  ASSUME NEW newSum, NEW events, NEW room, WorkOff(newSum, events, room), full \in BOOLEAN, ~full'
  PROVE  ~full
  BY Zenon DEF WorkOff

LEMMA WorkOffOnce ==
  ASSUME TypeInv, OneAtATime, hostAt # "drain",
         NEW room \in 0 .. EncoderQueue - 1, WorkOff(shown, shown, room),
         UNCHANGED otherVars, ~full'
  PROVE  OneAtATime'
  <1>1. lastSum' = shown /\ UNCHANGED <<queue, shown, drainSignal, missed>>
    BY DEF WorkOff, otherVars
  <1>2. Older' /\ OneWaits'
    BY <1>1, Numbers DEF OneAtATime, Older, OneWaits
  <1>3. CASE ~News(shown)
    <2>1. lastSum' = lastSum /\ hostAt' = "checksum" /\ UNCHANGED <<carried, twice>>
      BY <1>1, <1>3 DEF WorkOff, News
    <2> QED BY <1>1, <1>2, <2>1 DEF OneAtATime, CarriedOut, NewIsCurrent, DrainsCarried
  <1>4. CASE News(shown)
    <2> DEFINE last == shown.dequeued + (IF room < Waits(shown) THEN room ELSE Waits(shown))
    <2>1. /\ carried' = IF last > carried THEN last ELSE carried
          /\ twice' = (twice \/ (last > shown.dequeued /\ shown.dequeued < carried))
          /\ ~(shown.enqueued > last)
          /\ hostAt' = IF Waits(shown) > 0 THEN "drain" ELSE "checksum"
      BY <1>4 DEF WorkOff
    <2>2. last = shown.enqueued
      BY <2>1, Numbers, EncoderAssumption DEF Waits
    <2>3. carried <= shown.enqueued
      BY Numbers DEF OneAtATime, Older, CarriedOut
    <2>4. carried' = shown.enqueued
      BY <2>1, <2>2, <2>3, Numbers
    <2>5. ~twice'
      <3>1. ~(last > shown.dequeued /\ shown.dequeued < carried)
        BY <2>2, NewsIsNew, Numbers, <1>4 DEF Waits
      <3>2. ~twice /\ twice \in BOOLEAN
        BY DEF OneAtATime, TypeInv, EncoderTypeOK
      <3> HIDE DEF last
      <3> QED BY <2>1, <3>1, <3>2
    <2>6. CarriedOut' /\ NewIsCurrent'
      BY <1>1, <2>3, <2>4, Numbers DEF OneAtATime, CarriedOut, NewIsCurrent
    <2>7. CASE Waits(shown) > 0
      <3>1. queue = shown /\ ~drainSignal
        BY <2>7, <1>4, NewsIsNew
      <3> QED BY <1>1, <1>2, <2>4, <2>5, <2>6, <2>7, <3>1 DEF OneAtATime, DrainsCarried, Waits
    <2>8. CASE ~(Waits(shown) > 0)
      <3>1. hostAt' = "checksum"
        BY <2>1, <2>8
      <3>2. drainSignal => queue.enqueued = carried'
        BY <2>3, <2>4, Numbers DEF OneAtATime, DrainsCarried, Older
      <3> QED BY <1>1, <1>2, <2>5, <2>6, <3>1, <3>2 DEF OneAtATime, DrainsCarried
    <2> QED BY <2>7, <2>8
  <1> QED BY <1>3, <1>4

LEMMA TaskOnce ==
  ASSUME TypeInv, OneAtATime,
         NEW turned \in BOOLEAN, EncoderTask(turned), ~overlapped', ~full'
  PROVE  OneAtATime'
  <1>1. /\ ~drainSignal' /\ UNCHANGED <<shown, lastSum, carried, twice, hostAt>>
        /\ missed' = (missed \/ (drainSignal /\ queue.enqueued > carried))
    BY DEF EncoderTask, hostVars
  <1>2. ~missed'
    <2>1. ~(drainSignal /\ queue.enqueued > carried)
      BY Numbers DEF OneAtATime, DrainsCarried
    <2>2. ~missed /\ missed \in BOOLEAN
      BY DEF OneAtATime, TypeInv, EncoderTypeOK
    <2> QED BY <1>1, <2>1, <2>2
  <1>3. /\ Drained \in EventsIn
        /\ Drained.dequeued = IF drainSignal THEN queue.enqueued ELSE queue.dequeued
        /\ Drained.enqueued = queue.enqueued
    BY Numbers DEF Drained, EventsIn
  <1>4. Drained.dequeued \in Nat /\ Drained.enqueued \in Nat
        /\ Drained.dequeued >= queue.dequeued /\ Drained.dequeued <= carried
    BY <1>3, Numbers DEF OneAtATime, CarriedOut, DrainsCarried
  <1>5. \/ queue' = Drained
        \/ /\ queue' = [Drained EXCEPT !.enqueued = @ + 1]
           /\ ~(Waits(Drained) > 0)
    BY DEF EncoderTask
  <1>6. /\ queue'.dequeued = Drained.dequeued
        /\ queue'.enqueued \in {Drained.enqueued, Drained.enqueued + 1}
        /\ queue'.enqueued # Drained.enqueued => ~(Waits(Drained) > 0)
    BY <1>3, <1>5 DEF EventsIn
  <1>7. Older' /\ OneWaits' /\ CarriedOut'
    BY <1>1, <1>3, <1>4, <1>6, Numbers DEF OneAtATime, Older, OneWaits, CarriedOut, Waits
  <1>8. NewIsCurrent'
    <2> SUFFICES ASSUME shown.enqueued > carried PROVE queue' = shown
      BY <1>1 DEF NewIsCurrent
    <2>1. queue = shown /\ ~drainSignal
      BY Numbers DEF OneAtATime, NewIsCurrent, DrainsCarried
    <2>2. Drained = queue
      BY <2>1 DEF Drained
    <2>3. Waits(queue) > 0
      BY <2>1, Numbers DEF OneAtATime, CarriedOut, Waits
    <2> QED BY <1>5, <2>1, <2>2, <2>3
  <1>9. DrainsCarried'
    <2> SUFFICES ASSUME hostAt = "drain"
                 PROVE  Waits(queue') > 0 /\ queue'.enqueued = carried
      BY <1>1 DEF DrainsCarried, Waits
    <2>1. ~drainSignal /\ Waits(queue) > 0 /\ queue.enqueued = carried
      BY DEF OneAtATime, DrainsCarried
    <2>2. queue' = queue
      BY <1>5, <2>1 DEF Drained
    <2> QED BY <2>1, <2>2
  <1> QED BY <1>1, <1>2, <1>7, <1>8, <1>9 DEF OneAtATime

LEMMA InvInit == EncoderInit => IInv
  <1> SUFFICES ASSUME EncoderInit PROVE IInv
    OBVIOUS
  <1>1. NoEvents.dequeued = 0 /\ NoEvents.enqueued = 0
    BY DEF NoEvents
  <1> QED BY TypeInit, <1>1
          DEF EncoderInit, IInv, OneAtATime, Older, OneWaits, CarriedOut, NewIsCurrent,
              DrainsCarried, Waits

LEMMA InvStep == IInv /\ [EncoderNext]_encoderVars => IInv'
  <1> SUFFICES ASSUME TypeInv, ~overlapped' /\ ~full',
                      ~overlapped /\ ~full => OneAtATime, [EncoderNext]_encoderVars
               PROVE  OneAtATime'
    BY TypeStep DEF IInv
  <1>0. overlapped \in BOOLEAN /\ full \in BOOLEAN
    BY DEF TypeInv, EncoderTypeOK
  <1>1. ASSUME NEW turned \in BOOLEAN, EncoderTask(turned) PROVE OneAtATime'
    <2>1. ~overlapped /\ ~full
      BY <1>1 DEF EncoderTask
    <2> QED BY <1>1, <2>1, TaskOnce
  <1>2. ASSUME ShowEvents PROVE OneAtATime'
    <2>1. /\ shown' = queue
          /\ UNCHANGED <<queue, drainSignal, lastSum, hostAt, carried, twice, missed>>
          /\ OneAtATime
      BY <1>2 DEF ShowEvents, hostVars
    <2> QED BY <2>1, Numbers
            DEF OneAtATime, Older, OneWaits, CarriedOut, NewIsCurrent, DrainsCarried, Waits
  <1>3. ASSUME NEW due \in BOOLEAN, NEW room \in 0 .. EncoderQueue - 1, ReadEventsSum(due, room)
        PROVE  OneAtATime'
    <2>1. UNCHANGED otherVars /\ hostAt = "checksum"
      BY <1>3 DEF ReadEventsSum
    <2>2. CASE hostAt' = "events" /\ UNCHANGED <<copy, lastSum, carried, twice, full>>
      BY <2>1, <2>2 DEF otherVars, OneAtATime, Older, OneWaits, CarriedOut, NewIsCurrent,
                        DrainsCarried, Waits
    <2>3. CASE shown = copy /\ WorkOff(shown, copy, room)
      <3>1. ~overlapped /\ ~full
        BY <1>0, <2>1, <2>3, WorkOffFull DEF otherVars
      <3> QED BY <2>1, <2>3, <3>1, WorkOffOnce
    <2> QED BY <1>3, <2>2, <2>3 DEF ReadEventsSum
  <1>4. ASSUME NEW room \in 0 .. EncoderQueue - 1, ReadEvents(room) PROVE OneAtATime'
    <2>1. UNCHANGED otherVars /\ hostAt = "events"
      BY <1>4 DEF ReadEvents
    <2>2. CASE hostAt' = "checksum" /\ UNCHANGED <<lastSum, carried, twice, full>>
      BY <2>1, <2>2 DEF otherVars, OneAtATime, Older, OneWaits, CarriedOut, NewIsCurrent,
                        DrainsCarried, Waits
    <2>3. CASE shown = eventsSum /\ WorkOff(eventsSum, shown, room)
      <3>1. ~overlapped /\ ~full
        BY <1>0, <2>1, <2>3, WorkOffFull DEF otherVars
      <3> QED BY <2>1, <2>3, <3>1, WorkOffOnce
    <2> QED BY <1>4, <2>2, <2>3 DEF ReadEvents
  <1>5. ASSUME SignalDrain PROVE OneAtATime'
    BY <1>5 DEF SignalDrain, OneAtATime, Older, OneWaits, CarriedOut, NewIsCurrent,
                DrainsCarried, Waits
  <1>6. ASSUME UNCHANGED encoderVars PROVE OneAtATime'
    BY <1>6 DEF encoderVars, OneAtATime, Older, OneWaits, CarriedOut, NewIsCurrent,
                DrainsCarried, Waits
  <1> QED BY <1>1, <1>2, <1>3, <1>4, <1>5, <1>6 DEF EncoderNext

\* Every variable of the encoder link keeps its type, whatever commands fail: a
\* queue never outgrows its ring, in the half at the host either.
THEOREM EncoderTypesCorrect == EncoderSpec => []EncoderTypeOK
  <1>1. TypeInv => EncoderTypeOK
    BY DEF TypeInv
  <1> QED BY TypeInit, TypeStep, <1>1, PTL DEF EncoderSpec

\* Turns that come one at a time are carried out once and none is lost, for any
\* queue and number of turns, however the drain command fails or is late.
THEOREM TurnsAreCarriedOutOnce == EncoderSpec => []TurnOnce
  <1>1. IInv => TurnOnce
    BY DEF IInv, OneAtATime, TurnOnce
  <1> QED BY InvInit, InvStep, <1>1, PTL DEF EncoderSpec
=============================================================================
