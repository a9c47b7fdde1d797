---------------------------- MODULE SplitEncoder ----------------------------
(***************************************************************************)
(* Encoders on the other half of a split keyboard: quantum/encoder.c and   *)
(* the encoder handlers of quantum/split_common/transactions.c.  The other *)
(* half queues the turns of its encoders and publishes a copy of the whole *)
(* queue; the half at the host reads the copy when its checksum is a new   *)
(* one, carries out the turns in it, and then tells the other half to drop *)
(* its queue, which does so when its loop comes round.                     *)
(*                                                                         *)
(* Turns are numbered, so that a queue is the interval from what has been  *)
(* dequeued to what has been enqueued: the counters that make the queue's  *)
(* contents, and with them its checksum, change with every event.          *)
(*                                                                         *)
(* carried, twice, missed, overlapped and full are history.                *)
(***************************************************************************)
EXTENDS Naturals

CONSTANTS
  EncoderQueue,  \* MAX_QUEUED_ENCODER_EVENTS, one slot of which stays free
  MaxTurns       \* bound: how often the encoder is turned

ASSUME EncoderAssumption ==
  EncoderQueue \in Nat /\ EncoderQueue > 1 /\ MaxTurns \in Nat

VARIABLES
  queue,       \* encoder_events of the other half
  drainSignal, \* signal_queue_drain
  otherAt,     \* where the main loop of the other half is
  shown,       \* what it last published
  copy,        \* split_shmem->encoders.events of the half at the host
  lastSum,     \* last_checksum, as the contents it was taken of
  eventsSum,   \* and split_shmem->encoders.checksum
  hostAt,      \* what the half at the host does next
  carried,     \* the newest turn that was carried out
  twice,       \* some turn was carried out twice
  missed,      \* some turn was dropped before it was carried out
  overlapped,  \* a turn was queued behind one that had not been dropped yet
  full         \* a queue had no room for a turn

encoderVars ==
  <<queue, drainSignal, otherAt, shown, copy, lastSum, eventsSum, hostAt,
    carried, twice, missed, overlapped, full>>

Turns == 0 .. MaxTurns
EventsIn == [dequeued : Turns, enqueued : Turns]
NoEvents == [dequeued |-> 0, enqueued |-> 0]
Waits(q) == q.enqueued - q.dequeued

EncoderInit ==
  /\ queue = NoEvents /\ shown = NoEvents /\ copy = NoEvents
  /\ lastSum = NoEvents /\ eventsSum = NoEvents
  /\ drainSignal = FALSE /\ otherAt = "encoders" /\ hostAt = "checksum"
  /\ carried = 0
  /\ twice = FALSE /\ missed = FALSE /\ overlapped = FALSE /\ full = FALSE

-----------------------------------------------------------------------------
(* The other half's main loop *)

hostVars == <<copy, lastSum, eventsSum, hostAt, carried, twice>>

Drained == IF drainSignal THEN [queue EXCEPT !.dequeued = queue.enqueued] ELSE queue

\* encoder_task: a signalled drain, then turned says whether the driver sees a turn.
EncoderTask(turned) ==
  /\ otherAt = "encoders" /\ otherAt' = "publish"
  /\ drainSignal' = FALSE
  /\ missed' = (missed \/ (drainSignal /\ queue.enqueued > carried))
  /\ \/ /\ ~turned
        /\ queue' = Drained
        /\ UNCHANGED <<overlapped, full>>
     \/ /\ turned /\ queue.enqueued < MaxTurns
        /\ Waits(Drained) < EncoderQueue - 1
        /\ queue' = [Drained EXCEPT !.enqueued = @ + 1]
        /\ overlapped' = (overlapped \/ Waits(Drained) > 0)
        /\ UNCHANGED full
     \/ /\ turned /\ Waits(Drained) = EncoderQueue - 1
        /\ queue' = Drained /\ full' = TRUE
        /\ UNCHANGED overlapped
  /\ UNCHANGED <<shown, hostVars>>

\* encoder_handlers_slave, under the lock of the shared memory.
ShowEvents ==
  /\ otherAt = "publish" /\ otherAt' = "encoders"
  /\ shown' = queue
  /\ UNCHANGED <<queue, drainSignal, hostVars, missed, overlapped, full>>

-----------------------------------------------------------------------------
(* The half at the host.  A transaction that fails is tried again at once or *)
(* at the next scan, which makes no difference here.                         *)

otherVars == <<queue, drainSignal, otherAt, shown, missed, overlapped>>

\* Mutant: every successful read is worked off.
NewsAlways(sum) == TRUE

News(sum) == lastSum # sum

\* encoder_handlers_master with events read, which have checksum sum: room is
\* what its own queue takes.  The turn that finds it full is dequeued all the same.
WorkOff(sum, events, room) ==
  LET last == events.dequeued + (IF room < Waits(events) THEN room ELSE Waits(events))
      more == events.enqueued > last
  IN /\ lastSum' = sum
     /\ \/ /\ ~News(sum)
           /\ copy' = events /\ hostAt' = "checksum"
           /\ UNCHANGED <<carried, twice, full>>
        \/ /\ News(sum)
           /\ copy' = [events EXCEPT !.dequeued = IF more THEN last + 1 ELSE last]
           /\ carried' = IF last > carried THEN last ELSE carried
           /\ twice' = (twice \/ (last > events.dequeued /\ events.dequeued < carried))
           /\ full' = (full \/ more)
           /\ hostAt' = IF Waits(events) > 0 THEN "drain" ELSE "checksum"

\* read_if_checksum_mismatch: the events are read when the checksum is not that
\* of the copy, or the last transfer is long ago (due).
ReadEventsSum(due, room) ==
  /\ hostAt = "checksum"
  /\ eventsSum' = shown
  /\ \/ /\ due \/ shown # copy
        /\ hostAt' = "events"
        /\ UNCHANGED <<copy, lastSum, carried, twice, full>>
     \/ /\ ~due /\ shown = copy
        /\ WorkOff(shown, copy, room)
  /\ UNCHANGED otherVars

ReadEvents(room) ==
  /\ hostAt = "events"
  /\ \/ /\ shown = eventsSum
        /\ WorkOff(eventsSum, shown, room)
     \/ /\ shown # eventsSum
        /\ copy' = shown /\ hostAt' = "checksum"
        /\ UNCHANGED <<lastSum, carried, twice, full>>
     \/ /\ hostAt' = "checksum"
        /\ UNCHANGED <<copy, lastSum, carried, twice, full>>
  /\ UNCHANGED <<eventsSum, otherVars>>

\* CMD_ENCODER_DRAIN, which may fail before or after it has been carried out.
SignalDrain ==
  /\ hostAt = "drain" /\ hostAt' = "checksum"
  /\ drainSignal' \in {drainSignal, TRUE}
  /\ UNCHANGED <<queue, otherAt, shown, copy, lastSum, eventsSum, carried, twice,
                 missed, overlapped, full>>

EncoderNext ==
  \/ \E turned \in BOOLEAN : EncoderTask(turned)
  \/ ShowEvents
  \/ \E due \in BOOLEAN, room \in 0 .. EncoderQueue - 1 : ReadEventsSum(due, room)
  \/ \E room \in 0 .. EncoderQueue - 1 : ReadEvents(room)
  \/ SignalDrain

EncoderSpec == EncoderInit /\ [][EncoderNext]_encoderVars

-----------------------------------------------------------------------------
(* Properties *)

EncoderTypeOK ==
  /\ {queue, shown, copy, lastSum, eventsSum} \subseteq EventsIn
  /\ Waits(queue) \in 0 .. EncoderQueue - 1
  /\ otherAt \in {"encoders", "publish"} /\ hostAt \in {"checksum", "events", "drain"}
  /\ carried \in Turns
  /\ <<drainSignal, twice, missed, overlapped, full>>
        \in BOOLEAN \X BOOLEAN \X BOOLEAN \X BOOLEAN \X BOOLEAN

\* A turn is carried out once, although the queue it was read from is dropped
\* later, by a signal that may fail, and is read again in the meantime: as long
\* as turns come one at a time.  A turn behind one that has not been dropped may
\* be lost with it or may bring it up a second time.
TurnOnce == ~overlapped /\ ~full => ~twice /\ ~missed
=============================================================================
