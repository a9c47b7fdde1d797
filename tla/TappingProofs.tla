--------------------------- MODULE TappingProofs ---------------------------
(***************************************************************************)
(* What the tapping state machine keeps true for every keymap, every pair  *)
(* of terms and every buffer size.                                         *)
(***************************************************************************)
EXTENDS Tapping, TLAPS, WellFoundedInduction, SequenceTheorems,
        FiniteSetTheorems

Times == 0 .. TimeMod - 1
Ticks == {TickAt(t) : t \in Times}

\* TypeOK is inductive once it is known that the drain loop only looks at a
\* buffer that holds something.
TypeInv == TypeOK /\ (pc = "drain" => buf # <<>>)

LEMMA TickType ==
  ASSUME NEW r \in Ticks
  PROVE  /\ ~IsEvent(r) /\ r.key = NoKey /\ ~r.pressed /\ r.count = 0
         /\ r.time \in Times /\ r.interrupted = FALSE
BY DEF Ticks, IsEvent, TickAt, NewRecord

LEMMA RecordType ==
  ASSUME NEW r \in Record
  PROVE  /\ IsEvent(r) /\ r.key \in Key /\ r.pressed \in BOOLEAN
         /\ r.count \in 0 .. MaxTap /\ r.time \in Times
         /\ r.interrupted \in BOOLEAN
BY KeysAssumption DEF Record, IsEvent, Times

LEMMA NoRecordType == ~IsEvent(NoRecord) /\ NoRecord \in Ticks
<1>1. 0 \in Times
  BY TermsAssumption DEF Times
<1> QED  BY <1>1, TickType DEF NoRecord, Ticks

\* The record process_tapping judges.
LEMMA RecType ==
  ASSUME TypeInv, Judging
  PROVE  /\ Rec \in Record \cup Ticks
         /\ pc = "drain" => Rec \in Record
         /\ IsEvent(Rec) => Rec \in Record
<1>1. CASE pc = "event"
  BY <1>1, TickType DEF TypeInv, TypeOK, Rec, Ticks, Times
<1>2. CASE pc = "drain"
  <2>1. buf \in Seq(Record) /\ buf # <<>>
    BY <1>2 DEF TypeInv, TypeOK
  <2>2. Head(buf) \in Record
    BY <2>1
  <2> QED  BY <1>2, <2>2 DEF Rec
<1> QED  BY <1>1, <1>2 DEF Judging

LEMMA ProcessedType ==
  ASSUME NEW reg \in [Key -> SUBSET Action], NEW r \in Record
  PROVE  Processed(reg, r) \in [Key -> SUBSET Action]
BY RecordType DEF Processed, Role, Action

LEMMA AfterProcessType ==
  ASSUME NEW r \in Record
  PROVE  AfterProcess(r) \in Record
BY TermsAssumption DEF AfterProcess, Record

LEMMA WithTapType ==
  ASSUME NEW r \in Record, NEW t \in Record
  PROVE  WithTap(r, t) \in Record
BY DEF WithTap, Record

\* The two ways process_tapping returns keep the types, given that the branch
\* has kept those of the tapping key and of the registered actions.
LEMMA DrainType ==
  ASSUME NEW b \in Seq(Record), Len(b) < BufferSize, Drain(b)
  PROVE  /\ buf' \in Seq(Record) /\ Len(buf') < BufferSize
         /\ pc' \in {"scan", "event", "drain"}
         /\ pc' = "drain" => buf' # <<>>
BY DEF Drain

LEMMA ConsumedType ==
  ASSUME TypeInv, Judging,
         NEW b \in Seq(Record), Len(b) = Len(buf), Consumed(b),
         tapping' \in Record \cup {NoRecord},
         registered' \in [Key -> SUBSET Action]
  PROVE  TypeInv'
<1>1. Len(buf) \in Nat /\ Len(buf) < BufferSize
  BY DEF TypeInv, TypeOK
<1>2. CASE pc = "event"
  BY <1>1, <1>2, DrainType, NoRecordType DEF Consumed, TypeInv, TypeOK, Ticks, Times
<1>3. CASE pc = "drain"
  <2>1. b # <<>>
    BY <1>3 DEF TypeInv, TypeOK
  <2>2. Tail(b) \in Seq(Record) /\ Len(Tail(b)) < BufferSize
    BY <2>1, <1>1, TermsAssumption
  <2> QED
    BY <1>3, <2>2, DrainType, NoRecordType DEF Consumed, TypeInv, TypeOK, Ticks, Times
<1> QED  BY <1>2, <1>3 DEF Judging

LEMMA KeptType ==
  ASSUME TypeInv, Judging,
         NEW r \in Record \cup Ticks, NEW t \in Record \cup {NoRecord},
         NEW reg \in [Key -> SUBSET Action],
         pc = "drain" => r \in Record, Kept(r, t, reg)
  PROVE  TypeInv'
<1>1. buf \in Seq(Record) /\ Len(buf) \in Nat /\ Len(buf) < BufferSize
  BY DEF TypeInv, TypeOK
<1>2. cur' \in Ticks /\ UNCHANGED <<build, now, ticked, matrix, moved>>
  BY NoRecordType DEF Kept
<1>3. IsEvent(r) => r \in Record
  BY TickType
<1>4. CASE pc = "drain"
  <2>1. buf # <<>>
    BY <1>4 DEF TypeInv
  <2>2. buf' = [buf EXCEPT ![1] = r] /\ pc' = "scan" /\ tapping' = t /\ registered' = reg
    BY <1>4 DEF Kept
  <2>3. buf' \in Seq(Record) /\ Len(buf') = Len(buf)
    BY <1>1, <1>4, <2>1, <2>2
  <2> QED  BY <1>1, <1>2, <2>2, <2>3 DEF TypeInv, TypeOK, Ticks, Times
<1>5. CASE pc = "event" /\ ~IsEvent(r)
  BY <1>1, <1>2, <1>5, DrainType DEF Kept, TypeInv, TypeOK, Ticks, Times
<1>6. CASE pc = "event" /\ IsEvent(r) /\ ~BufferFull
  <2>1. Append(buf, r) \in Seq(Record) /\ Len(Append(buf, r)) < BufferSize
    BY <1>1, <1>3, <1>6, TermsAssumption DEF BufferFull
  <2>2. Drain(Append(buf, r)) /\ tapping' = t /\ registered' = reg
    BY <1>6 DEF Kept
  <2> QED  BY <1>2, <2>1, <2>2, DrainType DEF TypeInv, TypeOK, Ticks, Times
<1>7. CASE pc = "event" /\ IsEvent(r) /\ BufferFull
  <2>1. Drain(<<>>) /\ tapping' = NoRecord /\ registered' = Cleared(reg)
    BY <1>7 DEF Kept
  <2>2. Cleared(reg) \in [Key -> SUBSET Action]
    BY DEF Cleared
  <2>3. <<>> \in Seq(Record) /\ Len(<<>>) < BufferSize
    BY TermsAssumption
  <2> QED  BY <1>2, <2>1, <2>2, <2>3, DrainType DEF TypeInv, TypeOK, Ticks, Times
<1> QED  BY <1>4, <1>5, <1>6, <1>7 DEF Judging

LEMMA BecomeTappingType ==
  ASSUME TypeInv, Judging, NEW r \in Record,
         NEW reg \in [Key -> SUBSET Action], BecomeTapping(r, reg)
  PROVE  TypeInv'
<1>1. buf \in Seq(Record)
  BY DEF TypeInv, TypeOK
<1>2. CASE tapping' = r /\ registered' = reg /\ Consumed(buf)
  BY <1>1, <1>2, ConsumedType
<1>3. ASSUME NEW i \in DOMAIN buf,
             tapping' = AfterProcess([r EXCEPT !.count = 1]),
             registered' = Processed(reg, [r EXCEPT !.count = 1]),
             Consumed([buf EXCEPT ![i].count = 1])
      PROVE  TypeInv'
  <2>1. [r EXCEPT !.count = 1] \in Record
    BY TermsAssumption DEF Record
  <2>2. [buf[i] EXCEPT !.count = 1] \in Record
    <3>1. buf[i] \in Record
      BY <1>1, <1>3
    <3> QED  BY <3>1, TermsAssumption DEF Record
  <2>3. /\ [buf EXCEPT ![i].count = 1] \in Seq(Record)
        /\ Len([buf EXCEPT ![i].count = 1]) = Len(buf)
    BY <1>1, <1>3, <2>2
  <2> QED  BY <1>3, <2>1, <2>3, ConsumedType, ProcessedType, AfterProcessType
<1> QED  BY <1>2, <1>3 DEF BecomeTapping

LEMMA InitType == Init => TypeInv
BY TermsAssumption, NoRecordType DEF Init, TypeInv, TypeOK, Times, Ticks, Action

LEMMA EventType ==
  ASSUME TypeInv,
         (\E k \in Key, d \in 0 .. MaxGap : KeyEvent(k, d))
           \/ (\E d \in 0 .. MaxGap : TickEvent(d))
  PROVE  TypeInv'
<1>1. \A d \in 0 .. MaxGap : (now + d) % TimeMod \in Times
  BY TermsAssumption DEF TypeInv, TypeOK, Times
<1>2. ASSUME NEW k \in Key, NEW d \in 0 .. MaxGap, KeyEvent(k, d)
      PROVE  TypeInv'
  <2>1. now' \in Times
    BY <1>1, <1>2 DEF KeyEvent, Receive
  <2>2. cur' \in Record
    <3>1. \A press \in BOOLEAN, t \in Times : NewRecord(k, press, t) \in Record
      BY TermsAssumption DEF NewRecord, Record, Times
    <3>2. (k \notin matrix) \in BOOLEAN
      OBVIOUS
    <3> QED  BY <1>2, <2>1, <3>1, <3>2 DEF KeyEvent, Receive
  <2>3. matrix' \in SUBSET Key /\ moved' \in SUBSET Key /\ ticked' \in BOOLEAN
    BY <1>2 DEF KeyEvent, TypeInv, TypeOK
  <2> QED  BY <1>2, <2>1, <2>2, <2>3 DEF KeyEvent, Receive, TypeInv, TypeOK, Times
<1>3. ASSUME NEW d \in 0 .. MaxGap, TickEvent(d)
      PROVE  TypeInv'
  <2>1. now' \in Times /\ cur' \in Ticks
    BY <1>1, <1>3 DEF TickEvent, Receive, Ticks, TickAt
  <2> QED  BY <1>3, <2>1 DEF TickEvent, Receive, TypeInv, TypeOK, Ticks, Times
<1> QED  BY <1>2, <1>3

\* One step per branch of process_tapping.
LEMMA ProcessTappingType ==
  ASSUME TypeInv, ProcessTapping
  PROVE  TypeInv'
<1>0. /\ buf \in Seq(Record) /\ Len(buf) = Len(buf)
      /\ registered \in [Key -> SUBSET Action]
      /\ tapping \in Record \cup {NoRecord}
      /\ IsEvent(tapping) => tapping \in Record
  BY NoRecordType DEF TypeInv, TypeOK
<1>1. CASE TickIgnored
  BY <1>0, <1>1, ConsumedType DEF TickIgnored
<1>2. CASE PassThrough
  <2>1. Judging /\ Rec \in Record
    BY <1>2, RecType DEF PassThrough, Idle
  <2> QED  BY <1>0, <1>2, <2>1, ConsumedType, ProcessedType DEF PassThrough
<1>3. CASE StartTapping
  <2>1. Judging /\ Rec \in Record
    BY <1>3, RecType, TickType DEF StartTapping, Idle, IsTapPress
  <2> QED  BY <1>0, <1>3, <2>1, BecomeTappingType DEF StartTapping
<1>4. CASE FirstTap
  <2>1. Judging /\ Rec \in Record /\ tapping \in Record
    BY <1>0, <1>4, RecType DEF FirstTap, Unsettled, Pressed
  <2>2. [tapping EXCEPT !.count = 1] \in Record
    BY <2>1, TermsAssumption DEF Record
  <2>3. AfterProcess([tapping EXCEPT !.count = 1]) \in Record
    BY <2>2, AfterProcessType
  <2>4. WithTap(Rec, AfterProcess([tapping EXCEPT !.count = 1])) \in Record
    BY <2>1, <2>3, WithTapType
  <2>5. Processed(registered, [tapping EXCEPT !.count = 1]) \in [Key -> SUBSET Action]
    BY <1>0, <2>2, ProcessedType
  <2> QED  BY <1>4, <2>1, <2>3, <2>4, <2>5, KeptType DEF FirstTap
<1>5. CASE NestedTap
  <2>1. Judging /\ Rec \in Record /\ tapping \in Record
    BY <1>0, <1>5, RecType DEF NestedTap, Unsettled, Pressed
  <2> QED  BY <1>0, <1>5, <2>1, KeptType, ProcessedType DEF NestedTap
<1>6. CASE EarlierKeyReleased
  <2>1. Judging /\ Rec \in Record /\ tapping \in Record
    BY <1>0, <1>6, RecType DEF EarlierKeyReleased, Unsettled, Pressed
  <2> QED
    BY <1>0, <1>6, <2>1, KeptType, ConsumedType, ProcessedType DEF EarlierKeyReleased
<1>7. CASE OtherKeyWaits
  <2>1. Judging /\ Rec \in Record /\ tapping \in Record
    BY <1>0, <1>7, RecType DEF OtherKeyWaits, Unsettled, Pressed
  <2>2. [tapping EXCEPT !.interrupted = TRUE] \in Record
    BY <2>1, TermsAssumption DEF Record
  <2> QED  BY <1>0, <1>7, <2>1, <2>2, KeptType, ProcessedType DEF OtherKeyWaits
<1>8. CASE HoldTimeout
  <2>1. Judging /\ tapping \in Record
    BY <1>0, <1>8 DEF HoldTimeout, Unsettled, Pressed
  <2> QED  BY <1>0, <1>8, <2>1, RecType, KeptType, ProcessedType DEF HoldTimeout
<1>9. CASE TapReleased
  <2>1. Judging /\ Rec \in Record /\ tapping \in Record
    BY <1>0, <1>9, RecType DEF TapReleased, Tapped, Pressed
  <2>2. WithTap(Rec, tapping) \in Record
    BY <2>1, WithTapType
  <2> QED  BY <1>0, <1>9, <2>1, <2>2, ConsumedType, ProcessedType DEF TapReleased
<1>10. CASE TapInterrupted
  <2>1. Judging /\ Rec \in Record /\ tapping \in Record
    BY <1>0, <1>10, RecType DEF TapInterrupted, Tapped, Pressed
  <2>2. [tapping EXCEPT !.pressed = FALSE, !.time = Rec.time] \in Record
    BY <2>1, TermsAssumption DEF Record
  <2> QED
    BY <1>0, <1>10, <2>1, <2>2, BecomeTappingType, ProcessedType DEF TapInterrupted
<1>11. CASE KeyDuringTap
  <2>1. Judging /\ Rec \in Record
    BY <1>11, RecType DEF KeyDuringTap, Tapped, Pressed
  <2> QED  BY <1>0, <1>11, <2>1, ConsumedType, ProcessedType DEF KeyDuringTap
<1>12. CASE TapAgain
  <2>1. Judging /\ Rec \in Record /\ tapping \in Record
    BY <1>0, <1>12, RecType DEF TapAgain, Released
  <2> DEFINE count == IF tapping.count < MaxTap THEN tapping.count + 1 ELSE MaxTap
             again == [Rec EXCEPT !.count = count]
  <2>2. count \in 0 .. MaxTap
    BY <2>1, TermsAssumption DEF Record
  <2>3. again \in Record
    BY <2>1, <2>2 DEF Record
  <2>4. Processed(registered, again) \in [Key -> SUBSET Action]
    BY <1>0, <2>3, ProcessedType
  <2>5. tapping' \in Record /\ registered' \in [Key -> SUBSET Action]
    BY <1>0, <1>12, <2>1, <2>3, <2>4 DEF TapAgain
  <2> QED  BY <1>0, <1>12, <2>1, <2>5, ConsumedType DEF TapAgain
<1>13. CASE OtherTapAfterTap
  <2>1. Judging /\ Rec \in Record
    BY <1>13, RecType, TickType DEF OtherTapAfterTap, Released, IsTapPress
  <2> QED  BY <1>0, <1>13, <2>1, BecomeTappingType DEF OtherTapAfterTap
<1>14. CASE KeyAfterTap
  <2>1. Judging /\ Rec \in Record /\ tapping \in Record
    BY <1>0, <1>14, RecType DEF KeyAfterTap, Released
  <2>2. [tapping EXCEPT !.interrupted = @ \/ Rec.pressed] \in Record
    BY <2>1, TermsAssumption DEF Record
  <2> QED  BY <1>0, <1>14, <2>1, <2>2, ConsumedType, ProcessedType DEF KeyAfterTap
<1>15. CASE ReleaseTimeout
  BY <1>0, <1>15, RecType, KeptType DEF ReleaseTimeout, Released
<1> QED
  BY <1>1, <1>2, <1>3, <1>4, <1>5, <1>6, <1>7, <1>8, <1>9, <1>10, <1>11, <1>12,
     <1>13, <1>14, <1>15 DEF ProcessTapping

\* Every record, time stamp and count stays in range, and the waiting buffer
\* never outgrows its ring: action_tapping.c's static state keeps its types
\* for every keymap, term and buffer size.
THEOREM TypeCorrect == Spec => []TypeOK
<1>1. TypeInv /\ [Next]_vars => TypeInv'
  <2> SUFFICES ASSUME TypeInv, [Next]_vars PROVE TypeInv'
    OBVIOUS
  <2>1. CASE Next
    BY <2>1, EventType, ProcessTappingType DEF Next
  <2>2. CASE UNCHANGED vars
    BY <2>2 DEF TypeInv, TypeOK, vars
  <2> QED  BY <2>1, <2>2
<1>2. TypeInv => TypeOK
  BY DEF TypeInv
<1> QED  BY InitType, <1>1, <1>2, PTL DEF Spec

-----------------------------------------------------------------------------
(* A key that settles on another key's press is never an interrupted tap. *)

\* A press that waits still has the empty tap state it arrived with.
Fresh(r) == r.pressed => r.count = 0 /\ ~r.interrupted

FreshBuf(b) == \A i \in DOMAIN b : Fresh(b[i])

FreshInv == FreshBuf(buf) /\ Fresh(cur) /\ NeverCancelled

LEMMA FreshNone == Fresh(NoRecord)
BY DEF Fresh, NoRecord, TickAt, NewRecord

LEMMA FreshRec ==
  ASSUME TypeInv, Judging, FreshInv
  PROVE  Fresh(Rec)
<1>1. CASE pc = "event"
  BY <1>1 DEF Rec, FreshInv
<1>2. CASE pc = "drain"
  <2>1. buf \in Seq(Record) /\ buf # <<>>
    BY <1>2 DEF TypeInv, TypeOK
  <2>2. Head(buf) = buf[1] /\ 1 \in DOMAIN buf
    BY <2>1
  <2> QED  BY <1>2, <2>2 DEF Rec, FreshInv, FreshBuf
<1> QED  BY <1>1, <1>2 DEF Judging

LEMMA FreshConsumed ==
  ASSUME TypeInv, Judging,
         NEW b \in Seq(Record), Len(b) = Len(buf), FreshBuf(b), Consumed(b)
  PROVE  FreshBuf(buf') /\ Fresh(cur')
<1>1. Fresh(cur')
  BY FreshNone DEF Consumed
<1>2. CASE pc = "event"
  BY <1>1, <1>2 DEF Consumed, Drain
<1>3. CASE pc = "drain"
  <2>1. b # <<>>
    BY <1>3 DEF TypeInv, TypeOK
  <2>2. \A i \in DOMAIN Tail(b) : Tail(b)[i] = b[i + 1] /\ i + 1 \in DOMAIN b
    BY <2>1
  <2>3. buf' = Tail(b)
    BY <1>3 DEF Consumed, Drain
  <2> QED  BY <1>1, <2>2, <2>3 DEF FreshBuf
<1> QED  BY <1>2, <1>3 DEF Judging

LEMMA FreshKept ==
  ASSUME TypeInv, Judging, FreshBuf(buf),
         NEW r \in Record \cup Ticks, Fresh(r), NEW t, NEW reg, Kept(r, t, reg)
  PROVE  FreshBuf(buf') /\ Fresh(cur') /\ tapping' \in {t, NoRecord}
<1>1. Fresh(cur') /\ tapping' \in {t, NoRecord}
  BY FreshNone DEF Kept
<1>2. buf \in Seq(Record)
  BY DEF TypeInv, TypeOK
<1>3. CASE buf' = [buf EXCEPT ![1] = r]
  BY <1>1, <1>2, <1>3 DEF FreshBuf
<1>4. CASE buf' = Append(buf, r)
  <2>1. \A i \in DOMAIN Append(buf, r) :
          (i \in DOMAIN buf /\ Append(buf, r)[i] = buf[i]) \/ Append(buf, r)[i] = r
    BY <1>2
  <2> QED  BY <1>1, <1>4, <2>1 DEF FreshBuf
<1>5. CASE buf' = buf \/ buf' = <<>>
  BY <1>1, <1>5 DEF FreshBuf
<1> QED  BY <1>3, <1>4, <1>5 DEF Kept, Drain

LEMMA FreshBecomeTapping ==
  ASSUME TypeInv, Judging, FreshBuf(buf),
         NEW r \in Record, r.pressed, Fresh(r), NEW reg, BecomeTapping(r, reg)
  PROVE  FreshInv'
<1>1. buf \in Seq(Record)
  BY DEF TypeInv, TypeOK
<1>2. CASE tapping' = r /\ Consumed(buf)
  <2>1. NeverCancelled'
    BY <1>2 DEF NeverCancelled, Fresh
  <2> QED  BY <1>1, <1>2, <2>1, FreshConsumed DEF FreshInv
<1>3. ASSUME NEW i \in DOMAIN buf, ReleaseWaits(r, i),
             tapping' = AfterProcess([r EXCEPT !.count = 1]),
             Consumed([buf EXCEPT ![i].count = 1])
      PROVE  FreshInv'
  <2>1. buf[i] \in Record /\ ~buf[i].pressed
    BY <1>1, <1>3 DEF ReleaseWaits
  <2>2. [buf[i] EXCEPT !.count = 1] \in Record /\ ~[buf[i] EXCEPT !.count = 1].pressed
    BY <2>1, TermsAssumption DEF Record
  <2> DEFINE b == [buf EXCEPT ![i].count = 1]
  <2>3. b \in Seq(Record) /\ Len(b) = Len(buf)
    BY <1>1, <1>3, <2>2
  <2>4. FreshBuf(b)
    <3> SUFFICES ASSUME NEW j \in DOMAIN b PROVE Fresh(b[j])
      BY DEF FreshBuf
    <3>1. CASE j = i
      BY <1>1, <2>2, <3>1 DEF Fresh
    <3>2. CASE j # i
      BY <1>1, <3>2 DEF FreshBuf
    <3> QED  BY <3>1, <3>2
  <2>5. FreshBuf(buf') /\ Fresh(cur')
    BY <1>3, <2>3, <2>4, FreshConsumed
  <2>6. ~tapping'.interrupted
    BY <1>3 DEF AfterProcess, Record, Fresh
  <2> QED  BY <2>5, <2>6 DEF FreshInv, NeverCancelled
<1> QED  BY <1>2, <1>3 DEF BecomeTapping

LEMMA FreshEvent ==
  ASSUME FreshInv,
         (\E k \in Key, d \in 0 .. MaxGap : KeyEvent(k, d))
           \/ (\E d \in 0 .. MaxGap : TickEvent(d))
  PROVE  FreshInv'
<1>1. /\ UNCHANGED <<build, buf, tapping>>
      /\ \E k, press, t : cur' = NewRecord(k, press, t)
  BY DEF KeyEvent, TickEvent, Receive
<1>2. Fresh(cur')
  BY <1>1 DEF Fresh, NewRecord
<1> QED  BY <1>1, <1>2 DEF FreshInv, NeverCancelled, ModTap, HoldOnOther

\* The branches that can disturb it are those that change the tapping key.
LEMMA FreshProcessTapping ==
  ASSUME TypeInv, FreshInv, ProcessTapping
  PROVE  FreshInv'
<1>0. /\ FreshBuf(buf) /\ NeverCancelled
      /\ buf \in Seq(Record) /\ Len(buf) = Len(buf)
      /\ IsEvent(tapping) => tapping \in Record
  BY NoRecordType DEF TypeInv, TypeOK, FreshInv
<1>1. CASE Judging /\ UNCHANGED tapping /\ Consumed(buf)
  <2>1. UNCHANGED build
    BY <1>1 DEF Consumed
  <2>2. NeverCancelled'
    BY <1>0, <1>1, <2>1 DEF NeverCancelled, ModTap, HoldOnOther
  <2> QED  BY <1>0, <1>1, <2>2, FreshConsumed DEF FreshInv
<1>2. CASE Judging /\ ~tapping'.pressed /\ Consumed(buf)
  BY <1>0, <1>2, FreshConsumed DEF FreshInv, NeverCancelled
<1>3. ASSUME Judging, NEW t, NEW reg,
             t.pressed /\ t.key \in ModTap \cap HoldOnOther => ~t.interrupted,
             Kept(Rec, t, reg)
      PROVE  FreshInv'
  <2>0. UNCHANGED build
    BY <1>3 DEF Kept
  <2>1. FreshBuf(buf') /\ Fresh(cur') /\ tapping' \in {t, NoRecord}
    BY <1>0, <1>3, RecType, FreshRec, FreshKept
  <2>2. NeverCancelled'
    BY <1>3, <2>0, <2>1 DEF NeverCancelled, ModTap, HoldOnOther, NoRecord, TickAt, NewRecord
  <2> QED  BY <2>1, <2>2 DEF FreshInv
<1>4. ASSUME Judging, IsTapPress(Rec), NEW reg, BecomeTapping(Rec, reg)
      PROVE  FreshInv'
  <2>1. Rec \in Record /\ Rec.pressed
    BY <1>4, RecType, TickType DEF IsTapPress
  <2> QED  BY <1>0, <1>4, <2>1, FreshRec, FreshBecomeTapping
<1>5. ~NoRecord.pressed
  BY DEF NoRecord, TickAt, NewRecord
<1>6. Judging
  BY DEF ProcessTapping, TickIgnored, PassThrough, StartTapping, FirstTap,
         NestedTap, EarlierKeyReleased, OtherKeyWaits, HoldTimeout, TapReleased,
         TapInterrupted, KeyDuringTap, TapAgain, OtherTapAfterTap, KeyAfterTap,
         ReleaseTimeout, Idle, Unsettled, Tapped, Pressed, Released
<1>7. CASE TickIgnored \/ PassThrough \/ KeyDuringTap
  BY <1>1, <1>6, <1>7 DEF TickIgnored, PassThrough, KeyDuringTap
<1>8. CASE StartTapping \/ TapInterrupted \/ OtherTapAfterTap
  BY <1>4, <1>6, <1>8 DEF StartTapping, TapInterrupted, OtherTapAfterTap
<1>9. CASE FirstTap
  <2> DEFINE settled == AfterProcess([tapping EXCEPT !.count = 1])
  <2>1. tapping \in Record
    BY <1>0, <1>9 DEF FirstTap, Unsettled, Pressed
  <2>2. /\ settled.pressed = tapping.pressed /\ settled.key = tapping.key
        /\ settled.interrupted = tapping.interrupted
    BY <2>1, TermsAssumption DEF AfterProcess, Record
  <2>3. Rec \in Record /\ settled \in Record /\ ~Rec.pressed
    BY <1>6, <1>9, <2>1, RecType, AfterProcessType, TermsAssumption
       DEF FirstTap, IsTapRelease, Record
  <2>4. WithTap(Rec, settled) \in Record /\ Fresh(WithTap(Rec, settled))
    BY <2>3, WithTapType DEF WithTap, Record, Fresh
  <2>5. FreshBuf(buf') /\ Fresh(cur') /\ tapping' \in {settled, NoRecord}
    BY <1>0, <1>6, <1>9, <2>4, FreshKept DEF FirstTap
  <2>6. UNCHANGED build
    BY <1>9 DEF FirstTap, Kept
  <2> QED
    BY <1>0, <1>5, <2>2, <2>5, <2>6 DEF FreshInv, NeverCancelled, ModTap, HoldOnOther
<1>10. CASE NestedTap \/ HoldTimeout \/ ReleaseTimeout
  BY <1>3, <1>5, <1>6, <1>10 DEF NestedTap, HoldTimeout, ReleaseTimeout
<1>11. CASE EarlierKeyReleased
  BY <1>0, <1>1, <1>3, <1>6, <1>11 DEF EarlierKeyReleased, NeverCancelled
<1>12. CASE OtherKeyWaits
  <2>1. tapping \in Record
    BY <1>0, <1>12 DEF OtherKeyWaits, Unsettled, Pressed
  <2>2. [tapping EXCEPT !.interrupted = TRUE].key = tapping.key
    BY <2>1 DEF Record
  <2> QED
    BY <1>0, <1>3, <1>5, <1>6, <1>12, <2>2 DEF OtherKeyWaits, NeverCancelled
<1>13. CASE TapReleased
  <2>1. Rec \in Record /\ tapping \in Record /\ ~Rec.pressed
    BY <1>0, <1>6, <1>13, RecType DEF TapReleased, Tapped, Pressed, IsTapRelease
  <2>2. ~WithTap(Rec, tapping).pressed
    BY <2>1 DEF WithTap, Record
  <2> QED  BY <1>2, <1>5, <1>6, <1>13, <2>2 DEF TapReleased
<1>14. CASE TapAgain
  <2>1. Rec \in Record /\ Rec.pressed /\ ~Rec.interrupted
    BY <1>6, <1>14, RecType, FreshRec DEF TapAgain, Fresh
  <2>2. ~tapping'.interrupted
    BY <1>14, <2>1 DEF TapAgain, Record
  <2>3. Consumed(buf)
    BY <1>14 DEF TapAgain
  <2> QED  BY <1>0, <1>6, <2>2, <2>3, FreshConsumed DEF FreshInv, NeverCancelled
<1>15. CASE KeyAfterTap
  <2>1. tapping \in Record /\ ~tapping.pressed
    BY <1>0, <1>15 DEF KeyAfterTap, Released
  <2>2. ~tapping'.pressed
    BY <1>15, <2>1 DEF KeyAfterTap, Record
  <2> QED  BY <1>2, <1>6, <1>15, <2>2 DEF KeyAfterTap
<1> QED
  BY <1>7, <1>8, <1>9, <1>10, <1>11, <1>12, <1>13, <1>14, <1>15 DEF ProcessTapping

\* process_action's "ad hoc: set 0 to cancel tap" is dead code in every
\* configuration in which HOLD_ON_OTHER_KEY_PRESS settles the tapping key at
\* the press that would have interrupted it.
THEOREM CancelIsDead == Spec => []NeverCancelled
<1>1. Init => FreshInv
  BY FreshNone DEF Init, FreshInv, FreshBuf, NeverCancelled, NoRecord, TickAt, NewRecord
<1>2. TypeInv /\ FreshInv /\ [Next]_vars => FreshInv'
  <2> SUFFICES ASSUME TypeInv, FreshInv, [Next]_vars PROVE FreshInv'
    OBVIOUS
  <2>1. CASE Next
    BY <2>1, FreshEvent, FreshProcessTapping DEF Next
  <2>2. CASE UNCHANGED vars
    BY <2>2 DEF FreshInv, FreshBuf, NeverCancelled, ModTap, HoldOnOther, vars
  <2> QED  BY <2>1, <2>2
<1>3. TypeInv /\ [Next]_vars => TypeInv'
  <2> SUFFICES ASSUME TypeInv, [Next]_vars PROVE TypeInv'
    OBVIOUS
  <2>1. CASE UNCHANGED vars
    BY <2>1 DEF TypeInv, TypeOK, vars
  <2> QED  BY <2>1, EventType, ProcessTappingType DEF Next
<1>4. FreshInv => NeverCancelled
  BY DEF FreshInv
<1> QED  BY InitType, <1>1, <1>2, <1>3, <1>4, PTL DEF Spec

-----------------------------------------------------------------------------
(* Between a tap and the next event nothing waits. *)

LEMMA NoneInBufferKept ==
  ASSUME NEW r, NEW t, NEW reg, t.pressed \/ ~IsEvent(t), Kept(r, t, reg)
  PROVE  NoneInBuffer'
<1>1. tapping' = t \/ tapping' = NoRecord
  BY DEF Kept
<1> QED  BY <1>1, NoRecordType DEF NoneInBuffer, IsEvent

\* A branch that consumes the record leaves the drain loop only with an empty
\* buffer; every other branch leaves a tapping key that is down, or none.
LEMMA NoneInBufferProcessTapping ==
  ASSUME TypeInv, ProcessTapping
  PROVE  NoneInBuffer'
<1>0. IsEvent(tapping) => tapping \in Record
  BY NoRecordType DEF TypeInv, TypeOK
<1>1. ASSUME NEW b, Consumed(b) PROVE NoneInBuffer'
  BY <1>1 DEF Consumed, Drain, NoneInBuffer
<1>2. CASE TickIgnored \/ PassThrough \/ TapReleased \/ KeyDuringTap \/ TapAgain
             \/ KeyAfterTap
  BY <1>1, <1>2 DEF TickIgnored, PassThrough, TapReleased, KeyDuringTap, TapAgain,
                    KeyAfterTap
<1>3. CASE StartTapping \/ TapInterrupted \/ OtherTapAfterTap
  BY <1>1, <1>3 DEF StartTapping, TapInterrupted, OtherTapAfterTap, BecomeTapping
<1>4. CASE NestedTap \/ HoldTimeout \/ ReleaseTimeout
  BY <1>4, NoRecordType, NoneInBufferKept DEF NestedTap, HoldTimeout, ReleaseTimeout
<1>5. CASE FirstTap
  <2>1. tapping \in Record /\ tapping.pressed
    BY <1>0, <1>5 DEF FirstTap, Unsettled, Pressed
  <2>2. AfterProcess([tapping EXCEPT !.count = 1]).pressed
    BY <2>1 DEF AfterProcess, Record
  <2> QED  BY <1>5, <2>2, NoneInBufferKept DEF FirstTap
<1>6. CASE EarlierKeyReleased
  BY <1>1, <1>6, NoneInBufferKept DEF EarlierKeyReleased, Unsettled, Pressed
<1>7. CASE OtherKeyWaits
  <2>1. tapping \in Record /\ tapping.pressed
    BY <1>0, <1>7 DEF OtherKeyWaits, Unsettled, Pressed
  <2>2. [tapping EXCEPT !.interrupted = TRUE].pressed
    BY <2>1 DEF Record
  <2> QED  BY <1>7, <2>1, <2>2, NoRecordType, NoneInBufferKept DEF OtherKeyWaits
<1> QED
  BY <1>2, <1>3, <1>4, <1>5, <1>6, <1>7 DEF ProcessTapping

\* The question "should none in buffer" asks in process_tapping's branch for a
\* key pressed just after a tap is answered, for every keymap and term: when
\* the event comes, nothing is waiting.
THEOREM NothingWaitsAfterTap == Spec => []NoneInBuffer
<1>1. Init => NoneInBuffer
  BY DEF Init, NoneInBuffer
<1>2. TypeInv /\ NoneInBuffer /\ [Next]_vars => NoneInBuffer'
  <2> SUFFICES ASSUME TypeInv, NoneInBuffer, [Next]_vars PROVE NoneInBuffer'
    OBVIOUS
  <2>1. CASE ProcessTapping
    BY <2>1, NoneInBufferProcessTapping
  <2>2. CASE (\E k \in Key, d \in 0 .. MaxGap : KeyEvent(k, d))
               \/ (\E d \in 0 .. MaxGap : TickEvent(d))
    BY <2>2 DEF KeyEvent, TickEvent, Receive, NoneInBuffer
  <2>3. CASE UNCHANGED vars
    BY <2>3 DEF NoneInBuffer, vars
  <2> QED  BY <2>1, <2>2, <2>3 DEF Next
<1>3. TypeInv /\ [Next]_vars => TypeInv'
  <2> SUFFICES ASSUME TypeInv, [Next]_vars PROVE TypeInv'
    OBVIOUS
  <2>1. CASE UNCHANGED vars
    BY <2>1 DEF TypeInv, TypeOK, vars
  <2> QED  BY <2>1, EventType, ProcessTappingType DEF Next
<1> QED  BY InitType, <1>1, <1>2, <1>3, PTL DEF Spec

-----------------------------------------------------------------------------
(* The events of one key *)

\* The events of one key in w press and release it in turn, the last of them
\* left its switch as the matrix m has it, and a key in held, down without one
\* of them, is released by the first.
Opposite(x, y) == x.key = y.key /\ (x.pressed <=> ~y.pressed)

Alternating(w) ==
  \A i, j \in DOMAIN w :
    /\ i < j /\ w[i].key = w[j].key
    /\ w[i].pressed <=> w[j].pressed
    => \E n \in DOMAIN w : i < n /\ n < j /\ Opposite(w[i], w[n])

EndsIn(w, m) ==
  \A i \in DOMAIN w :
    (w[i].pressed <=> w[i].key \notin m)
      => \E j \in DOMAIN w : i < j /\ Opposite(w[i], w[j])

Releases(w, m, held) ==
  /\ \A k \in held : k \in m \/ \E i \in DOMAIN w : w[i].key = k
  /\ \A i \in DOMAIN w :
       w[i].key \in held /\ w[i].pressed
         => \E j \in DOMAIN w : j < i /\ Opposite(w[i], w[j])

Chain(w, m, held) == Alternating(w) /\ EndsIn(w, m) /\ Releases(w, m, held)

SameShape(v, w) ==
  /\ Len(v) = Len(w)
  /\ \A i \in 1 .. Len(w) : v[i].key = w[i].key /\ (v[i].pressed <=> w[i].pressed)

LEMMA ShapeSelf == ASSUME NEW w PROVE SameShape(w, w)
BY DEF SameShape

LEMMA SeqParts ==
  ASSUME NEW w \in Seq(Record)
  PROVE  /\ Len(w) \in Nat /\ DOMAIN w = 1 .. Len(w)
         /\ \A i \in DOMAIN w : w[i] \in Record
OBVIOUS

LEMMA LinesEqual ==
  ASSUME NEW u \in Seq(Record), NEW v \in Seq(Record), Len(u) = Len(v),
         \A i \in 1 .. Len(u) : u[i] = v[i]
  PROVE  u = v
OBVIOUS

LEMMA ChainSame ==
  ASSUME NEW w \in Seq(Record), NEW v \in Seq(Record), SameShape(v, w),
         NEW m, NEW held, NEW held2, held2 \subseteq held, Chain(w, m, held)
  PROVE  Chain(v, m, held2)
<1>1. DOMAIN v = DOMAIN w /\ \A i \in DOMAIN w : v[i].key = w[i].key /\ (v[i].pressed <=> w[i].pressed)
  BY SeqParts DEF SameShape
<1>2. \A i, j \in DOMAIN w : Opposite(v[i], v[j]) <=> Opposite(w[i], w[j])
  BY <1>1 DEF Opposite
<1> HIDE DEF Opposite
<1>3. Alternating(v)
  BY <1>1, <1>2 DEF Chain, Alternating
<1>4. EndsIn(v, m)
  BY <1>1, <1>2 DEF Chain, EndsIn
<1>5. Releases(v, m, held2)
  BY <1>1, <1>2 DEF Chain, Releases
<1> QED  BY <1>3, <1>4, <1>5 DEF Chain

LEMMA TailParts ==
  ASSUME NEW w \in Seq(Record), w # <<>>
  PROVE  /\ Tail(w) \in Seq(Record)
         /\ Len(Tail(w)) = Len(w) - 1 /\ Len(w) \in Nat \ {0}
         /\ 1 \in DOMAIN w
         /\ \A i \in DOMAIN Tail(w) : i \in Nat /\ i + 1 \in DOMAIN w /\ Tail(w)[i] = w[i + 1]
         /\ \A i \in DOMAIN w : i > 1 => i - 1 \in DOMAIN Tail(w) /\ Tail(w)[i - 1] = w[i]
OBVIOUS

LEMMA ChainTail ==
  ASSUME NEW w \in Seq(Record), w # <<>>,
         NEW m, NEW held, NEW held2, Chain(w, m, held),
         \A k \in held2 : IF k = w[1].key THEN w[1].pressed ELSE k \in held
  PROVE  Chain(Tail(w), m, held2)
<1> DEFINE v == Tail(w)
<1>1. /\ 1 \in DOMAIN w
      /\ \A i \in DOMAIN v : i \in Nat /\ i + 1 \in DOMAIN w /\ v[i] = w[i + 1]
      /\ \A i \in DOMAIN w : i \in Nat /\ (i > 1 => i - 1 \in DOMAIN v /\ v[i - 1] = w[i])
  BY TailParts, SeqParts
<1>2. DOMAIN w \subseteq Nat \ {0} /\ DOMAIN v \subseteq Nat \ {0}
  BY TailParts, SeqParts
<1> HIDE DEF v
<1>3. Alternating(v)
  <2> SUFFICES ASSUME NEW i \in DOMAIN v, NEW j \in DOMAIN v, i < j,
                      v[i].key = v[j].key, v[i].pressed <=> v[j].pressed
               PROVE  \E n \in DOMAIN v : i < n /\ n < j /\ Opposite(v[i], v[n])
    BY DEF Alternating
  <2>1. i + 1 < j + 1 /\ i + 1 \in DOMAIN w /\ j + 1 \in DOMAIN w
    BY <1>1
  <2>2. PICK n \in DOMAIN w : i + 1 < n /\ n < j + 1 /\ Opposite(w[i + 1], w[n])
    BY <1>1, <2>1 DEF Chain, Alternating
  <2>3. n - 1 \in DOMAIN v /\ v[n - 1] = w[n] /\ i < n - 1 /\ n - 1 < j
    BY <1>1, <1>2, <2>2
  <2> QED  BY <1>1, <2>2, <2>3
<1>4. EndsIn(v, m)
  <2> SUFFICES ASSUME NEW i \in DOMAIN v, v[i].pressed <=> v[i].key \notin m
               PROVE  \E j \in DOMAIN v : i < j /\ Opposite(v[i], v[j])
    BY DEF EndsIn
  <2>1. PICK n \in DOMAIN w : i + 1 < n /\ Opposite(w[i + 1], w[n])
    BY <1>1 DEF Chain, EndsIn
  <2>2. n - 1 \in DOMAIN v /\ v[n - 1] = w[n] /\ i < n - 1
    BY <1>1, <1>2, <2>1
  <2> QED  BY <1>1, <2>1, <2>2
<1>5. ASSUME NEW k \in held2 PROVE k \in m \/ \E i \in DOMAIN v : v[i].key = k
  <2>1. CASE k = w[1].key
    <3>1. w[1].pressed
      BY <2>1, <1>5
    <3>2. k \in m \/ \E n \in DOMAIN w : 1 < n /\ Opposite(w[1], w[n])
      BY <1>1, <2>1, <3>1 DEF Chain, EndsIn
    <3>3. ASSUME NEW n \in DOMAIN w, 1 < n, Opposite(w[1], w[n])
          PROVE  \E i \in DOMAIN v : v[i].key = k
      <4>1. w[n].key = k
        BY <2>1, <3>3 DEF Opposite
      <4>2. n - 1 \in DOMAIN v /\ v[n - 1] = w[n]
        BY <1>1, <3>3
      <4> QED  BY <4>1, <4>2
    <3> QED  BY <3>2, <3>3
  <2>2. CASE k # w[1].key
    <3>1. k \in m \/ \E n \in DOMAIN w : w[n].key = k
      BY <2>2, <1>5 DEF Chain, Releases
    <3>2. \A n \in DOMAIN w : w[n].key = k => n > 1
      BY <1>2, <2>2
    <3> QED  BY <1>1, <3>1, <3>2
  <2> QED  BY <2>1, <2>2
<1>6. ASSUME NEW i \in DOMAIN v, v[i].key \in held2, v[i].pressed
      PROVE  \E j \in DOMAIN v : j < i /\ Opposite(v[i], v[j])
  <2>1. i + 1 \in DOMAIN w /\ w[i + 1].key \in held2 /\ w[i + 1].pressed /\ 1 < i + 1
    BY <1>1, <1>2, <1>6
  <2>2. \E n \in DOMAIN w : 1 < n /\ n < i + 1 /\ Opposite(w[i + 1], w[n])
    <3>1. CASE w[i + 1].key = w[1].key
      <4>1. w[1].pressed
        BY <2>1, <3>1
      <4>2. \E n \in DOMAIN w : 1 < n /\ n < i + 1 /\ Opposite(w[1], w[n])
        BY <1>1, <2>1, <3>1, <4>1 DEF Chain, Alternating
      <4> QED  BY <2>1, <3>1, <4>1, <4>2 DEF Opposite
    <3>2. CASE w[i + 1].key # w[1].key
      <4>1. PICK n \in DOMAIN w : n < i + 1 /\ Opposite(w[i + 1], w[n])
        BY <2>1, <3>2 DEF Chain, Releases
      <4>2. n # 1
        BY <3>2, <4>1 DEF Opposite
      <4> QED  BY <1>2, <4>1, <4>2
    <3> QED  BY <3>1, <3>2
  <2>3. PICK n \in DOMAIN w : 1 < n /\ n < i + 1 /\ Opposite(w[i + 1], w[n])
    BY <2>2
  <2>4. n - 1 \in DOMAIN v /\ v[n - 1] = w[n]
    BY <1>1, <2>3
  <2>5. n - 1 < i
    <3>1. n \in Int /\ i \in Int
      BY <1>1, <1>2
    <3> QED  BY <2>3, <3>1
  <2>6. v[i] = w[i + 1]
    BY <1>1
  <2> QED  BY <2>3, <2>4, <2>5, <2>6
<1>7. Releases(v, m, held2)
  BY <1>5, <1>6 DEF Releases
<1> QED  BY <1>3, <1>4, <1>7 DEF Chain, v

LEMMA AppendParts ==
  ASSUME NEW w \in Seq(Record), NEW r \in Record
  PROVE  /\ Append(w, r) \in Seq(Record)
         /\ Len(w) \in Nat /\ DOMAIN w = 1 .. Len(w)
         /\ DOMAIN Append(w, r) = DOMAIN w \cup {Len(w) + 1}
         /\ Append(w, r)[Len(w) + 1] = r
         /\ \A i \in DOMAIN w : i \in Nat /\ i < Len(w) + 1 /\ Append(w, r)[i] = w[i]
OBVIOUS

\* A switch opens or closes.
LEMMA ChainAppend ==
  ASSUME NEW w \in Seq(Record), NEW r \in Record, NEW m \in SUBSET Key, NEW m2,
         NEW held, Chain(w, m, held), r.pressed <=> r.key \notin m,
         \A k \in Key : k \in m2 <=> IF k = r.key THEN k \notin m ELSE k \in m,
         held \subseteq Key
  PROVE  Chain(Append(w, r), m2, held)
<1> DEFINE v == Append(w, r)
           n == Len(w) + 1
<1>1. /\ DOMAIN v = DOMAIN w \cup {n} /\ v[n] = r
      /\ \A i \in DOMAIN w : i \in Nat /\ i < n /\ v[i] = w[i] /\ w[i] \in Record
  BY AppendParts, SeqParts
<1>2. n \in Nat
  BY AppendParts
<1>r. r.key \in Key /\ r.pressed \in BOOLEAN
  BY RecordType
<1>k. \A i \in DOMAIN w : w[i].key \in Key /\ w[i].pressed \in BOOLEAN
  BY <1>1, RecordType
<1> HIDE DEF v, n
<1>3. Alternating(v)
  <2> SUFFICES ASSUME NEW i \in DOMAIN v, NEW j \in DOMAIN v, i < j,
                      v[i].key = v[j].key, v[i].pressed <=> v[j].pressed
               PROVE  \E a \in DOMAIN v : i < a /\ a < j /\ Opposite(v[i], v[a])
    BY DEF Alternating
  <2>1. i \in DOMAIN w /\ v[i] = w[i]
    BY <1>1, <1>2
  <2>2. CASE j \in DOMAIN w
    <3>1. PICK a \in DOMAIN w : i < a /\ a < j /\ Opposite(w[i], w[a])
      BY <1>1, <2>1, <2>2 DEF Chain, Alternating
    <3> QED  BY <1>1, <2>1, <3>1
  <2>3. CASE j = n
    <3>1. w[i].pressed <=> w[i].key \notin m
      BY <1>1, <2>1, <2>3
    <3>2. PICK a \in DOMAIN w : i < a /\ Opposite(w[i], w[a])
      BY <2>1, <3>1 DEF Chain, EndsIn
    <3> QED  BY <1>1, <2>1, <2>3, <3>2
  <2> QED  BY <1>1, <2>2, <2>3
<1>4. EndsIn(v, m2)
  <2> SUFFICES ASSUME NEW i \in DOMAIN v, v[i].pressed <=> v[i].key \notin m2
               PROVE  \E j \in DOMAIN v : i < j /\ Opposite(v[i], v[j])
    BY DEF EndsIn
  <2>1. i # n
    BY <1>1, <1>r
  <2>2. i \in DOMAIN w /\ v[i] = w[i] /\ i < n
    BY <1>1, <2>1
  <2>3. CASE w[i].key = r.key
    <3>1. w[i].pressed <=> ~r.pressed
      BY <2>2, <2>3, <1>r
    <3> QED  BY <1>1, <2>2, <2>3, <3>1 DEF Opposite
  <2>4. CASE w[i].key # r.key
    <3>1. w[i].pressed <=> w[i].key \notin m
      BY <2>2, <2>4, <1>k
    <3>2. PICK j \in DOMAIN w : i < j /\ Opposite(w[i], w[j])
      BY <2>2, <3>1 DEF Chain, EndsIn
    <3> QED  BY <1>1, <2>2, <3>2
  <2> QED  BY <2>3, <2>4
<1>5. ASSUME NEW k \in held PROVE k \in m2 \/ \E i \in DOMAIN v : v[i].key = k
  <2>1. CASE k = r.key
    BY <1>1, <2>1
  <2>2. CASE k # r.key
    <3>1. k \in m \/ \E i \in DOMAIN w : w[i].key = k
      BY <1>5 DEF Chain, Releases
    <3> QED  BY <1>1, <1>5, <2>2, <3>1
  <2> QED  BY <2>1, <2>2
<1>6. ASSUME NEW i \in DOMAIN v, v[i].key \in held, v[i].pressed
      PROVE  \E j \in DOMAIN v : j < i /\ Opposite(v[i], v[j])
  <2>1. CASE i \in DOMAIN w
    <3>1. PICK j \in DOMAIN w : j < i /\ Opposite(w[i], w[j])
      BY <1>1, <1>6, <2>1 DEF Chain, Releases
    <3> QED  BY <1>1, <2>1, <3>1
  <2>2. CASE i = n
    <3>1. r.key \in held /\ r.pressed /\ r.key \notin m
      BY <1>1, <1>6, <2>2
    <3>2. PICK j \in DOMAIN w : w[j].key = r.key
      BY <3>1 DEF Chain, Releases
    <3>3. CASE ~w[j].pressed
      BY <1>1, <2>2, <3>1, <3>2, <3>3 DEF Opposite
    <3>4. CASE w[j].pressed
      <4>1. PICK a \in DOMAIN w : Opposite(w[j], w[a])
        BY <3>1, <3>2, <3>4 DEF Chain, Releases
      <4> QED  BY <1>1, <2>2, <3>1, <3>2, <3>4, <4>1 DEF Opposite
    <3> QED  BY <3>3, <3>4
  <2> QED  BY <1>1, <2>1, <2>2
<1>7. Releases(v, m2, held)
  BY <1>5, <1>6 DEF Releases
<1> QED  BY <1>3, <1>4, <1>7 DEF Chain, v

\* The newest event is a release and no press of its key waits: none of its
\* key waits, and it can be taken away.
LEMMA ChainFront ==
  ASSUME NEW w \in Seq(Record), NEW r \in Record, NEW m, NEW held, NEW held2,
         Chain(Append(w, r), m, held), ~r.pressed,
         \A i \in DOMAIN w : w[i].key = r.key => ~w[i].pressed,
         \A k \in held2 : k \in held /\ k # r.key
  PROVE  /\ \A i \in DOMAIN w : w[i].key # r.key
         /\ Chain(w, m, held2)
<1> DEFINE v == Append(w, r)
           n == Len(w) + 1
<1>1. /\ DOMAIN v = DOMAIN w \cup {n} /\ v[n] = r
      /\ \A i \in DOMAIN w : i \in Nat /\ i < n /\ v[i] = w[i]
  BY AppendParts
<1>2. n \in Nat
  BY AppendParts
<1>3. Chain(v, m, held)
  OBVIOUS
<1> HIDE DEF v, n
<1>4. \A i \in DOMAIN w : w[i].key # r.key
  <2> SUFFICES ASSUME NEW i \in DOMAIN w, w[i].key = r.key PROVE FALSE
    OBVIOUS
  <2>1. ~w[i].pressed /\ i < n
    BY <1>1
  <2>2. PICK a \in DOMAIN v : i < a /\ a < n /\ Opposite(v[i], v[a])
    BY <1>1, <1>3, <2>1 DEF Chain, Alternating
  <2>3. a \in DOMAIN w
    BY <1>1, <1>2, <2>2
  <2> QED  BY <1>1, <2>1, <2>2, <2>3 DEF Opposite
<1>5. Alternating(w)
  <2> SUFFICES ASSUME NEW i \in DOMAIN w, NEW j \in DOMAIN w, i < j,
                      w[i].key = w[j].key, w[i].pressed <=> w[j].pressed
               PROVE  \E a \in DOMAIN w : i < a /\ a < j /\ Opposite(w[i], w[a])
    BY DEF Alternating
  <2>1. PICK a \in DOMAIN v : i < a /\ a < j /\ Opposite(v[i], v[a])
    BY <1>1, <1>3 DEF Chain, Alternating
  <2>2. a \in DOMAIN w
    BY <1>1, <1>2, <2>1
  <2> QED  BY <1>1, <2>1, <2>2
<1>6. EndsIn(w, m)
  <2> SUFFICES ASSUME NEW i \in DOMAIN w, w[i].pressed <=> w[i].key \notin m
               PROVE  \E j \in DOMAIN w : i < j /\ Opposite(w[i], w[j])
    BY DEF EndsIn
  <2>1. PICK a \in DOMAIN v : i < a /\ Opposite(v[i], v[a])
    BY <1>1, <1>3 DEF Chain, EndsIn
  <2>2. a \in DOMAIN w
    BY <1>1, <1>4, <2>1 DEF Opposite
  <2> QED  BY <1>1, <2>1, <2>2
<1>7. ASSUME NEW k \in held2 PROVE k \in m \/ \E i \in DOMAIN w : w[i].key = k
  <2>1. k \in m \/ \E i \in DOMAIN v : v[i].key = k
    BY <1>3 DEF Chain, Releases
  <2> QED  BY <1>1, <2>1
<1>8. ASSUME NEW i \in DOMAIN w, w[i].key \in held2, w[i].pressed
      PROVE  \E j \in DOMAIN w : j < i /\ Opposite(w[i], w[j])
  <2>1. PICK a \in DOMAIN v : a < i /\ Opposite(v[i], v[a])
    BY <1>1, <1>3, <1>8 DEF Chain, Releases
  <2>2. a \in DOMAIN w
    BY <1>1, <1>2, <2>1
  <2> QED  BY <1>1, <2>1, <2>2
<1>9. Releases(w, m, held2)
  BY <1>7, <1>8 DEF Releases
<1> QED  BY <1>4, <1>5, <1>6, <1>9 DEF Chain

-----------------------------------------------------------------------------
(* The waiting line *)

\* The waiting buffer and, behind it, the event process_tapping has not judged.
Line == IF pc = "event" /\ IsEvent(cur) THEN Append(buf, cur) ELSE buf

\* Where the record it judges stands in it.
RecAt == IF pc = "event" THEN Len(buf) + 1 ELSE 1

UnsettledPress(t) == IsEvent(t) /\ t.pressed /\ t.count = 0

\* The keys that are down as far as process_record knows, or will be once the
\* tapping key is settled.
HeldBy(t, reg) == {k \in Key : reg[k] # {} \/ (UnsettledPress(t) /\ t.key = k)}

ChainInv == Chain(Line, matrix, HeldBy(tapping, registered))

\* A new event is judged before the waiting ones only while they wait for the
\* tapping key.
Ordered == pc = "event" /\ IsEvent(cur) => cur.count = 0 /\ (buf = <<>> \/ Undecided)

LEMMA LineParts ==
  ASSUME TypeInv
  PROVE  /\ Line \in Seq(Record) /\ buf \in Seq(Record) /\ Len(buf) \in Nat
         /\ Judging /\ IsEvent(Rec) =>
              /\ Rec \in Record /\ RecAt \in DOMAIN Line /\ Line[RecAt] = Rec
              /\ \A i \in DOMAIN Line : i # RecAt => i \in DOMAIN buf /\ Line[i] = buf[i]
              /\ \A i \in DOMAIN buf : i \in DOMAIN Line /\ Line[i] = buf[i]
         /\ pc = "drain" => Line = buf /\ Line # <<>> /\ Rec = Line[1] /\ RecAt = 1 /\ IsEvent(Rec)
         /\ pc = "event" /\ IsEvent(Rec) => Line = Append(buf, Rec)
         /\ ~(pc = "event" /\ IsEvent(cur)) => Line = buf
<1>1. buf \in Seq(Record) /\ Len(buf) \in Nat /\ (pc = "drain" => buf # <<>>)
  BY DEF TypeInv, TypeOK
<1>2. IsEvent(cur) => cur \in Record
  BY TickType DEF TypeInv, TypeOK, Ticks, Times
<1>3. CASE pc = "event" /\ IsEvent(cur)
  <2>1. Line = Append(buf, cur) /\ Rec = cur /\ RecAt = Len(buf) + 1
    BY <1>3 DEF Line, Rec, RecAt
  <2>2. Line \in Seq(Record) /\ RecAt \in DOMAIN Line /\ Line[RecAt] = Rec
    BY <1>1, <1>2, <1>3, <2>1
  <2>3. DOMAIN Line = DOMAIN buf \cup {RecAt} /\ \A i \in DOMAIN buf : Line[i] = buf[i] /\ i # RecAt
    BY <1>1, <1>2, <1>3, <2>1, AppendParts
  <2> QED  BY <1>1, <1>2, <1>3, <2>1, <2>2, <2>3
<1>4. CASE pc = "drain"
  <2>1. Line = buf /\ Rec = Head(buf) /\ RecAt = 1
    BY <1>4 DEF Line, Rec, RecAt
  <2>2. Head(buf) = buf[1] /\ 1 \in DOMAIN buf /\ buf[1] \in Record
    BY <1>1, <1>4
  <2>3. IsEvent(Rec)
    BY <2>1, <2>2, RecordType
  <2> QED  BY <1>1, <1>4, <2>1, <2>2, <2>3
<1>5. CASE pc # "drain" /\ ~(pc = "event" /\ IsEvent(cur))
  <2>1. Line = buf
    BY <1>5 DEF Line
  <2>2. ~(Judging /\ IsEvent(Rec)) /\ ~(pc = "event" /\ IsEvent(Rec))
    BY <1>5 DEF Judging, Rec
  <2> QED  BY <1>1, <1>5, <2>1, <2>2
<1> QED  BY <1>3, <1>4, <1>5

LEMMA AppendOther ==
  ASSUME NEW w \in Seq(Record), NEW x \in Record, NEW r \in Record
  PROVE  Append(w, r) = [Append(w, x) EXCEPT ![Len(w) + 1] = r]
<1> DEFINE n == Len(w) + 1
           u == Append(w, r)
           v == [Append(w, x) EXCEPT ![n] = r]
<1>1. /\ u \in Seq(Record) /\ DOMAIN u = DOMAIN w \cup {n} /\ u[n] = r
      /\ \A i \in DOMAIN w : i \in Nat /\ i < n /\ u[i] = w[i]
      /\ n \in Nat /\ DOMAIN w = 1 .. Len(w) /\ Len(w) \in Nat
  BY AppendParts
<1>2. /\ Append(w, x) \in Seq(Record) /\ DOMAIN Append(w, x) = DOMAIN w \cup {n}
      /\ \A i \in DOMAIN w : Append(w, x)[i] = w[i]
  BY AppendParts
<1>3. DOMAIN v = DOMAIN w \cup {n} /\ v[n] = r /\ \A i \in DOMAIN w : v[i] = w[i]
  BY <1>1, <1>2
<1>4. v \in Seq(Record)
  BY <1>2
<1>5. Len(u) = n /\ Len(v) = n
  BY <1>1, <1>2, <1>3, <1>4
<1> HIDE DEF u, v, n
<1>6. \A i \in 1 .. n : u[i] = v[i]
  BY <1>1, <1>3, <1>5
<1> QED  BY <1>1, <1>4, <1>5, <1>6, LinesEqual DEF u, v, n

\* process_tapping returns false: the record keeps its place.
LEMMA KeptLine ==
  ASSUME TypeInv, Judging, IsEvent(Rec), NEW r \in Record, NEW t, NEW reg,
         Kept(r, t, reg), ~(pc = "event" /\ BufferFull)
  PROVE  /\ tapping' = t /\ registered' = reg /\ UNCHANGED <<build, matrix>>
         /\ Line' = [Line EXCEPT ![RecAt] = r]
         /\ Line' = buf' /\ pc' # "event"
<1>1. buf \in Seq(Record) /\ Len(buf) \in Nat /\ IsEvent(r) /\ Rec \in Record
  BY LineParts, RecordType
<1>2. CASE pc = "drain"
  <2>1. buf' = [buf EXCEPT ![1] = r] /\ pc' = "scan" /\ tapping' = t /\ registered' = reg
    BY <1>2 DEF Kept
  <2>2. Line' = buf'
    BY <2>1 DEF Line
  <2> QED  BY <1>2, <2>1, <2>2, LineParts DEF Kept
<1>3. CASE pc = "event"
  <2>1. buf' = Append(buf, r) /\ pc' # "event" /\ tapping' = t /\ registered' = reg
    BY <1>1, <1>3 DEF Kept, Drain
  <2>2. Line' = buf'
    BY <2>1 DEF Line
  <2>3. Line = Append(buf, Rec) /\ RecAt = Len(buf) + 1
    BY <1>3, LineParts DEF RecAt
  <2>4. Append(buf, r) = [Append(buf, Rec) EXCEPT ![Len(buf) + 1] = r]
    BY <1>1, AppendOther
  <2> QED  BY <2>1, <2>2, <2>3, <2>4 DEF Kept
<1> QED  BY <1>2, <1>3 DEF Judging

\* Every event that waits is thrown away.
LEMMA OverflowLine ==
  ASSUME TypeInv, NEW r \in Record, NEW t, NEW reg,
         Kept(r, t, reg), pc = "event" /\ BufferFull
  PROVE  /\ tapping' = NoRecord /\ registered' = Cleared(reg) /\ UNCHANGED <<build, matrix>>
         /\ Line' = <<>> /\ buf' = <<>> /\ buf # <<>> /\ pc' # "event"
<1>1. IsEvent(r)
  BY RecordType
<1>2. /\ tapping' = NoRecord /\ registered' = Cleared(reg) /\ UNCHANGED <<build, matrix>>
      /\ buf' = <<>> /\ pc' # "event"
  BY <1>1 DEF Kept, Drain
<1>3. buf # <<>>
  BY TermsAssumption DEF BufferFull
<1> QED  BY <1>2, <1>3 DEF Line

\* A tick moves nothing.
LEMMA TickLine ==
  ASSUME TypeInv, Judging, ~IsEvent(Rec),
         Consumed(buf) \/ \E t, reg : Kept(Rec, t, reg) /\ tapping' = t /\ registered' = reg
  PROVE  Line' = Line /\ Line = buf /\ buf' = buf /\ pc = "event" /\ pc' # "event" /\ UNCHANGED <<build, matrix>>
<1>1. pc = "event" /\ Line = buf
  BY LineParts DEF Judging, Rec
<1>2. buf' = buf /\ pc' # "event" /\ UNCHANGED <<build, matrix>>
  BY <1>1 DEF Consumed, Kept, Drain
<1> QED  BY <1>1, <1>2 DEF Line

LEMMA TickKept ==
  ASSUME TypeInv, Judging, ~IsEvent(Rec), NEW t, NEW reg, Kept(Rec, t, reg)
  PROVE  tapping' = t /\ registered' = reg
<1>1. pc = "event"
  BY LineParts DEF Judging
<1> QED  BY <1>1 DEF Kept

\* process_tapping returns true: the record leaves the front of the line.
LEMMA ConsumedLine ==
  ASSUME TypeInv, Judging, IsEvent(Rec), pc = "drain" \/ buf = <<>>,
         NEW b \in Seq(Record), SameShape(b, buf), Consumed(b)
  PROVE  /\ Line' \in Seq(Record) /\ SameShape(Line', Tail(Line))
         /\ Line # <<>> /\ Line[1] = Rec
         /\ UNCHANGED <<build, matrix>>
         /\ Line' = buf' /\ pc' # "event"
         /\ pc = "drain" => Line' = Tail(b)
         /\ pc = "event" => Line' = <<>>
         /\ b = buf => Line' = Tail(Line)
<1>1. buf \in Seq(Record) /\ Len(buf) \in Nat /\ Rec \in Record
  BY LineParts
<1>2. CASE pc = "drain"
  <2>1. buf' = Tail(b) /\ pc' # "event" /\ UNCHANGED <<build, matrix>>
    BY <1>2 DEF Consumed, Drain
  <2>2. Line' = buf' /\ Line = buf /\ buf # <<>> /\ Line[1] = Rec
    BY <1>2, <2>1, LineParts DEF Line
  <2>3. b # <<>>
    BY <1>1, <2>2 DEF SameShape
  <2>4. Tail(b) \in Seq(Record) /\ SameShape(Tail(b), Tail(buf))
    BY <1>1, <2>2, <2>3, TailParts DEF SameShape
  <2> QED  BY <1>2, <2>1, <2>2, <2>4
<1>3. CASE pc = "event"
  <2>1. buf = <<>> /\ b = <<>>
    <3>1. buf = <<>>
      BY <1>3
    <3>2. Len(b) = 0
      BY <3>1 DEF SameShape
    <3> QED  BY <3>1, <3>2
  <2>2. buf' = <<>> /\ pc' # "event" /\ UNCHANGED <<build, matrix>>
    BY <1>3, <2>1 DEF Consumed, Drain
  <2>3. Line' = <<>>
    BY <2>2 DEF Line
  <2>4. Line = <<Rec>>
    BY <1>3, <2>1, LineParts
  <2>5. Tail(Line) = <<>> /\ Line # <<>> /\ Line[1] = Rec
    BY <1>1, <2>4
  <2>6. SameShape(Line', Tail(Line)) /\ Line' \in Seq(Record)
    <3>1. SameShape(<<>>, <<>>) /\ <<>> \in Seq(Record)
      BY ShapeSelf
    <3> QED  BY <2>3, <2>5, <3>1
  <2> QED  BY <1>3, <2>2, <2>3, <2>5, <2>6
<1> QED  BY <1>2, <1>3 DEF Judging

\* What the branches of process_tapping do to the order of the line.
LEMMA ChainKept ==
  ASSUME TypeInv, Judging, IsEvent(Rec), ChainInv, NEW r \in Record, NEW t, NEW reg,
         Kept(r, t, reg), ~(pc = "event" /\ BufferFull),
         r.key = Rec.key, r.pressed = Rec.pressed,
         HeldBy(t, reg) \subseteq HeldBy(tapping, registered)
  PROVE  ChainInv'
<1>1. /\ tapping' = t /\ registered' = reg /\ UNCHANGED matrix
      /\ Line' = [Line EXCEPT ![RecAt] = r]
  BY KeptLine
<1>2. Line \in Seq(Record) /\ RecAt \in DOMAIN Line /\ Line[RecAt] = Rec
  BY LineParts
<1> DEFINE v == [Line EXCEPT ![RecAt] = r]
<1>3. v \in Seq(Record) /\ SameShape(v, Line)
  <2>1. v \in Seq(Record) /\ Len(v) = Len(Line) /\ Len(Line) \in Nat
    BY <1>2
  <2>2. \A i \in 1 .. Len(Line) : v[i] = IF i = RecAt THEN r ELSE Line[i]
    BY <1>2
  <2> QED  BY <1>2, <2>1, <2>2 DEF SameShape
<1> HIDE DEF v
<1>4. Chain(v, matrix, HeldBy(t, reg))
  BY <1>2, <1>3, ChainSame DEF ChainInv
<1>5. Line' = v
  BY <1>1 DEF v
<1> QED  BY <1>1, <1>4, <1>5 DEF ChainInv

LEMMA ChainConsumed ==
  ASSUME TypeInv, Judging, IsEvent(Rec), ChainInv, pc = "drain" \/ buf = <<>>,
         NEW b \in Seq(Record), SameShape(b, buf), Consumed(b),
         \A k \in HeldBy(tapping', registered') :
           IF k = Rec.key THEN Rec.pressed ELSE k \in HeldBy(tapping, registered)
  PROVE  ChainInv'
<1>1. /\ Line' \in Seq(Record) /\ SameShape(Line', Tail(Line))
      /\ Line # <<>> /\ Line[1] = Rec /\ matrix' = matrix
  BY ConsumedLine
<1>2. Line \in Seq(Record)
  BY LineParts
<1> DEFINE held == HeldBy(tapping', registered')
<1>3. \A k \in held : IF k = Line[1].key THEN Line[1].pressed ELSE k \in HeldBy(tapping, registered)
  BY <1>1
<1> HIDE DEF held
<1>4. Chain(Tail(Line), matrix, held)
  BY <1>1, <1>2, <1>3, ChainTail DEF ChainInv
<1>5. Tail(Line) \in Seq(Record)
  BY <1>1, <1>2, TailParts
<1>6. Chain(Line', matrix, held)
  BY <1>1, <1>4, <1>5, ChainSame
<1> QED  BY <1>1, <1>6 DEF ChainInv, held

\* What is not held may be forgotten.
LEMMA ChainLess ==
  ASSUME TypeInv, ChainInv, Line' = Line, UNCHANGED matrix,
         HeldBy(tapping', registered') \subseteq HeldBy(tapping, registered)
  PROVE  ChainInv'
<1>1. Line \in Seq(Record)
  BY LineParts
<1> DEFINE held == HeldBy(tapping', registered')
<1> HIDE DEF held
<1>2. Chain(Line, matrix, held)
  BY <1>1, ChainSame, ShapeSelf DEF ChainInv, held
<1> QED  BY <1>2 DEF ChainInv, held
-----------------------------------------------------------------------------
(* Presses and releases that agree on the tap count *)

Repeating(t) == IsEvent(t) /\ t.pressed /\ t.count > 0 /\ t.count # 1

\* A tap key is down with one action, a regular key with its only one.
SingleRoles(reg) ==
  \A k \in Key : IF k \in TapKey THEN reg[k] \in {{}, {"tap"}, {"hold"}}
                                 ELSE reg[k] \subseteq {"key"}

\* The tapping key is down as a tap if it is settled, and else not yet.
TappingDown(t, reg) ==
  IsEvent(t) => /\ t.key \in TapKey
                /\ reg[t.key] = IF t.pressed /\ t.count > 0 THEN {"tap"} ELSE {}

\* An event that waits with a tap count is the release of a tap that is down,
\* and the first of its key.
TapWaits(w, i, t, reg) ==
  /\ \A j \in DOMAIN w : j < i => w[j].key # w[i].key
  /\ ~w[i].pressed /\ w[i].key \in TapKey
  /\ reg[w[i].key] = {"tap"}
  /\ ~(Repeating(t) /\ t.key = w[i].key)

\* A tap that is down is the tapping key, tapped repeatedly, or its release
\* waits and knows of it.
TapKnown(w, k, t) ==
  \/ Repeating(t) /\ t.key = k
  \/ \E i \in DOMAIN w : w[i].key = k /\ w[i].count > 0

Roles(w, t, reg) ==
  /\ SingleRoles(reg)
  /\ TappingDown(t, reg)
  /\ \A i \in DOMAIN w : w[i].count > 0 => TapWaits(w, i, t, reg)
  /\ \A k \in Key : reg[k] = {"tap"} => TapKnown(w, k, t)

RolesInv == Roles(Line, tapping, registered)

Tapper == Record \cup {NoRecord}
Registers == [Key -> SUBSET Action]

LEMMA TapperType ==
  ASSUME NEW t \in Tapper
  PROVE  /\ IsEvent(t) => t \in Record
         /\ ~IsEvent(t) => t = NoRecord /\ ~t.pressed /\ t.count = 0 /\ ~Repeating(t)
BY NoRecordType, RecordType, TickType DEF Tapper, Repeating

LEMMA ProcessedAt ==
  ASSUME NEW reg \in Registers, NEW r \in Record
  PROVE  /\ Processed(reg, r) \in Registers /\ r.key \in Key
         /\ \A k \in Key : k # r.key => Processed(reg, r)[k] = reg[k]
         /\ r.pressed => Processed(reg, r)[r.key] = reg[r.key] \cup {Role(r)}
         /\ ~r.pressed => Processed(reg, r)[r.key] = reg[r.key] \ {Role(r)}
BY ProcessedType, RecordType DEF Processed, Registers

LEMMA RoleOf ==
  ASSUME NEW r \in Record
  PROVE  /\ r.key \notin TapKey => Role(r) = "key"
         /\ r.key \in TapKey /\ r.count = 0 => Role(r) = "hold"
         /\ r.key \in TapKey /\ r.count > 0 /\ (r.pressed => ~r.interrupted) => Role(r) = "tap"
BY RecordType DEF Role, Cancelled

\* A regular key's event, or another key's release, leaves the front of the
\* line and is processed.
LEMMA RolesPass ==
  ASSUME NEW w \in Seq(Record), w # <<>>, NEW t \in Tapper, NEW reg \in Registers,
         Roles(w, t, reg), ~w[1].pressed \/ w[1].key \notin TapKey,
         IsEvent(t) /\ t.pressed => t.key # w[1].key
  PROVE  /\ Roles(Tail(w), t, Processed(reg, w[1]))
         /\ ~w[1].pressed => Processed(reg, w[1])[w[1].key] = {}
<1> DEFINE r == w[1]
           reg2 == Processed(reg, r)
           v == Tail(w)
<1>1. /\ 1 \in DOMAIN w /\ r \in Record
      /\ \A i \in DOMAIN v : i \in Nat /\ i + 1 \in DOMAIN w /\ v[i] = w[i + 1]
      /\ \A i \in DOMAIN w : i > 1 => i - 1 \in DOMAIN v /\ v[i - 1] = w[i]
      /\ DOMAIN w \subseteq Nat \ {0} /\ DOMAIN v \subseteq Nat \ {0}
  BY TailParts, SeqParts
<1>2. /\ r.key \in Key /\ \A k \in Key : k # r.key => reg2[k] = reg[k]
      /\ r.pressed => reg2[r.key] = reg[r.key] \cup {Role(r)}
      /\ ~r.pressed => reg2[r.key] = reg[r.key] \ {Role(r)}
  BY <1>1, ProcessedAt
<1>w. \A i \in DOMAIN w : w[i].key \in Key /\ w[i].count \in Nat
  BY SeqParts, RecordType
<1>t. IsEvent(t) => t.key \in Key
  BY TapperType, RecordType
<1>r. r = w[1] /\ r.count \in Nat
  BY <1>1, <1>w
<1> HIDE DEF r, reg2, v
<1>3. r.key \in TapKey => ~r.pressed /\ reg2[r.key] = {}
  <2> SUFFICES ASSUME r.key \in TapKey PROVE ~r.pressed /\ reg2[r.key] = {}
    OBVIOUS
  <2>1. ~r.pressed
    BY <1>r
  <2>2. CASE r.count > 0
    <3>1. reg[r.key] = {"tap"}
      BY <1>1, <1>r, <2>2 DEF Roles, TapWaits
    <3>2. Role(r) = "tap"
      BY <1>1, <2>1, <2>2, RoleOf
    <3> QED  BY <1>2, <2>1, <3>1, <3>2
  <2>3. CASE r.count = 0
    <3>1. Role(r) = "hold"
      BY <1>1, <2>3, RoleOf
    <3>2. reg[r.key] # {"tap"}
      <4> SUFFICES ASSUME reg[r.key] = {"tap"} PROVE FALSE
        OBVIOUS
      <4>1. ~(Repeating(t) /\ t.key = r.key)
        BY <1>r DEF Repeating
      <4>2. PICK i \in DOMAIN w : w[i].key = r.key /\ w[i].count > 0
        BY <1>2, <4>1 DEF Roles, TapKnown
      <4>3. i > 1
        BY <1>1, <1>r, <2>3, <4>2
      <4>4. w[1].key # w[i].key
        BY <1>1, <4>2, <4>3 DEF Roles, TapWaits
      <4> QED  BY <1>r, <4>2, <4>4
    <3>3. reg[r.key] \in {{}, {"hold"}}
      BY <1>2, <3>2 DEF Roles, SingleRoles
    <3> QED  BY <1>2, <2>1, <3>1, <3>3
  <2> QED  BY <1>r, <2>1, <2>2, <2>3
<1>4. r.key \notin TapKey => reg2[r.key] \subseteq {"key"} /\ (~r.pressed => reg2[r.key] = {})
  BY <1>1, <1>2, RoleOf DEF Roles, SingleRoles
<1>p. r.pressed \/ ~r.pressed
  OBVIOUS
<1>5. SingleRoles(reg2)
  BY <1>2, <1>3, <1>4 DEF Roles, SingleRoles
<1>6. TappingDown(t, reg2)
  <2> SUFFICES ASSUME IsEvent(t)
               PROVE  /\ t.key \in TapKey
                      /\ reg2[t.key] = IF t.pressed /\ t.count > 0 THEN {"tap"} ELSE {}
    BY DEF TappingDown
  <2>1. t.key \in TapKey /\ reg[t.key] = IF t.pressed /\ t.count > 0 THEN {"tap"} ELSE {}
    BY DEF Roles, TappingDown
  <2>2. CASE t.key # r.key
    BY <1>2, <1>t, <2>1, <2>2
  <2>3. CASE t.key = r.key
    BY <1>3, <1>r, <2>1, <2>3
  <2> QED  BY <2>2, <2>3
<1>7. ASSUME NEW i \in DOMAIN v, v[i].count > 0 PROVE TapWaits(v, i, t, reg2)
  <2>1. TapWaits(w, i + 1, t, reg) /\ 1 < i + 1
    BY <1>1, <1>7 DEF Roles
  <2>2. w[i + 1].key # r.key
    BY <1>1, <1>r, <2>1 DEF TapWaits
  <2>3. \A j \in DOMAIN v : j < i => v[j].key # v[i].key
    <3> SUFFICES ASSUME NEW j \in DOMAIN v, j < i PROVE v[j].key # v[i].key
      OBVIOUS
    <3>1. j + 1 \in DOMAIN w /\ j + 1 < i + 1 /\ v[j] = w[j + 1] /\ v[i] = w[i + 1]
      BY <1>1
    <3>2. w[j + 1].key # w[i + 1].key
      BY <2>1, <3>1 DEF TapWaits
    <3> QED  BY <3>1, <3>2
  <2>4. reg2[v[i].key] = {"tap"}
    BY <1>1, <1>2, <1>w, <2>1, <2>2 DEF TapWaits
  <2> QED  BY <1>1, <2>1, <2>3, <2>4 DEF TapWaits
<1>8. ASSUME NEW k \in Key, reg2[k] = {"tap"} PROVE TapKnown(v, k, t)
  <2>1. k # r.key
    BY <1>3, <1>4, <1>8
  <2>2. TapKnown(w, k, t)
    BY <1>2, <1>8, <2>1 DEF Roles
  <2>3. \A i \in DOMAIN w : w[i].key = k => i > 1
    BY <1>1, <1>r, <2>1
  <2> QED  BY <1>1, <2>2, <2>3 DEF TapKnown
<1>9. Roles(v, t, reg2)
  BY <1>5, <1>6, <1>7, <1>8 DEF Roles
<1>10. ~r.pressed => reg2[r.key] = {}
  BY <1>3, <1>4
<1> QED  BY <1>9, <1>10 DEF r, reg2, v

LEMMA WaitsTail ==
  ASSUME NEW w \in Seq(Record), w # <<>>, NEW t, NEW reg, NEW t2, NEW reg2,
         NEW i \in DOMAIN Tail(w), TapWaits(w, i + 1, t, reg),
         reg2[w[i + 1].key] = reg[w[i + 1].key],
         ~(Repeating(t2) /\ t2.key = w[i + 1].key)
  PROVE  TapWaits(Tail(w), i, t2, reg2)
<1> DEFINE v == Tail(w)
<1>1. \A j \in DOMAIN v : j \in Nat /\ j + 1 \in DOMAIN w /\ v[j] = w[j + 1]
  BY TailParts
<1>2. i \in DOMAIN v
  OBVIOUS
<1> HIDE DEF v
<1>3. \A j \in DOMAIN v : j < i => v[j].key # v[i].key
  <2> SUFFICES ASSUME NEW j \in DOMAIN v, j < i PROVE v[j].key # v[i].key
    OBVIOUS
  <2>1. j + 1 \in DOMAIN w /\ j + 1 < i + 1 /\ v[j] = w[j + 1] /\ v[i] = w[i + 1]
    BY <1>1, <1>2
  <2> QED  BY <2>1 DEF TapWaits
<1>4. TapWaits(v, i, t2, reg2)
  BY <1>1, <1>2, <1>3 DEF TapWaits
<1> QED  BY <1>4 DEF v

\* A tap key is pressed and becomes the tapping key.  If the last one was
\* tapped repeatedly and is down, it has been released first.
LEMMA RolesStart ==
  ASSUME NEW w \in Seq(Record), w # <<>>, NEW t \in Tapper, NEW reg \in Registers,
         NEW reg2 \in Registers,
         Roles(w, t, reg), w[1].pressed, w[1].key \in TapKey, w[1].count = 0,
         reg[w[1].key] = {},
         \A k \in Key : reg2[k] = IF Repeating(t) /\ k = t.key THEN {} ELSE reg[k]
  PROVE  Roles(Tail(w), w[1], reg2)
<1> DEFINE r == w[1]
           v == Tail(w)
<1>1. /\ 1 \in DOMAIN w /\ r \in Record
      /\ \A i \in DOMAIN v : i \in Nat /\ i + 1 \in DOMAIN w /\ v[i] = w[i + 1]
      /\ \A i \in DOMAIN w : i > 1 => i - 1 \in DOMAIN v /\ v[i - 1] = w[i]
      /\ DOMAIN w \subseteq Nat \ {0} /\ DOMAIN v \subseteq Nat \ {0}
  BY TailParts, SeqParts
<1>w. \A i \in DOMAIN w : w[i].key \in Key /\ w[i].count \in Nat
  BY SeqParts, RecordType
<1>r. r = w[1] /\ r.key \in Key
  BY <1>1, <1>w
<1>v. v = Tail(w)
  OBVIOUS
<1> HIDE DEF r, v
<1>2. SingleRoles(reg2)
  BY DEF Roles, SingleRoles
<1>3. TappingDown(r, reg2)
  <2>1. reg2[r.key] = {} /\ r.key \in TapKey /\ ~(r.count > 0)
    BY <1>r
  <2> QED  BY <2>1 DEF TappingDown
<1>4. ASSUME NEW i \in DOMAIN v, v[i].count > 0 PROVE TapWaits(v, i, r, reg2)
  <2>1. TapWaits(w, i + 1, t, reg) /\ w[i + 1].key \in Key
    BY <1>1, <1>w, <1>4 DEF Roles
  <2>2. reg2[w[i + 1].key] = reg[w[i + 1].key]
    BY <2>1 DEF TapWaits
  <2>3. ~Repeating(r)
    BY <1>r DEF Repeating
  <2> QED  BY <1>4, <1>v, <2>1, <2>2, <2>3, WaitsTail
<1>5. ASSUME NEW k \in Key, reg2[k] = {"tap"} PROVE TapKnown(v, k, r)
  <2>1. reg[k] = {"tap"} /\ ~(Repeating(t) /\ t.key = k)
    BY <1>5
  <2>2. PICK i \in DOMAIN w : w[i].key = k /\ w[i].count > 0
    BY <2>1 DEF Roles, TapKnown
  <2>3. i # 1
    BY <2>2
  <2>4. i - 1 \in DOMAIN v /\ v[i - 1] = w[i]
    BY <1>1, <2>3
  <2> QED  BY <2>2, <2>4 DEF TapKnown
<1>6. Roles(v, r, reg2)
  BY <1>2, <1>3, <1>4, <1>5 DEF Roles
<1> QED  BY <1>6 DEF r, v

\* The tapping key is settled as a tap, and its release, the first event of
\* its key that waits, learns of it.
LEMMA RolesTap ==
  ASSUME NEW w \in Seq(Record), NEW t \in Tapper, NEW reg \in Registers,
         Roles(w, t, reg), UnsettledPress(t),
         NEW i \in DOMAIN w, w[i].key = t.key, ~w[i].pressed,
         \A j \in DOMAIN w : j < i => w[j].key # t.key,
         NEW x \in Record, x.key = t.key, ~x.pressed, x.count = 1,
         NEW t2 \in Record, t2.key = t.key, t2.pressed, t2.count = 1,
         NEW reg2 \in Registers, reg2[t.key] = {"tap"},
         \A k \in Key : k # t.key => reg2[k] = reg[k]
  PROVE  Roles([w EXCEPT ![i] = x], t2, reg2)
<1> DEFINE v == [w EXCEPT ![i] = x]
<1>1. DOMAIN v = DOMAIN w /\ v[i] = x /\ \A j \in DOMAIN w : j # i => v[j] = w[j]
  OBVIOUS
<1>2. /\ t.key \in Key /\ t.key \in TapKey /\ reg[t.key] = {} /\ ~Repeating(t)
      /\ ~Repeating(t2) /\ IsEvent(t2)
  BY TapperType, RecordType DEF Roles, TappingDown, UnsettledPress, Repeating
<1>w. \A j \in DOMAIN w : w[j].key \in Key /\ w[j].count \in Nat
  BY SeqParts, RecordType
<1>d. DOMAIN w \subseteq Nat
  BY SeqParts
<1> HIDE DEF v
<1>3. SingleRoles(reg2)
  BY <1>2 DEF Roles, SingleRoles
<1>4. TappingDown(t2, reg2)
  BY <1>2 DEF TappingDown
<1>5. ASSUME NEW j \in DOMAIN v, v[j].count > 0 PROVE TapWaits(v, j, t2, reg2)
  <2>1. CASE j = i
    <3>1. \A n \in DOMAIN v : n < j => v[n].key # v[j].key
      BY <1>1, <1>d, <2>1
    <3> QED  BY <1>1, <1>2, <2>1, <3>1 DEF TapWaits
  <2>2. CASE j # i
    <3>1. TapWaits(w, j, t, reg) /\ v[j] = w[j] /\ j \in DOMAIN w
      BY <1>1, <1>5, <2>2 DEF Roles
    <3>2. w[j].key # t.key
      BY <1>2, <3>1 DEF TapWaits
    <3>3. \A n \in DOMAIN v : n < j => v[n].key # v[j].key
      <4> SUFFICES ASSUME NEW n \in DOMAIN v, n < j PROVE v[n].key # v[j].key
        OBVIOUS
      <4>1. v[n].key = w[n].key
        BY <1>1
      <4> QED  BY <1>1, <3>1, <4>1 DEF TapWaits
    <3>4. reg2[w[j].key] = {"tap"}
      BY <1>w, <3>1, <3>2 DEF TapWaits
    <3> QED  BY <1>2, <3>1, <3>3, <3>4 DEF TapWaits
  <2> QED  BY <2>1, <2>2
<1>6. ASSUME NEW k \in Key, reg2[k] = {"tap"} PROVE TapKnown(v, k, t2)
  <2>1. CASE k = t.key
    BY <1>1, <2>1 DEF TapKnown
  <2>2. CASE k # t.key
    <3>1. PICK j \in DOMAIN w : w[j].key = k /\ w[j].count > 0
      BY <1>2, <1>6, <2>2 DEF Roles, TapKnown
    <3>2. v[j] = w[j]
      BY <1>1, <2>2, <3>1
    <3> QED  BY <1>1, <3>1, <3>2 DEF TapKnown
  <2> QED  BY <2>1, <2>2
<1>7. Roles(v, t2, reg2)
  BY <1>3, <1>4, <1>5, <1>6 DEF Roles
<1> QED  BY <1>7 DEF v

\* The tapping key is settled as held.
LEMMA RolesHold ==
  ASSUME NEW w \in Seq(Record), NEW t \in Tapper, NEW reg \in Registers,
         Roles(w, t, reg), UnsettledPress(t)
  PROVE  /\ Roles(w, NoRecord, Processed(reg, t))
         /\ t \in Record /\ reg[t.key] = {}
<1>1. /\ t \in Record /\ t.key \in TapKey /\ reg[t.key] = {} /\ t.pressed /\ t.count = 0
      /\ ~Repeating(t) /\ IsEvent(t)
  BY TapperType DEF Roles, TappingDown, UnsettledPress, Repeating
<1> DEFINE reg2 == Processed(reg, t)
<1>2. t.key \in Key /\ reg2[t.key] = {"hold"} /\ \A k \in Key : k # t.key => reg2[k] = reg[k]
  <2>1. Role(t) = "hold"
    BY <1>1, RoleOf
  <2>2. /\ t.key \in Key /\ reg2[t.key] = reg[t.key] \cup {Role(t)}
        /\ \A k \in Key : k # t.key => reg2[k] = reg[k]
    BY <1>1, ProcessedAt
  <2> HIDE DEF reg2
  <2> QED  BY <1>1, <2>1, <2>2
<1> HIDE DEF reg2
<1>w. \A j \in DOMAIN w : w[j].key \in Key
  BY SeqParts, RecordType
<1>n. ~IsEvent(NoRecord) /\ ~Repeating(NoRecord)
  BY NoRecordType DEF Repeating
<1>3. SingleRoles(reg2)
  BY <1>1, <1>2 DEF Roles, SingleRoles
<1>4. ASSUME NEW i \in DOMAIN w, w[i].count > 0 PROVE TapWaits(w, i, NoRecord, reg2)
  <2>1. TapWaits(w, i, t, reg)
    BY <1>4 DEF Roles
  <2>2. reg2[w[i].key] = reg[w[i].key]
    BY <1>1, <1>2, <1>w, <2>1 DEF TapWaits
  <2> QED  BY <1>n, <2>1, <2>2 DEF TapWaits
<1>5. ASSUME NEW k \in Key, reg2[k] = {"tap"} PROVE TapKnown(w, k, NoRecord)
  <2>1. k # t.key
    BY <1>2, <1>5
  <2> QED  BY <1>1, <1>2, <1>5, <2>1 DEF Roles, TapKnown
<1>6. Roles(w, NoRecord, reg2)
  BY <1>3, <1>4, <1>5, <1>n DEF Roles, TappingDown
<1> QED  BY <1>1, <1>6 DEF reg2

\* The tapping key, tapped and up, is pressed again soon enough.
LEMMA RolesAgain ==
  ASSUME NEW w \in Seq(Record), w # <<>>, NEW t \in Tapper, NEW reg \in Registers,
         Roles(w, t, reg), IsEvent(t), ~t.pressed, w[1].key = t.key,
         NEW t2 \in Record, t2.key = t.key, t2.pressed, ~t2.interrupted,
         t2.count > 0, t2.count # 1
  PROVE  Roles(Tail(w), t2, Processed(reg, t2))
<1> DEFINE reg2 == Processed(reg, t2)
           v == Tail(w)
<1>1. /\ t.key \in TapKey /\ reg[t.key] = {} /\ ~Repeating(t) /\ t.key \in Key
      /\ Repeating(t2) /\ IsEvent(t2)
  BY TapperType, RecordType DEF Roles, TappingDown, Repeating
<1>2. reg2[t.key] = {"tap"} /\ \A k \in Key : k # t.key => reg2[k] = reg[k]
  <2>1. Role(t2) = "tap"
    BY <1>1, RoleOf
  <2>2. reg2[t.key] = reg[t.key] \cup {Role(t2)}
    <3>1. t2.pressed => Processed(reg, t2)[t2.key] = reg[t2.key] \cup {Role(t2)}
      BY ProcessedAt
    <3> QED  BY <3>1
  <2>3. \A k \in Key : k # t.key => reg2[k] = reg[k]
    BY ProcessedAt
  <2> QED  BY <1>1, <2>1, <2>2, <2>3
<1>3. /\ \A i \in DOMAIN v : i + 1 \in DOMAIN w /\ v[i] = w[i + 1]
      /\ \A i \in DOMAIN w : i > 1 => i - 1 \in DOMAIN v /\ v[i - 1] = w[i]
      /\ DOMAIN w \subseteq Nat \ {0}
  BY TailParts, SeqParts
<1>w. \A j \in DOMAIN w : w[j].key \in Key
  BY SeqParts, RecordType
<1>v. v = Tail(w)
  OBVIOUS
<1> HIDE DEF reg2, v
<1>4. SingleRoles(reg2)
  BY <1>1, <1>2 DEF Roles, SingleRoles
<1>5. TappingDown(t2, reg2)
  BY <1>1, <1>2 DEF TappingDown
<1>6. ASSUME NEW i \in DOMAIN v, v[i].count > 0 PROVE TapWaits(v, i, t2, reg2)
  <2>1. TapWaits(w, i + 1, t, reg) /\ w[i + 1].key \in Key
    BY <1>3, <1>6, <1>w DEF Roles
  <2>2. w[i + 1].key # t.key
    BY <1>1, <2>1 DEF TapWaits
  <2>3. reg2[w[i + 1].key] = reg[w[i + 1].key]
    BY <1>2, <2>1, <2>2
  <2> QED  BY <1>6, <1>v, <2>1, <2>2, <2>3, WaitsTail
<1>7. ASSUME NEW k \in Key, reg2[k] = {"tap"} PROVE TapKnown(v, k, t2)
  <2>1. CASE k = t.key
    BY <1>1, <2>1 DEF TapKnown
  <2>2. CASE k # t.key
    <3>1. PICK i \in DOMAIN w : w[i].key = k /\ w[i].count > 0
      BY <1>1, <1>2, <1>7, <2>2 DEF Roles, TapKnown
    <3>2. i > 1
      BY <1>3, <2>2, <3>1
    <3>3. i - 1 \in DOMAIN v /\ v[i - 1] = w[i]
      BY <1>3, <3>2
    <3> QED  BY <3>1, <3>3 DEF TapKnown
  <2> QED  BY <2>1, <2>2
<1>8. Roles(v, t2, reg2)
  BY <1>4, <1>5, <1>6, <1>7 DEF Roles
<1> QED  BY <1>8 DEF reg2, v

\* The tapping key, tapped, is released.
LEMMA RolesReleased ==
  ASSUME NEW w \in Seq(Record), w # <<>>, NEW t \in Tapper, NEW reg \in Registers,
         Roles(w, t, reg), IsEvent(t), t.pressed, t.count > 0, w[1].key = t.key,
         NEW x \in Record, x.key = t.key, ~x.pressed, x.count > 0,
         NEW t2 \in {x, NoRecord}
  PROVE  /\ Roles(Tail(w), t2, Processed(reg, x))
         /\ Processed(reg, x)[t.key] = {}
<1> DEFINE reg2 == Processed(reg, x)
           v == Tail(w)
<1>1. t.key \in TapKey /\ reg[t.key] = {"tap"} /\ t.key \in Key
  BY TapperType, RecordType DEF Roles, TappingDown
<1>2. reg2[t.key] = {} /\ \A k \in Key : k # t.key => reg2[k] = reg[k]
  <2>1. Role(x) = "tap"
    BY <1>1, RoleOf
  <2>2. reg2[t.key] = reg[t.key] \ {Role(x)} /\ \A k \in Key : k # t.key => reg2[k] = reg[k]
    BY ProcessedAt
  <2> HIDE DEF reg2
  <2> QED  BY <1>1, <2>1, <2>2
<1>3. /\ \A i \in DOMAIN v : i \in Nat \ {0} /\ i + 1 \in DOMAIN w /\ v[i] = w[i + 1]
      /\ \A i \in DOMAIN w : i > 1 => i - 1 \in DOMAIN v /\ v[i - 1] = w[i]
      /\ DOMAIN w \subseteq Nat \ {0} /\ 1 \in DOMAIN w
  BY TailParts, SeqParts
<1>w. \A j \in DOMAIN w : w[j].key \in Key
  BY SeqParts, RecordType
<1>v. v = Tail(w)
  OBVIOUS
<1>n. ~Repeating(t2) /\ (IsEvent(t2) => t2 = x)
  BY NoRecordType DEF Repeating
<1> HIDE DEF reg2, v
<1>4. SingleRoles(reg2)
  BY <1>1, <1>2 DEF Roles, SingleRoles
<1>5. TappingDown(t2, reg2)
  <2> SUFFICES ASSUME IsEvent(t2) PROVE TappingDown(t2, reg2)
    BY DEF TappingDown
  <2>1. t2.key = t.key /\ ~t2.pressed
    BY <1>n
  <2> QED  BY <1>1, <1>2, <2>1 DEF TappingDown
<1>6. ASSUME NEW i \in DOMAIN v, v[i].count > 0 PROVE TapWaits(v, i, t2, reg2)
  <2>1. TapWaits(w, i + 1, t, reg) /\ w[i + 1].key \in Key /\ 1 < i + 1
    BY <1>3, <1>6, <1>w DEF Roles
  <2>2. w[i + 1].key # t.key
    BY <1>3, <2>1 DEF TapWaits
  <2>3. reg2[w[i + 1].key] = reg[w[i + 1].key]
    BY <1>2, <2>1, <2>2
  <2> QED  BY <1>6, <1>n, <1>v, <2>1, <2>2, <2>3, WaitsTail
<1>7. ASSUME NEW k \in Key, reg2[k] = {"tap"} PROVE TapKnown(v, k, t2)
  <2>2. k # t.key
    BY <1>2, <1>7
  <2>3. PICK i \in DOMAIN w : w[i].key = k /\ w[i].count > 0
    BY <1>1, <1>2, <1>7, <2>2 DEF Roles, TapKnown
  <2>4. i > 1
    BY <1>3, <2>2, <2>3
  <2>5. i - 1 \in DOMAIN v /\ v[i - 1] = w[i]
    BY <1>3, <2>4
  <2> QED  BY <2>3, <2>5 DEF TapKnown
<1>8. Roles(v, t2, reg2)
  BY <1>4, <1>5, <1>6, <1>7 DEF Roles
<1> QED  BY <1>2, <1>8 DEF reg2, v

\* The tapping key is forgotten, or merely interrupted.
LEMMA RolesForget ==
  ASSUME NEW w, NEW t, NEW reg, Roles(w, t, reg), ~t.pressed
  PROVE  Roles(w, NoRecord, reg)
BY NoRecordType DEF Roles, TappingDown, TapWaits, TapKnown, Repeating

LEMMA RolesSameTap ==
  ASSUME NEW w, NEW t, NEW reg, Roles(w, t, reg),
         NEW t2, t2.key = t.key, t2.pressed = t.pressed, t2.count = t.count
  PROVE  Roles(w, t2, reg)
BY DEF Roles, TappingDown, TapWaits, TapKnown, Repeating, IsEvent

\* A regular key's release is taken from the end of the line.
LEMMA RolesFront ==
  ASSUME NEW w \in Seq(Record), NEW r \in Record, NEW t \in Tapper, NEW reg \in Registers,
         Roles(Append(w, r), t, reg), r.key \notin TapKey, ~r.pressed
  PROVE  Roles(w, t, Processed(reg, r)) /\ Processed(reg, r)[r.key] = {}
<1> DEFINE reg2 == Processed(reg, r)
           v == Append(w, r)
<1>1. /\ DOMAIN v = DOMAIN w \cup {Len(w) + 1} /\ v[Len(w) + 1] = r
      /\ \A i \in DOMAIN w : i \in Nat /\ i < Len(w) + 1 /\ v[i] = w[i]
  BY AppendParts
<1>2. /\ r.key \in Key /\ \A k \in Key : k # r.key => reg2[k] = reg[k]
      /\ reg2[r.key] = reg[r.key] \ {"key"}
  BY ProcessedAt, RoleOf
<1>r. Roles(v, t, reg)
  OBVIOUS
<1>t. IsEvent(t) => t.key \in Key
  BY TapperType, RecordType
<1>w. \A j \in DOMAIN w : w[j].key \in Key
  BY SeqParts, RecordType
<1> HIDE DEF reg2, v
<1>3. reg2[r.key] = {}
  BY <1>2, <1>r DEF Roles, SingleRoles
<1>4. SingleRoles(reg2)
  BY <1>2, <1>3, <1>r DEF Roles, SingleRoles
<1>5. TappingDown(t, reg2)
  <2>1. t.key # r.key \/ ~IsEvent(t)
    BY <1>r DEF Roles, TappingDown
  <2> QED  BY <1>2, <1>r, <1>t, <2>1 DEF Roles, TappingDown
<1>6. ASSUME NEW i \in DOMAIN w, w[i].count > 0 PROVE TapWaits(w, i, t, reg2)
  <2>1. TapWaits(v, i, t, reg) /\ v[i] = w[i]
    BY <1>1, <1>6, <1>r DEF Roles
  <2>2. reg2[w[i].key] = reg[w[i].key]
    BY <1>2, <1>w, <2>1 DEF TapWaits
  <2> QED  BY <1>1, <2>1, <2>2 DEF TapWaits
<1>7. ASSUME NEW k \in Key, reg2[k] = {"tap"} PROVE TapKnown(w, k, t)
  <2>1. k # r.key /\ reg[k] = {"tap"}
    BY <1>2, <1>3, <1>7
  <2>2. TapKnown(v, k, t)
    BY <1>r, <2>1 DEF Roles
  <2> QED  BY <1>1, <2>1, <2>2 DEF TapKnown
<1>8. Roles(w, t, reg2)
  BY <1>4, <1>5, <1>6, <1>7 DEF Roles
<1> QED  BY <1>3, <1>8 DEF reg2

\* A new event joins the line.
LEMMA RolesAppend ==
  ASSUME NEW w \in Seq(Record), NEW r \in Record, NEW t, NEW reg,
         Roles(w, t, reg), r.count = 0
  PROVE  Roles(Append(w, r), t, reg)
<1> DEFINE v == Append(w, r)
<1>1. /\ DOMAIN v = DOMAIN w \cup {Len(w) + 1} /\ v[Len(w) + 1] = r
      /\ \A i \in DOMAIN w : i \in Nat /\ i < Len(w) + 1 /\ v[i] = w[i]
      /\ Len(w) \in Nat
  BY AppendParts
<1> HIDE DEF v
<1>2. ASSUME NEW i \in DOMAIN v, v[i].count > 0 PROVE TapWaits(v, i, t, reg)
  <2>1. i \in DOMAIN w /\ v[i] = w[i]
    BY <1>1, <1>2
  <2>2. TapWaits(w, i, t, reg)
    BY <1>2, <2>1 DEF Roles
  <2>3. \A j \in DOMAIN v : j < i => v[j].key # v[i].key
    BY <1>1, <2>1, <2>2 DEF TapWaits
  <2> QED  BY <2>1, <2>2, <2>3 DEF TapWaits
<1>3. ASSUME NEW k \in Key, reg[k] = {"tap"} PROVE TapKnown(v, k, t)
  BY <1>1, <1>3 DEF Roles, TapKnown
<1>4. Roles(v, t, reg)
  BY <1>2, <1>3 DEF Roles
<1> QED  BY <1>4 DEF v

LEMMA RolesCleared ==
  ASSUME NEW reg, \A k \in Key : reg[k] = {}
  PROVE  Roles(<<>>, NoRecord, reg)
BY NoRecordType DEF Roles, SingleRoles, TappingDown
-----------------------------------------------------------------------------
(* Time stamps of what waits *)

\* The timer does not come around while events wait: every event that finds the
\* tapping key overdue settles it, so that at most one round of the main loop is
\* added for each key that waits to become the tapping key.
NoWrap == TappingTerm + BufferSize * MaxGap <= TimeMod

Bound(n) == TappingTerm + MaxGap * n

\* The ages of what waits, at time n: the i-th event less than Bound says, none
\* older than the ones before it, nor than the undecided tapping key t.
Ages(b, t, n, s) ==
  /\ \A i \in DOMAIN b : TimerDiff(n, b[i].time) < Bound(BufferSize - 1 - i + s)
  /\ \A i, j \in DOMAIN b : i <= j => TimerDiff(n, b[j].time) <= TimerDiff(n, b[i].time)
  /\ UnsettledPress(t) =>
       /\ TimerDiff(n, t.time) < Bound(BufferSize - 1 + s)
       /\ \A i \in DOMAIN b : TimerDiff(n, b[i].time) <= TimerDiff(n, t.time)

\* Whether the round that has just begun may still have to take the first event
\* from the line: the line is one round older then.
Slack ==
  IF \/ pc = "event"
     \/ pc = "drain" /\ (~IsEvent(tapping) \/ (tapping.pressed /\ tapping.count > 0))
  THEN 1 ELSE 0

Clock == (pc = "event" => cur.time = now) /\ Ages(buf, tapping, now, Slack)

LEMMA ModOfSum ==
  ASSUME NEW T \in Nat \ {0}, NEW x \in 0 .. T - 1, NEW y \in 0 .. T - 1
  PROVE  (x + y) % T \in 0 .. T - 1 /\ ((x + y) % T = x + y \/ (x + y) % T = x + y - T)
OBVIOUS

LEMMA ModOfDifference ==
  ASSUME NEW T \in Nat \ {0}, NEW x \in 0 .. T - 1, NEW y \in 0 .. T - 1
  PROVE  (x - y) % T \in 0 .. T - 1 /\ ((x - y) % T = x - y \/ (x - y) % T = x - y + T)
OBVIOUS

LEMMA ConstantFacts ==
  ASSUME NoWrap
  PROVE  /\ TappingTerm \in Nat \ {0} /\ BufferSize \in Nat \ {0, 1} /\ MaxGap \in Nat \ {0}
         /\ TimeMod \in Nat \ {0} /\ MaxGap < TimeMod
<1>1. /\ TappingTerm \in Nat \ {0} /\ BufferSize \in Nat \ {0, 1} /\ MaxGap \in Nat \ {0}
      /\ TimeMod \in Nat \ {0}
  BY TermsAssumption
<1>2. \A x, y \in Nat \ {0} : x <= y * x
  OBVIOUS
<1>3. MaxGap <= BufferSize * MaxGap /\ BufferSize * MaxGap \in Nat
  BY <1>1, <1>2
<1> QED  BY <1>1, <1>3 DEF NoWrap

LEMMA BoundStep == \A n \in Int : Bound(n) \in Int /\ Bound(n + 1) = Bound(n) + MaxGap
<1>1. TappingTerm \in Nat /\ MaxGap \in Nat
  BY TermsAssumption
<1>2. \A n \in Int : MaxGap * n \in Int /\ MaxGap * (n + 1) = MaxGap * n + MaxGap
  BY <1>1
<1> QED  BY <1>1, <1>2 DEF Bound

LEMMA BoundGrows ==
  ASSUME NEW m \in Int, NEW n \in Int, m <= n
  PROVE  Bound(m) \in Int /\ Bound(n) \in Int /\ Bound(m) <= Bound(n)
<1>1. TappingTerm \in Nat /\ MaxGap \in Nat
  BY TermsAssumption
<1>2. \A g \in Nat : g * m \in Int /\ g * n \in Int /\ g * m <= g * n
  OBVIOUS
<1> QED  BY <1>1, <1>2 DEF Bound

LEMMA BoundZero == Bound(0) = TappingTerm
BY TermsAssumption DEF Bound

LEMMA BoundAtLeast == \A n \in Nat : Bound(n) \in Int /\ TappingTerm <= Bound(n) /\ 0 < Bound(n)
<1> TAKE n \in Nat
<1>1. TappingTerm \in Nat \ {0} /\ 0 \in Int /\ n \in Int /\ 0 <= n
  BY TermsAssumption
<1>2. Bound(0) <= Bound(n) /\ Bound(n) \in Int
  BY <1>1, BoundGrows
<1> QED  BY <1>1, <1>2, BoundZero

LEMMA BoundLast == NoWrap => Bound(BufferSize) <= TimeMod
<1>1. MaxGap * BufferSize = BufferSize * MaxGap
  BY TermsAssumption
<1> QED  BY <1>1 DEF Bound, NoWrap

LEMMA DiffFacts ==
  ASSUME NEW n \in Times, NEW t \in Times
  PROVE  /\ TimerDiff(n, t) \in Times /\ TimerDiff(n, t) \in Nat
         /\ TimerDiff(n, t) = n - t \/ TimerDiff(n, t) = n - t + TimeMod
         /\ n = t => TimerDiff(n, t) = 0
<1>1. TimeMod \in Nat \ {0}
  BY TermsAssumption
<1>2. /\ (n - t) % TimeMod \in 0 .. TimeMod - 1
      /\ (n - t) % TimeMod = n - t \/ (n - t) % TimeMod = n - t + TimeMod
  BY <1>1, ModOfDifference DEF Times
<1> DEFINE e == (n - t) % TimeMod
<1>3. e \in 0 .. TimeMod - 1 /\ (e = n - t \/ e = n - t + TimeMod) /\ TimerDiff(n, t) = e
  BY <1>2 DEF TimerDiff
<1> HIDE DEF e
<1> QED  BY <1>1, <1>3 DEF Times

\* The age of t grows by d as the time moves from n to n + d.
LEMMA DiffLater ==
  ASSUME NoWrap, NEW n \in Times, NEW t \in Times, NEW d \in 0 .. MaxGap,
         TimerDiff(n, t) + d < TimeMod
  PROVE  /\ (n + d) % TimeMod \in Times
         /\ TimerDiff((n + d) % TimeMod, t) = TimerDiff(n, t) + d
<1> DEFINE m == (n + d) % TimeMod
           e == TimerDiff(n, t)
           f == TimerDiff(m, t)
<1>1. TimeMod \in Nat \ {0} /\ d \in 0 .. TimeMod - 1 /\ d \in Nat
  BY ConstantFacts
<1>2. m \in Times /\ (m = n + d \/ m = n + d - TimeMod)
  BY <1>1, ModOfSum DEF Times
<1>3. e \in Times /\ (e = n - t \/ e = n - t + TimeMod) /\ e + d < TimeMod
  BY DiffFacts
<1>4. f \in Times /\ (f = m - t \/ f = m - t + TimeMod)
  BY <1>2, DiffFacts
<1> HIDE DEF m, e, f
<1>5. f = e + d
  BY <1>1, <1>2, <1>3, <1>4 DEF Times
<1> QED  BY <1>2, <1>5 DEF m, e, f

\* How far apart two events are follows from their ages.
LEMMA DiffBetween ==
  ASSUME NEW n \in Times, NEW x \in Times, NEW y \in Times,
         TimerDiff(n, x) <= TimerDiff(n, y)
  PROVE  TimerDiff(x, y) = TimerDiff(n, y) - TimerDiff(n, x)
<1> DEFINE e == TimerDiff(n, x)
           f == TimerDiff(n, y)
           g == TimerDiff(x, y)
<1>1. /\ e \in Times /\ (e = n - x \/ e = n - x + TimeMod)
      /\ f \in Times /\ (f = n - y \/ f = n - y + TimeMod)
      /\ g \in Times /\ (g = x - y \/ g = x - y + TimeMod)
  BY DiffFacts
<1>2. TimeMod \in Nat \ {0} /\ e <= f
  BY TermsAssumption
<1> HIDE DEF e, f, g
<1>3. g = f - e
  BY <1>1, <1>2 DEF Times
<1> QED  BY <1>3 DEF e, f, g

\* If an event that waits came within the term of the first one, so did every
\* event between them.
LEMMA WithinBetween ==
  ASSUME NEW b \in Seq(Record), NEW t, NEW n \in Times, NEW s, Ages(b, t, n, s),
         NEW i \in DOMAIN b, NEW j \in DOMAIN b, j <= i,
         TimerDiff(b[i].time, b[1].time) < TappingTerm
  PROVE  TimerDiff(b[j].time, b[1].time) < TappingTerm
<1>1. 1 \in DOMAIN b /\ 1 <= i /\ 1 <= j /\ DOMAIN b \subseteq Nat
  BY SeqParts
<1>2. b[1].time \in Times /\ b[i].time \in Times /\ b[j].time \in Times
  BY <1>1, SeqParts, RecordType
<1>3. /\ TimerDiff(n, b[i].time) <= TimerDiff(n, b[j].time)
      /\ TimerDiff(n, b[j].time) <= TimerDiff(n, b[1].time)
      /\ TimerDiff(n, b[i].time) <= TimerDiff(n, b[1].time)
  BY <1>1 DEF Ages
<1>4. /\ TimerDiff(b[i].time, b[1].time) = TimerDiff(n, b[1].time) - TimerDiff(n, b[i].time)
      /\ TimerDiff(b[j].time, b[1].time) = TimerDiff(n, b[1].time) - TimerDiff(n, b[j].time)
  BY <1>2, <1>3, DiffBetween
<1>5. /\ TimerDiff(n, b[i].time) \in Nat /\ TimerDiff(n, b[j].time) \in Nat
      /\ TimerDiff(n, b[1].time) \in Nat
  BY <1>2, DiffFacts
<1>6. TappingTerm \in Nat
  BY TermsAssumption
<1> HIDE DEF TimerDiff
<1> QED  BY <1>3, <1>4, <1>5, <1>6

LEMMA BufferTimes ==
  ASSUME NEW b \in Seq(Record), NEW n \in Times
  PROVE  \A i \in DOMAIN b : /\ b[i].time \in Times /\ i \in Nat /\ 1 <= i /\ i <= Len(b)
                             /\ TimerDiff(n, b[i].time) \in Nat
BY SeqParts, RecordType, DiffFacts

LEMMA TapperTime ==
  ASSUME NEW t \in Tapper, NEW n \in Times, UnsettledPress(t)
  PROVE  t.time \in Times /\ TimerDiff(n, t.time) \in Nat /\ t \in Record
BY TapperType, RecordType, DiffFacts DEF UnsettledPress

\* A round of the main loop later.
LEMMA AgesLater ==
  ASSUME NoWrap, NEW b \in Seq(Record), NEW t \in Tapper, NEW n \in Times,
         NEW d \in 0 .. MaxGap, Len(b) < BufferSize, Ages(b, t, n, 0)
  PROVE  Ages(b, t, (n + d) % TimeMod, 1)
<1> DEFINE m == (n + d) % TimeMod
           A(x) == TimerDiff(n, x)
           B(x) == TimerDiff(m, x)
           K == BufferSize - 1
<1>1. \A i \in DOMAIN b : b[i].time \in Times /\ i \in Nat /\ 1 <= i /\ i <= Len(b) /\ A(b[i].time) \in Nat
  BY BufferTimes
<1>2. K \in Nat /\ K + 1 = BufferSize /\ MaxGap \in Nat /\ TimeMod \in Nat /\ d \in Nat /\ d <= MaxGap
  BY ConstantFacts
<1>b. Bound(K) \in Int /\ Bound(K + 1) = Bound(K) + MaxGap /\ Bound(K) + MaxGap <= TimeMod
  <2> HIDE DEF K
  <2>1. K \in Int
    BY <1>2
  <2>2. Bound(K) \in Int /\ Bound(K + 1) = Bound(K) + MaxGap
    BY <2>1, BoundStep
  <2>3. Bound(K + 1) <= TimeMod
    BY <1>2, BoundLast
  <2> QED  BY <2>2, <2>3
<1>3. \A x \in Times : A(x) + d < TimeMod => B(x) = A(x) + d
  BY DiffLater
<1>4. \A i, j \in DOMAIN b : i <= j => A(b[j].time) <= A(b[i].time)
  BY DEF Ages
<1>5. \A i \in DOMAIN b : A(b[i].time) < Bound(K - i + 0)
  BY DEF Ages
<1>6. UnsettledPress(t) => /\ A(t.time) < Bound(K + 0) /\ t.time \in Times /\ A(t.time) \in Nat
                           /\ \A i \in DOMAIN b : A(b[i].time) <= A(t.time)
  BY TapperTime DEF Ages
<1> HIDE DEF m, A, B, K
<1>7. \A i \in DOMAIN b : B(b[i].time) = A(b[i].time) + d /\ B(b[i].time) < Bound(K - i + 1)
  <2> TAKE i \in DOMAIN b
  <2> DEFINE k == K - i
  <2>1. k \in Int /\ k <= K /\ k + 0 = k
    BY <1>1, <1>2
  <2> HIDE DEF k
  <2>0. /\ Bound(k) \in Int /\ Bound(k + 1) = Bound(k) + MaxGap
        /\ Bound(k) <= Bound(K)
    <3>1. K \in Int
      BY <1>2
    <3> QED  BY <2>1, <3>1, BoundStep, BoundGrows
  <2>2. A(b[i].time) < Bound(k)
    <3>1. A(b[i].time) < Bound(k + 0)
      BY <1>5 DEF k
    <3> QED  BY <2>1, <3>1
  <2>a. A(b[i].time) \in Nat
    BY <1>1
  <2>3. A(b[i].time) + d < TimeMod
    BY <1>2, <1>b, <2>0, <2>2, <2>a
  <2>4. B(b[i].time) = A(b[i].time) + d
    BY <1>1, <1>3, <2>3
  <2>5. B(b[i].time) < Bound(k + 1)
    BY <1>2, <2>0, <2>2, <2>4, <2>a
  <2> QED  BY <2>4, <2>5 DEF k
<1>8. \A i, j \in DOMAIN b : i <= j => B(b[j].time) <= B(b[i].time)
  BY <1>1, <1>2, <1>4, <1>7
<1>9. UnsettledPress(t) => /\ B(t.time) < Bound(K + 1)
                           /\ \A i \in DOMAIN b : B(b[i].time) <= B(t.time)
  <2> SUFFICES ASSUME UnsettledPress(t)
               PROVE  /\ B(t.time) < Bound(K + 1)
                      /\ \A i \in DOMAIN b : B(b[i].time) <= B(t.time)
    OBVIOUS
  <2>1. K + 0 = K
    BY <1>2
  <2>2. A(t.time) < Bound(K) /\ A(t.time) \in Nat /\ t.time \in Times
    BY <1>6, <2>1
  <2>3. A(t.time) + d < TimeMod
    BY <1>2, <1>b, <2>2
  <2>4. B(t.time) = A(t.time) + d
    BY <1>3, <2>2, <2>3
  <2>5. B(t.time) < Bound(K + 1)
    BY <1>2, <1>b, <2>2, <2>4
  <2> QED  BY <1>1, <1>2, <1>6, <1>7, <2>2, <2>4, <2>5
<1> QED  BY <1>7, <1>8, <1>9 DEF Ages, m, A, B, K

\* As long as the tapping key is within its term, so is what waits for it.
LEMMA AgesYoung ==
  ASSUME NoWrap, NEW b \in Seq(Record), NEW t \in Tapper, NEW n \in Times, NEW s,
         Len(b) < BufferSize, Ages(b, t, n, s), UnsettledPress(t),
         TimerDiff(n, t.time) < TappingTerm
  PROVE  Ages(b, t, n, 0)
<1> DEFINE A(x) == TimerDiff(n, x)
           K == BufferSize - 1
<1>1. \A i \in DOMAIN b : i \in Nat /\ 1 <= i /\ i <= Len(b) /\ A(b[i].time) \in Nat
  BY BufferTimes
<1>2. K \in Nat /\ TappingTerm \in Nat /\ Len(b) <= K /\ Len(b) \in Nat
  BY ConstantFacts, SeqParts
<1>b. \A a \in Nat : Bound(a) \in Int /\ TappingTerm <= Bound(a)
  BY BoundAtLeast
<1>3. /\ A(t.time) < TappingTerm /\ A(t.time) \in Nat
      /\ \A i \in DOMAIN b : A(b[i].time) <= A(t.time)
      /\ \A i, j \in DOMAIN b : i <= j => A(b[j].time) <= A(b[i].time)
  BY TapperTime DEF Ages
<1> HIDE DEF A, K
<1>4. \A i \in DOMAIN b : A(b[i].time) < Bound(K - i + 0)
  <2> TAKE i \in DOMAIN b
  <2> DEFINE k == K - i + 0
  <2>1. k \in Nat
    BY <1>1, <1>2
  <2> HIDE DEF k
  <2>2. A(b[i].time) < Bound(k)
    <3>1. Bound(k) \in Int /\ TappingTerm <= Bound(k)
      BY <1>b, <2>1
    <3> QED  BY <1>1, <1>2, <1>3, <3>1
  <2> QED  BY <2>2 DEF k
<1>5. A(t.time) < Bound(K + 0)
  <2>1. K + 0 = K
    BY <1>2
  <2>2. A(t.time) < Bound(K)
    <3>1. Bound(K) \in Int /\ TappingTerm <= Bound(K)
      BY <1>2, <1>b
    <3> QED  BY <1>2, <1>3, <3>1
  <2> QED  BY <2>1, <2>2
<1> QED  BY <1>3, <1>4, <1>5 DEF Ages, A, K

\* What is asked of the tapping key is asked of its time only.
LEMMA AgesSame ==
  ASSUME NEW b, NEW c, DOMAIN c = DOMAIN b, \A i \in DOMAIN b : c[i].time = b[i].time,
         NEW t, NEW t2, UnsettledPress(t2) => UnsettledPress(t) /\ t2.time = t.time,
         NEW n, NEW s, Ages(b, t, n, s)
  PROVE  Ages(c, t2, n, s)
BY DEF Ages

\* The event of this very time joins the buffer.
LEMMA AgesAppend ==
  ASSUME NoWrap, NEW b \in Seq(Record), NEW t \in Tapper, NEW n \in Times, NEW s \in {0, 1},
         Len(b) + 1 < BufferSize, Ages(b, t, n, s), NEW r \in Record, r.time = n
  PROVE  Ages(Append(b, r), t, n, s)
<1> DEFINE A(x) == TimerDiff(n, x)
           K == BufferSize - 1
           v == Append(b, r)
           m == Len(b) + 1
<1>1. /\ DOMAIN v = DOMAIN b \cup {m} /\ v[m] = r
      /\ \A i \in DOMAIN b : i \in Nat /\ i < m /\ v[i] = b[i] /\ A(b[i].time) \in Nat
  BY AppendParts, BufferTimes
<1>2. A(r.time) = 0 /\ m \in Nat /\ m <= K /\ K \in Nat
  <2>1. A(r.time) = 0
    BY DiffFacts
  <2> QED  BY <2>1, ConstantFacts, SeqParts
<1>3. \A a \in Nat : Bound(a) \in Int /\ 0 < Bound(a)
  BY BoundAtLeast
<1>4. /\ \A i \in DOMAIN b : A(b[i].time) < Bound(K - i + s)
      /\ \A i, j \in DOMAIN b : i <= j => A(b[j].time) <= A(b[i].time)
      /\ UnsettledPress(t) => /\ A(t.time) < Bound(K + s) /\ A(t.time) \in Nat
                              /\ \A i \in DOMAIN b : A(b[i].time) <= A(t.time)
  BY TapperTime DEF Ages
<1> HIDE DEF A, K, v, m
<1>5. A(r.time) < Bound(K - m + s)
  <2> DEFINE k == K - m + s
  <2>1. k \in Nat
    BY <1>2
  <2> HIDE DEF k
  <2>2. A(r.time) < Bound(k)
    BY <1>2, <1>3, <2>1
  <2> QED  BY <2>2 DEF k
<1>6. \A i \in DOMAIN v : A(v[i].time) < Bound(K - i + s)
  BY <1>1, <1>4, <1>5
<1>7. \A i, j \in DOMAIN v : i <= j => A(v[j].time) <= A(v[i].time)
  <2> SUFFICES ASSUME NEW i \in DOMAIN v, NEW j \in DOMAIN v, i <= j
               PROVE  A(v[j].time) <= A(v[i].time)
    OBVIOUS
  <2>1. CASE i \in DOMAIN b /\ j \in DOMAIN b
    BY <1>1, <1>4, <2>1
  <2>2. CASE i = m
    <3>1. j = m
      BY <1>1, <1>2, <2>2
    <3> QED  BY <1>1, <1>2, <2>2, <3>1
  <2>3. CASE i \in DOMAIN b /\ j = m
    BY <1>1, <1>2, <2>3
  <2> QED  BY <1>1, <2>1, <2>2, <2>3
<1>8. UnsettledPress(t) => /\ A(t.time) < Bound(K + s)
                           /\ \A i \in DOMAIN v : A(v[i].time) <= A(t.time)
  BY <1>1, <1>2, <1>4
<1> QED  BY <1>6, <1>7, <1>8 DEF Ages, A, K, v, m

\* The first event leaves the buffer, and may become the tapping key.
LEMMA AgesTail ==
  ASSUME NoWrap, NEW b \in Seq(Record), b # <<>>, Len(b) < BufferSize,
         NEW t \in Tapper, NEW n \in Times, NEW s \in {0, 1}, Ages(b, t, n, s),
         NEW t2, UnsettledPress(t2) => \/ t2.time = b[1].time
                                       \/ s = 0 /\ UnsettledPress(t) /\ t2.time = t.time
  PROVE  Ages(Tail(b), t2, n, 0)
<1> DEFINE A(x) == TimerDiff(n, x)
           K == BufferSize - 1
           v == Tail(b)
<1>1. /\ 1 \in DOMAIN b
      /\ \A i \in DOMAIN v : i \in Nat /\ i + 1 \in DOMAIN b /\ v[i] = b[i + 1]
      /\ \A i \in DOMAIN b : i \in Nat /\ 1 <= i /\ A(b[i].time) \in Nat
  BY TailParts, BufferTimes
<1>2. K \in Nat
  BY ConstantFacts
<1>4. /\ \A i \in DOMAIN b : A(b[i].time) < Bound(K - i + s)
      /\ \A i, j \in DOMAIN b : i <= j => A(b[j].time) <= A(b[i].time)
      /\ UnsettledPress(t) => /\ A(t.time) < Bound(K + s)
                              /\ \A i \in DOMAIN b : A(b[i].time) <= A(t.time)
  BY DEF Ages
<1> HIDE DEF A, K, v
<1>5. \A i \in DOMAIN v : A(v[i].time) < Bound(K - i + 0)
  <2> TAKE i \in DOMAIN v
  <2> DEFINE k == K - (i + 1) + s
             l == K - i + 0
  <2>1. k \in Int /\ l \in Int /\ k <= l
    BY <1>1, <1>2
  <2>2. A(b[i + 1].time) < Bound(k)
    BY <1>1, <1>4
  <2> HIDE DEF k, l
  <2>3. A(v[i].time) < Bound(l)
    <3>1. Bound(k) \in Int /\ Bound(l) \in Int /\ Bound(k) <= Bound(l)
      BY <2>1, BoundGrows
    <3>2. v[i] = b[i + 1] /\ A(b[i + 1].time) \in Nat
      BY <1>1
    <3> QED  BY <2>2, <3>1, <3>2
  <2> QED  BY <2>3 DEF l
<1>6. \A i, j \in DOMAIN v : i <= j => A(v[j].time) <= A(v[i].time)
  <2> SUFFICES ASSUME NEW i \in DOMAIN v, NEW j \in DOMAIN v, i <= j
               PROVE  A(v[j].time) <= A(v[i].time)
    OBVIOUS
  <2>1. v[i] = b[i + 1] /\ v[j] = b[j + 1] /\ i + 1 \in DOMAIN b /\ j + 1 \in DOMAIN b
    BY <1>1
  <2>2. i + 1 <= j + 1
    BY <1>1
  <2> QED  BY <1>4, <2>1, <2>2
<1>7. UnsettledPress(t2) => /\ A(t2.time) < Bound(K + 0)
                            /\ \A i \in DOMAIN v : A(v[i].time) <= A(t2.time)
  <2>1. CASE UnsettledPress(t2) /\ t2.time = b[1].time
    <3> DEFINE k == K - 1 + s
               l == K + 0
    <3>1. k \in Int /\ l \in Int /\ k <= l
      BY <1>2
    <3>2. A(b[1].time) < Bound(k)
      BY <1>1, <1>4
    <3> HIDE DEF k, l
    <3>3. A(b[1].time) < Bound(l)
      <4>1. Bound(k) \in Int /\ Bound(l) \in Int /\ Bound(k) <= Bound(l)
        BY <3>1, BoundGrows
      <4>2. A(b[1].time) \in Nat
        BY <1>1
      <4> QED  BY <3>2, <4>1, <4>2
    <3>4. \A i \in DOMAIN v : A(v[i].time) <= A(b[1].time)
      BY <1>1, <1>4
    <3> QED  BY <2>1, <3>3, <3>4 DEF l
  <2>2. CASE s = 0 /\ UnsettledPress(t) /\ t2.time = t.time
    BY <1>1, <1>4, <2>2
  <2> QED  BY <2>1, <2>2
<1> QED  BY <1>5, <1>6, <1>7 DEF Ages, A, K, v

LEMMA AgesSlack ==
  ASSUME NoWrap, NEW b \in Seq(Record), NEW t \in Tapper, NEW n \in Times, Ages(b, t, n, 0)
  PROVE  Ages(b, t, n, 1)
<1> DEFINE A(x) == TimerDiff(n, x)
           K == BufferSize - 1
<1>1. \A i \in DOMAIN b : i \in Nat /\ A(b[i].time) \in Nat
  BY BufferTimes
<1>2. K \in Nat
  BY ConstantFacts
<1>3. /\ \A i \in DOMAIN b : A(b[i].time) < Bound(K - i + 0)
      /\ \A i, j \in DOMAIN b : i <= j => A(b[j].time) <= A(b[i].time)
      /\ UnsettledPress(t) => /\ A(t.time) < Bound(K + 0) /\ A(t.time) \in Nat
                              /\ \A i \in DOMAIN b : A(b[i].time) <= A(t.time)
  BY TapperTime DEF Ages
<1> HIDE DEF A, K
<1>4. \A i \in DOMAIN b : A(b[i].time) < Bound(K - i + 1)
  <2> TAKE i \in DOMAIN b
  <2> DEFINE k == K - i + 0
             l == K - i + 1
  <2>1. k \in Int /\ l \in Int /\ k <= l
    BY <1>1, <1>2
  <2>2. A(b[i].time) < Bound(k) /\ A(b[i].time) \in Nat
    BY <1>1, <1>3
  <2> HIDE DEF k, l
  <2>3. Bound(k) \in Int /\ Bound(l) \in Int /\ Bound(k) <= Bound(l)
    BY <2>1, BoundGrows
  <2>4. A(b[i].time) < Bound(l)
    BY <2>2, <2>3
  <2> QED  BY <2>4 DEF l
<1>5. UnsettledPress(t) => A(t.time) < Bound(K + 1)
  <2> DEFINE k == K + 0
             l == K + 1
  <2>1. k \in Int /\ l \in Int /\ k <= l
    BY <1>2
  <2>2. UnsettledPress(t) => A(t.time) < Bound(k) /\ A(t.time) \in Nat
    BY <1>3
  <2> HIDE DEF k, l
  <2>3. Bound(k) \in Int /\ Bound(l) \in Int /\ Bound(k) <= Bound(l)
    BY <2>1, BoundGrows
  <2>4. UnsettledPress(t) => A(t.time) < Bound(l)
    BY <2>2, <2>3
  <2> QED  BY <2>4 DEF l
<1> QED  BY <1>3, <1>4, <1>5 DEF Ages, A, K

LEMMA AgesEmpty ==
  ASSUME NoWrap, NEW t \in Tapper, NEW n \in Times, NEW s,
         UnsettledPress(t) => TimerDiff(n, t.time) < TappingTerm, s = 0
  PROVE  Ages(<<>>, t, n, s)
<1> DEFINE K == BufferSize - 1
<1>1. K \in Nat /\ K + s = K /\ TappingTerm \in Nat
  BY ConstantFacts
<1>2. Bound(K) \in Int /\ TappingTerm <= Bound(K)
  BY <1>1, BoundAtLeast
<1>3. UnsettledPress(t) => TimerDiff(n, t.time) \in Nat
  BY TapperTime
<1> HIDE DEF K
<1>4. UnsettledPress(t) => TimerDiff(n, t.time) < Bound(K + s)
  BY <1>1, <1>2, <1>3
<1> QED  BY <1>4 DEF Ages, K

-----------------------------------------------------------------------------
(* The invariant of delivery *)

DeliveryInv == ChainInv /\ RolesInv /\ Clock /\ Ordered

\* What the branches of process_tapping may rely on.
Settled == TypeInv /\ FreshInv /\ NoneInBuffer /\ DeliveryInv

LEMMA StateTypes ==
  ASSUME TypeInv
  PROVE  /\ tapping \in Tapper /\ registered \in Registers /\ now \in Times
         /\ buf \in Seq(Record) /\ Len(buf) \in Nat /\ Len(buf) < BufferSize
         /\ cur \in Record \cup Ticks /\ matrix \in SUBSET Key
BY LineParts DEF TypeInv, TypeOK, Tapper, Registers, Times, Ticks

LEMMA RolesNext ==
  ASSUME UNCHANGED build, Roles(Line', tapping', registered')
  PROVE  RolesInv'
BY DEF RolesInv, Roles, SingleRoles, TappingDown, TapWaits, TapKnown, TapKey, ModTap, LayerTap

\* The waiting buffer and the tapping key are younger than Bound allows, also
\* after the record has been judged.
LEMMA ClockConsumed ==
  ASSUME NoWrap, TypeInv, Judging, Clock, IsEvent(Rec), pc = "drain" \/ buf = <<>>,
         NEW b \in Seq(Record), Len(b) = Len(buf),
         \A i \in DOMAIN buf : b[i].time = buf[i].time,
         Consumed(b), tapping' \in Tapper,
         UnsettledPress(tapping') =>
           \/ tapping'.time = Rec.time
           \/ Slack = 0 /\ UnsettledPress(tapping) /\ tapping'.time = tapping.time
  PROVE  Clock'
<1>1. /\ now' = now /\ now \in Times /\ tapping \in Tapper /\ buf \in Seq(Record)
      /\ Len(buf) \in Nat /\ Len(buf) < BufferSize /\ pc' \in {"scan", "drain"}
  BY StateTypes DEF Consumed, Drain
<1>2. Slack' \in {0, 1} /\ Slack \in {0, 1}
  BY DEF Slack
<1>3. CASE pc = "drain"
  <2>1. buf' = Tail(b) /\ buf # <<>>
    BY <1>3 DEF Consumed, Drain, TypeInv
  <2>2. Ages(b, tapping, now, Slack)
    <3>1. DOMAIN b = DOMAIN buf
      BY <1>1
    <3> QED  BY <3>1, AgesSame DEF Clock
  <2>3. Len(b) < BufferSize /\ b # <<>> /\ b[1].time = Rec.time
    <3>1. b # <<>>
      BY <1>1, <2>1
    <3>2. 1 \in DOMAIN buf /\ Head(buf) = buf[1]
      BY <1>1, <2>1
    <3> QED  BY <1>1, <1>3, <3>1, <3>2 DEF Rec
  <2> DEFINE s == Slack
             t2 == tapping'
  <2>4. s \in {0, 1} /\ Ages(b, tapping, now, s)
        /\ (UnsettledPress(t2) => \/ t2.time = b[1].time
                                  \/ s = 0 /\ UnsettledPress(tapping) /\ t2.time = tapping.time)
    BY <1>2, <2>2, <2>3
  <2>5. t2 \in Tapper
    OBVIOUS
  <2> HIDE DEF s, t2
  <2>6. Ages(Tail(b), t2, now, 0)
    BY <1>1, <2>3, <2>4, AgesTail
  <2>7. Tail(b) \in Seq(Record)
    BY <2>3, TailParts
  <2>8. Ages(Tail(b), t2, now, 1)
    BY <1>1, <2>5, <2>6, <2>7, AgesSlack
  <2>9. Ages(buf', tapping', now', 0) /\ Ages(buf', tapping', now', 1)
    BY <1>1, <2>1, <2>6, <2>8 DEF t2
  <2>10. Ages(buf', tapping', now', Slack')
    BY <1>2, <2>9
  <2> QED  BY <1>1, <2>10 DEF Clock
<1>4. CASE pc = "event"
  <2>1. buf = <<>> /\ b = <<>> /\ buf' = <<>> /\ pc' = "scan"
    <3>1. buf = <<>>
      BY <1>4
    <3>2. b = <<>>
      BY <3>1
    <3> QED  BY <1>4, <3>1, <3>2 DEF Consumed, Drain
  <2>2. Slack = 1 /\ Slack' = 0
    BY <1>4, <2>1 DEF Slack
  <2>3. Rec.time = now
    BY <1>4 DEF Clock, Rec
  <2>4. UnsettledPress(tapping') => TimerDiff(now, tapping'.time) < TappingTerm
    <3>1. TimerDiff(now, now) = 0 /\ 0 < TappingTerm
      BY <1>1, DiffFacts, ConstantFacts
    <3> QED  BY <2>2, <2>3, <3>1
  <2> DEFINE t2 == tapping'
  <2>5. t2 \in Tapper /\ (UnsettledPress(t2) => TimerDiff(now, t2.time) < TappingTerm)
    BY <2>4
  <2> HIDE DEF t2
  <2>6. Ages(<<>>, t2, now, 0)
    BY <1>1, <2>5, AgesEmpty
  <2> QED  BY <1>1, <2>1, <2>2, <2>6 DEF Clock, t2
<1> QED  BY <1>3, <1>4 DEF Judging

\* A record that stays.  Either its tapping key is within its term, or it is
\* one no longer, and what waits has the round's slack.
LEMMA ClockKept ==
  ASSUME NoWrap, TypeInv, Judging, Clock, IsEvent(Rec),
         NEW r \in Record, r.time = Rec.time, NEW t \in Tapper, NEW reg,
         Kept(r, t, reg), ~(pc = "event" /\ BufferFull),
         UnsettledPress(t) => UnsettledPress(tapping) /\ t.time = tapping.time,
         pc = "drain" => Slack = 0,
         pc = "event" =>
           \/ ~IsEvent(t) \/ (t.pressed /\ t.count > 0)
           \/ UnsettledPress(tapping) /\ TimerDiff(now, tapping.time) < TappingTerm
  PROVE  Clock'
<1>1. /\ now' = now /\ now \in Times /\ tapping \in Tapper /\ buf \in Seq(Record)
      /\ Len(buf) \in Nat /\ Len(buf) < BufferSize /\ tapping' = t /\ pc' # "event"
      /\ IsEvent(r)
  BY StateTypes, KeptLine, RecordType DEF Kept
<1>2. CASE pc = "drain"
  <2>1. buf' = [buf EXCEPT ![1] = r] /\ pc' = "scan" /\ buf # <<>>
    BY <1>2 DEF Kept, TypeInv
  <2>2. Slack' = 0 /\ Slack = 0
    BY <1>2, <2>1 DEF Slack
  <2>3. 1 \in DOMAIN buf /\ Head(buf) = buf[1]
    BY <1>1, <2>1
  <2> DEFINE c == [buf EXCEPT ![1] = r]
  <2>4. DOMAIN c = DOMAIN buf /\ \A i \in DOMAIN buf : c[i].time = buf[i].time
    BY <1>2, <2>3 DEF Rec
  <2>5. Ages(buf, tapping, now, 0)
    BY <2>2 DEF Clock
  <2> HIDE DEF c
  <2>6. Ages(c, t, now, 0)
    BY <2>4, <2>5, AgesSame
  <2> QED  BY <1>1, <2>1, <2>2, <2>6 DEF Clock, c
<1>3. CASE pc = "event"
  <2>1. buf' = Append(buf, r) /\ pc' = "drain" /\ r.time = now /\ Slack = 1
    <3>1. buf' = Append(buf, r) /\ pc' = IF Append(buf, r) = <<>> THEN "scan" ELSE "drain"
      BY <1>1, <1>3 DEF Kept, Drain
    <3>2. Append(buf, r) # <<>>
      BY <1>1
    <3> QED  BY <1>3, <3>1, <3>2 DEF Clock, Rec, Slack
  <2>2. Len(buf) + 1 < BufferSize
    BY <1>1, <1>3, ConstantFacts DEF BufferFull
  <2>3. Ages(buf, tapping, now, 1)
    BY <2>1 DEF Clock
  <2>4. Ages(buf, t, now, 1)
    <3>1. DOMAIN buf = DOMAIN buf /\ \A i \in DOMAIN buf : buf[i].time = buf[i].time
      OBVIOUS
    <3> QED  BY <2>3, <3>1, AgesSame
  <2>5. CASE ~IsEvent(t) \/ (t.pressed /\ t.count > 0)
    <3>1. Slack' = 1
      BY <1>1, <2>1, <2>5 DEF Slack
    <3>2. Ages(Append(buf, r), t, now, 1)
      BY <1>1, <2>1, <2>2, <2>4, AgesAppend
    <3> QED  BY <1>1, <2>1, <3>1, <3>2 DEF Clock
  <2>6. CASE UnsettledPress(tapping) /\ TimerDiff(now, tapping.time) < TappingTerm
    <3>1. Ages(buf, tapping, now, 0)
      BY <1>1, <2>3, <2>6, AgesYoung
    <3>2. Ages(buf, t, now, 0)
      <4>1. DOMAIN buf = DOMAIN buf /\ \A i \in DOMAIN buf : buf[i].time = buf[i].time
        OBVIOUS
      <4> QED  BY <3>1, <4>1, AgesSame
    <3>3. Ages(Append(buf, r), t, now, 0)
      BY <1>1, <2>1, <2>2, <3>2, AgesAppend
    <3>4. Ages(Append(buf, r), t, now, 1)
      <4>1. Append(buf, r) \in Seq(Record)
        BY <1>1
      <4> QED  BY <1>1, <3>3, <4>1, AgesSlack
    <3>5. Slack' \in {0, 1}
      BY DEF Slack
    <3>6. Ages(buf', tapping', now', 0) /\ Ages(buf', tapping', now', 1)
      BY <1>1, <2>1, <3>3, <3>4
    <3>7. Ages(buf', tapping', now', Slack')
      BY <3>5, <3>6
    <3> QED  BY <1>1, <3>7 DEF Clock
  <2> QED  BY <1>3, <2>5, <2>6
<1> QED  BY <1>2, <1>3 DEF Judging

\* The line, the tapping key and all that is registered are as they were when
\* the switches that matter were last looked at: an event or a tick arrives.
LEMMA DeliveryEvent ==
  ASSUME NoWrap, ~Overtaking, Settled,
         (\E k \in Key, d \in 0 .. MaxGap : KeyEvent(k, d))
           \/ (\E d \in 0 .. MaxGap : TickEvent(d))
  PROVE  DeliveryInv'
<1>0. TypeInv /\ ChainInv /\ RolesInv /\ Clock
  BY DEF Settled, DeliveryInv
<1>1. PICK d \in 0 .. MaxGap, k \in Key \cup {NoKey}, press \in BOOLEAN :
        /\ Receive(k, press, d)
        /\ \/ k \in Key /\ KeyEvent(k, d) /\ press = (k \notin matrix)
           \/ k = NoKey /\ matrix' = matrix
  <2>1. CASE \E k \in Key, d \in 0 .. MaxGap : KeyEvent(k, d)
    <3>1. PICK k \in Key, d \in 0 .. MaxGap : KeyEvent(k, d)
      BY <2>1
    <3>2. Receive(k, k \notin matrix, d) /\ (k \notin matrix) \in BOOLEAN
      BY <3>1 DEF KeyEvent
    <3> QED  BY <3>1, <3>2
  <2>2. CASE \E d \in 0 .. MaxGap : TickEvent(d)
    BY <2>2 DEF TickEvent
  <2> QED  BY <2>1, <2>2
<1>2. /\ pc = "scan" /\ pc' = "event" /\ now' = (now + d) % TimeMod
      /\ cur' = NewRecord(k, press, now')
      /\ build' = build /\ tapping' = tapping /\ buf' = buf /\ registered' = registered
  BY <1>1 DEF Receive
<1>3. /\ buf \in Seq(Record) /\ Len(buf) < BufferSize /\ tapping \in Tapper /\ now \in Times
      /\ registered \in Registers /\ matrix \in SUBSET Key
  BY <1>0, StateTypes
<1>4. Line = buf
  BY <1>2 DEF Line
<1>5. Clock'
  <2>1. Slack = 0 /\ Slack' = 1
    BY <1>2 DEF Slack
  <2>2. Ages(buf, tapping, (now + d) % TimeMod, 1)
    BY <1>0, <1>3, <2>1, AgesLater DEF Clock
  <2>3. cur'.time = now'
    BY <1>2 DEF NewRecord
  <2> QED  BY <1>2, <2>1, <2>2, <2>3 DEF Clock
<1>6. CASE k = NoKey
  <2>1. ~IsEvent(cur')
    BY <1>2, <1>6 DEF IsEvent, NewRecord
  <2>2. Line' = Line
    BY <1>2, <1>4, <2>1 DEF Line
  <2>3. matrix' = matrix
    BY <1>1, <1>6, KeysAssumption
  <2>4. ChainInv'
    BY <1>0, <1>2, <2>2, <2>3 DEF ChainInv
  <2>5. RolesInv'
    BY <1>0, <1>2, <2>2, RolesNext DEF RolesInv
  <2>6. Ordered'
    BY <2>1 DEF Ordered
  <2> QED  BY <1>5, <2>4, <2>5, <2>6 DEF DeliveryInv
<1>7. CASE k \in Key
  <2> DEFINE r == NewRecord(k, press, now')
  <2>1. KeyEvent(k, d) /\ (press <=> k \notin matrix)
    BY <1>1, <1>7, KeysAssumption
  <2>2. r \in Record /\ r.key = k /\ (r.pressed <=> k \notin matrix) /\ r.count = 0 /\ IsEvent(r)
    <3>1. now' \in Times
      <4>1. TimeMod \in Nat \ {0} /\ d \in 0 .. TimeMod - 1
        BY ConstantFacts
      <4> QED  BY <1>2, <1>3, <4>1, ModOfSum DEF Times
    <3>2. r \in Record
      BY <1>7, <3>1, TermsAssumption DEF NewRecord, Record, Times
    <3> QED  BY <2>1, <3>2, RecordType DEF NewRecord
  <2>3. Line' = Append(Line, r)
    BY <1>2, <1>4, <2>2 DEF Line
  <2> HIDE DEF r
  <2>4. \A j \in Key : j \in matrix' <=> IF j = r.key THEN j \notin matrix ELSE j \in matrix
    BY <1>3, <1>7, <2>1, <2>2 DEF KeyEvent
  <2>5. ChainInv'
    <3> DEFINE held == HeldBy(tapping, registered)
    <3>1. held \subseteq Key
      BY DEF HeldBy
    <3>2. Chain(buf, matrix, held)
      BY <1>0, <1>4 DEF ChainInv
    <3> HIDE DEF held
    <3>3. Chain(Append(buf, r), matrix', held)
      BY <1>3, <2>2, <2>4, <3>1, <3>2, ChainAppend
    <3> QED  BY <1>2, <1>4, <2>3, <3>3 DEF ChainInv, held
  <2>6. RolesInv'
    <3>1. Roles(Append(buf, r), tapping, registered)
      BY <1>0, <1>3, <1>4, <2>2, RolesAppend DEF RolesInv
    <3> QED  BY <1>2, <1>4, <2>3, <3>1, RolesNext
  <2>7. Ordered'
    <3>1. buf = <<>> \/ Undecided
      BY <2>1 DEF KeyEvent, Leftovers
    <3> QED  BY <1>2, <2>2, <3>1 DEF Ordered, Undecided, r
  <2> QED  BY <1>5, <2>5, <2>6, <2>7 DEF DeliveryInv
<1> QED  BY <1>6, <1>7

\* A step that throws the buffer away lets go of every action.
OverflowClears ==
  pc = "event" /\ buf # <<>> /\ buf' = <<>> => \A k \in Key : registered'[k] = {}

LEMMA DeliveryOverflow ==
  ASSUME TypeInv, NEW r \in Record, NEW t, NEW reg, Kept(r, t, reg),
         pc = "event" /\ BufferFull, NoWrap, OverflowClears
  PROVE  DeliveryInv'
<1>1. /\ tapping' = NoRecord /\ UNCHANGED <<build, matrix>> /\ now' = now
      /\ Line' = <<>> /\ buf' = <<>> /\ buf # <<>> /\ pc' # "event"
  BY OverflowLine DEF Kept
<1>2. \A k \in Key : registered'[k] = {}
  BY <1>1 DEF OverflowClears
<1>3. ~UnsettledPress(NoRecord)
  BY NoRecordType DEF UnsettledPress
<1>4. ChainInv'
  <2>1. HeldBy(tapping', registered') = {}
    BY <1>1, <1>2, <1>3 DEF HeldBy
  <2>2. Chain(<<>>, matrix, {})
    BY DEF Chain, Alternating, EndsIn, Releases
  <2> QED  BY <1>1, <2>1, <2>2 DEF ChainInv
<1>5. RolesInv'
  <2> DEFINE reg2 == registered'
  <2>1. \A k \in Key : reg2[k] = {}
    BY <1>2
  <2> HIDE DEF reg2
  <2>2. Roles(<<>>, NoRecord, reg2)
    BY <2>1, RolesCleared
  <2> QED  BY <1>1, <2>2, RolesNext DEF reg2
<1>6. Clock'
  <2>1. Ages(<<>>, NoRecord, now, Slack')
    BY <1>3 DEF Ages
  <2> QED  BY <1>1, <2>1 DEF Clock
<1> QED  BY <1>1, <1>4, <1>5, <1>6 DEF DeliveryInv, Ordered

\* A record stays in the line, and the tapping key becomes t.
LEMMA DeliveryKept ==
  ASSUME NoWrap, Settled, Judging, IsEvent(Rec), OverflowClears,
         NEW r \in Record, r.key = Rec.key, r.pressed = Rec.pressed, r.time = Rec.time,
         NEW t \in Tapper, NEW reg, Kept(r, t, reg),
         HeldBy(t, reg) \subseteq HeldBy(tapping, registered),
         ~(pc = "event" /\ BufferFull) => Roles([Line EXCEPT ![RecAt] = r], t, reg),
         UnsettledPress(t) => UnsettledPress(tapping) /\ t.time = tapping.time,
         UnsettledPress(tapping) \/ (~tapping.pressed /\ IsEvent(tapping)),
         pc = "event" =>
           \/ ~IsEvent(t) \/ (t.pressed /\ t.count > 0)
           \/ UnsettledPress(tapping) /\ TimerDiff(now, tapping.time) < TappingTerm
  PROVE  DeliveryInv'
<1>0. TypeInv /\ ChainInv /\ RolesInv /\ Clock
  BY DEF Settled, DeliveryInv
<1>1. CASE pc = "event" /\ BufferFull
  BY <1>0, <1>1, DeliveryOverflow
<1>2. CASE ~(pc = "event" /\ BufferFull)
  <2>1. /\ tapping' = t /\ registered' = reg /\ UNCHANGED <<build, matrix>>
        /\ Line' = [Line EXCEPT ![RecAt] = r] /\ pc' # "event"
    BY <1>0, <1>2, KeptLine
  <2>2. ChainInv'
    BY <1>0, <1>2, ChainKept
  <2>3. RolesInv'
    <3>1. Roles(Line', tapping', registered')
      BY <1>2, <2>1
    <3> QED  BY <2>1, <3>1, RolesNext
  <2>4. Clock'
    <3>1. pc = "drain" => Slack = 0
      BY DEF Slack, UnsettledPress
    <3> QED  BY <1>0, <1>2, <3>1, ClockKept
  <2> QED  BY <2>1, <2>2, <2>3, <2>4 DEF DeliveryInv, Ordered
<1> QED  BY <1>1, <1>2

\* A record that no branch asks to wait is processed.
LEMMA DeliveryPass ==
  ASSUME NoWrap, Settled, Judging, IsEvent(Rec), pc = "drain" \/ buf = <<>>,
         ~Rec.pressed \/ Rec.key \notin TapKey,
         IsEvent(tapping) /\ tapping.pressed => tapping.key # Rec.key,
         Consumed(buf), registered' = Processed(registered, Rec),
         tapping' \in Tapper, tapping'.key = tapping.key,
         tapping'.pressed = tapping.pressed, tapping'.count = tapping.count,
         tapping'.time = tapping.time, UnsettledPress(tapping) => pc = "drain"
  PROVE  DeliveryInv'
<1>0. TypeInv /\ ChainInv /\ RolesInv /\ Clock
  BY DEF Settled, DeliveryInv
<1>1. /\ buf \in Seq(Record) /\ tapping \in Tapper /\ registered \in Registers
      /\ Line \in Seq(Record) /\ Rec \in Record
  BY <1>0, StateTypes, LineParts
<1>2. SameShape(buf, buf)
  BY ShapeSelf
<1>3. /\ Line # <<>> /\ Line[1] = Rec /\ Line' = Tail(Line) /\ UNCHANGED <<build, matrix>>
      /\ pc' # "event"
  BY <1>0, <1>1, <1>2, ConsumedLine
<1>4. /\ Roles(Tail(Line), tapping, Processed(registered, Rec))
      /\ ~Rec.pressed => Processed(registered, Rec)[Rec.key] = {}
  BY <1>0, <1>1, <1>3, RolesPass DEF RolesInv
<1>5. Roles(Tail(Line), tapping', Processed(registered, Rec))
  BY <1>4, RolesSameTap
<1>6. RolesInv'
  BY <1>3, <1>5, RolesNext
<1>7. UnsettledPress(tapping') <=> UnsettledPress(tapping)
  BY DEF UnsettledPress, IsEvent
<1>8. ASSUME NEW k \in HeldBy(tapping', registered')
      PROVE  IF k = Rec.key THEN Rec.pressed ELSE k \in HeldBy(tapping, registered)
  <2>1. k \in Key /\ (registered'[k] # {} \/ (UnsettledPress(tapping) /\ tapping.key = k))
    BY <1>7, <1>8 DEF HeldBy
  <2>2. CASE k = Rec.key
    <3>1. ~(UnsettledPress(tapping) /\ tapping.key = k)
      BY <2>2 DEF UnsettledPress
    <3> QED  BY <1>4, <2>1, <2>2, <3>1
  <2>3. CASE k # Rec.key
    <3>1. registered'[k] = registered[k]
      BY <1>1, <2>1, <2>3, ProcessedAt
    <3> QED  BY <2>1, <2>3, <3>1 DEF HeldBy
  <2> QED  BY <2>2, <2>3
<1>9. ChainInv'
  BY <1>0, <1>1, <1>2, <1>8, ChainConsumed
<1>10. Clock'
  <2>1. UnsettledPress(tapping) => Slack = 0
    BY DEF Slack, UnsettledPress
  <2> QED  BY <1>0, <1>1, <1>7, <2>1, ClockConsumed
<1> QED  BY <1>3, <1>6, <1>9, <1>10 DEF DeliveryInv, Ordered

LEMMA RoleOfTap ==
  ASSUME NEW r \in Record, r.key \in TapKey, r.count > 0, ~Cancelled(r)
  PROVE  Role(r) = "tap" /\ AfterProcess(r) = r
BY DEF Role, AfterProcess

\* The release that settles a new tapping key is the first event of its key
\* that waits.
LEMMA FirstRelease ==
  ASSUME NEW w \in Seq(Record), NEW t, NEW n \in Times, NEW s, Ages(w, t, n, s),
         Alternating(w), w # <<>>, w[1].pressed,
         NEW i \in DOMAIN w, w[i].key = w[1].key, ~w[i].pressed,
         TimerDiff(w[i].time, w[1].time) < TappingTerm,
         \A j \in 1 .. i - 1 : ~(/\ w[j].key = w[1].key /\ ~w[j].pressed
                                 /\ TimerDiff(w[j].time, w[1].time) < TappingTerm)
  PROVE  i > 1 /\ \A j \in DOMAIN w : 1 < j /\ j < i => w[j].key # w[1].key
<1>1. 1 \in DOMAIN w /\ DOMAIN w \subseteq Nat \ {0}
  BY SeqParts, TailParts
<1>2. i # 1
  OBVIOUS
<1>3. ASSUME NEW j \in DOMAIN w, j < i, w[j].key = w[1].key, ~w[j].pressed PROVE FALSE
  <2>1. TimerDiff(w[j].time, w[1].time) < TappingTerm
    <3>1. j <= i
      BY <1>1, <1>3
    <3> QED  BY <3>1, WithinBetween
  <2>2. j \in 1 .. i - 1
    BY <1>1, <1>3
  <2> QED  BY <1>3, <2>1, <2>2
<1>4. ASSUME NEW j \in DOMAIN w, 1 < j, j < i, w[j].key = w[1].key PROVE FALSE
  <2>1. w[j].pressed
    BY <1>3, <1>4
  <2>2. PICK a \in DOMAIN w : 1 < a /\ a < j /\ Opposite(w[1], w[a])
    BY <1>1, <1>4, <2>1 DEF Alternating
  <2>3. w[a].key = w[1].key /\ ~w[a].pressed /\ a < i
    BY <1>1, <1>4, <2>2 DEF Opposite
  <2> QED  BY <1>3, <2>3
<1> QED  BY <1>1, <1>2, <1>4

\* A press of a tap key starts it as the tapping key: nothing of the key is
\* registered.
LEMMA RecStarts ==
  ASSUME Settled, Judging, IsEvent(Rec), pc = "drain" \/ buf = <<>>,
         IsTapPress(Rec), NEW reg \in Registers,
         \A k \in Key : reg[k] = IF Repeating(tapping) /\ k = tapping.key THEN {} ELSE registered[k]
  PROVE  /\ TypeInv /\ ChainInv /\ RolesInv /\ Clock /\ FreshInv
         /\ buf \in Seq(Record) /\ tapping \in Tapper /\ registered \in Registers
         /\ Line \in Seq(Record) /\ Rec \in Record /\ now \in Times
         /\ Rec.pressed /\ Rec.key \in TapKey /\ Rec.count = 0 /\ ~Rec.interrupted
         /\ Rec.key \in Key
         /\ Line # <<>> /\ Line[1] = Rec
         /\ registered[Rec.key] = {}
         /\ Roles(Tail(Line), Rec, reg)
         /\ \A k \in Key : reg[k] # {} => k \in HeldBy(tapping, registered)
<1>0. TypeInv /\ ChainInv /\ RolesInv /\ Clock /\ FreshInv
  BY DEF Settled, DeliveryInv
<1>1. /\ buf \in Seq(Record) /\ tapping \in Tapper /\ registered \in Registers
      /\ Line \in Seq(Record) /\ Rec \in Record /\ now \in Times
  BY <1>0, StateTypes, LineParts
<1>2. /\ Rec.pressed /\ Rec.key \in TapKey /\ Rec.count = 0 /\ ~Rec.interrupted /\ Rec.key \in Key
  BY <1>0, <1>1, FreshRec, RecordType DEF IsTapPress, Fresh
<1>3. Line # <<>> /\ Line[1] = Rec
  <2>1. CASE pc = "drain"
    BY <1>0, <2>1, LineParts
  <2>2. CASE pc = "event"
    <3>1. buf = <<>> /\ Line = Append(buf, Rec)
      BY <1>0, <2>2, LineParts
    <3> QED  BY <1>1, <3>1
  <2> QED  BY <2>1, <2>2 DEF Judging
<1>4. registered[Rec.key] = {}
  <2>1. 1 \in DOMAIN Line /\ DOMAIN Line \subseteq Nat \ {0}
    BY <1>1, <1>3, TailParts, SeqParts
  <2>2. Line[1].key \in HeldBy(tapping, registered) =>
          \E j \in DOMAIN Line : j < 1 /\ Opposite(Line[1], Line[j])
    BY <1>0, <1>2, <1>3, <2>1 DEF ChainInv, Chain, Releases
  <2>3. Rec.key \notin HeldBy(tapping, registered)
    BY <1>3, <2>1, <2>2
  <2> QED  BY <1>2, <2>3 DEF HeldBy
<1>5. Roles(Tail(Line), Rec, reg)
  BY <1>0, <1>1, <1>2, <1>3, <1>4, RolesStart DEF RolesInv
<1>6. \A k \in Key : reg[k] # {} => k \in HeldBy(tapping, registered)
  BY DEF HeldBy
<1> QED  BY <1>0, <1>1, <1>2, <1>3, <1>4, <1>5, <1>6

\* A tap key that is pressed becomes the tapping key; its release has not come.
LEMMA DeliveryRestart ==
  ASSUME NoWrap, Settled, Judging, IsEvent(Rec), pc = "drain" \/ buf = <<>>,
         IsTapPress(Rec), NEW reg \in Registers,
         \A k \in Key : reg[k] = IF Repeating(tapping) /\ k = tapping.key THEN {} ELSE registered[k],
         tapping' = Rec, registered' = reg, Consumed(buf)
  PROVE  DeliveryInv'
<1>0. TypeInv /\ ChainInv /\ RolesInv /\ Clock /\ FreshInv
  BY RecStarts
<1>1. /\ buf \in Seq(Record) /\ tapping \in Tapper /\ registered \in Registers
      /\ Line \in Seq(Record) /\ Rec \in Record /\ now \in Times
  BY RecStarts
<1>2. /\ Rec.pressed /\ Rec.key \in TapKey /\ Rec.count = 0 /\ ~Rec.interrupted /\ Rec.key \in Key
  BY RecStarts
<1>3. Line # <<>> /\ Line[1] = Rec
  BY RecStarts
<1>4. registered[Rec.key] = {}
  BY RecStarts
<1>5. Roles(Tail(Line), Rec, reg)
  BY RecStarts
<1>6. \A k \in Key : reg[k] # {} => k \in HeldBy(tapping, registered)
  BY RecStarts
<1>11. SameShape(buf, buf) /\ Len(buf) = Len(buf) /\ \A i \in DOMAIN buf : buf[i].time = buf[i].time
  BY ShapeSelf
<1>12. Line' = Tail(Line) /\ UNCHANGED <<build, matrix>> /\ pc' # "event"
  BY <1>0, <1>1, <1>11, ConsumedLine
<1>13. RolesInv'
  <2>1. Roles(Line', tapping', registered')
    BY <1>5, <1>12
  <2> QED  BY <1>12, <2>1, RolesNext
<1>14. \A k \in HeldBy(tapping', registered') :
        IF k = Rec.key THEN Rec.pressed ELSE k \in HeldBy(tapping, registered)
  BY <1>2, <1>6 DEF HeldBy
<1>15. ChainInv'
  BY <1>0, <1>1, <1>11, <1>14, ChainConsumed
<1>16. Clock'
  <2>1. tapping' \in Tapper /\ tapping'.time = Rec.time
    BY <1>1 DEF Tapper
  <2> QED  BY <1>0, <1>1, <1>11, <2>1, ClockConsumed
<1> QED  BY <1>12, <1>13, <1>15, <1>16 DEF DeliveryInv, Ordered

\* A tap key that is pressed becomes the tapping key.
LEMMA DeliveryBecome ==
  ASSUME NoWrap, Settled, Judging, IsEvent(Rec), pc = "drain" \/ buf = <<>>,
         IsTapPress(Rec), ~UnsettledPress(tapping), NEW reg \in Registers,
         \A k \in Key : reg[k] = IF Repeating(tapping) /\ k = tapping.key THEN {} ELSE registered[k],
         BecomeTapping(Rec, reg)
  PROVE  DeliveryInv'
<1>0. TypeInv /\ ChainInv /\ RolesInv /\ Clock /\ FreshInv
  BY RecStarts
<1>1. /\ buf \in Seq(Record) /\ tapping \in Tapper /\ registered \in Registers
      /\ Line \in Seq(Record) /\ Rec \in Record /\ now \in Times
  BY RecStarts
<1>2. /\ Rec.pressed /\ Rec.key \in TapKey /\ Rec.count = 0 /\ ~Rec.interrupted /\ Rec.key \in Key
  BY RecStarts
<1>3. Line # <<>> /\ Line[1] = Rec
  BY RecStarts
<1>4. registered[Rec.key] = {}
  BY RecStarts
<1>5. Roles(Tail(Line), Rec, reg)
  BY RecStarts
<1>6. \A k \in Key : reg[k] # {} => k \in HeldBy(tapping, registered)
  BY RecStarts
<1>7. CASE tapping' = Rec /\ registered' = reg /\ Consumed(buf)
  BY <1>7, DeliveryRestart
<1>8. ASSUME NEW i \in DOMAIN buf, ReleaseWaits(Rec, i),
             \A j \in 1 .. i - 1 : ~ReleaseWaits(Rec, j),
             tapping' = AfterProcess([Rec EXCEPT !.count = 1]),
             registered' = Processed(reg, [Rec EXCEPT !.count = 1]),
             Consumed([buf EXCEPT ![i].count = 1])
      PROVE  DeliveryInv'
  <2> DEFINE tap == [Rec EXCEPT !.count = 1]
             x == [buf[i] EXCEPT !.count = 1]
             b == [buf EXCEPT ![i].count = 1]
             w == Tail(buf)
  <2>1. pc = "drain" /\ Line = buf /\ buf # <<>> /\ Rec = buf[1] /\ Len(buf) \in Nat
    <3>1. buf # <<>>
      BY <1>1, <1>8
    <3>2. pc = "drain"
      BY <3>1
    <3> QED  BY <1>0, <1>1, <1>3, <3>1, <3>2, LineParts
  <2>2. /\ tap \in Record /\ tap.key = Rec.key /\ tap.pressed /\ tap.count = 1 /\ ~tap.interrupted
        /\ tap.time = Rec.time
    <3> DEFINE p == Rec
    <3>1. p \in Record /\ p.pressed /\ ~p.interrupted /\ 1 \in 0 .. MaxTap
      BY <1>1, <1>2, TermsAssumption
    <3> HIDE DEF p
    <3>2. DOMAIN p = {"key", "pressed", "time", "count", "interrupted"}
      BY <3>1 DEF Record
    <3>3. /\ [p EXCEPT !.count = 1].key = p.key /\ [p EXCEPT !.count = 1].pressed
          /\ [p EXCEPT !.count = 1].count = 1 /\ ~[p EXCEPT !.count = 1].interrupted
          /\ [p EXCEPT !.count = 1].time = p.time
      BY <3>1, <3>2
    <3>4. [p EXCEPT !.count = 1] \in Record
      BY <3>1 DEF Record
    <3> QED  BY <3>3, <3>4 DEF p
  <2>3. buf[i] \in Record /\ buf[i].key = Rec.key /\ ~buf[i].pressed
    BY <1>1, <1>8 DEF ReleaseWaits
  <2>4. x \in Record /\ x.key = Rec.key /\ ~x.pressed /\ x.count = 1 /\ x.time = buf[i].time
    BY <2>3, TermsAssumption DEF Record
  <2>5. /\ b \in Seq(Record) /\ Len(b) = Len(buf) /\ b[i] = x
        /\ \A j \in DOMAIN buf : j # i => b[j] = buf[j]
    BY <1>1, <1>8, <2>4
  <2>6. SameShape(b, buf) /\ \A j \in DOMAIN buf : b[j].time = buf[j].time
    <3>1. DOMAIN buf = 1 .. Len(buf)
      BY <1>1
    <3> HIDE DEF b, x
    <3> QED  BY <2>3, <2>4, <2>5, <3>1 DEF SameShape
  <2>7. tapping' = tap /\ registered' = Processed(reg, tap) /\ Role(tap) = "tap"
    <3>1. ~Cancelled(tap)
      BY <2>2 DEF Cancelled
    <3> HIDE DEF tap
    <3>2. Role(tap) = "tap" /\ AfterProcess(tap) = tap
      BY <1>2, <2>2, <3>1, RoleOfTap
    <3> QED  BY <1>8, <3>2 DEF tap
  <2>8. i > 1 /\ \A j \in DOMAIN buf : 1 < j /\ j < i => buf[j].key # Rec.key
    <3>1. Ages(buf, tapping, now, Slack) /\ Alternating(buf)
      BY <1>0, <2>1 DEF Clock, ChainInv, Chain
    <3>2. \A j \in 1 .. i - 1 : ~(/\ buf[j].key = buf[1].key /\ ~buf[j].pressed
                                  /\ TimerDiff(buf[j].time, buf[1].time) < TappingTerm)
      BY <1>8, <2>1 DEF ReleaseWaits
    <3>3. TimerDiff(buf[i].time, buf[1].time) < TappingTerm
      BY <1>8, <2>1 DEF ReleaseWaits
    <3>4. buf[1].pressed /\ buf[1].key = Rec.key /\ buf[i].key = buf[1].key /\ ~buf[i].pressed
      BY <1>2, <2>1, <2>3
    <3>5. i > 1 /\ \A j \in DOMAIN buf : 1 < j /\ j < i => buf[j].key # buf[1].key
      BY <1>1, <1>8, <2>1, <3>1, <3>2, <3>3, <3>4, FirstRelease
    <3> QED  BY <3>4, <3>5
  <2>9. /\ w \in Seq(Record) /\ Len(w) = Len(buf) - 1
        /\ \A j \in DOMAIN w : j \in Nat \ {0} /\ j + 1 \in DOMAIN buf /\ w[j] = buf[j + 1]
        /\ i - 1 \in DOMAIN w /\ w[i - 1] = buf[i]
    BY <1>1, <2>1, <2>8, TailParts
  <2> DEFINE reg2 == Processed(reg, tap)
  <2>10. /\ reg2 \in Registers /\ reg2[Rec.key] = {"tap"}
         /\ \A k \in Key : k # Rec.key => reg2[k] = reg[k]
    <3>1. reg[Rec.key] = {}
      BY <1>2, <1>4
    <3> HIDE DEF tap
    <3>2. /\ reg2 \in Registers /\ reg2[tap.key] = reg[tap.key] \cup {"tap"}
          /\ \A k \in Key : k # tap.key => reg2[k] = reg[k]
      BY <2>2, <2>7, ProcessedAt
    <3> QED  BY <2>2, <3>1, <3>2
  <2> HIDE DEF tap, x, w, reg2
  <2>11. Roles([w EXCEPT ![i - 1] = x], tap, reg2)
    <3>1. Roles(w, Rec, reg) /\ UnsettledPress(Rec)
      BY <1>2, <1>5, <2>1 DEF w, UnsettledPress
    <3>2. \A j \in DOMAIN w : j < i - 1 => w[j].key # Rec.key
      <4> SUFFICES ASSUME NEW j \in DOMAIN w, j < i - 1
                   PROVE  w[j].key # Rec.key
        OBVIOUS
      <4> DEFINE m == j + 1
      <4>1. j \in Nat \ {0} /\ m \in DOMAIN buf /\ w[j] = buf[m]
        BY <2>9
      <4>2. i \in Nat
        BY <1>1, <1>8
      <4>3. 1 < m /\ m < i
        BY <4>1, <4>2
      <4> HIDE DEF m
      <4>4. buf[m].key # Rec.key
        BY <2>8, <4>1, <4>3
      <4> QED  BY <4>1, <4>4
    <3>3. Rec \in Tapper
      BY <1>1 DEF Tapper
    <3> DEFINE l == i - 1
    <3>4. l \in DOMAIN w /\ w[l] = buf[i] /\ \A j \in DOMAIN w : j < l => w[j].key # Rec.key
      BY <2>9, <3>2
    <3> HIDE DEF l
    <3>5. l \in DOMAIN w /\ w[l].key = Rec.key /\ ~w[l].pressed
      BY <2>3, <3>4
    <3>6. w \in Seq(Record)
      BY <2>9
    <3>7. \A j \in DOMAIN w : j < l => w[j].key # Rec.key
      BY <3>4
    <3>8. Roles([w EXCEPT ![l] = x], tap, reg2)
      BY <2>2, <2>4, <2>10, <3>1, <3>3, <3>5, <3>6, <3>7, RolesTap
    <3> QED  BY <3>8 DEF l
  <2>12. Tail(b) = [w EXCEPT ![i - 1] = x]
    <3> HIDE DEF b
    <3>1. b # <<>> /\ Tail(b) \in Seq(Record) /\ Len(Tail(b)) = Len(buf) - 1
      BY <2>1, <2>5, TailParts
    <3> DEFINE u == Tail(b)
               v == [w EXCEPT ![i - 1] = x]
               n == Len(buf) - 1
    <3>2. [w EXCEPT ![i - 1] = x] \in Seq(Record) /\ Len([w EXCEPT ![i - 1] = x]) = Len(buf) - 1
      BY <2>4, <2>9
    <3>3. \A j \in 1 .. Len(buf) - 1 : Tail(b)[j] = b[j + 1]
      BY <2>1, <2>5, <3>1
    <3>4. \A j \in 1 .. Len(buf) - 1 : [w EXCEPT ![i - 1] = x][j] = IF j = i - 1 THEN x ELSE buf[j + 1]
      BY <2>1, <2>9
    <3>5. \A j \in 1 .. Len(buf) - 1 : b[j + 1] = IF j = i - 1 THEN x ELSE buf[j + 1]
      BY <1>1, <1>8, <2>1, <2>5
    <3>6. u \in Seq(Record) /\ v \in Seq(Record) /\ Len(u) = n /\ Len(v) = n
      BY <3>1, <3>2
    <3>7. \A j \in 1 .. n : u[j] = v[j]
      <4> SUFFICES ASSUME NEW j \in 1 .. n PROVE u[j] = v[j]
        OBVIOUS
      <4>1. u[j] = b[j + 1]
        BY <3>3
      <4>2. v[j] = IF j = i - 1 THEN x ELSE buf[j + 1]
        BY <3>4
      <4>3. b[j + 1] = IF j = i - 1 THEN x ELSE buf[j + 1]
        BY <3>5
      <4> HIDE DEF u, v
      <4> QED  BY <4>1, <4>2, <4>3
    <3> HIDE DEF u, v, n
    <3>8. u = v
      BY <3>6, <3>7, LinesEqual
    <3> QED  BY <3>8 DEF u, v
  <2>13. Line' = Tail(b) /\ UNCHANGED <<build, matrix>> /\ pc' # "event"
    BY <1>0, <1>8, <2>1, <2>5, <2>6, ConsumedLine
  <2>14. RolesInv'
    <3>1. Roles(Line', tapping', registered')
      BY <2>7, <2>11, <2>12, <2>13 DEF reg2
    <3> QED  BY <2>13, <3>1, RolesNext
  <2>15. \A k \in HeldBy(tapping', registered') :
           IF k = Rec.key THEN Rec.pressed ELSE k \in HeldBy(tapping, registered)
    BY <1>2, <1>6, <2>2, <2>7, <2>10 DEF HeldBy, UnsettledPress, reg2
  <2>16. ChainInv'
    BY <1>0, <1>8, <2>1, <2>5, <2>6, <2>15, ChainConsumed
  <2>17. Clock'
    <3>1. tapping' \in Tapper /\ tapping'.time = Rec.time
      BY <2>2, <2>7 DEF Tapper
    <3> QED  BY <1>0, <1>8, <2>1, <2>5, <2>6, <3>1, ClockConsumed
  <2> QED  BY <2>13, <2>14, <2>16, <2>17 DEF DeliveryInv, Ordered
<1> QED  BY <1>7, <1>8 DEF BecomeTapping

-----------------------------------------------------------------------------
(* The branches of process_tapping, and what waits *)

\* An event that is judged while no key is undecided is the first that waits.
LEMMA JudgeFirst ==
  ASSUME Settled, Judging, IsEvent(Rec), ~UnsettledPress(tapping)
  PROVE  pc = "drain" \/ buf = <<>>
BY DEF Judging, Settled, DeliveryInv, Ordered, Undecided, UnsettledPress, Rec

LEMMA TappingState ==
  ASSUME Settled
  PROVE  /\ TypeInv /\ tapping \in Tapper /\ registered \in Registers
         /\ Judging /\ IsEvent(Rec) => Rec \in Record
         /\ IsEvent(tapping) =>
              /\ tapping \in Record /\ tapping.key \in TapKey /\ tapping.key \in Key
              /\ registered[tapping.key] =
                   IF tapping.pressed /\ tapping.count > 0 THEN {"tap"} ELSE {}
<1>1. TypeInv /\ TappingDown(tapping, registered)
  BY DEF Settled, DeliveryInv, RolesInv, Roles
<1>2. tapping \in Tapper /\ registered \in Registers
  BY <1>1, StateTypes
<1>3. IsEvent(tapping) => tapping \in Record
  BY <1>2, TapperType
<1>4. Judging /\ IsEvent(Rec) => Rec \in Record
  BY <1>1, RecType
<1> QED  BY <1>1, <1>2, <1>3, <1>4, RecordType DEF TappingDown

\* An event that goes through, whatever waits behind it.
LEMMA DeliveryThrough ==
  ASSUME NoWrap, Settled, PassThrough \/ KeyDuringTap \/ KeyAfterTap
  PROVE  DeliveryInv'
<1>1. /\ Judging /\ IsEvent(Rec) /\ ~IsTapPress(Rec) /\ Consumed(buf)
      /\ registered' = Processed(registered, Rec) /\ ~UnsettledPress(tapping)
  BY DEF PassThrough, KeyDuringTap, KeyAfterTap, Idle, Tapped, Released, Pressed,
         UnsettledPress
<1>2. pc = "drain" \/ buf = <<>>
  BY <1>1, JudgeFirst
<1>3. ~Rec.pressed \/ Rec.key \notin TapKey
  BY <1>1 DEF IsTapPress
<1>4. IsEvent(tapping) /\ tapping.pressed => tapping.key # Rec.key
  BY <1>3, TappingState
     DEF PassThrough, KeyDuringTap, KeyAfterTap, Idle, Released, IsTapRelease
<1>5. /\ tapping' \in Tapper /\ tapping'.key = tapping.key /\ tapping'.pressed = tapping.pressed
      /\ tapping'.count = tapping.count /\ tapping'.time = tapping.time
  <2>1. CASE tapping' = tapping
    BY <2>1, TappingState
  <2>2. CASE KeyAfterTap
    <3>1. tapping \in Record /\ Rec \in Record
      BY <1>1, <2>2, TappingState DEF KeyAfterTap, Released
    <3>2. tapping' = [tapping EXCEPT !.interrupted = @ \/ Rec.pressed]
      BY <2>2 DEF KeyAfterTap
    <3>3. (tapping.interrupted \/ Rec.pressed) \in BOOLEAN
      OBVIOUS
    <3> QED  BY <3>1, <3>2, <3>3 DEF Tapper, Record
  <2> QED  BY <2>1, <2>2 DEF PassThrough, KeyDuringTap
<1> QED  BY <1>1, <1>2, <1>3, <1>4, <1>5, DeliveryPass

\* A tap key is pressed while no key is undecided.
LEMMA DeliveryStart ==
  ASSUME NoWrap, Settled, StartTapping \/ OtherTapAfterTap \/ TapInterrupted
  PROVE  DeliveryInv'
<1>1. /\ Judging /\ IsTapPress(Rec) /\ ~UnsettledPress(tapping)
  BY DEF StartTapping, OtherTapAfterTap, TapInterrupted, Idle, Tapped, Released,
         Pressed, UnsettledPress
<1>2. IsEvent(Rec)
  <2>1. TypeInv
    BY TappingState
  <2> QED  BY <1>1, <2>1, RecType, TickType, RecordType DEF IsTapPress
<1>3. pc = "drain" \/ buf = <<>>
  BY <1>1, <1>2, JudgeFirst
<1>4. CASE (StartTapping \/ OtherTapAfterTap) \/ (TapInterrupted /\ ~(tapping.count > 1))
  <2>1. ~Repeating(tapping)
    <3>1. CASE StartTapping \/ OtherTapAfterTap
      BY <3>1 DEF StartTapping, OtherTapAfterTap, Idle, Released, Repeating
    <3>2. CASE ~(tapping.count > 1) /\ IsEvent(tapping)
      <4>1. tapping.count \in Nat
        BY <3>2, TappingState, RecordType
      <4> QED  BY <3>2, <4>1 DEF Repeating
    <3> QED  BY <1>4, <3>1, <3>2 DEF TapInterrupted, Tapped, Pressed
  <2>2. BecomeTapping(Rec, registered)
    BY <1>4 DEF StartTapping, OtherTapAfterTap, TapInterrupted
  <2>3. registered \in Registers
    BY TappingState
  <2> QED  BY <1>1, <1>2, <1>3, <2>1, <2>2, <2>3, DeliveryBecome
<1>5. CASE TapInterrupted /\ tapping.count > 1
  <2> DEFINE release == [tapping EXCEPT !.pressed = FALSE, !.time = Rec.time]
             reg == Processed(registered, release)
  <2>1. IsEvent(tapping) /\ tapping.pressed /\ tapping \in Record /\ Rec \in Record
    BY <1>1, <1>2, <1>5, TappingState DEF TapInterrupted, Tapped, Pressed
  <2>2. Rec.time \in Times /\ tapping.count > 0
    BY <1>5, <2>1, RecordType
  <2>3. /\ release \in Record /\ release.key = tapping.key /\ ~release.pressed
        /\ release.count = tapping.count
    BY <2>1, <2>2 DEF Record, Times
  <2>4. Repeating(tapping)
    BY <1>5, <2>1, <2>2 DEF Repeating
  <2>5. BecomeTapping(Rec, reg)
    BY <1>5 DEF TapInterrupted
  <2> HIDE DEF release
  <2>6. Role(release) = "tap"
    BY <2>1, <2>2, <2>3, TappingState, RoleOf
  <2>7. /\ reg \in Registers /\ reg[tapping.key] = {}
        /\ \A k \in Key : k # tapping.key => reg[k] = registered[k]
    <3>1. registered \in Registers /\ registered[tapping.key] = {"tap"}
      BY <2>1, <2>2, TappingState
    <3> QED  BY <2>3, <2>6, <3>1, ProcessedAt
  <2> HIDE DEF reg
  <2>8. \A k \in Key : reg[k] = IF Repeating(tapping) /\ k = tapping.key THEN {} ELSE registered[k]
    BY <2>4, <2>7
  <2> QED  BY <1>1, <1>2, <1>3, <2>5, <2>7, <2>8, DeliveryBecome
<1> QED  BY <1>4, <1>5

\* The tapping key, down as a tap, is released: its tap action ends.
LEMMA DeliveryTapReleased ==
  ASSUME NoWrap, Settled, TapReleased
  PROVE  DeliveryInv'
<1> DEFINE x == WithTap(Rec, tapping)
<1>1. /\ Judging /\ IsEvent(Rec) /\ IsEvent(tapping) /\ tapping.pressed /\ tapping.count > 0
      /\ ~Rec.pressed /\ Rec.key = tapping.key /\ Consumed(buf)
      /\ registered' = Processed(registered, x)
      /\ tapping' \in {x, NoRecord} /\ ~UnsettledPress(tapping)
  BY DEF TapReleased, Tapped, Pressed, IsTapRelease, UnsettledPress
<1>2. /\ TypeInv /\ ChainInv /\ RolesInv /\ Clock /\ tapping \in Record /\ Rec \in Record
      /\ tapping \in Tapper /\ registered \in Registers
  BY <1>1, TappingState DEF Settled, DeliveryInv
<1>3. pc = "drain" \/ buf = <<>>
  BY <1>1, JudgeFirst
<1>4. x \in Record /\ x.key = tapping.key /\ ~x.pressed /\ x.count > 0
  BY <1>1, <1>2 DEF WithTap, Record
<1>5. /\ buf \in Seq(Record) /\ Line \in Seq(Record) /\ SameShape(buf, buf)
      /\ Len(buf) = Len(buf) /\ \A i \in DOMAIN buf : buf[i].time = buf[i].time
  BY <1>2, StateTypes, LineParts, ShapeSelf
<1>6. Line' = Tail(Line) /\ Line # <<>> /\ Line[1] = Rec /\ UNCHANGED <<build, matrix>> /\ pc' # "event"
  BY <1>1, <1>2, <1>3, <1>5, ConsumedLine
<1> HIDE DEF x
<1> DEFINE t2 == tapping'
<1>7. t2 \in {x, NoRecord}
  BY <1>1
<1>8. ~UnsettledPress(t2) /\ t2 \in Tapper
  BY <1>4, <1>7, NoRecordType DEF UnsettledPress, Tapper
<1> HIDE DEF t2
<1>9. Roles(Tail(Line), t2, Processed(registered, x)) /\ Processed(registered, x)[tapping.key] = {}
  <2>1. Roles(Line, tapping, registered)
    BY <1>2 DEF RolesInv
  <2>2. Line[1].key = tapping.key
    BY <1>1, <1>6
  <2> QED  BY <1>1, <1>2, <1>4, <1>5, <1>6, <1>7, <2>1, <2>2, RolesReleased
<1>10. RolesInv'
  BY <1>1, <1>6, <1>9, RolesNext DEF t2
<1>11. \A k \in HeldBy(tapping', registered') :
         IF k = Rec.key THEN Rec.pressed ELSE k \in HeldBy(tapping, registered)
  <2>1. \A k \in Key : k # tapping.key => registered'[k] = registered[k]
    BY <1>1, <1>2, <1>4, ProcessedAt
  <2> QED  BY <1>1, <1>8, <1>9, <2>1 DEF HeldBy, t2
<1>12. ChainInv'
  BY <1>1, <1>2, <1>3, <1>5, <1>11, ChainConsumed
<1>13. Clock'
  BY <1>1, <1>2, <1>3, <1>5, <1>8, ClockConsumed DEF t2
<1> QED  BY <1>6, <1>10, <1>12, <1>13 DEF DeliveryInv, Ordered

\* The tapping key is pressed again soon after its tap.
LEMMA DeliveryTapAgain ==
  ASSUME NoWrap, Settled, TapAgain
  PROVE  DeliveryInv'
<1>1. /\ Judging /\ IsEvent(Rec) /\ IsEvent(tapping) /\ ~tapping.pressed
      /\ Rec.pressed /\ Rec.key = tapping.key /\ Consumed(buf) /\ ~UnsettledPress(tapping)
  BY DEF TapAgain, Released, UnsettledPress
<1>2. /\ TypeInv /\ FreshInv /\ ChainInv /\ RolesInv /\ Clock /\ tapping \in Record
      /\ Rec \in Record /\ tapping \in Tapper /\ registered \in Registers
      /\ tapping.key \in TapKey
  BY <1>1, TappingState DEF Settled, DeliveryInv
<1>3. pc = "drain" \/ buf = <<>>
  BY <1>1, JudgeFirst
<1>4. ~Repeating(tapping) /\ IsTapPress(Rec)
  BY <1>1, <1>2 DEF Repeating, IsTapPress
<1>5. CASE tapping' = Rec /\ registered' = registered
  BY <1>1, <1>2, <1>3, <1>4, <1>5, DeliveryRestart
<1>6. CASE tapping.count > 0 /\
           \E n \in 0 .. MaxTap : /\ n = IF tapping.count < MaxTap THEN tapping.count + 1 ELSE MaxTap
                                  /\ tapping' = [Rec EXCEPT !.count = n]
                                  /\ registered' = Processed(registered, [Rec EXCEPT !.count = n])
  <2>1. PICK n \in 0 .. MaxTap : /\ n = IF tapping.count < MaxTap THEN tapping.count + 1 ELSE MaxTap
                                 /\ tapping' = [Rec EXCEPT !.count = n]
                                 /\ registered' = Processed(registered, [Rec EXCEPT !.count = n])
    BY <1>6
  <2>2. n > 0 /\ n # 1
    <3>1. tapping.count \in Nat
      BY <1>2, RecordType
    <3> QED  BY <1>6, <2>1, <3>1, TermsAssumption
  <2> DEFINE x == [Rec EXCEPT !.count = n]
  <2>3. ~Rec.interrupted
    BY <1>1, <1>2, FreshRec DEF Fresh
  <2>4. x \in Record /\ x.key = tapping.key /\ x.pressed /\ ~x.interrupted /\ x.count = n
    BY <1>1, <1>2, <2>3 DEF Record
  <2>5. /\ buf \in Seq(Record) /\ Line \in Seq(Record) /\ SameShape(buf, buf)
        /\ Len(buf) = Len(buf) /\ \A i \in DOMAIN buf : buf[i].time = buf[i].time
    BY <1>2, StateTypes, LineParts, ShapeSelf
  <2>6. /\ Line' = Tail(Line) /\ Line # <<>> /\ Line[1] = Rec /\ UNCHANGED <<build, matrix>>
        /\ pc' # "event"
    BY <1>1, <1>2, <1>3, <2>5, ConsumedLine
  <2>7. tapping' = x /\ registered' = Processed(registered, x)
    BY <2>1
  <2> HIDE DEF x
  <2>8. Roles(Tail(Line), x, Processed(registered, x))
    <3>1. Roles(Line, tapping, registered)
      BY <1>2 DEF RolesInv
    <3>2. Line[1].key = tapping.key /\ x.count > 0 /\ x.count # 1
      BY <1>1, <2>2, <2>4, <2>6
    <3> QED  BY <1>1, <1>2, <2>4, <2>5, <2>6, <3>1, <3>2, RolesAgain
  <2>9. RolesInv'
    BY <2>6, <2>7, <2>8, RolesNext
  <2>10. ~UnsettledPress(tapping') /\ tapping' \in Tapper
    BY <2>2, <2>4, <2>7 DEF UnsettledPress, Tapper
  <2>11. \A k \in HeldBy(tapping', registered') :
           IF k = Rec.key THEN Rec.pressed ELSE k \in HeldBy(tapping, registered)
    <3>1. \A k \in Key : k # tapping.key => registered'[k] = registered[k]
      BY <1>2, <2>4, <2>7, ProcessedAt
    <3> QED  BY <1>1, <2>10, <3>1 DEF HeldBy
  <2>12. ChainInv'
    BY <1>1, <1>2, <1>3, <2>5, <2>11, ChainConsumed
  <2>13. Clock'
    BY <1>1, <1>2, <1>3, <2>5, <2>10, ClockConsumed
  <2> QED  BY <2>6, <2>9, <2>12, <2>13 DEF DeliveryInv, Ordered
<1>7. (IF tapping.count < MaxTap THEN tapping.count + 1 ELSE MaxTap) \in 0 .. MaxTap
  <2>1. tapping.count \in 0 .. MaxTap
    BY <1>2, RecordType
  <2> QED  BY <2>1, TermsAssumption
<1> QED  BY <1>5, <1>6, <1>7 DEF TapAgain

\* The tapping key's press waits for its decision, and the record is judged
\* within its term.
LEMMA UnsettledState ==
  ASSUME Settled, Unsettled
  PROVE  /\ TypeInv /\ ChainInv /\ RolesInv /\ Clock /\ NeverCancelled /\ Judging
         /\ tapping \in Record /\ tapping \in Tapper /\ registered \in Registers
         /\ tapping.key \in TapKey /\ tapping.key \in Key
         /\ IsEvent(tapping) /\ tapping.pressed /\ tapping.count = 0
         /\ UnsettledPress(tapping) /\ tapping.key \in HeldBy(tapping, registered)
         /\ registered[tapping.key] = {}
         /\ IsEvent(Rec) => Rec \in Record
         /\ Line \in Seq(Record) /\ Roles(Line, tapping, registered)
         /\ pc = "event" /\ WithinTappingTerm(Rec) => TimerDiff(now, tapping.time) < TappingTerm
<1>1. /\ Judging /\ IsEvent(tapping) /\ tapping.pressed /\ tapping.count = 0
      /\ UnsettledPress(tapping)
  BY DEF Unsettled, Pressed, UnsettledPress
<1>2. TypeInv /\ ChainInv /\ RolesInv /\ Clock /\ NeverCancelled
  BY DEF Settled, DeliveryInv, FreshInv
<1>3. pc = "event" => Rec.time = now
  BY <1>2 DEF Clock, Rec
<1>4. /\ tapping \in Record /\ tapping \in Tapper /\ registered \in Registers
      /\ tapping.key \in TapKey /\ tapping.key \in Key
      /\ registered[tapping.key] = {} /\ (IsEvent(Rec) => Rec \in Record)
  BY <1>1, TappingState
<1>5. tapping.key \in HeldBy(tapping, registered)
  BY <1>1, <1>4 DEF HeldBy
<1>6. Line \in Seq(Record) /\ Roles(Line, tapping, registered)
  BY <1>2, LineParts DEF RolesInv
<1> QED  BY <1>1, <1>2, <1>3, <1>4, <1>5, <1>6 DEF WithinTappingTerm

LEMMA LineSelf ==
  ASSUME TypeInv, Judging, IsEvent(Rec)
  PROVE  [Line EXCEPT ![RecAt] = Rec] = Line
<1>1. Line \in Seq(Record) /\ Line[RecAt] = Rec /\ RecAt \in DOMAIN Line
  BY LineParts
<1> DEFINE i == RecAt
           x == Rec
<1> HIDE DEF i, x
<1>2. Line \in Seq(Record) /\ Line[i] = x /\ i \in DOMAIN Line
  BY <1>1 DEF i, x
<1>3. [Line EXCEPT ![i] = x] = Line
  BY <1>2
<1> QED  BY <1>3 DEF i, x

\* The tapping key is settled as held, and the record waits.
LEMMA DeliveryHold ==
  ASSUME NoWrap, Settled, OverflowClears, Unsettled, IsEvent(Rec),
         Kept(Rec, NoRecord, Processed(registered, tapping))
  PROVE  DeliveryInv'
<1> DEFINE reg == Processed(registered, tapping)
<1>1. /\ TypeInv /\ Judging /\ tapping \in Record /\ tapping \in Tapper /\ registered \in Registers
      /\ Rec \in Record /\ UnsettledPress(tapping) /\ tapping.key \in HeldBy(tapping, registered)
      /\ Line \in Seq(Record) /\ Roles(Line, tapping, registered)
  BY UnsettledState
<1>2. NoRecord \in Tapper /\ ~IsEvent(NoRecord) /\ ~UnsettledPress(NoRecord)
  BY NoRecordType DEF Tapper, UnsettledPress
<1>3. \A k \in Key : k # tapping.key => reg[k] = registered[k]
  BY <1>1, ProcessedAt
<1>4. HeldBy(NoRecord, reg) \subseteq HeldBy(tapping, registered)
  <2> HIDE DEF reg
  <2> QED  BY <1>1, <1>2, <1>3 DEF HeldBy
<1>5. Roles(Line, NoRecord, reg)
  BY <1>1, RolesHold
<1>6. Roles([Line EXCEPT ![RecAt] = Rec], NoRecord, reg)
  BY <1>1, <1>5, LineSelf
<1>7. Kept(Rec, NoRecord, reg)
  OBVIOUS
<1> HIDE DEF reg
<1> QED  BY <1>1, <1>2, <1>4, <1>6, <1>7, DeliveryKept

\* The tapping key stays undecided, and the record waits.
LEMMA DeliveryWait ==
  ASSUME NoWrap, Settled, OverflowClears, Unsettled, IsEvent(Rec), WithinTappingTerm(Rec),
         NEW t \in Record, t.key = tapping.key, t.pressed = tapping.pressed,
         t.count = tapping.count, t.time = tapping.time,
         Kept(Rec, t, registered)
  PROVE  DeliveryInv'
<1>1. /\ TypeInv /\ Judging /\ registered \in Registers
      /\ Rec \in Record /\ UnsettledPress(tapping)
      /\ Roles(Line, tapping, registered)
      /\ pc = "event" => TimerDiff(now, tapping.time) < TappingTerm
  BY UnsettledState
<1>2. t \in Tapper /\ (UnsettledPress(t) <=> UnsettledPress(tapping))
  BY DEF Tapper, UnsettledPress, IsEvent
<1>3. HeldBy(t, registered) \subseteq HeldBy(tapping, registered)
  BY <1>2 DEF HeldBy
<1>4. Roles([Line EXCEPT ![RecAt] = Rec], t, registered)
  <2>1. Roles(Line, t, registered)
    BY <1>1, RolesSameTap
  <2> QED  BY <1>1, <2>1, LineSelf
<1> QED  BY <1>1, <1>2, <1>3, <1>4, DeliveryKept

LEMMA DeliveryWaits ==
  ASSUME NoWrap, Settled, OverflowClears, NestedTap \/ OtherKeyWaits
  PROVE  DeliveryInv'
<1>1. Unsettled /\ IsEvent(Rec) /\ WithinTappingTerm(Rec)
  BY DEF NestedTap, OtherKeyWaits
<1>2. CASE Kept(Rec, NoRecord, Processed(registered, tapping))
  BY <1>1, <1>2, DeliveryHold
<1>3. tapping \in Record
  BY <1>1, UnsettledState
<1>4. CASE Kept(Rec, tapping, registered)
  BY <1>1, <1>3, <1>4, DeliveryWait
<1>5. CASE Kept(Rec, [tapping EXCEPT !.interrupted = TRUE], registered)
  <2> DEFINE t == [tapping EXCEPT !.interrupted = TRUE]
  <2>1. /\ t \in Record /\ t.key = tapping.key /\ t.pressed = tapping.pressed
        /\ t.count = tapping.count /\ t.time = tapping.time
    BY <1>3 DEF Record
  <2>2. Kept(Rec, t, registered)
    BY <1>5
  <2> HIDE DEF t
  <2> QED  BY <1>1, <2>1, <2>2, DeliveryWait
<1> QED  BY <1>2, <1>4, <1>5 DEF NestedTap, OtherKeyWaits

\* The tapping key's release, within the term: of its events that wait it is
\* the first, and both are settled as a tap.
LEMMA FirstTapNext ==
  ASSUME Settled, FirstTap
  PROVE  \A j \in DOMAIN Line : j < RecAt => Line[j].key # tapping.key
<1>1. Unsettled /\ IsEvent(Rec) /\ ~Rec.pressed /\ Rec.key = tapping.key
  BY DEF FirstTap, IsTapRelease
<1>2. TypeInv /\ ChainInv /\ Judging /\ tapping.key \in HeldBy(tapping, registered) /\ Line \in Seq(Record)
  BY <1>1, UnsettledState
<1>3. CASE pc = "drain"
  <2>1. RecAt = 1 /\ DOMAIN Line = 1 .. Len(Line) /\ Len(Line) \in Nat
    BY <1>2, <1>3, LineParts, SeqParts
  <2> QED  BY <2>1
<1>4. CASE pc = "event"
  <2>1. Rec = cur /\ IsEvent(cur) /\ RecAt = Len(buf) + 1 /\ buf \in Seq(Record) /\ Len(buf) \in Nat
    BY <1>1, <1>2, <1>4, LineParts DEF Rec, RecAt
  <2>2. buf = <<>> \/ Undecided
    BY <1>4, <2>1 DEF Settled, DeliveryInv, Ordered
  <2>3. DOMAIN Line \subseteq Nat
    BY <1>2, SeqParts
  <2>4. \A j \in DOMAIN Line : j < RecAt => j \in DOMAIN buf /\ Line[j] = buf[j]
    BY <1>1, <1>2, <2>1, <2>3, LineParts
  <2> SUFFICES ASSUME NEW j \in DOMAIN Line, j < RecAt, Line[j].key = tapping.key PROVE FALSE
    OBVIOUS
  <2>5. j \in DOMAIN buf /\ Line[j] = buf[j]
    BY <2>4
  <2>6. Undecided
    BY <2>2, <2>5
  <2>7. Line[j].pressed
    BY <2>5, <2>6 DEF Undecided
  <2>8. PICK i \in DOMAIN Line : i < j /\ Opposite(Line[j], Line[i])
    BY <1>2, <2>7 DEF ChainInv, Chain, Releases
  <2>9. i < RecAt
    BY <2>1, <2>3, <2>8
  <2>10. i \in DOMAIN buf /\ Line[i] = buf[i]
    BY <2>4, <2>9
  <2>11. Line[i].key = tapping.key /\ ~Line[i].pressed
    BY <2>7, <2>8 DEF Opposite
  <2> QED  BY <2>6, <2>10, <2>11 DEF Undecided
<1> QED  BY <1>2, <1>3, <1>4 DEF Judging

LEMMA DeliveryFirstTap ==
  ASSUME NoWrap, Settled, OverflowClears, FirstTap
  PROVE  DeliveryInv'
<1> DEFINE tap == [tapping EXCEPT !.count = 1]
           settled == AfterProcess(tap)
           r == WithTap(Rec, settled)
           reg == Processed(registered, tap)
<1>1. /\ Unsettled /\ IsEvent(Rec) /\ ~Rec.pressed /\ Rec.key = tapping.key
      /\ Kept(r, settled, reg)
  BY DEF FirstTap, IsTapRelease
<1>2. /\ TypeInv /\ Judging /\ NeverCancelled /\ tapping \in Record /\ tapping \in Tapper
      /\ registered \in Registers /\ tapping.key \in TapKey /\ tapping.key \in Key
      /\ tapping.pressed /\ UnsettledPress(tapping)
      /\ tapping.key \in HeldBy(tapping, registered) /\ registered[tapping.key] = {}
      /\ Rec \in Record /\ Line \in Seq(Record) /\ Roles(Line, tapping, registered)
  BY <1>1, UnsettledState
<1>3. /\ tap \in Record /\ tap.key = tapping.key /\ tap.pressed /\ tap.count = 1
      /\ tap.interrupted = tapping.interrupted
  <2>1. 1 \in 0 .. MaxTap
    BY TermsAssumption
  <2>2. tap \in Record
    BY <1>2, <2>1 DEF Record
  <2>3. tap.key = tapping.key /\ tap.pressed /\ tap.count = 1 /\ tap.interrupted = tapping.interrupted
    BY <1>2 DEF Record
  <2> QED  BY <2>2, <2>3
<1> HIDE DEF tap
<1>4. ~Cancelled(tap)
  BY <1>2, <1>3 DEF NeverCancelled, Cancelled
<1>5. Role(tap) = "tap" /\ settled = tap
  BY <1>2, <1>3, <1>4, RoleOfTap
<1>6. r \in Record /\ r.key = Rec.key /\ ~r.pressed /\ r.pressed = Rec.pressed /\ r.time = Rec.time /\ r.count = 1
  BY <1>1, <1>2, <1>3, <1>5 DEF WithTap, Record
<1> HIDE DEF settled, r
<1>7. /\ reg \in Registers /\ reg[tapping.key] = {"tap"}
      /\ \A k \in Key : k # tapping.key => reg[k] = registered[k]
  <2>1. /\ reg \in Registers /\ reg[tap.key] = registered[tap.key] \cup {"tap"}
        /\ \A k \in Key : k # tap.key => reg[k] = registered[k]
    <3>1. registered \in Registers /\ tap \in Record /\ tap.pressed /\ Role(tap) = "tap"
      BY <1>2, <1>3, <1>5
    <3>2. /\ reg \in Registers
          /\ \A k \in Key : k # tap.key => reg[k] = registered[k]
      BY <3>1, ProcessedAt
    <3>3. tap.pressed => reg[tap.key] = registered[tap.key] \cup {Role(tap)}
      BY <3>1, ProcessedAt
    <3> QED  BY <3>1, <3>2, <3>3
  <2> QED  BY <1>2, <1>3, <2>1
<1> HIDE DEF reg
<1>8. ~UnsettledPress(tap) /\ tap \in Tapper
  BY <1>3 DEF UnsettledPress, Tapper
<1>9. HeldBy(tap, reg) \subseteq HeldBy(tapping, registered)
  BY <1>2, <1>7, <1>8 DEF HeldBy
<1>10. Roles([Line EXCEPT ![RecAt] = r], tap, reg)
  <2> DEFINE i == RecAt
  <2>1. \A j \in DOMAIN Line : j < i => Line[j].key # tapping.key
    BY FirstTapNext
  <2>2. i \in DOMAIN Line /\ Line[i].key = tapping.key /\ ~Line[i].pressed
    BY <1>1, <1>2, LineParts
  <2> HIDE DEF i
  <2>3. Roles([Line EXCEPT ![i] = r], tap, reg)
    BY <1>1, <1>2, <1>3, <1>6, <1>7, <2>1, <2>2, RolesTap
  <2> QED  BY <2>3 DEF i
<1>11. Kept(r, tap, reg)
  BY <1>1, <1>5 DEF reg
<1> QED  BY <1>1, <1>2, <1>3, <1>6, <1>8, <1>9, <1>10, <1>11, DeliveryKept

\* The release of another key goes past the keys that wait: none of them is
\* its own.
LEMMA DeliveryEarlier ==
  ASSUME NoWrap, Settled, OverflowClears, EarlierKeyReleased
  PROVE  DeliveryInv'
<1>1. /\ Unsettled /\ IsEvent(Rec) /\ WithinTappingTerm(Rec) /\ ~Rec.pressed
      /\ Rec.key # tapping.key /\ ~Typed(Rec)
  BY DEF EarlierKeyReleased
<1>2. /\ TypeInv /\ Judging /\ ChainInv /\ tapping \in Record /\ tapping \in Tapper
      /\ registered \in Registers /\ UnsettledPress(tapping) /\ Rec \in Record
      /\ pc = "event" => TimerDiff(now, tapping.time) < TappingTerm
      /\ Roles(Line, tapping, registered) /\ Clock
  BY <1>1, UnsettledState
<1>3. CASE Kept(Rec, tapping, registered)
  BY <1>1, <1>2, <1>3, DeliveryWait
<1>4. CASE /\ ~RetainedToEnd(Rec) /\ registered' = Processed(registered, Rec)
           /\ Consumed(buf) /\ tapping' = tapping
  <2>1. CASE pc = "drain"
    BY <1>1, <1>2, <1>4, <2>1, DeliveryPass
  <2>2. CASE pc = "event"
    <3>1. Rec = cur /\ IsEvent(cur) /\ Rec.count = 0
      BY <1>1, <2>2 DEF Rec, Settled, DeliveryInv, Ordered
    <3>2. Rec.key \notin TapKey
      BY <1>4, <3>1 DEF RetainedToEnd, TapKey
    <3>3. buf \in Seq(Record) /\ Len(buf) < BufferSize /\ now \in Times /\ Line = Append(buf, Rec)
      BY <1>1, <1>2, <2>2, StateTypes, LineParts
    <3>4. \A i \in DOMAIN buf : buf[i].key = Rec.key => ~buf[i].pressed
      <4>1. \A i \in DOMAIN buf : buf[i] \in Record
        BY <3>3, SeqParts
      <4> QED  BY <1>1, <4>1, RecordType DEF Typed
    <3>5. Roles(buf, tapping, registered') /\ registered'[Rec.key] = {}
      BY <1>1, <1>2, <1>4, <3>2, <3>3, RolesFront
    <3>6. /\ buf' = buf /\ pc' # "event" /\ Line' = buf /\ UNCHANGED <<build, matrix, now>>
      BY <1>4, <2>2 DEF Consumed, Drain, Line
    <3>7. RolesInv'
      BY <1>4, <3>5, <3>6, RolesNext
    <3>8. ChainInv'
      <4> DEFINE held == HeldBy(tapping, registered)
                 held2 == HeldBy(tapping', registered')
      <4>1. \A k \in Key : k # Rec.key => registered'[k] = registered[k]
        BY <1>2, <1>4, ProcessedAt
      <4>2. \A k \in held2 : k \in held /\ k # Rec.key
        BY <1>1, <1>4, <3>5, <4>1 DEF HeldBy
      <4>3. Chain(Append(buf, Rec), matrix, held)
        BY <1>2, <3>3 DEF ChainInv
      <4> HIDE DEF held, held2
      <4>4. Chain(buf, matrix, held2)
        BY <1>1, <1>2, <3>3, <3>4, <4>2, <4>3, ChainFront
      <4> QED  BY <3>6, <4>4 DEF ChainInv, held2
    <3>9. Clock'
      <4>1. Slack' = 0
        BY <1>2, <1>4, <3>6 DEF Slack, UnsettledPress
      <4>2. Ages(buf, tapping, now, Slack)
        BY <1>2 DEF Clock
      <4>3. Ages(buf, tapping, now, 0)
        BY <1>2, <2>2, <3>3, <4>2, AgesYoung
      <4> QED  BY <1>4, <3>6, <4>1, <4>3 DEF Clock
    <3> QED  BY <3>6, <3>7, <3>8, <3>9 DEF DeliveryInv, Ordered
  <2> QED  BY <1>2, <2>1, <2>2 DEF Judging
<1> QED  BY <1>3, <1>4 DEF EarlierKeyReleased

\* A tick leaves the line as it is; either the tapping key is within its term,
\* or it waits no longer.
LEMMA DeliveryTick ==
  ASSUME NoWrap, Settled, Judging, ~IsEvent(Rec),
         Consumed(buf) \/ \E t, reg : Kept(Rec, t, reg) /\ tapping' = t /\ registered' = reg,
         tapping' \in Tapper, IsEvent(tapping') => tapping' = tapping,
         UnsettledPress(tapping') => WithinTappingTerm(Rec),
         HeldBy(tapping', registered') \subseteq HeldBy(tapping, registered),
         Roles(Line, tapping', registered')
  PROVE  DeliveryInv'
<1>1. TypeInv /\ ChainInv /\ RolesInv /\ Clock /\ NoneInBuffer
  BY DEF Settled, DeliveryInv
<1>2. /\ Line' = Line /\ Line = buf /\ buf' = buf /\ pc = "event" /\ pc' # "event"
      /\ UNCHANGED <<build, matrix>>
  BY <1>1, TickLine
<1>3. now' = now /\ pc' = IF buf = <<>> THEN "scan" ELSE "drain"
  BY <1>2 DEF Consumed, Kept, Drain
<1>4. ChainInv'
  BY <1>1, <1>2, ChainLess
<1>5. RolesInv'
  BY <1>2, RolesNext
<1>6. buf \in Seq(Record) /\ Len(buf) < BufferSize /\ now \in Times /\ tapping \in Tapper
  BY <1>1, StateTypes
<1> DEFINE t2 == tapping'
<1>7. Ages(buf, tapping, now, 1)
  BY <1>1, <1>2 DEF Clock, Slack
<1>8. Ages(buf, t2, now, Slack')
  <2>1. CASE UnsettledPress(t2)
    <3>1. t2 = tapping
      BY <2>1 DEF UnsettledPress
    <3>2. Rec.time = now
      BY <1>1, <1>2 DEF Clock, Rec
    <3>3. TimerDiff(now, tapping.time) < TappingTerm
      BY <2>1, <3>2 DEF WithinTappingTerm
    <3>4. Slack' = 0
      BY <1>2, <2>1 DEF Slack, UnsettledPress
    <3>5. Ages(buf, tapping, now, 0)
      BY <1>6, <1>7, <2>1, <3>1, <3>3, AgesYoung
    <3> QED  BY <3>1, <3>4, <3>5
  <2>2. CASE ~UnsettledPress(t2) /\ buf = <<>>
    BY <2>2 DEF Ages
  <2>3. CASE ~UnsettledPress(t2) /\ buf # <<>>
    <3>1. ~IsEvent(t2) \/ (t2.pressed /\ t2.count > 0)
      <4>1. CASE IsEvent(t2)
        <5>1. t2 = tapping /\ tapping \in Record
          BY <1>6, <4>1, TapperType
        <5>2. tapping.pressed
          BY <1>1, <1>2, <2>3, <4>1, <5>1 DEF NoneInBuffer
        <5>3. tapping.count \in Nat
          BY <5>1, RecordType
        <5>4. tapping.count # 0
          BY <2>3, <4>1, <5>1, <5>2 DEF UnsettledPress
        <5> QED  BY <5>1, <5>2, <5>3, <5>4
      <4> QED  BY <4>1
    <3>2. Slack' = 1
      BY <1>3, <2>3, <3>1 DEF Slack
    <3>3. DOMAIN buf = DOMAIN buf /\ \A i \in DOMAIN buf : buf[i].time = buf[i].time
      OBVIOUS
    <3> HIDE DEF t2
    <3>4. Ages(buf, t2, now, 1)
      BY <1>7, <2>3, <3>3, AgesSame
    <3> QED  BY <3>2, <3>4
  <2> QED  BY <2>1, <2>2, <2>3
<1>9. Clock'
  BY <1>2, <1>3, <1>8 DEF Clock
<1> QED  BY <1>2, <1>4, <1>5, <1>9 DEF DeliveryInv, Ordered

LEMMA DeliveryTickIgnored ==
  ASSUME NoWrap, Settled, TickIgnored
  PROVE  DeliveryInv'
<1>1. /\ Judging /\ ~IsEvent(Rec) /\ Consumed(buf) /\ tapping' = tapping
      /\ registered' = registered
  BY DEF TickIgnored
<1>2. tapping' \in Tapper
  BY <1>1, TappingState
<1>3. UnsettledPress(tapping') => WithinTappingTerm(Rec)
  BY <1>1 DEF TickIgnored, UnsettledPress, Idle, Pressed, Released
<1>4. HeldBy(tapping', registered') \subseteq HeldBy(tapping, registered)
  BY <1>1 DEF HeldBy
<1>5. Roles(Line, tapping', registered')
  BY <1>1 DEF Settled, DeliveryInv, RolesInv
<1> QED  BY <1>1, <1>2, <1>3, <1>4, <1>5, DeliveryTick

LEMMA DeliveryHoldTimeout ==
  ASSUME NoWrap, Settled, OverflowClears, HoldTimeout
  PROVE  DeliveryInv'
<1>1. Unsettled /\ Kept(Rec, NoRecord, Processed(registered, tapping))
  BY DEF HoldTimeout
<1>2. CASE IsEvent(Rec)
  BY <1>1, <1>2, DeliveryHold
<1>3. CASE ~IsEvent(Rec)
  <2> DEFINE reg == Processed(registered, tapping)
  <2>1. /\ TypeInv /\ Judging /\ tapping \in Record /\ tapping \in Tapper
        /\ registered \in Registers /\ UnsettledPress(tapping)
        /\ tapping.key \in HeldBy(tapping, registered)
        /\ Line \in Seq(Record) /\ Roles(Line, tapping, registered)
    BY <1>1, UnsettledState
  <2>2. Kept(Rec, NoRecord, reg)
    BY <1>1
  <2>3. Roles(Line, NoRecord, reg)
    BY <2>1, RolesHold
  <2>4. \A k \in Key : k # tapping.key => reg[k] = registered[k]
    BY <2>1, ProcessedAt
  <2> HIDE DEF reg
  <2>5. tapping' = NoRecord /\ registered' = reg
    BY <1>3, <2>1, <2>2, TickKept
  <2>6. NoRecord \in Tapper /\ ~IsEvent(NoRecord) /\ ~UnsettledPress(NoRecord)
    BY NoRecordType DEF Tapper, UnsettledPress
  <2>7. HeldBy(NoRecord, reg) \subseteq HeldBy(tapping, registered)
    BY <2>1, <2>4, <2>6 DEF HeldBy
  <2>8. \E t, r : Kept(Rec, t, r) /\ tapping' = t /\ registered' = r
    BY <2>2, <2>5
  <2>9. /\ tapping' \in Tapper /\ ~IsEvent(tapping') /\ ~UnsettledPress(tapping')
        /\ HeldBy(tapping', registered') \subseteq HeldBy(tapping, registered)
        /\ Roles(Line, tapping', registered')
    BY <2>3, <2>5, <2>6, <2>7
  <2> QED  BY <1>3, <2>1, <2>8, <2>9, DeliveryTick
<1> QED  BY <1>2, <1>3

LEMMA DeliveryReleaseTimeout ==
  ASSUME NoWrap, Settled, OverflowClears, ReleaseTimeout
  PROVE  DeliveryInv'
<1>1. Judging /\ IsEvent(tapping) /\ ~tapping.pressed /\ Kept(Rec, NoRecord, registered)
  BY DEF ReleaseTimeout, Released
<1>2. TypeInv /\ registered \in Registers /\ Roles(Line, tapping, registered)
  BY TappingState DEF Settled, DeliveryInv, RolesInv
<1>3. Roles(Line, NoRecord, registered)
  BY <1>1, <1>2, RolesForget
<1>4. NoRecord \in Tapper /\ ~IsEvent(NoRecord) /\ ~UnsettledPress(NoRecord)
  BY NoRecordType DEF Tapper, UnsettledPress
<1>5. HeldBy(NoRecord, registered) \subseteq HeldBy(tapping, registered)
  BY <1>4 DEF HeldBy
<1>6. CASE IsEvent(Rec)
  <2>1. Rec \in Record
    BY <1>1, <1>6, TappingState
  <2>2. Roles([Line EXCEPT ![RecAt] = Rec], NoRecord, registered)
    BY <1>1, <1>2, <1>3, <1>6, LineSelf
  <2> QED  BY <1>1, <1>2, <1>4, <1>5, <1>6, <2>1, <2>2, DeliveryKept
<1>7. CASE ~IsEvent(Rec)
  <2>1. tapping' = NoRecord /\ registered' = registered
    BY <1>1, <1>2, <1>7, TickKept
  <2>2. \E t, r : Kept(Rec, t, r) /\ tapping' = t /\ registered' = r
    BY <1>1, <2>1
  <2>3. /\ tapping' \in Tapper /\ ~IsEvent(tapping') /\ ~UnsettledPress(tapping')
        /\ HeldBy(tapping', registered') \subseteq HeldBy(tapping, registered)
        /\ Roles(Line, tapping', registered')
    BY <1>3, <1>4, <1>5, <2>1
  <2> QED  BY <1>1, <1>7, <2>2, <2>3, DeliveryTick
<1> QED  BY <1>6, <1>7

-----------------------------------------------------------------------------
(* Every step keeps the invariant *)

LEMMA DeliveryProcessTapping ==
  ASSUME NoWrap, Settled, OverflowClears, ProcessTapping
  PROVE  DeliveryInv'
<1>1. CASE TickIgnored \/ HoldTimeout \/ ReleaseTimeout
  BY <1>1, DeliveryTickIgnored, DeliveryHoldTimeout, DeliveryReleaseTimeout
<1>2. CASE PassThrough \/ KeyDuringTap \/ KeyAfterTap
  BY <1>2, DeliveryThrough
<1>3. CASE StartTapping \/ OtherTapAfterTap \/ TapInterrupted
  BY <1>3, DeliveryStart
<1>4. CASE FirstTap \/ TapReleased \/ TapAgain
  BY <1>4, DeliveryFirstTap, DeliveryTapReleased, DeliveryTapAgain
<1>5. CASE NestedTap \/ OtherKeyWaits \/ EarlierKeyReleased
  BY <1>5, DeliveryWaits, DeliveryEarlier
<1> QED  BY <1>1, <1>2, <1>3, <1>4, <1>5 DEF ProcessTapping

LEMMA DeliveryInit == NoWrap /\ Init => DeliveryInv
<1> SUFFICES ASSUME NoWrap, Init PROVE DeliveryInv
  OBVIOUS
<1>1. /\ buf = <<>> /\ matrix = {} /\ pc = "scan" /\ tapping = NoRecord
      /\ \A k \in Key : registered[k] = {}
  BY DEF Init
<1>2. ~UnsettledPress(NoRecord)
  BY NoRecordType DEF UnsettledPress
<1>3. Line = <<>>
  BY <1>1 DEF Line
<1>4. ChainInv
  <2>1. HeldBy(tapping, registered) = {}
    BY <1>1, <1>2 DEF HeldBy
  <2>2. Chain(<<>>, {}, {})
    BY DEF Chain, Alternating, EndsIn, Releases
  <2> QED  BY <1>1, <1>3, <2>1, <2>2 DEF ChainInv
<1>5. RolesInv
  BY <1>1, <1>3, RolesCleared DEF RolesInv
<1>6. Clock
  <2>1. Ages(<<>>, NoRecord, now, Slack)
    BY <1>2 DEF Ages
  <2> QED  BY <1>1, <2>1 DEF Clock
<1> QED  BY <1>1, <1>4, <1>5, <1>6 DEF DeliveryInv, Ordered

LEMMA SettledInit == NoWrap /\ Init => Settled
<1>1. Init => FreshInv
  BY FreshNone DEF Init, FreshInv, FreshBuf, NeverCancelled, NoRecord, TickAt, NewRecord
<1>2. Init => NoneInBuffer
  BY DEF Init, NoneInBuffer
<1> QED  BY InitType, DeliveryInit, <1>1, <1>2 DEF Settled

LEMMA DeliveryStutter ==
  ASSUME DeliveryInv, UNCHANGED vars
  PROVE  DeliveryInv'
<1>1. UNCHANGED <<build, now, matrix, cur, pc, tapping, buf, registered>>
  BY DEF vars
<1>2. UNCHANGED <<Line, Slack>>
  BY <1>1 DEF Line, Slack
<1>3. Clock'
  BY <1>1, <1>2 DEF DeliveryInv, Clock
<1>4. ChainInv'
  BY <1>1, <1>2 DEF DeliveryInv, ChainInv
<1>5. RolesInv'
  BY <1>1, <1>2, RolesNext DEF DeliveryInv, RolesInv
<1>6. Ordered'
  BY <1>1 DEF DeliveryInv, Ordered, Undecided
<1> QED  BY <1>3, <1>4, <1>5, <1>6 DEF DeliveryInv

LEMMA SettledNext ==
  ASSUME NoWrap, ~Overtaking, Settled, [Next]_vars, [OverflowClears]_vars
  PROVE  Settled'
<1>1. TypeInv'
  <2>1. CASE UNCHANGED vars
    BY <2>1 DEF Settled, TypeInv, TypeOK, vars
  <2> QED  BY <2>1, EventType, ProcessTappingType DEF Next, Settled
<1>2. FreshInv'
  <2>1. CASE UNCHANGED vars
    BY <2>1 DEF Settled, FreshInv, FreshBuf, NeverCancelled, ModTap, HoldOnOther, vars
  <2> QED  BY <2>1, FreshEvent, FreshProcessTapping DEF Next, Settled
<1>3. NoneInBuffer'
  <2>1. CASE ProcessTapping
    BY <2>1, NoneInBufferProcessTapping DEF Settled
  <2>2. CASE (\E k \in Key, d \in 0 .. MaxGap : KeyEvent(k, d))
               \/ (\E d \in 0 .. MaxGap : TickEvent(d))
    BY <2>2 DEF KeyEvent, TickEvent, Receive, NoneInBuffer, Settled
  <2>3. CASE UNCHANGED vars
    BY <2>3 DEF NoneInBuffer, Settled, vars
  <2> QED  BY <2>1, <2>2, <2>3 DEF Next
<1>4. DeliveryInv'
  <2>1. CASE UNCHANGED vars
    BY <2>1, DeliveryStutter DEF Settled
  <2>2. CASE ProcessTapping /\ ~UNCHANGED vars
    BY <2>2, DeliveryProcessTapping
  <2>3. CASE (\E k \in Key, d \in 0 .. MaxGap : KeyEvent(k, d))
               \/ (\E d \in 0 .. MaxGap : TickEvent(d))
    BY <2>3, DeliveryEvent
  <2> QED  BY <2>1, <2>2, <2>3 DEF Next
<1> QED  BY <1>1, <1>2, <1>3, <1>4 DEF Settled

LEMMA SettledFacts ==
  ASSUME Settled
  PROVE  OneAction /\ NothingStuck
<1>1. /\ SingleRoles(registered) /\ TypeInv
      /\ Chain(Line, matrix, HeldBy(tapping, registered))
  BY DEF Settled, DeliveryInv, RolesInv, Roles, ChainInv
<1>2. OneAction
  <2> SUFFICES ASSUME NEW k \in Key, NEW x \in registered[k], NEW y \in registered[k]
               PROVE  x = y
    BY DEF OneAction
  <2>1. CASE k \in TapKey
    BY <1>1, <2>1 DEF SingleRoles
  <2>2. CASE k \notin TapKey
    BY <1>1, <2>2 DEF SingleRoles
  <2> QED  BY <2>1, <2>2
<1>3. NothingStuck
  <2> SUFFICES ASSUME pc = "scan", matrix = {}, buf = <<>>, NEW k \in Key, registered[k] # {}
               PROVE  FALSE
    BY DEF NothingStuck
  <2>1. k \in HeldBy(tapping, registered)
    BY DEF HeldBy
  <2>2. Line = <<>>
    BY DEF Line
  <2>3. k \in matrix \/ \E i \in DOMAIN Line : Line[i].key = k
    BY <1>1, <2>1 DEF Chain, Releases
  <2> QED  BY <2>2, <2>3
<1> QED  BY <1>2, <1>3

\* A step that throws waiting events away is the one for a full buffer.
LEMMA DroppedByOverflow ==
  ASSUME TypeInv, Next, pc = "event", buf # <<>>, buf' = <<>>
  PROVE  \E reg : registered' = Cleared(reg)
<1>1. buf \in Seq(Record) /\ ProcessTapping
  BY DEF TypeInv, TypeOK, Next, KeyEvent, TickEvent, Receive
<1>2. ASSUME NEW b, b # <<>>, Consumed(b) PROVE FALSE
  BY <1>2 DEF Consumed, Drain
<1>3. ASSUME NEW r, NEW t, NEW reg, Kept(r, t, reg) PROVE registered' = Cleared(reg)
  <2>1. Append(buf, r) # <<>>
    BY <1>1
  <2> QED  BY <1>3, <2>1 DEF Kept, Drain
<1>4. ASSUME NEW r, NEW reg, BecomeTapping(r, reg) PROVE FALSE
  <2>1. ASSUME NEW i PROVE [buf EXCEPT ![i].count = 1] # <<>>
    <3>1. DOMAIN [buf EXCEPT ![i].count = 1] = DOMAIN buf
      OBVIOUS
    <3>2. 1 \in DOMAIN buf
      <4>1. Len(buf) \in Nat /\ Len(buf) # 0 /\ DOMAIN buf = 1 .. Len(buf)
        BY <1>1
      <4> QED  BY <4>1
    <3>3. DOMAIN <<>> = {}
      OBVIOUS
    <3> QED  BY <3>1, <3>2, <3>3
  <2> QED  BY <1>2, <1>4, <2>1 DEF BecomeTapping
<1>5. CASE TickIgnored \/ PassThrough \/ TapReleased \/ KeyDuringTap \/ TapAgain \/ KeyAfterTap
  BY <1>2, <1>5 DEF TickIgnored, PassThrough, TapReleased, KeyDuringTap, TapAgain, KeyAfterTap
<1>6. CASE StartTapping \/ TapInterrupted \/ OtherTapAfterTap
  BY <1>4, <1>6 DEF StartTapping, TapInterrupted, OtherTapAfterTap
<1>7. CASE FirstTap \/ NestedTap \/ OtherKeyWaits \/ HoldTimeout \/ ReleaseTimeout
  BY <1>3, <1>7 DEF FirstTap, NestedTap, OtherKeyWaits, HoldTimeout, ReleaseTimeout
<1>8. CASE EarlierKeyReleased
  BY <1>2, <1>3, <1>8 DEF EarlierKeyReleased
<1> QED  BY <1>1, <1>5, <1>6, <1>7, <1>8 DEF ProcessTapping

\* Without a layer-tap, action_tapping_process's "clear all in case of overflow"
\* is true: clear_keyboard lets go of everything that is registered.
THEOREM OverflowLosesNoLayer ==
  ASSUME \A b \in Builds : b.layerTap = {}
  PROVE  Spec => OverflowClearsAll
<1>1. TypeInv /\ [Next]_vars
        => [pc = "event" /\ buf # <<>> /\ buf' = <<>>
              => \A k \in Key : registered'[k] = {}]_vars
  <2> SUFFICES ASSUME TypeInv, Next, pc = "event", buf # <<>>, buf' = <<>>, NEW k \in Key
               PROVE  registered'[k] = {}
    OBVIOUS
  <2>1. k \notin LayerTap
    BY DEF TypeInv, TypeOK, LayerTap
  <2>2. PICK reg : registered' = Cleared(reg)
    BY DroppedByOverflow
  <2> QED  BY <2>1, <2>2 DEF Cleared
<1>2. TypeInv /\ [Next]_vars => TypeInv'
  <2> SUFFICES ASSUME TypeInv, [Next]_vars PROVE TypeInv'
    OBVIOUS
  <2>1. CASE UNCHANGED vars
    BY <2>1 DEF TypeInv, TypeOK, vars
  <2> QED  BY <2>1, EventType, ProcessTappingType DEF Next
<1> QED  BY InitType, <1>1, <1>2, PTL DEF Spec, OverflowClearsAll

\* The time stamps of all that waits fit into one period of the timer, no key
\* changes while the drain has left entries behind, and an overflow leaves
\* nothing on.  A key that overtakes what waits, and a layer that outlives an
\* overflow, are what breaks OneAction and NothingStuck.
LEMMA AlwaysSettled ==
  ASSUME NoWrap, ~Overtaking
  PROVE  Spec /\ OverflowClearsAll => []Settled
<1>1. Init => Settled
  BY SettledInit
<1>2. Settled /\ [Next]_vars /\ [OverflowClears]_vars => Settled'
  BY SettledNext
<1>3. [OverflowClears]_vars <=> [pc = "event" /\ buf # <<>> /\ buf' = <<>>
       => \A k \in Key : registered'[k] = {}]_vars
  BY DEF OverflowClears
<1> QED  BY <1>1, <1>2, <1>3, PTL DEF Spec, OverflowClearsAll

\* Whatever waited, timed out or was interrupted in between, the two
\* process_record calls of one press agree on its tap count: a key is never
\* held down with its tap and its hold action at once.
THEOREM OneActionAtATime ==
  ASSUME NoWrap, ~Overtaking
  PROVE  Spec /\ OverflowClearsAll => []OneAction
<1>1. Settled => OneAction
  BY SettledFacts
<1> QED  BY <1>1, AlwaysSettled, PTL

\* When every switch is open and nothing waits, no key, modifier or layer is
\* left registered, for every keymap, pair of terms and buffer size.
THEOREM NothingStaysOn ==
  ASSUME NoWrap, ~Overtaking
  PROVE  Spec /\ OverflowClearsAll => []NothingStuck
<1>1. Settled => NothingStuck
  BY SettledFacts
<1> QED  BY <1>1, AlwaysSettled, PTL

-----------------------------------------------------------------------------
(* The transitions of one key in a line of records *)

\* Induction along a line, without a predicate to instantiate: a set of positions
\* that is not all of them misses a least one.
LEMMA LeastElement ==
  ASSUME NEW T, T \subseteq Nat, T # {}
  PROVE  \E x \in T : \A y \in T : x <= y
<1> DEFINE R == OpToRel(<, Nat)
<1>1. IsWellFoundedOn(R, Nat)
  BY NatLessThanWellFounded, Zenon
<1>2. \A x, y \in Nat : <<x, y>> \in R <=> x < y
  BY Zenon DEF OpToRel
<1> HIDE DEF R
<1>3. \E x \in T : \A y \in T : ~ (<<y, x>> \in R)
  BY <1>1, WFMin, Zenon
<1>4. PICK x \in T : \A y \in T : ~ (<<y, x>> \in R)
  BY <1>3
<1>5. \A y \in T : ~(y < x)
  BY <1>2, <1>4
<1>6. \A y \in T : x <= y
  BY <1>5
<1> QED  BY <1>6

LEMMA Upwards ==
  ASSUME NEW n \in Nat, NEW S, 0 \in S, \A i \in 0 .. n - 1 : i \in S => i + 1 \in S
  PROVE  \A i \in 0 .. n : i \in S
<1> DEFINE T == {i \in 0 .. n : i \notin S}
<1> SUFFICES ASSUME T # {} PROVE FALSE
  OBVIOUS
<1>1. T \subseteq Nat
  OBVIOUS
<1>2. PICK x \in T : \A y \in T : x <= y
  BY <1>1, LeastElement
<1>3. x \in 0 .. n /\ x \notin S /\ x # 0
  OBVIOUS
<1>4. x - 1 \in 0 .. n - 1 /\ x - 1 \notin T
  BY <1>2, <1>3
<1>5. x - 1 \in S
  BY <1>4
<1>6. (x - 1) + 1 \in S
  BY <1>4, <1>5
<1> QED  BY <1>3, <1>6

LEMMA AppendBehind ==
  ASSUME NEW S, NEW p \in Seq(S), NEW q \in Seq(S), NEW x \in S
  PROVE  Append(q, x) \in Seq(S) /\ Append(p \o q, x) = p \o Append(q, x)
<1> DEFINE e == <<x>>
<1>1. p \o q \in Seq(S) /\ Append(q, x) \in Seq(S) /\ e \in Seq(S)
  BY ConcatProperties, AppendProperties
<1>2. Append(p \o q, x) = (p \o q) \o e /\ Append(q, x) = q \o e
  BY <1>1, AppendIsConcat
<1> HIDE DEF e
<1>3. (p \o q) \o e = p \o (q \o e)
  BY <1>1, ConcatAssociative
<1> QED  BY <1>1, <1>2, <1>3

LEMMA TransitionBehind ==
  ASSUME NEW p \in Seq(BOOLEAN), NEW q \in Seq(BOOLEAN), NEW x \in BOOLEAN
  PROVE  Append(q, x) \in Seq(BOOLEAN) /\ Append(p \o q, x) = p \o Append(q, x)
<1> DEFINE e == Append(q, x)
           u == Append(p \o q, x)
           v == p \o e
           m == Len(p)
           n == Len(q)
<1>1. /\ e \in Seq(BOOLEAN) /\ Len(e) = n + 1 /\ m \in Nat /\ n \in Nat
      /\ \A i \in 1 .. n : e[i] = q[i]
      /\ e[n + 1] = x
  BY AppendProperties
<1>2. /\ u \in Seq(BOOLEAN) /\ Len(u) = m + n + 1 /\ u[m + n + 1] = x
      /\ \A i \in 1 .. m + n : u[i] = IF i <= m THEN p[i] ELSE q[i - m]
  OBVIOUS
<1>3. /\ v \in Seq(BOOLEAN) /\ Len(v) = m + n + 1
      /\ \A i \in 1 .. m + n + 1 : v[i] = IF i <= m THEN p[i] ELSE e[i - m]
  <2> HIDE DEF e
  <2> QED  BY <1>1
<1> HIDE DEF e, u, v, m, n
<1>4. \A i \in 1 .. m + n + 1 : u[i] = v[i]
  <2> SUFFICES ASSUME NEW i \in 1 .. m + n + 1 PROVE u[i] = v[i]
    OBVIOUS
  <2>1. CASE i = m + n + 1
    <3>1. i - m = n + 1 /\ ~(i <= m)
      BY <1>1, <2>1
    <3> QED  BY <1>1, <1>2, <1>3, <2>1, <3>1
  <2>2. CASE i # m + n + 1
    <3>1. i \in 1 .. m + n /\ (~(i <= m) => i - m \in 1 .. n)
      BY <1>1, <2>2
    <3> QED  BY <1>1, <1>2, <1>3, <3>1
  <2> QED  BY <2>1, <2>2
<1>5. u = v
  BY <1>2, <1>3, <1>4, SeqEqual
<1> QED  BY <1>1, <1>5 DEF e, u, v

\* The equation upTo solves in Transitions.
StepTo(w, k, f, i) ==
  IF i = 0 THEN <<>>
  ELSE IF w[i].key = k THEN Append(f[i - 1], w[i].pressed) ELSE f[i - 1]

LEMMA StepsExist ==
  ASSUME NEW w, NEW k, NEW n \in Nat
  PROVE  \E f : f = [i \in 0 .. n |-> StepTo(w, k, f, i)]
<1> DEFINE S == {m \in Nat : \E f : f = [i \in 0 .. m |-> StepTo(w, k, f, i)]}
<1>1. 0 \in S
  <2> DEFINE f == [i \in 0 .. 0 |-> <<>>]
  <2>1. f = [i \in 0 .. 0 |-> StepTo(w, k, f, i)]
    BY DEF StepTo
  <2> QED  BY <2>1
<1>2. \A m \in 0 .. n - 1 : m \in S => m + 1 \in S
  <2> SUFFICES ASSUME NEW m \in 0 .. n - 1, m \in S PROVE m + 1 \in S
    OBVIOUS
  <2>1. PICK f : f = [i \in 0 .. m |-> StepTo(w, k, f, i)]
    OBVIOUS
  <2> DEFINE g == [i \in 0 .. m + 1 |-> IF i = m + 1 THEN StepTo(w, k, f, i) ELSE f[i]]
  <2>2. \A i \in 0 .. m : g[i] = f[i] /\ f[i] = StepTo(w, k, f, i)
    <3> SUFFICES ASSUME NEW i \in 0 .. m PROVE g[i] = f[i] /\ f[i] = StepTo(w, k, f, i)
      OBVIOUS
    <3>1. i # m + 1 /\ i \in 0 .. m + 1
      OBVIOUS
    <3>2. g[i] = f[i]
      BY <3>1
    <3>3. f[i] = StepTo(w, k, f, i)
      BY <2>1, Zenon
    <3> QED  BY <3>2, <3>3
  <2>3. g[m + 1] = StepTo(w, k, f, m + 1)
    OBVIOUS
  <2>4. ASSUME NEW i \in 0 .. m + 1 PROVE StepTo(w, k, g, i) = StepTo(w, k, f, i)
    <3> HIDE DEF g
    <3>1. CASE i = 0
      BY <3>1 DEF StepTo
    <3>2. CASE i # 0
      <4>1. i - 1 \in 0 .. m
        BY <3>2
      <4>2. g[i - 1] = f[i - 1]
        BY <2>2, <4>1
      <4> QED  BY <4>2 DEF StepTo
    <3> QED  BY <3>1, <3>2
  <2>5. ASSUME NEW i \in 0 .. m + 1 PROVE g[i] = StepTo(w, k, g, i)
    <3>1. CASE i = m + 1
      BY <2>3, <2>4, <3>1
    <3>2. CASE i # m + 1
      <4>1. i \in 0 .. m
        BY <3>2
      <4> HIDE DEF g
      <4> QED  BY <2>2, <2>4, <4>1
    <3> QED  BY <3>1, <3>2
  <2>6. g = [i \in 0 .. m + 1 |-> StepTo(w, k, g, i)]
    <3> DEFINE h == [i \in 0 .. m + 1 |-> StepTo(w, k, g, i)]
    <3>1. DOMAIN g = 0 .. m + 1 /\ g = [i \in 0 .. m + 1 |-> g[i]]
      OBVIOUS
    <3>2. \A i \in 0 .. m + 1 : g[i] = h[i]
      BY <2>5
    <3> HIDE DEF g
    <3> QED  BY <3>1, <3>2
  <2>7. m + 1 \in Nat
    OBVIOUS
  <2> HIDE DEF g
  <2>8. \E f0 : f0 = [i \in 0 .. m + 1 |-> StepTo(w, k, f0, i)]
    BY <2>6
  <2> QED  BY <2>7, <2>8
<1> HIDE DEF S
<1>3. n \in S
  BY <1>1, <1>2, Upwards
<1> QED  BY <1>3 DEF S

LEMMA TransitionsSteps ==
  ASSUME NEW w \in Seq(Record), NEW k
  PROVE  \E f : /\ f = [i \in 0 .. Len(w) |-> StepTo(w, k, f, i)]
                /\ Transitions(w, k) = f[Len(w)]
<1>1. Len(w) \in Nat
  OBVIOUS
<1>2. \E f : f = [i \in 0 .. Len(w) |-> StepTo(w, k, f, i)]
  BY <1>1, StepsExist
<1> DEFINE f == CHOOSE f : f = [i \in 0 .. Len(w) |-> StepTo(w, k, f, i)]
<1>3. f = [i \in 0 .. Len(w) |-> StepTo(w, k, f, i)]
  BY <1>2
<1>4. Transitions(w, k) = f[Len(w)]
  BY DEF Transitions, StepTo
<1> QED  BY <1>3, <1>4

LEMMA TransitionsType ==
  ASSUME NEW w \in Seq(Record), NEW k
  PROVE  Transitions(w, k) \in Seq(BOOLEAN)
<1>1. Len(w) \in Nat /\ \A i \in 1 .. Len(w) : w[i].pressed \in BOOLEAN
  BY SeqParts, RecordType
<1>2. PICK f : /\ f = [i \in 0 .. Len(w) |-> StepTo(w, k, f, i)]
               /\ Transitions(w, k) = f[Len(w)]
  BY TransitionsSteps
<1> DEFINE S == {i \in 0 .. Len(w) : f[i] \in Seq(BOOLEAN)}
<1>3. 0 \in S
  BY <1>1, <1>2 DEF StepTo
<1>4. \A i \in 0 .. Len(w) - 1 : i \in S => i + 1 \in S
  <2> SUFFICES ASSUME NEW i \in 0 .. Len(w) - 1, i \in S PROVE i + 1 \in S
    OBVIOUS
  <2>1. i + 1 \in 0 .. Len(w) /\ i + 1 # 0 /\ (i + 1) - 1 = i /\ i + 1 \in 1 .. Len(w)
    BY <1>1
  <2>2. f[i + 1] = IF w[i + 1].key = k THEN Append(f[i], w[i + 1].pressed) ELSE f[i]
    BY <1>2, <2>1 DEF StepTo
  <2>3. f[i + 1] \in Seq(BOOLEAN)
    <3> DEFINE q == f[i]
               x == w[i + 1].pressed
    <3>1. q \in Seq(BOOLEAN) /\ x \in BOOLEAN
      BY <1>1, <2>1
    <3> HIDE DEF q, x
    <3>2. Append(q, x) \in Seq(BOOLEAN)
      BY <3>1, AppendProperties
    <3> QED  BY <2>2, <3>1, <3>2 DEF q, x
  <2> QED  BY <2>1, <2>3
<1> HIDE DEF S
<1>5. Len(w) \in S
  <2>1. \A i \in 0 .. Len(w) : i \in S
    BY <1>1, <1>3, <1>4, Upwards
  <2> QED  BY <1>1, <2>1
<1> QED  BY <1>2, <1>5 DEF S

\* Two lines of the same shape have the same transitions; the second may go on.
LEMMA TransitionsPrefix ==
  ASSUME NEW w \in Seq(Record), NEW v \in Seq(Record), NEW k, Len(w) <= Len(v),
         \A i \in 1 .. Len(w) : v[i].key = w[i].key /\ v[i].pressed = w[i].pressed,
         NEW f, f = [i \in 0 .. Len(v) |-> StepTo(v, k, f, i)]
  PROVE  f[Len(w)] = Transitions(w, k)
<1>1. Len(w) \in Nat /\ Len(v) \in Nat
  BY SeqParts
<1>2. PICK g : /\ g = [i \in 0 .. Len(w) |-> StepTo(w, k, g, i)]
               /\ Transitions(w, k) = g[Len(w)]
  BY TransitionsSteps
<1> DEFINE S == {i \in 0 .. Len(w) : f[i] = g[i]}
<1>3. 0 \in S
  BY <1>1, <1>2 DEF StepTo
<1>4. \A i \in 0 .. Len(w) - 1 : i \in S => i + 1 \in S
  <2> SUFFICES ASSUME NEW i \in 0 .. Len(w) - 1, i \in S PROVE i + 1 \in S
    OBVIOUS
  <2>1. /\ i + 1 \in 0 .. Len(w) /\ i + 1 \in 0 .. Len(v) /\ i + 1 # 0 /\ (i + 1) - 1 = i
        /\ i + 1 \in 1 .. Len(w)
    BY <1>1
  <2>2. f[i + 1] = IF v[i + 1].key = k THEN Append(f[i], v[i + 1].pressed) ELSE f[i]
    BY <2>1 DEF StepTo
  <2>3. g[i + 1] = IF w[i + 1].key = k THEN Append(g[i], w[i + 1].pressed) ELSE g[i]
    BY <1>2, <2>1 DEF StepTo
  <2>4. f[i] = g[i] /\ v[i + 1].key = w[i + 1].key /\ v[i + 1].pressed = w[i + 1].pressed
    BY <2>1
  <2> QED  BY <2>1, <2>2, <2>3, <2>4
<1> HIDE DEF S
<1>5. Len(w) \in S
  <2>1. \A i \in 0 .. Len(w) : i \in S
    BY <1>1, <1>3, <1>4, Upwards
  <2> QED  BY <1>1, <2>1
<1> QED  BY <1>2, <1>5 DEF S

LEMMA TransitionsSame ==
  ASSUME NEW w \in Seq(Record), NEW v \in Seq(Record), SameShape(v, w), NEW k
  PROVE  Transitions(v, k) = Transitions(w, k)
<1>1. PICK f : /\ f = [i \in 0 .. Len(v) |-> StepTo(v, k, f, i)]
               /\ Transitions(v, k) = f[Len(v)]
  BY TransitionsSteps
<1>2. /\ Len(v) = Len(w) /\ Len(w) <= Len(v)
      /\ \A i \in 1 .. Len(w) : v[i].key = w[i].key /\ v[i].pressed = w[i].pressed
  <2>1. Len(v) = Len(w) /\ Len(w) \in Nat
    BY SeqParts DEF SameShape
  <2>2. \A i \in 1 .. Len(w) : v[i].pressed \in BOOLEAN /\ w[i].pressed \in BOOLEAN
    BY <2>1, SeqParts, RecordType
  <2> QED  BY <2>1, <2>2 DEF SameShape
<1>3. f[Len(w)] = Transitions(w, k)
  BY <1>1, <1>2, TransitionsPrefix
<1> QED  BY <1>1, <1>2, <1>3

\* A new record adds its transition at the end, and the first one took its own
\* from the front.
LEMMA TransitionsAppend ==
  ASSUME NEW w \in Seq(Record), NEW r \in Record, NEW k
  PROVE  Transitions(Append(w, r), k) =
           IF r.key = k THEN Append(Transitions(w, k), r.pressed) ELSE Transitions(w, k)
<1> DEFINE v == Append(w, r)
           n == Len(w)
<1>1. /\ v \in Seq(Record) /\ n \in Nat /\ Len(v) = n + 1 /\ v[n + 1] = r
      /\ \A i \in 1 .. n : v[i] = w[i]
  OBVIOUS
<1> HIDE DEF v
<1>2. PICK f : /\ f = [i \in 0 .. Len(v) |-> StepTo(v, k, f, i)]
               /\ Transitions(v, k) = f[Len(v)]
  BY <1>1, TransitionsSteps
<1>3. f[n] = Transitions(w, k)
  <2>1. Len(w) <= Len(v) /\ \A i \in 1 .. Len(w) : v[i].key = w[i].key /\ v[i].pressed = w[i].pressed
    BY <1>1
  <2> QED  BY <1>1, <1>2, <2>1, TransitionsPrefix
<1>4. f[n + 1] = IF v[n + 1].key = k THEN Append(f[n], v[n + 1].pressed) ELSE f[n]
  <2>1. n + 1 \in 0 .. Len(v) /\ n + 1 # 0 /\ (n + 1) - 1 = n
    BY <1>1
  <2> QED  BY <1>2, <2>1 DEF StepTo
<1>5. Transitions(v, k) = f[n + 1]
  BY <1>1, <1>2
<1> QED  BY <1>1, <1>3, <1>4, <1>5 DEF v

LEMMA TransitionsFront ==
  ASSUME NEW w \in Seq(Record), w # <<>>, NEW k
  PROVE  Transitions(w, k) =
           (IF w[1].key = k THEN <<w[1].pressed>> ELSE <<>>) \o Transitions(Tail(w), k)
<1> DEFINE v == Tail(w)
           n == Len(v)
           p == IF w[1].key = k THEN <<w[1].pressed>> ELSE <<>>
<1>1. /\ v \in Seq(Record) /\ n \in Nat /\ Len(w) = n + 1
      /\ \A i \in 1 .. n : v[i] = w[i + 1]
      /\ \A i \in 1 .. n : v[i].pressed \in BOOLEAN
      /\ p \in Seq(BOOLEAN)
  <2>1. v \in Seq(Record) /\ n \in Nat /\ Len(w) = n + 1
    BY TailParts
  <2>2. \A i \in 1 .. n : v[i] = w[i + 1]
    BY <2>1, TailParts
  <2>3. \A i \in 1 .. n : v[i].pressed \in BOOLEAN
    BY <2>1, SeqParts, RecordType
  <2>4. w[1].pressed \in BOOLEAN
    BY TailParts, SeqParts, RecordType
  <2>5. p \in Seq(BOOLEAN)
    <3> DEFINE x == w[1].pressed
    <3> HIDE DEF x
    <3>1. x \in BOOLEAN
      BY <2>4 DEF x
    <3>2. <<x>> \in Seq(BOOLEAN) /\ <<>> \in Seq(BOOLEAN)
      BY <3>1
    <3>3. p = IF w[1].key = k THEN <<x>> ELSE <<>>
      BY DEF x
    <3> HIDE DEF p
    <3> QED  BY <3>2, <3>3
  <2> HIDE DEF p, v, n
  <2> QED  BY <2>1, <2>2, <2>3, <2>5
<1>2. PICK f : /\ f = [i \in 0 .. Len(w) |-> StepTo(w, k, f, i)]
               /\ Transitions(w, k) = f[Len(w)]
  BY TransitionsSteps
<1> HIDE DEF v
<1>3. PICK g : /\ g = [i \in 0 .. n |-> StepTo(v, k, g, i)]
               /\ Transitions(v, k) = g[n]
  BY <1>1, TransitionsSteps
<1> DEFINE S == {i \in 0 .. n : g[i] \in Seq(BOOLEAN) /\ f[i + 1] = p \o g[i]}
<1>4. 0 \in S
  <2>1. g[0] = <<>>
    BY <1>1, <1>3 DEF StepTo
  <2>2. f[0] = <<>>
    BY <1>1, <1>2 DEF StepTo
  <2>3. f[1] = IF w[1].key = k THEN Append(f[0], w[1].pressed) ELSE f[0]
    <3>1. 1 \in 0 .. Len(w) /\ 1 - 1 = 0
      BY <1>1
    <3> QED  BY <1>2, <3>1 DEF StepTo
  <2>4. f[0 + 1] = p \o g[0]
    <3>1. f[1] = p
      BY <2>2, <2>3
    <3> HIDE DEF p
    <3>2. p \o <<>> = p
      BY <1>1, ConcatEmptySeq
    <3>3. 0 + 1 = 1
      OBVIOUS
    <3> QED  BY <2>1, <3>1, <3>2, <3>3
  <2>5. 0 \in 0 .. n
    BY <1>1
  <2>6. g[0] \in Seq(BOOLEAN)
    BY <2>1
  <2> HIDE DEF p, n
  <2> QED  BY <2>4, <2>5, <2>6
<1>5. \A i \in 0 .. n - 1 : i \in S => i + 1 \in S
  <2> SUFFICES ASSUME NEW i \in 0 .. n - 1, i \in S PROVE i + 1 \in S
    OBVIOUS
  <2>1. /\ i + 1 \in 0 .. n /\ (i + 1) + 1 \in 0 .. Len(w) /\ i + 1 # 0 /\ (i + 1) - 1 = i
        /\ i + 1 \in 1 .. n /\ (i + 1) + 1 # 0 /\ ((i + 1) + 1) - 1 = i + 1
    BY <1>1
  <2>2. g[i + 1] = IF v[i + 1].key = k THEN Append(g[i], v[i + 1].pressed) ELSE g[i]
    BY <1>3, <2>1 DEF StepTo
  <2>3. f[(i + 1) + 1] = IF w[(i + 1) + 1].key = k
                         THEN Append(f[i + 1], w[(i + 1) + 1].pressed) ELSE f[i + 1]
    BY <1>2, <2>1 DEF StepTo
  <2>4. w[(i + 1) + 1] = v[i + 1] /\ v[i + 1].pressed \in BOOLEAN
    BY <1>1, <2>1
  <2>5. g[i] \in Seq(BOOLEAN) /\ f[i + 1] = p \o g[i]
    OBVIOUS
  <2> DEFINE x == v[i + 1].pressed
             q == g[i]
  <2> HIDE DEF p, x, q
  <2>6. q \in Seq(BOOLEAN) /\ x \in BOOLEAN /\ p \in Seq(BOOLEAN)
    BY <1>1, <2>4, <2>5 DEF q, x
  <2>7. Append(q, x) \in Seq(BOOLEAN) /\ Append(p \o q, x) = p \o Append(q, x)
    BY <2>6, TransitionBehind
  <2>8. g[i + 1] \in Seq(BOOLEAN) /\ f[(i + 1) + 1] = p \o g[i + 1]
    BY <2>2, <2>3, <2>4, <2>5, <2>6, <2>7 DEF q, x
  <2> QED  BY <2>1, <2>8
<1> HIDE DEF S
<1>6. n \in S
  <2> HIDE DEF n
  <2>1. n \in Nat
    BY <1>1
  <2>2. \A i \in 0 .. n : i \in S
    BY <1>4, <1>5, <2>1, Upwards
  <2> QED  BY <2>1, <2>2
<1>7. f[n + 1] = p \o g[n]
  BY <1>6 DEF S
<1> QED  BY <1>1, <1>2, <1>3, <1>7 DEF v

LEMMA TransitionsNone ==
  ASSUME NEW w \in Seq(Record), NEW k, \A i \in 1 .. Len(w) : w[i].key # k
  PROVE  Transitions(w, k) = <<>>
<1>1. Len(w) \in Nat
  BY SeqParts
<1>2. PICK f : /\ f = [i \in 0 .. Len(w) |-> StepTo(w, k, f, i)]
               /\ Transitions(w, k) = f[Len(w)]
  BY TransitionsSteps
<1> DEFINE S == {i \in 0 .. Len(w) : f[i] = <<>>}
<1>3. 0 \in S
  BY <1>1, <1>2 DEF StepTo
<1>4. \A i \in 0 .. Len(w) - 1 : i \in S => i + 1 \in S
  <2> SUFFICES ASSUME NEW i \in 0 .. Len(w) - 1, i \in S PROVE i + 1 \in S
    OBVIOUS
  <2>1. i + 1 \in 0 .. Len(w) /\ i + 1 # 0 /\ (i + 1) - 1 = i /\ i + 1 \in 1 .. Len(w)
    BY <1>1
  <2>2. f[i + 1] = IF w[i + 1].key = k THEN Append(f[i], w[i + 1].pressed) ELSE f[i]
    BY <1>2, <2>1 DEF StepTo
  <2> QED  BY <2>1, <2>2
<1> HIDE DEF S
<1>5. Len(w) \in S
  <2>1. \A i \in 0 .. Len(w) : i \in S
    BY <1>1, <1>3, <1>4, Upwards
  <2> QED  BY <1>1, <2>1
<1> QED  BY <1>2, <1>5 DEF S

-----------------------------------------------------------------------------
(* As many transitions are owed as records wait *)

\* KeyDelivery's Owed, of the records w.
OwedOf(w) == UNION {{k} \X DOMAIN Transitions(w, k) : k \in Key}

LEMMA OwedNone == \A w \in Seq(Record) : Len(w) = 0 => OwedOf(w) = {}
<1> SUFFICES ASSUME NEW w \in Seq(Record), Len(w) = 0 PROVE OwedOf(w) = {}
  OBVIOUS
<1>1. ASSUME NEW k \in Key PROVE DOMAIN Transitions(w, k) = {}
  <2>1. \A i \in 1 .. Len(w) : w[i].key # k
    OBVIOUS
  <2>2. Transitions(w, k) = <<>>
    BY <2>1, TransitionsNone
  <2> QED  BY <2>2
<1> QED  BY <1>1 DEF OwedOf

\* One more record, one more transition.
LEMMA OwedAppend ==
  ASSUME NEW w \in Seq(Record), NEW r \in Record
  PROVE  \E p : p \notin OwedOf(w) /\ OwedOf(Append(w, r)) = OwedOf(w) \cup {p}
<1> DEFINE s == Transitions(w, r.key)
           n == Len(s)
           p == <<r.key, n + 1>>
           v == Append(w, r)
<1>1. r.key \in Key /\ r.pressed \in BOOLEAN
  BY RecordType
<1>2. \A k \in Key : Transitions(v, k) = IF r.key = k THEN Append(Transitions(w, k), r.pressed)
                                                      ELSE Transitions(w, k)
  BY TransitionsAppend
<1>3. s \in Seq(BOOLEAN)
  BY TransitionsType
<1>4. n \in Nat /\ DOMAIN s = 1 .. n /\ DOMAIN Append(s, r.pressed) = (1 .. n) \cup {n + 1}
  <2> HIDE DEF s
  <2> QED  BY <1>1, <1>3
<1>5. \A k \in Key : DOMAIN Transitions(v, k) = IF r.key = k THEN DOMAIN Transitions(w, k) \cup {n + 1}
                                                            ELSE DOMAIN Transitions(w, k)
  BY <1>2, <1>4
<1>6. p \notin OwedOf(w)
  <2>1. n + 1 \notin DOMAIN Transitions(w, r.key)
    BY <1>4
  <2> HIDE DEF n, s
  <2> QED  BY <2>1 DEF OwedOf
<1> HIDE DEF n, s, v
<1>7. OwedOf(v) = OwedOf(w) \cup {p}
  <2>1. ASSUME NEW x \in OwedOf(v) PROVE x \in OwedOf(w) \cup {p}
    <3>1. PICK k \in Key : x \in {k} \X DOMAIN Transitions(v, k)
      BY <2>1 DEF OwedOf
    <3>2. CASE x \in {k} \X DOMAIN Transitions(w, k)
      BY <3>2 DEF OwedOf
    <3>3. CASE x \notin {k} \X DOMAIN Transitions(w, k)
      <4>1. PICK i \in DOMAIN Transitions(v, k) : x = <<k, i>>
        BY <3>1
      <4>2. i \notin DOMAIN Transitions(w, k)
        BY <3>3, <4>1
      <4>3. r.key = k /\ i = n + 1
        BY <1>5, <4>2
      <4> QED  BY <4>1, <4>3
    <3> QED  BY <3>2, <3>3
  <2>2. ASSUME NEW x \in OwedOf(w) PROVE x \in OwedOf(v)
    <3>1. PICK k \in Key : x \in {k} \X DOMAIN Transitions(w, k)
      BY <2>2 DEF OwedOf
    <3>2. x \in {k} \X DOMAIN Transitions(v, k)
      BY <1>5, <3>1
    <3> QED  BY <3>2 DEF OwedOf
  <2>3. p \in OwedOf(v)
    <3>1. p \in {r.key} \X DOMAIN Transitions(v, r.key)
      BY <1>1, <1>5
    <3> QED  BY <1>1, <3>1 DEF OwedOf
  <2> QED  BY <2>1, <2>2, <2>3
<1> QED  BY <1>6, <1>7 DEF v

LEMMA OwedCount ==
  ASSUME NEW w \in Seq(Record)
  PROVE  Cardinality(OwedOf(w)) = Len(w)
<1> DEFINE part(i) == SubSeq(w, 1, i)
           S == {i \in 0 .. Len(w) : /\ IsFiniteSet(OwedOf(part(i)))
                                     /\ Cardinality(OwedOf(part(i))) = i}
<1>1. Len(w) \in Nat /\ \A i \in 1 .. Len(w) : w[i] \in Record
  BY SeqParts
<1>2. 0 \in S
  <2>1. part(0) \in Seq(Record) /\ Len(part(0)) = 0
    OBVIOUS
  <2>2. OwedOf(part(0)) = {}
    BY <2>1, OwedNone
  <2>3. IsFiniteSet({}) /\ Cardinality({}) = 0
    BY FS_EmptySet
  <2> HIDE DEF part
  <2>4. 0 \in 0 .. Len(w)
    BY <1>1
  <2> QED  BY <2>2, <2>3, <2>4
<1>3. \A i \in 0 .. Len(w) - 1 : i \in S => i + 1 \in S
  <2> SUFFICES ASSUME NEW i \in 0 .. Len(w) - 1, i \in S PROVE i + 1 \in S
    OBVIOUS
  <2> DEFINE u == part(i)
             r == w[i + 1]
  <2>1. i + 1 \in 1 .. Len(w) /\ i + 1 \in 0 .. Len(w)
    BY <1>1
  <2>2. r \in Record
    BY <1>1, <2>1
  <2>3. u \in Seq(Record) /\ part(i + 1) = Append(u, r)
    <3> DEFINE v == part(i + 1)
               z == Append(u, r)
    <3>1. /\ u \in Seq(Record) /\ Len(u) = i /\ \A j \in 1 .. i : u[j] = w[j]
          /\ v \in Seq(Record) /\ Len(v) = i + 1 /\ \A j \in 1 .. i + 1 : v[j] = w[j]
      BY <1>1, <2>1
    <3> HIDE DEF u, v
    <3>2. /\ z \in Seq(Record) /\ Len(z) = i + 1 /\ z[i + 1] = r
          /\ \A j \in 1 .. i : z[j] = u[j]
      BY <2>2, <3>1
    <3> HIDE DEF z
    <3>3. Len(v) = Len(z) /\ \A j \in 1 .. Len(z) : v[j] = z[j]
      BY <3>1, <3>2
    <3>4. v = z
      BY <3>1, <3>2, <3>3, LinesEqual
    <3> QED  BY <3>1, <3>4 DEF v, z
  <2>4. IsFiniteSet(OwedOf(u)) /\ Cardinality(OwedOf(u)) = i
    OBVIOUS
  <2> HIDE DEF u, r
  <2>5. PICK p : p \notin OwedOf(u) /\ OwedOf(Append(u, r)) = OwedOf(u) \cup {p}
    BY <2>2, <2>3, OwedAppend
  <2>6. /\ IsFiniteSet(OwedOf(u) \cup {p})
        /\ Cardinality(OwedOf(u) \cup {p}) = i + 1
    BY <2>4, <2>5, FS_AddElement
  <2> QED  BY <2>1, <2>3, <2>5, <2>6
<1>4. Len(w) \in S
  <2> HIDE DEF S
  <2>1. \A i \in 0 .. Len(w) : i \in S
    BY <1>1, <1>2, <1>3, Upwards
  <2> QED  BY <1>1, <2>1
<1>5. part(Len(w)) = w
  BY <1>1
<1> QED  BY <1>4, <1>5

-----------------------------------------------------------------------------
(* What a step does to the transitions that wait *)

\* The line behind the press of the tapping key that it may wait for.
Unseen(t, w) == (IF UnsettledPress(t) THEN <<t>> ELSE <<>>) \o w

LEMMA WaitingIs == Waiting = Unseen(tapping, Line) /\ Waiting' = Unseen(tapping', Line')
BY DEF Waiting, Unseen, UnsettledPress, Line, IsEvent

LEMMA UnseenType ==
  ASSUME NEW t \in Tapper, NEW w \in Seq(Record)
  PROVE  /\ Unseen(t, w) \in Seq(Record)
         /\ ~UnsettledPress(t) => Unseen(t, w) = w
         /\ UnsettledPress(t) => /\ Unseen(t, w) # <<>> /\ Unseen(t, w)[1] = t
                                /\ Tail(Unseen(t, w)) = w /\ Len(Unseen(t, w)) = Len(w) + 1
<1>1. CASE ~UnsettledPress(t)
  <2>1. <<>> \o w = w
    BY ConcatEmptySeq
  <2>2. Unseen(t, w) = w
    BY <1>1, <2>1 DEF Unseen
  <2> QED  BY <1>1, <2>2
<1>2. CASE UnsettledPress(t)
  <2>1. t \in Record
    BY <1>2, TapperType DEF UnsettledPress
  <2>2. Unseen(t, w) = <<t>> \o w
    BY <1>2 DEF Unseen
  <2>3. /\ <<t>> \o w \in Seq(Record) /\ <<t>> \o w # <<>> /\ (<<t>> \o w)[1] = t
        /\ Len(<<t>> \o w) = Len(w) + 1
    BY <2>1
  <2>4. Tail(<<t>> \o w) = w
    <3> DEFINE u == <<t>> \o w
               v == Tail(u)
    <3>1. /\ u \in Seq(Record) /\ Len(w) \in Nat /\ Len(u) = Len(w) + 1
          /\ \A i \in 1 .. Len(w) : u[i + 1] = w[i]
      BY <2>1
    <3> HIDE DEF u
    <3>2. v \in Seq(Record) /\ Len(v) = Len(w) /\ \A i \in 1 .. Len(w) : v[i] = u[i + 1]
      BY <3>1
    <3> HIDE DEF v
    <3>3. v = w
      BY <3>1, <3>2, LinesEqual
    <3> QED  BY <3>3 DEF u, v
  <2> QED  BY <1>2, <2>2, <2>3, <2>4
<1> QED  BY <1>1, <1>2

LEMMA UnseenTransitions ==
  ASSUME NEW t \in Tapper, NEW w \in Seq(Record), NEW k
  PROVE  /\ Transitions(w, k) \in Seq(BOOLEAN)
         /\ Transitions(Unseen(t, w), k) = IF UnsettledPress(t) /\ t.key = k
                                           THEN <<TRUE>> \o Transitions(w, k)
                                           ELSE Transitions(w, k)
<1> DEFINE u == Unseen(t, w)
<1>1. Transitions(w, k) \in Seq(BOOLEAN)
  BY TransitionsType
<1>2. CASE ~UnsettledPress(t)
  BY <1>1, <1>2, UnseenType
<1>3. CASE UnsettledPress(t)
  <2>1. u \in Seq(Record) /\ u # <<>> /\ u[1] = t /\ Tail(u) = w
    BY <1>3, UnseenType
  <2>2. t.pressed = TRUE
    <3>1. t \in Record
      BY <1>3, TapperType DEF UnsettledPress
    <3> QED  BY <1>3, <3>1, RecordType DEF UnsettledPress
  <2> HIDE DEF u
  <2>3. Transitions(u, k) = (IF u[1].key = k THEN <<u[1].pressed>> ELSE <<>>) \o Transitions(Tail(u), k)
    BY <2>1, TransitionsFront
  <2>4. <<>> \o Transitions(w, k) = Transitions(w, k)
    BY <1>1, ConcatEmptySeq
  <2>5. Transitions(u, k) = (IF t.key = k THEN <<TRUE>> ELSE <<>>) \o Transitions(w, k)
    BY <2>1, <2>2, <2>3
  <2>6. Transitions(u, k) = IF t.key = k THEN <<TRUE>> \o Transitions(w, k) ELSE Transitions(w, k)
    BY <2>4, <2>5
  <2> QED  BY <1>1, <1>3, <2>6 DEF u
<1> QED  BY <1>2, <1>3

\* What a step may do with what key k is owed: nothing, while another key's press
\* may interrupt it, or hand the first transition over.
Interrupted(k) ==
  \E j \in Key \ {k} : Transitions(Waiting, j) # <<>> /\ Head(Transitions(Waiting, j))

LetGoAtMost(k, reg) ==
  /\ reg[k] # {} => registered[k] # {}
  /\ registered[k] # {} /\ reg[k] = {} => Interrupted(k)

StaysOwed(k) ==
  /\ Transitions(Waiting', k) = Transitions(Waiting, k)
  /\ LetGoAtMost(k, registered')

HandedOver(k) ==
  /\ Transitions(Waiting, k) # <<>>
  /\ Transitions(Waiting', k) = Tail(Transitions(Waiting, k))
  /\ registered'[k] # {} <=> Head(Transitions(Waiting, k))

OneStepEach == UNCHANGED matrix /\ \A k \in Key : StaysOwed(k) \/ HandedOver(k)

\* More waits than the tapping key and a full buffer, and all of it is lost.
AllForgotten ==
  /\ Len(Waiting) > BufferSize /\ Waiting' = <<>>
  /\ UNCHANGED matrix /\ \A k \in Key : registered'[k] = {}

Mapped == OneStepEach \/ AllForgotten

LEMMA MappedEach ==
  ASSUME UNCHANGED matrix, \A k \in Key : StaysOwed(k) \/ HandedOver(k)
  PROVE  Mapped
BY DEF Mapped, OneStepEach

LEMMA KeptDown ==
  ASSUME NEW k, NEW reg, reg[k] = registered[k]
  PROVE  LetGoAtMost(k, reg)
BY DEF LetGoAtMost

LEMMA PopFront ==
  ASSUME NEW x \in BOOLEAN, NEW s \in Seq(BOOLEAN)
  PROVE  <<x>> \o s # <<>> /\ Head(<<x>> \o s) = x /\ Tail(<<x>> \o s) = s
<1> DEFINE u == <<x>> \o s
           v == Tail(u)
<1>1. /\ u \in Seq(BOOLEAN) /\ Len(s) \in Nat /\ Len(u) = Len(s) + 1 /\ u[1] = x
      /\ \A i \in 1 .. Len(s) : u[i + 1] = s[i]
  OBVIOUS
<1> HIDE DEF u
<1>2. u # <<>> /\ Head(u) = x
  BY <1>1
<1>3. v \in Seq(BOOLEAN) /\ Len(v) = Len(s) /\ \A i \in 1 .. Len(s) : v[i] = u[i + 1]
  BY <1>1
<1> HIDE DEF v
<1>4. \A i \in 1 .. Len(v) : v[i] = s[i]
  BY <1>1, <1>3
<1>5. v = s
  BY <1>3, <1>4, SeqEqual
<1> QED  BY <1>2, <1>5 DEF u, v

\* What is left when the first record of line w is gone: v.
LEMMA LineFront ==
  ASSUME NEW w \in Seq(Record), w # <<>>, NEW v \in Seq(Record), SameShape(v, Tail(w)), NEW k
  PROVE  /\ Transitions(v, k) \in Seq(BOOLEAN) /\ w[1].pressed \in BOOLEAN
         /\ Transitions(w, k) = IF w[1].key = k THEN <<w[1].pressed>> \o Transitions(v, k)
                                                ELSE Transitions(v, k)
<1>1. Tail(w) \in Seq(Record) /\ w[1] \in Record
  BY TailParts, SeqParts
<1>2. Transitions(v, k) = Transitions(Tail(w), k)
  BY <1>1, TransitionsSame
<1>3. Transitions(v, k) \in Seq(BOOLEAN) /\ w[1].pressed \in BOOLEAN
  BY <1>1, TransitionsType, RecordType
<1>4. Transitions(w, k) = (IF w[1].key = k THEN <<w[1].pressed>> ELSE <<>>) \o Transitions(v, k)
  BY <1>2, TransitionsFront
<1>5. <<>> \o Transitions(v, k) = Transitions(v, k)
  BY <1>3, ConcatEmptySeq
<1> QED  BY <1>3, <1>4, <1>5

\* If it is a record of key k, it is the first of its transitions.
LEMMA OwnFront ==
  ASSUME NEW w \in Seq(Record), w # <<>>, NEW v \in Seq(Record), SameShape(v, Tail(w)),
         NEW k, w[1].key = k
  PROVE  /\ Transitions(w, k) # <<>>
         /\ Transitions(v, k) = Tail(Transitions(w, k))
         /\ Head(Transitions(w, k)) = w[1].pressed
<1> DEFINE s == Transitions(v, k)
           x == w[1].pressed
<1>1. s \in Seq(BOOLEAN) /\ x \in BOOLEAN /\ Transitions(w, k) = <<x>> \o s
  BY LineFront
<1> HIDE DEF s, x
<1>2. <<x>> \o s # <<>> /\ Head(<<x>> \o s) = x /\ Tail(<<x>> \o s) = s
  BY <1>1, PopFront
<1> QED  BY <1>1, <1>2 DEF s, x

\* The tapping key is as it was, and the line keeps its shape.
LEMMA StepWaits ==
  ASSUME TypeInv, UNCHANGED matrix, Line' \in Seq(Record), SameShape(Line', Line),
         tapping' \in Tapper,
         UnsettledPress(tapping') <=> UnsettledPress(tapping),
         UnsettledPress(tapping) => tapping'.key = tapping.key,
         registered' = registered
  PROVE  Mapped
<1>1. tapping \in Tapper /\ Line \in Seq(Record)
  BY StateTypes, LineParts
<1> SUFFICES ASSUME NEW k \in Key PROVE StaysOwed(k)
  BY MappedEach
<1>2. Transitions(Line', k) = Transitions(Line, k)
  BY <1>1, TransitionsSame
<1>3. Transitions(Unseen(tapping, Line), k) = IF UnsettledPress(tapping) /\ tapping.key = k
         THEN <<TRUE>> \o Transitions(Line, k) ELSE Transitions(Line, k)
  BY <1>1, UnseenTransitions
<1> DEFINE t2 == tapping'
           w2 == Line'
<1> HIDE DEF t2, w2
<1>4. t2 \in Tapper /\ w2 \in Seq(Record)
  BY DEF t2, w2
<1>5. Transitions(Unseen(t2, w2), k) = IF UnsettledPress(t2) /\ t2.key = k
         THEN <<TRUE>> \o Transitions(w2, k) ELSE Transitions(w2, k)
  BY <1>4, UnseenTransitions
<1>6. Transitions(Unseen(t2, w2), k) = Transitions(Unseen(tapping, Line), k)
  BY <1>2, <1>3, <1>5 DEF t2, w2
<1> QED  BY <1>6, WaitingIs, KeptDown DEF StaysOwed, t2, w2

\* The tapping key is settled: its press is handed over.
LEMMA StepSettles ==
  ASSUME TypeInv, UNCHANGED matrix, Line' \in Seq(Record), SameShape(Line', Line),
         tapping' \in Tapper, UnsettledPress(tapping), ~UnsettledPress(tapping'),
         registered'[tapping.key] # {},
         \A k \in Key : k # tapping.key => registered'[k] = registered[k]
  PROVE  Mapped
<1>1. tapping \in Tapper /\ Line \in Seq(Record)
  BY StateTypes, LineParts
<1> SUFFICES ASSUME NEW k \in Key PROVE StaysOwed(k) \/ HandedOver(k)
  BY MappedEach
<1>2. Transitions(Line', k) = Transitions(Line, k)
  BY <1>1, TransitionsSame
<1>3. /\ Transitions(Line, k) \in Seq(BOOLEAN)
      /\ Transitions(Unseen(tapping, Line), k) = IF tapping.key = k
         THEN <<TRUE>> \o Transitions(Line, k) ELSE Transitions(Line, k)
  BY <1>1, UnseenTransitions
<1> DEFINE t2 == tapping'
           w2 == Line'
<1> HIDE DEF t2, w2
<1>4. t2 \in Tapper /\ w2 \in Seq(Record) /\ ~UnsettledPress(t2)
  BY DEF t2, w2
<1>5. Transitions(Unseen(t2, w2), k) = Transitions(Line, k)
  BY <1>2, <1>4, UnseenTransitions DEF w2
<1>6. Waiting = Unseen(tapping, Line) /\ Waiting' = Unseen(t2, w2)
  BY WaitingIs DEF t2, w2
<1>7. CASE k = tapping.key
  <2>1. Transitions(Waiting, k) = <<TRUE>> \o Transitions(Line, k)
    BY <1>3, <1>6, <1>7
  <2> DEFINE s == Transitions(Line, k)
  <2> HIDE DEF s
  <2>2. <<TRUE>> \o s # <<>> /\ Head(<<TRUE>> \o s) = TRUE /\ Tail(<<TRUE>> \o s) = s
    <3>1. s \in Seq(BOOLEAN)
      BY <1>3 DEF s
    <3> QED  BY <3>1, PopFront
  <2>3. HandedOver(k)
    BY <1>5, <1>6, <1>7, <2>1, <2>2 DEF HandedOver, s
  <2> QED  BY <2>3
<1>8. CASE k # tapping.key
  <2>1. LetGoAtMost(k, registered')
    BY <1>8, KeptDown
  <2> QED  BY <1>3, <1>5, <1>6, <1>8, <2>1 DEF StaysOwed
<1> QED  BY <1>7, <1>8

\* The first record of the line is handed over.
LEMMA StepHands ==
  ASSUME TypeInv, UNCHANGED matrix, Line # <<>>, Line' \in Seq(Record), SameShape(Line', Tail(Line)),
         tapping' \in Tapper,
         UnsettledPress(tapping') <=> UnsettledPress(tapping),
         UnsettledPress(tapping) => tapping'.key = tapping.key /\ tapping.key # Line[1].key,
         registered'[Line[1].key] # {} <=> Line[1].pressed,
         \A k \in Key : k # Line[1].key => LetGoAtMost(k, registered')
  PROVE  Mapped
<1>1. tapping \in Tapper /\ Line \in Seq(Record)
  BY StateTypes, LineParts
<1> SUFFICES ASSUME NEW k \in Key PROVE StaysOwed(k) \/ HandedOver(k)
  BY MappedEach
<1> DEFINE t2 == tapping'
           w2 == Line'
<1> HIDE DEF t2, w2
<1>2. t2 \in Tapper /\ w2 \in Seq(Record) /\ SameShape(w2, Tail(Line))
  BY DEF t2, w2
<1>3. Transitions(Unseen(tapping, Line), k) = IF UnsettledPress(tapping) /\ tapping.key = k
         THEN <<TRUE>> \o Transitions(Line, k) ELSE Transitions(Line, k)
  BY <1>1, UnseenTransitions
<1>4. Transitions(Unseen(t2, w2), k) = IF UnsettledPress(t2) /\ t2.key = k
         THEN <<TRUE>> \o Transitions(w2, k) ELSE Transitions(w2, k)
  BY <1>2, UnseenTransitions
<1>5. Waiting = Unseen(tapping, Line) /\ Waiting' = Unseen(t2, w2)
  BY WaitingIs DEF t2, w2
<1>6. CASE k = Line[1].key
  <2> DEFINE w == Line
  <2>1. w \in Seq(Record) /\ w # <<>> /\ SameShape(w2, Tail(w)) /\ w[1].key = k
    BY <1>1, <1>2, <1>6
  <2> HIDE DEF w
  <2>2. /\ Transitions(w, k) # <<>>
        /\ Transitions(w2, k) = Tail(Transitions(w, k))
        /\ Head(Transitions(w, k)) = w[1].pressed
    BY <1>2, <2>1, OwnFront
  <2>3. Transitions(Waiting, k) = Transitions(w, k)
    BY <1>3, <1>5, <1>6 DEF w
  <2>4. Transitions(Waiting', k) = Transitions(w2, k)
    BY <1>4, <1>5, <1>6 DEF t2
  <2>5. registered'[k] # {} <=> w[1].pressed
    BY <1>6 DEF w
  <2>6. registered'[k] # {} <=> Head(Transitions(Waiting, k))
    BY <2>2, <2>3, <2>5, Zenon
  <2>7. HandedOver(k)
    BY <2>2, <2>3, <2>4, <2>6, Zenon DEF HandedOver
  <2> QED  BY <2>7
<1>7. CASE k # Line[1].key
  <2>1. Transitions(w2, k) = Transitions(Line, k)
    BY <1>1, <1>2, <1>7, LineFront
  <2>2. Transitions(Waiting', k) = Transitions(Waiting, k)
    BY <1>3, <1>4, <1>5, <2>1 DEF t2
  <2>3. StaysOwed(k)
    BY <1>7, <2>2 DEF StaysOwed
  <2> QED  BY <2>3
<1> QED  BY <1>6, <1>7

\* The first record of the line becomes the tapping key, and still waits.
LEMMA StepStarts ==
  ASSUME TypeInv, UNCHANGED matrix, Line # <<>>, Line' \in Seq(Record), SameShape(Line', Tail(Line)),
         ~UnsettledPress(tapping), tapping' = Line[1], UnsettledPress(Line[1]),
         \A k \in Key : LetGoAtMost(k, registered')
  PROVE  Mapped
<1>1. tapping \in Tapper /\ Line \in Seq(Record)
  BY StateTypes, LineParts
<1> SUFFICES ASSUME NEW k \in Key PROVE StaysOwed(k)
  BY MappedEach
<1> DEFINE t2 == Line[1]
           w2 == Line'
<1> HIDE DEF w2
<1>2. t2 \in Record /\ t2 \in Tapper /\ w2 \in Seq(Record) /\ SameShape(w2, Tail(Line))
  BY <1>1, TailParts, SeqParts DEF w2, Tapper
<1>3. Transitions(Unseen(tapping, Line), k) = Transitions(Line, k)
  BY <1>1, UnseenTransitions
<1>4. Transitions(Unseen(t2, w2), k) = IF t2.key = k
         THEN <<TRUE>> \o Transitions(w2, k) ELSE Transitions(w2, k)
  <2> HIDE DEF t2
  <2>1. UnsettledPress(t2)
    BY DEF t2
  <2> QED  BY <1>2, <2>1, UnseenTransitions
<1>5. Waiting = Unseen(tapping, Line) /\ Waiting' = Unseen(t2, w2)
  BY WaitingIs DEF w2
<1>6. t2.pressed = TRUE
  <2> HIDE DEF t2
  <2>1. UnsettledPress(t2)
    BY DEF t2
  <2> QED  BY <1>2, <2>1, RecordType DEF UnsettledPress
<1>7. Transitions(Line, k) = IF t2.key = k THEN <<t2.pressed>> \o Transitions(w2, k)
                                           ELSE Transitions(w2, k)
  BY <1>1, <1>2, LineFront
<1>8. Transitions(Unseen(t2, w2), k) = Transitions(Line, k)
  <2> DEFINE x == t2.pressed
  <2>1. x = TRUE /\ Transitions(Line, k) = IF t2.key = k THEN <<x>> \o Transitions(w2, k)
                                                         ELSE Transitions(w2, k)
    BY <1>6, <1>7
  <2> HIDE DEF t2, x
  <2>2. <<x>> = <<TRUE>>
    BY <2>1
  <2> QED  BY <1>4, <2>1, <2>2
<1>9. Transitions(Waiting', k) = Transitions(Waiting, k)
  BY <1>3, <1>5, <1>8
<1> QED  BY <1>9 DEF StaysOwed

\* A release goes past a line that has no event of its key.
LEMMA StepOvertakes ==
  ASSUME TypeInv, UNCHANGED matrix, NEW r \in Record, Line = Append(buf, r), Line' = buf,
         \A i \in DOMAIN buf : buf[i].key # r.key, tapping' = tapping, tapping.key # r.key,
         registered'[r.key] # {} <=> r.pressed,
         \A k \in Key : k # r.key => registered'[k] = registered[k]
  PROVE  Mapped
<1>t. tapping \in Tapper /\ buf \in Seq(Record)
  BY StateTypes
<1>l. Line \in Seq(Record)
  BY LineParts
<1>1. /\ tapping \in Tapper /\ Line \in Seq(Record) /\ buf \in Seq(Record)
      /\ DOMAIN buf = 1 .. Len(buf)
  BY <1>t, <1>l, SeqParts
<1> SUFFICES ASSUME NEW k \in Key PROVE StaysOwed(k) \/ HandedOver(k)
  BY MappedEach
<1>2. Transitions(Unseen(tapping, Line), k) = IF UnsettledPress(tapping) /\ tapping.key = k
         THEN <<TRUE>> \o Transitions(Line, k) ELSE Transitions(Line, k)
  BY <1>1, UnseenTransitions
<1>3. Transitions(Unseen(tapping, buf), k) = IF UnsettledPress(tapping) /\ tapping.key = k
         THEN <<TRUE>> \o Transitions(buf, k) ELSE Transitions(buf, k)
  BY <1>1, UnseenTransitions
<1>4. Waiting = Unseen(tapping, Line) /\ Waiting' = Unseen(tapping, buf)
  BY WaitingIs
<1>5. Transitions(Line, k) = IF r.key = k THEN Append(Transitions(buf, k), r.pressed) ELSE Transitions(buf, k)
  BY <1>1, TransitionsAppend
<1>6. CASE k = r.key
  <2>1. Transitions(buf, k) = <<>>
    BY <1>1, <1>6, TransitionsNone
  <2> DEFINE x == r.pressed
  <2> HIDE DEF x
  <2>2. Transitions(Line, k) = <<x>>
    BY <1>5, <1>6, <2>1 DEF x
  <2>3. Transitions(Waiting, k) = <<x>> /\ Transitions(Waiting', k) = <<>>
    BY <1>2, <1>3, <1>4, <1>6, <2>1, <2>2
  <2>4. Tail(<<x>>) = <<>> /\ Head(<<x>>) = x /\ <<x>> # <<>>
    OBVIOUS
  <2>5. HandedOver(k)
    BY <1>6, <2>3, <2>4 DEF HandedOver, x
  <2> QED  BY <2>5
<1>7. CASE k # r.key
  <2>1. LetGoAtMost(k, registered')
    BY <1>7, KeptDown
  <2> QED  BY <1>2, <1>3, <1>4, <1>5, <1>7, <2>1 DEF StaysOwed
<1> QED  BY <1>6, <1>7

-----------------------------------------------------------------------------
(* The branches of process_tapping, as steps of KeyDelivery *)

\* The record waits, or there is no room for it behind the tapping key and every
\* event that waits is thrown away.
LEMMA KeptShape ==
  ASSUME TypeInv, OverflowClears, Judging, NEW r, NEW t, NEW reg, Kept(r, t, reg),
         UnsettledPress(tapping) \/ buf = <<>> \/ pc = "drain",
         IsEvent(Rec) => r \in Record /\ r.key = Rec.key /\ r.pressed = Rec.pressed,
         ~IsEvent(Rec) => r = Rec
  PROVE  \/ AllForgotten
         \/ /\ tapping' = t /\ registered' = reg /\ UNCHANGED matrix
            /\ Line' \in Seq(Record) /\ SameShape(Line', Line)
<1>1. Line \in Seq(Record)
  BY LineParts
<1>2. CASE ~IsEvent(Rec)
  <2>1. tapping' = t /\ registered' = reg
    BY <1>2, TickKept
  <2>2. Line' = Line /\ UNCHANGED matrix
    <3>1. \E t0, reg0 : Kept(Rec, t0, reg0) /\ tapping' = t0 /\ registered' = reg0
      BY <1>2, <2>1
    <3> QED  BY <1>2, <3>1, TickLine
  <2> QED  BY <1>1, <2>1, <2>2, ShapeSelf
<1>3. CASE IsEvent(Rec) /\ pc = "event" /\ BufferFull
  <2>1. /\ tapping' = NoRecord /\ UNCHANGED matrix /\ Line' = <<>> /\ buf' = <<>> /\ buf # <<>>
    BY <1>3, OverflowLine
  <2>2. \A k \in Key : registered'[k] = {}
    BY <1>3, <2>1 DEF OverflowClears
  <2>3. ~UnsettledPress(NoRecord)
    BY NoRecordType DEF UnsettledPress
  <2>4. <<>> \o <<>> = <<>>
    OBVIOUS
  <2>5. Waiting' = <<>>
    BY <2>1, <2>3, <2>4, WaitingIs DEF Unseen
  <2>6. Len(Waiting) > BufferSize
    <3> DEFINE u == Unseen(tapping, Line)
               n == Len(Line)
    <3>1. buf \in Seq(Record) /\ Rec \in Record /\ Line = Append(buf, Rec)
      BY <1>3, LineParts
    <3>2. n = Len(buf) + 1 /\ Len(buf) \in Nat
      BY <3>1
    <3>3. UnsettledPress(tapping) /\ tapping \in Tapper
      BY <1>3, <2>1, StateTypes
    <3>4. Len(u) = n + 1
      BY <1>1, <3>3, UnseenType
    <3>5. Len(buf) >= BufferSize - 1 /\ BufferSize \in Nat
      BY <1>3, TermsAssumption DEF BufferFull
    <3>6. Waiting = u
      BY WaitingIs
    <3> HIDE DEF u, n
    <3> QED  BY <3>2, <3>4, <3>5, <3>6
  <2> QED  BY <2>1, <2>2, <2>5, <2>6 DEF AllForgotten
<1>4. CASE IsEvent(Rec) /\ ~(pc = "event" /\ BufferFull)
  <2>1. r \in Record /\ r.key = Rec.key /\ r.pressed = Rec.pressed
    BY <1>4
  <2>2. /\ tapping' = t /\ registered' = reg /\ UNCHANGED matrix
        /\ Line' = [Line EXCEPT ![RecAt] = r]
    BY <1>4, <2>1, KeptLine
  <2>3. RecAt \in DOMAIN Line /\ Line[RecAt] = Rec
    BY <1>4, LineParts
  <2> DEFINE v == [Line EXCEPT ![RecAt] = r]
  <2>4. v \in Seq(Record) /\ SameShape(v, Line)
    <3>1. v \in Seq(Record) /\ Len(v) = Len(Line) /\ Len(Line) \in Nat
      BY <1>1, <2>1, <2>3
    <3>2. \A i \in 1 .. Len(Line) : v[i] = IF i = RecAt THEN r ELSE Line[i]
      BY <1>1, <2>3
    <3> QED  BY <2>1, <2>3, <3>1, <3>2 DEF SameShape
  <2> QED  BY <2>2, <2>4
<1> QED  BY <1>2, <1>3, <1>4

\* The tapping key stays as it is, and the record waits.
LEMMA MappedWait ==
  ASSUME Settled, OverflowClears, Judging, NEW t \in Tapper,
         UnsettledPress(t) <=> UnsettledPress(tapping),
         UnsettledPress(tapping) => t.key = tapping.key,
         Kept(Rec, t, registered), UnsettledPress(tapping) \/ Released
  PROVE  Mapped
<1>1. TypeInv /\ (IsEvent(Rec) => Rec \in Record)
  BY TappingState
<1>2. \/ AllForgotten
      \/ /\ tapping' = t /\ registered' = registered /\ UNCHANGED matrix
         /\ Line' \in Seq(Record) /\ SameShape(Line', Line)
  <2>1. UnsettledPress(tapping) \/ buf = <<>> \/ pc = "drain"
    BY DEF Settled, NoneInBuffer, Released
  <2> QED  BY <1>1, <2>1, KeptShape
<1> QED  BY <1>1, <1>2, StepWaits DEF Mapped

\* The tapping key is settled, and the record waits.
LEMMA MappedSettle ==
  ASSUME Settled, OverflowClears, Unsettled, NEW t \in Tapper, ~UnsettledPress(t),
         NEW x \in Record, x.key = tapping.key, x.pressed,
         NEW r, Kept(r, t, Processed(registered, x)),
         IsEvent(Rec) => r \in Record /\ r.key = Rec.key /\ r.pressed = Rec.pressed,
         ~IsEvent(Rec) => r = Rec
  PROVE  Mapped
<1> DEFINE reg == Processed(registered, x)
<1>1. /\ TypeInv /\ Judging /\ registered \in Registers /\ UnsettledPress(tapping)
      /\ tapping.key \in Key
  BY UnsettledState
<1>2. reg[tapping.key] # {} /\ \A k \in Key : k # tapping.key => reg[k] = registered[k]
  <2>1. /\ \A k \in Key : k # x.key => reg[k] = registered[k]
        /\ x.pressed => reg[x.key] = registered[x.key] \cup {Role(x)}
    BY <1>1, ProcessedAt
  <2> HIDE DEF reg
  <2> QED  BY <2>1
<1>3. Kept(r, t, reg)
  OBVIOUS
<1> HIDE DEF reg
<1>4. \/ AllForgotten
      \/ /\ tapping' = t /\ registered' = reg /\ UNCHANGED matrix
         /\ Line' \in Seq(Record) /\ SameShape(Line', Line)
  BY <1>1, <1>3, KeptShape
<1>5. CASE /\ tapping' = t /\ registered' = reg /\ UNCHANGED matrix
           /\ Line' \in Seq(Record) /\ SameShape(Line', Line)
  BY <1>1, <1>2, <1>5, StepSettles
<1> QED  BY <1>4, <1>5 DEF Mapped

LEMMA NoTapper == NoRecord \in Tapper /\ ~UnsettledPress(NoRecord) /\ ~IsEvent(NoRecord)
BY NoRecordType DEF Tapper, UnsettledPress

LEMMA MappedHold ==
  ASSUME Settled, OverflowClears, Unsettled, Kept(Rec, NoRecord, Processed(registered, tapping))
  PROVE  Mapped
<1>1. tapping \in Record /\ tapping.pressed /\ (IsEvent(Rec) => Rec \in Record)
  BY UnsettledState
<1> QED  BY <1>1, NoTapper, MappedSettle

LEMMA MappedTicks ==
  ASSUME Settled, OverflowClears, TickIgnored \/ HoldTimeout \/ ReleaseTimeout
  PROVE  Mapped
<1>1. CASE TickIgnored
  <2>1. TypeInv /\ tapping \in Tapper
    BY TappingState
  <2>2. Judging /\ ~IsEvent(Rec) /\ Consumed(buf) /\ tapping' = tapping /\ registered' = registered
    BY <1>1 DEF TickIgnored
  <2>3. Line' = Line /\ UNCHANGED matrix
    BY <2>1, <2>2, TickLine
  <2>4. Line \in Seq(Record) /\ SameShape(Line, Line)
    BY <2>1, LineParts, ShapeSelf
  <2> QED  BY <2>1, <2>2, <2>3, <2>4, StepWaits
<1>2. CASE HoldTimeout
  BY <1>2, MappedHold DEF HoldTimeout
<1>3. CASE ReleaseTimeout
  <2>1. /\ ~UnsettledPress(tapping) /\ Judging /\ Kept(Rec, NoRecord, registered)
        /\ Released
    BY <1>3 DEF ReleaseTimeout, Released, UnsettledPress
  <2> QED  BY <2>1, NoTapper, MappedWait
<1> QED  BY <1>1, <1>2, <1>3

LEMMA MappedWaits ==
  ASSUME Settled, OverflowClears, NestedTap \/ OtherKeyWaits
  PROVE  Mapped
<1>1. Unsettled /\ Judging
  BY UnsettledState DEF NestedTap, OtherKeyWaits
<1>2. tapping \in Record /\ tapping \in Tapper
  BY <1>1, UnsettledState
<1>3. CASE Kept(Rec, NoRecord, Processed(registered, tapping))
  BY <1>1, <1>3, MappedHold
<1>4. CASE Kept(Rec, tapping, registered)
  BY <1>1, <1>2, <1>4, UnsettledState, MappedWait
<1>5. CASE Kept(Rec, [tapping EXCEPT !.interrupted = TRUE], registered)
  <2> DEFINE t == [tapping EXCEPT !.interrupted = TRUE]
  <2>1. t \in Tapper /\ t.key = tapping.key /\ (UnsettledPress(t) <=> UnsettledPress(tapping))
    <3>1. /\ t \in Record /\ t.key = tapping.key /\ t.pressed = tapping.pressed
          /\ t.count = tapping.count
      BY <1>2 DEF Record
    <3> HIDE DEF t
    <3> QED  BY <3>1 DEF Tapper, UnsettledPress, IsEvent
  <2>2. Kept(Rec, t, registered)
    BY <1>5
  <2> HIDE DEF t
  <2> QED  BY <1>1, <2>1, <2>2, UnsettledState, MappedWait
<1> QED  BY <1>3, <1>4, <1>5 DEF NestedTap, OtherKeyWaits

LEMMA MappedFirstTap ==
  ASSUME Settled, OverflowClears, FirstTap
  PROVE  Mapped
<1> DEFINE tap == [tapping EXCEPT !.count = 1]
           settled == AfterProcess(tap)
           r == WithTap(Rec, settled)
<1>1. /\ Unsettled /\ IsEvent(Rec) /\ Kept(r, settled, Processed(registered, tap))
  BY DEF FirstTap
<1>2. /\ NeverCancelled /\ tapping \in Record /\ tapping.key \in TapKey
      /\ tapping.pressed /\ Rec \in Record
  BY <1>1, UnsettledState
<1>3. /\ tap \in Record /\ tap.key = tapping.key /\ tap.pressed /\ tap.count = 1
      /\ tap.interrupted = tapping.interrupted
  <2>1. 1 \in 0 .. MaxTap
    BY TermsAssumption
  <2> QED  BY <1>2, <2>1 DEF Record
<1> HIDE DEF tap
<1>4. ~Cancelled(tap)
  BY <1>2, <1>3 DEF NeverCancelled, Cancelled
<1>5. settled = tap
  BY <1>2, <1>3, <1>4, RoleOfTap
<1>6. r \in Record /\ r.key = Rec.key /\ r.pressed = Rec.pressed
  BY <1>2, <1>3, <1>5 DEF WithTap, Record
<1> HIDE DEF settled, r
<1>7. tap \in Tapper /\ ~UnsettledPress(tap)
  BY <1>3 DEF Tapper, UnsettledPress
<1>8. Kept(r, tap, Processed(registered, tap))
  BY <1>1, <1>5 DEF settled
<1> QED  BY <1>1, <1>3, <1>6, <1>7, <1>8, MappedSettle

\* The first record of the line is handed over as x.
LEMMA MappedHands ==
  ASSUME Settled, Judging, IsEvent(Rec), pc = "drain" \/ buf = <<>>,
         NEW b \in Seq(Record), SameShape(b, buf), Consumed(b),
         tapping' \in Tapper,
         UnsettledPress(tapping') <=> UnsettledPress(tapping),
         UnsettledPress(tapping) => tapping'.key = tapping.key /\ tapping.key # Rec.key,
         registered'[Rec.key] # {} <=> Rec.pressed,
         \A k \in Key : k # Rec.key => LetGoAtMost(k, registered')
  PROVE  Mapped
<1>1. TypeInv
  BY TappingState
<1>2. /\ Line' \in Seq(Record) /\ SameShape(Line', Tail(Line))
      /\ Line # <<>> /\ Line[1] = Rec /\ UNCHANGED matrix
  BY <1>1, ConsumedLine
<1> QED  BY <1>1, <1>2, StepHands

\* A regular key, or another key's release, is processed.
LEMMA PassRegisters ==
  ASSUME Settled, Judging, IsEvent(Rec), pc = "drain" \/ buf = <<>>,
         ~Rec.pressed \/ Rec.key \notin TapKey,
         IsEvent(tapping) /\ tapping.pressed => tapping.key # Rec.key,
         registered' = Processed(registered, Rec)
  PROVE  /\ registered'[Rec.key] # {} <=> Rec.pressed
         /\ \A k \in Key : k # Rec.key => LetGoAtMost(k, registered')
<1>0. TypeInv /\ RolesInv /\ registered \in Registers /\ tapping \in Tapper /\ Rec \in Record
  BY TappingState DEF Settled, DeliveryInv
<1>1. Line \in Seq(Record) /\ Line # <<>> /\ Line[1] = Rec
  <2>1. CASE pc = "drain"
    BY <1>0, <2>1, LineParts
  <2>2. CASE pc = "event"
    <3>1. buf = <<>> /\ Line = Append(buf, Rec)
      BY <1>0, <2>2, LineParts
    <3> QED  BY <1>0, <3>1
  <2> QED  BY <2>1, <2>2 DEF Judging
<1> DEFINE reg2 == Processed(registered, Rec)
<1>2. ~Rec.pressed => reg2[Rec.key] = {}
  BY <1>0, <1>1, RolesPass DEF RolesInv
<1>3. /\ \A k \in Key : k # Rec.key => reg2[k] = registered[k]
      /\ Rec.pressed => reg2[Rec.key] = registered[Rec.key] \cup {Role(Rec)}
  BY <1>0, ProcessedAt
<1>4. registered' = reg2
  OBVIOUS
<1> HIDE DEF reg2
<1> QED  BY <1>2, <1>3, <1>4, KeptDown

LEMMA MappedThrough ==
  ASSUME Settled, PassThrough \/ KeyDuringTap \/ KeyAfterTap
  PROVE  Mapped
<1>1. /\ Judging /\ IsEvent(Rec) /\ ~IsTapPress(Rec) /\ Consumed(buf)
      /\ registered' = Processed(registered, Rec) /\ ~UnsettledPress(tapping)
  BY DEF PassThrough, KeyDuringTap, KeyAfterTap, Idle, Tapped, Released, Pressed,
         UnsettledPress
<1>2. pc = "drain" \/ buf = <<>>
  BY <1>1, JudgeFirst
<1>3. ~Rec.pressed \/ Rec.key \notin TapKey
  BY <1>1 DEF IsTapPress
<1>4. IsEvent(tapping) /\ tapping.pressed => tapping.key # Rec.key
  BY <1>3, TappingState
     DEF PassThrough, KeyDuringTap, KeyAfterTap, Idle, Released, IsTapRelease
<1>5. tapping' \in Tapper /\ ~UnsettledPress(tapping')
  <2>1. CASE tapping' = tapping
    BY <1>1, <2>1, TappingState
  <2>2. CASE KeyAfterTap
    <3>1. tapping \in Record /\ Rec \in Record /\ ~tapping.pressed
      BY <1>1, <2>2, TappingState DEF KeyAfterTap, Released
    <3>2. tapping' = [tapping EXCEPT !.interrupted = @ \/ Rec.pressed]
      BY <2>2 DEF KeyAfterTap
    <3>3. (tapping.interrupted \/ Rec.pressed) \in BOOLEAN
      OBVIOUS
    <3>4. tapping' \in Record /\ tapping'.pressed = tapping.pressed
      BY <3>1, <3>2, <3>3 DEF Record
    <3> QED  BY <3>1, <3>4 DEF Tapper, UnsettledPress
  <2> QED  BY <2>1, <2>2 DEF PassThrough, KeyDuringTap
<1>6. /\ registered'[Rec.key] # {} <=> Rec.pressed
      /\ \A k \in Key : k # Rec.key => LetGoAtMost(k, registered')
  BY <1>1, <1>2, <1>3, <1>4, PassRegisters
<1>7. buf \in Seq(Record) /\ SameShape(buf, buf)
  BY TappingState, StateTypes, ShapeSelf
<1> QED  BY <1>1, <1>2, <1>5, <1>6, <1>7, MappedHands

LEMMA MappedTapReleased ==
  ASSUME Settled, TapReleased
  PROVE  Mapped
<1> DEFINE x == WithTap(Rec, tapping)
<1>1. /\ Judging /\ IsEvent(Rec) /\ IsEvent(tapping) /\ tapping.pressed /\ tapping.count > 0
      /\ ~Rec.pressed /\ Rec.key = tapping.key /\ Consumed(buf)
      /\ registered' = Processed(registered, x)
      /\ tapping' \in {x, NoRecord} /\ ~UnsettledPress(tapping)
  BY DEF TapReleased, Tapped, Pressed, IsTapRelease, UnsettledPress
<1>2. /\ TypeInv /\ tapping \in Record /\ Rec \in Record /\ registered \in Registers
      /\ tapping.key \in TapKey /\ tapping.key \in Key /\ registered[tapping.key] = {"tap"}
  BY <1>1, TappingState
<1>3. pc = "drain" \/ buf = <<>>
  BY <1>1, JudgeFirst
<1>4. x \in Record /\ x.key = tapping.key /\ ~x.pressed /\ x.count > 0
  BY <1>1, <1>2 DEF WithTap, Record
<1>5. buf \in Seq(Record) /\ SameShape(buf, buf)
  BY <1>2, StateTypes, ShapeSelf
<1> HIDE DEF x
<1>6. tapping' \in Tapper /\ ~UnsettledPress(tapping')
  BY <1>1, <1>4, NoTapper DEF UnsettledPress, Tapper
<1>7. Role(x) = "tap"
  BY <1>2, <1>4, RoleOf
<1>8. registered'[Rec.key] = {} /\ \A k \in Key : k # Rec.key => registered'[k] = registered[k]
  <2> DEFINE reg2 == Processed(registered, x)
  <2>1. /\ \A k \in Key : k # x.key => reg2[k] = registered[k]
        /\ ~x.pressed => reg2[x.key] = registered[x.key] \ {Role(x)}
    BY <1>2, <1>4, ProcessedAt
  <2>2. registered' = reg2
    BY <1>1
  <2> HIDE DEF reg2
  <2>3. reg2[x.key] = {}
    BY <1>2, <1>4, <1>7, <2>1
  <2> QED  BY <1>1, <1>4, <2>1, <2>2, <2>3
<1> QED  BY <1>1, <1>3, <1>5, <1>6, <1>8, KeptDown, MappedHands

\* A tap key's press becomes the tapping key, undecided.
LEMMA MappedRestart ==
  ASSUME Settled, Judging, IsEvent(Rec), IsTapPress(Rec), ~UnsettledPress(tapping),
         tapping' = Rec, Consumed(buf),
         \A k \in Key : LetGoAtMost(k, registered')
  PROVE  Mapped
<1>1. TypeInv /\ FreshInv /\ Rec \in Record
  BY TappingState DEF Settled
<1>2. pc = "drain" \/ buf = <<>>
  BY JudgeFirst
<1>3. buf \in Seq(Record) /\ SameShape(buf, buf)
  BY <1>1, StateTypes, ShapeSelf
<1>4. /\ Line' \in Seq(Record) /\ SameShape(Line', Tail(Line))
      /\ Line # <<>> /\ Line[1] = Rec /\ UNCHANGED matrix
  BY <1>1, <1>2, <1>3, ConsumedLine
<1>5. UnsettledPress(Rec)
  BY <1>1, FreshRec DEF Fresh, UnsettledPress, IsTapPress
<1> QED  BY <1>1, <1>4, <1>5, StepStarts

LEMMA MappedTapAgain ==
  ASSUME Settled, TapAgain
  PROVE  Mapped
<1>1. /\ Judging /\ IsEvent(Rec) /\ IsEvent(tapping) /\ ~tapping.pressed
      /\ Rec.pressed /\ Rec.key = tapping.key /\ Consumed(buf) /\ ~UnsettledPress(tapping)
  BY DEF TapAgain, Released, UnsettledPress
<1>2. /\ TypeInv /\ FreshInv /\ tapping \in Record
      /\ Rec \in Record /\ tapping \in Tapper /\ registered \in Registers
      /\ tapping.key \in TapKey
  BY <1>1, TappingState DEF Settled
<1>3. pc = "drain" \/ buf = <<>>
  BY <1>1, JudgeFirst
<1>4. IsTapPress(Rec)
  BY <1>1, <1>2 DEF IsTapPress
<1>5. CASE tapping' = Rec /\ registered' = registered
  BY <1>1, <1>4, <1>5, KeptDown, MappedRestart
<1> DEFINE n == IF tapping.count < MaxTap THEN tapping.count + 1 ELSE MaxTap
           x == [Rec EXCEPT !.count = n]
<1>6. CASE tapping' = x /\ registered' = Processed(registered, x)
  <2>1. tapping.count \in 0 .. MaxTap
    BY <1>2, RecordType
  <2>2. n \in 0 .. MaxTap /\ n # 0
    BY <2>1, TermsAssumption
  <2> HIDE DEF n
  <2>3. x \in Record /\ x.key = Rec.key /\ x.pressed /\ x.count = n
    BY <1>1, <1>2, <2>2 DEF Record
  <2>4. buf \in Seq(Record) /\ SameShape(buf, buf)
    BY <1>2, StateTypes, ShapeSelf
  <2> HIDE DEF x
  <2>5. tapping' \in Tapper /\ ~UnsettledPress(tapping')
    BY <1>6, <2>2, <2>3 DEF UnsettledPress, Tapper
  <2>6. registered'[Rec.key] # {} /\ \A k \in Key : k # Rec.key => registered'[k] = registered[k]
    <3> DEFINE reg2 == Processed(registered, x)
    <3>1. /\ \A k \in Key : k # x.key => reg2[k] = registered[k]
          /\ x.pressed => reg2[x.key] = registered[x.key] \cup {Role(x)}
      BY <1>2, <2>3, ProcessedAt
    <3>2. registered' = reg2
      BY <1>6
    <3> HIDE DEF reg2
    <3> QED  BY <2>3, <3>1, <3>2
  <2> QED  BY <1>1, <1>3, <2>4, <2>5, <2>6, KeptDown, MappedHands
<1> QED  BY <1>5, <1>6 DEF TapAgain

\* A tap key's press becomes the tapping key; if its release waits, the press
\* is handed over.
LEMMA MappedBecome ==
  ASSUME Settled, Judging, IsEvent(Rec), IsTapPress(Rec), ~UnsettledPress(tapping),
         NEW reg \in Registers, \A k \in Key : LetGoAtMost(k, reg),
         BecomeTapping(Rec, reg)
  PROVE  Mapped
<1>1. TypeInv /\ FreshInv /\ Rec \in Record /\ buf \in Seq(Record) /\ Rec.pressed
  BY TappingState, StateTypes DEF Settled, IsTapPress
<1>2. pc = "drain" \/ buf = <<>>
  BY JudgeFirst
<1>3. CASE tapping' = Rec /\ registered' = reg /\ Consumed(buf)
  BY <1>3, MappedRestart
<1>4. ASSUME NEW i \in DOMAIN buf,
             tapping' = AfterProcess([Rec EXCEPT !.count = 1]),
             registered' = Processed(reg, [Rec EXCEPT !.count = 1]),
             Consumed([buf EXCEPT ![i].count = 1])
      PROVE  Mapped
  <2> DEFINE tap == [Rec EXCEPT !.count = 1]
             x == [buf[i] EXCEPT !.count = 1]
             b == [buf EXCEPT ![i].count = 1]
  <2>1. 1 \in 0 .. MaxTap
    BY TermsAssumption
  <2>2. ~Rec.interrupted
    BY <1>1, FreshRec DEF Fresh
  <2>3. tap \in Record /\ tap.key = Rec.key /\ tap.pressed /\ tap.count = 1 /\ ~tap.interrupted
    <3> DEFINE p == Rec
    <3>1. p \in Record /\ p.pressed /\ ~p.interrupted
      BY <1>1, <2>2
    <3> HIDE DEF p
    <3>2. [p EXCEPT !.count = 1] \in Record
      BY <2>1, <3>1 DEF Record
    <3>3. /\ [p EXCEPT !.count = 1].key = p.key /\ [p EXCEPT !.count = 1].pressed
          /\ [p EXCEPT !.count = 1].count = 1 /\ ~[p EXCEPT !.count = 1].interrupted
      BY <3>1 DEF Record
    <3> QED  BY <3>2, <3>3 DEF p
  <2>4. b \in Seq(Record) /\ SameShape(b, buf)
    <3>1. buf[i] \in Record /\ DOMAIN buf = 1 .. Len(buf)
      BY <1>1, <1>4, SeqParts
    <3>2. x \in Record /\ x.key = buf[i].key /\ x.pressed = buf[i].pressed
      BY <2>1, <3>1 DEF Record
    <3>3. /\ b \in Seq(Record) /\ Len(b) = Len(buf) /\ b[i] = x
          /\ \A j \in DOMAIN buf : j # i => b[j] = buf[j]
      BY <1>1, <1>4, <3>2
    <3> HIDE DEF b, x
    <3> QED  BY <3>1, <3>2, <3>3 DEF SameShape
  <2>5. tapping' = tap /\ registered' = Processed(reg, tap) /\ Consumed(b)
    <3>1. ~Cancelled(tap)
      BY <2>3 DEF Cancelled
    <3> HIDE DEF tap
    <3>2. AfterProcess(tap) = tap
      BY <3>1 DEF AfterProcess
    <3> QED  BY <1>4, <3>2 DEF tap
  <2> HIDE DEF tap, x, b
  <2>6. tapping' \in Tapper /\ ~UnsettledPress(tapping')
    BY <2>3, <2>5 DEF UnsettledPress, Tapper
  <2>7. /\ registered'[Rec.key] # {}
        /\ \A k \in Key : k # Rec.key => LetGoAtMost(k, registered')
    <3> DEFINE reg2 == Processed(reg, tap)
    <3>1. /\ \A k \in Key : k # tap.key => reg2[k] = reg[k]
          /\ tap.pressed => reg2[tap.key] = reg[tap.key] \cup {Role(tap)}
      BY <2>3, ProcessedAt
    <3>2. registered' = reg2
      BY <2>5
    <3> HIDE DEF reg2
    <3> QED  BY <2>3, <3>1, <3>2 DEF LetGoAtMost
  <2> QED  BY <1>1, <1>2, <2>4, <2>5, <2>6, <2>7, MappedHands
<1> QED  BY <1>3, <1>4 DEF BecomeTapping

\* The tap key pressed while another repeats is the press that interrupts it.
LEMMA PressInterrupts ==
  ASSUME Settled, Judging, IsEvent(Rec), IsTapPress(Rec), ~UnsettledPress(tapping),
         registered[tapping.key] # {}, NEW reg \in Registers,
         \A k \in Key : reg[k] = IF Repeating(tapping) /\ k = tapping.key THEN {} ELSE registered[k]
  PROVE  Interrupted(tapping.key)
<1>1. pc = "drain" \/ buf = <<>>
  BY JudgeFirst
<1>2. /\ Line \in Seq(Record) /\ Line # <<>> /\ Line[1] = Rec /\ tapping \in Tapper
      /\ Rec.key \in Key /\ Rec.pressed /\ registered[Rec.key] = {}
  BY <1>1, RecStarts
<1>3. Waiting = Line
  BY <1>2, WaitingIs, UnseenType
<1> DEFINE w == Line
           v == Tail(w)
<1>4. w \in Seq(Record) /\ w # <<>> /\ w[1] = Rec /\ v \in Seq(Record) /\ SameShape(v, Tail(w))
  BY <1>2, TailParts, ShapeSelf
<1> HIDE DEF w, v
<1>5. Transitions(w, Rec.key) # <<>> /\ Head(Transitions(w, Rec.key)) = w[1].pressed
  BY <1>4, OwnFront
<1>6. Rec.key # tapping.key
  BY <1>2
<1> QED  BY <1>2, <1>3, <1>4, <1>5, <1>6 DEF Interrupted, w

LEMMA MappedStart ==
  ASSUME Settled, StartTapping \/ OtherTapAfterTap \/ TapInterrupted
  PROVE  Mapped
<1>1. /\ Judging /\ IsTapPress(Rec) /\ ~UnsettledPress(tapping)
  BY DEF StartTapping, OtherTapAfterTap, TapInterrupted, Idle, Tapped, Released,
         Pressed, UnsettledPress
<1>2. IsEvent(Rec)
  <2>1. TypeInv
    BY TappingState
  <2> QED  BY <1>1, <2>1, RecType, TickType, RecordType DEF IsTapPress
<1>3. registered \in Registers
  BY TappingState
<1>4. CASE BecomeTapping(Rec, registered)
  BY <1>1, <1>2, <1>3, <1>4, KeptDown, MappedBecome
<1>5. CASE TapInterrupted /\ tapping.count > 1
  <2> DEFINE release == [tapping EXCEPT !.pressed = FALSE, !.time = Rec.time]
             reg == Processed(registered, release)
  <2>1. IsEvent(tapping) /\ tapping.pressed /\ tapping \in Record /\ Rec \in Record
    BY <1>1, <1>2, <1>5, TappingState DEF TapInterrupted, Tapped, Pressed
  <2>2. Rec.time \in Times /\ tapping.count > 0
    BY <1>5, <2>1, RecordType
  <2>3. /\ release \in Record /\ release.key = tapping.key /\ ~release.pressed
        /\ release.count = tapping.count
    BY <2>1, <2>2 DEF Record, Times
  <2>4. BecomeTapping(Rec, reg)
    BY <1>5 DEF TapInterrupted
  <2>5. registered[tapping.key] = {"tap"}
    BY <2>1, <2>2, TappingState
  <2> HIDE DEF release
  <2>6. Role(release) = "tap"
    BY <2>1, <2>2, <2>3, TappingState, RoleOf
  <2>7. /\ reg \in Registers /\ reg[tapping.key] = {}
        /\ \A k \in Key : k # tapping.key => reg[k] = registered[k]
    BY <1>3, <2>3, <2>5, <2>6, ProcessedAt
  <2> HIDE DEF reg
  <2>8. \A k \in Key : reg[k] = IF Repeating(tapping) /\ k = tapping.key THEN {} ELSE registered[k]
    <3>1. Repeating(tapping)
      BY <1>5, <2>1, <2>2 DEF Repeating
    <3> QED  BY <2>7, <3>1
  <2>9. Interrupted(tapping.key)
    BY <1>1, <1>2, <2>5, <2>7, <2>8, PressInterrupts
  <2>10. \A k \in Key : LetGoAtMost(k, reg)
    BY <2>7, <2>9 DEF LetGoAtMost
  <2> QED  BY <1>1, <1>2, <2>4, <2>7, <2>10, MappedBecome
<1> QED  BY <1>4, <1>5 DEF StartTapping, OtherTapAfterTap, TapInterrupted

LEMMA MappedEarlier ==
  ASSUME Settled, OverflowClears, EarlierKeyReleased
  PROVE  Mapped
<1>1. /\ Unsettled /\ IsEvent(Rec) /\ ~Rec.pressed /\ Rec.key # tapping.key /\ ~Typed(Rec)
  BY DEF EarlierKeyReleased
<1>2. /\ TypeInv /\ Judging /\ ChainInv /\ tapping \in Tapper
      /\ registered \in Registers /\ UnsettledPress(tapping) /\ Rec \in Record
      /\ Roles(Line, tapping, registered)
  BY <1>1, UnsettledState
<1>3. CASE Kept(Rec, tapping, registered)
  BY <1>2, <1>3, MappedWait
<1>4. CASE /\ ~RetainedToEnd(Rec) /\ registered' = Processed(registered, Rec)
           /\ Consumed(buf) /\ tapping' = tapping
  <2>0. buf \in Seq(Record) /\ SameShape(buf, buf)
    BY <1>2, StateTypes, ShapeSelf
  <2>1. CASE pc = "drain"
    <3>1. /\ registered'[Rec.key] # {} <=> Rec.pressed
          /\ \A k \in Key : k # Rec.key => LetGoAtMost(k, registered')
      BY <1>1, <1>2, <1>4, <2>1, PassRegisters
    <3> QED  BY <1>1, <1>2, <1>4, <2>0, <2>1, <3>1, MappedHands
  <2>2. CASE pc = "event"
    <3>1. Rec = cur /\ IsEvent(cur) /\ Rec.count = 0
      BY <1>1, <2>2 DEF Rec, Settled, DeliveryInv, Ordered
    <3>2. Rec.key \notin TapKey
      BY <1>4, <3>1 DEF RetainedToEnd, TapKey
    <3>3. Line = Append(buf, Rec)
      BY <1>1, <1>2, <2>2, LineParts
    <3>4. \A i \in DOMAIN buf : buf[i].key = Rec.key => ~buf[i].pressed
      <4>1. \A i \in DOMAIN buf : buf[i] \in Record
        BY <2>0, SeqParts
      <4> QED  BY <1>1, <4>1, RecordType DEF Typed
    <3>5. registered'[Rec.key] = {}
      BY <1>1, <1>2, <1>4, <2>0, <3>2, <3>3, RolesFront
    <3>6. Line' = buf /\ UNCHANGED matrix
      BY <1>4, <2>2 DEF Consumed, Drain, Line
    <3>7. \A i \in DOMAIN buf : buf[i].key # Rec.key
      <4> DEFINE held == HeldBy(tapping, registered)
                 none == {}
      <4>1. Chain(Append(buf, Rec), matrix, held)
        BY <1>2, <3>3 DEF ChainInv
      <4>2. \A k \in none : k \in held /\ k # Rec.key
        OBVIOUS
      <4> HIDE DEF held, none
      <4> DEFINE r == Rec
      <4>3. r \in Record /\ ~r.pressed /\ \A i \in DOMAIN buf : buf[i].key = r.key => ~buf[i].pressed
        BY <1>1, <1>2, <3>4
      <4>4. Chain(Append(buf, r), matrix, held) /\ \A k \in none : k \in held /\ k # r.key
        BY <4>1, <4>2
      <4> HIDE DEF r
      <4>5. (\A i \in DOMAIN buf : buf[i].key # r.key) /\ Chain(buf, matrix, none)
        BY <2>0, <4>3, <4>4, ChainFront
      <4> QED  BY <4>5 DEF r
    <3>8. \A k \in Key : k # Rec.key => registered'[k] = registered[k]
      BY <1>2, <1>4, ProcessedAt
    <3> QED  BY <1>1, <1>2, <1>4, <3>3, <3>5, <3>6, <3>7, <3>8, StepOvertakes
  <2> QED  BY <1>2, <2>1, <2>2 DEF Judging
<1> QED  BY <1>3, <1>4 DEF EarlierKeyReleased

LEMMA MappedProcessTapping ==
  ASSUME Settled, OverflowClears, ProcessTapping
  PROVE  Mapped
<1>1. CASE TickIgnored \/ HoldTimeout \/ ReleaseTimeout
  BY <1>1, MappedTicks
<1>2. CASE PassThrough \/ KeyDuringTap \/ KeyAfterTap
  BY <1>2, MappedThrough
<1>3. CASE StartTapping \/ OtherTapAfterTap \/ TapInterrupted
  BY <1>3, MappedStart
<1>4. CASE FirstTap \/ TapReleased \/ TapAgain
  BY <1>4, MappedFirstTap, MappedTapReleased, MappedTapAgain
<1>5. CASE NestedTap \/ OtherKeyWaits \/ EarlierKeyReleased
  BY <1>5, MappedWaits, MappedEarlier
<1> QED  BY <1>1, <1>2, <1>3, <1>4, <1>5 DEF ProcessTapping

-----------------------------------------------------------------------------
(* The tapping layer implements KeyDelivery *)

LEMMA NothingWaits == Unseen(NoRecord, <<>>) = <<>> /\ \A k : Transitions(<<>>, k) = <<>>
<1> DEFINE e == <<>>
<1>1. e \in Seq(Record) /\ Len(e) = 0
  OBVIOUS
<1> HIDE DEF e
<1>2. \A i \in 1 .. Len(e) : FALSE
  BY <1>1
<1>3. \A k : Transitions(e, k) = <<>>
  BY <1>1, <1>2, TransitionsNone
<1>4. Unseen(NoRecord, e) = e
  BY <1>1, NoTapper, UnseenType
<1> QED  BY <1>3, <1>4 DEF e

\* KeyDelivery counts the records that wait.
LEMMA DeliveryOwes ==
  ASSUME TypeInv
  PROVE  /\ Len(Waiting) \in Nat
         /\ Delivery!Cardinality(Delivery!Owed) = Len(Waiting)
<1>1. tapping \in Tapper /\ Line \in Seq(Record)
  BY StateTypes, LineParts
<1>2. Waiting \in Seq(Record)
  BY <1>1, WaitingIs, UnseenType
<1>3. Cardinality(OwedOf(Waiting)) = Len(Waiting)
  BY <1>2, OwedCount
<1>4. \A S : Delivery!Cardinality(S) = Cardinality(S)
  BY DEF Delivery!Cardinality, Cardinality
<1>5. Delivery!Owed = OwedOf(Waiting)
  BY DEF Delivery!Owed, OwedOf
<1> QED  BY <1>2, <1>3, <1>4, <1>5

\* The step of KeyDelivery that each step of the tapping layer implements.
LEMMA MappedStep ==
  ASSUME TypeInv, Mapped
  PROVE  Delivery!Deliver \/ Delivery!Overflow
<1>1. CASE OneStepEach
  <2>1. ASSUME NEW k \in Key PROVE Delivery!Waits(k) \/ Delivery!Delivered(k) \/ Delivery!LetGo(k)
    <3>1. CASE StaysOwed(k)
      <4>1. Interrupted(k) => Delivery!Interrupted(k)
        BY DEF Interrupted, Delivery!Interrupted
      <4> QED  BY <3>1, <4>1 DEF StaysOwed, LetGoAtMost, Delivery!Waits, Delivery!LetGo
    <3>2. CASE HandedOver(k)
      BY <3>2 DEF HandedOver, Delivery!Delivered
    <3> QED  BY <1>1, <3>1, <3>2 DEF OneStepEach
  <2> QED  BY <1>1, <2>1 DEF OneStepEach, Delivery!Deliver
<1>2. CASE AllForgotten
  <2>1. \A k \in Key : Transitions(<<>>, k) = <<>>
    BY NothingWaits
  <2>2. Delivery!Cardinality(Delivery!Owed) > BufferSize
    BY <1>2, DeliveryOwes DEF AllForgotten
  <2> QED  BY <1>2, <2>1, <2>2 DEF AllForgotten, Delivery!Overflow
<1> QED  BY <1>1, <1>2 DEF Mapped

LEMMA MappedTick ==
  ASSUME TypeInv, NEW d, TickEvent(d)
  PROVE  UNCHANGED Delivery!vars
<1>1. /\ pc = "scan" /\ ~IsEvent(cur') /\ UNCHANGED <<tapping, buf, registered, matrix>>
  BY DEF TickEvent, Receive, IsEvent, NewRecord
<1>2. Line' = Line
  BY <1>1 DEF Line
<1>3. Waiting' = Waiting
  BY <1>1, <1>2, WaitingIs
<1> QED  BY <1>1, <1>3 DEF Delivery!vars

LEMMA MappedKey ==
  ASSUME TypeInv, NEW k \in Key, NEW d \in 0 .. MaxGap, KeyEvent(k, d)
  PROVE  Delivery!Sense(k)
<1> DEFINE r == cur'
           u == Unseen(tapping, buf)
           press == IF UnsettledPress(tapping) THEN <<tapping>> ELSE <<>>
<1>1. /\ pc = "scan" /\ pc' = "event" /\ UNCHANGED <<tapping, buf, registered>>
      /\ matrix' = IF k \in matrix THEN matrix \ {k} ELSE matrix \cup {k}
      /\ r = NewRecord(k, k \notin matrix, now')
  BY DEF KeyEvent, Receive
<1>2. TypeInv'
  BY EventType
<1>3. r.key = k /\ r.pressed = (k \notin matrix) /\ IsEvent(r)
  BY <1>1, KeysAssumption DEF NewRecord, IsEvent
<1>4. r \in Record
  <2>1. r \in Record \cup Ticks
    BY <1>2 DEF TypeInv, TypeOK, Ticks, Times
  <2> QED  BY <1>3, <2>1, TickType
<1>5. tapping \in Tapper /\ buf \in Seq(Record)
  BY StateTypes
<1>6. Waiting = u /\ Waiting' = Unseen(tapping, Append(buf, r))
  BY <1>1, <1>3, WaitingIs DEF Line
<1> HIDE DEF r
<1>7. press \in Seq(Record)
  BY <1>5, TapperType DEF UnsettledPress
<1>8. u = press \o buf /\ Unseen(tapping, Append(buf, r)) = press \o Append(buf, r)
  BY DEF Unseen
<1> HIDE DEF press
<1>9. press \o Append(buf, r) = Append(press \o buf, r)
  BY <1>4, <1>5, <1>7, AppendBehind
<1>10. u \in Seq(Record)
  BY <1>5, UnseenType
<1>11. Waiting' = Append(u, r)
  BY <1>6, <1>8, <1>9
<1> HIDE DEF u
<1>12. \A j \in Key : Transitions(Append(u, r), j) =
          IF r.key = j THEN Append(Transitions(u, j), r.pressed) ELSE Transitions(u, j)
  BY <1>4, <1>10, TransitionsAppend
<1>13. \A j \in Key : Transitions(Waiting', j) =
          IF k = j THEN Append(Transitions(Waiting, j), k \notin matrix) ELSE Transitions(Waiting, j)
  BY <1>3, <1>6, <1>11, <1>12
<1>14. Delivery!Cardinality(Delivery!Owed) <= BufferSize
  <2> DEFINE n == Len(buf)
  <2>1. Line = buf /\ n \in Nat /\ n < BufferSize
    BY <1>1, StateTypes DEF Line
  <2>2. Len(Waiting) = IF UnsettledPress(tapping) THEN n + 1 ELSE n
    BY <1>5, <2>1, WaitingIs, UnseenType
  <2> HIDE DEF n
  <2> QED  BY <2>1, <2>2, DeliveryOwes, TermsAssumption
<1> QED  BY <1>1, <1>13, <1>14 DEF Delivery!Sense

\* Whatever the tap-or-hold decision makes wait, every switch transition reaches
\* process_record once, those of one key in their order, and only an event that
\* finds the buffer full behind an undecided tapping key loses any: for every
\* keymap, pair of terms and buffer size the tapping layer implements KeyDelivery.
THEOREM DeliversEveryTransition ==
  ASSUME NoWrap, ~Overtaking
  PROVE  Spec /\ OverflowClearsAll => Delivers
<1>1. Init => Delivery!Init
  <2> SUFFICES ASSUME Init PROVE Delivery!Init
    OBVIOUS
  <2>1. /\ buf = <<>> /\ matrix = {} /\ pc = "scan" /\ tapping = NoRecord
        /\ \A k \in Key : registered[k] = {}
    BY DEF Init
  <2>2. Waiting = <<>>
    <3>1. Line = <<>>
      BY <2>1 DEF Line
    <3>2. Unseen(NoRecord, <<>>) = <<>>
      BY NothingWaits
    <3> QED  BY <2>1, <3>1, <3>2, WaitingIs
  <2>3. \A k \in Key : Transitions(<<>>, k) = <<>>
    BY NothingWaits
  <2> QED  BY <2>1, <2>2, <2>3 DEF Delivery!Init
<1>2. Settled /\ [Next]_vars /\ [OverflowClears]_vars => [Delivery!Next]_(Delivery!vars)
  <2> SUFFICES ASSUME Settled, [Next]_vars, [OverflowClears]_vars
               PROVE  [Delivery!Next]_(Delivery!vars)
    OBVIOUS
  <2>1. TypeInv
    BY DEF Settled
  <2>2. CASE UNCHANGED vars
    <3>1. UNCHANGED <<matrix, cur, pc, tapping, buf, registered>>
      BY <2>2 DEF vars
    <3>2. Line' = Line
      BY <3>1 DEF Line
    <3>3. Waiting' = Waiting
      BY <3>1, <3>2, WaitingIs
    <3> QED  BY <3>1, <3>3 DEF Delivery!vars
  <2>3. CASE ProcessTapping /\ ~UNCHANGED vars
    BY <2>1, <2>3, MappedProcessTapping, MappedStep DEF Delivery!Next
  <2>4. CASE \E k \in Key, d \in 0 .. MaxGap : KeyEvent(k, d)
    BY <2>1, <2>4, MappedKey DEF Delivery!Next
  <2>5. CASE \E d \in 0 .. MaxGap : TickEvent(d)
    BY <2>1, <2>5, MappedTick
  <2> QED  BY <2>2, <2>3, <2>4, <2>5 DEF Next
<1>3. [OverflowClears]_vars <=> [pc = "event" /\ buf # <<>> /\ buf' = <<>>
       => \A k \in Key : registered'[k] = {}]_vars
  BY DEF OverflowClears
<1> QED
  BY <1>1, <1>2, <1>3, AlwaysSettled, PTL
     DEF Spec, OverflowClearsAll, Delivers, Delivery!Spec

=============================================================================
