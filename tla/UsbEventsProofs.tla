--------------------------- MODULE UsbEventsProofs ---------------------------
(***************************************************************************)
(* UsbTypeOK and the properties of UsbEvents hold for every size of the    *)
(* queue.                                                                  *)
(***************************************************************************)
EXTENDS UsbEvents, SequenceTheorems, TLAPS

InQueue(q, e) == \E i \in 1 .. Len(q) : q[i] = e

\* What enqueueing does to a queue of events.
LEMMA EnqueuedFacts ==
  ASSUME NEW q \in Seq(UsbEvent), Len(q) <= UsbQueueSize - 1, NEW e \in UsbEvent
  PROVE  /\ Enqueued(q, e) \in Seq(UsbEvent)
         /\ Len(Enqueued(q, e)) <= UsbQueueSize - 1
         /\ HasRoom(q) => /\ Enqueued(q, e) # <<>>
                          /\ Enqueued(q, e)[Len(Enqueued(q, e))] = e
                          /\ InQueue(Enqueued(q, e), e)
         /\ \A f \in UsbEvent : InQueue(q, f) => InQueue(Enqueued(q, e), f)
<1> USE UsbAssumption DEF Enqueued, HasRoom, InQueue
<1>1. CASE Len(q) < UsbQueueSize - 1
  <2>1. /\ Append(q, e) \in Seq(UsbEvent) /\ Len(Append(q, e)) = Len(q) + 1
        /\ Append(q, e)[Len(q) + 1] = e /\ Len(q) \in Nat
        /\ \A i \in 1 .. Len(q) : Append(q, e)[i] = q[i]
    OBVIOUS
  <2> QED BY <1>1, <2>1
<1>2. CASE ~(Len(q) < UsbQueueSize - 1)
  BY <1>2
<1> QED BY <1>1, <1>2

\* And what taking the oldest off does.
LEMMA TailFacts ==
  ASSUME NEW q \in Seq(UsbEvent), q # <<>>
  PROVE  /\ Head(q) \in UsbEvent /\ Tail(q) \in Seq(UsbEvent)
         /\ Len(Tail(q)) = Len(q) - 1 /\ Len(q) \in Nat \ {0}
         /\ Head(q) = q[1]
         /\ \A i \in 1 .. Len(Tail(q)) : Tail(q)[i] = q[i + 1]
         /\ Tail(q) = <<>> <=> Len(q) = 1
         /\ \A f \in UsbEvent : InQueue(q, f) /\ f # Head(q) => InQueue(Tail(q), f)
<1>1. /\ Head(q) \in UsbEvent /\ Tail(q) \in Seq(UsbEvent)
      /\ Len(Tail(q)) = Len(q) - 1 /\ Len(q) \in Nat \ {0}
      /\ Head(q) = q[1]
      /\ \A i \in 1 .. Len(Tail(q)) : Tail(q)[i] = q[i + 1]
  OBVIOUS
<1>2. Tail(q) = <<>> <=> Len(q) = 1
  <2>1. \A s \in Seq(UsbEvent) : s = <<>> <=> Len(s) = 0
    <3> TAKE s \in Seq(UsbEvent)
    <3>1. /\ Len(<<>>) = 0
          /\ \A t \in Seq(UsbEvent) : t # <<>> => Len(t) \in Nat \ {0}
      BY EmptySeq
    <3> QED BY <3>1
  <2>2. Len(Tail(q)) = 0 <=> Len(q) = 1
    BY <1>1
  <2>3. Tail(q) \in Seq(UsbEvent)
    BY <1>1
  <2>4. Tail(q) = <<>> <=> Len(Tail(q)) = 0
    BY <2>1, <2>3, Zenon
  <2> QED BY <2>2, <2>4, Zenon
<1>3. ASSUME NEW f \in UsbEvent, InQueue(q, f), f # Head(q) PROVE InQueue(Tail(q), f)
  <2>1. PICK i \in 1 .. Len(q) : q[i] = f
    BY <1>3 DEF InQueue
  <2>2. i # 1 /\ i - 1 \in 1 .. Len(Tail(q)) /\ (i - 1) + 1 = i
    BY <1>1, <1>3, <2>1
  <2>3. \A j \in 1 .. Len(Tail(q)) : Tail(q)[j] = q[j + 1]
    BY <1>1
  <2>4. Tail(q)[i - 1] = q[(i - 1) + 1]
    BY <2>2, <2>3
  <2>5. Tail(q)[i - 1] = f
    BY <2>1, <2>2, <2>4
  <2> QED BY <2>2, <2>5 DEF InQueue
<1> QED BY <1>1, <1>2, <1>3

\* Everything keeps its type; the newest event is dropped only if some event is.
THEOREM UsbTypesCorrect == UsbSpec => [](UsbTypeOK /\ (unheard => lost))
<1>1. UsbInit => UsbTypeOK /\ (unheard => lost)
  <2>1. <<>> \in Seq(UsbEvent) /\ Len(<<>>) <= UsbQueueSize - 1
    BY UsbAssumption
  <2> QED BY <2>1 DEF UsbInit, UsbTypeOK, DriverState, MainAt
<1>2. UsbTypeOK /\ (unheard => lost) /\ [UsbNext]_usbVars => UsbTypeOK' /\ (unheard => lost)'
  <2> SUFFICES ASSUME UsbTypeOK, unheard => lost, [UsbNext]_usbVars
               PROVE UsbTypeOK' /\ (unheard => lost)'
    OBVIOUS
  <2> USE UsbAssumption DEF UsbTypeOK, DriverState, MainAt, mainVars
  <2>1. ASSUME NEW e \in UsbEvent, Notify(e)
        PROVE /\ events' \in Seq(UsbEvent) /\ Len(events') <= UsbQueueSize - 1
              /\ unheard' \in BOOLEAN /\ lost' \in BOOLEAN /\ (unheard => lost)'
    BY <2>1, EnqueuedFacts DEF Notify, HasRoom
  <2>2. CASE BusReset
    BY <2>2, <2>1 DEF BusReset, UsbEvent
  <2>3. CASE BusSuspend
    BY <2>3, <2>1 DEF BusSuspend, UsbEvent
  <2>4. CASE BusResume
    BY <2>4, <2>1 DEF BusResume, UsbEvent
  <2>5. CASE Configure
    <3>1. CASE ~suspendSeen
      BY <2>5, <2>1, <3>1 DEF Configure, ReportConfigured, UsbEvent
    <3>2. CASE suspendSeen
      <4> DEFINE woken == Enqueued(events, "wakeup")
      <4>1. "wakeup" \in UsbEvent /\ "configured" \in UsbEvent
        BY DEF UsbEvent
      <4>2. woken \in Seq(UsbEvent) /\ Len(woken) <= UsbQueueSize - 1
        BY <4>1, EnqueuedFacts
      <4>3. /\ Enqueued(woken, "configured") \in Seq(UsbEvent)
            /\ Len(Enqueued(woken, "configured")) <= UsbQueueSize - 1
        BY <4>1, <4>2, EnqueuedFacts
      <4> QED BY <2>5, <3>2, <4>3 DEF Configure, ReportConfigured, HasRoom
    <3> QED BY <3>1, <3>2
  <2>6. CASE Unconfigure
    BY <2>6, <2>1 DEF Unconfigure, UsbEvent
  <2>7. CASE HandleEvent
    <3>1. Tail(events) \in Seq(UsbEvent) /\ Len(Tail(events)) <= UsbQueueSize - 1
      BY <2>7, TailFacts DEF HandleEvent
    <3>2. device' \in {"init", "configured", "suspend"}
      BY <2>7 DEF HandleEvent, DeviceAfter, Configuration
    <3>3. suspendSeen' \in BOOLEAN /\ lit' \in BOOLEAN /\ raced' \in BOOLEAN
      BY <2>7 DEF HandleEvent
    <3> QED BY <2>7, <3>1, <3>2, <3>3 DEF HandleEvent
  <2>8. CASE QueueDone
    BY <2>8 DEF QueueDone
  <2>9. CASE TestSuspended
    BY <2>9 DEF TestSuspended
  <2>10. CASE PowerDown
    BY <2>10 DEF PowerDown
  <2>11. CASE RestOfLoop
    BY <2>11 DEF RestOfLoop
  <2>12. CASE UNCHANGED usbVars
    BY <2>12 DEF usbVars
  <2> QED BY <2>2, <2>3, <2>4, <2>5, <2>6, <2>7, <2>8, <2>9, <2>10, <2>11, <2>12 DEF UsbNext
<1> QED BY <1>1, <1>2, PTL DEF UsbSpec

-----------------------------------------------------------------------------
(* The device state *)

Matching ==
  CASE driver = "suspended" -> "suspend"
    [] driver = "active"    -> "configured"
    [] driver = "ready"     -> "init"

\* Whether a driver in state d may have reported e last.
Agrees(e, d) ==
  d \in CASE e = "suspend"                   -> {"suspended"}
          [] e = "wakeup"                    -> {"ready", "active"}
          [] e = "configured"                -> {"active"}
          [] e \in {"reset", "unconfigured"} -> {"ready"}

\* The last report is in the queue, or in the device state.
Reported ==
  /\ configured <=> driver = "active" \/ (driver = "suspended" /\ saved = "active")
  /\ ~unheard => IF events = <<>> THEN device = Matching ELSE Agrees(events[Len(events)], driver)

\* A report after the driver's change leaves Reported true.
LEMMA NotifyReports ==
  ASSUME UsbTypeOK, NEW e \in UsbEvent, Notify(e), Agrees(e, driver')
  PROVE  ~unheard' => events' # <<>> /\ Agrees(events'[Len(events')], driver')
BY UsbAssumption, EnqueuedFacts DEF UsbTypeOK, Notify

\* Whatever is dropped on the way, what was heard last is what the device is.
THEOREM DeviceIsTheDrivers == UsbSpec => []DeviceMatches
<1>1. UsbInit => Reported
  BY DEF UsbInit, Reported, Matching
<1>2. UsbTypeOK /\ Reported /\ [UsbNext]_usbVars => Reported'
  <2> SUFFICES ASSUME UsbTypeOK, Reported, [UsbNext]_usbVars PROVE Reported'
    OBVIOUS
  <2> USE DEF Reported, mainVars
  <2>1. CASE BusReset
    <3>1. Agrees("reset", driver') /\ "reset" \in UsbEvent
      BY <2>1 DEF BusReset, Agrees, UsbEvent
    <3> QED BY <2>1, <3>1, NotifyReports DEF BusReset
  <2>2. CASE BusSuspend
    <3>1. Agrees("suspend", driver') /\ "suspend" \in UsbEvent
      BY <2>2 DEF BusSuspend, Agrees, UsbEvent
    <3> QED BY <2>2, <3>1, NotifyReports DEF BusSuspend, UsbTypeOK, DriverState
  <2>3. CASE BusResume
    <3>1. Agrees("wakeup", driver') /\ "wakeup" \in UsbEvent
      BY <2>3 DEF BusResume, Agrees, UsbEvent, UsbTypeOK
    <3> QED BY <2>3, <3>1, NotifyReports DEF BusResume, UsbTypeOK
  <2>4. CASE Configure
    <3>1. Agrees("configured", driver') /\ "configured" \in UsbEvent
      BY <2>4 DEF Configure, Agrees, UsbEvent
    <3>2. CASE ~suspendSeen
      BY <2>4, <3>1, <3>2, NotifyReports DEF Configure, ReportConfigured
    <3>3. CASE suspendSeen
      <4> DEFINE woken == Enqueued(events, "wakeup")
      <4>1. woken \in Seq(UsbEvent) /\ Len(woken) <= UsbQueueSize - 1
        BY EnqueuedFacts DEF UsbEvent, UsbTypeOK
      <4>2. HasRoom(woken) => /\ Enqueued(woken, "configured") # <<>>
                              /\ Enqueued(woken, "configured")[Len(Enqueued(woken, "configured"))]
                                   = "configured"
        BY <3>1, <4>1, EnqueuedFacts
      <4>3. events' = Enqueued(woken, "configured") /\ unheard' = ~HasRoom(woken)
        BY <2>4, <3>3 DEF Configure, ReportConfigured
      <4>4. ~unheard' => events' # <<>> /\ Agrees(events'[Len(events')], driver')
        BY <3>1, <4>2, <4>3 DEF Agrees
      <4> QED BY <2>4, <4>4 DEF Configure
    <3> QED BY <3>2, <3>3
  <2>5. CASE Unconfigure
    <3>1. Agrees("unconfigured", driver') /\ "unconfigured" \in UsbEvent
      BY <2>5 DEF Unconfigure, Agrees, UsbEvent
    <3> QED BY <2>5, <3>1, NotifyReports DEF Unconfigure
  <2>6. CASE HandleEvent
    <3>1. events \in Seq(UsbEvent) /\ events # <<>>
      BY <2>6 DEF HandleEvent, UsbTypeOK
    <3>2. /\ events' = Tail(events) /\ device' = DeviceAfter(Head(events))
          /\ UNCHANGED <<driver, saved, configured, unheard>>
      BY <2>6 DEF HandleEvent
    <3>3. CASE Len(events) = 1
      <4>1. events' = <<>> /\ Head(events) = events[Len(events)] /\ Head(events) \in UsbEvent
        BY <3>1, <3>2, <3>3, TailFacts
      <4>2. ~unheard => Agrees(Head(events), driver)
        BY <3>1, <4>1
      <4>3. Agrees(Head(events), driver) => device' = Matching
        BY <3>2, <4>1 DEF Agrees, DeviceAfter, Configuration, Matching, UsbEvent,
                          UsbTypeOK, DriverState
      <4>4. Matching' = Matching
        BY <3>2 DEF Matching
      <4> QED BY <3>2, <4>1, <4>2, <4>3, <4>4
    <3>4. CASE Len(events) # 1
      <4>1. /\ events' # <<>> /\ Len(events') = Len(events) - 1
            /\ Len(events) \in Nat \ {0}
            /\ \A i \in 1 .. Len(events') : events'[i] = events[i + 1]
        BY <3>1, <3>2, <3>4, TailFacts
      <4>2. events'[Len(events')] = events[Len(events)]
        <5>1. Len(events') \in 1 .. Len(events') /\ Len(events') + 1 = Len(events)
          BY <3>4, <4>1
        <5> QED BY <4>1, <5>1
      <4> QED BY <3>1, <3>2, <4>1, <4>2 DEF Agrees
    <3> QED BY <3>3, <3>4
  <2>7. CASE UNCHANGED <<driver, saved, configured, events, device, unheard>>
    BY <2>7 DEF Matching, Agrees
  <2> QED BY <2>1, <2>2, <2>3, <2>4, <2>5, <2>6, <2>7
          DEF UsbNext, QueueDone, TestSuspended, PowerDown, RestOfLoop, usbVars
<1>3. Reported => DeviceMatches
  BY DEF Reported, DeviceMatches, Matching
<1> QED BY <1>1, <1>2, <1>3, UsbTypesCorrect, PTL DEF UsbSpec

-----------------------------------------------------------------------------
(* The lights *)

Woken == InQueue(events, "wakeup")
Suspends == InQueue(events, "suspend")

\* The last suspend or wake-up event in the queue is a suspension.
SuspendPending ==
  \E i \in 1 .. Len(events) :
    events[i] = "suspend" /\ \A j \in i + 1 .. Len(events) : events[j] # "wakeup"

\* A wake-up is on its way, or comes with the next configuration.
WillWake ==
  /\ suspendSeen \/ Woken
  /\ driver = "active" => Woken

\* No event is dropped: a suspended driver has said so; a loop about to power
\* down, that has not taken the suspend event, has it in the queue; and a
\* keyboard that is dark for no other reason will be woken.
DarkExplained ==
  ~lost =>
    /\ driver = "suspended" => \/ SuspendPending
                               \/ suspendSeen /\ ~Woken
    /\ main = "powerdown" => Suspends \/ WillWake
    /\ ~lit /\ ~raced => WillWake

\* Unless an event is dropped or the power-down precedes the suspend event, a
\* keyboard that its host uses again lights up, however it got there.
THEOREM LightsComeBack == UsbSpec => []LightsBack
<1>1. UsbInit => DarkExplained
  BY DEF UsbInit, DarkExplained
<1>2. UsbTypeOK /\ DarkExplained /\ [UsbNext]_usbVars => DarkExplained'
  <2> SUFFICES ASSUME UsbTypeOK, DarkExplained, [UsbNext]_usbVars, ~lost' PROVE DarkExplained'
    BY DEF DarkExplained
  <2> USE DEF mainVars
  <2>1. ASSUME NEW e \in UsbEvent, Notify(e)
        PROVE  /\ ~lost /\ HasRoom(events) /\ events' = Append(events, e)
               /\ Woken => Woken'
               /\ Suspends => Suspends'
               /\ e = "wakeup" => Woken'
               /\ e = "suspend" => Suspends'
    <3>1. ~lost /\ HasRoom(events) /\ events' = Enqueued(events, e)
      BY <2>1 DEF Notify
    <3>2. "wakeup" \in UsbEvent /\ "suspend" \in UsbEvent
      BY DEF UsbEvent
    <3>3. events \in Seq(UsbEvent) /\ Len(events) <= UsbQueueSize - 1
      BY DEF UsbTypeOK
    <3>4. /\ InQueue(events', e)
          /\ \A f \in UsbEvent : InQueue(events, f) => InQueue(events', f)
      BY <3>1, <3>3, EnqueuedFacts
    <3>5. events' = Append(events, e)
      BY <3>1 DEF Enqueued, HasRoom
    <3> QED BY <3>1, <3>2, <3>4, <3>5 DEF Woken, Suspends
  <2>2. CASE BusReset
    <3>1. Notify("reset") /\ "reset" \in UsbEvent /\ driver' = "ready"
          /\ UNCHANGED <<suspendSeen, main, lit, raced>>
      BY <2>2 DEF BusReset, UsbEvent
    <3>2. ~lost /\ (Woken => Woken') /\ (Suspends => Suspends')
      BY <3>1, <2>1
    <3> QED BY <3>1, <3>2 DEF DarkExplained, WillWake
  <2>3. CASE BusSuspend
    <3>1. Notify("suspend") /\ "suspend" \in UsbEvent /\ driver' = "suspended"
          /\ UNCHANGED <<suspendSeen, main, lit, raced>>
      BY <2>3 DEF BusSuspend, UsbEvent
    <3>2. ~lost /\ (Woken => Woken') /\ Suspends' /\ events' = Append(events, "suspend")
      BY <3>1, <2>1
    <3>3. SuspendPending'
      <4>1. /\ Len(events') \in 1 .. Len(events') /\ events'[Len(events')] = "suspend"
            /\ Len(events') + 1 .. Len(events') = {}
        BY <3>1, <3>2 DEF UsbTypeOK
      <4> QED BY <4>1 DEF SuspendPending
    <3> QED BY <3>1, <3>2, <3>3 DEF DarkExplained, WillWake
  <2>4. CASE BusResume
    <3>1. Notify("wakeup") /\ "wakeup" \in UsbEvent /\ driver' # "suspended"
          /\ UNCHANGED <<suspendSeen, main, lit, raced>>
      BY <2>4 DEF BusResume, UsbEvent, UsbTypeOK
    <3>2. ~lost /\ Woken'
      BY <3>1, <2>1
    <3> QED BY <3>1, <3>2 DEF DarkExplained, WillWake
  <2>5. CASE Configure
    <3>1. driver' = "active" /\ UNCHANGED <<suspendSeen, main, lit, raced>>
      BY <2>5 DEF Configure
    <3>2. /\ ~lost
          /\ Woken => Woken'
          /\ Suspends => Suspends'
          /\ suspendSeen => Woken'
      <4>1. CASE ~suspendSeen
        <5>1. Notify("configured") /\ "configured" \in UsbEvent
          BY <2>5, <4>1 DEF Configure, ReportConfigured, UsbEvent
        <5> QED BY <2>1, <4>1, <5>1
      <4>2. CASE suspendSeen
        <5> DEFINE woken == Enqueued(events, "wakeup")
        <5>1. /\ ~lost /\ HasRoom(woken) /\ events' = Enqueued(woken, "configured")
          BY <2>5, <4>2 DEF Configure, ReportConfigured
        <5>2. {"wakeup", "suspend", "configured"} \subseteq UsbEvent
          BY DEF UsbEvent
        <5>3. events \in Seq(UsbEvent) /\ Len(events) <= UsbQueueSize - 1
          BY DEF UsbTypeOK
        <5>4. HasRoom(events)
          BY <5>1, <5>3, UsbAssumption DEF HasRoom, Enqueued
        <5>5. /\ woken \in Seq(UsbEvent) /\ Len(woken) <= UsbQueueSize - 1
              /\ InQueue(woken, "wakeup")
              /\ \A f \in UsbEvent : InQueue(events, f) => InQueue(woken, f)
          BY <5>2, <5>3, <5>4, EnqueuedFacts
        <5>6. \A f \in UsbEvent : InQueue(woken, f) => InQueue(events', f)
          <6> HIDE DEF woken
          <6> QED BY <5>1, <5>2, <5>5, EnqueuedFacts
        <5> QED BY <5>1, <5>2, <5>5, <5>6 DEF Woken, Suspends
      <4> QED BY <4>1, <4>2
    <3> QED BY <3>1, <3>2 DEF DarkExplained, WillWake
  <2>6. CASE Unconfigure
    <3>1. Notify("unconfigured") /\ "unconfigured" \in UsbEvent /\ driver' = "ready"
          /\ UNCHANGED <<suspendSeen, main, lit, raced>>
      BY <2>6 DEF Unconfigure, UsbEvent
    <3>2. ~lost /\ (Woken => Woken') /\ (Suspends => Suspends')
      BY <3>1, <2>1
    <3> QED BY <3>1, <3>2 DEF DarkExplained, WillWake
  <2>7. CASE HandleEvent
    <3> DEFINE e == Head(events)
    <3>1. /\ events \in Seq(UsbEvent) /\ events # <<>> /\ main = "queue"
          /\ events' = Tail(events) /\ UNCHANGED <<driver, main, lost>>
          /\ suspendSeen' = (e = "suspend" \/ (suspendSeen /\ e # "wakeup"))
          /\ lit' = (lit \/ e = "wakeup") /\ raced' = (raced /\ e # "wakeup")
      BY <2>7 DEF HandleEvent, UsbTypeOK
    <3>2. /\ Len(events) \in Nat \ {0} /\ Len(events') = Len(events) - 1 /\ e = events[1]
          /\ \A i \in 1 .. Len(events') : events'[i] = events[i + 1]
      BY <3>1, TailFacts
    <3>3. Woken /\ e # "wakeup" => Woken'
      BY <3>1, TailFacts DEF UsbEvent, Woken
    <3>4. Woken' => Woken
      <4>1. ASSUME NEW i \in 1 .. Len(events'), events'[i] = "wakeup" PROVE Woken
        BY <3>2, <4>1 DEF InQueue, Woken
      <4> QED BY <4>1 DEF InQueue, Woken
    <3>5. SuspendPending => (SuspendPending' \/ (suspendSeen' /\ ~Woken'))
      <4>1. ASSUME NEW i \in 1 .. Len(events), events[i] = "suspend",
                   \A j \in i + 1 .. Len(events) : events[j] # "wakeup"
            PROVE  SuspendPending' \/ (suspendSeen' /\ ~Woken')
        <5>1. CASE i = 1
          <6>1. suspendSeen'
            BY <3>1, <3>2, <4>1, <5>1
          <6>2. ASSUME NEW j \in 1 .. Len(events') PROVE events'[j] # "wakeup"
            <7>1. j + 1 \in i + 1 .. Len(events)
              BY <3>2, <5>1
            <7> QED BY <3>2, <4>1, <7>1
          <6> QED BY <6>1, <6>2 DEF InQueue, Woken
        <5>2. CASE i # 1
          <6>1. i - 1 \in 1 .. Len(events') /\ (i - 1) + 1 = i
            BY <3>2, <5>2
          <6>2. events'[i - 1] = "suspend"
            BY <3>2, <4>1, <6>1
          <6>3. ASSUME NEW j \in (i - 1) + 1 .. Len(events') PROVE events'[j] # "wakeup"
            <7>1. j + 1 \in i + 1 .. Len(events) /\ j \in 1 .. Len(events')
              BY <3>2, <6>1
            <7> QED BY <3>2, <4>1, <7>1
          <6> QED BY <6>1, <6>2, <6>3 DEF SuspendPending
        <5> QED BY <5>1, <5>2
      <4> QED BY <4>1 DEF SuspendPending
    <3>6. suspendSeen /\ ~Woken => suspendSeen' /\ ~Woken'
      <4>1. ~Woken => e # "wakeup"
        BY <3>2 DEF InQueue, Woken
      <4> QED BY <3>1, <3>4, <4>1
    <3> QED BY <3>1, <3>3, <3>5, <3>6 DEF DarkExplained, WillWake
  <2>8. CASE TestSuspended
    <3>1. UNCHANGED <<driver, events, suspendSeen, lit, lost, raced>>
          /\ (main' = "powerdown" => driver = "suspended")
      BY <2>8 DEF TestSuspended
    <3>2. SuspendPending => Suspends
      BY DEF SuspendPending, InQueue, Suspends
    <3> QED BY <3>1, <3>2 DEF DarkExplained, WillWake, SuspendPending, Woken, Suspends
  <2>9. CASE PowerDown
    <3>1. /\ main = "powerdown" /\ main' = "test"
          /\ UNCHANGED <<driver, events, suspendSeen, lost>>
          /\ ~raced' => ~\E i \in DOMAIN events : events[i] = "suspend"
      BY <2>9 DEF PowerDown
    <3>2. Suspends => raced'
      <4>1. DOMAIN events = 1 .. Len(events)
        BY DEF UsbTypeOK
      <4> QED BY <3>1, <4>1 DEF InQueue, Suspends
    <3> QED BY <3>1, <3>2 DEF DarkExplained, WillWake, SuspendPending, Woken, Suspends
  <2>10. CASE QueueDone \/ RestOfLoop \/ UNCHANGED usbVars
    <3>1. UNCHANGED <<driver, events, suspendSeen, lit, lost, raced>>
          /\ (main' = "powerdown" => main = "powerdown")
      BY <2>10 DEF QueueDone, RestOfLoop, usbVars
    <3> QED BY <3>1 DEF DarkExplained, WillWake, SuspendPending, Woken, Suspends
  <2> QED BY <2>2, <2>3, <2>4, <2>5, <2>6, <2>7, <2>8, <2>9, <2>10 DEF UsbNext
<1>3. UsbTypeOK /\ DarkExplained => LightsBack
  <2>1. ~InQueue(<<>>, "wakeup")
    BY DEF InQueue
  <2> QED BY <2>1 DEF DarkExplained, WillWake, Woken, LightsBack
<1> QED BY <1>1, <1>2, <1>3, UsbTypesCorrect, PTL DEF UsbSpec
=============================================================================
