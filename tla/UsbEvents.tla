----------------------------- MODULE UsbEvents -----------------------------
(***************************************************************************)
(* USB device events, tmk_core/protocol/chibios/usb_main.c: the interrupt  *)
(* puts what happens on the bus in a bounded queue, and the main loop      *)
(* works the queue off, keeps the device state that lighting and host      *)
(* detection are told of, and stays in a loop of its own, everything       *)
(* powered down, while the driver says that the bus is suspended.  The     *)
(* driver itself is ChibiOS's; driver, saved and configured are what       *)
(* usb_main.c sees of it.                                                  *)
(*                                                                         *)
(* unheard, lost and raced are history.                                    *)
(***************************************************************************)
EXTENDS Naturals, Sequences

CONSTANT UsbQueueSize \* USB_EVENT_QUEUE_SIZE, one slot of which stays free

ASSUME UsbAssumption == UsbQueueSize \in Nat /\ UsbQueueSize > 1

VARIABLES
  driver,       \* USB_DRIVER.state
  saved,        \* the driver's state before it was suspended
  configured,   \* USB_DRIVER.configuration # 0
  events,       \* event_queue
  suspendSeen,  \* last_suspend_state
  device,       \* usb_device_state.configure_state
  main,         \* where the main loop is
  lit,          \* the lights are on: off is suspend_power_down, on suspend_wakeup_init
  unheard,      \* the newest event was dropped
  lost,         \* some event has been dropped
  raced         \* a power-down went before the suspend event that explains it

usbVars ==
  <<driver, saved, configured, events, suspendSeen, device, main, lit, unheard, lost, raced>>

UsbEvent == {"reset", "suspend", "wakeup", "configured", "unconfigured"}
DriverState == {"ready", "active", "suspended"}

\* In the main loop: the queue's task, the test for suspension, powering down,
\* and everything else.
MainAt == {"queue", "test", "powerdown", "rest"}

UsbInit ==
  /\ driver = "ready" /\ saved = "ready" /\ configured = FALSE
  /\ events = <<>> /\ suspendSeen = FALSE
  /\ device = "init" /\ main = "queue" /\ lit = TRUE
  /\ unheard = FALSE /\ lost = FALSE /\ raced = FALSE

-----------------------------------------------------------------------------
(* The interrupt *)

\* usb_event_queue_enqueue, whose result no caller looks at.
Enqueued(q, e) == IF Len(q) < UsbQueueSize - 1 THEN Append(q, e) ELSE q

HasRoom(q) == Len(q) < UsbQueueSize - 1

\* usb_event_cb.
Notify(e) ==
  /\ events' = Enqueued(events, e)
  /\ unheard' = ~HasRoom(events)
  /\ lost' = (lost \/ unheard')

\* Mutant: configuration is reported alone, also after a suspension.
ReportConfiguredOnly == Notify("configured")

\* After a suspension the configuration by the host stands for a wake-up too.
ReportConfigured ==
  IF ~suspendSeen THEN Notify("configured")
  ELSE LET woken == Enqueued(events, "wakeup")
       IN /\ events' = Enqueued(woken, "configured")
          /\ unheard' = ~HasRoom(woken)
          /\ lost' = (lost \/ unheard')

mainVars == <<suspendSeen, device, main, lit, raced>>

BusReset ==
  /\ driver' = "ready" /\ configured' = FALSE
  /\ Notify("reset")
  /\ UNCHANGED <<saved, mainVars>>

BusSuspend ==
  /\ driver # "suspended"
  /\ saved' = driver /\ driver' = "suspended"
  /\ Notify("suspend")
  /\ UNCHANGED <<configured, mainVars>>

\* The host resumes the bus, on its own or woken by usbWakeupHost.
BusResume ==
  /\ driver = "suspended"
  /\ driver' = saved
  /\ Notify("wakeup")
  /\ UNCHANGED <<saved, configured, mainVars>>

Configure ==
  /\ driver \in {"ready", "active"}
  /\ driver' = "active" /\ configured' = TRUE
  /\ ReportConfigured
  /\ UNCHANGED <<saved, mainVars>>

Unconfigure ==
  /\ driver = "active"
  /\ driver' = "ready" /\ configured' = FALSE
  /\ Notify("unconfigured")
  /\ UNCHANGED <<saved, mainVars>>

-----------------------------------------------------------------------------
(* The main loop *)

Configuration == IF configured THEN "configured" ELSE "init"

\* Mutant: a resumed device counts as configured.
DeviceAfterAlways(e) ==
  CASE e = "suspend"                  -> "suspend"
    [] e \in {"wakeup", "configured"} -> "configured"
    [] OTHER                          -> "init"

\* usb_device_state_set_*: what event e makes of the device state.
DeviceAfter(e) ==
  CASE e = "suspend"                  -> "suspend"
    [] e \in {"wakeup", "configured"} -> Configuration
    [] OTHER                          -> "init"

\* usb_event_queue_task takes one event.
HandleEvent ==
  /\ main = "queue" /\ events # <<>>
  /\ events' = Tail(events)
  /\ LET e == Head(events)
     IN /\ device' = DeviceAfter(e)
        /\ suspendSeen' = (e = "suspend" \/ (suspendSeen /\ e # "wakeup"))
        /\ lit' = (lit \/ e = "wakeup")
        /\ raced' = (raced /\ e # "wakeup")
  /\ UNCHANGED <<driver, saved, configured, main, unheard, lost>>

QueueDone ==
  /\ main = "queue" /\ events = <<>>
  /\ main' = "test"
  /\ UNCHANGED <<driver, saved, configured, events, suspendSeen, device, lit, unheard, lost, raced>>

\* protocol_pre_task looks at the driver, and again after each power-down.
TestSuspended ==
  /\ main = "test"
  /\ main' = IF driver = "suspended" THEN "powerdown" ELSE "rest"
  /\ UNCHANGED <<driver, saved, configured, events, suspendSeen, device, lit, unheard, lost, raced>>

PowerDown ==
  /\ main = "powerdown"
  /\ main' = "test"
  /\ lit' = FALSE
  /\ raced' = (raced \/ \E i \in DOMAIN events : events[i] = "suspend")
  /\ UNCHANGED <<driver, saved, configured, events, suspendSeen, device, unheard, lost>>

RestOfLoop ==
  /\ main = "rest"
  /\ main' = "queue"
  /\ UNCHANGED <<driver, saved, configured, events, suspendSeen, device, lit, unheard, lost, raced>>

UsbNext ==
  \/ BusReset \/ BusSuspend \/ BusResume \/ Configure \/ Unconfigure
  \/ HandleEvent \/ QueueDone \/ TestSuspended \/ PowerDown \/ RestOfLoop

UsbSpec == UsbInit /\ [][UsbNext]_usbVars

-----------------------------------------------------------------------------
(* Properties *)

UsbTypeOK ==
  /\ driver \in DriverState /\ saved \in {"ready", "active"}
  /\ configured \in BOOLEAN
  /\ events \in Seq(UsbEvent) /\ Len(events) <= UsbQueueSize - 1
  /\ suspendSeen \in BOOLEAN
  /\ device \in {"init", "configured", "suspend"}
  /\ main \in MainAt
  /\ <<lit, unheard, lost, raced>> \in BOOLEAN \X BOOLEAN \X BOOLEAN \X BOOLEAN

\* Events are interpreted when they are taken off the queue, by a driver that
\* has moved on; all the same, once they are worked off the device state is the
\* driver's, whatever events were dropped on the way, unless it was the last.
DeviceMatches ==
  events = <<>> /\ ~unheard =>
    device = CASE driver = "suspended" -> "suspend"
               [] driver = "active"    -> "configured"
               [] driver = "ready"     -> "init"

\* The lights come back: a keyboard whose host has configured it again, with or
\* without a wake-up signal, is not left powered down.  It is after a dropped
\* event, and when it powers down before it has taken the suspend event.
LightsBack ==
  main = "rest" /\ events = <<>> /\ driver = "active" /\ ~lost /\ ~raced => lit
=============================================================================
