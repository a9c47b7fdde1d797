----------------------------- MODULE MCFeatures -----------------------------
(***************************************************************************)
(* The parts of the firmware that share nothing but the main loop's time,  *)
(* model-checked side by side: which of them runs is chosen at the start,  *)
(* and the others keep their initial states.                               *)
(***************************************************************************)
EXTENDS DeferredExec, TapDance, MCCombo, UsbEvents, SplitLink, SplitEncoder

CONSTANTS
  x, y,                    \* tap dance keys
  none, m1, m2, bad        \* matrices of the other half, and a garbled one

DanceKeymaps ==
  {[key \in {x, y} |-> IF key = x THEN "double" ELSE second] : second \in {"move", "toggle"}}

\* m1 and m2 look alike, and to the checksum a garbled transfer may be either.
Collisions == [i \in {none, m1, m2, bad} |-> IF i = none THEN 0 ELSE 1]

VARIABLE feature

Feature == {"deferred", "dance", "combo", "usb", "split", "encoder"}

allVars ==
  <<feature, now, deferredVars, danceVars, comboVars, usbVars, splitVars, encoderVars>>

Init ==
  /\ feature \in Feature
  /\ now = 0
  /\ DeferredInit /\ DanceInit /\ ComboInit /\ UsbInit /\ SplitInit /\ EncoderInit
  \* One build is enough for the features that do not look at it.
  /\ feature # "dance" => maxDances = 1 /\ kind[y] = "move"

Next ==
  /\ UNCHANGED feature
  /\ \/ /\ feature = "deferred" /\ DeferredNext
        /\ UNCHANGED <<danceVars, comboVars, usbVars, splitVars, encoderVars>>
     \/ /\ feature = "dance" /\ DanceNext
        /\ UNCHANGED <<now, deferredVars, comboVars, usbVars, splitVars, encoderVars>>
     \/ /\ feature = "combo" /\ ComboNext
        /\ UNCHANGED <<now, deferredVars, danceVars, usbVars, splitVars, encoderVars>>
     \/ /\ feature = "usb" /\ UsbNext
        /\ UNCHANGED <<now, deferredVars, danceVars, comboVars, splitVars, encoderVars>>
     \/ /\ feature = "split" /\ SplitNext
        /\ UNCHANGED <<now, deferredVars, danceVars, comboVars, usbVars, encoderVars>>
     \/ /\ feature = "encoder" /\ EncoderNext
        /\ UNCHANGED <<now, deferredVars, danceVars, comboVars, usbVars, splitVars>>

\* DanceFairness, for the behaviours in which tap dances run.
Spec ==
  /\ Init /\ [][Next]_allVars
  /\ WF_danceVars(feature = "dance" /\ \E t \in 1 .. DanceGap : DanceTask(t))

TypesOK ==
  DeferredTypeOK /\ DanceTypeOK /\ ComboTypeOK /\ UsbTypeOK /\ SplitTypeOK /\ EncoderTypeOK
=============================================================================
