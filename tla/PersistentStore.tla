-------------------------- MODULE PersistentStore --------------------------
(***************************************************************************)
(* What the firmware gets of its emulated EEPROM: reads return what was    *)
(* written last, and a restart brings it back.  A power loss in the middle *)
(* of a write may lose the bytes of that write, and one while the storage  *)
(* is erased and rewritten may lose any byte, to the erased state; but no  *)
(* other byte changes, and none is ever made up.                           *)
(***************************************************************************)
CONSTANTS Address, Blank

VARIABLES
  up,      \* reads can be served
  data,    \* what they return, or would if the power were on
  before,  \* the same before the write under way
  atRisk,  \* the bytes a power loss now may cost
  failed   \* the storage has reported an error: nothing is promised

vars == <<up, data, before, atRisk, failed>>

Init == up = FALSE /\ data = Blank /\ before = Blank /\ atRisk = {} /\ failed = FALSE

\* What a byte may be after a power loss.
Possible(b) == IF b \in atRisk THEN {data[b], before[b], Blank[b]} ELSE {data[b]}

\* A restart may have to reclaim the storage before anything else.
Restore ==
  /\ ~up /\ up'
  /\ failed \/ \A b \in Address : data'[b] \in Possible(b)
  /\ before' = data' /\ atRisk' \in {{}, Address} /\ UNCHANGED failed

PowerLoss == up /\ ~up' /\ UNCHANGED <<data, before, atRisk, failed>>

Write ==
  /\ up /\ up' /\ atRisk = {} /\ before' = data
  /\ \A b \in Address \ atRisk' : data'[b] = data[b]
  /\ UNCHANGED failed

\* Out of room in the middle of a write, or everything is to be erased.
Reclaim == up /\ up' /\ atRisk' = Address /\ UNCHANGED <<data, before, failed>>

\* Rewriting the storage makes good what failed before.
Stored ==
  /\ up /\ up' /\ atRisk' = {} /\ data' = data /\ before' = data
  /\ failed' = (failed /\ atRisk # Address)

Erased ==
  /\ up /\ up' /\ atRisk = Address /\ atRisk' = {}
  /\ data' = Blank /\ before' = Blank /\ failed' = FALSE

Fail == up' /\ failed'

Next == Restore \/ PowerLoss \/ Write \/ Reclaim \/ Stored \/ Erased \/ Fail

Spec == Init /\ [][Next]_vars
=============================================================================
