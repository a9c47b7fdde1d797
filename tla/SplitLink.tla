----------------------------- MODULE SplitLink -----------------------------
(***************************************************************************)
(* The matrix of the other half of a split keyboard: quantum/split_common  *)
(* and matrix_post_scan.  The other half publishes its debounced matrix    *)
(* and an 8-bit checksum; the half at the host reads the checksum, and the *)
(* matrix only when the checksum tells it apart from what it has or the    *)
(* last transfer is long ago.  Transactions fail, and are tried again; a   *)
(* half that keeps failing is taken to be lost, its keys are let go, and   *)
(* it is asked only once in a while.                                       *)
(*                                                                         *)
(* Between two transactions the other half may publish.  A transfer of the *)
(* matrix may arrive garbled, a checksum may not.                          *)
(*                                                                         *)
(* published and still are history.                                        *)
(***************************************************************************)
EXTENDS Naturals

CONSTANTS
  Image, NoKeys,        \* what the other half's matrix may be, and the empty one
  Garbled,              \* and what a transfer may make of it
  Crc,                  \* crc8(), on both
  MaxErrors,            \* SPLIT_MAX_CONNECTION_ERRORS
  Retries,              \* 10, the attempts per scan at a half that is connected
  SyncThrottle,         \* FORCED_SYNC_THROTTLE_MS
  CheckTimeout,         \* SPLIT_CONNECTION_CHECK_TIMEOUT
  ErrorsMax,            \* UINT8_MAX
  SplitGap              \* the longest time between two scans

ASSUME SplitAssumption ==
  /\ NoKeys \in Image
  /\ Crc \in [Image \cup Garbled -> Nat]
  /\ MaxErrors \in Nat \ {0} /\ ErrorsMax \in Nat /\ MaxErrors <= ErrorsMax
  /\ Retries \in Nat \ {0}
  /\ SyncThrottle \in Nat /\ CheckTimeout \in Nat \ {0} /\ SplitGap \in Nat \ {0}

VARIABLES
  there,        \* the other half's matrix, as it last published it
  shmem,        \* split_shmem->smatrix.matrix of the half at the host
  lastMatrix,   \* last_matrix
  half,         \* matrix + thatHand
  errors,       \* connection_errors
  lastUpdate,   \* timer_elapsed32(last_update), at most SyncThrottle
  sinceCheck,   \* timer_elapsed(connection_check_timer), at most CheckTimeout
  wasConnected, \* last_connected
  step,         \* what the half at the host does next
  tries,        \* the attempts left in this scan
  sum,          \* curr_checksum
  published,    \* what the other half has shown since this scan began
  still         \* for how long neither half nor wire has done anything new

splitVars ==
  <<there, shmem, lastMatrix, half, errors, lastUpdate, sinceCheck, wasConnected,
    step, tries, sum, published, still>>

linkVars == <<errors, sinceCheck, wasConnected>>

SplitInit ==
  /\ there = NoKeys /\ shmem = NoKeys /\ lastMatrix = NoKeys /\ half = NoKeys
  /\ errors = 0 /\ lastUpdate = 0 /\ sinceCheck = 0 /\ wasConnected = FALSE
  /\ step = "idle" /\ tries = 0 /\ sum = 0
  /\ published = {NoKeys} /\ still = 0

Connected == errors < MaxErrors

Capped(t, max) == IF t < max THEN t ELSE max

\* Enough for the last scan's failure to be over and for the transfer to be due.
StillEnough == SyncThrottle + CheckTimeout + 3 * SplitGap

-----------------------------------------------------------------------------
(* The other half *)

\* slave_matrix_handlers_slave, under the lock of the shared memory.
Publish(image) ==
  /\ image # there
  /\ there' = image
  /\ published' = published \cup {image}
  /\ still' = 0
  /\ UNCHANGED <<shmem, lastMatrix, half, linkVars, lastUpdate, step, tries, sum>>

-----------------------------------------------------------------------------
(* The half at the host *)

\* transport_master_if_connected, t after the last scan: a lost half is left
\* alone for CheckTimeout.
BeginScan(t) ==
  LET waited == Capped(sinceCheck + t, CheckTimeout)
  IN /\ step = "idle"
     /\ sinceCheck' = waited
     /\ lastUpdate' = Capped(lastUpdate + t, SyncThrottle)
     /\ still' = Capped(still + t, StillEnough)
     /\ step' = IF Connected \/ waited = CheckTimeout THEN "checksum" ELSE "lost"
     /\ tries' = IF Connected THEN Retries ELSE 1
     /\ published' = {there}
     /\ UNCHANGED <<there, shmem, lastMatrix, half, errors, wasConnected, sum>>

\* An attempt has failed: transaction_handler_master tries again or gives up.
TryAgain ==
  /\ tries' = tries - 1
  /\ step' = IF tries > 1 THEN "checksum" ELSE "failed"
  /\ still' = 0

\* Mutant: only the checksum decides.
TransferDueNever == FALSE

TransferDue == lastUpdate = SyncThrottle

\* read_if_checksum_mismatch: the read of the checksum.
ReadChecksum ==
  /\ step = "checksum"
  /\ \/ /\ sum' = Crc[there]
        /\ IF TransferDue \/ sum' # Crc[shmem]
           THEN /\ step' = "data"
                /\ UNCHANGED <<lastMatrix, half, tries, still>>
           ELSE /\ lastMatrix' = shmem
                /\ step' = "others"
                /\ UNCHANGED <<half, tries, still>>
     \/ /\ TryAgain
        /\ UNCHANGED <<lastMatrix, half, sum>>
  /\ UNCHANGED <<there, shmem, linkVars, lastUpdate, published>>

\* Mutant: what was transferred is not compared with the checksum.
BelievedBlindly(image) == TRUE

Believed(image) == Crc[image] = sum

\* The read of the matrix.
ReadData ==
  /\ step = "data"
  /\ \/ \E image \in {there} \cup Garbled :
          /\ shmem' = image
          /\ \/ /\ Believed(image)
                /\ lastMatrix' = image
                /\ lastUpdate' = 0
                /\ step' = "others"
                /\ still' = IF image = there THEN still ELSE 0
                /\ UNCHANGED tries
             \/ /\ ~Believed(image)
                /\ TryAgain
                /\ UNCHANGED <<lastMatrix, lastUpdate>>
     \/ /\ TryAgain
        /\ UNCHANGED <<shmem, lastMatrix, lastUpdate>>
  /\ UNCHANGED <<there, half, linkVars, sum, published>>

\* The transactions that follow the matrix's: they all succeed or one fails.
OtherTransactions ==
  /\ step = "others"
  /\ step' \in {"done", "failed"}
  /\ still' = IF step' = "done" THEN still ELSE 0
  /\ UNCHANGED <<there, shmem, lastMatrix, half, linkVars, lastUpdate, tries, sum, published>>

\* matrix_post_scan, told that the half is connected.
Accept ==
  /\ half' = lastMatrix
  /\ wasConnected' = TRUE

\* Mutant: a half that is lost keeps its keys.
RejectKept ==
  /\ half' = half
  /\ wasConnected' = FALSE

\* matrix_post_scan, told that it is not.
Reject ==
  /\ half' = IF wasConnected THEN NoKeys ELSE half
  /\ wasConnected' = FALSE

EndGood ==
  /\ step = "done" /\ step' = "idle"
  /\ errors' = 0
  /\ Accept
  /\ UNCHANGED <<there, shmem, lastMatrix, lastUpdate, sinceCheck, tries, sum, published, still>>

EndBad ==
  /\ step = "failed" /\ step' = "idle"
  /\ errors' = IF errors < ErrorsMax THEN errors + 1 ELSE errors
  /\ \/ /\ errors' < MaxErrors /\ Accept
        /\ UNCHANGED sinceCheck
     \/ /\ errors' >= MaxErrors /\ Reject
        /\ sinceCheck' = 0
  /\ UNCHANGED <<there, shmem, lastMatrix, lastUpdate, tries, sum, published, still>>

EndLost ==
  /\ step = "lost" /\ step' = "idle"
  /\ Reject
  /\ UNCHANGED <<there, shmem, lastMatrix, errors, lastUpdate, sinceCheck, tries, sum,
                 published, still>>

SplitNext ==
  \/ \E image \in Image : Publish(image)
  \/ \E t \in 0 .. SplitGap : BeginScan(t)
  \/ ReadChecksum \/ ReadData \/ OtherTransactions
  \/ EndGood \/ EndBad \/ EndLost

SplitSpec == SplitInit /\ [][SplitNext]_splitVars

-----------------------------------------------------------------------------
(* Properties *)

SplitTypeOK ==
  /\ there \in Image
  /\ shmem \in Image \cup Garbled /\ lastMatrix \in Image \cup Garbled
  /\ half \in Image \cup Garbled
  /\ errors \in 0 .. ErrorsMax
  /\ lastUpdate \in 0 .. SyncThrottle /\ sinceCheck \in 0 .. CheckTimeout
  /\ wasConnected \in BOOLEAN
  /\ step \in {"idle", "checksum", "data", "others", "done", "failed", "lost"}
  /\ tries \in 0 .. Retries
  /\ sum \in Nat
  /\ published \subseteq Image
  /\ still \in 0 .. StillEnough

\* A half that is taken to be lost holds no keys.
LostHalfLetsGo == ~Connected /\ step = "idle" => half = NoKeys

\* However a transfer was interrupted, garbled or overtaken by a publication,
\* keys of the other half come and go only with the half itself or because it
\* showed, since the scan began, a matrix with the checksum of what is accepted.
HeldThroughErrors ==
  [][half' # half => ~Connected' \/ \E image \in published : Crc[image] = Crc[half']]_<<half, step>>

\* Two matrices with one checksum look alike, but not for long: a half that has
\* been still, over a wire that was, for a forced synchronisation is known.
ForcedSync == still = StillEnough /\ step = "idle" => half = there
=============================================================================
