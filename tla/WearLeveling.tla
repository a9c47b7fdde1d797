--------------------------- MODULE WearLeveling ---------------------------
(***************************************************************************)
(* quantum/wear_leveling/wear_leveling.c: an EEPROM emulated on a flash    *)
(* that can only be erased as a whole.  Its contents live in a cache in    *)
(* RAM; on the flash (the backing store) there are the consolidated data,  *)
(* their checksum, and a log of what was written since.  A full log is     *)
(* consolidated: everything is erased and the cache written in one piece.  *)
(*                                                                         *)
(* The power can fail between any two operations on the flash: words are   *)
(* programmed one at a time and sectors erased one at a time, and each of  *)
(* these is an action.  So is the judgement of each entry at playback.     *)
(* The consolidated data and their checksum are one action: cut short,     *)
(* they are data the checksum does not match, as after the erasure.        *)
(*                                                                         *)
(* wanted, before, atRisk and failed are history: the contents when the    *)
(* power failed and before the write under way, the bytes a power loss now *)
(* may cost, and whether the flash has reported an error not yet made good *)
(* by a consolidation.                                                     *)
(*                                                                         *)
(* Left out: locking the flash (a failing unlock is a write that fails at  *)
(* its first word), and arguments outside the logical size.                *)
(***************************************************************************)
EXTENDS Integers, Sequences

CONSTANTS
  WriteSizes,        \* BACKING_STORE_WRITE_SIZE of the builds considered
  LogicalSize, BackingSize,
  SectorSize,        \* what the flash erases at a time
  ByteLimit,         \* 64, where one-word entries of one byte end
  WordLimit,         \* 16384, where one-word entries of two bytes end
  Requests,          \* the writes: addresses and sequences of bytes
  NoData             \* consolidated data their checksum does not match

Address == 0 .. LogicalSize - 1
Byte == 0 .. 255
Contents == [Address -> Byte]
Blank == [b \in Address |-> 0]

LogStart == LogicalSize + 8

ASSUME SizesAssumption ==
  /\ WriteSizes \subseteq {2, 4, 8}
  /\ LogicalSize \in Nat /\ BackingSize \in Nat /\ BackingSize > LogStart
  /\ \A w \in WriteSizes : LogicalSize % w = 0 /\ BackingSize % w = 0
  /\ SectorSize \in Nat \ {0} /\ BackingSize % SectorSize = 0
  /\ ByteLimit \in 0 .. 64 /\ WordLimit \in 0 .. 16384
  /\ \A r \in Requests : r.bytes \in Seq(Byte) \ {<<>>} /\ r.at \in Nat /\ r.at + Len(r.bytes) <= LogicalSize
  /\ NoData \notin Contents

VARIABLES
  writeSize,     \* BACKING_STORE_WRITE_SIZE of this build
  consolidated,  \* the consolidated data, with a checksum that matches, or NoData
  log,           \* the words of the log, most of them still erased
  cache,
  next,          \* write_address, as the number of a word of the log
  pc,            \* "off", "playback", "idle", "append", "erase", "consolidate"
  op,            \* the call under way: "init", "write", "format", or "none"
  todo,          \* what wear_leveling_write_raw has not appended yet
  sector,        \* the sector to erase next
  wanted, before, atRisk, failed

flash == <<consolidated, log>>
history == <<wanted, before, atRisk, failed>>
vars == <<writeSize, consolidated, log, cache, next, pc, op, todo, sector, wanted, before, atRisk, failed>>

Slots == (BackingSize - LogStart) \div writeSize
Erased == [i \in 1 .. writeSize |-> 0]

\* A call of wear_leveling_write_raw with nothing left to do: the words left of
\* the entry under way, and the bytes after it with their address.
Done == [words |-> <<>>, at |-> 0, bytes |-> <<>>]

Init ==
  /\ writeSize \in WriteSizes
  /\ consolidated = NoData /\ log = [s \in 1 .. Slots |-> Erased]
  /\ cache = Blank /\ next = 1
  /\ pc = "off" /\ op = "none" /\ todo = Done /\ sector = 0
  /\ wanted = Blank /\ before = Blank /\ atRisk = {} /\ failed = FALSE

up == pc \notin {"off", "playback"}

-----------------------------------------------------------------------------
(* The entries of the log *)

Take(s, n) == SubSeq(s, 1, IF n < Len(s) THEN n ELSE Len(s))

\* Two bytes at an even address that hold 0 or 1.
IsWord01(a, bytes) ==
  /\ writeSize = 2 /\ Len(bytes) >= 2 /\ a % 2 = 0 /\ a < WordLimit
  /\ bytes[1] \in {0, 1} /\ bytes[2] = 0

IsByte(a) == writeSize = 2 /\ a < ByteLimit

\* How many of the remaining bytes the next entry takes.
Taken(a, bytes) ==
  IF IsWord01(a, bytes) THEN 2
  ELSE IF IsByte(a) THEN 1
  ELSE Len(Take(bytes, 5))

\* The words an entry of n bytes takes: three bytes of header, and the bytes.
WordsOf(n) == LET words == (n + 2 + writeSize) \div writeSize
              IN  IF words * writeSize > 8 THEN 8 \div writeSize ELSE words

Multibyte(a, bytes) ==
  LET raw8 == <<Len(bytes) * 8 + ((a \div 65536) % 8), (a \div 256) % 256, a % 256>> \o bytes
  IN  [i \in 1 .. WordsOf(Len(bytes)) * writeSize |-> IF i <= Len(raw8) THEN raw8[i] ELSE 0]

Raw(a, bytes) ==
  IF IsWord01(a, bytes) THEN <<128 + bytes[1] * 32 + a \div 512, (a \div 2) % 256>>
  ELSE IF IsByte(a) THEN <<64 + a, bytes[1]>>
  ELSE Multibyte(a, Take(bytes, 5))

Words(raw) ==
  [i \in 1 .. Len(raw) \div writeSize |->
     [j \in 1 .. writeSize |-> raw[(i - 1) * writeSize + j]]]

\* wear_leveling_write_raw at its next entry.
Encoded(a, bytes) ==
  LET n == Taken(a, bytes)
  IN  [words |-> Words(Raw(a, bytes)), at |-> a + n, bytes |-> SubSeq(bytes, n + 1, Len(bytes))]

\* The type of an entry and the length of a multi-byte one, by its first word.
TypeOf(word) == word[1] \div 64
LengthOf(word) == (word[1] \div 8) % 8

\* The words that playback goes on by.
Width(word) == IF TypeOf(word) = 0 THEN WordsOf(LengthOf(word)) ELSE 1

\* A word of the backing store; what follows it reads as erased.
WordAt(s) == IF s <= Slots THEN log[s] ELSE Erased

-----------------------------------------------------------------------------
(* wear_leveling_init *)

Patched(a, bytes) ==
  [b \in Address |-> IF b \in a .. a + Len(bytes) - 1 THEN bytes[b - a + 1] ELSE cache[b]]

PowerOn ==
  /\ pc = "off"
  /\ cache' = IF consolidated = NoData THEN Blank ELSE consolidated
  /\ next' = 1 /\ pc' = "playback" /\ op' = "init"
  /\ UNCHANGED <<writeSize, flash, todo, sector, history>>

\* backing_store_init or the bulk read fails: the cache is served empty.
InitFails ==
  /\ pc = "off"
  /\ cache' = Blank /\ next' = 1 /\ pc' = "idle" /\ op' = "none"
  /\ wanted' = Blank /\ before' = Blank /\ atRisk' = {} /\ failed' = TRUE
  /\ UNCHANGED <<writeSize, flash, todo, sector>>

Playing == pc = "playback" /\ next <= Slots /\ log[next] # Erased

First == log[next]
Type == TypeOf(First)

\* The bytes of the entry that starts here.
Entry == [i \in 1 .. 8 |-> WordAt(next + (i - 1) \div writeSize)[((i - 1) % writeSize) + 1]]
EntryAt == (Entry[1] % 8) * 65536 + Entry[2] * 256 + Entry[3]
EntryLength == LengthOf(First)

\* Where an entry of each type has its bytes, and what they are.  Lengths above
\* five are never written; what they read beyond the entry is taken for zeros.
EntryBytes ==
  CASE Type = 0 -> [i \in 1 .. EntryLength |-> IF 3 + i <= 8 THEN Entry[3 + i] ELSE 0]
    [] Type = 1 -> <<First[2]>>
    [] Type = 2 -> <<(First[1] \div 32) % 2, 0>>

EntryAddress ==
  CASE Type = 0 -> EntryAt
    [] Type = 1 -> First[1] % 64
    [] Type = 2 -> (First[1] % 32) * 512 + First[2] * 2

Legible ==
  /\ Type = 0 \/ (writeSize = 2 /\ Type \in {1, 2})
  /\ EntryAddress + Len(EntryBytes) <= LogicalSize

\* Mutant: the words after the first are not skipped.
PlayOneWord ==
  /\ Playing /\ Legible
  /\ cache' = Patched(EntryAddress, EntryBytes)
  /\ next' = next + 1
  /\ UNCHANGED <<writeSize, flash, pc, op, todo, sector, history>>

Play ==
  /\ Playing /\ Legible
  /\ cache' = Patched(EntryAddress, EntryBytes)
  /\ next' = next + Width(First)
  /\ UNCHANGED <<writeSize, flash, pc, op, todo, sector, history>>

Restored == wanted' = Blank /\ before' = cache

\* The end of the log: the cache is complete.
Played ==
  /\ pc = "playback" /\ next <= Slots /\ log[next] = Erased
  /\ Restored /\ atRisk' = {} /\ UNCHANGED failed
  /\ pc' = "idle" /\ op' = "none"
  /\ UNCHANGED <<writeSize, flash, cache, next, todo, sector>>

\* The log is full, or what it holds cannot be an entry: consolidate the cache.
PlayedUnusable ==
  /\ pc = "playback" /\ (next > Slots \/ (Playing /\ ~Legible))
  /\ Restored /\ atRisk' = Address /\ UNCHANGED failed
  /\ pc' = "erase" /\ sector' = 0
  /\ UNCHANGED <<writeSize, flash, cache, next, op, todo>>

\* A word cannot be read: what has been read is consolidated.
ReadFails ==
  /\ pc = "playback" /\ next <= Slots
  /\ Restored /\ atRisk' = Address /\ failed' = TRUE
  /\ pc' = "erase" /\ sector' = 0
  /\ UNCHANGED <<writeSize, flash, cache, next, op, todo>>

-----------------------------------------------------------------------------
(* wear_leveling_write *)

\* Writing what is there already is a success and does nothing.
Write(r) ==
  /\ pc = "idle" /\ Patched(r.at, r.bytes) # cache
  /\ cache' = Patched(r.at, r.bytes)
  /\ pc' = "append" /\ op' = "write" /\ todo' = Encoded(r.at, r.bytes)
  /\ before' = cache /\ atRisk' = r.at .. r.at + Len(r.bytes) - 1
  /\ UNCHANGED <<writeSize, flash, next, sector, wanted, failed>>

Idle == pc' = "idle" /\ op' = "none"

\* What the flash holds is what the cache holds.
Safe(c) == before' = c /\ atRisk' = {} /\ failed' = FALSE

\* A word that is not erased cannot be programmed.  Only an erasure that failed
\* leaves next beyond the log; how far beyond makes no difference.
Programmable == next <= Slots => log[next] = Erased

Onward == IF next > Slots THEN next ELSE next + 1

Programmed == [s \in DOMAIN log |-> IF s = next THEN Head(todo.words) ELSE log[s]]

\* The next word of the entry, or the next entry.
MoreToDo == Len(todo.words) > 1 \/ todo.bytes # <<>>

Continued ==
  IF Len(todo.words) > 1 THEN [todo EXCEPT !.words = Tail(@)] ELSE Encoded(todo.at, todo.bytes)

\* Mutant: the end of the log is found one word late.
AppendRawLate ==
  /\ pc = "append" /\ Programmable
  /\ log' = Programmed /\ next' = Onward
  /\ IF next > Slots
     THEN /\ pc' = "erase" /\ sector' = 0 /\ todo' = Done
          /\ atRisk' = Address /\ UNCHANGED <<op, before>>
     ELSE IF MoreToDo
     THEN todo' = Continued /\ UNCHANGED <<pc, op, sector, before, atRisk>>
     ELSE /\ Idle /\ todo' = Done /\ before' = cache
          /\ atRisk' = {} /\ UNCHANGED sector
  /\ UNCHANGED <<writeSize, consolidated, cache, wanted, failed>>

AppendRaw ==
  /\ pc = "append" /\ Programmable
  /\ log' = Programmed /\ next' = Onward
  /\ IF next >= Slots
     THEN /\ pc' = "erase" /\ sector' = 0 /\ todo' = Done
          /\ atRisk' = Address /\ UNCHANGED <<op, before>>
     ELSE IF MoreToDo
     THEN todo' = Continued /\ UNCHANGED <<pc, op, sector, before, atRisk>>
     ELSE /\ Idle /\ todo' = Done /\ before' = cache
          /\ atRisk' = {} /\ UNCHANGED sector
  /\ UNCHANGED <<writeSize, consolidated, cache, wanted, failed>>

\* The cache keeps what the log lacks, and next stays where it is, whatever the
\* flash has done with the word.
AppendFails ==
  /\ pc = "append"
  /\ log' \in {log} \cup (IF Programmable THEN {Programmed} ELSE {})
  /\ Idle /\ todo' = Done /\ before' = cache /\ atRisk' = {} /\ failed' = TRUE
  /\ UNCHANGED <<writeSize, consolidated, cache, next, sector, wanted>>

-----------------------------------------------------------------------------
(* wear_leveling_consolidate_force and wear_leveling_erase *)

Format ==
  /\ pc = "idle"
  /\ pc' = "erase" /\ op' = "format" /\ sector' = 0
  /\ before' = cache /\ atRisk' = Address
  /\ UNCHANGED <<writeSize, flash, cache, next, todo, wanted, failed>>

SectorOf(s) == (LogStart + (s - 1) * writeSize) \div SectorSize

\* Mutant: one sector too many.
LastSectorLate == BackingSize \div SectorSize

LastSector == BackingSize \div SectorSize - 1

\* One sector, from the first to the last.
EraseSector ==
  /\ pc = "erase"
  /\ consolidated' = NoData
  /\ log' = [s \in DOMAIN log |-> IF SectorOf(s) = sector THEN Erased ELSE log[s]]
  /\ IF sector < LastSector
     THEN sector' = sector + 1 /\ UNCHANGED <<cache, next, pc, op, before, atRisk, failed>>
     ELSE /\ sector' = 0
          /\ IF op = "format"
             THEN cache' = Blank /\ next' = 1 /\ Idle /\ Safe(Blank)
             ELSE pc' = "consolidate" /\ UNCHANGED <<cache, next, op, before, atRisk, failed>>
  /\ UNCHANGED <<writeSize, todo, wanted>>

\* Some sector is not erased; the drivers may go on with the others or not.  A
\* failed wear_leveling_init and a failed wear_leveling_erase clear the cache.
EraseFails ==
  /\ pc = "erase"
  /\ \E done \in SUBSET (sector .. LastSector) :
       /\ consolidated' = IF 0 \in done THEN NoData ELSE consolidated
       /\ log' = [s \in DOMAIN log |-> IF SectorOf(s) \in done THEN Erased ELSE log[s]]
  /\ IF op = "write" THEN UNCHANGED <<cache, next>> ELSE cache' = Blank /\ next' = 1
  /\ Idle /\ sector' = 0 /\ before' = cache' /\ atRisk' = {} /\ failed' = TRUE
  /\ UNCHANGED <<writeSize, todo, wanted>>

\* Mutant: the log goes on where it was.
ConsolidateOnly ==
  /\ pc = "consolidate"
  /\ consolidated' = cache
  /\ Idle /\ Safe(cache)
  /\ UNCHANGED <<writeSize, log, cache, next, todo, sector, wanted>>

Consolidate ==
  /\ pc = "consolidate"
  /\ consolidated' = cache /\ next' = 1
  /\ Idle /\ Safe(cache)
  /\ UNCHANGED <<writeSize, log, cache, todo, sector, wanted>>

ConsolidateFails ==
  /\ pc = "consolidate"
  /\ cache' = IF op = "init" THEN Blank ELSE cache
  /\ next' = 1 /\ Idle /\ before' = cache' /\ atRisk' = {} /\ failed' = TRUE
  /\ UNCHANGED <<writeSize, flash, todo, sector, wanted>>

-----------------------------------------------------------------------------

\* RAM is lost; wanted remembers what it held.
PowerLoss ==
  /\ pc # "off"
  /\ pc' = "off" /\ op' = "none" /\ todo' = Done /\ sector' = 0
  /\ cache' = Blank /\ next' = 1
  /\ wanted' = IF up THEN cache ELSE wanted
  /\ UNCHANGED <<writeSize, flash, before, atRisk, failed>>

Next ==
  \/ PowerOn \/ InitFails \/ Play \/ Played \/ PlayedUnusable \/ ReadFails
  \/ \E r \in Requests : Write(r)
  \/ AppendRaw \/ AppendFails
  \/ Format \/ EraseSector \/ EraseFails \/ Consolidate \/ ConsolidateFails
  \/ PowerLoss

Spec == Init /\ [][Next]_vars

-----------------------------------------------------------------------------
(* Properties *)

Word == [1 .. writeSize -> Byte]

\* The state keeps its types; next may be one beyond the log, or more after an
\* entry that the power loss cut off at its end.
TypeOK ==
  /\ writeSize \in WriteSizes
  /\ consolidated \in Contents \cup {NoData}
  /\ log \in [1 .. Slots -> Word]
  /\ cache \in Contents /\ wanted \in Contents /\ before \in Contents
  /\ next \in 1 .. Slots + 4
  /\ pc \in {"off", "playback", "idle", "append", "erase", "consolidate"}
  /\ op \in {"init", "write", "format", "none"}
  /\ todo \in [words : Seq(Word), at : Nat, bytes : Seq(Byte)]
  /\ (pc = "append") <=> (todo.words # <<>>)
  /\ sector \in 0 .. BackingSize \div SectorSize - 1
  /\ atRisk \subseteq Address /\ failed \in BOOLEAN

\* The words from write_address on are erased, so that an append never meets a
\* word of an older log (the tests' "Attempted write at index which isn't
\* empty.") and a playback never goes on into one.
RestErased ==
  pc \in {"idle", "append"} /\ ~failed
    => next <= Slots /\ \A s \in next .. Slots : log[s] = Erased

\* A restart brings every byte back as it was, except those that were being
\* written or erased when the power failed.
ReadsLatest ==
  [][pc = "playback" /\ up' /\ ~failed'
       => \A b \in Address \ atRisk : cache'[b] = wanted[b]]_vars

\* The emulated EEPROM is persistent: see PersistentStore.
Store == INSTANCE PersistentStore WITH data <- IF up THEN cache ELSE wanted

Persistent == Store!Spec
=============================================================================
