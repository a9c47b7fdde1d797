------------------------- MODULE WearLevelingProofs -------------------------
(***************************************************************************)
(* What is proved of wear leveling, for any sizes of data, log and         *)
(* sectors, any words and any writes: the types; if the log lies in the    *)
(* last sector, that everything from write_address on is erased; and, if   *)
(* besides no entry is torn by a power loss, that the emulated EEPROM is   *)
(* the persistent store of PersistentStore.                                *)
(*                                                                         *)
(* The second needs to know how playback finds the end of the log: from    *)
(* the first word it goes from entry to entry, by lengths it reads there.  *)
(* The third follows the contents along the same way: what playback will   *)
(* make of the log, whole or with some words of its last entry missing.    *)
(***************************************************************************)
EXTENDS WearLeveling, SequenceTheorems, TLAPS

Todo == [words : Seq(Word), at : Nat, bytes : Seq(Byte)]

Sectors == 0 .. BackingSize \div SectorSize - 1

-----------------------------------------------------------------------------
(* Sizes *)

LEMMA DivLess ==
  ASSUME NEW x \in Nat, NEW b \in Nat, NEW s \in Nat \ {0}, x < b, b % s = 0
  PROVE  x \div s \in 0 .. b \div s - 1
<1>1. b = s * (b \div s) /\ b \div s \in Nat /\ x \div s \in Nat /\ s * (x \div s) <= x
  OBVIOUS
<1>2. SUFFICES ASSUME x \div s >= b \div s PROVE FALSE
  BY <1>1
<1>3. s * (x \div s) >= s * (b \div s)
  BY <1>1, <1>2
<1> QED BY <1>1, <1>3

LEMMA DivLast ==
  ASSUME NEW x \in Nat, NEW b \in Nat, NEW s \in Nat \ {0}, x < b, b % s = 0, x >= b - s
  PROVE  x \div s = b \div s - 1
<1>1. b = s * (b \div s) /\ b \div s \in Nat /\ x \div s \in Nat /\ x < s * (x \div s) + s
  OBVIOUS
<1>2. x \div s <= b \div s - 1
  BY DivLess, <1>1
<1>3. SUFFICES ASSUME x \div s < b \div s - 1 PROVE FALSE
  BY <1>1, <1>2
<1>4. s * (x \div s) <= s * (b \div s - 2)
  BY <1>1, <1>3
<1>5. s * (b \div s - 2) = b - 2 * s
  BY <1>1
<1> QED BY <1>1, <1>4, <1>5

Sized == writeSize \in WriteSizes

LEMMA Sizes ==
  ASSUME Sized
  PROVE  /\ writeSize \in {2, 4, 8}
         /\ Slots \in Nat \ {0} /\ LogStart + Slots * writeSize <= BackingSize
         /\ LogStart \in Nat /\ BackingSize \in Nat /\ SectorSize \in Nat \ {0}
         /\ LogicalSize \in Nat
<1>1. writeSize \in {2, 4, 8} /\ LogicalSize % writeSize = 0 /\ BackingSize % writeSize = 0
  BY SizesAssumption DEF Sized
<1>2. LogicalSize \in Nat /\ BackingSize \in Nat /\ BackingSize > LogStart
      /\ SectorSize \in Nat \ {0} /\ LogStart = LogicalSize + 8
  BY SizesAssumption DEF LogStart
<1>3. CASE writeSize = 2
  BY <1>1, <1>2, <1>3 DEF Slots
<1>4. CASE writeSize = 4
  BY <1>1, <1>2, <1>4 DEF Slots
<1>5. CASE writeSize = 8
  BY <1>1, <1>2, <1>5 DEF Slots
<1> QED BY <1>1, <1>3, <1>4, <1>5

LEMMA SectorsExist == 0 \in Sectors /\ LastSector \in Sectors /\ LastSector \in Nat
<1>1. 0 \div SectorSize \in Sectors
  BY SizesAssumption, DivLess DEF Sectors, LogStart
<1>2. BackingSize \div SectorSize \in Int
  BY SizesAssumption
<1> QED BY <1>1, <1>2 DEF Sectors, LastSector

\* The byte of the store where a word of the log begins.
LEMMA SlotPlace ==
  ASSUME Sized, NEW s \in 1 .. Slots
  PROVE  LogStart + (s - 1) * writeSize \in LogStart .. BackingSize - 1
<1>1. CASE writeSize = 2
  BY <1>1, Sizes
<1>2. CASE writeSize = 4
  BY <1>2, Sizes
<1>3. CASE writeSize = 8
  BY <1>3, Sizes
<1> QED BY <1>1, <1>2, <1>3, Sizes

LEMMA SlotSector ==
  ASSUME Sized, NEW s \in 1 .. Slots PROVE SectorOf(s) \in Sectors
<1> DEFINE x == LogStart + (s - 1) * writeSize
<1>1. x \in Nat /\ x < BackingSize
  BY SlotPlace, Sizes
<1>2. BackingSize \in Nat /\ SectorSize \in Nat \ {0} /\ BackingSize % SectorSize = 0
  BY SizesAssumption
<1> HIDE DEF x
<1>3. x \div SectorSize \in 0 .. BackingSize \div SectorSize - 1
  BY <1>1, <1>2, DivLess
<1> QED BY <1>3 DEF SectorOf, Sectors, x

\* The log is erased in one step.
LogInLastSector == LogStart >= BackingSize - SectorSize

LEMMA LogErasedLast ==
  ASSUME Sized, LogInLastSector, NEW s \in 1 .. Slots PROVE SectorOf(s) = LastSector
<1> DEFINE x == LogStart + (s - 1) * writeSize
<1>1. x \in Nat /\ x < BackingSize /\ x >= BackingSize - SectorSize
  BY SlotPlace, Sizes DEF LogInLastSector
<1>2. BackingSize \in Nat /\ SectorSize \in Nat \ {0} /\ BackingSize % SectorSize = 0
  BY SizesAssumption
<1> HIDE DEF x
<1>3. x \div SectorSize = BackingSize \div SectorSize - 1
  BY <1>1, <1>2, DivLast
<1> QED BY <1>3 DEF SectorOf, LastSector, x

-----------------------------------------------------------------------------
(* The entries of the log *)

\* An entry as it is appended: its first word is not erased, and playback goes
\* on by as many words as there are.
NewEntry(words) ==
  /\ words \in Seq(Word) /\ words # <<>>
  /\ words[1] # Erased /\ Width(words[1]) = Len(words)

LEMMA WidthType ==
  ASSUME Sized, NEW word \in Word
  PROVE  Width(word) \in 1 .. 4 /\ LengthOf(word) \in 0 .. 7 /\ TypeOf(word) \in 0 .. 3
<1>1. word[1] \in 0 .. 255
  <2>1. 1 \in 1 .. writeSize
    BY Sizes
  <2> QED BY <2>1 DEF Word, Byte
<1>2. LengthOf(word) \in 0 .. 7 /\ TypeOf(word) \in 0 .. 3
  BY <1>1 DEF LengthOf, TypeOf
<1>3. ASSUME NEW n \in 0 .. 7 PROVE WordsOf(n) \in 1 .. 4
  <2>1. CASE writeSize = 2
    BY <2>1 DEF WordsOf
  <2>2. CASE writeSize = 4
    BY <2>2 DEF WordsOf
  <2>3. CASE writeSize = 8
    BY <2>3 DEF WordsOf
  <2> QED BY <2>1, <2>2, <2>3, Sizes
<1> QED BY <1>2, <1>3 DEF Width

\* The words of count * writeSize bytes.
LEMMA WordsType ==
  ASSUME Sized, NEW count \in Nat \ {0}, NEW raw \in Seq(Byte), Len(raw) = count * writeSize
  PROVE  /\ Words(raw) \in Seq(Word) /\ Len(Words(raw)) = count /\ Words(raw) # <<>>
         /\ \A j \in 1 .. writeSize : Words(raw)[1][j] = raw[j]
<1>1. Len(raw) \div writeSize = count
  <2>1. CASE writeSize = 2
    BY <2>1
  <2>2. CASE writeSize = 4
    BY <2>2
  <2>3. CASE writeSize = 8
    BY <2>3
  <2> QED BY <2>1, <2>2, <2>3, Sizes
<1>2. ASSUME NEW i \in 1 .. count, NEW j \in 1 .. writeSize
      PROVE  (i - 1) * writeSize + j \in 1 .. Len(raw)
  <2>1. CASE writeSize = 2
    BY <2>1
  <2>2. CASE writeSize = 4
    BY <2>2
  <2>3. CASE writeSize = 8
    BY <2>3
  <2> QED BY <2>1, <2>2, <2>3, Sizes
<1>3. \A n \in 1 .. Len(raw) : raw[n] \in Byte
  BY LenProperties
<1>4. Words(raw) = [i \in 1 .. count |-> [j \in 1 .. writeSize |-> raw[(i - 1) * writeSize + j]]]
  BY <1>1 DEF Words
<1>5. Words(raw) \in [1 .. count -> Word]
  BY <1>2, <1>3, <1>4 DEF Word
<1>6. Words(raw) \in Seq(Word) /\ Len(Words(raw)) = count
  BY <1>5
<1>7. 1 \in 1 .. count /\ \A j \in 1 .. writeSize : (1 - 1) * writeSize + j = j
  BY Sizes
<1>8. Words(raw)[1] = [j \in 1 .. writeSize |-> raw[(1 - 1) * writeSize + j]]
  BY <1>4, <1>7
<1>9. \A j \in 1 .. writeSize : Words(raw)[1][j] = raw[j]
  BY <1>7, <1>8
<1>10. Words(raw) # <<>>
  BY <1>6
<1> QED BY <1>6, <1>9, <1>10

\* A word whose first byte is not zero is not erased.
LEMMA NotErased ==
  ASSUME Sized, NEW word, word[1] # 0 PROVE word # Erased
BY Sizes DEF Erased

\* The one-word entries of a store of two-byte words.
LEMMA OneWord ==
  ASSUME Sized, writeSize = 2, NEW x \in Byte, NEW y \in Byte, x \div 64 \in {1, 2}
  PROVE  NewEntry(Words(<<x, y>>))
<1>1. <<x, y>> \in Seq(Byte) /\ Len(<<x, y>>) = 1 * writeSize /\ <<x, y>>[1] = x
  OBVIOUS
<1> DEFINE raw == <<x, y>>
<1> HIDE DEF raw
<1>2. 1 \in Nat \ {0} /\ 1 \in 1 .. writeSize
  OBVIOUS
<1>3. /\ Words(raw) \in Seq(Word) /\ Len(Words(raw)) = 1 /\ Words(raw) # <<>>
      /\ Words(raw)[1][1] = x
  BY <1>1, <1>2, WordsType DEF raw
<1>4. x # 0 /\ x \div 64 # 0
  BY DEF Byte
<1>5. Words(raw)[1] # Erased
  BY <1>3, <1>4, NotErased
<1>6. Width(Words(raw)[1]) = 1
  BY <1>3, <1>4 DEF Width, TypeOf
<1> QED BY <1>3, <1>5, <1>6 DEF NewEntry, raw

LEMMA MultibyteOK ==
  ASSUME Sized, NEW a \in Nat, NEW bytes \in Seq(Byte), Len(bytes) \in 1 .. 5
  PROVE  NewEntry(Words(Multibyte(a, bytes)))
<1> DEFINE n == Len(bytes)
           head == <<n * 8 + ((a \div 65536) % 8), (a \div 256) % 256, a % 256>>
           raw8 == head \o bytes
           count == WordsOf(n)
           raw == Multibyte(a, bytes)
<1>0. (a \div 65536) % 8 \in 0 .. 7 /\ (a \div 256) % 256 \in Byte /\ a % 256 \in Byte
  BY DEF Byte
<1>1. head \in Seq(Byte) /\ Len(head) = 3 /\ head[1] = n * 8 + ((a \div 65536) % 8)
  <2>1. n * 8 + ((a \div 65536) % 8) \in Byte
    <3> DEFINE high == (a \div 65536) % 8
    <3>1. high \in 0 .. 7 /\ n \in 1 .. 5
      BY <1>0
    <3> HIDE DEF high, n
    <3>2. n * 8 + high \in 0 .. 255
      BY <3>1
    <3> QED BY <3>2 DEF high, Byte
  <2> QED BY <1>0, <2>1
<1>2. raw8 \in Seq(Byte) /\ Len(raw8) = 3 + n /\ raw8[1] = head[1]
  BY <1>1, ConcatProperties
<1>3. count \in Nat \ {0} /\ count * writeSize \in Nat \ {0} /\ 1 \in 1 .. count * writeSize
  <2>1. CASE writeSize = 2
    BY <2>1 DEF WordsOf
  <2>2. CASE writeSize = 4
    BY <2>2 DEF WordsOf
  <2>3. CASE writeSize = 8
    BY <2>3 DEF WordsOf
  <2> QED BY <2>1, <2>2, <2>3, Sizes
<1>4. raw = [i \in 1 .. count * writeSize |-> IF i <= Len(raw8) THEN raw8[i] ELSE 0]
  BY DEF Multibyte
<1> HIDE DEF raw, raw8, head, count
<1>5. \A i \in 1 .. count * writeSize : (IF i <= Len(raw8) THEN raw8[i] ELSE 0) \in Byte
  <2>1. \A i \in 1 .. Len(raw8) : raw8[i] \in Byte
    BY <1>2, LenProperties
  <2>2. 0 \in Byte
    BY DEF Byte
  <2> QED BY <1>2, <1>3, <2>1, <2>2
<1>6. raw \in [1 .. count * writeSize -> Byte] /\ raw[1] = raw8[1]
  BY <1>2, <1>3, <1>4, <1>5
<1>7. raw \in Seq(Byte) /\ Len(raw) = count * writeSize
  BY <1>3, <1>6
<1>8. /\ Words(raw) \in Seq(Word) /\ Len(Words(raw)) = count /\ Words(raw) # <<>>
      /\ Words(raw)[1][1] = raw[1]
  <2>1. 1 \in 1 .. writeSize
    BY Sizes
  <2> QED BY <1>3, <1>7, <2>1, WordsType
<1> DEFINE x == raw[1]
<1>9. x = n * 8 + ((a \div 65536) % 8)
  BY <1>1, <1>2, <1>6
<1>10. x \div 64 = 0 /\ (x \div 8) % 8 = n /\ x # 0
  <2> DEFINE high == (a \div 65536) % 8
  <2>1. high \in 0 .. 7 /\ x = n * 8 + high /\ n \in 1 .. 5
    BY <1>0, <1>9
  <2> HIDE DEF high, n, x
  <2> QED BY <2>1
<1>11. Words(raw)[1] # Erased
  BY <1>8, <1>10, NotErased
<1>12. Width(Words(raw)[1]) = count
  BY <1>8, <1>10 DEF Width, TypeOf, LengthOf, count
<1> QED BY <1>8, <1>11, <1>12 DEF NewEntry, raw

\* What an entry takes, and what is left.
LEMMA EncodedOK ==
  ASSUME Sized, NEW a \in Nat, NEW bytes \in Seq(Byte), bytes # <<>>
  PROVE  Encoded(a, bytes) \in Todo /\ NewEntry(Encoded(a, bytes).words)
<1> DEFINE first == Take(bytes, 5)
           n == Taken(a, bytes)
           rest == SubSeq(bytes, n + 1, Len(bytes))
<1>1. Len(bytes) \in Nat \ {0} /\ \A i \in 1 .. Len(bytes) : bytes[i] \in Byte
  BY LenProperties, EmptySeq
<1>2. first \in Seq(Byte) /\ Len(first) \in 1 .. 5
  <2> DEFINE len == Len(bytes)
             m == IF 5 < len THEN 5 ELSE len
  <2>1. m \in 1 .. 5 /\ m <= len
    <3>1. len \in Nat \ {0}
      BY <1>1
    <3> HIDE DEF len
    <3>2. CASE 5 < len
      BY <3>1, <3>2
    <3>3. CASE ~(5 < len)
      BY <3>1, <3>3
    <3> QED BY <3>2, <3>3
  <2>4. first = SubSeq(bytes, 1, m)
    BY DEF Take
  <2> HIDE DEF m
  <2>2. \A i \in 1 .. m : bytes[i] \in Byte
    BY <1>1, <2>1
  <2>3. SubSeq(bytes, 1, m) \in Seq(Byte) /\ Len(SubSeq(bytes, 1, m)) = m
    BY <2>1, <2>2, SubSeqProperties
  <2> QED BY <2>1, <2>3, <2>4
<1> HIDE DEF first
<1>3. n \in Nat
  BY <1>2 DEF Taken, first
<1> HIDE DEF n
<1>4. rest \in Seq(Byte)
  BY <1>1, <1>3, SubSeqProperties
<1> HIDE DEF rest
<1>5. NewEntry(Words(Raw(a, bytes)))
  <2>1. CASE IsWord01(a, bytes)
    <3> DEFINE x == 128 + bytes[1] * 32 + a \div 512
               y == (a \div 2) % 256
    <3>1. writeSize = 2 /\ a < 16384 /\ bytes[1] \in {0, 1}
      BY <2>1, SizesAssumption DEF IsWord01
    <3>2. a \div 512 \in 0 .. 31
      BY <3>1
    <3>3. x \in Byte /\ y \in Byte /\ x \div 64 \in {1, 2}
      <4>1. x \in 128 .. 191
        <5> DEFINE v == bytes[1]
                   q == a \div 512
        <5>1. v \in {0, 1} /\ q \in 0 .. 31
          BY <3>1, <3>2
        <5> HIDE DEF v, q
        <5>2. 128 + v * 32 + q \in 128 .. 191
          BY <5>1
        <5> QED BY <5>2 DEF v, q
      <4>2. y \in 0 .. 255
        <5>1. a \div 2 \in Nat
          OBVIOUS
        <5> QED BY <5>1
      <4> HIDE DEF x, y
      <4> QED BY <4>1, <4>2 DEF Byte
    <3>4. Raw(a, bytes) = <<x, y>>
      BY <2>1 DEF Raw
    <3> HIDE DEF x, y
    <3> QED BY <3>1, <3>3, <3>4, OneWord
  <2>2. CASE ~IsWord01(a, bytes) /\ IsByte(a)
    <3> DEFINE x == 64 + a
               y == bytes[1]
    <3>1. writeSize = 2 /\ a < 64
      BY <2>2, SizesAssumption DEF IsByte
    <3>2. x \in Byte /\ y \in Byte /\ x \div 64 \in {1, 2}
      BY <1>1, <3>1 DEF Byte
    <3>3. Raw(a, bytes) = <<x, y>>
      BY <2>2 DEF Raw
    <3> HIDE DEF x, y
    <3> QED BY <3>1, <3>2, <3>3, OneWord
  <2>3. CASE ~IsWord01(a, bytes) /\ ~IsByte(a)
    <3>1. Raw(a, bytes) = Multibyte(a, first)
      BY <2>3 DEF Raw, first
    <3> QED BY <1>2, <3>1, MultibyteOK
  <2> QED BY <2>1, <2>2, <2>3
<1>6. Encoded(a, bytes) = [words |-> Words(Raw(a, bytes)), at |-> a + n, bytes |-> rest]
  BY DEF Encoded, n, rest
<1> QED BY <1>3, <1>4, <1>5, <1>6 DEF NewEntry, Todo

-----------------------------------------------------------------------------
(* Types *)

LEMMA ErasedType ==
  ASSUME Sized PROVE Erased \in Word
BY DEF Erased, Word, Byte

LEMMA BlankType == Blank \in Contents
BY DEF Blank, Contents, Byte

LEMMA DoneType == Done \in Todo /\ Done.words = <<>>
<1>1. <<>> \in Seq(Word) /\ <<>> \in Seq(Byte)
  BY EmptySeq
<1> QED BY <1>1 DEF Done, Todo

LEMMA PatchedType ==
  ASSUME cache \in Contents, NEW a \in Nat, NEW bytes \in Seq(Byte)
  PROVE  Patched(a, bytes) \in Contents
<1>1. \A i \in 1 .. Len(bytes) : bytes[i] \in Byte
  BY LenProperties
<1>2. Len(bytes) \in Nat /\ LogicalSize \in Nat
  BY LenProperties, SizesAssumption
<1>3. ASSUME NEW b \in Address
      PROVE  (IF b \in a .. a + Len(bytes) - 1 THEN bytes[b - a + 1] ELSE cache[b]) \in Byte
  <2>1. CASE b \in a .. a + Len(bytes) - 1
    <3>1. b - a + 1 \in 1 .. Len(bytes)
      BY <1>2, <2>1
    <3> QED BY <1>1, <2>1, <3>1
  <2>2. CASE b \notin a .. a + Len(bytes) - 1
    BY <2>2 DEF Contents
  <2> QED BY <2>1, <2>2
<1> QED BY <1>3 DEF Patched, Contents

\* What playback reads is a patch for the cache.
LEMMA EntryOK ==
  ASSUME Sized, log \in [1 .. Slots -> Word], next \in 1 .. Slots, Legible
  PROVE  EntryBytes \in Seq(Byte) /\ EntryAddress \in Nat /\ First \in Word
<1>1. First \in Word /\ First[1] \in 0 .. 255
  <2>1. First \in Word /\ 1 \in 1 .. writeSize
    BY Sizes DEF First
  <2> QED BY <2>1 DEF Word, Byte
<1>2. First[2] \in 0 .. 255
  <2>1. 2 \in 1 .. writeSize
    BY Sizes
  <2> QED BY <1>1, <2>1 DEF Word, Byte
<1>3. ASSUME NEW i \in 1 .. 8 PROVE Entry[i] \in Byte
  <2> DEFINE s == next + (i - 1) \div writeSize
             j == ((i - 1) % writeSize) + 1
  <2>1. s \in Nat \ {0} /\ j \in 1 .. writeSize
    <3>1. CASE writeSize = 2
      BY <3>1, Sizes
    <3>2. CASE writeSize = 4
      BY <3>2, Sizes
    <3>3. CASE writeSize = 8
      BY <3>3, Sizes
    <3> QED BY <3>1, <3>2, <3>3, Sizes
  <2>2. Entry[i] = WordAt(s)[j]
    BY DEF Entry
  <2> HIDE DEF s, j
  <2>3. WordAt(s) \in Word
    BY <2>1, ErasedType, Sizes DEF WordAt
  <2> QED BY <2>1, <2>2, <2>3 DEF Word
<1>4. CASE Type = 0
  <2>1. EntryLength \in 0 .. 7
    BY <1>1, WidthType DEF EntryLength
  <2>2. \A i \in 1 .. EntryLength : (IF 3 + i <= 8 THEN Entry[3 + i] ELSE 0) \in Byte
    <3>1. 0 \in Byte
      BY DEF Byte
    <3> QED BY <1>3, <2>1, <3>1
  <2>3. EntryBytes = [i \in 1 .. EntryLength |-> IF 3 + i <= 8 THEN Entry[3 + i] ELSE 0]
    BY <1>4 DEF EntryBytes
  <2>4. EntryBytes \in [1 .. EntryLength -> Byte]
    BY <2>2, <2>3
  <2>5. EntryBytes \in Seq(Byte)
    BY <2>1, <2>4
  <2>6. Entry[1] \in Byte /\ Entry[2] \in Byte /\ Entry[3] \in Byte
    BY <1>3
  <2>7. EntryAt \in Nat
    <3> DEFINE x == Entry[1]
               y == Entry[2]
               z == Entry[3]
    <3>1. x \in Nat /\ y \in Nat /\ z \in Nat
      <4>1. \A v \in Byte : v \in Nat
        BY DEF Byte
      <4> QED BY <2>6, <4>1
    <3> HIDE DEF x, y, z
    <3>2. (x % 8) * 65536 + y * 256 + z \in Nat
      BY <3>1
    <3> QED BY <3>2 DEF EntryAt, x, y, z
  <2> QED BY <1>1, <1>4, <2>5, <2>7 DEF EntryAddress
<1> DEFINE x == First[1]
           y == First[2]
<1>5. CASE Type = 1
  <2>1. EntryBytes = <<y>> /\ EntryAddress = x % 64
    BY <1>5 DEF EntryBytes, EntryAddress
  <2>2. x \in 0 .. 255 /\ y \in 0 .. 255
    BY <1>1, <1>2
  <2> HIDE DEF x, y
  <2>3. y \in Byte
    BY <2>2 DEF Byte
  <2> QED BY <1>1, <2>1, <2>2, <2>3
<1>6. CASE Type = 2
  <2>1. EntryBytes = <<(x \div 32) % 2, 0>> /\ EntryAddress = (x % 32) * 512 + y * 2
    BY <1>6 DEF EntryBytes, EntryAddress
  <2>2. x \in 0 .. 255 /\ y \in 0 .. 255
    BY <1>1, <1>2
  <2> HIDE DEF x, y
  <2>3. (x \div 32) % 2 \in Byte /\ 0 \in Byte
    BY <2>2 DEF Byte
  <2>4. (x % 32) * 512 + y * 2 \in Nat
    BY <2>2
  <2> QED BY <1>1, <2>1, <2>3, <2>4
<1> QED BY <1>4, <1>5, <1>6 DEF Legible

LEMMA TypeNext ==
  ASSUME TypeOK, UNCHANGED writeSize,
         consolidated' \in Contents \cup {NoData}, log' \in [1 .. Slots -> Word],
         cache' \in Contents, wanted' \in Contents, before' \in Contents,
         next' \in 1 .. Slots + 4,
         pc' \in {"off", "playback", "idle", "append", "erase", "consolidate"},
         op' \in {"init", "write", "format", "none"},
         todo' \in Todo, (pc' = "append") <=> (todo'.words # <<>>),
         sector' \in Sectors, atRisk' \subseteq Address, failed' \in BOOLEAN
  PROVE  TypeOK'
BY DEF TypeOK, Slots, Word, Todo, Sectors

LEMMA TypeInit == Init => TypeOK
<1> SUFFICES ASSUME Init PROVE TypeOK
  OBVIOUS
<1>1. Sized
  BY DEF Init, Sized
<1>2. log \in [1 .. Slots -> Word] /\ 1 \in 1 .. Slots + 4 /\ todo \in Todo /\ todo.words = <<>>
  BY <1>1, ErasedType, Sizes, DoneType DEF Init
<1>3. sector \in Sectors
  BY SectorsExist DEF Init
<1> QED BY <1>2, <1>3, BlankType DEF Init, TypeOK, Todo, Sectors

\* A word programmed, of a call that has one left.
LEMMA ProgrammedType ==
  ASSUME TypeOK, pc = "append"
  PROVE  /\ Programmed \in [1 .. Slots -> Word] /\ todo.words \in Seq(Word) /\ todo.words # <<>>
         /\ Head(todo.words) = todo.words[1]
         /\ MoreToDo => Continued \in Todo /\ Continued.words # <<>>
<1>1. /\ Sized /\ log \in [1 .. Slots -> Word] /\ todo.words \in Seq(Word) /\ todo.words # <<>>
      /\ todo \in Todo /\ todo.at \in Nat /\ todo.bytes \in Seq(Byte)
  BY DEF TypeOK, Sized, Todo
<1> DEFINE words == todo.words
<1>2. Head(words) \in Word /\ Head(words) = words[1]
  BY <1>1, HeadTailProperties
<1>3. Programmed \in [1 .. Slots -> Word]
  BY <1>1, <1>2 DEF Programmed
<1>4. CASE Len(words) > 1
  <2>1. Tail(words) \in Seq(Word) /\ Len(Tail(words)) = Len(words) - 1 /\ Len(words) \in Nat
    BY <1>1, HeadTailProperties, LenProperties
  <2>2. Tail(words) # <<>>
    <3>1. Len(<<>>) = 0
      OBVIOUS
    <3> HIDE DEF words
    <3> QED BY <1>4, <2>1, <3>1
  <2>3. Continued = [todo EXCEPT !.words = Tail(words)]
    BY <1>4 DEF Continued
  <2>4. Continued \in Todo /\ Continued.words = Tail(words)
    BY <1>1, <2>1, <2>3 DEF Todo
  <2> QED BY <1>1, <1>2, <1>3, <2>2, <2>4
<1>5. CASE ~(Len(words) > 1)
  <2>1. MoreToDo => Continued = Encoded(todo.at, todo.bytes) /\ todo.bytes # <<>>
    BY <1>5 DEF MoreToDo, Continued
  <2> QED BY <1>1, <1>2, <1>3, <2>1, EncodedOK DEF NewEntry
<1> QED BY <1>4, <1>5

LEMMA TypeStep == TypeOK /\ [Next]_vars => TypeOK'
<1> SUFFICES ASSUME TypeOK, [Next]_vars PROVE TypeOK'
  OBVIOUS
<1>0. /\ Sized /\ log \in [1 .. Slots -> Word] /\ consolidated \in Contents \cup {NoData}
      /\ cache \in Contents /\ wanted \in Contents /\ before \in Contents
      /\ next \in 1 .. Slots + 4
      /\ pc \in {"off", "playback", "idle", "append", "erase", "consolidate"}
      /\ op \in {"init", "write", "format", "none"}
      /\ todo \in Todo /\ ((pc = "append") <=> (todo.words # <<>>))
      /\ sector \in Sectors /\ atRisk \subseteq Address /\ failed \in BOOLEAN
  BY DEF TypeOK, Sized, Todo, Sectors
<1>s. Slots \in Nat \ {0} /\ 1 \in 1 .. Slots + 4 /\ 0 \in Sectors /\ Blank \in Contents
      /\ Done \in Todo /\ Done.words = <<>> /\ {} \subseteq Address /\ Erased \in Word
  BY <1>0, Sizes, SectorsExist, BlankType, DoneType, ErasedType
<1> USE DEF flash, history
<1>1. ASSUME PowerOn PROVE TypeOK'
  <2>1. cache' \in Contents
    BY <1>0, <1>1, <1>s DEF PowerOn
  <2> QED BY <1>0, <1>1, <1>s, <2>1, TypeNext DEF PowerOn
<1>2. ASSUME InitFails PROVE TypeOK'
  BY <1>0, <1>2, <1>s, TypeNext DEF InitFails
<1>3. ASSUME Play PROVE TypeOK'
  <2>1. next \in 1 .. Slots /\ Legible
    BY <1>0, <1>3, <1>s DEF Play, Playing
  <2>2. cache' \in Contents /\ First \in Word
    BY <1>0, <1>3, <2>1, EntryOK, PatchedType DEF Play
  <2>3. Width(First) \in 1 .. 4 /\ next' = next + Width(First)
    BY <1>0, <1>3, <2>2, WidthType DEF Play
  <2>4. next' \in 1 .. Slots + 4
    BY <1>s, <2>1, <2>3
  <2> QED BY <1>0, <1>3, <2>2, <2>4, TypeNext DEF Play
<1>4. ASSUME Played PROVE TypeOK'
  BY <1>0, <1>4, <1>s, TypeNext DEF Played, Restored
<1>5. ASSUME PlayedUnusable \/ ReadFails PROVE TypeOK'
  BY <1>0, <1>5, <1>s, TypeNext DEF PlayedUnusable, ReadFails, Restored, Playing
<1>6. ASSUME NEW r \in Requests, Write(r) PROVE TypeOK'
  <2>1. /\ r.bytes \in Seq(Byte) /\ r.bytes # <<>> /\ r.at \in Nat
        /\ r.at + Len(r.bytes) <= LogicalSize /\ LogicalSize \in Nat
    BY SizesAssumption
  <2>2. cache' \in Contents
    BY <1>0, <1>6, <2>1, PatchedType DEF Write
  <2>3. todo' \in Todo /\ todo'.words # <<>>
    BY <1>0, <1>6, <2>1, EncodedOK DEF Write, NewEntry
  <2>4. atRisk' \subseteq Address
    <3>1. atRisk' = r.at .. r.at + Len(r.bytes) - 1 /\ Len(r.bytes) \in Nat
      BY <1>6, <2>1, LenProperties DEF Write
    <3> QED BY <2>1, <3>1 DEF Address
  <2> QED BY <1>0, <1>6, <2>2, <2>3, <2>4, TypeNext DEF Write
<1>7. ASSUME AppendRaw PROVE TypeOK'
  <2>1. /\ log' \in [1 .. Slots -> Word] /\ (MoreToDo => Continued \in Todo /\ Continued.words # <<>>)
    BY <1>7, ProgrammedType DEF AppendRaw
  <2>2. next' \in 1 .. Slots + 4
    BY <1>0, <1>7, <1>s DEF AppendRaw, Onward
  <2>3. CASE next >= Slots
    BY <1>0, <1>7, <1>s, <2>1, <2>2, <2>3, TypeNext DEF AppendRaw
  <2>4. CASE ~(next >= Slots) /\ MoreToDo
    <3>1. todo' = Continued /\ UNCHANGED <<pc, op, sector, before, atRisk>>
      BY <1>7, <2>4 DEF AppendRaw
    <3> QED BY <1>0, <1>7, <2>1, <2>2, <2>4, <3>1, TypeNext DEF AppendRaw
  <2>5. CASE ~(next >= Slots) /\ ~MoreToDo
    <3>1. Idle /\ todo' = Done /\ before' = cache /\ atRisk' = {} /\ UNCHANGED sector
      BY <1>7, <2>5 DEF AppendRaw
    <3> QED BY <1>0, <1>7, <1>s, <2>1, <2>2, <2>5, <3>1, TypeNext DEF AppendRaw, Idle
  <2> QED BY <2>3, <2>4, <2>5
<1>8. ASSUME AppendFails PROVE TypeOK'
  <2>1. log' \in [1 .. Slots -> Word]
    BY <1>0, <1>8, ProgrammedType DEF AppendFails
  <2> QED BY <1>0, <1>8, <1>s, <2>1, TypeNext DEF AppendFails, Idle
<1>9. ASSUME Format PROVE TypeOK'
  BY <1>0, <1>9, <1>s, TypeNext DEF Format
<1>10. ASSUME EraseSector PROVE TypeOK'
  <2>1. log' \in [1 .. Slots -> Word]
    BY <1>0, <1>10, <1>s DEF EraseSector
  <2>2. sector' \in Sectors
    <3>1. LastSector = BackingSize \div SectorSize - 1 /\ LastSector \in Nat /\ sector \in Nat
      BY <1>0, SectorsExist DEF LastSector, Sectors
    <3>2. sector < LastSector => sector + 1 \in Sectors
      BY <3>1 DEF Sectors
    <3> QED BY <1>s, <1>10, <3>2 DEF EraseSector
  <2> QED BY <1>0, <1>10, <1>s, <2>1, <2>2, TypeNext DEF EraseSector, Idle, Safe
<1>11. ASSUME EraseFails PROVE TypeOK'
  <2>1. log' \in [1 .. Slots -> Word] /\ consolidated' \in Contents \cup {NoData}
    BY <1>0, <1>11, <1>s DEF EraseFails
  <2>2. cache' \in Contents /\ next' \in 1 .. Slots + 4
    BY <1>0, <1>11, <1>s DEF EraseFails
  <2> QED BY <1>0, <1>11, <1>s, <2>1, <2>2, TypeNext DEF EraseFails, Idle
<1>12. ASSUME Consolidate PROVE TypeOK'
  BY <1>0, <1>12, <1>s, TypeNext DEF Consolidate, Idle, Safe
<1>13. ASSUME ConsolidateFails PROVE TypeOK'
  <2>1. cache' \in Contents
    BY <1>0, <1>13, <1>s DEF ConsolidateFails
  <2> QED BY <1>0, <1>13, <1>s, <2>1, TypeNext DEF ConsolidateFails, Idle
<1>14. ASSUME PowerLoss PROVE TypeOK'
  <2>1. wanted' \in Contents
    BY <1>0, <1>14 DEF PowerLoss
  <2> QED BY <1>0, <1>14, <1>s, <2>1, TypeNext DEF PowerLoss
<1>15. ASSUME UNCHANGED vars PROVE TypeOK'
  BY <1>0, <1>15, TypeNext DEF vars
<1> QED BY <1>1, <1>2, <1>3, <1>4, <1>5, <1>6, <1>7, <1>8, <1>9, <1>10, <1>11, <1>12, <1>13,
           <1>14, <1>15 DEF Next

\* Every variable keeps its type; write_address is at most four words, an
\* entry's length, beyond the log, and the erasing never leaves the store.
THEOREM StoreTypesCorrect == Spec => []TypeOK
BY TypeInit, TypeStep, PTL DEF Spec

-----------------------------------------------------------------------------
(* The end of the log *)

RestFrom(l, n) == \A s \in n .. Slots : l[s] = Erased

\* The places playback comes by: from the first word to n, each the beginning of
\* an entry that ends where the next begins.
Visited(l, P, n) ==
  /\ P \subseteq 1 .. n /\ 1 \in P /\ n \in P
  /\ \A s \in P \ {n} : s <= Slots /\ l[s] # Erased /\ s + Width(l[s]) \in P

\* Places that playback cannot leave, and where it stops only if all that
\* follows is erased.
SoundPlaces(l, E) ==
  /\ E \subseteq Nat \ {0} /\ 1 \in E
  /\ \A s \in E : s <= Slots =>
       IF l[s] = Erased THEN RestFrom(l, s) ELSE s + Width(l[s]) \in E

\* The words of the call under way: the log ends before them if they begin an
\* entry, and with the last of them if the entry's first word is in the log.
Appending(l, n, words) ==
  /\ n <= Slots /\ RestFrom(l, n)
  /\ \E P : \/ Visited(l, P, n) /\ NewEntry(words)
            \/ Visited(l, P, n + Len(words))

\* What playback finds, and where the log ends.
LogSound(l, at, n, words) ==
  /\ \E E : SoundPlaces(l, E) /\ (at = "playback" => n \in E)
  /\ at = "playback" => \E P : Visited(l, P, n)
  /\ at = "idle" => n <= Slots /\ RestFrom(l, n) /\ \E P : Visited(l, P, n)
  /\ at = "append" => Appending(l, n, words)

\* The log is sound unless an error has been reported that no consolidation has
\* made good.
RestInv ==
  /\ TypeOK
  /\ pc = "consolidate" => RestFrom(log, 1)
  /\ ~failed => LogSound(log, pc, next, todo.words)

LEMMA RestNext ==
  ASSUME TypeOK', UNCHANGED writeSize, pc' = "consolidate" => RestFrom(log', 1),
         ~failed' => LogSound(log', pc', next', todo'.words)
  PROVE  RestInv'
<1>1. Slots' = Slots /\ Erased' = Erased /\ Word' = Word
  BY DEF Slots, Erased, Word
<1>2. pc' = "consolidate" => RestFrom(log, 1)'
  BY <1>1 DEF RestFrom
<1>3. \A word : Width(word)' = Width(word)
  BY DEF Width, TypeOf, LengthOf, WordsOf
<1>4. LogSound(log', pc', next', todo'.words) => LogSound(log, pc, next, todo.words)'
  BY <1>1, <1>3 DEF LogSound, SoundPlaces, Visited, Appending, NewEntry, RestFrom
<1> QED BY <1>2, <1>4 DEF RestInv

\* A log that ends is one that playback gets through.
LEMMA VisitedSound ==
  ASSUME Sized, NEW l, NEW P, NEW n \in Nat, Visited(l, P, n), RestFrom(l, n)
  PROVE  SoundPlaces(l, P)
<1>1. ASSUME NEW s \in P, s <= Slots
      PROVE  IF l[s] = Erased THEN RestFrom(l, s) ELSE s + Width(l[s]) \in P
  <2>1. CASE s = n
    <3>1. s \in s .. Slots
      BY <1>1, <2>1, Sizes
    <3>2. l[s] = Erased
      BY <2>1, <3>1 DEF RestFrom
    <3> QED BY <2>1, <3>2
  <2>2. CASE s # n
    BY <1>1, <2>2 DEF Visited
  <2> QED BY <2>1, <2>2
<1>2. P \subseteq Nat \ {0} /\ 1 \in P
  BY DEF Visited
<1> QED BY <1>1, <1>2 DEF SoundPlaces

\* An erased log.
LEMMA FreshLog ==
  ASSUME Sized, NEW l, RestFrom(l, 1)
  PROVE  SoundPlaces(l, {1}) /\ Visited(l, {1}, 1) /\ 1 <= Slots
<1>1. Visited(l, {1}, 1) /\ 1 <= Slots
  BY Sizes DEF Visited
<1> QED BY <1>1, VisitedSound

\* An append lengthens what is visited, at the first word of an entry, and
\* leaves it as it is at the others.
LEMMA AppendVisited ==
  ASSUME Sized, NEW l, NEW l2, NEW n \in 1 .. Slots, NEW words \in Seq(Word), words # <<>>,
         Appending(l, n, words),
         \A s \in 1 .. Slots : l2[s] = IF s = n THEN words[1] ELSE l[s]
  PROVE  RestFrom(l2, n + 1) /\ \E P : Visited(l2, P, n + Len(words))
<1>1. Len(words) \in Nat \ {0} /\ Slots \in Nat
  BY LenProperties, EmptySeq, Sizes
<1>2. l[n] = Erased /\ RestFrom(l, n)
  <2>1. n \in n .. Slots
    OBVIOUS
  <2> QED BY <2>1 DEF Appending, RestFrom
<1>3. RestFrom(l2, n + 1)
  <2>1. \A s \in n + 1 .. Slots : s \in n .. Slots /\ s \in 1 .. Slots /\ s # n
    OBVIOUS
  <2> QED BY <1>2, <2>1 DEF RestFrom
<1>4. PICK P : \/ Visited(l, P, n) /\ NewEntry(words)
               \/ Visited(l, P, n + Len(words))
  BY DEF Appending
<1> DEFINE end == n + Len(words)
<1>e. end \in Nat /\ end > n
  BY <1>1
<1> HIDE DEF end
<1>5. CASE Visited(l, P, n) /\ NewEntry(words)
  <2> DEFINE Q == P \cup {end}
  <2>1. P \subseteq 1 .. n /\ 1 \in P /\ n \in P
    BY <1>5 DEF Visited
  <2>2. Q \subseteq 1 .. end /\ 1 \in Q /\ end \in Q /\ Q \ {end} = P
    BY <1>e, <2>1
  <2>3. ASSUME NEW s \in P
        PROVE  s <= Slots /\ l2[s] # Erased /\ s + Width(l2[s]) \in Q
    <3>1. CASE s = n
      <4>1. s <= Slots /\ l2[s] = words[1]
        BY <3>1
      <4> QED BY <1>5, <3>1, <4>1 DEF NewEntry, end
    <3>2. CASE s # n
      <4>1. s <= Slots /\ l[s] # Erased /\ s + Width(l[s]) \in P
        BY <1>5, <3>2 DEF Visited
      <4>2. l2[s] = l[s]
        BY <2>1, <3>2, <4>1
      <4> QED BY <4>1, <4>2
    <3> QED BY <3>1, <3>2
  <2> HIDE DEF Q
  <2>4. Visited(l2, Q, end)
    BY <2>2, <2>3 DEF Visited
  <2> QED BY <1>3, <2>4 DEF end
<1>6. CASE Visited(l, P, end)
  <2>1. P \subseteq 1 .. end /\ 1 \in P /\ end \in P
    BY <1>6 DEF Visited
  <2>2. ASSUME NEW s \in P \ {end}
        PROVE  s <= Slots /\ l2[s] # Erased /\ s + Width(l2[s]) \in P
    <3>1. s <= Slots /\ l[s] # Erased /\ s + Width(l[s]) \in P
      BY <1>6 DEF Visited
    <3>2. l2[s] = l[s]
      <4>1. s # n /\ s \in 1 .. Slots
        BY <1>1, <1>2, <2>1, <3>1
      <4> QED BY <4>1
    <3> QED BY <3>1, <3>2
  <2>3. Visited(l2, P, end)
    BY <2>1, <2>2 DEF Visited
  <2> QED BY <1>3, <2>3 DEF end
<1> QED BY <1>4, <1>5, <1>6 DEF end

LEMMA RestInit == Init => RestInv
<1> SUFFICES ASSUME Init PROVE RestInv
  OBVIOUS
<1>1. Sized /\ TypeOK
  BY TypeInit DEF Init, Sized
<1>2. RestFrom(log, 1)
  BY <1>1, Sizes DEF Init, RestFrom
<1>3. SoundPlaces(log, {1})
  BY <1>1, <1>2, FreshLog
<1> QED BY <1>1, <1>2, <1>3 DEF Init, RestInv, LogSound

LEMMA RestStep ==
  ASSUME LogInLastSector, RestInv, [Next]_vars PROVE RestInv'
<1>0. TypeOK /\ TypeOK' /\ Sized /\ UNCHANGED writeSize /\ Slots \in Nat \ {0}
  <2>1. TypeOK /\ TypeOK'
    BY TypeStep DEF RestInv
  <2>2. Sized
    BY <2>1 DEF TypeOK, Sized
  <2>3. UNCHANGED writeSize
    BY DEF Next, vars, PowerOn, InitFails, Play, Played, PlayedUnusable, ReadFails, Write, AppendRaw,
           AppendFails, Format, EraseSector, EraseFails, Consolidate, ConsolidateFails, PowerLoss
  <2> QED BY <2>1, <2>2, <2>3, Sizes
<1>1. /\ ~failed => LogSound(log, pc, next, todo.words)
      /\ pc = "consolidate" => RestFrom(log, 1)
  BY DEF RestInv
<1>2. log \in [1 .. Slots -> Word] /\ next \in 1 .. Slots + 4 /\ sector \in Sectors
  BY <1>0 DEF TypeOK, Sectors
<1> USE DEF flash, history
<1>3. ASSUME failed', pc' # "consolidate" PROVE RestInv'
  BY <1>0, <1>3, RestNext
\* A step that leaves the log alone, for a state that needs no end of it.
<1>4. ASSUME UNCHANGED <<log, failed>>, pc' \in {"off", "erase"} PROVE RestInv'
  <2>1. ~failed' => LogSound(log', pc', next', todo'.words)
    BY <1>1, <1>4 DEF LogSound
  <2> QED BY <1>0, <1>4, <2>1, RestNext
\* The log erased, from its beginning.
<1>5. ASSUME RestFrom(log', 1), next' = 1, pc' = "idle" PROVE RestInv'
  <2>1. LogSound(log', pc', next', todo'.words)
    BY <1>0, <1>5, FreshLog DEF LogSound
  <2> QED BY <1>0, <1>5, <2>1, RestNext
<1>6. ASSUME PowerOn PROVE RestInv'
  <2>1. ~failed => \E E : SoundPlaces(log, E) /\ 1 \in E
    BY <1>1 DEF LogSound, SoundPlaces
  <2>2. Visited(log, {1}, 1)
    BY DEF Visited
  <2>3. log' = log /\ failed' = failed /\ pc' = "playback" /\ next' = 1
    BY <1>6 DEF PowerOn
  <2>4. ~failed' => LogSound(log', pc', next', todo'.words)
    BY <2>1, <2>2, <2>3 DEF LogSound
  <2> QED BY <1>0, <2>3, <2>4, RestNext
<1>7. ASSUME Play PROVE RestInv'
  <2>1. /\ pc = "playback" /\ pc' = pc /\ next <= Slots /\ log[next] # Erased /\ log' = log
        /\ next' = next + Width(log[next]) /\ failed' = failed
    BY <1>7 DEF Play, Playing, First
  <2>2. Width(log[next]) \in 1 .. 4
    BY <1>0, <1>2, <2>1, WidthType
  <2>3. ASSUME ~failed PROVE LogSound(log', pc', next', todo'.words)
    <3>1. PICK E : SoundPlaces(log, E) /\ next \in E
      BY <1>1, <2>1, <2>3 DEF LogSound
    <3>2. next' \in E
      BY <2>1, <3>1 DEF SoundPlaces
    <3>3. PICK P : Visited(log, P, next)
      BY <1>1, <2>1, <2>3 DEF LogSound
    <3> DEFINE Q == P \cup {next'}
    <3>4. P \subseteq 1 .. next /\ 1 \in P /\ next \in P
      BY <3>3 DEF Visited
    <3>5. Q \subseteq 1 .. next' /\ 1 \in Q /\ next' \in Q /\ Q \ {next'} = P
      <4> DEFINE width == Width(log[next])
                 end == next'
      <4>1. width \in 1 .. 4 /\ end = next + width /\ next \in Nat
        BY <1>0, <1>2, <2>1, <2>2
      <4> HIDE DEF width, end
      <4>2. end \in Nat /\ next < end
        BY <4>1
      <4>3. P \subseteq 1 .. end /\ end \notin P /\ end \in 1 .. end
        BY <3>4, <4>1, <4>2
      <4>4. P \cup {end} \subseteq 1 .. end /\ (P \cup {end}) \ {end} = P
        BY <4>3
      <4> QED BY <3>4, <4>4 DEF end
    <3>6. ASSUME NEW s \in P PROVE s <= Slots /\ log[s] # Erased /\ s + Width(log[s]) \in Q
      <4>1. CASE s = next
        BY <2>1, <4>1
      <4>2. CASE s # next
        BY <3>3, <4>2 DEF Visited
      <4> QED BY <4>1, <4>2
    <3> HIDE DEF Q
    <3>7. Visited(log, Q, next')
      BY <3>5, <3>6 DEF Visited
    <3> QED BY <2>1, <3>1, <3>2, <3>7 DEF LogSound
  <2> QED BY <1>0, <2>1, <2>3, RestNext
<1>8. ASSUME Played PROVE RestInv'
  <2>1. /\ pc = "playback" /\ pc' = "idle" /\ next <= Slots /\ log[next] = Erased /\ log' = log
        /\ next' = next /\ failed' = failed
    BY <1>8 DEF Played
  <2>2. ASSUME ~failed PROVE LogSound(log', pc', next', todo'.words)
    <3>1. PICK E : SoundPlaces(log, E) /\ next \in E
      BY <1>1, <2>1, <2>2 DEF LogSound
    <3>2. RestFrom(log, next)
      BY <2>1, <3>1 DEF SoundPlaces
    <3>3. \E P : Visited(log, P, next)
      BY <1>1, <2>1, <2>2 DEF LogSound
    <3> QED BY <2>1, <3>1, <3>2, <3>3 DEF LogSound
  <2> QED BY <1>0, <2>1, <2>2, RestNext
<1>9. ASSUME NEW r \in Requests, Write(r) PROVE RestInv'
  <2>1. /\ pc = "idle" /\ pc' = "append" /\ log' = log /\ next' = next /\ failed' = failed
        /\ todo' = Encoded(r.at, r.bytes)
    BY <1>9 DEF Write
  <2>2. NewEntry(todo'.words)
    BY <1>0, <2>1, EncodedOK, SizesAssumption
  <2>3. ASSUME ~failed PROVE LogSound(log', pc', next', todo'.words)
    <3>1. /\ next <= Slots /\ RestFrom(log, next) /\ \E P : Visited(log, P, next)
          /\ \E E : SoundPlaces(log, E)
      BY <1>1, <2>1, <2>3 DEF LogSound
    <3>2. Appending(log, next, todo'.words)
      BY <2>2, <3>1 DEF Appending
    <3> QED BY <2>1, <3>1, <3>2 DEF LogSound
  <2> QED BY <1>0, <2>1, <2>3, RestNext
<1>10. ASSUME AppendRaw PROVE RestInv'
  <2>1. /\ pc = "append" /\ log' = Programmed /\ next' = Onward /\ failed' = failed
    BY <1>10 DEF AppendRaw
  <2> DEFINE words == todo.words
  <2>2. /\ words \in Seq(Word) /\ words # <<>> /\ Head(words) = words[1]
        /\ todo.at \in Nat /\ todo.bytes \in Seq(Byte)
    BY <1>0, <2>1, ProgrammedType DEF TypeOK
  <2>3. Len(words) \in Nat \ {0}
    BY <2>2, LenProperties, EmptySeq
  <2>4. pc' # "consolidate"
    BY <1>10, <2>1 DEF AppendRaw, Idle
  <2>5. ASSUME ~failed PROVE LogSound(log', pc', next', todo'.words)
    <3>1. Appending(log, next, words) /\ next \in 1 .. Slots
      BY <1>1, <1>2, <2>1, <2>5 DEF LogSound, Appending
    <3>2. \A s \in 1 .. Slots : log'[s] = IF s = next THEN words[1] ELSE log[s]
      BY <1>2, <2>1, <2>2 DEF Programmed
    <3>3. RestFrom(log', next + 1)
      BY <1>0, <2>2, <3>1, <3>2, AppendVisited
    <3>4. PICK P : Visited(log', P, next + Len(words))
      BY <1>0, <2>2, <3>1, <3>2, AppendVisited
    <3>5. SoundPlaces(log', P)
      <4> DEFINE end == next + Len(words)
      <4>1. end \in Nat /\ next + 1 <= end
        BY <2>3, <3>1
      <4>2. RestFrom(log', end)
        BY <1>0, <3>1, <3>3, <4>1 DEF RestFrom
      <4>3. Visited(log', P, end)
        BY <3>4
      <4> HIDE DEF end
      <4> QED BY <1>0, <4>1, <4>2, <4>3, VisitedSound
    <3>6. next' = next + 1
      BY <2>1, <3>1, <1>0 DEF Onward
    <3>7. CASE next >= Slots
      <4>1. pc' = "erase"
        BY <1>10, <3>7 DEF AppendRaw
      <4> QED BY <3>5, <4>1 DEF LogSound
    <3>8. CASE ~(next >= Slots) /\ Len(words) > 1
      <4>1. todo' = [todo EXCEPT !.words = Tail(words)] /\ pc' = "append"
        BY <1>10, <2>1, <3>8 DEF AppendRaw, MoreToDo, Continued
      <4>2. todo'.words = Tail(words)
        BY <1>0, <4>1 DEF TypeOK
      <4>3. Len(Tail(words)) = Len(words) - 1
        BY <2>2, HeadTailProperties
      <4>4. next + Len(words) = next' + Len(todo'.words)
        <5> DEFINE len == Len(words)
                   rest == Len(todo'.words)
                   n2 == next'
        <5>1. len \in Nat /\ rest = len - 1 /\ n2 = next + 1 /\ next \in Nat
          BY <2>3, <3>1, <3>6, <4>2, <4>3
        <5> HIDE DEF len, rest, n2
        <5>2. next + len = n2 + rest
          BY <5>1
        <5> QED BY <5>2 DEF len, rest, n2
      <4>5. next' <= Slots
        BY <1>0, <3>1, <3>6, <3>8
      <4>6. Appending(log', next', todo'.words)
        BY <3>3, <3>4, <3>6, <4>4, <4>5 DEF Appending
      <4> QED BY <3>5, <4>1, <4>6 DEF LogSound
    <3>9. CASE ~(next >= Slots) /\ ~(Len(words) > 1)
      <4>1. Len(words) = 1 /\ Visited(log', P, next') /\ next' <= Slots /\ RestFrom(log', next')
        <5> DEFINE len == Len(words)
        <5>1. len \in Nat \ {0} /\ ~(len > 1)
          BY <2>3, <3>9
        <5> HIDE DEF len
        <5>2. len = 1
          BY <5>1
        <5>3. next + 1 <= Slots
          BY <1>0, <3>1, <3>9
        <5> QED BY <3>3, <3>4, <3>6, <5>2, <5>3 DEF len
      <4>2. CASE todo.bytes # <<>>
        <5>1. todo' = Encoded(todo.at, todo.bytes) /\ pc' = "append"
          BY <1>10, <2>1, <3>9, <4>2 DEF AppendRaw, MoreToDo, Continued
        <5>2. NewEntry(todo'.words)
          BY <1>0, <2>2, <4>2, <5>1, EncodedOK
        <5>3. Appending(log', next', todo'.words)
          BY <4>1, <5>2 DEF Appending
        <5> QED BY <3>5, <5>1, <5>3 DEF LogSound
      <4>3. CASE todo.bytes = <<>>
        <5>1. pc' = "idle"
          BY <1>10, <3>9, <4>3 DEF AppendRaw, MoreToDo, Idle
        <5> QED BY <3>5, <4>1, <5>1 DEF LogSound
      <4> QED BY <4>2, <4>3
    <3> QED BY <3>7, <3>8, <3>9
  <2> QED BY <1>0, <2>1, <2>4, <2>5, RestNext
<1>11. ASSUME EraseSector PROVE RestInv'
  <2>1. /\ pc = "erase" /\ LastSector \in Nat /\ sector \in Nat /\ sector <= LastSector
        /\ log' = [s \in 1 .. Slots |-> IF SectorOf(s) = sector THEN Erased ELSE log[s]]
    <3>1. BackingSize \div SectorSize \in Int
      BY SizesAssumption
    <3> QED BY <1>2, <1>11, <3>1, SectorsExist DEF EraseSector, Sectors, LastSector
  <2>2. \A s \in 1 .. Slots : SectorOf(s) = LastSector
    BY <1>0, LogErasedLast
  <2>3. CASE sector < LastSector
    <3>1. log' = log
      <4>1. \A s \in 1 .. Slots : SectorOf(s) # sector
        BY <2>1, <2>2, <2>3
      <4>2. log' = [s \in 1 .. Slots |-> log[s]]
        BY <2>1, <4>1
      <4> QED BY <1>2, <4>2
    <3>2. pc' = "erase" /\ failed' = failed
      BY <1>11, <2>1, <2>3 DEF EraseSector
    <3> QED BY <1>4, <3>1, <3>2
  <2>4. CASE ~(sector < LastSector)
    <3>1. sector = LastSector
      BY <2>1, <2>4
    <3>2. \A s \in 1 .. Slots : log'[s] = Erased
      BY <2>1, <2>2, <3>1
    <3>3. RestFrom(log', 1)
      BY <3>2 DEF RestFrom
    <3>4. CASE op = "format"
      BY <1>5, <1>11, <2>4, <3>3, <3>4 DEF EraseSector, Idle
    <3>5. CASE op # "format"
      <4>1. pc' = "consolidate"
        BY <1>11, <2>4, <3>5 DEF EraseSector
      <4>2. LogSound(log', pc', next', todo'.words)
        BY <1>0, <3>3, <4>1, FreshLog DEF LogSound
      <4> QED BY <1>0, <3>3, <4>2, RestNext
    <3> QED BY <3>4, <3>5
  <2> QED BY <2>3, <2>4
<1>12. ASSUME Consolidate PROVE RestInv'
  <2>1. log' = log /\ next' = 1 /\ pc' = "idle" /\ pc = "consolidate"
    BY <1>12 DEF Consolidate, Idle
  <2> QED BY <1>1, <1>5, <2>1
<1>13. ASSUME InitFails \/ AppendFails \/ EraseFails \/ ConsolidateFails PROVE RestInv'
  BY <1>3, <1>13 DEF InitFails, AppendFails, EraseFails, ConsolidateFails, Idle
<1>14. ASSUME ReadFails PROVE RestInv'
  BY <1>3, <1>14 DEF ReadFails
<1>15. ASSUME PlayedUnusable \/ Format PROVE RestInv'
  BY <1>4, <1>15 DEF PlayedUnusable, Format
<1>16. ASSUME PowerLoss PROVE RestInv'
  BY <1>4, <1>16 DEF PowerLoss
<1>17. ASSUME UNCHANGED vars PROVE RestInv'
  <2>1. UNCHANGED <<log, pc, next, todo, failed>>
    BY <1>17 DEF vars
  <2>2. ~failed' => LogSound(log', pc', next', todo'.words)
    BY <1>1, <2>1
  <2>3. pc' = "consolidate" => RestFrom(log', 1)
    BY <1>1, <2>1
  <2> QED BY <1>0, <2>2, <2>3, RestNext
<1> QED BY <1>6, <1>7, <1>8, <1>9, <1>10, <1>11, <1>12, <1>13, <1>14, <1>15, <1>16, <1>17 DEF Next

\* Everything from write_address on is erased whenever the store serves a call
\* and no error is outstanding, through power losses between any two operations
\* on the flash, if one step erases the log.  With a log of several sectors it
\* is not so.
THEOREM RestStaysErased ==
  ASSUME LogInLastSector PROVE Spec => []RestErased
<1>1. Init => RestInv
  BY RestInit
<1>2. RestInv /\ [Next]_vars => RestInv'
  BY RestStep
<1>3. RestInv => RestErased
  BY DEF RestInv, LogSound, Appending, RestFrom, RestErased
<1> QED BY <1>1, <1>2, <1>3, PTL DEF Spec

-----------------------------------------------------------------------------
(* What playback makes of a log *)

\* The words and bytes of an entry that begins at place s of a log l, and what
\* they say; see Entry, EntryBytes, EntryAddress, Legible and Patched.
WordIn(l, s) == IF s <= Slots THEN l[s] ELSE Erased
ByteIn(l, s, i) == WordIn(l, s + (i - 1) \div writeSize)[((i - 1) % writeSize) + 1]

BytesIn(l, s) ==
  CASE TypeOf(l[s]) = 0 -> [i \in 1 .. LengthOf(l[s]) |-> IF 3 + i <= 8 THEN ByteIn(l, s, 3 + i) ELSE 0]
    [] TypeOf(l[s]) = 1 -> <<l[s][2]>>
    [] TypeOf(l[s]) = 2 -> <<(l[s][1] \div 32) % 2, 0>>

AddressIn(l, s) ==
  CASE TypeOf(l[s]) = 0 -> (ByteIn(l, s, 1) % 8) * 65536 + ByteIn(l, s, 2) * 256 + ByteIn(l, s, 3)
    [] TypeOf(l[s]) = 1 -> l[s][1] % 64
    [] TypeOf(l[s]) = 2 -> (l[s][1] % 32) * 512 + l[s][2] * 2

LegibleIn(l, s) ==
  /\ TypeOf(l[s]) = 0 \/ (writeSize = 2 /\ TypeOf(l[s]) \in {1, 2})
  /\ AddressIn(l, s) + Len(BytesIn(l, s)) <= LogicalSize

PatchOf(d, a, bytes) ==
  [b \in Address |-> IF b \in a .. a + Len(bytes) - 1 THEN bytes[b - a + 1] ELSE d[b]]

\* Playback goes on at s, and from there, with contents d, to x.
GoesOn(l, s) == s <= Slots /\ l[s] # Erased /\ LegibleIn(l, s)
After(l, x) == <<x[1] + Width(l[x[1]]), PatchOf(x[2], AddressIn(l, x[1]), BytesIn(l, x[1]))>>

LEMMA EntryIsIn ==
  ASSUME Sized, next \in 1 .. Slots, log \in [1 .. Slots -> Word]
  PROVE  /\ Type \in {0, 1, 2} => EntryBytes = BytesIn(log, next) /\ EntryAddress = AddressIn(log, next)
         /\ Legible <=> LegibleIn(log, next)
<1>1. Type = TypeOf(log[next]) /\ EntryLength = LengthOf(log[next]) /\ First = log[next]
  BY DEF Type, EntryLength, First
<1>2. CASE Type = 0
  <2>1. \A i \in 1 .. 8 : Entry[i] = ByteIn(log, next, i)
    BY DEF Entry, ByteIn, WordAt, WordIn
  <2>2. EntryLength \in 0 .. 7
    BY <1>1, WidthType
  <2>3. EntryBytes = [i \in 1 .. EntryLength |-> IF 3 + i <= 8 THEN Entry[3 + i] ELSE 0]
    BY <1>2 DEF EntryBytes
  <2>4. BytesIn(log, next)
          = [i \in 1 .. EntryLength |-> IF 3 + i <= 8 THEN ByteIn(log, next, 3 + i) ELSE 0]
    BY <1>1, <1>2 DEF BytesIn
  <2>5. EntryBytes = BytesIn(log, next)
    <3>1. \A i \in 1 .. EntryLength : 3 + i <= 8 => 3 + i \in 1 .. 8
      BY <2>2
    <3> HIDE DEF ByteIn
    <3> QED BY <2>1, <2>3, <2>4, <3>1
  <2>6. EntryAddress = EntryAt
    BY <1>2 DEF EntryAddress
  <2>7. AddressIn(log, next)
          = (ByteIn(log, next, 1) % 8) * 65536 + ByteIn(log, next, 2) * 256 + ByteIn(log, next, 3)
    BY <1>1, <1>2 DEF AddressIn
  <2>8. Entry[1] = ByteIn(log, next, 1) /\ Entry[2] = ByteIn(log, next, 2) /\ Entry[3] = ByteIn(log, next, 3)
    BY <2>1
  <2>9. EntryAddress = AddressIn(log, next)
    BY <2>6, <2>7, <2>8 DEF EntryAt
  <2> QED BY <1>1, <1>2, <2>5, <2>9 DEF Legible, LegibleIn
<1>3. CASE Type = 1
  <2>1. EntryBytes = <<First[2]>> /\ BytesIn(log, next) = <<First[2]>>
    BY <1>1, <1>3 DEF EntryBytes, BytesIn
  <2>2. EntryAddress = First[1] % 64 /\ AddressIn(log, next) = First[1] % 64
    BY <1>1, <1>3 DEF EntryAddress, AddressIn
  <2> QED BY <1>1, <1>3, <2>1, <2>2 DEF Legible, LegibleIn
<1>4. CASE Type = 2
  <2>1. /\ EntryBytes = <<(First[1] \div 32) % 2, 0>>
        /\ BytesIn(log, next) = <<(First[1] \div 32) % 2, 0>>
    BY <1>1, <1>4 DEF EntryBytes, BytesIn
  <2>2. /\ EntryAddress = (First[1] % 32) * 512 + First[2] * 2
        /\ AddressIn(log, next) = (First[1] % 32) * 512 + First[2] * 2
    BY <1>1, <1>4 DEF EntryAddress, AddressIn
  <2> QED BY <1>1, <1>4, <2>1, <2>2 DEF Legible, LegibleIn
<1>5. CASE Type \notin {0, 1, 2}
  BY <1>1, <1>5 DEF Legible, LegibleIn
<1> QED BY <1>2, <1>3, <1>4, <1>5

LEMMA PatchOfType ==
  ASSUME NEW d \in Contents, NEW a \in Nat, NEW bytes \in Seq(Byte)
  PROVE  PatchOf(d, a, bytes) \in Contents
<1>1. \A i \in 1 .. Len(bytes) : bytes[i] \in Byte
  BY LenProperties
<1>2. Len(bytes) \in Nat /\ LogicalSize \in Nat
  BY LenProperties, SizesAssumption
<1>3. ASSUME NEW b \in Address
      PROVE  (IF b \in a .. a + Len(bytes) - 1 THEN bytes[b - a + 1] ELSE d[b]) \in Byte
  <2>1. CASE b \in a .. a + Len(bytes) - 1
    <3>1. b - a + 1 \in 1 .. Len(bytes)
      BY <1>2, <2>1
    <3> QED BY <1>1, <2>1, <3>1
  <2>2. CASE b \notin a .. a + Len(bytes) - 1
    BY <2>2 DEF Contents
  <2> QED BY <2>1, <2>2
<1> QED BY <1>3 DEF PatchOf, Contents

\* The place of byte i of an entry.
LEMMA BytePlace ==
  ASSUME Sized, NEW i \in 1 .. 8
  PROVE  /\ (i - 1) \div writeSize \in 0 .. 3 /\ ((i - 1) % writeSize) + 1 \in 1 .. writeSize
         /\ i = ((i - 1) \div writeSize) * writeSize + ((i - 1) % writeSize) + 1
<1> DEFINE w == writeSize
<1>1. w \in {2, 4, 8}
  BY Sizes
<1> HIDE DEF w
<1>2. /\ (i - 1) \div w \in 0 .. 3 /\ ((i - 1) % w) + 1 \in 1 .. w
      /\ i = ((i - 1) \div w) * w + ((i - 1) % w) + 1
  <2>1. CASE w = 2
    BY <2>1
  <2>2. CASE w = 4
    BY <2>2
  <2>3. CASE w = 8
    BY <2>3
  <2> QED BY <1>1, <2>1, <2>2, <2>3
<1> QED BY <1>2 DEF w

LEMMA ByteInType ==
  ASSUME Sized, NEW l \in [1 .. Slots -> Word], NEW s \in Nat \ {0}, NEW i \in 1 .. 8
  PROVE  ByteIn(l, s, i) \in Byte
<1> DEFINE w == s + (i - 1) \div writeSize
           j == ((i - 1) % writeSize) + 1
<1>1. w \in Nat \ {0} /\ j \in 1 .. writeSize
  <2> DEFINE q == (i - 1) \div writeSize
  <2>1. q \in 0 .. 3 /\ j \in 1 .. writeSize
    BY BytePlace
  <2> HIDE DEF q, j
  <2>2. s + q \in Nat \ {0}
    BY <2>1
  <2> QED BY <2>1, <2>2 DEF q
<1>2. ByteIn(l, s, i) = WordIn(l, w)[j]
  BY DEF ByteIn
<1> HIDE DEF w, j
<1>3. WordIn(l, w) \in Word
  BY <1>1, ErasedType, Sizes DEF WordIn
<1> QED BY <1>1, <1>2, <1>3 DEF Word

LEMMA AfterType ==
  ASSUME Sized, NEW l \in [1 .. Slots -> Word], NEW s \in Nat \ {0}, NEW d \in Contents, GoesOn(l, s)
  PROVE  /\ After(l, <<s, d>>) \in (Nat \ {0}) \X Contents
         /\ After(l, <<s, d>>)[1] = s + Width(l[s]) /\ Width(l[s]) \in 1 .. 4
<1>1. s \in 1 .. Slots /\ l[s] \in Word /\ l[s][1] \in 0 .. 255
  <2>1. s \in 1 .. Slots /\ l[s] \in Word /\ 1 \in 1 .. writeSize
    BY Sizes DEF GoesOn
  <2> QED BY <2>1 DEF Word, Byte
<1>2. Width(l[s]) \in 1 .. 4 /\ LengthOf(l[s]) \in 0 .. 7
  BY <1>1, WidthType
<1>3. BytesIn(l, s) \in Seq(Byte) /\ AddressIn(l, s) \in Nat
  <2>1. CASE TypeOf(l[s]) = 0
    <3> DEFINE n == LengthOf(l[s])
    <3>1. \A i \in 1 .. n : (IF 3 + i <= 8 THEN ByteIn(l, s, 3 + i) ELSE 0) \in Byte
      <4>1. \A i \in 1 .. n : 3 + i <= 8 => 3 + i \in 1 .. 8
        BY <1>2
      <4>2. 0 \in Byte
        BY DEF Byte
      <4>3. \A i \in 1 .. 8 : ByteIn(l, s, i) \in Byte
        BY ByteInType
      <4> HIDE DEF n
      <4> QED BY <4>1, <4>2, <4>3
    <3>2. BytesIn(l, s) = [i \in 1 .. n |-> IF 3 + i <= 8 THEN ByteIn(l, s, 3 + i) ELSE 0]
      BY <2>1 DEF BytesIn
    <3>3. BytesIn(l, s) \in [1 .. n -> Byte] /\ n \in Nat
      BY <1>2, <3>1, <3>2
    <3>4. BytesIn(l, s) \in Seq(Byte)
      BY <3>3
    <3> DEFINE x == ByteIn(l, s, 1)
               y == ByteIn(l, s, 2)
               z == ByteIn(l, s, 3)
    <3>5. x \in Byte /\ y \in Byte /\ z \in Byte
      BY ByteInType
    <3>6. AddressIn(l, s) = (x % 8) * 65536 + y * 256 + z
      BY <2>1 DEF AddressIn
    <3> HIDE DEF x, y, z
    <3>7. AddressIn(l, s) \in Nat
      <4>1. x \in Nat /\ y \in Nat /\ z \in Nat
        BY <3>5 DEF Byte
      <4>2. (x % 8) * 65536 + y * 256 + z \in Nat
        BY <4>1
      <4> QED BY <3>6, <4>2
    <3> QED BY <3>4, <3>7
  <2>2. CASE TypeOf(l[s]) # 0
    <3> DEFINE x == l[s][1]
               y == l[s][2]
    <3>1. writeSize = 2 /\ TypeOf(l[s]) \in {1, 2}
      BY <2>2 DEF GoesOn, LegibleIn
    <3>2. x \in 0 .. 255 /\ y \in 0 .. 255
      <4>1. 2 \in 1 .. writeSize
        BY <3>1
      <4> QED BY <1>1, <4>1 DEF Word, Byte
    <3>3. \/ BytesIn(l, s) = <<y>> /\ AddressIn(l, s) = x % 64
          \/ BytesIn(l, s) = <<(x \div 32) % 2, 0>> /\ AddressIn(l, s) = (x % 32) * 512 + y * 2
      BY <3>1 DEF BytesIn, AddressIn
    <3> HIDE DEF x, y
    <3>4. y \in Byte /\ (x \div 32) % 2 \in Byte /\ 0 \in Byte
      BY <3>2 DEF Byte
    <3>5. x % 64 \in Nat /\ (x % 32) * 512 + y * 2 \in Nat
      BY <3>2
    <3>6. <<y>> \in Seq(Byte) /\ <<(x \div 32) % 2, 0>> \in Seq(Byte)
      BY <3>4
    <3> QED BY <3>3, <3>5, <3>6
  <2> QED BY <2>1, <2>2
<1>4. PatchOf(d, AddressIn(l, s), BytesIn(l, s)) \in Contents
  BY <1>3, PatchOfType
<1>5. s + Width(l[s]) \in Nat \ {0}
  BY <1>2
<1> QED BY <1>2, <1>4, <1>5 DEF After


\* The words of an entry hold all its bytes.
LEMMA WordsCover ==
  ASSUME Sized, NEW n \in 0 .. 7, NEW k \in 1 .. 8, k <= n + 3
  PROVE  (k - 1) \div writeSize < WordsOf(n) /\ WordsOf(n) \in 1 .. 4
<1>1. writeSize \in {2, 4, 8}
  BY Sizes
<1>2. CASE writeSize = 2
  <2>1. WordsOf(n) = IF ((n + 4) \div 2) * 2 > 8 THEN 4 ELSE (n + 4) \div 2
    BY <1>2 DEF WordsOf
  <2>2. (k - 1) \div 2 < WordsOf(n) /\ WordsOf(n) \in 1 .. 4
    BY <2>1
  <2> QED BY <1>2, <2>2
<1>3. CASE writeSize = 4
  <2>1. WordsOf(n) = IF ((n + 6) \div 4) * 4 > 8 THEN 2 ELSE (n + 6) \div 4
    BY <1>3 DEF WordsOf
  <2>2. (k - 1) \div 4 < WordsOf(n) /\ WordsOf(n) \in 1 .. 4
    BY <2>1
  <2> QED BY <1>3, <2>2
<1>4. CASE writeSize = 8
  <2>1. WordsOf(n) = IF ((n + 10) \div 8) * 8 > 8 THEN 1 ELSE (n + 10) \div 8
    BY <1>4 DEF WordsOf
  <2>2. (k - 1) \div 8 < WordsOf(n) /\ WordsOf(n) \in 1 .. 4
    BY <2>1
  <2> QED BY <1>4, <2>2
<1> QED BY <1>1, <1>2, <1>3, <1>4

\* An entry is what its own words say.
LEMMA EntryLocal ==
  ASSUME Sized, NEW l \in [1 .. Slots -> Word], NEW l2 \in [1 .. Slots -> Word],
         NEW s \in Nat \ {0}, GoesOn(l, s),
         \A w \in 1 .. Slots : w < s + Width(l[s]) => l2[w] = l[w]
  PROVE  GoesOn(l2, s) /\ \A d : After(l2, <<s, d>>) = After(l, <<s, d>>)
<1>1. s \in 1 .. Slots /\ l[s] \in Word
  BY Sizes DEF GoesOn
<1>2. Width(l[s]) \in 1 .. 4 /\ LengthOf(l[s]) \in 0 .. 7
  BY <1>1, WidthType
<1>3. l2[s] = l[s]
  BY <1>1, <1>2
<1>4. BytesIn(l2, s) = BytesIn(l, s) /\ AddressIn(l2, s) = AddressIn(l, s)
  <2>1. CASE TypeOf(l[s]) = 0
    <3> DEFINE n == LengthOf(l[s])
    <3>1. ASSUME NEW k \in 1 .. 8, k <= n + 3
          PROVE  ByteIn(l2, s, k) = ByteIn(l, s, k)
      <4> DEFINE q == (k - 1) \div writeSize
                 w == s + q
                 j == ((k - 1) % writeSize) + 1
      <4>1. q < WordsOf(n) /\ q \in 0 .. 3
        BY <1>2, <3>1, WordsCover, BytePlace
      <4>2. Width(l[s]) = WordsOf(n)
        BY <2>1 DEF Width
      <4>3. ByteIn(l2, s, k) = WordIn(l2, w)[j] /\ ByteIn(l, s, k) = WordIn(l, w)[j]
        BY DEF ByteIn
      <4> HIDE DEF q, j, n
      <4>4. w \in Nat \ {0} /\ w < s + Width(l[s])
        BY <1>2, <4>1, <4>2
      <4> HIDE DEF w
      <4>5. WordIn(l2, w) = WordIn(l, w)
        <5>1. w <= Slots => w \in 1 .. Slots
          BY <4>4, Sizes
        <5> QED BY <4>4, <5>1 DEF WordIn
      <4> QED BY <4>3, <4>5
    <3>2. BytesIn(l2, s) = [i \in 1 .. n |-> IF 3 + i <= 8 THEN ByteIn(l2, s, 3 + i) ELSE 0]
      BY <1>3, <2>1 DEF BytesIn
    <3>3. BytesIn(l, s) = [i \in 1 .. n |-> IF 3 + i <= 8 THEN ByteIn(l, s, 3 + i) ELSE 0]
      BY <2>1 DEF BytesIn
    <3>4. n \in 0 .. 7
      BY <1>2
    <3> HIDE DEF n, ByteIn
    <3>5. \A i \in 1 .. n : 3 + i <= 8 => 3 + i \in 1 .. 8 /\ 3 + i <= n + 3
      BY <3>4
    <3>6. BytesIn(l2, s) = BytesIn(l, s)
      BY <3>1, <3>2, <3>3, <3>5
    <3>7. /\ AddressIn(l, s) = (ByteIn(l, s, 1) % 8) * 65536 + ByteIn(l, s, 2) * 256 + ByteIn(l, s, 3)
          /\ AddressIn(l2, s) = (ByteIn(l2, s, 1) % 8) * 65536 + ByteIn(l2, s, 2) * 256 + ByteIn(l2, s, 3)
      BY <1>3, <2>1 DEF AddressIn
    <3>8. ByteIn(l2, s, 1) = ByteIn(l, s, 1) /\ ByteIn(l2, s, 2) = ByteIn(l, s, 2) /\ ByteIn(l2, s, 3) = ByteIn(l, s, 3)
      BY <3>1, <3>4
    <3> QED BY <3>6, <3>7, <3>8
  <2>2. CASE TypeOf(l[s]) \in {1, 2}
    BY <1>3, <2>2 DEF BytesIn, AddressIn
  <2>3. TypeOf(l[s]) \in {0, 1, 2}
    BY DEF GoesOn, LegibleIn
  <2> QED BY <2>1, <2>2, <2>3
<1>5. GoesOn(l2, s)
  BY <1>3, <1>4 DEF GoesOn, LegibleIn
<1> QED BY <1>3, <1>4, <1>5 DEF After

-----------------------------------------------------------------------------
(* The contents that a restart finds *)

Start(c) == IF c = NoData THEN Blank ELSE c

Step == (Nat \ {0}) \X Contents

\* Playback of log l over consolidated data c comes to place n with contents d.
Logged(c, l, n, d) ==
  \E R : /\ R \subseteq (1 .. n) \X Contents /\ <<1, Start(c)>> \in R
         /\ \A x \in R : x = <<n, d>> \/ (GoesOn(l, x[1]) /\ After(l, x) \in R)

\* From the steps in R playback goes on to steps in R, and it ends with contents
\* in G.
Replay(l, R, G) ==
  /\ R \subseteq Step
  /\ \A x \in R : IF GoesOn(l, x[1]) THEN After(l, x) \in R ELSE x[2] \in G

Recoverable(c, l, G) == \E R : Replay(l, R, G) /\ <<1, Start(c)>> \in R

Log == [1 .. Slots -> Word]

LEMMA LoggedSame ==
  ASSUME Sized, NEW c, NEW l \in Log, NEW l2 \in Log, NEW n \in Nat \ {0}, NEW d, Logged(c, l, n, d),
         \A w \in 1 .. Slots : w < n => l2[w] = l[w]
  PROVE  Logged(c, l2, n, d)
<1>1. PICK R : /\ R \subseteq (1 .. n) \X Contents /\ <<1, Start(c)>> \in R
               /\ \A x \in R : x = <<n, d>> \/ (GoesOn(l, x[1]) /\ After(l, x) \in R)
  BY DEF Logged
<1>2. ASSUME NEW x \in R, x # <<n, d>>
      PROVE  GoesOn(l2, x[1]) /\ After(l2, x) \in R
  <2>1. x[1] \in Nat \ {0} /\ x[2] \in Contents /\ x = <<x[1], x[2]>>
    BY <1>1
  <2>2. GoesOn(l, x[1]) /\ After(l, x) \in R
    BY <1>1, <1>2
  <2>3. After(l, x)[1] = x[1] + Width(l[x[1]]) /\ After(l, x)[1] \in 1 .. n
    <3>1. After(l, x)[1] = x[1] + Width(l[x[1]])
      BY DEF After
    <3> QED BY <1>1, <2>2, <3>1
  <2>4. \A w \in 1 .. Slots : w < x[1] + Width(l[x[1]]) => l2[w] = l[w]
    <3> DEFINE m == x[1] + Width(l[x[1]])
    <3>1. m \in 1 .. n
      BY <2>3
    <3> HIDE DEF m
    <3>2. \A w \in 1 .. Slots : w < m => w < n
      BY <3>1, Sizes
    <3> QED BY <3>2 DEF m
  <2>5. GoesOn(l2, x[1]) /\ After(l2, <<x[1], x[2]>>) = After(l, <<x[1], x[2]>>)
    <3> DEFINE s == x[1]
    <3>1. /\ s \in Nat \ {0} /\ GoesOn(l, s)
          /\ \A w \in 1 .. Slots : w < s + Width(l[s]) => l2[w] = l[w]
      BY <2>1, <2>2, <2>4
    <3> HIDE DEF s
    <3>2. GoesOn(l2, s) /\ \A d2 : After(l2, <<s, d2>>) = After(l, <<s, d2>>)
      BY <3>1, EntryLocal DEF Log
    <3> QED BY <3>2 DEF s
  <2> QED BY <2>1, <2>2, <2>5
<1> QED BY <1>1, <1>2 DEF Logged

\* One entry more.
LEMMA LoggedMore ==
  ASSUME Sized, NEW c, NEW l \in Log, NEW n \in Nat \ {0}, NEW d \in Contents, Logged(c, l, n, d),
         GoesOn(l, n)
  PROVE  /\ After(l, <<n, d>>) \in Step
         /\ Logged(c, l, After(l, <<n, d>>)[1], After(l, <<n, d>>)[2])
<1>1. PICK R : /\ R \subseteq (1 .. n) \X Contents /\ <<1, Start(c)>> \in R
               /\ \A x \in R : x = <<n, d>> \/ (GoesOn(l, x[1]) /\ After(l, x) \in R)
  BY DEF Logged
<1> DEFINE y == After(l, <<n, d>>)
           Q == R \cup {y}
<1>2. y \in Step /\ y[1] = n + Width(l[n]) /\ Width(l[n]) \in 1 .. 4
  BY AfterType DEF Log, Step
<1> HIDE DEF y
<1>3. Q \subseteq (1 .. y[1]) \X Contents
  <2>1. n <= y[1] /\ y[1] \in Nat \ {0}
    BY <1>2
  <2>2. 1 .. n \subseteq 1 .. y[1] /\ y[1] \in 1 .. y[1]
    BY <2>1
  <2>3. y \in (1 .. y[1]) \X Contents
    BY <1>2, <2>2 DEF Step
  <2> QED BY <1>1, <2>2, <2>3
<1>4. y = <<y[1], y[2]>>
  BY <1>2 DEF Step
<1>5. \A x \in Q : x = <<y[1], y[2]>> \/ (GoesOn(l, x[1]) /\ After(l, x) \in Q)
  <2>1. ASSUME NEW x \in R PROVE GoesOn(l, x[1]) /\ After(l, x) \in Q
    <3>1. CASE x = <<n, d>>
      BY <3>1 DEF y
    <3>2. CASE x # <<n, d>>
      BY <1>1, <3>2
    <3> QED BY <3>1, <3>2
  <2> QED BY <1>4, <2>1
<1> HIDE DEF Q
<1>6. <<1, Start(c)>> \in Q
  BY <1>1 DEF Q
<1>7. Logged(c, l, y[1], y[2])
  BY <1>3, <1>5, <1>6 DEF Logged
<1> QED BY <1>2, <1>7 DEF y

LEMMA LoggedFresh ==
  ASSUME NEW c \in Contents \cup {NoData}, NEW l
  PROVE  Logged(c, l, 1, Start(c)) /\ Start(c) \in Contents
<1> DEFINE R == {<<1, Start(c)>>}
<1>1. Start(c) \in Contents
  BY BlankType DEF Start
<1>2. R \subseteq (1 .. 1) \X Contents
  BY <1>1
<1>3. <<1, Start(c)>> \in R /\ \A x \in R : x = <<1, Start(c)>>
  OBVIOUS
<1> HIDE DEF R
<1>4. Logged(c, l, 1, Start(c))
  BY <1>2, <1>3 DEF Logged
<1> QED BY <1>1, <1>4

\* Playback stops where nothing goes on.
LEMMA LoggedRecoverable ==
  ASSUME NEW c, NEW l, NEW n \in Nat \ {0}, NEW d, Logged(c, l, n, d),
         NEW G, d \in G, ~GoesOn(l, n)
  PROVE  Recoverable(c, l, G)
<1>1. PICK R : /\ R \subseteq (1 .. n) \X Contents /\ <<1, Start(c)>> \in R
               /\ \A x \in R : x = <<n, d>> \/ (GoesOn(l, x[1]) /\ After(l, x) \in R)
  BY DEF Logged
<1>2. R \subseteq Step
  BY <1>1 DEF Step
<1>3. ASSUME NEW x \in R
      PROVE  IF GoesOn(l, x[1]) THEN After(l, x) \in R ELSE x[2] \in G
  <2>1. CASE x = <<n, d>>
    BY <2>1
  <2>2. CASE x # <<n, d>>
    BY <1>1, <2>2
  <2> QED BY <2>1, <2>2
<1> QED BY <1>1, <1>2, <1>3 DEF Recoverable, Replay

\* Over erased data the same log gives the same contents, but for bytes that it
\* has nothing of.
LEMMA RecoverableBlank ==
  ASSUME Sized, NEW c, NEW l \in Log, NEW G, Recoverable(c, l, G),
         \A d \in G : \A d2 \in Contents : (\A b \in Address : d2[b] \in {d[b], Blank[b]}) => d2 \in G
  PROVE  Recoverable(NoData, l, G)
<1>1. PICK R : Replay(l, R, G) /\ <<1, Start(c)>> \in R
  BY DEF Recoverable
<1> DEFINE Q == {y \in Step : \E d : /\ <<y[1], d>> \in R
                                     /\ \A b \in Address : y[2][b] \in {d[b], Blank[b]}}
<1>2. <<1, Start(NoData)>> \in Q
  <2>1. Start(NoData) = Blank
    BY DEF Start
  <2>2. <<1, Blank>> \in Step
    BY BlankType DEF Step
  <2> DEFINE y == <<1, Blank>>
  <2>3. y[1] = 1 /\ y[2] = Blank /\ y \in Step
    BY <2>2
  <2>4. \A b \in Address : y[2][b] \in {Start(c)[b], Blank[b]}
    BY <2>3
  <2> HIDE DEF y
  <2>5. y \in Q
    BY <1>1, <2>3, <2>4
  <2> QED BY <2>1, <2>5 DEF y
<1>3. ASSUME NEW y \in Q
      PROVE  IF GoesOn(l, y[1]) THEN After(l, y) \in Q ELSE y[2] \in G
  <2>1. PICK d : <<y[1], d>> \in R /\ \A b \in Address : y[2][b] \in {d[b], Blank[b]}
    OBVIOUS
  <2>2. y \in Step /\ y = <<y[1], y[2]>> /\ y[1] \in Nat \ {0} /\ y[2] \in Contents
    BY DEF Step
  <2>3. CASE GoesOn(l, y[1])
    <3> DEFINE z == After(l, <<y[1], d>>)
               a == AddressIn(l, y[1])
               bytes == BytesIn(l, y[1])
    <3>1. z \in R /\ z = <<y[1] + Width(l[y[1]]), PatchOf(d, a, bytes)>>
      BY <1>1, <2>1, <2>3 DEF Replay, After
    <3>2. After(l, y) = <<y[1] + Width(l[y[1]]), PatchOf(y[2], a, bytes)>>
      BY DEF After
    <3>3. After(l, y) \in Step
      BY <2>2, <2>3, AfterType DEF Log, Step
    <3>4. \A b \in Address : PatchOf(y[2], a, bytes)[b] \in {PatchOf(d, a, bytes)[b], Blank[b]}
      BY <2>1 DEF PatchOf
    <3> DEFINE m == y[1] + Width(l[y[1]])
               p == PatchOf(d, a, bytes)
               p2 == PatchOf(y[2], a, bytes)
    <3>5. <<m, p>> \in R /\ After(l, y) = <<m, p2>> /\ <<m, p2>> \in Step
      BY <3>1, <3>2, <3>3
    <3>6. \A b \in Address : p2[b] \in {p[b], Blank[b]}
      BY <3>4
    <3> HIDE DEF a, bytes, m, p, p2, z
    <3>7. <<m, p2>>[1] = m /\ <<m, p2>>[2] = p2
      OBVIOUS
    <3>8. <<m, p2>> \in Q
      BY <3>5, <3>6, <3>7
    <3> QED BY <2>3, <3>5, <3>8
  <2>4. CASE ~GoesOn(l, y[1])
    <3>1. d \in G
      BY <1>1, <2>1, <2>4 DEF Replay
    <3> QED BY <2>1, <2>2, <2>4, <3>1
  <2> QED BY <2>3, <2>4
<1>4. Q \subseteq Step
  OBVIOUS
<1> HIDE DEF Q
<1> QED BY <1>2, <1>3, <1>4 DEF Recoverable, Replay

-----------------------------------------------------------------------------
(* An entry is read as it was written *)

LEMMA WordsAre ==
  ASSUME Sized, NEW count \in Nat \ {0}, NEW raw \in Seq(Byte), Len(raw) = count * writeSize
  PROVE  \A i \in 1 .. count, j \in 1 .. writeSize : Words(raw)[i][j] = raw[(i - 1) * writeSize + j]
<1>1. Len(raw) \div writeSize = count
  <2>1. CASE writeSize = 2
    BY <2>1
  <2>2. CASE writeSize = 4
    BY <2>2
  <2>3. CASE writeSize = 8
    BY <2>3
  <2> QED BY <2>1, <2>2, <2>3, Sizes
<1> QED BY <1>1 DEF Words

\* A word of an entry, as it is or not programmed: its bytes or zeros.
LEMMA WordRead ==
  ASSUME Sized, NEW l \in Log, NEW e \in 1 .. Slots, NEW W, NEW i \in 1 .. 8, NEW raw,
         (i - 1) \div writeSize < Len(W), Len(W) \in 1 .. 4,
         \A k \in 1 .. Len(W), j \in 1 .. writeSize : W[k][j] = raw[(k - 1) * writeSize + j],
         l[e] = W[1], \A k \in 2 .. Len(W) : WordIn(l, e + k - 1) \in {W[k], Erased}
  PROVE  /\ ByteIn(l, e, i) \in {raw[i], 0}
         /\ i <= writeSize => ByteIn(l, e, i) = raw[i]
         /\ (\A k \in 2 .. Len(W) : WordIn(l, e + k - 1) = W[k]) => ByteIn(l, e, i) = raw[i]
<1> DEFINE q == (i - 1) \div writeSize
           j == ((i - 1) % writeSize) + 1
           len == Len(W)
<1>1. q \in 0 .. 3 /\ j \in 1 .. writeSize /\ i = q * writeSize + j /\ q < len
  <2> DEFINE r == (i - 1) % writeSize
             m == q * writeSize
  <2>1. q \in 0 .. 3 /\ j \in 1 .. writeSize /\ i = m + r + 1 /\ j = r + 1 /\ q < len
    BY BytePlace
  <2>2. m \in Nat /\ r \in Nat
    <3>1. CASE writeSize = 2
      BY <2>1, <3>1
    <3>2. CASE writeSize = 4
      BY <2>1, <3>2
    <3>3. CASE writeSize = 8
      BY <2>1, <3>3
    <3> QED BY <3>1, <3>2, <3>3, Sizes
  <2> HIDE DEF q, j, r, m
  <2>3. i = m + j
    BY <2>1, <2>2
  <2> QED BY <2>1, <2>3 DEF m
<1>2. i <= writeSize => q = 0
  <2>1. CASE writeSize = 2
    BY <2>1
  <2>2. CASE writeSize = 4
    BY <2>2
  <2>3. CASE writeSize = 8
    BY <2>3
  <2> QED BY <2>1, <2>2, <2>3, Sizes
<1>3. ByteIn(l, e, i) = WordIn(l, e + q)[j]
  BY DEF ByteIn
<1>4. Slots \in Nat \ {0}
  BY Sizes
<1>5. len \in 1 .. 4
  OBVIOUS
<1> HIDE DEF q, j
<1>6. q + 1 \in 1 .. Len(W) /\ (q + 1) - 1 = q /\ e + (q + 1) - 1 = e + q
  BY <1>1, <1>5
<1>7. W[q + 1][j] = raw[i]
  BY <1>1, <1>6
<1>8. CASE q = 0
  <2>1. e + q = e /\ q + 1 = 1 /\ WordIn(l, e) = l[e]
    BY <1>4, <1>8 DEF WordIn
  <2>2. WordIn(l, e + q) = W[q + 1]
    BY <2>1
  <2> QED BY <1>3, <1>7, <2>2
<1>9. CASE q # 0
  <2>1. q + 1 \in 2 .. Len(W)
    BY <1>1, <1>6, <1>9
  <2>2. WordIn(l, e + q) \in {W[q + 1], Erased}
    BY <1>6, <2>1
  <2>3. (\A k \in 2 .. Len(W) : WordIn(l, e + k - 1) = W[k]) => WordIn(l, e + q) = W[q + 1]
    BY <1>6, <2>1
  <2>4. Erased[j] = 0
    BY <1>1 DEF Erased
  <2> QED BY <1>2, <1>3, <1>7, <1>9, <2>2, <2>3, <2>4
<1> QED BY <1>8, <1>9

\* An entry's words have room for its bytes.
LEMMA WordsHold ==
  ASSUME Sized, NEW n \in 1 .. 5
  PROVE  /\ WordsOf(n) \in 1 .. 4 /\ WordsOf(n) * writeSize \in Nat \ {0}
         /\ n + 3 <= WordsOf(n) * writeSize
<1>1. CASE writeSize = 2
  <2>1. WordsOf(n) = (n + 4) \div 2
    BY <1>1 DEF WordsOf
  <2> QED BY <1>1, <2>1
<1>2. CASE writeSize = 4
  <2>1. WordsOf(n) = (n + 6) \div 4
    BY <1>2 DEF WordsOf
  <2> QED BY <1>2, <2>1
<1>3. CASE writeSize = 8
  <2>1. WordsOf(n) = (n + 10) \div 8
    BY <1>3 DEF WordsOf
  <2> QED BY <1>3, <2>1
<1> QED BY <1>1, <1>2, <1>3, Sizes

\* The bytes of a multi-byte entry: three of header, and its own.
LEMMA MultibyteRaw ==
  ASSUME Sized, NEW a \in Nat, NEW bytes \in Seq(Byte), Len(bytes) \in 1 .. 5
  PROVE  LET n     == Len(bytes)
             raw   == Multibyte(a, bytes)
             count == WordsOf(n)
         IN  /\ raw \in Seq(Byte) /\ Len(raw) = count * writeSize /\ count \in 1 .. 4
             /\ raw[1] = n * 8 + ((a \div 65536) % 8)
             /\ raw[2] = (a \div 256) % 256 /\ raw[3] = a % 256
             /\ \A i \in 1 .. n : raw[3 + i] = bytes[i]
<1> DEFINE n == Len(bytes)
           x1 == n * 8 + ((a \div 65536) % 8)
           x2 == (a \div 256) % 256
           x3 == a % 256
           head == <<x1, x2, x3>>
           raw8 == head \o bytes
           count == WordsOf(n)
           raw == Multibyte(a, bytes)
<1>1. x1 \in Byte /\ x2 \in Byte /\ x3 \in Byte
  <2> DEFINE high == (a \div 65536) % 8
  <2>1. high \in 0 .. 7 /\ n \in 1 .. 5
    OBVIOUS
  <2>2. (a \div 256) % 256 \in 0 .. 255 /\ a % 256 \in 0 .. 255
    OBVIOUS
  <2> HIDE DEF high, n
  <2>3. n * 8 + high \in 0 .. 255
    BY <2>1
  <2> QED BY <2>2, <2>3 DEF high, Byte
<1>2. raw = [i \in 1 .. count * writeSize |-> IF i <= Len(raw8) THEN raw8[i] ELSE 0]
  BY DEF Multibyte
<1>3. /\ count * writeSize \in Nat \ {0} /\ count \in 1 .. 4
      /\ n + 3 <= count * writeSize
  <2>1. n \in 1 .. 5
    OBVIOUS
  <2> HIDE DEF n
  <2> QED BY <2>1, WordsHold
<1>4. n \in 1 .. 5
  OBVIOUS
<1> DEFINE size == count * writeSize
<1> HIDE DEF raw, count, size, x1, x2, x3
<1>5. head \in Seq(Byte) /\ Len(head) = 3 /\ head[1] = x1 /\ head[2] = x2 /\ head[3] = x3
  BY <1>1
<1> HIDE DEF head
<1>6. /\ raw8 \in Seq(Byte) /\ Len(raw8) = 3 + n
      /\ \A i \in 1 .. 3 : raw8[i] = head[i]
      /\ \A i \in 1 .. n : raw8[3 + i] = bytes[i]
  <2>0. /\ raw8 \in Seq(Byte) /\ Len(raw8) = Len(head) + Len(bytes)
        /\ \A i \in 1 .. Len(head) + Len(bytes) :
             raw8[i] = IF i <= Len(head) THEN head[i] ELSE bytes[i - Len(head)]
    BY <1>5, ConcatProperties
  <2> HIDE DEF raw8
  <2>1. raw8 \in Seq(Byte) /\ Len(raw8) = 3 + n
    BY <1>5, <2>0
  <2>2. \A i \in 1 .. 3 : raw8[i] = head[i]
    BY <1>4, <1>5, <2>0
  <2>3. ASSUME NEW i \in 1 .. n PROVE raw8[3 + i] = bytes[i]
    <3>1. 3 + i \in 1 .. 3 + n /\ 3 + i > 3 /\ (3 + i) - 3 = i
      BY <1>4
    <3>2. raw8[3 + i] = bytes[(3 + i) - 3]
      BY <1>5, <2>0, <3>1
    <3> QED BY <3>1, <3>2
  <2> QED BY <2>1, <2>2, <2>3
<1> HIDE DEF raw8, n
<1>7. raw = [i \in 1 .. size |-> IF i <= 3 + n THEN raw8[i] ELSE 0] /\ size \in Nat /\ 3 + n <= size
  BY <1>2, <1>3, <1>4, <1>6 DEF size
<1>8. raw \in Seq(Byte) /\ Len(raw) = size
  <2>1. \A i \in 1 .. Len(raw8) : raw8[i] \in Byte
    BY <1>6, LenProperties
  <2>2. 0 \in Byte
    BY DEF Byte
  <2>3. \A i \in 1 .. size : (IF i <= 3 + n THEN raw8[i] ELSE 0) \in Byte
    BY <1>4, <1>6, <1>7, <2>1, <2>2
  <2>4. raw \in [1 .. size -> Byte]
    BY <1>7, <2>3
  <2> QED BY <1>7, <2>4
<1>9. \A i \in 1 .. 3 + n : raw[i] = raw8[i]
  BY <1>4, <1>7
<1>10. raw[1] = x1 /\ raw[2] = x2 /\ raw[3] = x3
  BY <1>4, <1>5, <1>6, <1>9
<1>11. \A i \in 1 .. n : raw[3 + i] = bytes[i]
  BY <1>4, <1>6, <1>9
<1> QED BY <1>3, <1>8, <1>10, <1>11 DEF raw, n, count, size, x1, x2, x3

\* What playback reads of an entry of n bytes for address a: its bytes, or some
\* of them as zeros.
ReadAs(l, e, a, n, bytes) ==
  /\ GoesOn(l, e) /\ AddressIn(l, e) = a /\ Len(BytesIn(l, e)) = n
  /\ \A i \in 1 .. n : BytesIn(l, e)[i] \in {bytes[i], 0}

ReadWhole(l, e, n, bytes) == \A i \in 1 .. n : BytesIn(l, e)[i] = bytes[i]

\* The log has the first word of an entry at e, and each of the others or none.
Begun(l, e, words) ==
  l[e] = words[1] /\ \A k \in 2 .. Len(words) : WordIn(l, e + k - 1) \in {words[k], Erased}

Whole(l, e, words) ==
  l[e] = words[1] /\ \A k \in 2 .. Len(words) : WordIn(l, e + k - 1) = words[k]

\* The addresses of multi-byte entries have 19 bits.
AddressesFit == LogicalSize <= 524288

\* The header is in one word unless words have two bytes.
LEMMA MultibyteRead ==
  ASSUME Sized, writeSize # 2, AddressesFit,
         NEW l \in Log, NEW e \in 1 .. Slots,
         NEW a \in Nat, NEW bytes \in Seq(Byte), Len(bytes) \in 1 .. 5,
         a + Len(bytes) <= LogicalSize, Begun(l, e, Words(Multibyte(a, bytes)))
  PROVE  /\ ReadAs(l, e, a, Len(bytes), bytes)
         /\ Whole(l, e, Words(Multibyte(a, bytes))) => ReadWhole(l, e, Len(bytes), bytes)
<1> DEFINE n == Len(bytes)
           raw == Multibyte(a, bytes)
           W == Words(raw)
           count == WordsOf(n)
           high == (a \div 65536) % 8
<1>1. /\ raw \in Seq(Byte) /\ Len(raw) = count * writeSize /\ count \in 1 .. 4
      /\ raw[1] = n * 8 + high
      /\ raw[2] = (a \div 256) % 256 /\ raw[3] = a % 256
      /\ \A i \in 1 .. n : raw[3 + i] = bytes[i]
  BY MultibyteRaw
<1>2. NewEntry(W)
  BY MultibyteOK
<1>3. n \in 1 .. 5 /\ high \in 0 .. 7
  OBVIOUS
<1>4. Begun(l, e, W)
  OBVIOUS
<1>5. (Whole(l, e, Words(Multibyte(a, bytes))) <=> Whole(l, e, W))
  OBVIOUS
<1> HIDE DEF raw, count, n
<1>6. /\ Len(W) = count /\ \A j \in 1 .. writeSize : W[1][j] = raw[j]
      /\ \A k \in 1 .. count, j \in 1 .. writeSize : W[k][j] = raw[(k - 1) * writeSize + j]
  <2>1. count \in Nat \ {0} /\ raw \in Seq(Byte) /\ Len(raw) = count * writeSize
    BY <1>1
  <2>2. Len(W) = count /\ \A j \in 1 .. writeSize : W[1][j] = raw[j]
    BY <2>1, WordsType
  <2>3. \A k \in 1 .. count, j \in 1 .. writeSize : W[k][j] = raw[(k - 1) * writeSize + j]
    BY <2>1, WordsAre
  <2> QED BY <2>2, <2>3
<1> HIDE DEF W, high
<1>7. l[e][1] = raw[1]
  <2>1. 1 \in 1 .. writeSize
    BY Sizes
  <2> QED BY <1>4, <1>6, <2>1 DEF Begun
<1>8. TypeOf(l[e]) = 0 /\ LengthOf(l[e]) = n /\ raw[1] % 8 = high /\ l[e] # Erased
  <2> DEFINE x == raw[1]
  <2>1. x = n * 8 + high
    BY <1>1
  <2>2. l[e] # Erased
    BY <1>2, <1>4 DEF Begun, NewEntry
  <2> HIDE DEF x
  <2>3. x \div 64 = 0 /\ (x \div 8) % 8 = n /\ x % 8 = high
    BY <1>3, <2>1
  <2> QED BY <1>7, <2>2, <2>3 DEF TypeOf, LengthOf, x
<1>9. ASSUME NEW i \in 1 .. 8, i <= n + 3
      PROVE  /\ ByteIn(l, e, i) \in {raw[i], 0}
             /\ i <= writeSize => ByteIn(l, e, i) = raw[i]
             /\ Whole(l, e, W) => ByteIn(l, e, i) = raw[i]
  <2>1. (i - 1) \div writeSize < Len(W) /\ Len(W) \in 1 .. 4
    <3>1. n \in 0 .. 7
      BY <1>3
    <3> QED BY <1>6, <1>9, <3>1, WordsCover DEF count
  <2>2. \A k \in 1 .. Len(W), j \in 1 .. writeSize : W[k][j] = raw[(k - 1) * writeSize + j]
    BY <1>6
  <2>3. l[e] = W[1] /\ \A k \in 2 .. Len(W) : WordIn(l, e + k - 1) \in {W[k], Erased}
    BY <1>4 DEF Begun
  <2> HIDE DEF ByteIn
  <2>4. /\ ByteIn(l, e, i) \in {raw[i], 0}
        /\ i <= writeSize => ByteIn(l, e, i) = raw[i]
        /\ (\A k \in 2 .. Len(W) : WordIn(l, e + k - 1) = W[k]) => ByteIn(l, e, i) = raw[i]
    BY SMTT(30), <2>1, <2>2, <2>3, WordRead
  <2> QED BY <2>4 DEF Whole
<1>10. AddressIn(l, e) = a
  <2>1. ByteIn(l, e, 1) = raw[1] /\ ByteIn(l, e, 2) = raw[2] /\ ByteIn(l, e, 3) = raw[3]
    <3>1. writeSize \in {4, 8}
      BY Sizes
    <3> QED BY <1>3, <1>9, <3>1
  <2>2. AddressIn(l, e) = (raw[1] % 8) * 65536 + raw[2] * 256 + raw[3]
    BY <1>8, <2>1 DEF AddressIn
  <2>3. AddressIn(l, e) = high * 65536 + ((a \div 256) % 256) * 256 + (a % 256)
    BY <1>1, <1>8, <2>2
  <2>4. a < 524288
    <3>1. n \in 1 .. 5 /\ a + n <= LogicalSize /\ LogicalSize \in Nat
      BY <1>3, Sizes DEF n
    <3> QED BY <3>1 DEF AddressesFit
  <2>5. a = high * 65536 + ((a \div 256) % 256) * 256 + (a % 256)
    BY <2>4 DEF high
  <2> QED BY <2>3, <2>5
<1>11. /\ BytesIn(l, e) = [i \in 1 .. n |-> ByteIn(l, e, 3 + i)]
       /\ Len(BytesIn(l, e)) = n
  <2>1. BytesIn(l, e) = [i \in 1 .. n |-> IF 3 + i <= 8 THEN ByteIn(l, e, 3 + i) ELSE 0]
    BY <1>8 DEF BytesIn
  <2>2. \A i \in 1 .. n : 3 + i <= 8
    BY <1>3
  <2>3. BytesIn(l, e) = [i \in 1 .. n |-> ByteIn(l, e, 3 + i)]
    BY <2>1, <2>2
  <2> QED BY <1>3, <2>3
<1>12. ASSUME NEW i \in 1 .. n
       PROVE  BytesIn(l, e)[i] \in {bytes[i], 0} /\ (Whole(l, e, W) => BytesIn(l, e)[i] = bytes[i])
  <2>1. 3 + i \in 1 .. 8 /\ 3 + i <= n + 3
    BY <1>3
  <2>2. BytesIn(l, e)[i] = ByteIn(l, e, 3 + i) /\ raw[3 + i] = bytes[i]
    BY <1>1, <1>11
  <2> QED BY <1>9, <2>1, <2>2
<1>13. GoesOn(l, e)
  <2>1. e <= Slots
    BY Sizes
  <2>2. a + n <= LogicalSize
    BY DEF n
  <2> QED BY <1>8, <1>10, <1>11, <2>1, <2>2 DEF GoesOn, LegibleIn
<1>14. ReadAs(l, e, a, n, bytes)
  BY <1>10, <1>11, <1>12, <1>13 DEF ReadAs
<1>15. Whole(l, e, W) => ReadWhole(l, e, n, bytes)
  BY <1>12 DEF ReadWhole
<1> QED BY <1>5, <1>14, <1>15 DEF n, W

LEMMA Word01Facts ==
  ASSUME NEW a \in Nat, NEW bytes, IsWord01(a, bytes)
  PROVE  /\ writeSize = 2 /\ a % 2 = 0 /\ a < 16384 /\ Len(bytes) >= 2
         /\ bytes[1] \in {0, 1} /\ bytes[2] = 0
<1>1. WordLimit \in Int /\ WordLimit <= 16384
  BY SizesAssumption
<1>2. a < WordLimit
  BY DEF IsWord01
<1>3. a < 16384
  BY <1>1, <1>2
<1> QED BY <1>3 DEF IsWord01

\* A one-word entry of two bytes x and y.
LEMMA OneWordIs ==
  ASSUME Sized, writeSize = 2, NEW x \in Byte, NEW y \in Byte,
         NEW l \in Log, NEW e \in 1 .. Slots, Begun(l, e, Words(<<x, y>>))
  PROVE  l[e][1] = x /\ l[e][2] = y
<1> DEFINE raw == <<x, y>>
<1>1. raw \in Seq(Byte) /\ Len(raw) = 1 * writeSize /\ raw[1] = x /\ raw[2] = y
  OBVIOUS
<1>2. 1 \in Nat \ {0} /\ 1 \in 1 .. 1 /\ 1 \in 1 .. writeSize /\ 2 \in 1 .. writeSize
  OBVIOUS
<1>3. Begun(l, e, Words(raw))
  OBVIOUS
<1> HIDE DEF raw
<1>4. \A j \in 1 .. writeSize : Words(raw)[1][j] = raw[j]
  BY <1>1, <1>2, WordsType
<1> QED BY <1>1, <1>2, <1>3, <1>4 DEF Begun

LEMMA ByteRead ==
  ASSUME Sized, writeSize = 2, NEW l \in Log, NEW e \in 1 .. Slots,
         NEW a \in 0 .. 63, NEW y \in Byte, Begun(l, e, Words(<<64 + a, y>>)), a + 1 <= LogicalSize
  PROVE  ReadAs(l, e, a, 1, <<y>>) /\ ReadWhole(l, e, 1, <<y>>)
<1> DEFINE x == 64 + a
<1>1. x \in Byte /\ x \div 64 = 1 /\ x % 64 = a /\ x # 0
  BY DEF Byte
<1>2. Begun(l, e, Words(<<x, y>>))
  OBVIOUS
<1> HIDE DEF x
<1>3. l[e][1] = x /\ l[e][2] = y
  BY <1>1, <1>2, OneWordIs
<1>4. TypeOf(l[e]) = 1 /\ l[e] # Erased
  BY <1>1, <1>3, NotErased DEF TypeOf
<1>5. BytesIn(l, e) = <<y>> /\ AddressIn(l, e) = a
  <2>1. BytesIn(l, e) = <<l[e][2]>> /\ AddressIn(l, e) = l[e][1] % 64
    BY <1>4 DEF BytesIn, AddressIn
  <2> QED BY <1>1, <1>3, <2>1
<1>6. Len(BytesIn(l, e)) = 1
  BY <1>5
<1>7. GoesOn(l, e)
  <2>1. e <= Slots
    BY Sizes
  <2> QED BY <1>4, <1>5, <1>6, <2>1 DEF GoesOn, LegibleIn
<1> QED BY <1>5, <1>6, <1>7 DEF ReadAs, ReadWhole

LEMMA Word01Read ==
  ASSUME Sized, NEW l \in Log, NEW e \in 1 .. Slots,
         NEW a \in Nat, NEW bytes, IsWord01(a, bytes),
         Begun(l, e, Words(Raw(a, bytes))), a + 2 <= LogicalSize
  PROVE  ReadAs(l, e, a, 2, bytes) /\ ReadWhole(l, e, 2, bytes)
<1> DEFINE b == bytes[1]
           x == 128 + b * 32 + a \div 512
           y == (a \div 2) % 256
           h == a \div 2
           q == h \div 256
<1>w. /\ writeSize = 2 /\ a % 2 = 0 /\ a < 16384
      /\ b \in {0, 1} /\ bytes[2] = 0
  BY Word01Facts
<1>2. Begun(l, e, Words(<<x, y>>))
  BY DEF Raw
<1>x. x = 128 + b * 32 + a \div 512 /\ y = (a \div 2) % 256
  OBVIOUS
<1> HIDE DEF x, y, b
<1>0. q \in 0 .. 31 /\ y \in 0 .. 255 /\ q * 512 + y * 2 = a /\ a \div 512 = q
  <2>1. h \in 0 .. 8191 /\ a = 2 * h /\ y = h % 256
    BY <1>w, <1>x
  <2> HIDE DEF h
  <2>2. q \in 0 .. 31 /\ y \in 0 .. 255 /\ q * 256 + y = h
    BY <2>1
  <2> HIDE DEF q
  <2>3. q * 512 + y * 2 = a
    BY <2>1, <2>2
  <2>4. a \div 512 = q
    BY <2>2, <2>3
  <2> QED BY <2>2, <2>3, <2>4
<1>1. /\ x \in Byte /\ x \div 64 = 2 /\ x % 32 = q /\ (x \div 32) % 2 = b /\ x # 0
      /\ y \in Byte
  <2>1. x = 128 + b * 32 + q
    BY <1>0, <1>x
  <2> HIDE DEF q
  <2>2. x = 128 + q \/ x = 160 + q
    BY <1>0, <1>w, <2>1
  <2>3. x \in 0 .. 255 /\ x \div 64 = 2 /\ x % 32 = q /\ x # 0
    BY <1>0, <2>2
  <2>4. (x \div 32) % 2 = b
    BY <1>0, <1>w, <2>1
  <2> QED BY <1>0, <2>3, <2>4 DEF Byte
<1> HIDE DEF q
<1>3. l[e][1] = x /\ l[e][2] = y
  BY <1>1, <1>2, <1>w, OneWordIs
<1>4. TypeOf(l[e]) = 2 /\ l[e] # Erased
  BY <1>1, <1>3, NotErased DEF TypeOf
<1>5. BytesIn(l, e) = <<b, 0>> /\ AddressIn(l, e) = a
  <2>1. /\ BytesIn(l, e) = <<(l[e][1] \div 32) % 2, 0>>
        /\ AddressIn(l, e) = (l[e][1] % 32) * 512 + l[e][2] * 2
    BY <1>4 DEF BytesIn, AddressIn
  <2> QED BY <1>0, <1>1, <1>3, <2>1
<1>6. Len(BytesIn(l, e)) = 2
  BY <1>5
<1>7. GoesOn(l, e)
  <2>1. e <= Slots
    BY Sizes
  <2> QED BY <1>4, <1>5, <1>6, <1>w, <2>1 DEF GoesOn, LegibleIn
<1>8. \A i \in 1 .. 2 : BytesIn(l, e)[i] = bytes[i]
  <2>1. \A i \in 1 .. 2 : i = 1 \/ i = 2
    OBVIOUS
  <2> QED BY <1>5, <1>w, <2>1 DEF b
<1> QED BY <1>5, <1>6, <1>7, <1>8 DEF ReadAs, ReadWhole

LEMMA TakeOK ==
  ASSUME NEW bytes \in Seq(Byte), bytes # <<>>
  PROVE  LET first == Take(bytes, 5)
         IN  /\ first \in Seq(Byte) /\ Len(first) \in 1 .. 5 /\ Len(first) <= Len(bytes)
             /\ \A i \in 1 .. Len(first) : first[i] = bytes[i]
<1> DEFINE len == Len(bytes)
           m == IF 5 < len THEN 5 ELSE len
<1>1. len \in Nat \ {0} /\ \A i \in 1 .. len : bytes[i] \in Byte
  BY LenProperties, EmptySeq
<1>2. Take(bytes, 5) = SubSeq(bytes, 1, m)
  BY DEF Take
<1> HIDE DEF len
<1>3. m \in 1 .. 5 /\ m <= len
  <2>1. CASE 5 < len
    BY <1>1, <2>1
  <2>2. CASE ~(5 < len)
    BY <1>1, <2>2
  <2> QED BY <2>1, <2>2
<1> HIDE DEF m
<1>4. \A i \in 1 .. m : bytes[i] \in Byte /\ 1 + i - 1 = i
  BY <1>1, <1>3
<1>5. /\ SubSeq(bytes, 1, m) \in Seq(Byte) /\ Len(SubSeq(bytes, 1, m)) = m
      /\ \A i \in 1 .. m - 1 + 1 : SubSeq(bytes, 1, m)[i] = bytes[1 + i - 1]
  <2>1. 1 \in Int /\ m \in Int /\ \A i \in 1 .. m : bytes[i] \in Byte
    BY <1>3, <1>4
  <2>2. /\ SubSeq(bytes, 1, m) \in Seq(Byte)
        /\ Len(SubSeq(bytes, 1, m)) = IF 1 <= m THEN m - 1 + 1 ELSE 0
        /\ \A i \in 1 .. m - 1 + 1 : SubSeq(bytes, 1, m)[i] = bytes[1 + i - 1]
    BY <2>1, SubSeqProperties
  <2> QED BY <1>3, <2>2
<1>6. \A i \in 1 .. m : SubSeq(bytes, 1, m)[i] = bytes[i]
  BY <1>3, <1>4, <1>5
<1> QED BY <1>2, <1>3, <1>5, <1>6 DEF len

\* With two-byte words, the addresses are those of one-word entries: an entry of
\* several words is torn by a power loss between them.
OneWordEntries == 2 \in WriteSizes => LogicalSize <= ByteLimit

LEMMA EntryRead ==
  ASSUME Sized, AddressesFit, OneWordEntries,
         NEW l \in Log, NEW e \in 1 .. Slots,
         NEW a \in Nat, NEW bytes \in Seq(Byte), bytes # <<>>, a + Len(bytes) <= LogicalSize,
         Begun(l, e, Encoded(a, bytes).words)
  PROVE  /\ Taken(a, bytes) \in 1 .. Len(bytes)
         /\ ReadAs(l, e, a, Taken(a, bytes), bytes)
         /\ Whole(l, e, Encoded(a, bytes).words) => ReadWhole(l, e, Taken(a, bytes), bytes)
         /\ Width(l[e]) = Len(Encoded(a, bytes).words)
<1> DEFINE first == Take(bytes, 5)
           n == Taken(a, bytes)
           W == Encoded(a, bytes).words
           len == Len(bytes)
<1>1. len \in Nat \ {0} /\ \A i \in 1 .. len : bytes[i] \in Byte
  BY LenProperties, EmptySeq
<1>2. W = Words(Raw(a, bytes))
  BY DEF Encoded
<1>3. Width(l[e]) = Len(W)
  BY EncodedOK DEF NewEntry, Begun
<1>4. Begun(l, e, Words(Raw(a, bytes))) /\ (Whole(l, e, W) <=> Whole(l, e, Words(Raw(a, bytes))))
  BY <1>2
<1>5. a < LogicalSize /\ LogicalSize \in Nat
  <2>1. LogicalSize \in Nat /\ a + len <= LogicalSize
    BY Sizes
  <2> HIDE DEF len
  <2> QED BY <1>1, <2>1
<1>6. CASE IsWord01(a, bytes)
  <2>1. len >= 2 /\ n = 2
    BY <1>6, Word01Facts DEF Taken
  <2>2. a + 2 <= LogicalSize
    <3>1. a + len <= LogicalSize
      OBVIOUS
    <3> HIDE DEF len
    <3> QED BY <1>1, <1>5, <2>1, <3>1
  <2>3. ReadAs(l, e, a, 2, bytes) /\ ReadWhole(l, e, 2, bytes)
    BY <1>4, <1>6, <2>2, Word01Read
  <2>4. n \in 1 .. len
    BY <1>1, <2>1
  <2> QED BY <1>3, <2>1, <2>3, <2>4
<1>7. CASE ~IsWord01(a, bytes) /\ IsByte(a)
  <2>1. writeSize = 2 /\ a \in 0 .. 63 /\ bytes[1] \in Byte
    BY <1>1, <1>7, SizesAssumption DEF IsByte
  <2>2. Raw(a, bytes) = <<64 + a, bytes[1]>> /\ n = 1
    BY <1>7 DEF Raw, Taken
  <2> DEFINE b == bytes[1]
  <2>3. Begun(l, e, Words(<<64 + a, b>>)) /\ b \in Byte /\ a + 1 <= LogicalSize
    BY <1>4, <1>5, <2>1, <2>2
  <2> HIDE DEF b
  <2>4. ReadAs(l, e, a, 1, <<b>>) /\ ReadWhole(l, e, 1, <<b>>)
    BY <2>1, <2>3, ByteRead
  <2>5. \A i \in 1 .. 1 : <<b>>[i] = bytes[i]
    BY DEF b
  <2>6. ReadAs(l, e, a, n, bytes) /\ ReadWhole(l, e, n, bytes)
    BY <2>2, <2>4, <2>5 DEF ReadAs, ReadWhole
  <2>7. n \in 1 .. len
    BY <1>1, <2>2
  <2> QED BY <1>3, <2>6, <2>7
<1>8. CASE ~IsWord01(a, bytes) /\ ~IsByte(a)
  <2>1. Raw(a, bytes) = Multibyte(a, first) /\ n = Len(first)
    BY <1>8 DEF Raw, Taken
  <2>2. /\ first \in Seq(Byte) /\ Len(first) \in 1 .. 5 /\ Len(first) <= Len(bytes)
        /\ \A i \in 1 .. Len(first) : first[i] = bytes[i]
    BY TakeOK
  <2>3. writeSize # 2
    <3>1. SUFFICES ASSUME writeSize = 2 PROVE FALSE
      OBVIOUS
    <3>2. LogicalSize <= ByteLimit /\ ByteLimit \in Nat
      BY <3>1, SizesAssumption DEF Sized, OneWordEntries
    <3> QED BY <1>5, <1>8, <3>1, <3>2 DEF IsByte
  <2>4. a + Len(first) <= LogicalSize
    <3> DEFINE k == Len(first)
    <3>1. k \in 1 .. 5 /\ k <= len /\ a + len <= LogicalSize
      BY <2>2
    <3> HIDE DEF k, len
    <3>2. a + k <= LogicalSize
      BY <1>1, <1>5, <3>1
    <3> QED BY <3>2 DEF k
  <2>5. Begun(l, e, Words(Multibyte(a, first)))
    BY <1>4, <2>1
  <2> HIDE DEF first
  <2>6. /\ ReadAs(l, e, a, Len(first), first)
        /\ Whole(l, e, Words(Multibyte(a, first))) => ReadWhole(l, e, Len(first), first)
    BY <2>2, <2>3, <2>4, <2>5, MultibyteRead
  <2>7. ReadAs(l, e, a, n, bytes) /\ (Whole(l, e, W) => ReadWhole(l, e, n, bytes))
    BY <1>4, <2>1, <2>2, <2>6 DEF ReadAs, ReadWhole
  <2>8. n \in 1 .. len
    BY <1>1, <2>1, <2>2
  <2> QED BY <1>3, <2>7, <2>8
<1> QED BY <1>6, <1>7, <1>8

-----------------------------------------------------------------------------
(* A write under way *)

\* What the contents may come back as: those of data, but for the bytes at risk.
Maybe(data, old, risk) ==
  {d \in Contents : \A b \in Address :
     d[b] \in (IF b \in risk THEN {data[b], old[b], Blank[b]} ELSE {data[b]})}

\* The words of an entry that are in the log l from e to n, and those left.
InLog(l, e, n, words, left) ==
  /\ Len(words) = (n - e) + Len(left)
  /\ \A k \in 1 .. n - e : l[e + k - 1] = words[k]
  /\ \A k \in 1 .. Len(left) : left[k] = words[(n - e) + k]

\* The log holds contents d up to e, and from there to n the begin of an entry
\* of what is left of a write, which will make them data.
Entering(c, l, n, call, data, risk, G) ==
  \E e \in 1 .. n, d \in G, a \in Nat, bytes \in Seq(Byte) \ {<<>>} :
    /\ Logged(c, l, e, d)
    /\ a + Len(bytes) <= LogicalSize /\ a .. a + Len(bytes) - 1 \subseteq risk
    /\ PatchOf(d, a, bytes) = data
    /\ call.at = Encoded(a, bytes).at /\ call.bytes = Encoded(a, bytes).bytes
    /\ InLog(l, e, n, Encoded(a, bytes).words, call.words)

\* Contents z are d with the first n bytes of some at a.
PatchedBy(z, d, a, n, bytes) ==
  \A b \in Address : z[b] = IF b \in a .. a + n - 1 THEN bytes[b - a + 1] ELSE d[b]

\* The same with some of them lost.
TornBy(z, d, a, n, bytes) ==
  \A b \in Address :
    IF b \in a .. a + n - 1 THEN z[b] \in {bytes[b - a + 1], 0} ELSE z[b] = d[b]

LEMMA AfterRead ==
  ASSUME NEW l, NEW e, NEW a \in Nat, NEW bytes, NEW n \in Nat, ReadAs(l, e, a, n, bytes), NEW d
  PROVE  /\ TornBy(After(l, <<e, d>>)[2], d, a, n, bytes)
         /\ ReadWhole(l, e, n, bytes) => PatchedBy(After(l, <<e, d>>)[2], d, a, n, bytes)
<1> DEFINE read == BytesIn(l, e)
<1>1. AddressIn(l, e) = a /\ Len(read) = n /\ \A i \in 1 .. n : read[i] \in {bytes[i], 0}
  BY DEF ReadAs
<1>2. ReadWhole(l, e, n, bytes) => \A i \in 1 .. n : read[i] = bytes[i]
  BY DEF ReadWhole
<1>3. After(l, <<e, d>>)[2] = PatchOf(d, a, read)
  BY <1>1 DEF After
<1> HIDE DEF read
<1>4. \A b \in Address : PatchOf(d, a, read)[b] = IF b \in a .. a + n - 1 THEN read[b - a + 1] ELSE d[b]
  BY <1>1 DEF PatchOf
<1>5. \A b \in Address : b \in a .. a + n - 1 => b - a + 1 \in 1 .. n
  BY Sizes DEF Address
<1> QED BY <1>1, <1>2, <1>3, <1>4, <1>5 DEF TornBy, PatchedBy

LEMMA PatchRest ==
  ASSUME NEW a \in Nat, NEW bytes \in Seq(Byte), NEW n \in 1 .. Len(bytes), NEW d, NEW z,
         PatchedBy(z, d, a, n, bytes)
  PROVE  /\ PatchOf(z, a + n, SubSeq(bytes, n + 1, Len(bytes))) = PatchOf(d, a, bytes)
         /\ SubSeq(bytes, n + 1, Len(bytes)) \in Seq(Byte)
         /\ Len(SubSeq(bytes, n + 1, Len(bytes))) = Len(bytes) - n
<1> DEFINE len == Len(bytes)
           rest == SubSeq(bytes, n + 1, len)
<1>1. len \in Nat /\ \A i \in 1 .. len : bytes[i] \in Byte
  BY LenProperties
<1>2. n \in 1 .. len
  OBVIOUS
<1> HIDE DEF len
<1>3. /\ rest \in Seq(Byte) /\ Len(rest) = len - n
      /\ \A i \in 1 .. len - n : rest[i] = bytes[n + i]
  <2>1. n + 1 \in Int /\ len \in Int /\ \A i \in n + 1 .. len : bytes[i] \in Byte
    BY <1>1, <1>2
  <2>2. /\ rest \in Seq(Byte) /\ Len(rest) = IF n + 1 <= len THEN len - (n + 1) + 1 ELSE 0
        /\ \A i \in 1 .. len - (n + 1) + 1 : rest[i] = bytes[(n + 1) + i - 1]
    BY <2>1, SubSeqProperties
  <2> HIDE DEF rest
  <2>3. Len(rest) = len - n
    BY <1>1, <1>2, <2>2
  <2>4. \A i \in 1 .. len - n : i \in 1 .. len - (n + 1) + 1 /\ (n + 1) + i - 1 = n + i
    BY <1>1, <1>2
  <2>5. \A i \in 1 .. len - n : rest[i] = bytes[n + i]
    BY <2>2, <2>4
  <2> QED BY <2>2, <2>3, <2>5
<1> HIDE DEF rest
<1>0. \A b \in Address : z[b] = IF b \in a .. a + n - 1 THEN bytes[b - a + 1] ELSE d[b]
  BY DEF PatchedBy
<1>4. ASSUME NEW b \in Address
      PROVE  (IF b \in a + n .. a + n + Len(rest) - 1 THEN rest[b - (a + n) + 1] ELSE z[b])
               = IF b \in a .. a + len - 1 THEN bytes[b - a + 1] ELSE d[b]
  <2>1. b \in Int /\ n \in Nat
    BY <1>2, Sizes DEF Address
  <2>2. CASE b \in a + n .. a + len - 1
    <3>1. b - (a + n) + 1 \in 1 .. len - n /\ n + (b - (a + n) + 1) = b - a + 1
      BY <1>1, <2>1, <2>2
    <3>2. b \in a .. a + len - 1 /\ b \in a + n .. a + n + Len(rest) - 1
      BY <1>1, <1>3, <2>1, <2>2
    <3>3. rest[b - (a + n) + 1] = bytes[b - a + 1]
      BY <1>3, <3>1
    <3> QED BY <3>2, <3>3
  <2>3. CASE b \in a .. a + n - 1
    <3>1. b \in a .. a + len - 1 /\ b \notin a + n .. a + n + Len(rest) - 1
      BY <1>1, <1>2, <1>3, <2>1, <2>3
    <3> QED BY <1>0, <2>3, <3>1
  <2>4. CASE b \notin a .. a + len - 1
    <3>1. b \notin a .. a + n - 1 /\ b \notin a + n .. a + n + Len(rest) - 1
      BY <1>1, <1>2, <1>3, <2>1, <2>4
    <3> QED BY <1>0, <2>4, <3>1
  <2> QED BY <1>1, <1>2, <2>1, <2>2, <2>3, <2>4
<1>5. PatchOf(z, a + n, rest) = PatchOf(d, a, bytes)
  BY <1>4 DEF PatchOf, len
<1> QED BY <1>3, <1>5 DEF rest, len

\* A power loss in the middle of an entry costs bytes at risk only: playback
\* either stops before the entry or reads some of its bytes as zeros.
LEMMA Torn ==
  ASSUME Sized, AddressesFit, OneWordEntries,
         NEW c, NEW l \in Log, NEW n \in 1 .. Slots + 1, NEW call \in Todo,
         NEW data, NEW old, NEW risk,
         Entering(c, l, n, call, data, risk, Maybe(data, old, risk)),
         RestFrom(l, n)
  PROVE  Recoverable(c, l, Maybe(data, old, risk))
<1> DEFINE G == Maybe(data, old, risk)
<1>1. PICK e \in 1 .. n, d \in G, a \in Nat, bytes \in Seq(Byte) \ {<<>>} :
        /\ Logged(c, l, e, d)
        /\ a + Len(bytes) <= LogicalSize /\ a .. a + Len(bytes) - 1 \subseteq risk
        /\ PatchOf(d, a, bytes) = data
        /\ InLog(l, e, n, Encoded(a, bytes).words, call.words)
  BY DEF Entering
<1>0. Slots \in Nat \ {0} /\ LogicalSize \in Nat
  BY Sizes
<1> DEFINE W == Encoded(a, bytes).words
           m == Taken(a, bytes)
           left == Len(call.words)
<1>2. left \in Nat /\ Len(W) = (n - e) + left /\ Len(W) \in Nat
  <2>1. call.words \in Seq(Word) /\ W \in Seq(Word)
    BY EncodedOK DEF Todo
  <2> QED BY <1>1, <2>1, LenProperties DEF InLog
<1>3. n \in Nat \ {0} /\ e \in Nat \ {0} /\ e <= n
  OBVIOUS
<1>4. ~GoesOn(l, n)
  BY <1>0, <1>3 DEF RestFrom, GoesOn
<1>5. CASE e = n
  BY <1>1, <1>3, <1>4, <1>5, LoggedRecoverable
<1>6. CASE e # n
  <2>1. e \in 1 .. Slots /\ n - e \in Nat \ {0}
    BY <1>0, <1>3, <1>6
  <2>2. l[e] = W[1]
    <3>1. 1 \in 1 .. n - e /\ e + 1 - 1 = e
      BY <1>3, <2>1
    <3> QED BY <1>1, <3>1 DEF InLog
  <2>3. ASSUME NEW k \in 2 .. Len(W) PROVE WordIn(l, e + k - 1) \in {W[k], Erased}
    <3>1. CASE k <= n - e
      <4>1. k \in 1 .. n - e
        BY <1>2, <2>1, <3>1
      <4>2. e + k - 1 <= Slots
        BY <1>0, <1>3, <4>1
      <4> QED BY <1>1, <4>1, <4>2 DEF InLog, WordIn
    <3>2. CASE ~(k <= n - e)
      <4>1. e + k - 1 \in n .. e + k - 1
        BY <1>2, <1>3, <2>1, <3>2
      <4>2. e + k - 1 <= Slots => e + k - 1 \in n .. Slots
        BY <1>0, <4>1
      <4> QED BY <4>2 DEF RestFrom, WordIn
    <3> QED BY <3>1, <3>2
  <2>4. Begun(l, e, W)
    BY <2>2, <2>3 DEF Begun
  <2>5. m \in 1 .. Len(bytes) /\ ReadAs(l, e, a, m, bytes) /\ Width(l[e]) = Len(W)
    BY <1>1, <2>1, <2>4, EntryRead
  <2> DEFINE z == After(l, <<e, d>>)
  <2>6. GoesOn(l, e) /\ d \in Contents
    BY <2>5 DEF ReadAs, Maybe
  <2>7. z \in Step /\ Logged(c, l, z[1], z[2])
    BY <1>1, <1>3, <2>6, LoggedMore
  <2>8. z[1] = e + Len(W)
    BY <2>5 DEF After
  <2> HIDE DEF z
  <2>9. z[1] \in Nat \ {0} /\ z[2] \in Contents /\ z[1] >= n
    BY <1>2, <1>3, <2>7, <2>8 DEF Step
  <2>10. ~GoesOn(l, z[1])
    <3>1. z[1] <= Slots => z[1] \in n .. Slots
      BY <1>0, <2>9
    <3> QED BY <3>1 DEF RestFrom, GoesOn
  <2> HIDE DEF m, W, left
  <2>0. TornBy(z[2], d, a, m, bytes)
    <3>1. m \in Nat /\ ReadAs(l, e, a, m, bytes)
      BY <2>5, LenProperties
    <3>2. TornBy(After(l, <<e, d>>)[2], d, a, m, bytes)
      BY <3>1, AfterRead
    <3> QED BY <3>2 DEF z
  <2>11. ASSUME NEW b \in Address
         PROVE  z[2][b] \in (IF b \in risk THEN {data[b], old[b], Blank[b]} ELSE {data[b]})
    <3>1. b \in Int /\ Blank[b] = 0
      BY Sizes DEF Address, Blank
    <3>2. Len(bytes) \in Nat /\ m \in Nat /\ m <= Len(bytes)
      BY <2>5, LenProperties
    <3>3. CASE b \in a .. a + m - 1
      <4>1. b \in a .. a + Len(bytes) - 1
        BY <3>1, <3>2, <3>3
      <4>2. data[b] = bytes[b - a + 1] /\ b \in risk
        BY <1>1, <4>1 DEF PatchOf
      <4>3. z[2][b] \in {bytes[b - a + 1], 0}
        BY <2>0, <3>3 DEF TornBy
      <4> QED BY <3>1, <4>2, <4>3
    <3>4. CASE b \notin a .. a + m - 1
      <4>2. z[2][b] = d[b]
        BY <2>0, <3>4 DEF TornBy
      <4> QED BY <4>2 DEF Maybe
    <3> QED BY <3>3, <3>4
  <2>12. z[2] \in G
    BY <2>9, <2>11 DEF Maybe
  <2> HIDE DEF G
  <2>13. Recoverable(c, l, G)
    BY <2>7, <2>9, <2>10, <2>12, LoggedRecoverable
  <2> QED BY <2>13 DEF G
<1> QED BY <1>5, <1>6

\* One word more of the entry.
LEMMA EnteringStep ==
  ASSUME Sized, NEW c, NEW l \in Log, NEW l2 \in Log, NEW n \in 1 .. Slots,
         NEW call \in Todo, NEW call2 \in Todo, NEW data, NEW risk, NEW G,
         Entering(c, l, n, call, data, risk, G), call.words # <<>>,
         call2.at = call.at, call2.bytes = call.bytes, call2.words = Tail(call.words),
         \A s \in 1 .. Slots : l2[s] = IF s = n THEN call.words[1] ELSE l[s]
  PROVE  Entering(c, l2, n + 1, call2, data, risk, G)
<1>1. PICK e \in 1 .. n, d \in G, a \in Nat, bytes \in Seq(Byte) \ {<<>>} :
        /\ Logged(c, l, e, d)
        /\ a + Len(bytes) <= LogicalSize /\ a .. a + Len(bytes) - 1 \subseteq risk
        /\ PatchOf(d, a, bytes) = data
        /\ call.at = Encoded(a, bytes).at /\ call.bytes = Encoded(a, bytes).bytes
        /\ InLog(l, e, n, Encoded(a, bytes).words, call.words)
  BY DEF Entering
<1>0. Slots \in Nat \ {0} /\ n \in Nat \ {0} /\ e \in Nat \ {0} /\ e <= n /\ n <= Slots
  BY Sizes
<1> DEFINE W == Encoded(a, bytes).words
           left == call.words
           rest == call2.words
<1>2. /\ left \in Seq(Word) /\ Len(left) \in Nat \ {0} /\ Len(rest) = Len(left) - 1
      /\ \A k \in 1 .. Len(rest) : rest[k] = left[k + 1]
  <2>1. left \in Seq(Word)
    BY DEF Todo
  <2> QED BY <2>1, HeadTailProperties, LenProperties, EmptySeq
<1>3. /\ Len(W) = (n - e) + Len(left)
      /\ \A k \in 1 .. n - e : l[e + k - 1] = W[k]
      /\ \A k \in 1 .. Len(left) : left[k] = W[(n - e) + k]
  BY <1>1 DEF InLog
<1>4. Logged(c, l2, e, d)
  <2>1. \A s \in 1 .. Slots : s < e => s # n
    BY <1>0
  <2>2. \A s \in 1 .. Slots : s < e => l2[s] = l[s]
    BY <2>1
  <2> QED BY <1>0, <1>1, <2>2, LoggedSame
<1> DEFINE size == Len(W)
           len == Len(left)
           len2 == Len(rest)
<1>5. size = (n - e) + len /\ len \in Nat \ {0} /\ len2 = len - 1
  BY <1>2, <1>3
<1> HIDE DEF size, len, len2
<1>6. size = (n + 1 - e) + len2
  BY <1>0, <1>5
<1>7. ASSUME NEW k \in 1 .. n + 1 - e PROVE l2[e + k - 1] = W[k]
  <2>1. CASE k = n + 1 - e
    <3>1. e + k - 1 = n /\ k = (n - e) + 1 /\ 1 \in 1 .. len
      BY <1>0, <1>5, <2>1
    <3>2. l2[n] = left[1] /\ left[1] = W[(n - e) + 1]
      BY <1>3, <3>1 DEF len
    <3> QED BY <3>1, <3>2
  <2>2. CASE k # n + 1 - e
    <3>1. k \in 1 .. n - e /\ e + k - 1 \in 1 .. Slots /\ e + k - 1 # n
      BY <1>0, <2>2
    <3> QED BY <1>3, <3>1
  <2> QED BY <2>1, <2>2
<1>8. ASSUME NEW k \in 1 .. len2 PROVE rest[k] = W[(n + 1 - e) + k]
  <2>1. k + 1 \in 1 .. len /\ (n - e) + (k + 1) = (n + 1 - e) + k
    BY <1>0, <1>5
  <2>2. rest[k] = left[k + 1] /\ left[k + 1] = W[(n - e) + (k + 1)]
    BY <1>2, <1>3, <2>1 DEF len, len2
  <2> QED BY <2>1, <2>2
<1>9. InLog(l2, e, n + 1, W, rest)
  BY <1>6, <1>7, <1>8 DEF InLog, size, len2
<1>10. e \in 1 .. n + 1
  BY <1>0
<1> QED BY <1>1, <1>4, <1>9, <1>10 DEF Entering

\* The last word of the entry: playback comes to its end with its bytes in the
\* contents.
LEMMA EnteringDone ==
  ASSUME Sized, AddressesFit, OneWordEntries,
         NEW c, NEW l \in Log, NEW n \in 1 .. Slots + 1, NEW call \in Todo,
         NEW data, NEW old, NEW risk,
         Entering(c, l, n, call, data, risk, Maybe(data, old, risk)), call.words = <<>>
  PROVE  /\ call.bytes = <<>> => Logged(c, l, n, data)
         /\ call.bytes # <<>> =>
              Entering(c, l, n, Encoded(call.at, call.bytes), data, risk, Maybe(data, old, risk))
<1> DEFINE G == Maybe(data, old, risk)
<1>1. PICK e \in 1 .. n, d \in G, a \in Nat, bytes \in Seq(Byte) \ {<<>>} :
        /\ Logged(c, l, e, d)
        /\ a + Len(bytes) <= LogicalSize /\ a .. a + Len(bytes) - 1 \subseteq risk
        /\ PatchOf(d, a, bytes) = data
        /\ call.at = Encoded(a, bytes).at /\ call.bytes = Encoded(a, bytes).bytes
        /\ InLog(l, e, n, Encoded(a, bytes).words, call.words)
  BY DEF Entering
<1>0. Slots \in Nat \ {0} /\ LogicalSize \in Nat /\ n \in Nat \ {0} /\ e \in Nat \ {0} /\ e <= n
  BY Sizes
<1> DEFINE W == Encoded(a, bytes).words
           m == Taken(a, bytes)
           rest == SubSeq(bytes, m + 1, Len(bytes))
           z == After(l, <<e, d>>)
<1>2. /\ Len(W) \in Nat \ {0} /\ Len(W) = n - e
      /\ \A k \in 1 .. n - e : l[e + k - 1] = W[k]
  <2>1. W \in Seq(Word) /\ W # <<>> /\ Len(<<>>) = 0
    BY EncodedOK DEF NewEntry
  <2>2. Len(W) = (n - e) + 0
    BY <1>1, <2>1 DEF InLog
  <2>3. Len(W) \in Nat \ {0}
    BY <2>1, LenProperties, EmptySeq
  <2> QED BY <1>0, <1>1, <2>2, <2>3 DEF InLog
<1>3. e \in 1 .. Slots
  <2> DEFINE size == Len(W)
  <2>1. size \in Nat \ {0} /\ size = n - e
    BY <1>2
  <2> HIDE DEF size
  <2> QED BY <1>0, <2>1
<1>4. Whole(l, e, W) /\ Begun(l, e, W)
  <2> DEFINE size == Len(W)
  <2>0. size \in Nat \ {0} /\ size = n - e
    BY <1>2
  <2> HIDE DEF size
  <2>1. 1 \in 1 .. n - e /\ e + 1 - 1 = e
    BY <1>0, <2>0
  <2>2. \A k \in 2 .. size : k \in 1 .. n - e /\ e + k - 1 <= Slots
    BY <1>0, <2>0
  <2>3. \A k \in 2 .. Len(W) : WordIn(l, e + k - 1) = W[k]
    BY <1>2, <2>2 DEF WordIn, size
  <2> QED BY <1>2, <2>1, <2>3 DEF Whole, Begun
<1>5. /\ m \in 1 .. Len(bytes) /\ ReadAs(l, e, a, m, bytes) /\ ReadWhole(l, e, m, bytes)
      /\ Width(l[e]) = Len(W)
  BY <1>1, <1>3, <1>4, EntryRead
<1>6. GoesOn(l, e) /\ d \in Contents
  BY <1>5 DEF ReadAs, Maybe
<1>7. z \in Step /\ Logged(c, l, z[1], z[2])
  BY <1>0, <1>1, <1>6, LoggedMore
<1>8. z[1] = n
  <2> DEFINE size == Len(W)
  <2>1. size \in Nat \ {0} /\ size = n - e
    BY <1>2
  <2>2. z[1] = e + size
    BY <1>5 DEF After
  <2> HIDE DEF size, z
  <2> QED BY <1>0, <2>1, <2>2
<1>9. m \in Nat /\ Len(bytes) \in Nat /\ m <= Len(bytes)
  BY <1>5, LenProperties
<1>10. PatchedBy(z[2], d, a, m, bytes)
  <2> HIDE DEF m
  <2>1. PatchedBy(After(l, <<e, d>>)[2], d, a, m, bytes)
    BY <1>5, <1>9, AfterRead
  <2> QED BY <2>1 DEF z
<1>12. call.at = a + m /\ call.bytes = rest
  BY <1>1 DEF Encoded
<1> HIDE DEF z
<1> DEFINE f == z[2]
<1>16. \A b \in Address : f[b] = IF b \in a .. a + m - 1 THEN bytes[b - a + 1] ELSE d[b]
  BY <1>10 DEF PatchedBy
<1> HIDE DEF m, f
<1>11. PatchOf(z[2], a + m, rest) = data /\ rest \in Seq(Byte) /\ Len(rest) = Len(bytes) - m
  <2>1. /\ PatchOf(f, a + m, SubSeq(bytes, m + 1, Len(bytes))) = PatchOf(d, a, bytes)
        /\ SubSeq(bytes, m + 1, Len(bytes)) \in Seq(Byte)
        /\ Len(SubSeq(bytes, m + 1, Len(bytes))) = Len(bytes) - m
    <3>1. bytes \in Seq(Byte) /\ m \in 1 .. Len(bytes) /\ PatchedBy(f, d, a, m, bytes)
      BY <1>5, <1>10 DEF f
    <3> QED BY <3>1, PatchRest
  <2> QED BY <1>1, <2>1 DEF f
<1> HIDE DEF rest
<1>13. z[2] \in Contents
  BY <1>7 DEF Step
<1>14. CASE rest = <<>>
  <2>1. Len(rest) = 0
    BY <1>14
  <2>2. PatchOf(z[2], a + m, rest) = [b \in Address |-> z[2][b]]
    <3>1. \A b \in Address : b \notin a + m .. a + m + 0 - 1
      BY <1>9, Sizes DEF Address
    <3> QED BY <2>1, <3>1 DEF PatchOf
  <2>3. z[2] = data
    BY <1>11, <1>13, <2>2 DEF Contents
  <2> QED BY <1>7, <1>8, <1>12, <1>14, <2>3
<1>15. CASE rest # <<>>
  <2> DEFINE at == a + m
             len == Len(bytes)
             len2 == Len(rest)
             U == Encoded(at, rest).words
  <2>1. at \in Nat /\ len2 = len - m /\ m \in 1 .. len /\ len \in Nat /\ a + len <= LogicalSize
    BY <1>1, <1>5, <1>9, <1>11
  <2>2. a .. a + len - 1 \subseteq risk
    BY <1>1
  <2>3. U \in Seq(Word) /\ Len(U) \in Nat
    <3> HIDE DEF at
    <3>1. NewEntry(U)
      BY <1>11, <1>15, <2>1, EncodedOK
    <3>2. U \in Seq(Word)
      BY <3>1 DEF NewEntry
    <3> QED BY <3>2, LenProperties
  <2>4. PatchOf(f, at, rest) = data /\ Logged(c, l, n, f)
    BY <1>7, <1>8, <1>11 DEF f
  <2>5. f \in G
    <3>1. ASSUME NEW b \in Address
          PROVE  f[b] \in (IF b \in risk THEN {data[b], old[b], Blank[b]} ELSE {data[b]})
      <4>1. CASE b \in a .. a + m - 1
        <5>1. b \in Int
          BY Sizes DEF Address
        <5> HIDE DEF len
        <5>2. b \in a .. a + len - 1
          BY <1>0, <2>1, <4>1, <5>1
        <5>3. data[b] = bytes[b - a + 1]
          BY <1>1, <5>2 DEF PatchOf, len
        <5> QED BY <1>16, <4>1, <5>3
      <4>2. CASE b \notin a .. a + m - 1
        BY <1>16, <4>2 DEF Maybe
      <4> QED BY <4>1, <4>2
    <3> QED BY <1>13, <3>1 DEF Maybe, f
  <2> HIDE DEF at, len, len2, U
  <2>6. at + len2 <= LogicalSize /\ at .. at + len2 - 1 \subseteq risk
    <3>1. at = a + m
      BY DEF at
    <3>2. at + len2 = a + len /\ at .. at + len2 - 1 \subseteq a .. a + len - 1
      BY <2>1, <3>1
    <3> QED BY <2>1, <2>2, <3>2
  <2>7. InLog(l, n, n, U, U)
    <3> DEFINE size == Len(U)
    <3>1. size \in Nat
      BY <2>3
    <3>2. 1 .. n - n = {} /\ size = (n - n) + size /\ \A k \in 1 .. size : (n - n) + k = k
      BY <1>0, <3>1
    <3> QED BY <3>2 DEF InLog
  <2>8. Entering(c, l, n, Encoded(at, rest), data, risk, G)
    <3>1. n \in 1 .. n /\ rest \in Seq(Byte) \ {<<>>}
      BY <1>0, <1>11, <1>15
    <3>2. /\ Logged(c, l, n, f) /\ at + Len(rest) <= LogicalSize
          /\ at .. at + Len(rest) - 1 \subseteq risk /\ PatchOf(f, at, rest) = data
          /\ InLog(l, n, n, Encoded(at, rest).words, Encoded(at, rest).words)
      BY <2>4, <2>6, <2>7 DEF len2, U
    <3> HIDE DEF G
    <3> QED BY <2>1, <2>5, <3>1, <3>2 DEF Entering
  <2> QED BY <1>12, <1>15, <2>8 DEF at
<1> QED BY <1>12, <1>14, <1>15

-----------------------------------------------------------------------------
(* The same in the next state, with the same word size *)

LEMMA SameSizes == ASSUME UNCHANGED writeSize PROVE Slots' = Slots /\ Erased' = Erased /\ Word' = Word
BY DEF Slots, Erased, Word

LEMMA SameBytes ==
  ASSUME UNCHANGED writeSize, NEW l, NEW s
  PROVE  /\ \A i : ByteIn(l, s, i)' = ByteIn(l, s, i)
         /\ BytesIn(l, s)' = BytesIn(l, s)
         /\ AddressIn(l, s)' = AddressIn(l, s)
         /\ GoesOn(l, s)' = GoesOn(l, s)
<1>1. \A i : ByteIn(l, s, i)' = ByteIn(l, s, i)
  BY SameSizes DEF ByteIn, WordIn
<1>2. BytesIn(l, s)' = BytesIn(l, s)
  BY <1>1 DEF BytesIn, TypeOf, LengthOf
<1>3. AddressIn(l, s)' = AddressIn(l, s)
  <2> DEFINE x == ByteIn(l, s, 1)
             y == ByteIn(l, s, 2)
             z == ByteIn(l, s, 3)
             x2 == ByteIn(l, s, 1)'
             y2 == ByteIn(l, s, 2)'
             z2 == ByteIn(l, s, 3)'
  <2>1. x2 = x /\ y2 = y /\ z2 = z
    BY <1>1
  <2>2. AddressIn(l, s)
          = CASE TypeOf(l[s]) = 0 -> (x % 8) * 65536 + y * 256 + z
              [] TypeOf(l[s]) = 1 -> l[s][1] % 64
              [] TypeOf(l[s]) = 2 -> (l[s][1] % 32) * 512 + l[s][2] * 2
    BY DEF AddressIn
  <2>3. AddressIn(l, s)'
          = CASE TypeOf(l[s]) = 0 -> (x2 % 8) * 65536 + y2 * 256 + z2
              [] TypeOf(l[s]) = 1 -> l[s][1] % 64
              [] TypeOf(l[s]) = 2 -> (l[s][1] % 32) * 512 + l[s][2] * 2
    BY DEF AddressIn, TypeOf
  <2> HIDE DEF x, y, z, x2, y2, z2
  <2> QED BY <2>1, <2>2, <2>3
<1>4. GoesOn(l, s)' = GoesOn(l, s)
  BY <1>2, <1>3, SameSizes DEF GoesOn, LegibleIn, TypeOf
<1> QED BY <1>1, <1>2, <1>3, <1>4

LEMMA SameAfter ==
  ASSUME UNCHANGED writeSize, NEW l
  PROVE  \A x : After(l, x)' = After(l, x)
BY SameBytes DEF After, Width, WordsOf, PatchOf, TypeOf, LengthOf

LEMMA SameLogged ==
  ASSUME UNCHANGED writeSize, NEW c, NEW l, NEW n, NEW d, Logged(c, l, n, d)
  PROVE  Logged(c, l, n, d)'
BY SameBytes, SameAfter DEF Logged, Start

LEMMA SameReplay ==
  ASSUME UNCHANGED writeSize, NEW l, NEW R, NEW G, Replay(l, R, G)
  PROVE  Replay(l, R, G)'
BY SameBytes, SameAfter DEF Replay, Step

LEMMA SameRecoverable ==
  ASSUME UNCHANGED writeSize, NEW c, NEW l, NEW G, Recoverable(c, l, G)
  PROVE  Recoverable(c, l, G)'
BY SameReplay DEF Recoverable, Start

LEMMA SameEncoded ==
  ASSUME UNCHANGED writeSize
  PROVE  \A a, bytes : Encoded(a, bytes)' = Encoded(a, bytes)
<1>1. \A raw : Words(raw)' = Words(raw)
  BY DEF Words
<1>2. \A a, bytes : Multibyte(a, bytes)' = Multibyte(a, bytes)
  BY DEF Multibyte, WordsOf
<1>3. \A a, bytes : IsWord01(a, bytes)' = IsWord01(a, bytes) /\ IsByte(a)' = IsByte(a)
  BY DEF IsWord01, IsByte
<1>4. \A a, bytes : Raw(a, bytes)' = Raw(a, bytes) /\ Taken(a, bytes)' = Taken(a, bytes)
  BY <1>2, <1>3 DEF Raw, Taken, Take
<1> QED BY <1>1, <1>4 DEF Encoded

LEMMA SameEntering ==
  ASSUME UNCHANGED writeSize, NEW c, NEW l, NEW n, NEW call, NEW data, NEW risk, NEW G,
         Entering(c, l, n, call, data, risk, G)
  PROVE  Entering(c, l, n, call, data, risk, G)'
<1>1. PICK e \in 1 .. n, d \in G, a \in Nat, bytes \in Seq(Byte) \ {<<>>} :
        /\ Logged(c, l, e, d)
        /\ a + Len(bytes) <= LogicalSize /\ a .. a + Len(bytes) - 1 \subseteq risk
        /\ PatchOf(d, a, bytes) = data
        /\ call.at = Encoded(a, bytes).at /\ call.bytes = Encoded(a, bytes).bytes
        /\ InLog(l, e, n, Encoded(a, bytes).words, call.words)
  BY DEF Entering
<1>2. Logged(c, l, e, d)'
  BY <1>1, SameLogged
<1>3. Encoded(a, bytes)' = Encoded(a, bytes)
  BY SameEncoded
<1> QED BY <1>1, <1>2, <1>3 DEF Entering

-----------------------------------------------------------------------------
(* What was written last survives *)

contents == IF up THEN cache ELSE wanted

\* What the flash says of the contents, by what is under way.
Kept(at, c, l, n, call, here, data, old, risk) ==
  /\ at \in {"off", "erase", "consolidate"} => Recoverable(c, l, Maybe(data, old, risk))
  /\ at = "playback" =>
       /\ Logged(c, l, n, here)
       /\ \E R : /\ Replay(l, R, Maybe(data, old, risk))
                 /\ <<1, Start(c)>> \in R /\ <<n, here>> \in R
  /\ at = "idle" => Logged(c, l, n, here)
  /\ at = "append" => Entering(c, l, n, call, here, risk, Maybe(data, old, risk))

\* Playback of what is on the flash gives the contents, but for bytes at risk,
\* unless an error has been reported that no consolidation has made good.
Survives ==
  /\ RestInv
  /\ pc = "idle" => atRisk = {} /\ before = cache
  /\ pc \in {"erase", "consolidate"} => atRisk = Address
  /\ ~failed => Kept(pc, consolidated, log, next, todo, cache, contents, before, atRisk)

LEMMA KeptSame ==
  ASSUME UNCHANGED writeSize, NEW at, NEW c, NEW l, NEW n, NEW call, NEW here, NEW data, NEW old,
         NEW risk, Kept(at, c, l, n, call, here, data, old, risk)
  PROVE  Kept(at, c, l, n, call, here, data, old, risk)'
<1> DEFINE G == Maybe(data, old, risk)
<1>0. G' = G
  BY DEF Maybe
<1>1. /\ Recoverable(c, l, G) => Recoverable(c, l, G)'
      /\ Logged(c, l, n, here) => Logged(c, l, n, here)'
      /\ Entering(c, l, n, call, here, risk, G) => Entering(c, l, n, call, here, risk, G)'
  <2> HIDE DEF G
  <2>1. /\ Recoverable(c, l, G) => Recoverable(c, l, G)'
        /\ Entering(c, l, n, call, here, risk, G) => Entering(c, l, n, call, here, risk, G)'
    BY <1>0, SameRecoverable, SameEntering
  <2> QED BY <2>1, SameLogged
<1>2. \A R : Replay(l, R, G) => Replay(l, R, G)'
  <2> HIDE DEF G
  <2> QED BY <1>0, SameReplay
<1> QED BY <1>1, <1>2 DEF Kept, Start

LEMMA SurvivesNext ==
  ASSUME UNCHANGED writeSize, RestInv',
         pc' = "idle" => atRisk' = {} /\ before' = cache',
         pc' \in {"erase", "consolidate"} => atRisk' = Address,
         ~failed' => Kept(pc', consolidated', log', next', todo', cache', contents', before', atRisk')
  PROVE  Survives'
<1>1. ~failed' => Kept(pc, consolidated, log, next, todo, cache, contents, before, atRisk)'
  BY KeptSame
<1> QED BY <1>1 DEF Survives

LEMMA SurvivesInit == Init => Survives
<1> SUFFICES ASSUME Init PROVE Survives
  OBVIOUS
<1>1. RestInv /\ Sized /\ Slots \in Nat \ {0} /\ Blank \in Contents
  BY RestInit, BlankType, Sizes DEF Init, Sized
<1>2. pc = "off" /\ consolidated = NoData /\ contents = Blank /\ before = Blank /\ atRisk = {}
  BY DEF Init, contents, up
<1>3. Start(NoData) = Blank
  BY DEF Start
<1>4. ~GoesOn(log, 1)
  BY <1>1 DEF Init, GoesOn
<1>5. Logged(NoData, log, 1, Blank)
  BY <1>3, LoggedFresh
<1>6. Blank \in Maybe(Blank, Blank, {})
  BY <1>1 DEF Maybe
<1>7. Recoverable(NoData, log, Maybe(Blank, Blank, {}))
  BY <1>4, <1>5, <1>6, LoggedRecoverable
<1> QED BY <1>1, <1>2, <1>7 DEF Survives, Kept

\* Where playback stops, what has been read is what the flash has.
LEMMA PlaybackEnds ==
  ASSUME NEW c, NEW l, NEW n \in Nat \ {0}, NEW call, NEW here, NEW data, NEW old, NEW risk,
         Kept("playback", c, l, n, call, here, data, old, risk), ~GoesOn(l, n)
  PROVE  here \in Maybe(data, old, risk) /\ Logged(c, l, n, here)
BY DEF Kept, Replay

\* More bytes at risk, more that the contents may come back as.
LEMMA MaybeMore ==
  ASSUME NEW data, NEW old, NEW risk
  PROVE  /\ Maybe(data, old, risk) \subseteq Maybe(data, old, Address)
         /\ \A d \in Maybe(data, old, Address) : \A d2 \in Contents :
              (\A b \in Address : d2[b] \in {d[b], Blank[b]}) => d2 \in Maybe(data, old, Address)
         /\ data \in Contents => data \in Maybe(data, old, risk)
         /\ Blank \in Maybe(data, old, Address)
BY BlankType DEF Maybe

LEMMA RecoverableMore ==
  ASSUME NEW c, NEW l, NEW G, NEW H, G \subseteq H, Recoverable(c, l, G)
  PROVE  Recoverable(c, l, H)
<1>1. PICK R : Replay(l, R, G) /\ <<1, Start(c)>> \in R
  BY DEF Recoverable
<1>2. Replay(l, R, H)
  BY <1>1 DEF Replay
<1> QED BY <1>1, <1>2 DEF Recoverable

\* A state whose types are known.
Typed ==
  /\ Sized /\ log \in Log /\ Slots \in Nat \ {0} /\ consolidated \in Contents \cup {NoData}
  /\ cache \in Contents /\ wanted \in Contents /\ before \in Contents
  /\ next \in Nat \ {0} /\ todo \in Todo /\ atRisk \subseteq Address /\ failed \in BOOLEAN

LEMMA RestTyped ==
  ASSUME RestInv PROVE Typed
<1>1. TypeOK
  BY DEF RestInv
<1>2. Sized
  BY <1>1 DEF TypeOK, Sized
<1>3. Slots \in Nat \ {0}
  BY <1>2, Sizes
<1>4. next \in Nat \ {0}
  BY <1>1, <1>3 DEF TypeOK
<1> QED BY <1>1, <1>2, <1>3, <1>4 DEF TypeOK, Typed, Log, Todo

\* Playback takes an entry.
LEMMA PlaySurvives ==
  ASSUME Survives, Play, UNCHANGED writeSize, RestInv' PROVE Survives'
<1>1. /\ pc = "playback" /\ pc' = pc /\ next <= Slots /\ log[next] # Erased /\ Legible
      /\ cache' = Patched(EntryAddress, EntryBytes) /\ next' = next + Width(log[next])
      /\ UNCHANGED <<consolidated, log, todo, wanted, before, atRisk, failed>>
  BY DEF Play, Playing, First, flash, history
<1>2. Typed
  BY RestTyped DEF Survives
<1>3. contents' = contents
  BY <1>1 DEF contents, up
<1>4. ASSUME ~failed
      PROVE  Kept(pc, consolidated, log, next', todo, cache', contents, before, atRisk)
  <2> DEFINE G == Maybe(contents, before, atRisk)
             y == After(log, <<next, cache>>)
  <2>1. /\ Logged(consolidated, log, next, cache)
        /\ \E R : Replay(log, R, G) /\ <<1, Start(consolidated)>> \in R /\ <<next, cache>> \in R
    BY <1>1, <1>4 DEF Survives, Kept
  <2>2. next \in 1 .. Slots /\ log \in [1 .. Slots -> Word]
    BY <1>1, <1>2 DEF Typed, Log
  <2>3. Legible <=> LegibleIn(log, next)
    BY <1>2, <2>2, EntryIsIn DEF Typed
  <2>4. LegibleIn(log, next)
    BY <1>1, <2>3
  <2>5. Type \in {0, 1, 2}
    BY <1>1 DEF Legible
  <2>6. EntryBytes = BytesIn(log, next) /\ EntryAddress = AddressIn(log, next)
    BY <1>2, <2>2, <2>5, EntryIsIn DEF Typed
  <2>7. GoesOn(log, next)
    BY <1>1, <2>4 DEF GoesOn
  <2>8. y = <<next', cache'>>
    BY <1>1, <2>6 DEF After, Patched, PatchOf
  <2>9. Logged(consolidated, log, next', cache')
    <3>1. Logged(consolidated, log, y[1], y[2])
      BY <1>2, <2>1, <2>7, LoggedMore DEF Typed
    <3> HIDE DEF y
    <3> QED BY <2>8, <3>1
  <2>10. \E R : Replay(log, R, G) /\ <<1, Start(consolidated)>> \in R /\ <<next', cache'>> \in R
    <3>1. PICK R : Replay(log, R, G) /\ <<1, Start(consolidated)>> \in R /\ <<next, cache>> \in R
      BY <2>1
    <3> HIDE DEF G
    <3>2. y \in R
      BY <2>7, <3>1 DEF Replay
    <3> HIDE DEF y
    <3> QED BY <2>8, <3>1, <3>2
  <2> QED BY <1>1, <2>9, <2>10 DEF Kept
<1> QED BY <1>1, <1>3, <1>4, SurvivesNext

\* Playback has come to its end.
LEMMA PlayedStops ==
  ASSUME Survives, Played \/ PlayedUnusable
  PROVE  /\ pc = "playback" /\ ~GoesOn(log, next)
         /\ ~failed => /\ cache \in Maybe(contents, before, atRisk)
                       /\ Logged(consolidated, log, next, cache)
<1>1. Typed
  BY RestTyped DEF Survives
<1>2. pc = "playback"
  BY DEF Played, PlayedUnusable, Playing
<1>3. ~GoesOn(log, next)
  <2>1. CASE Played
    BY <2>1 DEF Played, GoesOn
  <2>2. CASE next > Slots
    BY <1>1, <2>2 DEF Typed, GoesOn
  <2>3. CASE next <= Slots /\ ~Legible
    <3>1. next \in 1 .. Slots /\ log \in [1 .. Slots -> Word]
      BY <1>1, <2>3 DEF Typed, Log
    <3>2. Legible <=> LegibleIn(log, next)
      BY <1>1, <3>1, EntryIsIn DEF Typed
    <3> QED BY <2>3, <3>2 DEF GoesOn
  <2> QED BY <2>1, <2>2, <2>3 DEF PlayedUnusable, Playing
<1>4. ASSUME ~failed
      PROVE  cache \in Maybe(contents, before, atRisk) /\ Logged(consolidated, log, next, cache)
  BY <1>1, <1>2, <1>3, <1>4, PlaybackEnds DEF Survives, Typed
<1> QED BY <1>2, <1>3, <1>4

LEMMA PlayedSurvives ==
  ASSUME Survives, Played \/ PlayedUnusable, UNCHANGED writeSize, RestInv' PROVE Survives'
<1>1. /\ pc = "playback" /\ ~GoesOn(log, next)
      /\ ~failed => Logged(consolidated, log, next, cache)
  BY PlayedStops
<1>2. Typed
  BY RestTyped DEF Survives
<1>3. CASE Played
  <2>1. /\ pc' = "idle" /\ before' = cache /\ atRisk' = {}
        /\ UNCHANGED <<consolidated, log, cache, next, failed>>
    BY <1>3 DEF Played, Restored, flash
  <2>2. ~failed => Kept(pc', consolidated', log', next', todo', cache', contents', before', atRisk')
    BY <1>1, <2>1 DEF Kept
  <2> QED BY <2>1, <2>2, SurvivesNext
<1>4. CASE PlayedUnusable
  <2>1. /\ pc' = "erase" /\ before' = cache /\ atRisk' = Address
        /\ UNCHANGED <<consolidated, log, cache, failed>>
    BY <1>4 DEF PlayedUnusable, Restored, flash
  <2>2. contents' = cache
    BY <2>1 DEF contents, up
  <2>3. cache \in Maybe(cache, cache, Address)
    BY <1>2, MaybeMore DEF Typed
  <2>4. ~failed => Recoverable(consolidated, log, Maybe(cache, cache, Address))
    BY <1>1, <1>2, <2>3, LoggedRecoverable DEF Typed
  <2>5. ~failed => Kept(pc', consolidated', log', next', todo', cache', contents', before', atRisk')
    BY <2>1, <2>2, <2>4 DEF Kept
  <2> QED BY <2>1, <2>5, SurvivesNext
<1> QED BY <1>3, <1>4

LEMMA PowerOnSurvives ==
  ASSUME Survives, PowerOn, UNCHANGED writeSize, RestInv' PROVE Survives'
<1>1. /\ pc = "off" /\ pc' = "playback" /\ cache' = Start(consolidated) /\ next' = 1
      /\ UNCHANGED <<consolidated, log, wanted, before, atRisk, failed>>
  BY DEF PowerOn, Start, flash, history
<1>2. Typed
  BY RestTyped DEF Survives
<1>3. contents' = contents
  BY <1>1 DEF contents, up
<1>4. ASSUME ~failed
      PROVE  Kept(pc', consolidated, log, 1, todo', Start(consolidated), contents, before, atRisk)
  <2> DEFINE G == Maybe(contents, before, atRisk)
  <2>1. Recoverable(consolidated, log, G)
    BY <1>1, <1>4 DEF Survives, Kept
  <2>2. Logged(consolidated, log, 1, Start(consolidated))
    BY <1>2, LoggedFresh DEF Typed
  <2>3. \E R : Replay(log, R, G) /\ <<1, Start(consolidated)>> \in R
    <3> HIDE DEF G
    <3> QED BY <2>1 DEF Recoverable
  <2> QED BY <1>1, <2>2, <2>3 DEF Kept
<1> QED BY <1>1, <1>3, <1>4, SurvivesNext

\* A write begins with the bytes that it will change at risk.
LEMMA WriteSurvives ==
  ASSUME Survives, NEW r \in Requests, Write(r), UNCHANGED writeSize, RestInv' PROVE Survives'
<1> DEFINE a == r.at
           bytes == r.bytes
           risk == a .. a + Len(bytes) - 1
           G == Maybe(cache', cache, risk)
<1>1. /\ pc = "idle" /\ pc' = "append" /\ cache' = PatchOf(cache, a, bytes)
      /\ todo' = Encoded(a, bytes) /\ before' = cache /\ atRisk' = risk
      /\ UNCHANGED <<consolidated, log, next, failed>>
  BY DEF Write, Patched, PatchOf, flash
<1>2. Typed
  BY RestTyped DEF Survives
<1>3. contents' = cache'
  BY <1>1 DEF contents, up
<1>4. a \in Nat /\ bytes \in Seq(Byte) \ {<<>>} /\ a + Len(bytes) <= LogicalSize
  BY SizesAssumption
<1>5. cache \in G
  <2>1. \A b \in Address : b \notin risk => cache'[b] = cache[b]
    BY <1>1 DEF PatchOf
  <2> HIDE DEF risk
  <2> QED BY <1>2, <2>1 DEF Maybe, Typed
<1>6. ASSUME ~failed
      PROVE  Entering(consolidated, log, next, todo', cache', risk, G)
  <2>1. Logged(consolidated, log, next, cache)
    BY <1>1, <1>6 DEF Survives, Kept
  <2> DEFINE U == Encoded(a, bytes).words
  <2>2. Len(U) \in Nat
    <3>1. NewEntry(U)
      BY <1>2, <1>4, EncodedOK DEF Typed
    <3> QED BY <3>1, LenProperties DEF NewEntry
  <2>3. InLog(log, next, next, U, U)
    <3> DEFINE size == Len(U)
    <3>1. size \in Nat /\ next \in Nat
      BY <1>2, <2>2 DEF Typed
    <3> HIDE DEF size
    <3>2. 1 .. next - next = {} /\ size = (next - next) + size /\ \A k \in 1 .. size : (next - next) + k = k
      BY <3>1
    <3> QED BY <3>2 DEF InLog, size
  <2>4. next \in 1 .. next
    BY <1>2 DEF Typed
  <2> HIDE DEF G, risk
  <2>5. /\ Logged(consolidated, log, next, cache)
        /\ a + Len(bytes) <= LogicalSize /\ a .. a + Len(bytes) - 1 \subseteq risk
        /\ PatchOf(cache, a, bytes) = cache'
        /\ InLog(log, next, next, Encoded(a, bytes).words, todo'.words)
    BY <1>1, <1>4, <2>1, <2>3 DEF risk
  <2> HIDE DEF U
  <2> QED BY <1>1, <1>4, <1>5, <2>4, <2>5 DEF Entering
<1>7. ~failed' => Kept(pc', consolidated', log', next', todo', cache', contents', before', atRisk')
  BY <1>1, <1>3, <1>6 DEF Kept
<1> QED BY <1>1, <1>7, SurvivesNext

\* One word programmed.
LEMMA AppendSurvives ==
  ASSUME LogInLastSector, AddressesFit, OneWordEntries,
         Survives, AppendRaw, UNCHANGED writeSize, RestInv' PROVE Survives'
<1> DEFINE words == todo.words
           call == [todo EXCEPT !.words = Tail(words)]
           G == Maybe(cache, before, atRisk)
<1>1. /\ pc = "append" /\ log' = Programmed /\ next' = Onward
      /\ UNCHANGED <<consolidated, cache, wanted, failed>>
      /\ IF next >= Slots
         THEN pc' = "erase" /\ atRisk' = Address /\ before' = before
         ELSE IF MoreToDo
         THEN todo' = Continued /\ UNCHANGED <<pc, before, atRisk>>
         ELSE pc' = "idle" /\ before' = cache /\ atRisk' = {}
  BY DEF AppendRaw, Idle
<1>2. Typed
  BY RestTyped DEF Survives
<1>3. contents = cache /\ contents' = cache
  BY <1>1 DEF contents, up
<1>4. /\ TypeOK /\ words \in Seq(Word) /\ words # <<>> /\ Head(words) = words[1] /\ log' \in Log
      /\ todo.at \in Nat /\ todo.bytes \in Seq(Byte)
  <2>1. TypeOK
    BY DEF Survives, RestInv
  <2> QED BY <1>1, <1>2, <2>1, ProgrammedType DEF Typed, Log, Todo
<1>5. /\ Len(words) \in Nat \ {0} /\ Tail(words) \in Seq(Word) /\ Len(Tail(words)) = Len(words) - 1
  BY <1>4, HeadTailProperties, LenProperties, EmptySeq
<1>6. /\ call \in Todo /\ call.words = Tail(words) /\ call.at = todo.at /\ call.bytes = todo.bytes
  <2>1. todo \in Todo
    BY <1>2 DEF Typed
  <2> QED BY <1>5, <2>1 DEF Todo
<1>7. ASSUME ~failed
      PROVE  /\ next \in 1 .. Slots /\ next' = next + 1 /\ RestFrom(log', next + 1)
             /\ Entering(consolidated, log', next + 1, call, cache, atRisk, G)
  <2>1. Appending(log, next, words)
    BY <1>1, <1>7 DEF Survives, RestInv, LogSound
  <2>2. next \in 1 .. Slots
    BY <1>2, <2>1 DEF Appending, Typed
  <2>3. \A s \in 1 .. Slots : log'[s] = IF s = next THEN words[1] ELSE log[s]
    BY <1>1, <1>2, <1>4 DEF Programmed, Typed, Log
  <2>4. RestFrom(log', next + 1)
    BY <1>2, <1>4, <2>1, <2>2, <2>3, AppendVisited DEF Typed
  <2>5. Entering(consolidated, log, next, todo, cache, atRisk, G)
    BY <1>1, <1>3, <1>7 DEF Survives, Kept
  <2>6. next' = next + 1
    BY <1>1, <1>2, <2>2 DEF Onward, Typed
  <2> HIDE DEF call, G
  <2>7. Entering(consolidated, log', next + 1, call, cache, atRisk, G)
    BY <1>2, <1>4, <1>6, <2>2, <2>3, <2>5, EnteringStep DEF Typed
  <2> QED BY <2>2, <2>4, <2>6, <2>7
<1> HIDE DEF call
<1>8. CASE next >= Slots
  <2>1. ASSUME ~failed PROVE Recoverable(consolidated, log', Maybe(cache, before, Address))
    <3>1. next + 1 \in 1 .. Slots + 1
      BY <1>2, <1>7, <2>1 DEF Typed
    <3>2. Recoverable(consolidated, log', G)
      BY <1>2, <1>4, <1>6, <1>7, <2>1, <3>1, Torn DEF Typed
    <3> QED BY <3>2, MaybeMore, RecoverableMore
  <2>2. pc' = "erase" /\ atRisk' = Address /\ before' = before
    BY <1>1, <1>8
  <2>3. ~failed' => Kept(pc', consolidated', log', next', todo', cache', contents', before', atRisk')
    BY <1>1, <1>3, <2>1, <2>2 DEF Kept
  <2> QED BY <2>2, <2>3, SurvivesNext
<1>9. CASE ~(next >= Slots) /\ Len(words) > 1
  <2>1. todo' = call /\ UNCHANGED <<pc, before, atRisk>>
    BY <1>1, <1>9 DEF MoreToDo, Continued, call
  <2>2. ~failed' => Kept(pc', consolidated', log', next', todo', cache', contents', before', atRisk')
    BY <1>1, <1>3, <1>7, <2>1 DEF Kept
  <2> QED BY <1>1, <2>1, <2>2, SurvivesNext
<1>10. CASE ~(next >= Slots) /\ ~(Len(words) > 1)
  <2>1. call.words = <<>>
    <3> DEFINE len == Len(words)
               rest == Tail(words)
               size == Len(rest)
    <3>1. len \in Nat \ {0} /\ ~(len > 1) /\ size = len - 1
      BY <1>5, <1>10
    <3> HIDE DEF len, size
    <3>2. size = 0
      BY <3>1
    <3>3. rest \in Seq(Word)
      BY <1>5
    <3>4. Len(rest) = 0 /\ call.words = rest
      BY <1>6, <3>2 DEF size
    <3> HIDE DEF rest
    <3> QED BY <3>3, <3>4, EmptySeq
  <2>2. ASSUME ~failed
        PROVE  /\ todo.bytes = <<>> => Logged(consolidated, log', next + 1, cache)
               /\ todo.bytes # <<>> =>
                    Entering(consolidated, log', next + 1, Encoded(todo.at, todo.bytes), cache, atRisk, G)
    <3>1. next + 1 \in 1 .. Slots + 1
      BY <1>2, <1>7, <2>2 DEF Typed
    <3>2. /\ call.bytes = <<>> => Logged(consolidated, log', next + 1, cache)
          /\ call.bytes # <<>> =>
               Entering(consolidated, log', next + 1, Encoded(call.at, call.bytes), cache, atRisk, G)
      BY <1>2, <1>4, <1>6, <1>7, <2>1, <2>2, <3>1, EnteringDone DEF Typed
    <3> QED BY <1>6, <3>2
  <2>3. CASE todo.bytes = <<>>
    <3>1. pc' = "idle" /\ before' = cache /\ atRisk' = {}
      BY <1>1, <1>10, <2>3 DEF MoreToDo
    <3>2. ~failed' => Kept(pc', consolidated', log', next', todo', cache', contents', before', atRisk')
      BY <1>1, <1>7, <2>2, <2>3, <3>1 DEF Kept
    <3> QED BY <1>1, <3>1, <3>2, SurvivesNext
  <2>4. CASE todo.bytes # <<>>
    <3>1. todo' = Encoded(todo.at, todo.bytes) /\ UNCHANGED <<pc, before, atRisk>>
      BY <1>1, <1>10, <2>4 DEF MoreToDo, Continued
    <3>2. ~failed' => Kept(pc', consolidated', log', next', todo', cache', contents', before', atRisk')
      BY <1>1, <1>3, <1>7, <2>2, <2>4, <3>1 DEF Kept
    <3> QED BY <1>1, <3>1, <3>2, SurvivesNext
  <2> QED BY <2>3, <2>4
<1> QED BY <1>8, <1>9, <1>10

\* One sector erased: data without their checksum, and an empty log at the last.
LEMMA EraseSurvives ==
  ASSUME LogInLastSector, Survives, EraseSector, UNCHANGED writeSize, RestInv' PROVE Survives'
<1> DEFINE G == Maybe(cache, before, Address)
<1>1. /\ pc = "erase" /\ consolidated' = NoData /\ atRisk = Address /\ wanted' = wanted
      /\ log' = [s \in DOMAIN log |-> IF SectorOf(s) = sector THEN Erased ELSE log[s]]
  BY DEF EraseSector, Survives
<1>2. Typed
  BY RestTyped DEF Survives
<1>3. contents = cache
  BY <1>1 DEF contents, up
<1>4. \A s \in 1 .. Slots : SectorOf(s) = LastSector
  BY <1>2, LogErasedLast DEF Typed
<1>5. sector <= LastSector /\ LastSector \in Nat /\ sector \in Nat
  <2>1. sector \in 0 .. BackingSize \div SectorSize - 1
    BY DEF Survives, RestInv, TypeOK
  <2>2. LastSector = BackingSize \div SectorSize - 1 /\ LastSector \in Nat
    BY SectorsExist DEF LastSector
  <2> QED BY <2>1, <2>2
<1>6. CASE sector < LastSector
  <2>1. UNCHANGED <<cache, pc, before, atRisk, failed>>
    BY <1>6 DEF EraseSector
  <2>2. log' = log
    <3>1. \A s \in 1 .. Slots : SectorOf(s) # sector
      BY <1>4, <1>5, <1>6
    <3> QED BY <1>1, <1>2, <3>1 DEF Typed, Log
  <2>3. contents' = cache
    BY <1>1, <2>1 DEF contents, up
  <2>4. ASSUME ~failed PROVE Recoverable(NoData, log, G)
    <3>1. Recoverable(consolidated, log, G)
      BY <1>1, <1>3, <2>4 DEF Survives, Kept
    <3>2. \A d \in G : \A d2 \in Contents : (\A b \in Address : d2[b] \in {d[b], Blank[b]}) => d2 \in G
      BY MaybeMore
    <3> HIDE DEF G
    <3> QED BY <1>2, <3>1, <3>2, RecoverableBlank DEF Typed
  <2>5. ~failed' => Kept(pc', consolidated', log', next', todo', cache', contents', before', atRisk')
    BY <1>1, <2>1, <2>2, <2>3, <2>4 DEF Kept
  <2> QED BY <1>1, <2>1, <2>5, SurvivesNext
<1>7. CASE ~(sector < LastSector)
  <2>1. \A s \in 1 .. Slots : log'[s] = Erased
    <3>1. \A s \in 1 .. Slots : SectorOf(s) = sector
      BY <1>4, <1>5, <1>7
    <3> QED BY <1>1, <1>2, <3>1 DEF Typed, Log
  <2>2. ~GoesOn(log', 1)
    BY <1>2, <2>1 DEF Typed, GoesOn
  <2>3. Start(NoData) = Blank
    BY DEF Start
  <2>4. Logged(NoData, log', 1, Blank)
    BY <2>3, LoggedFresh
  <2>5. CASE op = "format"
    <3>1. cache' = Blank /\ next' = 1 /\ pc' = "idle" /\ before' = Blank /\ atRisk' = {}
      BY <1>7, <2>5 DEF EraseSector, Idle, Safe
    <3>2. Kept(pc', consolidated', log', next', todo', cache', contents', before', atRisk')
      BY <1>1, <2>4, <3>1 DEF Kept
    <3> QED BY <3>1, <3>2, SurvivesNext
  <2>6. CASE op # "format"
    <3>1. pc' = "consolidate" /\ UNCHANGED <<cache, before, atRisk, failed>>
      BY <1>7, <2>6 DEF EraseSector
    <3>2. contents' = cache
      BY <3>1 DEF contents, up
    <3>3. Recoverable(NoData, log', G)
      <4>1. Blank \in G
        BY MaybeMore
      <4> HIDE DEF G
      <4> QED BY <2>2, <2>4, <4>1, LoggedRecoverable
    <3>4. Kept(pc', consolidated', log', next', todo', cache', contents', before', atRisk')
      BY <1>1, <3>1, <3>2, <3>3 DEF Kept
    <3> QED BY <1>1, <3>1, <3>4, SurvivesNext
  <2> QED BY <2>5, <2>6
<1> QED BY <1>6, <1>7

LEMMA ConsolidateSurvives ==
  ASSUME Survives, Consolidate, UNCHANGED writeSize, RestInv' PROVE Survives'
<1>1. /\ pc' = "idle" /\ consolidated' = cache /\ next' = 1 /\ cache' = cache /\ log' = log
      /\ before' = cache /\ atRisk' = {}
  BY DEF Consolidate, Idle, Safe
<1>2. cache \in Contents /\ NoData \notin Contents
  BY RestTyped, SizesAssumption DEF Survives, Typed
<1>3. Start(cache) = cache
  BY <1>2 DEF Start
<1>4. Logged(cache, log, 1, cache)
  BY <1>2, <1>3, LoggedFresh
<1>5. Kept(pc', consolidated', log', next', todo', cache', contents', before', atRisk')
  BY <1>1, <1>4 DEF Kept
<1> QED BY <1>1, <1>5, SurvivesNext

LEMMA FormatSurvives ==
  ASSUME Survives, Format, UNCHANGED writeSize, RestInv' PROVE Survives'
<1>1. /\ pc = "idle" /\ pc' = "erase" /\ before' = cache /\ atRisk' = Address
      /\ UNCHANGED <<consolidated, log, cache, failed>>
  BY DEF Format, flash
<1>2. Typed
  BY RestTyped DEF Survives
<1>3. contents' = cache
  BY <1>1 DEF contents, up
<1>4. ASSUME ~failed PROVE Recoverable(consolidated, log, Maybe(cache, cache, Address))
  <2>1. Logged(consolidated, log, next, cache)
    BY <1>1, <1>4 DEF Survives, Kept
  <2>2. ~GoesOn(log, next)
    <3>1. next <= Slots /\ RestFrom(log, next)
      BY <1>1, <1>4 DEF Survives, RestInv, LogSound
    <3>2. next \in next .. Slots
      BY <1>2, <3>1 DEF Typed
    <3> QED BY <3>1, <3>2 DEF RestFrom, GoesOn
  <2>3. cache \in Maybe(cache, cache, Address)
    BY <1>2, MaybeMore DEF Typed
  <2> QED BY <1>2, <2>1, <2>2, <2>3, LoggedRecoverable DEF Typed
<1>5. ~failed' => Kept(pc', consolidated', log', next', todo', cache', contents', before', atRisk')
  BY <1>1, <1>3, <1>4 DEF Kept
<1> QED BY <1>1, <1>5, SurvivesNext

\* A power loss: what was under way is lost, at most.
LEMMA LossSurvives ==
  ASSUME AddressesFit, OneWordEntries,
         Survives, PowerLoss, UNCHANGED writeSize, RestInv' PROVE Survives'
<1> DEFINE G == Maybe(contents, before, atRisk)
<1>1. /\ pc # "off" /\ pc' = "off" /\ UNCHANGED <<consolidated, log, before, atRisk, failed>>
  BY DEF PowerLoss, flash
<1>2. Typed
  BY RestTyped DEF Survives
<1>3. contents' = contents
  BY DEF PowerLoss, contents, up
<1>4. ASSUME ~failed PROVE Recoverable(consolidated, log, G)
  <2>0. Kept(pc, consolidated, log, next, todo, cache, contents, before, atRisk)
    BY <1>4 DEF Survives
  <2>1. CASE pc \in {"erase", "consolidate"}
    BY <2>0, <2>1 DEF Kept
  <2>2. CASE pc = "playback"
    <3>1. \E R : Replay(log, R, G) /\ <<1, Start(consolidated)>> \in R
      BY <2>0, <2>2 DEF Kept
    <3> HIDE DEF G
    <3> QED BY <3>1 DEF Recoverable
  <2>3. CASE pc = "idle"
    <3>1. Logged(consolidated, log, next, cache) /\ contents = cache
      BY <2>0, <2>3 DEF Kept, contents, up
    <3>2. next <= Slots /\ RestFrom(log, next)
      BY <1>4, <2>3 DEF Survives, RestInv, LogSound
    <3>3. next \in next .. Slots
      BY <1>2, <3>2 DEF Typed
    <3>4. ~GoesOn(log, next)
      BY <3>2, <3>3 DEF RestFrom, GoesOn
    <3>5. cache \in G
      BY <1>2, <3>1, MaybeMore DEF Typed
    <3> HIDE DEF G
    <3> QED BY <1>2, <3>1, <3>4, <3>5, LoggedRecoverable DEF Typed
  <2>4. CASE pc = "append"
    <3>1. Entering(consolidated, log, next, todo, cache, atRisk, Maybe(cache, before, atRisk)) /\ contents = cache
      BY <2>0, <2>4 DEF Kept, contents, up
    <3>2. next <= Slots /\ RestFrom(log, next)
      BY <1>4, <2>4 DEF Survives, RestInv, LogSound, Appending
    <3>3. next \in 1 .. Slots + 1
      BY <1>2, <3>2 DEF Typed
    <3>4. Recoverable(consolidated, log, Maybe(cache, before, atRisk))
      BY <1>2, <3>1, <3>2, <3>3, Torn DEF Typed
    <3> QED BY <3>1, <3>4
  <2>5. pc \in {"playback", "idle", "append", "erase", "consolidate"}
    BY <1>1 DEF Survives, RestInv, TypeOK
  <2> QED BY <2>1, <2>2, <2>3, <2>4, <2>5
<1>5. ~failed' => Kept(pc', consolidated', log', next', todo', cache', contents', before', atRisk')
  BY <1>1, <1>3, <1>4 DEF Kept
<1> QED BY <1>1, <1>5, SurvivesNext

LEMMA SurvivesStep ==
  ASSUME LogInLastSector, AddressesFit, OneWordEntries, Survives, [Next]_vars
  PROVE  Survives'
<1>0. RestInv' /\ UNCHANGED writeSize
  <2>1. UNCHANGED writeSize
    BY DEF Next, vars, PowerOn, InitFails, Play, Played, PlayedUnusable, ReadFails, Write, AppendRaw,
           AppendFails, Format, EraseSector, EraseFails, Consolidate, ConsolidateFails, PowerLoss
  <2> QED BY <2>1, RestStep DEF Survives
\* An error: nothing is promised.
<1>1. CASE InitFails \/ AppendFails \/ EraseFails \/ ConsolidateFails
  <2>1. pc' = "idle" /\ atRisk' = {} /\ before' = cache' /\ failed' = TRUE
    BY <1>1 DEF InitFails, AppendFails, EraseFails, ConsolidateFails, Idle
  <2> QED BY <1>0, <2>1, SurvivesNext
<1>2. CASE ReadFails
  <2>1. pc' = "erase" /\ atRisk' = Address /\ failed' = TRUE
    BY <1>2 DEF ReadFails
  <2> QED BY <1>0, <2>1, SurvivesNext
<1>3. CASE UNCHANGED vars
  <2>1. UNCHANGED <<consolidated, log, cache, next, pc, todo, wanted, before, atRisk, failed>>
    BY <1>3 DEF vars
  <2>2. contents' = contents
    BY <2>1 DEF contents, up
  <2> QED BY <1>0, <2>1, <2>2, SurvivesNext DEF Survives
<1> QED BY <1>0, <1>1, <1>2, <1>3, PowerOnSurvives, PlaySurvives, PlayedSurvives, WriteSurvives,
           AppendSurvives, FormatSurvives, EraseSurvives, ConsolidateSurvives, LossSurvives DEF Next

-----------------------------------------------------------------------------
(* The refinement *)

LEMMA StoreInit == Init => Store!Init
BY DEF Init, Store!Init, up

\* Each step is one of the persistent store's, or none.
LEMMA StoreStep ==
  ASSUME LogInLastSector, AddressesFit, OneWordEntries, Survives, [Next]_vars
  PROVE  [Store!Next]_(Store!vars)
<1> DEFINE data == IF up THEN cache ELSE wanted
<1>0. /\ failed \in BOOLEAN /\ contents = data /\ (pc = "idle" => atRisk = {} /\ before = cache)
      /\ (pc \in {"erase", "consolidate"} => atRisk = Address)
  BY DEF Survives, RestInv, TypeOK, contents
<1>1. CASE PowerOn \/ Play
  <2>1. ~up /\ ~up' /\ up' = up /\ UNCHANGED <<wanted, before, atRisk, failed>>
    BY <1>1 DEF PowerOn, Play, Playing, up, history
  <2> QED BY <2>1 DEF Store!vars
<1>2. CASE Played \/ PlayedUnusable
  <2>1. ~up /\ up' /\ cache' = cache /\ failed' = failed /\ before' = cache /\ atRisk' \in {{}, Address}
    BY <1>2 DEF Played, PlayedUnusable, Playing, Restored, up
  <2>2. failed \/ \A b \in Address : cache[b] \in (IF b \in atRisk THEN {wanted[b], before[b], Blank[b]} ELSE {wanted[b]})
    <3>1. ~failed => cache \in Maybe(wanted, before, atRisk)
      BY <1>0, <1>2, <2>1, PlayedStops
    <3> QED BY <3>1 DEF Maybe
  <2>3. Store!Restore
    BY <2>1, <2>2 DEF Store!Restore, Store!Possible
  <2> QED BY <2>3 DEF Store!Next
<1>3. CASE InitFails \/ AppendFails \/ EraseFails \/ ConsolidateFails \/ ReadFails
  <2>1. up' /\ failed' = TRUE
    BY <1>3 DEF InitFails, AppendFails, EraseFails, ConsolidateFails, ReadFails, Idle, up
  <2> QED BY <2>1 DEF Store!Next, Store!Fail
<1>4. ASSUME NEW r \in Requests, Write(r) PROVE Store!Next
  <2>1. /\ up /\ up' /\ atRisk = {} /\ before' = cache /\ failed' = failed
        /\ cache' = Patched(r.at, r.bytes) /\ atRisk' = r.at .. r.at + Len(r.bytes) - 1
    BY <1>0, <1>4 DEF Write, up
  <2>2. \A b \in Address \ atRisk' : cache'[b] = cache[b]
    BY <2>1 DEF Patched
  <2> QED BY <2>1, <2>2 DEF Store!Next, Store!Write
<1>5. CASE AppendRaw
  <2>1. up /\ cache' = cache /\ failed' = failed
    BY <1>5 DEF AppendRaw, up
  <2>2. CASE next >= Slots
    <3>1. up' /\ atRisk' = Address /\ before' = before
      BY <1>5, <2>2 DEF AppendRaw, up
    <3> QED BY <2>1, <3>1 DEF Store!Next, Store!Reclaim
  <2>3. CASE ~(next >= Slots) /\ MoreToDo
    <3>1. up' /\ UNCHANGED <<before, atRisk>>
      BY <1>5, <2>1, <2>3 DEF AppendRaw, up
    <3> QED BY <2>1, <3>1 DEF Store!vars
  <2>4. CASE ~(next >= Slots) /\ ~MoreToDo
    <3>1. up' /\ before' = cache /\ atRisk' = {}
      BY <1>5, <2>4 DEF AppendRaw, Idle, up
    <3>2. CASE failed
      BY <2>1, <3>1, <3>2 DEF Store!Next, Store!Fail
    <3>3. CASE ~failed
      BY <1>0, <2>1, <3>1, <3>3 DEF Store!Next, Store!Stored
    <3> QED BY <3>2, <3>3
  <2> QED BY <2>2, <2>3, <2>4
<1>6. CASE Format
  <2>1. up /\ up' /\ atRisk' = Address /\ UNCHANGED <<cache, failed>> /\ before' = before
    BY <1>0, <1>6 DEF Format, up
  <2> QED BY <2>1 DEF Store!Next, Store!Reclaim
<1>7. CASE EraseSector
  <2>1. up /\ atRisk = Address /\ wanted' = wanted
    BY <1>0, <1>7 DEF EraseSector, up
  <2>2. CASE pc' = "erase" \/ pc' = "consolidate"
    <3>1. up' /\ UNCHANGED <<cache, before, atRisk, failed>>
      BY <1>7, <2>2 DEF EraseSector, Idle, up
    <3> QED BY <2>1, <3>1 DEF Store!vars
  <2>3. CASE ~(pc' = "erase" \/ pc' = "consolidate")
    <3>1. pc = "erase" /\ (sector < LastSector => pc' = pc)
      BY <1>7 DEF EraseSector
    <3>2. up' /\ cache' = Blank /\ before' = Blank /\ atRisk' = {} /\ failed' = FALSE
      BY <1>7, <2>3, <3>1 DEF EraseSector, Idle, Safe, up
    <3> QED BY <2>1, <3>2 DEF Store!Next, Store!Erased
  <2> QED BY <2>2, <2>3
<1>8. CASE Consolidate
  <2>1. up /\ up' /\ atRisk = Address /\ cache' = cache /\ before' = cache /\ atRisk' = {} /\ failed' = FALSE
    BY <1>0, <1>8 DEF Consolidate, Idle, Safe, up
  <2> QED BY <2>1 DEF Store!Next, Store!Stored
<1>9. CASE PowerLoss
  <2>1. ~up' /\ wanted' = data /\ UNCHANGED <<before, atRisk, failed>>
    BY <1>9 DEF PowerLoss, up
  <2>2. CASE up
    BY <2>1, <2>2 DEF Store!Next, Store!PowerLoss
  <2>3. CASE ~up
    <3>1. up' = up
      BY <2>1, <2>3 DEF up
    <3> QED BY <2>1, <2>3, <3>1 DEF Store!vars
  <2> QED BY <2>2, <2>3
<1>10. CASE UNCHANGED vars
  BY <1>10 DEF vars, Store!vars, up
<1> QED BY <1>1, <1>2, <1>3, <1>4, <1>5, <1>6, <1>7, <1>8, <1>9, <1>10 DEF Next

\* The emulated EEPROM is a persistent store: every step of wear_leveling.c, and
\* a power loss between any two operations on the flash, is one that
\* PersistentStore allows.  What playback finds is what was written last, but
\* for the bytes of a write cut off or any while the store is rewritten, and
\* these come back as they were, as they should be or erased.  This takes a log
\* erased in one step, entries of one word where words have two bytes, and
\* addresses that fit the 19 bits of an entry.
THEOREM StoreIsPersistent ==
  ASSUME LogInLastSector, OneWordEntries, AddressesFit PROVE Spec => Persistent
<1>1. Init => Survives /\ Store!Init
  BY SurvivesInit, StoreInit
<1>2. Survives /\ [Next]_vars => Survives' /\ [Store!Next]_(Store!vars)
  BY SurvivesStep, StoreStep
<1> QED BY <1>1, <1>2, PTL DEF Spec, Persistent, Store!Spec

\* A restart brings every byte back as it was, except those being written or
\* erased when the power failed: torn entries and the end of an old log, which
\* the runs show, take words of two bytes or a log in several sectors.
THEOREM RestartReadsLatest ==
  ASSUME LogInLastSector, OneWordEntries, AddressesFit PROVE Spec => ReadsLatest
<1>1. Init => Survives
  BY SurvivesInit
<1>2. Survives /\ [Next]_vars => Survives'
  BY SurvivesStep
<1>3. Survives /\ [Next]_vars
        => [pc = "playback" /\ up' /\ ~failed'
              => \A b \in Address \ atRisk : cache'[b] = wanted[b]]_vars
  <2> SUFFICES ASSUME Survives, Next, pc = "playback", up', ~failed'
               PROVE  \A b \in Address \ atRisk : cache'[b] = wanted[b]
    OBVIOUS
  <2>1. Played \/ PlayedUnusable
    BY DEF Next, PowerOn, InitFails, Play, Playing, ReadFails, Write, AppendRaw, AppendFails, Format,
           EraseSector, EraseFails, Consolidate, ConsolidateFails, PowerLoss, up
  <2>2. cache' = cache /\ failed' = failed
    BY <2>1 DEF Played, PlayedUnusable
  <2>3. cache \in Maybe(wanted, before, atRisk)
    <3>1. contents = wanted
      BY DEF contents, up
    <3> QED BY <2>1, <2>2, <3>1, PlayedStops
  <2> QED BY <2>2, <2>3 DEF Maybe
<1> QED BY <1>1, <1>2, <1>3, PTL DEF Spec, ReadsLatest
=============================================================================
