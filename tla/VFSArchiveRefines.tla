------------------------- MODULE VFSArchiveRefines --------------------------
(***************************************************************************)
(* How the extents of an archive change, and what a Load can run into: a   *)
(* file's entry is only ever replaced by its tombstone, and Load loses its *)
(* way only in what a crash or a foreign file left.  Without a crash every *)
(* file that was written is listed and read back as it was written.        *)
(*                                                                         *)
(* The archive implements the abstract store: what can be read back from   *)
(* its disk changes, with every step of every operation and with every     *)
(* crash, only as ArchiveStore allows.  A record that is being written may *)
(* become readable one step early, when its entry is put before an old     *)
(* payload that fits it; so the content that a file is read back as is     *)
(* published at one of two steps.                                          *)
(***************************************************************************)
EXTENDS VFSArchiveProofs, VFSArchiveHistory

-----------------------------------------------------------------------------
(* An entry is buried before it is overwritten *)

LEMMA DeleteBuries ==
  ASSUME TypeOK, IInv, NEW i \in Index, slots' = SlotsAfterDelete(i)
  PROVE  BuriedFirst
<1>1. CASE i \notin DOMAIN files
  BY <1>1 DEF SlotsAfterDelete, BuriedFirst
<1>2. CASE i \in DOMAIN files
  <2>1. files[i] \in Entry /\ slots[files[i].pos].hdr = files[i]
    BY <1>2 DEF TypeOK, IInv, Coherent, FilesOnDisk
  <2>2. Tombstone(files[i]) \in Entry
    BY <2>1, TombstoneTyped
  <2>3. \A q \in DOMAIN slots :
          /\ q # files[i].pos => slots'[q].hdr = slots[q].hdr
          /\ q = files[i].pos => slots'[q].hdr = Tombstone(files[i])
    BY <1>2, <2>2, SetHdrFacts DEF SlotsAfterDelete, TypeOK
  <2> QED
    BY <2>1, <2>3 DEF BuriedFirst
<1> QED
  BY <1>1, <1>2

LEMMA NextBuries == TypeOK /\ IInv /\ [CrashNext]_vars => [BuriedFirst]_vars
<1> SUFFICES ASSUME TypeOK, IInv, CrashNext PROVE BuriedFirst
  BY DEF vars, disk
<1>1. ASSUME UNCHANGED slots PROVE BuriedFirst
  BY <1>1 DEF BuriedFirst
<1>2. ASSUME NEW k \in Key, NEW append \in BOOLEAN, CreateArchive(append, k)
      PROVE  BuriedFirst
  <2>1. DOMAIN slots = {} \/ UNCHANGED slots \/ slots' = NoSlots
    BY <1>2, Zenon DEF CreateArchive, disk
  <2> QED
    BY <2>1, EmptyTables DEF BuriedFirst
<1>3. ASSUME \/ \E i \in Index, c \in Content, fl \in FlagSets : Write(i, c, fl)
             \/ \E r \in Raw : WriteRawData(r)
      PROVE  BuriedFirst
  <2>1. Begins
    BY <1>3, WriteBegins, RawBegins
  <2> QED
    BY <2>1, DeleteBuries DEF Begins, BeginWrite
<1>4. ASSUME NEW i \in Index, Delete(i) PROVE BuriedFirst
  BY <1>4, DeleteBuries DEF Delete
<1>5. CASE Format
  BY <1>5 DEF Format, IInv, Formatting, BuriedFirst
<1>6. CASE Extend
  <2>1. pend.entry.pos = fileSize /\ \A q \in DOMAIN slots : q # fileSize
    BY <1>6 DEF Extend, IInv, InFlight, Layout, TypeOK, Slot
  <2> QED
    BY <1>6, <2>1 DEF Extend, PutSlot, BuriedFirst
<1>7. CASE PutHeader
  <2>1. ~Live(pend.entry.pos)
    BY <1>7 DEF PutHeader, IInv, InFlight
  <2> QED
    BY <1>7, <2>1 DEF PutHeader, SetHdr, BuriedFirst
<1>8. CASE PutPayload
  BY <1>8 DEF PutPayload, BlobPut, BuriedFirst, TypeOK, Slot
<1> QED
  BY <1>1, <1>2, <1>3, <1>4, <1>5, <1>6, <1>7, <1>8
  DEF CrashNext, Next, Calls, Steps, OpenArchive, LoadHeader, LoadFails, Pad,
      ScanEntry, ScanDone, ScanJunk, Unload, Crash, disk

\* No record of a file is ever overwritten by another record: Write and
\* WriteRawData put theirs only where nothing lives, Delete only a tombstone.
THEOREM RecordsAreBuried == CrashSpec => LiveOnlyBuried
BY SafeAlways, NextBuries, PTL DEF CrashSpec, LiveOnlyBuried

-----------------------------------------------------------------------------
(* Load loses its way only in torn archives *)

\* The extents follow one another from the first block on, or from below it.
Reach ==
  /\ Tiled
  /\ formatted /\ DOMAIN slots = {} => fileSize <= FirstEntry
  /\ DOMAIN slots # {} /\ (\A p \in DOMAIN slots : FirstEntry <= p) =>
       FirstEntry \in DOMAIN slots
  /\ pc = "scan" => /\ formatted
                    /\ scanPos \in DOMAIN slots \cup {FirstEntry, fileSize}
  /\ WildOnlyWhenTorn

LEMMA ReachKept ==
  ASSUME Reach, DOMAIN slots' = DOMAIN slots, UNCHANGED <<fileSize, formatted>>,
         \A p \in DOMAIN slots : slots'[p].len = slots[p].len,
         pc' \notin {"scan", "wild"}
  PROVE  Reach'
BY DEF Reach, Tiled, WildOnlyWhenTorn

LEMMA ReachExtend ==
  ASSUME TypeOK, IInv, Reach, Extend
  PROVE  Reach'
<1> DEFINE n == Extent(pend.entry)
<1>1. /\ pend.entry.pos = fileSize /\ pc' = "header" /\ HeaderSize <= fileSize
      /\ formatted
  BY DEF Extend, IInv, InFlight, Formatting, Writing
<1>2. /\ DOMAIN slots' = DOMAIN slots \cup {fileSize}
      /\ slots'[fileSize].len = n
      /\ \A q \in DOMAIN slots : q # fileSize => slots'[q] = slots[q]
      /\ fileSize' = fileSize + n
  BY <1>1 DEF Extend, PutSlot
<1>3. \A q \in DOMAIN slots : q # fileSize
  BY DEF IInv, Layout, TypeOK, Slot
<1> HIDE DEF n
<1>4. Tiled'
  BY <1>2, <1>3 DEF Reach, Tiled
<1>5. DOMAIN slots' # {} /\ (\A p \in DOMAIN slots' : FirstEntry <= p) =>
        FirstEntry \in DOMAIN slots'
  <2>1. CASE DOMAIN slots = {}
    <3>1. fileSize <= FirstEntry
      BY <1>1, <2>1 DEF Reach
    <3> QED
      BY <1>2, <2>1, <3>1, FirstEntryIsOneBlock DEF TypeOK
  <2>2. CASE DOMAIN slots # {}
    BY <1>2, <2>2 DEF Reach
  <2> QED
    BY <2>1, <2>2
<1> QED
  BY <1>1, <1>2, <1>4, <1>5 DEF Reach, WildOnlyWhenTorn

LEMMA ReachFormat ==
  ASSUME TypeOK, IInv, Reach, Format \/ Pad
  PROVE  Reach'
<1>1. fileSize \in Nat /\ FirstEntry \in Nat /\ HeaderSize < FirstEntry
  BY FirstEntryIsOneBlock, SizesAreNat DEF TypeOK
<1>2. CASE Format
  <2>1. /\ DOMAIN slots = {} /\ pc' = "pad" /\ fileSize' = AtLeast(fileSize, HeaderSize)
    BY <1>2 DEF Format, IInv, Formatting
  <2>2. CASE fileSize > FirstEntry
    <3>1. /\ DOMAIN slots' = {FirstEntry}
          /\ slots'[FirstEntry].len = fileSize - FirstEntry
      BY <1>2, <2>1, <2>2 DEF Format, PutSlot
    <3>2. fileSize' = fileSize
      BY <1>1, <2>1, <2>2, SizesAreNat DEF AtLeast
    <3> QED
      BY <1>1, <2>1, <3>1, <3>2 DEF Reach, Tiled, WildOnlyWhenTorn
  <2>3. CASE ~(fileSize > FirstEntry)
    <3>1. DOMAIN slots' = {}
      BY <1>2, <2>1, <2>3 DEF Format
    <3>2. fileSize' <= FirstEntry
      BY <1>1, <2>1, <2>3, SizesAreNat DEF AtLeast
    <3> QED
      BY <2>1, <3>1, <3>2 DEF Reach, Tiled, WildOnlyWhenTorn
  <2> QED
    BY <2>2, <2>3
<1>3. CASE Pad
  <2>1. /\ pc' = "idle" /\ UNCHANGED <<formatted, slots>>
        /\ fileSize' = AtLeast(fileSize, FirstEntry)
    BY <1>3 DEF Pad, Idle
  <2>2. CASE DOMAIN slots = {}
    <3>1. formatted => fileSize' <= FirstEntry
      BY <1>1, <2>1, <2>2 DEF Reach, AtLeast
    <3> QED
      BY <2>1, <2>2, <3>1 DEF Reach, Tiled, WildOnlyWhenTorn
  <2>3. CASE DOMAIN slots # {}
    <3>1. PICK p \in DOMAIN slots : TRUE
      BY <2>3
    <3>2. p \in Nat /\ slots[p].len \in Nat
      BY <3>1 DEF TypeOK, Slot
    <3>3. FirstEntry < p + slots[p].len /\ p + slots[p].len <= fileSize
      BY <1>1, <3>1, <3>2 DEF IInv, Layout, LowSlots
    <3>4. fileSize' = fileSize
      BY <1>1, <2>1, <3>2, <3>3 DEF AtLeast
    <3> QED
      BY <2>1, <3>4, ReachKept
  <2> QED
    BY <2>2, <2>3
<1> QED
  BY <1>2, <1>3

LEMMA ReachScan ==
  ASSUME TypeOK, IInv, Reach, ScanEntry \/ ScanJunk \/ ScanDone
  PROVE  Reach'
<1>1. pc = "scan" /\ UNCHANGED disk
  BY DEF ScanEntry, ScanJunk, ScanDone
<1>2. UNCHANGED <<formatted, fileSize, slots>>
  BY <1>1 DEF disk
<1>3. CASE ScanDone
  BY <1>2, <1>3, ReachKept DEF ScanDone, Idle
<1>4. CASE ScanEntry
  <2>1. /\ scanPos \in DOMAIN slots /\ pc' = "scan"
        /\ scanPos' = scanPos + slots[scanPos].len
    BY <1>1, <1>4 DEF ScanEntry, IInv, Layout
  <2>2. scanPos' \in DOMAIN slots \cup {fileSize}
    BY <2>1 DEF Reach, Tiled
  <2> QED
    BY <1>1, <1>2, <2>1, <2>2 DEF Reach, Tiled, WildOnlyWhenTorn
<1>5. CASE ScanJunk
  <2>1. scanPos < fileSize /\ (scanPos \in DOMAIN slots => slots[scanPos].hdr = Junk)
        /\ pc' = "wild"
    BY <1>5 DEF ScanJunk
  <2>2. Torn
    <3>1. CASE scanPos \in DOMAIN slots
      BY <2>1, <3>1 DEF Torn
    <3>2. CASE scanPos \notin DOMAIN slots
      <4>1. scanPos = FirstEntry /\ DOMAIN slots # {}
        <5>1. formatted /\ scanPos \in {FirstEntry, fileSize}
          BY <1>1, <3>2 DEF Reach
        <5>2. fileSize \in Nat /\ FirstEntry \in Nat
          BY FirstEntryIsOneBlock DEF TypeOK
        <5>3. scanPos = FirstEntry
          BY <2>1, <5>1, <5>2
        <5>4. DOMAIN slots = {} => fileSize <= FirstEntry
          BY <5>1 DEF Reach
        <5>5. ~(fileSize <= FirstEntry)
          BY <2>1, <5>2, <5>3
        <5> QED
          BY <5>3, <5>4, <5>5, Zenon
      <4>2. \E p \in DOMAIN slots : ~(FirstEntry <= p)
        BY <3>2, <4>1 DEF Reach
      <4> QED
        BY <4>2, FirstEntryIsOneBlock DEF Torn, TypeOK
    <3> QED
      BY <3>1, <3>2
  <2> QED
    BY <1>2, <2>1, <2>2 DEF Reach, Tiled, WildOnlyWhenTorn, Torn
<1> QED
  BY <1>3, <1>4, <1>5

LEMMA NextReaches == TypeOK /\ IInv /\ Reach /\ [CrashNext]_vars => Reach'
<1> SUFFICES ASSUME TypeOK, IInv, Reach, [CrashNext]_vars PROVE Reach'
  OBVIOUS
<1>1. ASSUME NEW k \in Key, NEW append \in BOOLEAN, CreateArchive(append, k)
      PROVE  Reach'
  <2>1. pc' = "load"
    BY <1>1 DEF CreateArchive
  <2>2. CASE append
    <3>1. UNCHANGED disk
      BY <1>1, <2>2, Zenon DEF CreateArchive
    <3> QED
      BY <2>1, <3>1, ReachKept DEF disk
  <2>3. CASE ~append
    <3>1. formatted' = FALSE /\ slots' = NoSlots
      BY <1>1, <2>3, Zenon DEF CreateArchive
    <3> QED
      BY <2>1, <3>1, EmptyTables DEF Reach, Tiled, WildOnlyWhenTorn
  <2> QED
    BY <2>2, <2>3
<1>2. ASSUME \/ \E i \in Index, c \in Content, fl \in FlagSets : Write(i, c, fl)
             \/ \E r \in Raw : WriteRawData(r)
      PROVE  Reach'
  <2>1. PICK i \in Index, h \in Nat, f \in SUBSET Flag, n \in Nat, b \in Payload :
          BeginWrite(i, h, f, n, b)
    BY <1>2, WriteBegins, RawBegins DEF Begins
  <2>2. SlotsAfterDelete(i) = slots' /\ UNCHANGED <<fileSize, formatted>>
        /\ pc' \in {"header", "extend"}
    BY <2>1 DEF BeginWrite
  <2>3. DOMAIN slots' = DOMAIN slots /\ \A p \in DOMAIN slots : slots'[p].len = slots[p].len
    BY <2>2 DEF SlotsAfterDelete, SetHdr, TypeOK, Slot
  <2> QED
    BY <2>2, <2>3, ReachKept
<1>3. ASSUME NEW i \in Index, Delete(i) PROVE Reach'
  <2>1. SlotsAfterDelete(i) = slots' /\ UNCHANGED <<fileSize, formatted>> /\ pc' = "idle"
    BY <1>3 DEF Delete, Writable, control
  <2>2. DOMAIN slots' = DOMAIN slots /\ \A p \in DOMAIN slots : slots'[p].len = slots[p].len
    BY <2>1 DEF SlotsAfterDelete, SetHdr, TypeOK, Slot
  <2> QED
    BY <2>1, <2>2, ReachKept
<1>4. CASE LoadHeader
  BY <1>4 DEF LoadHeader, Reach, Tiled, WildOnlyWhenTorn, disk
<1>5. CASE Format \/ Pad
  BY <1>5, ReachFormat
<1>6. CASE ScanEntry \/ ScanJunk \/ ScanDone
  BY <1>6, ReachScan
<1>7. CASE Extend
  BY <1>7, ReachExtend
<1>8. CASE PutHeader \/ PutPayload
  <2>1. /\ DOMAIN slots' = DOMAIN slots /\ UNCHANGED <<fileSize, formatted>>
        /\ pc' \in {"idle", "payload"}
    BY <1>8 DEF PutHeader, PutPayload, BlobPut, SetHdr, Idle
  <2>2. \A p \in DOMAIN slots : slots'[p].len = slots[p].len
    BY <1>8 DEF PutHeader, PutPayload, BlobPut, SetHdr, TypeOK, Slot
  <2> QED
    BY <2>1, <2>2, ReachKept
<1>9. ASSUME UNCHANGED disk, pc' \notin {"scan", "wild"} PROVE Reach'
  BY <1>9, ReachKept DEF disk
<1>10. CASE UNCHANGED vars
  BY <1>10 DEF vars, disk, control, Reach, Tiled, WildOnlyWhenTorn, Torn
<1>11. CASE Unload
  BY <1>9, <1>11 DEF Unload, control
<1>12. CASE Crash \/ LoadFails \/ \E k \in Key : OpenArchive(k)
  BY <1>9, <1>12 DEF Crash, LoadFails, OpenArchive, Idle
<1> QED
  BY <1>1, <1>2, <1>3, <1>4, <1>5, <1>6, <1>7, <1>8, <1>10, <1>11, <1>12
  DEF CrashNext, Next, Calls, Steps

\* Load runs into bytes that are no entry only where a crash between an append
\* and its entry, a crash during Create or a foreign file left some.
THEOREM WildNeedsTear == CrashSpec => []WildOnlyWhenTorn
<1>1. Init => Reach
  BY EmptyTables DEF Init, Reach, Tiled, WildOnlyWhenTorn
<1>2. Reach => WildOnlyWhenTorn
  BY DEF Reach
<1> QED
  BY <1>1, <1>2, SafeAlways, NextReaches, PTL DEF CrashSpec
-----------------------------------------------------------------------------
(* Payloads *)

\* A decoded payload has the hash of its entry.
LEMMA ReadingHashes ==
  ASSUME NEW e, NEW b \in Payload, NEW k, Decode(e, b, k) # None
  PROVE  Decode(e, b, k) \in Content /\ HashOf[Decode(e, b, k)] = e.hash
BY DEF Decode, Payload, Blob

-----------------------------------------------------------------------------
(* Without a crash *)

\* What the theorems of this section assume of the constants: a file that is
\* no archive does not reach beyond the block the header takes, every session
\* uses the same key, and the hash tells the contents apart.
ShortForeign == \A n \in ForeignSizes : n <= FirstEntry
OneKey == \A k, l \in Key : k = l
NoCollision == \A c, d \in Content : HashOf[c] = HashOf[d] => c = d

\* No extent but the one that is being appended lacks an entry, and all lie
\* behind the first block, which is complete but while it is being made.
Clean ==
  /\ \A p \in DOMAIN slots : FirstEntry <= p
  /\ formatted /\ pc # "pad" => FirstEntry <= fileSize
  /\ ~formatted => fileSize <= FirstEntry
  /\ pc = "pad" => formatted /\ DOMAIN slots = {}
  /\ \A p \in DOMAIN slots :
       slots[p].hdr = Junk => pc = "header" /\ p = pend.entry.pos

LEMMA DeleteDisk ==
  ASSUME TypeOK, NEW i \in Index, slots' = SlotsAfterDelete(i)
  PROVE  /\ DOMAIN slots' = DOMAIN slots
         /\ \A p \in DOMAIN slots :
              /\ slots'[p].blob = slots[p].blob
              /\ slots'[p].hdr # slots[p].hdr => slots'[p].hdr # Junk /\ ~Live(p)'
<1>1. CASE i \notin DOMAIN files
  BY <1>1 DEF SlotsAfterDelete
<1>2. CASE i \in DOMAIN files
  <2>1. Tombstone(files[i]) \in Entry /\ Tombstone(files[i]).index = 0
    BY <1>2, TombstoneTyped DEF TypeOK
  <2>2. slots' = SetHdr(slots, files[i].pos, Tombstone(files[i]))
    BY <1>2 DEF SlotsAfterDelete
  <2> QED
    BY <2>1, <2>2, SetHdrFacts, SentinelsAssumption DEF TypeOK, Live
<1> QED
  BY <1>1, <1>2

LEMMA NextClean ==
  ASSUME ShortForeign
  PROVE  TypeOK /\ IInv /\ Clean /\ [Next]_vars => Clean'
<1> SUFFICES ASSUME TypeOK, IInv, Clean, [Next]_vars PROVE Clean'
  OBVIOUS
<1> USE FirstEntryIsOneBlock
<1>1. ASSUME NEW k \in Key, NEW append \in BOOLEAN, CreateArchive(append, k)
      PROVE  Clean'
  <2>1. pc = "idle" /\ pc' = "load"
    BY <1>1 DEF CreateArchive
  <2>2. CASE append
    <3>1. UNCHANGED disk
      BY <1>1, <2>2, Zenon DEF CreateArchive
    <3> QED
      BY <2>1, <3>1 DEF disk, Clean
  <2>3. CASE ~append
    <3>1. formatted' = FALSE /\ slots' = NoSlots /\ fileSize' = 0
      BY <1>1, <2>3, Zenon DEF CreateArchive
    <3> QED
      BY <2>1, <3>1, EmptyTables DEF Clean
  <2> QED
    BY <2>2, <2>3
<1>2. ASSUME NEW i \in Index, slots' = SlotsAfterDelete(i), pc = "idle", pc' # "pad",
             UNCHANGED <<fileSize, formatted>>
      PROVE  Clean'
  <2>1. /\ DOMAIN slots' = DOMAIN slots
        /\ \A p \in DOMAIN slots : slots'[p].hdr # Junk
    BY <1>2, DeleteDisk DEF Clean
  <2> QED
    BY <1>2, <2>1 DEF Clean
<1>3. ASSUME \/ \E i \in Index, c \in Content, fl \in FlagSets : Write(i, c, fl)
             \/ \E r \in Raw : WriteRawData(r)
      PROVE  Clean'
  <2>1. Writable /\ Begins
    BY <1>3, WriteBegins, RawBegins
  <2> QED
    BY <1>2, <2>1 DEF Begins, BeginWrite, Writable
<1>4. ASSUME NEW i \in Index, Delete(i) PROVE Clean'
  BY <1>2, <1>4 DEF Delete, Writable, control
<1>5. CASE Format
  <2>1. DOMAIN slots = {} /\ fileSize <= FirstEntry
    BY <1>5 DEF Format, IInv, Formatting, Clean
  <2>2. slots' = slots /\ formatted' = TRUE /\ pc' = "pad"
    BY <1>5, <2>1 DEF Format, TypeOK
  <2> QED
    BY <2>1, <2>2 DEF Clean
<1>6. CASE Pad
  <2>1. fileSize' \in Nat /\ FirstEntry <= fileSize' /\ slots' = slots /\ formatted' = formatted
    BY <1>6 DEF Pad, AtLeast, TypeOK
  <2>2. DOMAIN slots = {} /\ pc' = "idle"
    BY <1>6 DEF Pad, Idle, Clean
  <2>3. formatted
    BY <1>6 DEF Pad, Clean
  <2> QED
    BY <2>1, <2>2, <2>3 DEF Clean
<1>7. CASE Extend
  <2>1. /\ pend.entry.pos = fileSize /\ formatted /\ FirstEntry <= fileSize
        /\ Extent(pend.entry) \in Nat
    BY <1>7, ExtentNat DEF Extend, IInv, InFlight, Formatting, Writing, Clean, TypeOK
  <2>2. /\ pc = "extend" /\ pc' = "header" /\ pend' = pend /\ formatted' = formatted
        /\ DOMAIN slots' = DOMAIN slots \cup {fileSize}
        /\ \A q \in DOMAIN slots : q # fileSize => slots'[q] = slots[q]
        /\ fileSize' = fileSize + Extent(pend.entry)
    BY <1>7, <2>1 DEF Extend, PutSlot
  <2> QED
    BY <2>1, <2>2 DEF Clean, TypeOK
<1>8. CASE PutHeader
  <2>1. pend.entry \in Entry /\ pend.entry # Junk
    BY <1>8, SentinelsAssumption DEF PutHeader, TypeOK, Writing
  <2>2. /\ DOMAIN slots' = DOMAIN slots
        /\ \A p \in DOMAIN slots : slots'[p].hdr # Junk
    BY <1>8, <2>1, SetHdrFacts DEF PutHeader, Clean, TypeOK
  <2> QED
    BY <1>8, <2>2 DEF PutHeader, Clean
<1>9. CASE PutPayload
  <2>1. /\ DOMAIN slots' = DOMAIN slots
        /\ \A p \in DOMAIN slots : slots'[p].hdr # Junk
    BY <1>9 DEF PutPayload, BlobPut, Clean, TypeOK, Slot
  <2> QED
    BY <1>9, <2>1 DEF PutPayload, Idle, Clean
<1>10. ASSUME UNCHANGED disk, pc \notin {"pad", "header"}, pc' # "pad" PROVE Clean'
  BY <1>10 DEF disk, Clean
<1>11. CASE UNCHANGED vars
  BY <1>11 DEF vars, disk, control, Clean
<1>12. CASE LoadHeader \/ LoadFails \/ ScanEntry \/ ScanDone \/ ScanJunk \/ Unload
            \/ \E k \in Key : OpenArchive(k)
  BY <1>10, <1>12 DEF LoadHeader, LoadFails, ScanEntry, ScanDone, ScanJunk, Unload,
                      OpenArchive, Idle, control
<1> QED
  BY <1>1, <1>3, <1>4, <1>5, <1>6, <1>7, <1>8, <1>9, <1>11, <1>12
  DEF Next, Calls, Steps

LEMMA CleanAlways ==
  ASSUME ShortForeign
  PROVE  Spec => [](TypeOK /\ IInv /\ Reach /\ Clean)
<1>1. Init => Reach /\ Clean
  <2>1. ASSUME Init PROVE Reach
    BY <2>1, EmptyTables DEF Init, Reach, Tiled, WildOnlyWhenTorn
  <2>2. ASSUME Init PROVE Clean
    BY <2>2, EmptyTables DEF Init, Clean, ShortForeign
  <2> QED
    BY <2>1, <2>2
<1>2. [Next]_vars => [CrashNext]_vars
  BY DEF CrashNext
<1>3. Spec => [](TypeOK /\ IInv)
  BY <1>2, InitTyped, NextTyped, InitSafe, NextSafe, PTL DEF Spec
<1> QED
  BY <1>1, <1>2, <1>3, NextReaches, NextClean, PTL DEF Spec

\* Without a crash a Load always finds its way through the extents that
\* Create, Write, WriteRawData and Delete have left.
THEOREM LoadNeverLost ==
  ASSUME ShortForeign
  PROVE  Spec => []NeverWild
<1>1. TypeOK /\ Reach /\ Clean => NeverWild
  BY FirstEntryIsOneBlock DEF TypeOK, Reach, WildOnlyWhenTorn, Torn, Clean, NeverWild
<1> QED
  BY <1>1, CleanAlways, PTL

\* Every byte behind the first block stays in an extent that a Load reaches,
\* after a crash, too.
THEOREM NoSpaceLost == CrashSpec => []Tiled
<1>1. Init => Reach
  BY EmptyTables DEF Init, Reach, Tiled, WildOnlyWhenTorn
<1>2. Reach => Tiled
  BY DEF Reach
<1> QED
  BY <1>1, <1>2, SafeAlways, NextReaches, PTL DEF CrashSpec

-----------------------------------------------------------------------------
(* What clients were told *)

\* Entry e and payload b are what a client expects who was told v.
Goes(v, e, b) ==
  /\ v # None
  /\ v # Junk =>
       /\ b \in Blob /\ b.content = v
       /\ b.flags = e.flags /\ Stored(b.content, b.flags) = e.size
       /\ HashOf[b.content] = e.hash
       /\ "AES256" \in b.flags => b.key \in Key

\* Every listed file, and every one a Load will list, is what was asked for.
Told ==
  /\ asked \in [Index \cup {0} -> Content \cup {None, Junk}]
  /\ \A p \in DOMAIN slots :
       Live(p) => \/ pc = "payload" /\ p = pend.entry.pos
                  \/ Goes(asked[slots[p].hdr.index], slots[p].hdr, slots[p].blob)
  /\ \A i \in DOMAIN files : Goes(asked[i], files[i], slots[files[i].pos].blob)
  /\ Writing => Goes(asked[pend.entry.index], pend.entry, pend.blob)

\* Every file that was asked for is on the disk, or on its way there.
Kept ==
  \A i \in Index \ {0} :
    asked[i] # None => \/ Writing /\ pend.entry.index = i
                       \/ \E p \in DOMAIN slots : Live(p) /\ slots[p].hdr.index = i

\* An object that believes something has a key.
HasKey ==
  key = None => DOMAIN files = {} /\ mode # "OUTPUT" /\ pc \notin {"load", "scan"}

LEMMA HistSteps == [HistNext]_hvars => [Next]_vars
BY DEF HistNext, hvars, Next, Calls, SkippedWrite

\* A step that changes no extent, is no part of a write and lists nothing new.
LEMMA QuietTold ==
  ASSUME Told, Kept, UNCHANGED <<asked, slots>>, ~Writing, ~Writing',
         DOMAIN files' = {} \/ UNCHANGED files
  PROVE  Told' /\ Kept'
<1>1. pc # "payload" /\ pc' # "payload"
  BY DEF Writing
<1>2. Told'
  BY <1>1 DEF Told, Live
<1> QED
  BY <1>2 DEF Kept, Live

\* The slots that hold a file when file i has been deleted.
LEMMA DeletedFile ==
  ASSUME TypeOK, IInv, Writable, NEW i \in Index, slots' = SlotsAfterDelete(i)
  PROVE  /\ DOMAIN slots' = DOMAIN slots
         /\ \A p \in DOMAIN slots :
              /\ Live(p)' <=> Live(p) /\ slots[p].hdr.index # i
              /\ Live(p)' => slots'[p].hdr = slots[p].hdr
              /\ slots'[p].blob = slots[p].blob
<1>1. /\ DOMAIN slots' = DOMAIN slots
      /\ \A p \in DOMAIN slots :
           /\ slots'[p].blob = slots[p].blob
           /\ slots'[p].hdr # slots[p].hdr => slots'[p].hdr # Junk /\ ~Live(p)'
  BY DeleteDisk
<1>2. Loaded /\ ~Writing
  BY DEF Writable, Loaded, Writing
<1>3. ASSUME NEW p \in DOMAIN slots, Live(p), slots[p].hdr.index = i
      PROVE  ~Live(p)'
  <2>1. i \in DOMAIN files /\ files[i] = slots[p].hdr
    BY <1>2, <1>3 DEF IInv, Coherent, NothingMissed, Faithful, Live
  <2>2. files[i].pos = p
    BY <1>3, <2>1 DEF IInv, Layout, Live
  <2>3. Tombstone(files[i]) \in Entry /\ Tombstone(files[i]).index = 0
    BY <2>1, TombstoneTyped DEF TypeOK
  <2>4. slots' = SetHdr(slots, p, Tombstone(files[i]))
    BY <2>1, <2>2 DEF SlotsAfterDelete
  <2>5. slots'[p].hdr = Tombstone(files[i])
    BY <2>3, <2>4, SetHdrFacts DEF TypeOK
  <2> QED
    BY <2>3, <2>5 DEF Live
<1>4. ASSUME NEW p \in DOMAIN slots, Live(p), slots[p].hdr.index # i
      PROVE  slots'[p].hdr = slots[p].hdr
  <2>1. CASE i \notin DOMAIN files
    BY <2>1 DEF SlotsAfterDelete
  <2>2. CASE i \in DOMAIN files
    <3>1. slots[files[i].pos].hdr = files[i] /\ files[i].index = i
      BY <2>2 DEF IInv, Coherent, FilesOnDisk
    <3>2. p # files[i].pos
      BY <1>4, <3>1
    <3> QED
      BY <2>2, <3>2 DEF SlotsAfterDelete, SetHdr
  <2> QED
    BY <2>1, <2>2
<1>5. ASSUME NEW p \in DOMAIN slots, Live(p)'
      PROVE  slots'[p].hdr = slots[p].hdr /\ Live(p) /\ slots[p].hdr.index # i
  <2>1. slots'[p].hdr = slots[p].hdr
    BY <1>1, <1>5
  <2>2. Live(p)
    BY <1>5, <2>1 DEF Live
  <2> QED
    BY <1>3, <1>5, <2>1, <2>2
<1>6. ASSUME NEW p \in DOMAIN slots, Live(p), slots[p].hdr.index # i PROVE Live(p)'
  BY <1>4, <1>6 DEF Live
<1> QED
  BY <1>1, <1>5, <1>6

\* File i goes, and at most a write of it starts.
LEMMA DeletedTold ==
  ASSUME TypeOK, IInv, Told, Kept, Writable, NEW i \in Index,
         slots' = SlotsAfterDelete(i), files' = Without(files, i),
         NEW v \in Content \cup {None, Junk}, Asking(i, v), pc' # "payload",
         IF v = None THEN ~Writing'
         ELSE Writing' /\ pend'.entry.index = i /\ Goes(v, pend'.entry, pend'.blob)
  PROVE  Told' /\ Kept'
<1>1. /\ asked' \in [Index \cup {0} -> Content \cup {None, Junk}] /\ asked'[i] = v
      /\ \A j \in Index \cup {0} : j # i => asked'[j] = asked[j]
  BY DEF Told, Asking
<1>2. pc = "idle" /\ ~Writing
  BY DEF Writable, Writing
<1>3. /\ DOMAIN slots' = DOMAIN slots
      /\ \A p \in DOMAIN slots :
           /\ Live(p)' <=> Live(p) /\ slots[p].hdr.index # i
           /\ Live(p)' => slots'[p].hdr = slots[p].hdr
           /\ slots'[p].blob = slots[p].blob
  BY DeletedFile
<1>4. \A p \in DOMAIN slots : Live(p) => slots[p].hdr.index \in Index \cup {0}
  BY DEF TypeOK, Slot, Entry, Live
<1>5. \A p \in DOMAIN slots' :
        Live(p)' => Goes(asked'[slots'[p].hdr.index], slots'[p].hdr, slots'[p].blob)
  <2> SUFFICES ASSUME NEW p \in DOMAIN slots, Live(p)'
               PROVE  Goes(asked'[slots'[p].hdr.index], slots'[p].hdr, slots'[p].blob)
    BY <1>3
  <2>1. Live(p) /\ slots[p].hdr.index # i /\ slots[p].hdr.index \in Index \cup {0}
    BY <1>3, <1>4
  <2>2. Goes(asked[slots[p].hdr.index], slots[p].hdr, slots[p].blob)
    BY <1>2, <2>1 DEF Told
  <2> QED
    BY <1>1, <1>3, <2>1, <2>2
<1>6. \A j \in DOMAIN files' : Goes(asked'[j], files'[j], slots'[files'[j].pos].blob)
  <2> SUFFICES ASSUME NEW j \in DOMAIN files, j # i
               PROVE  Goes(asked'[j], files[j], slots'[files[j].pos].blob)
    BY DEF Without
  <2>1. j \in Index \cup {0} /\ files[j].pos \in DOMAIN slots
    BY DEF TypeOK, IInv, Coherent, FilesOnDisk
  <2> QED
    BY <1>1, <1>3, <2>1 DEF Told
<1>7. Writing' => Goes(asked'[pend'.entry.index], pend'.entry, pend'.blob)
  BY <1>1
<1>8. Kept'
  <2> SUFFICES ASSUME NEW j \in Index \ {0}, asked'[j] # None, j # i
               PROVE  \E p \in DOMAIN slots' : Live(p)' /\ slots'[p].hdr.index = j
    BY <1>1 DEF Kept
  <2>1. PICK p \in DOMAIN slots : Live(p) /\ slots[p].hdr.index = j
    BY <1>1, <1>2 DEF Kept
  <2> QED
    BY <1>3, <2>1
<1> QED
  BY <1>1, <1>5, <1>6, <1>7, <1>8 DEF Told

\* The records that Write puts together are what it was asked for.
LEMMA WriteTold ==
  ASSUME TypeOK, IInv, HasKey, Told, Kept, NEW i \in Index, NEW c \in Content,
         NEW flags \in FlagSets, Write(i, c, flags), Asking(i, c)
  PROVE  Told' /\ Kept'
<1>1. PICK fl \in SUBSET Flag :
        BeginWrite(i, HashOf[c], fl, Stored(c, fl), Encode(c, fl, key))
  BY NamesAssumption DEF Write, Effective
<1>2. Writable /\ key \in Key
  BY DEF Write, Writable, HasKey, TypeOK
<1> DEFINE n == Stored(c, fl)
           b == Encode(c, fl, key)
<1>3. /\ b \in Blob /\ b.content = c /\ b.flags = fl
      /\ "AES256" \in fl => b.key = key
  BY <1>2, RecordsTyped DEF Encode
<1> HIDE DEF n, b
<1>4. \A s : LET e == Place(s, i, HashOf[c], fl, n) IN
               e.hash = HashOf[c] /\ e.flags = fl /\ e.size = n /\ e.index = i
  BY DEF Place
<1>5. \E s : pend' = [entry |-> Place(s, i, HashOf[c], fl, n), blob |-> b]
  BY <1>1 DEF BeginWrite, n, b
<1>6. /\ pend'.entry.index = i /\ pend'.entry.hash = HashOf[c]
      /\ pend'.entry.flags = fl /\ pend'.entry.size = n /\ pend'.blob = b
  BY <1>4, <1>5
<1>7. c # None
  BY SentinelsAssumption
<1>8. Goes(c, pend'.entry, pend'.blob)
  BY <1>2, <1>3, <1>6, <1>7 DEF Goes, n
<1>9. /\ slots' = SlotsAfterDelete(i) /\ files' = Without(files, i)
      /\ pc' \in {"header", "extend"}
  BY <1>1 DEF BeginWrite
<1> QED
  BY <1>2, <1>6, <1>7, <1>8, <1>9, DeletedTold DEF Writing

LEMMA RawTold ==
  ASSUME TypeOK, IInv, Told, Kept, NEW r \in Raw, WriteRawData(r),
         Asking(r.index, Junk)
  PROVE  Told' /\ Kept'
<1>1. /\ Writable /\ r.index \in Index
      /\ BeginWrite(r.index, r.hash, r.flags, r.size, r.blob)
  BY RawAssumption DEF WriteRawData, RawRecord
<1>2. pend'.entry.index = r.index
  BY <1>1 DEF BeginWrite, Place
<1>3. Goes(Junk, pend'.entry, pend'.blob)
  BY SentinelsAssumption DEF Goes
<1>4. /\ slots' = SlotsAfterDelete(r.index) /\ files' = Without(files, r.index)
      /\ pc' \in {"header", "extend"}
  BY <1>1 DEF BeginWrite
<1> QED
  BY <1>1, <1>2, <1>3, <1>4, SentinelsAssumption, DeletedTold DEF Writing

\* A Write that is skipped changes nothing of what its client may expect.
LEMMA SkippedTold ==
  ASSUME NoCollision, TypeOK, Told, NEW i \in Index, NEW c \in Content,
         SkippedWrite(i, c)
  PROVE  asked' = asked
<1>1. i \in DOMAIN files /\ files[i].hash = HashOf[c]
  BY DEF SkippedWrite, Deduped
<1>2. Goes(asked[i], files[i], slots[files[i].pos].blob)
  BY <1>1 DEF Told
<1>3. CASE asked[i] = Junk
  BY <1>3 DEF SkippedWrite, Asking, Told
<1>4. CASE asked[i] # Junk
  <2>1. asked[i] \in Content /\ HashOf[asked[i]] = HashOf[c]
    BY <1>1, <1>2, <1>4 DEF Goes, Told
  <2>2. asked[i] = c
    BY <2>1 DEF NoCollision
  <2> QED
    BY <1>4, <2>2 DEF SkippedWrite, Asking, Told
<1> QED
  BY <1>3, <1>4

LEMMA ExtendTold ==
  ASSUME TypeOK, IInv, Told, Kept, Extend, UNCHANGED asked
  PROVE  Told' /\ Kept'
<1>1. fileSize \notin DOMAIN slots
  BY DEF TypeOK, IInv, Layout, Slot
<1>2. /\ pc = "extend" /\ pc' = "header" /\ UNCHANGED <<pend, files>>
      /\ DOMAIN slots' = DOMAIN slots \cup {fileSize}
      /\ slots'[fileSize].hdr = Junk
      /\ \A q \in DOMAIN slots : slots'[q] = slots[q]
  BY <1>1 DEF Extend, PutSlot, IInv, InFlight, memory
<1>3. \A j \in DOMAIN files : files[j].pos \in DOMAIN slots
  BY DEF IInv, Coherent, FilesOnDisk
<1>4. Told'
  BY <1>2, <1>3 DEF Told, Live, Writing
<1>5. \A p \in DOMAIN slots : p \in DOMAIN slots' /\ (Live(p) => Live(p)')
  BY <1>2 DEF Live
<1>6. Writing /\ Writing'
  BY <1>2 DEF Writing
<1> QED
  BY <1>2, <1>4, <1>5, <1>6 DEF Kept

LEMMA PutHeaderTold ==
  ASSUME TypeOK, IInv, Told, Kept, PutHeader, UNCHANGED asked
  PROVE  Told' /\ Kept'
<1>1. pend.entry \in Entry
  BY DEF PutHeader, TypeOK, Writing
<1>2. /\ pc = "header" /\ pc' = "payload" /\ UNCHANGED <<pend, files>>
      /\ DOMAIN slots' = DOMAIN slots
      /\ \A q \in DOMAIN slots :
           /\ slots'[q].blob = slots[q].blob
           /\ q # pend.entry.pos => slots'[q].hdr = slots[q].hdr
  BY <1>1, SetHdrFacts DEF PutHeader, memory, TypeOK
<1>3. \A j \in DOMAIN files : files[j].pos \in DOMAIN slots
  BY DEF IInv, Coherent, FilesOnDisk
<1>4. Told'
  BY <1>2, <1>3 DEF Told, Live, Writing
<1>5. ~Live(pend.entry.pos)
  BY <1>2 DEF IInv, InFlight
<1>6. \A p \in DOMAIN slots : Live(p) => Live(p)' /\ slots'[p].hdr = slots[p].hdr
  BY <1>2, <1>5 DEF Live
<1>7. Writing /\ Writing'
  BY <1>2 DEF Writing
<1> QED
  BY <1>2, <1>4, <1>6, <1>7 DEF Kept

LEMMA PutPayloadTold ==
  ASSUME TypeOK, IInv, Told, Kept, PutPayload, UNCHANGED asked
  PROVE  Told' /\ Kept'
<1>1. PICK e, b : e = pend.entry /\ b = pend.blob
  OBVIOUS
<1>2. /\ pc = "payload" /\ pc' = "idle" /\ Goes(asked[e.index], e, b)
      /\ e.pos \in DOMAIN slots /\ slots[e.pos].hdr = e /\ e # Junk
      /\ \A i \in DOMAIN files : files[i].pos # e.pos
  BY <1>1, SentinelsAssumption
  DEF PutPayload, Idle, Writing, IInv, InFlight, Told, TypeOK
<1>3. /\ DOMAIN slots' = DOMAIN slots
      /\ \A q \in DOMAIN slots : q # e.pos => slots'[q] = slots[q]
      /\ slots'[e.pos].blob = b /\ slots'[e.pos].hdr = e
  BY <1>1, <1>2 DEF PutPayload, BlobPut, TypeOK, Slot
<1>4. \A i \in DOMAIN files' : \/ i \in DOMAIN files /\ files'[i] = files[i]
                               \/ i = e.index /\ files'[i] = e
  BY <1>1 DEF PutPayload, Emplace
<1>5. \A j \in DOMAIN files : files[j].pos \in DOMAIN slots
  BY DEF IInv, Coherent, FilesOnDisk
<1>6. \A p \in DOMAIN slots' :
        Live(p)' => Goes(asked[slots'[p].hdr.index], slots'[p].hdr, slots'[p].blob)
  BY <1>1, <1>2, <1>3 DEF Told, Live
<1>7. \A i \in DOMAIN files' : Goes(asked[i], files'[i], slots'[files'[i].pos].blob)
  BY <1>2, <1>3, <1>4, <1>5 DEF Told
<1>8. ~Writing'
  BY <1>2 DEF Writing
<1>9. Told'
  BY <1>6, <1>7, <1>8 DEF Told
<1>10. \A p \in DOMAIN slots : /\ slots'[p].hdr = slots[p].hdr
                               /\ Live(p)' <=> Live(p)
  BY <1>2, <1>3 DEF Live
<1>11. e.index # 0 => Live(e.pos)
  BY <1>2 DEF Live
<1>12. Kept'
  <2> SUFFICES ASSUME NEW j \in Index \ {0}, asked[j] # None
               PROVE  \E p \in DOMAIN slots : Live(p) /\ slots[p].hdr.index = j
    BY <1>3, <1>10 DEF Kept
  <2>1. CASE j = e.index
    BY <1>2, <1>11, <2>1
  <2>2. CASE j # e.index
    BY <1>1, <2>2 DEF Kept
  <2> QED
    BY <2>1, <2>2
<1> QED
  BY <1>9, <1>12

LEMMA ScanTold ==
  ASSUME TypeOK, IInv, Told, Kept, ScanEntry, UNCHANGED asked
  PROVE  Told' /\ Kept'
<1>1. PICK e : e = slots[scanPos].hdr
  OBVIOUS
<1>2. /\ pc = "scan" /\ pc' = "scan" /\ UNCHANGED slots
      /\ scanPos \in DOMAIN slots /\ e # Junk /\ e.pos = scanPos
  BY <1>1 DEF ScanEntry, disk, IInv, Layout
<1>3. \A i \in DOMAIN files' :
        \/ i \in DOMAIN files /\ files'[i] = files[i]
        \/ i = e.index /\ files'[i] = e /\ Live(scanPos)
  BY <1>1, <1>2 DEF ScanEntry, Emplace, Live
<1>4. Live(scanPos) => Goes(asked[e.index], e, slots[scanPos].blob)
  BY <1>1, <1>2 DEF Told
<1>5. \A i \in DOMAIN files' : Goes(asked[i], files'[i], slots[files'[i].pos].blob)
  BY <1>2, <1>3, <1>4 DEF Told
<1>6. Told'
  BY <1>2, <1>5 DEF Told, Live, Writing
<1> QED
  BY <1>2, <1>6 DEF Kept, Live, Writing

\* The archive is created anew and nothing is left of what it held; or it gets
\* its header, before which it held nothing.
LEMMA FreshTold ==
  ASSUME TypeOK, IInv, Told, Kept,
         \/ \E k \in Key : /\ CreateArchive(FALSE, k)
                           /\ asked' = [i \in Index \cup {0} |-> None]
         \/ Format /\ UNCHANGED asked
  PROVE  Told' /\ Kept'
<1>1. \A p \in DOMAIN slots' : slots'[p].hdr = Junk
  BY EmptyTables DEF Format, CreateArchive, IInv, Formatting, PutSlot
<1>2. DOMAIN files' = {} /\ pc' \in {"pad", "load"}
  BY DEF Format, CreateArchive, IInv, Formatting, memory
<1>3. ~Writing'
  BY <1>2 DEF Writing
<1>4. asked' \in [Index \cup {0} -> Content \cup {None, Junk}]
  BY DEF Told
<1>5. Told'
  BY <1>1, <1>2, <1>3, <1>4 DEF Told, Live
<1>6. CASE Format /\ UNCHANGED asked
  <2>1. DOMAIN slots = {} /\ ~Writing
    BY <1>6 DEF Format, IInv, Formatting, Writing
  <2>2. \A i \in Index \ {0} : asked[i] = None
    BY <2>1 DEF Kept
  <2> QED
    BY <1>5, <1>6, <2>2 DEF Kept
<1>7. CASE asked' = [i \in Index \cup {0} |-> None]
  BY <1>5, <1>7 DEF Kept
<1> QED
  BY <1>6, <1>7

LEMMA NextTold ==
  ASSUME NoCollision
  PROVE  TypeOK /\ IInv /\ HasKey /\ Told /\ Kept /\ [HistNext]_hvars => Told' /\ Kept'
<1> SUFFICES ASSUME TypeOK, IInv, HasKey, Told, Kept, [HistNext]_hvars
             PROVE  Told' /\ Kept'
  OBVIOUS
<1>1. ASSUME NEW i \in Index, NEW c \in Content, NEW fl \in FlagSets,
             Write(i, c, fl), Asking(i, c)
      PROVE  Told' /\ Kept'
  BY <1>1, WriteTold
<1>2. ASSUME UNCHANGED <<vars, asked>> PROVE Told' /\ Kept'
  BY <1>2 DEF vars, disk, memory, control, Told, Kept, Live, Writing
<1>3. ASSUME NEW i \in Index, NEW c \in Content, SkippedWrite(i, c)
      PROVE  Told' /\ Kept'
  BY <1>2, <1>3, SkippedTold DEF SkippedWrite
<1>4. ASSUME NEW r \in Raw, WriteRawData(r), Asking(r.index, Junk)
      PROVE  Told' /\ Kept'
  BY <1>4, RawTold
<1>5. ASSUME NEW i \in Index, Delete(i), Asking(i, None) PROVE Told' /\ Kept'
  BY <1>5, DeletedTold DEF Delete, Writable, control, Writing
<1>6. ASSUME \E k \in Key : /\ CreateArchive(FALSE, k)
                            /\ asked' = [i \in Index \cup {0} |-> None]
      PROVE  Told' /\ Kept'
  BY <1>6, FreshTold
<1>7. ASSUME Steps, UNCHANGED asked PROVE Told' /\ Kept'
  <2>1. CASE LoadHeader \/ ScanDone \/ ScanJunk \/ Pad
    BY <1>7, <2>1, QuietTold
    DEF LoadHeader, ScanDone, ScanJunk, Pad, Idle, disk, memory, Writing
  <2>2. CASE LoadFails
    BY <1>7, <2>2, QuietTold DEF LoadFails, Idle, disk, Writing
  <2> QED
    BY <1>7, <2>1, <2>2, ExtendTold, PutHeaderTold, PutPayloadTold, ScanTold, FreshTold
    DEF Steps
<1>8. ASSUME Unload \/ \E k \in Key : CreateArchive(TRUE, k) \/ OpenArchive(k),
             UNCHANGED asked
      PROVE  Told' /\ Kept'
  BY <1>8, QuietTold, EmptyTables
  DEF Unload, Forget, control, CreateArchive, OpenArchive, disk, Writing
<1> QED
  BY <1>1, <1>2, <1>3, <1>4, <1>5, <1>6, <1>7, <1>8 DEF HistNext, hvars

LEMMA NextHasKey == IInv /\ HasKey /\ [Next]_vars => HasKey'
<1> SUFFICES ASSUME IInv, HasKey, [Next]_vars PROVE HasKey'
  OBVIOUS
<1>1. ASSUME UNCHANGED <<key, mode, files>>, pc' \in {"load", "scan"} => pc \in {"load", "scan"}
      PROVE  HasKey'
  BY <1>1 DEF HasKey
<1>2. ASSUME NEW k \in Key, key' = k PROVE HasKey'
  BY <1>2, SentinelsAssumption DEF HasKey
<1>3. ASSUME UNCHANGED <<key, mode>>, key # None PROVE HasKey'
  BY <1>3 DEF HasKey
<1>4. CASE \/ \E k \in Key : \E append \in BOOLEAN : CreateArchive(append, k)
           \/ \E k \in Key : OpenArchive(k)
  BY <1>2, <1>4 DEF CreateArchive, OpenArchive
<1>5. CASE \/ \E i \in Index, c \in Content, fl \in FlagSets : Write(i, c, fl)
           \/ \E r \in Raw : WriteRawData(r)
           \/ \E i \in Index : Delete(i)
  <2>1. ASSUME NEW i \in Index, NEW c \in Content, NEW fl \in FlagSets, Write(i, c, fl)
        PROVE  Writable /\ UNCHANGED <<key, mode>>
    BY <2>1 DEF Write, BeginWrite
  <2>2. ASSUME NEW r \in Raw, WriteRawData(r) PROVE Writable /\ UNCHANGED <<key, mode>>
    BY <2>2 DEF WriteRawData, BeginWrite
  <2>3. ASSUME NEW i \in Index, Delete(i) PROVE Writable /\ UNCHANGED <<key, mode>>
    BY <2>3 DEF Delete
  <2>4. Writable /\ UNCHANGED <<key, mode>>
    BY <1>5, <2>1, <2>2, <2>3
  <2>5. key # None
    BY <2>4 DEF Writable, HasKey
  <2> QED
    BY <1>3, <2>4, <2>5
<1>6. CASE ScanEntry
  <2>1. pc = "scan" /\ UNCHANGED <<key, mode>>
    BY <1>6 DEF ScanEntry
  <2>2. key # None
    BY <2>1 DEF HasKey
  <2> QED
    BY <1>3, <2>1, <2>2
<1>7. CASE Extend \/ PutHeader \/ PutPayload
  <2>1. mode = "OUTPUT" /\ UNCHANGED <<key, mode>>
    BY <1>7 DEF Extend, PutHeader, PutPayload, memory, IInv, InFlight, Writing
  <2> QED
    BY <1>3, <2>1 DEF HasKey
<1>8. CASE LoadHeader \/ Format \/ Pad \/ ScanDone \/ ScanJunk \/ UNCHANGED vars
  BY <1>1, <1>8 DEF LoadHeader, Format, Pad, ScanDone, ScanJunk, Idle, vars, memory, control
<1>9. CASE LoadFails
  BY <1>9 DEF LoadFails, Idle, HasKey, IInv, Formatting
<1>10. CASE Unload
  BY <1>10, EmptyTables DEF Unload, Forget, control, HasKey
<1> QED
  BY <1>4, <1>5, <1>6, <1>7, <1>8, <1>9, <1>10 DEF Next, Calls, Steps

\* What a client was told is what an idle object reads back.
LEMMA ToldReads ==
  ASSUME OneKey, TypeOK, IInv, HasKey, Told, Kept
  PROVE  WrittenIsRead
<1> SUFFICES ASSUME pc = "idle", mode # "NONE" PROVE WrittenIsRead
  BY DEF WrittenIsRead
<1>1. Loaded /\ ~Writing
  BY DEF Loaded, Writing
<1>2. DOMAIN files \subseteq Index \cup {0}
      /\ \A i \in DOMAIN files : Goes(asked[i], files[i], slots[files[i].pos].blob)
  BY DEF TypeOK, Told
<1>3. \A i \in DOMAIN files \ {0} : i \in Index \ {0} /\ asked[i] # None
  BY <1>2 DEF Goes
<1>4. ASSUME NEW i \in Index \ {0}, asked[i] # None PROVE i \in DOMAIN files
  <2>1. PICK p \in DOMAIN slots : Live(p) /\ slots[p].hdr.index = i
    BY <1>1, <1>4 DEF Kept
  <2> QED
    BY <1>1, <2>1 DEF IInv, Coherent, NothingMissed, Faithful, Live
<1>5. ASSUME NEW i \in DOMAIN files, asked[i] # Junk PROVE ReadBack(i) = asked[i]
  <2>1. PICK b : b = slots[files[i].pos].blob
    OBVIOUS
  <2>2. /\ b \in Blob /\ b.content = asked[i] /\ b.flags = files[i].flags
        /\ Stored(b.content, b.flags) = files[i].size /\ HashOf[b.content] = files[i].hash
        /\ "AES256" \in b.flags => b.key \in Key
    BY <1>2, <1>5, <2>1 DEF Goes
  <2>3. b # Junk
    BY <2>2, SentinelsAssumption
  <2>4. key \in Key
    BY DEF TypeOK, HasKey
  <2>5. "AES256" \in files[i].flags => b.key = key
    BY <2>2, <2>4 DEF OneKey
  <2> QED
    BY <2>1, <2>2, <2>3, <2>5 DEF ReadBack, Decode
<1>6. DOMAIN files \ {0} = {i \in Index \ {0} : asked[i] # None}
  BY <1>3, <1>4
<1> QED
  BY <1>5, <1>6 DEF WrittenIsRead

\* Over every sequence of complete calls and sessions with one key, the archive
\* lists the files that were written and not deleted, and each is read back as
\* the content of its last successful Write, a skipped one included, unless two
\* contents have the same hash (Write, WriteRawData, Delete, Load, Create).
THEOREM WritesAreRead ==
  ASSUME OneKey, NoCollision
  PROVE  HistSpec => []WrittenIsRead
<1>1. HistInit => TypeOK /\ IInv /\ HasKey /\ Told /\ Kept
  <2> SUFFICES ASSUME HistInit PROVE TypeOK /\ IInv /\ HasKey /\ Told /\ Kept
    OBVIOUS
  <2>1. Init /\ asked = [i \in Index \cup {0} |-> None]
    BY DEF HistInit
  <2>2. TypeOK /\ IInv
    BY <2>1, InitTyped, InitSafe
  <2>3. HasKey /\ Told /\ Kept
    BY <2>1, EmptyTables DEF Init, HasKey, Told, Kept, Writing
  <2> QED
    BY <2>2, <2>3
<1>2. [Next]_vars => [CrashNext]_vars
  BY DEF CrashNext
<1>3. TypeOK /\ IInv /\ HasKey /\ Told /\ Kept /\ [HistNext]_hvars
        => (TypeOK /\ IInv /\ HasKey /\ Told /\ Kept)'
  BY <1>2, HistSteps, NextTyped, NextSafe, NextHasKey, NextTold
<1>4. TypeOK /\ IInv /\ HasKey /\ Told /\ Kept => WrittenIsRead
  BY ToldReads
<1> QED
  BY <1>1, <1>3, <1>4, PTL DEF HistSpec

-----------------------------------------------------------------------------
(* The abstract store *)

\* The two variables of the store, as the module VFSArchive maps them.
MappedStore == [i \in Index \ {0} |-> One(OnDisk(i))]
MappedBusy ==
  IF Writing /\ pend.entry.index # 0
  THEN [index |-> pend.entry.index, hash |-> pend.entry.hash] ELSE None

\* The hashes a new record may have.
Announced == {HashOf[c] : c \in Content} \cup {r.hash : r \in Raw}

-----------------------------------------------------------------------------
(* What is on the disk under an index *)

\* Slot p holds the file of index j.
Owns(p, j) == p \in DOMAIN slots /\ Live(p) /\ slots[p].hdr.index = j

\* What its payload decodes to.
Reading(p) == Decode(slots[p].hdr, slots[p].blob, slots[p].blob.key)

LEMMA NobodyOwns ==
  ASSUME NEW j
  PROVE  /\ (\A p : ~Owns(p, j)) => OnDisk(j) = {}
         /\ (\A p : ~Owns(p, j)') => OnDisk(j)' = {}
BY DEF OnDisk, Owns

LEMMA OneOwnsNext ==
  ASSUME NEW j, NEW p, Owns(p, j)', \A q : Owns(q, j)' => q = p
  PROVE  OnDisk(j)' = (IF (slots[p].blob)' # Junk THEN {Reading(p)'} ELSE {}) \ {None}
<1>1. {q \in DOMAIN slots : Live(q) /\ slots[q].hdr.index = j /\ slots[q].blob # Junk}'
        = IF (slots[p].blob)' # Junk THEN {p} ELSE {}
  BY DEF Owns
<1> QED
  BY <1>1 DEF OnDisk, Reading

\* A file whose slot is not touched is read back as before.
LEMMA OthersKept ==
  ASSUME NEW j,
         \A p : Owns(p, j)' <=> Owns(p, j),
         \A p : Owns(p, j) => slots'[p] = slots[p]
  PROVE  OnDisk(j)' = OnDisk(j)
<1> DEFINE S == {q \in DOMAIN slots : Live(q) /\ slots[q].hdr.index = j
                                       /\ slots[q].blob # Junk}
<1>1. S' = S
  BY DEF Owns
<1>2. \A q \in S : Reading(q)' = Reading(q)
  BY DEF Owns, Reading, Decode
<1>3. OnDisk(j) = {Reading(q) : q \in S} \ {None}
  BY DEF OnDisk, Reading
<1>4. OnDisk(j)' = {Reading(q)' : q \in S'} \ {None}
  BY DEF OnDisk, Reading
<1> HIDE DEF S
<1> QED
  BY <1>1, <1>2, <1>3, <1>4

LEMMA DiskUnchanged ==
  ASSUME UNCHANGED slots
  PROVE  MappedStore' = MappedStore
BY DEF MappedStore, OnDisk, Live, Decode

LEMMA OneUpdate ==
  ASSUME NEW S, NEW f, NEW g, NEW i \in S, NEW c,
         f = [x \in S |-> f[x]], g = [x \in S |-> g[x]],
         g[i] = c, \A x \in S : x # i => g[x] = f[x]
  PROVE  g = [f EXCEPT ![i] = c]
<1>1. DOMAIN f = S
  OBVIOUS
<1>2. [f EXCEPT ![i] = c] = [x \in S |-> IF x = i THEN c ELSE f[x]]
  BY <1>1
<1> QED
  BY <1>2

\* When the readings of all files but i stay, so does the store but for i.
LEMMA OnlyOneChanges ==
  ASSUME NEW i \in Index \ {0}, NEW c,
         \A j \in Index \ {0} : j # i => OnDisk(j)' = OnDisk(j),
         OnDisk(i)' = {c} \ {None}
  PROVE  MappedStore' = [MappedStore EXCEPT ![i] = c]
<1>1. MappedStore'[i] = c
  <2>1. MappedStore'[i] = One(OnDisk(i)')
    BY DEF MappedStore
  <2>2. CASE c = None
    BY <2>1, <2>2 DEF One
  <2>3. CASE c # None
    <3>1. OnDisk(i)' = {c}
      BY <2>3
    <3>2. One({c}) = c
      BY DEF One
    <3> QED
      BY <2>1, <3>1, <3>2
  <2> QED
    BY <2>2, <2>3
<1>2. \A j \in Index \ {0} : j # i => MappedStore'[j] = MappedStore[j]
  <2> SUFFICES ASSUME NEW j \in Index \ {0}, j # i
               PROVE  MappedStore'[j] = MappedStore[j]
    OBVIOUS
  <2>1. MappedStore'[j] = One(OnDisk(j)') /\ MappedStore[j] = One(OnDisk(j))
    BY DEF MappedStore
  <2> QED
    BY <2>1
<1>3. MappedStore = [j \in Index \ {0} |-> MappedStore[j]]
  BY DEF MappedStore
<1>4. MappedStore' = [j \in Index \ {0} |-> MappedStore'[j]]
  BY DEF MappedStore
<1> QED
  BY <1>1, <1>2, <1>3, <1>4, OneUpdate

LEMMA NothingChanges ==
  ASSUME \A j \in Index \ {0} : OnDisk(j)' = OnDisk(j)
  PROVE  MappedStore' = MappedStore
<1>1. \A j \in Index \ {0} : One(OnDisk(j)') = One(OnDisk(j))
  OBVIOUS
<1>2. MappedStore' = [j \in Index \ {0} |-> One(OnDisk(j)')]
  BY DEF MappedStore
<1> QED
  BY <1>1, <1>2 DEF MappedStore

-----------------------------------------------------------------------------
(* What each step does to the store *)

\* A file that the loaded object does not list is on no slot of the disk, but
\* perhaps on the one that is being written.
LEMMA UnlistedIsAbsent ==
  ASSUME IInv, Loaded, NEW i \in Index \ {0}, i \notin DOMAIN files, NEW p,
         Owns(p, i)
  PROVE  Writing /\ p = pend.entry.pos
BY DEF IInv, Coherent, NothingMissed, Faithful, Owns, Live

LEMMA DeleteMaps ==
  ASSUME TypeOK, IInv, Writable, NEW i \in Index, slots' = SlotsAfterDelete(i)
  PROVE  IF i = 0 THEN MappedStore' = MappedStore
                  ELSE MappedStore' = [MappedStore EXCEPT ![i] = None]
<1>1. Loaded /\ ~Writing
  BY DEF Writable, Loaded, Writing
<1>2. CASE i \notin DOMAIN files
  <2>1. slots' = slots
    BY <1>2 DEF SlotsAfterDelete
  <2>2. \A j \in Index \ {0} : OnDisk(j)' = OnDisk(j)
    BY <2>1, OthersKept DEF Owns, Live
  <2>3. CASE i = 0
    BY <2>2, <2>3, NothingChanges
  <2>4. CASE i # 0
    <3>1. \A p : ~Owns(p, i)
      BY <1>1, <1>2, <2>4, UnlistedIsAbsent
    <3>2. OnDisk(i)' = {None} \ {None}
      BY <2>2, <2>4, <3>1, NobodyOwns
    <3> QED
      BY <2>2, <2>4, <3>2, OnlyOneChanges
  <2> QED
    BY <2>3, <2>4
<1>3. CASE i \in DOMAIN files
  <2> DEFINE f == files[i]
             t == Tombstone(f)
  <2>1. /\ f \in Entry /\ f.index = i /\ f.pos \in DOMAIN slots
        /\ slots[f.pos].hdr = f /\ f # Junk
    BY <1>3, SentinelsAssumption DEF TypeOK, IInv, Coherent, FilesOnDisk
  <2>2. t \in Entry /\ t.index = 0
    BY <2>1, TombstoneTyped
  <2>3. slots' = SetHdr(slots, f.pos, t)
    BY <1>3 DEF SlotsAfterDelete
  <2> HIDE DEF f, t
  <2>4. /\ DOMAIN slots' = DOMAIN slots
        /\ \A q \in DOMAIN slots : q # f.pos => slots'[q] = slots[q]
        /\ slots'[f.pos].hdr = t
    <3>1. slots'[f.pos].hdr = t
      BY <2>1, <2>2, <2>3, SetHdrFacts DEF TypeOK
    <3> QED
      BY <2>3, <3>1 DEF SetHdr
  <2>5. \A p, j : Owns(p, j)' <=> Owns(p, j) /\ p # f.pos
    BY <2>2, <2>4 DEF Owns, Live
  <2>6. \A p, j : j # 0 /\ Owns(p, j) /\ p = f.pos => j = i
    BY <2>1 DEF Owns
  <2>7. \A j \in Index \ {0} : j # i => OnDisk(j)' = OnDisk(j)
    <3> SUFFICES ASSUME NEW j \in Index \ {0}, j # i PROVE OnDisk(j)' = OnDisk(j)
      OBVIOUS
    <3>1. \A p : Owns(p, j)' <=> Owns(p, j)
      BY <2>5, <2>6
    <3>2. \A p : Owns(p, j) => slots'[p] = slots[p]
      BY <2>4, <2>6 DEF Owns
    <3> QED
      BY <3>1, <3>2, OthersKept
  <2>8. CASE i = 0
    BY <2>7, <2>8, NothingChanges
  <2>9. CASE i # 0
    <3>1. Owns(f.pos, i)
      BY <2>1, <2>9 DEF Owns, Live
    <3>2. \A p : ~Owns(p, i)'
      BY <2>5, <3>1 DEF IInv, UniqueLive, Owns
    <3>3. OnDisk(i)' = {None} \ {None}
      BY <3>2, NobodyOwns
    <3> QED
      BY <2>7, <2>9, <3>3, OnlyOneChanges
  <2> QED
    BY <2>8, <2>9
<1> QED
  BY <1>2, <1>3

\* Slots without a record, old or new, do not count.
LEMMA NewSlotMaps ==
  ASSUME NEW q, NEW s, s.hdr = Junk, q \notin DOMAIN slots, slots' = PutSlot(q, s)
  PROVE  MappedStore' = MappedStore
<1>1. \A p, j : Owns(p, j)' <=> Owns(p, j)
  BY DEF PutSlot, Owns, Live
<1>2. \A p, j : Owns(p, j) => slots'[p] = slots[p]
  BY DEF PutSlot, Owns
<1> QED
  BY <1>1, <1>2, OthersKept, NothingChanges

\* With its entry a record may become readable, by an old payload that fits.
LEMMA PutHeaderMaps ==
  ASSUME TypeOK, IInv, PutHeader
  PROVE  \/ MappedStore' = MappedStore
         \/ /\ pend.entry.index # 0
            /\ \E c \in Content :
                 /\ HashOf[c] = pend.entry.hash
                 /\ MappedStore' = [MappedStore EXCEPT ![pend.entry.index] = c]
<1>0. PICK e, old : e = pend.entry /\ old = slots[e.pos].blob
  OBVIOUS
<1> DEFINE i == e.index
<1>1. /\ pc = "header" /\ Writing /\ Loaded
      /\ e \in Entry /\ e # Junk /\ i \in Index \cup {0}
      /\ e.pos \in DOMAIN slots /\ ~Live(e.pos) /\ i \notin DOMAIN files
      /\ old \in Payload
  BY <1>0, SentinelsAssumption
  DEF PutHeader, Writing, Loaded, IInv, InFlight, TypeOK, Entry, Slot
<1>2. /\ DOMAIN slots' = DOMAIN slots
      /\ \A q \in DOMAIN slots : q # e.pos => slots'[q] = slots[q]
      /\ slots'[e.pos].hdr = e /\ slots'[e.pos].blob = old
  <2>1. slots'[e.pos].hdr = e /\ slots'[e.pos].blob = old
    BY <1>0, <1>1, SetHdrFacts DEF PutHeader, TypeOK
  <2> QED
    BY <1>0, <2>1 DEF PutHeader, SetHdr
<1> HIDE DEF i
<1>3. \A p, j : Owns(p, j)' <=> IF p = e.pos THEN e.index = j /\ j # 0 ELSE Owns(p, j)
  BY <1>1, <1>2 DEF Owns, Live
<1>4. \A j : ~Owns(e.pos, j)
  BY <1>1 DEF Owns
<1>5. \A j \in Index \ {0} : j # e.index => OnDisk(j)' = OnDisk(j)
  <2> SUFFICES ASSUME NEW j \in Index \ {0}, j # e.index PROVE OnDisk(j)' = OnDisk(j)
    OBVIOUS
  <2>1. \A p : Owns(p, j)' <=> Owns(p, j)
    BY <1>3, <1>4
  <2>2. \A p : Owns(p, j) => slots'[p] = slots[p]
    BY <1>2, <1>4 DEF Owns
  <2> QED
    BY <2>1, <2>2, OthersKept
<1>6. CASE i = 0
  BY <1>5, <1>6, NothingChanges DEF i
<1>7. CASE i # 0
  <2>1. i \in Index \ {0} /\ i = e.index
    BY <1>1, <1>7 DEF i
  <2>2. \A p : ~Owns(p, i)
    BY <1>1, <1>4, <2>1, UnlistedIsAbsent, <1>0
  <2>3. OnDisk(i) = {}
    BY <2>2, NobodyOwns
  <2>4. OnDisk(i)' = (IF old # Junk THEN {Decode(e, old, old.key)} ELSE {}) \ {None}
    <3>1. Owns(e.pos, i)' /\ \A q : Owns(q, i)' => q = e.pos
      BY <1>3, <2>1, <2>2
    <3>2. Reading(e.pos)' =
            Decode(slots'[e.pos].hdr, slots'[e.pos].blob, slots'[e.pos].blob.key)
      BY DEF Reading
    <3>3. OnDisk(i)' = (IF slots'[e.pos].blob # Junk THEN {Reading(e.pos)'} ELSE {})
                         \ {None}
      BY <3>1, OneOwnsNext
    <3> QED
      BY <1>2, <3>2, <3>3
  <2>5. CASE old = Junk \/ Decode(e, old, old.key) = None
    BY <1>5, <2>1, <2>3, <2>4, <2>5, NothingChanges
  <2>6. CASE old # Junk /\ Decode(e, old, old.key) # None
    <3> DEFINE c == Decode(e, old, old.key)
    <3>1. c \in Content /\ HashOf[c] = e.hash
      BY <1>1, <2>6, ReadingHashes
    <3>2. OnDisk(i)' = {c} \ {None}
      BY <2>4, <2>6
    <3> HIDE DEF c
    <3>3. MappedStore' = [MappedStore EXCEPT ![i] = c]
      BY <1>5, <2>1, <3>2, OnlyOneChanges
    <3> QED
      BY <1>0, <2>1, <3>1, <3>3
  <2> QED
    BY <2>5, <2>6
<1> QED
  BY <1>6, <1>7

\* With its payload it is readable, if the two go together.
LEMMA PutPayloadMaps ==
  ASSUME TypeOK, IInv, PutPayload
  PROVE  IF pend.entry.index = 0 THEN MappedStore' = MappedStore
         ELSE \/ MappedStore' = [MappedStore EXCEPT ![pend.entry.index] = None]
              \/ \E c \in Content :
                   /\ HashOf[c] = pend.entry.hash
                   /\ MappedStore' = [MappedStore EXCEPT ![pend.entry.index] = c]
<1>0. PICK e, b : e = pend.entry /\ b = pend.blob
  OBVIOUS
<1> DEFINE i == e.index
<1>1. /\ pc = "payload" /\ Writing
      /\ e \in Entry /\ e # Junk /\ i \in Index \cup {0}
      /\ e.pos \in DOMAIN slots /\ slots[e.pos].hdr = e
      /\ slots[e.pos] \in Slot
  BY <1>0, SentinelsAssumption DEF PutPayload, Writing, IInv, InFlight, TypeOK, Entry
<1>2. b \in Payload
  BY <1>0, <1>1 DEF TypeOK
<1>3. /\ DOMAIN slots' = DOMAIN slots
      /\ \A q \in DOMAIN slots : q # e.pos => slots'[q] = slots[q]
      /\ slots'[e.pos].hdr = e /\ slots'[e.pos].blob = b
  BY <1>0, <1>1 DEF PutPayload, BlobPut, Slot
<1> HIDE DEF i
<1>4. \A p, j : Owns(p, j)' <=> Owns(p, j)
  <2> SUFFICES ASSUME NEW p, NEW j PROVE Owns(p, j)' <=> Owns(p, j)
    OBVIOUS
  <2>1. CASE p = e.pos
    BY <1>1, <1>3, <2>1 DEF Owns, Live
  <2>2. CASE p # e.pos
    BY <1>3, <2>2 DEF Owns, Live
  <2> QED
    BY <2>1, <2>2
<1>5. \A j : Owns(e.pos, j) => j = e.index
  BY <1>1 DEF Owns
<1>6. \A j \in Index \ {0} : j # e.index => OnDisk(j)' = OnDisk(j)
  <2> SUFFICES ASSUME NEW j \in Index \ {0}, j # e.index PROVE OnDisk(j)' = OnDisk(j)
    OBVIOUS
  <2>1. \A p : Owns(p, j) => slots'[p] = slots[p]
    BY <1>3, <1>5 DEF Owns
  <2> QED
    BY <1>4, <2>1, OthersKept
<1>7. CASE i = 0
  BY <1>0, <1>6, <1>7, NothingChanges DEF i
<1>8. CASE i # 0
  <2>1. i \in Index \ {0} /\ i = e.index
    BY <1>1, <1>8 DEF i
  <2>2. Owns(e.pos, i)
    BY <1>1, <2>1 DEF Owns, Live
  <2>3. \A q : Owns(q, i)' => q = e.pos
    BY <1>4, <2>2 DEF Owns, IInv, UniqueLive
  <2>4. Reading(e.pos)' =
          Decode(slots'[e.pos].hdr, slots'[e.pos].blob, slots'[e.pos].blob.key)
    BY DEF Reading
  <2>5. OnDisk(i)' = (IF b # Junk THEN {Decode(e, b, b.key)} ELSE {}) \ {None}
    BY <1>3, <1>4, <2>2, <2>3, <2>4, OneOwnsNext
  <2>6. CASE b = Junk \/ Decode(e, b, b.key) = None
    <3>1. OnDisk(i)' = {None} \ {None}
      BY <2>5, <2>6
    <3>2. MappedStore' = [MappedStore EXCEPT ![i] = None]
      BY <1>6, <2>1, <3>1, OnlyOneChanges
    <3> QED
      BY <1>0, <1>8, <3>2 DEF i
  <2>7. CASE b # Junk /\ Decode(e, b, b.key) # None
    <3> DEFINE c == Decode(e, b, b.key)
    <3>1. c \in Content /\ HashOf[c] = e.hash
      BY <1>2, <2>7, ReadingHashes
    <3>2. OnDisk(i)' = {c} \ {None}
      BY <2>5, <2>7
    <3> HIDE DEF c
    <3>3. MappedStore' = [MappedStore EXCEPT ![i] = c]
      BY <1>6, <2>1, <3>2, OnlyOneChanges
    <3> QED
      BY <1>0, <1>8, <3>1, <3>3 DEF i
  <2> QED
    BY <2>6, <2>7
<1> QED
  BY <1>7, <1>8

-----------------------------------------------------------------------------
(* The theorem *)

LEMMA EmptyStore ==
  ASSUME DOMAIN slots = {}
  PROVE  MappedStore = [i \in Index \ {0} |-> None]
<1>1. \A i : OnDisk(i) = {}
  BY NobodyOwns DEF Owns
<1> QED
  BY <1>1 DEF MappedStore, One

LEMMA EmptyStoreNext ==
  ASSUME DOMAIN slots' = {}
  PROVE  MappedStore' = [i \in Index \ {0} |-> None]
<1>1. \A i : OnDisk(i)' = {}
  BY NobodyOwns DEF Owns
<1>2. MappedStore' = [i \in Index \ {0} |-> One(OnDisk(i)')]
  BY DEF MappedStore
<1> QED
  BY <1>1, <1>2 DEF One

LEMMA InitMaps == Init => Store!StoreInit
<1> SUFFICES ASSUME Init PROVE Store!StoreInit
  OBVIOUS
<1>1. MappedStore = [i \in Index \ {0} |-> None]
  BY EmptyStore, EmptyTables DEF Init
<1>2. MappedBusy = None
  BY DEF Init, MappedBusy, Writing
<1> QED
  BY <1>1, <1>2 DEF Store!StoreInit, MappedStore, MappedBusy

\* The steps of the store, over the mapped variables.
LEMMA StutterStep ==
  ASSUME MappedStore' = MappedStore, MappedBusy' = MappedBusy
  PROVE  UNCHANGED Store!svars
BY DEF Store!svars, MappedStore, MappedBusy

LEMMA DropStep ==
  ASSUME NEW i \in Index \ {0}, MappedBusy = None, MappedBusy' = None,
         MappedStore' = [MappedStore EXCEPT ![i] = None]
  PROVE  Store!StoreNext
<1>1. Store!Drop(i)
  BY DEF Store!Drop, MappedStore, MappedBusy
<1> QED
  BY <1>1 DEF Store!StoreNext

LEMMA ReplaceStep ==
  ASSUME NEW i \in Index \ {0}, NEW h \in Announced, MappedBusy = None,
         MappedBusy' = [index |-> i, hash |-> h],
         MappedStore' = [MappedStore EXCEPT ![i] = None]
  PROVE  Store!StoreNext
<1>1. Store!Replace(i, h)
  BY DEF Store!Replace, MappedStore, MappedBusy
<1> QED
  BY <1>1 DEF Store!StoreNext, Announced

LEMMA PublishStep ==
  ASSUME NEW c \in Content, MappedBusy # None, HashOf[c] = MappedBusy.hash,
         MappedStore' = [MappedStore EXCEPT ![MappedBusy.index] = c],
         MappedBusy' \in {MappedBusy, None}
  PROVE  Store!StoreNext
<1>1. Store!Publish(c)
  BY DEF Store!Publish, MappedStore, MappedBusy
<1> QED
  BY <1>1 DEF Store!StoreNext

LEMMA EndStep ==
  ASSUME MappedBusy # None, MappedBusy' = None, MappedStore' = MappedStore
  PROVE  Store!StoreNext
<1>1. Store!EndReplace
  BY DEF Store!EndReplace, MappedStore, MappedBusy
<1> QED
  BY <1>1 DEF Store!StoreNext

LEMMA SpoilStep ==
  ASSUME MappedBusy # None, MappedBusy' = None,
         MappedStore' = [MappedStore EXCEPT ![MappedBusy.index] = None]
  PROVE  Store!StoreNext
<1>1. Store!EndReplace
  BY DEF Store!EndReplace, MappedStore, MappedBusy
<1> QED
  BY <1>1 DEF Store!StoreNext

LEMMA EraseStep ==
  ASSUME MappedBusy = None, MappedBusy' = None,
         MappedStore' = [i \in Index \ {0} |-> None]
  PROVE  Store!StoreNext
<1>1. Store!Erase
  BY DEF Store!Erase, MappedStore, MappedBusy
<1> QED
  BY <1>1 DEF Store!StoreNext

\* No replacement is in progress outside a write.
LEMMA BusyWrites ==
  /\ ~Writing => MappedBusy = None
  /\ ~Writing' => MappedBusy' = None
BY DEF MappedBusy

LEMMA BusyWhileWriting ==
  ASSUME TypeOK, Writing
  PROVE  /\ pend.entry.index = 0 => MappedBusy = None
         /\ pend.entry.index # 0 =>
              /\ MappedBusy = [index |-> pend.entry.index, hash |-> pend.entry.hash]
              /\ MappedBusy # None
BY SentinelsAssumption DEF MappedBusy, TypeOK, Entry

\* Steps that write nothing a Load would list.
LEMMA QuietMaps ==
  ASSUME TypeOK, IInv,
         \/ UNCHANGED vars
         \/ \E append \in BOOLEAN, k \in Key : append /\ CreateArchive(append, k)
         \/ \E k \in Key : OpenArchive(k)
         \/ LoadHeader \/ LoadFails \/ Format \/ Pad
         \/ ScanEntry \/ ScanDone \/ ScanJunk \/ Unload \/ Extend
  PROVE  UNCHANGED Store!svars
<1>1. CASE Extend
  <2>1. fileSize \notin DOMAIN slots
    BY DEF TypeOK, IInv, Layout, Slot
  <2>2. MappedStore' = MappedStore
    BY <1>1, <2>1, NewSlotMaps DEF Extend, IInv, InFlight
  <2>3. MappedBusy' = MappedBusy
    BY <1>1 DEF Extend, MappedBusy, Writing
  <2> QED
    BY <2>2, <2>3, StutterStep
<1>2. CASE Format
  <2>1. DOMAIN slots = {}
    BY <1>2 DEF Format, IInv, Formatting
  <2>2. MappedBusy' = MappedBusy
    BY <1>2 DEF Format, MappedBusy, Writing
  <2>3. CASE slots' = slots
    BY <2>2, <2>3, DiskUnchanged, StutterStep
  <2>4. CASE slots' # slots
    <3>1. PICK s : s = [len |-> fileSize - FirstEntry, hdr |-> Junk, blob |-> Junk]
      OBVIOUS
    <3>2. slots' = PutSlot(FirstEntry, s) /\ s.hdr = Junk
      BY <1>2, <2>4, <3>1 DEF Format
    <3> QED
      BY <2>1, <2>2, <3>2, NewSlotMaps, StutterStep
  <2> QED
    BY <2>3, <2>4
<1>3. ASSUME UNCHANGED slots, MappedBusy' = MappedBusy PROVE UNCHANGED Store!svars
  BY <1>3, DiskUnchanged, StutterStep
<1>4. CASE ~Extend /\ ~Format
  <2>1. UNCHANGED slots
    BY <1>4 DEF vars, disk, CreateArchive, OpenArchive, LoadHeader, LoadFails, Pad,
                ScanEntry, ScanDone, ScanJunk, Unload
  <2>2. ASSUME ~UNCHANGED vars PROVE ~Writing /\ ~Writing'
    <3>1. pc \in {"idle", "load", "pad", "scan"}
      BY <1>4, <2>2 DEF CreateArchive, OpenArchive, LoadHeader, LoadFails, Pad, ScanEntry,
                        ScanDone, ScanJunk, Unload
    <3>2. pc' \in {pc, "idle", "load", "scan", "wild"}
      BY <1>4, <2>2 DEF CreateArchive, OpenArchive, LoadHeader, LoadFails, Pad, ScanEntry,
                        ScanDone, ScanJunk, Unload, control, Idle
    <3> QED
      BY <3>1, <3>2 DEF Writing
  <2>3. MappedBusy' = MappedBusy
    <3>1. CASE UNCHANGED vars
      BY <3>1 DEF vars, control, MappedBusy, Writing
    <3> QED
      BY <2>2, <3>1, BusyWrites
  <2> QED
    BY <1>3, <2>1, <2>3
<1> QED
  BY <1>1, <1>2, <1>4

LEMMA CrashMaps ==
  ASSUME Crash
  PROVE  [Store!StoreNext]_(Store!svars)
<1>1. MappedStore' = MappedStore /\ MappedBusy' = None
  BY DiskUnchanged, BusyWrites DEF Crash, Idle, disk, Writing
<1> QED
  BY <1>1, StutterStep, EndStep

LEMMA EraseMaps ==
  ASSUME NEW k, CreateArchive(FALSE, k)
  PROVE  Store!StoreNext
<1>1. DOMAIN slots' = {}
  BY EmptyTables DEF CreateArchive
<1>2. ~Writing /\ ~Writing'
  BY DEF CreateArchive, Writing
<1> QED
  BY <1>1, <1>2, EmptyStoreNext, BusyWrites, EraseStep

LEMMA DropMaps ==
  ASSUME TypeOK, IInv, NEW i \in Index, Delete(i)
  PROVE  [Store!StoreNext]_(Store!svars)
<1>1. ~Writing /\ ~Writing'
  BY DEF Delete, Writable, control, Writing
<1>2. Writable /\ slots' = SlotsAfterDelete(i)
  BY DEF Delete
<1> QED
  BY <1>1, <1>2, BusyWrites, DeleteMaps, StutterStep, DropStep

LEMMA WriteMaps ==
  ASSUME TypeOK, IInv, NEW i \in Index, NEW h \in Announced, NEW fl, NEW n, NEW b,
         Writable, BeginWrite(i, h, fl, n, b)
  PROVE  [Store!StoreNext]_(Store!svars)
<1>1. slots' = SlotsAfterDelete(i) /\ Writing'
  BY DEF BeginWrite, Writing
<1>2. pend'.entry.index = i /\ pend'.entry.hash = h
  BY DEF BeginWrite, Place
<1>3. MappedBusy = None
  BY BusyWrites DEF Writable, Writing
<1>4. MappedBusy' = IF i # 0 THEN [index |-> i, hash |-> h] ELSE None
  BY <1>1, <1>2 DEF MappedBusy
<1> QED
  BY <1>1, <1>3, <1>4, DeleteMaps, StutterStep, ReplaceStep

LEMMA PublishMaps ==
  ASSUME TypeOK, IInv, PutHeader \/ PutPayload
  PROVE  [Store!StoreNext]_(Store!svars)
<1>1. Writing
  BY DEF PutHeader, PutPayload, Writing
<1>2. CASE PutHeader
  <2>1. MappedBusy' = MappedBusy
    BY <1>2 DEF PutHeader, MappedBusy, Writing
  <2>2. CASE MappedStore' = MappedStore
    BY <2>1, <2>2, StutterStep
  <2>3. CASE MappedStore' # MappedStore
    <3>1. PICK c \in Content :
            /\ pend.entry.index # 0 /\ HashOf[c] = pend.entry.hash
            /\ MappedStore' = [MappedStore EXCEPT ![pend.entry.index] = c]
      BY <1>2, <2>3, PutHeaderMaps
    <3>2. MappedBusy # None /\ MappedBusy.index = pend.entry.index
          /\ MappedBusy.hash = pend.entry.hash
      BY <1>1, <3>1, BusyWhileWriting
    <3>3. MappedStore' = [MappedStore EXCEPT ![MappedBusy.index] = c]
      BY <3>1, <3>2
    <3> QED
      BY <2>1, <3>1, <3>2, <3>3, PublishStep
  <2> QED
    BY <2>2, <2>3
<1>3. CASE PutPayload
  <2>1. MappedBusy' = None
    BY <1>3, BusyWrites DEF PutPayload, Idle, Writing
  <2>2. CASE pend.entry.index = 0
    BY <1>1, <1>3, <2>1, <2>2, PutPayloadMaps, BusyWhileWriting, StutterStep
  <2>3. CASE pend.entry.index # 0
    <3>1. MappedBusy # None /\ MappedBusy.index = pend.entry.index
          /\ MappedBusy.hash = pend.entry.hash
      BY <1>1, <2>3, BusyWhileWriting
    <3>2. CASE MappedStore' = [MappedStore EXCEPT ![pend.entry.index] = None]
      BY <2>1, <3>1, <3>2, SpoilStep
    <3>3. ASSUME NEW c \in Content, HashOf[c] = pend.entry.hash,
                 MappedStore' = [MappedStore EXCEPT ![pend.entry.index] = c]
          PROVE  Store!StoreNext
      BY <2>1, <3>1, <3>3, PublishStep
    <3> QED
      BY <1>3, <2>3, <3>2, <3>3, PutPayloadMaps
  <2> QED
    BY <2>2, <2>3
<1> QED
  BY <1>2, <1>3

LEMMA NextMaps ==
  TypeOK /\ IInv /\ [CrashNext]_vars => [Store!StoreNext]_(Store!svars)
<1> SUFFICES ASSUME TypeOK, IInv, [CrashNext]_vars
             PROVE  [Store!StoreNext]_(Store!svars)
  OBVIOUS
<1>1. ASSUME \/ UNCHANGED vars
             \/ \E append \in BOOLEAN, k \in Key : append /\ CreateArchive(append, k)
             \/ \E k \in Key : OpenArchive(k)
             \/ LoadHeader \/ LoadFails \/ Format \/ Pad
             \/ ScanEntry \/ ScanDone \/ ScanJunk \/ Unload \/ Extend
      PROVE  [Store!StoreNext]_(Store!svars)
  BY <1>1, QuietMaps
<1>2. ASSUME NEW append \in BOOLEAN, NEW k \in Key, CreateArchive(append, k)
      PROVE  [Store!StoreNext]_(Store!svars)
  BY <1>1, <1>2, EraseMaps
<1>3. ASSUME NEW i \in Index, NEW c \in Content, NEW fl \in FlagSets, Write(i, c, fl)
      PROVE  [Store!StoreNext]_(Store!svars)
  <2>1. HashOf[c] \in Announced
    BY DEF Announced
  <2> QED
    BY <1>3, <2>1, WriteMaps DEF Write
<1>7. ASSUME NEW r \in Raw, WriteRawData(r)
      PROVE  [Store!StoreNext]_(Store!svars)
  <2>1. r.index \in Index /\ r.hash \in Announced
    BY RawAssumption DEF RawRecord, Announced
  <2> QED
    BY <1>7, <2>1, WriteMaps DEF WriteRawData
<1>4. ASSUME NEW i \in Index, Delete(i) PROVE [Store!StoreNext]_(Store!svars)
  BY <1>4, DropMaps
<1>5. CASE Crash
  BY <1>5, CrashMaps
<1>6. CASE PutHeader \/ PutPayload
  BY <1>6, PublishMaps
<1> QED
  BY <1>1, <1>2, <1>3, <1>4, <1>5, <1>6, <1>7 DEF CrashNext, Next, Calls, Steps

\* Whatever crashes interrupt it, the archive is a map from names to contents
\* in which a replacement retires the old content and publishes one with the
\* announced hash, and every other file stays (Write, WriteRawData, Delete,
\* Load, Create and the death of the process between any two writes).
THEOREM Implements == CrashSpec => ImplementsStore
BY InitMaps, NextMaps, SafeAlways, PTL DEF CrashSpec, ImplementsStore, Store!StoreSpec
=============================================================================
