------------------------- MODULE VFSArchiveProofs -------------------------
(***************************************************************************)
(* What holds of VFSArchive for every set of names, contents and keys and  *)
(* every block, header and entry size, crashes included: the types, and    *)
(* then the safety of an archive: extents never overlap, a file is on the  *)
(* disk at most once, and what a loaded archive believes is what the disk  *)
(* says.                                                                   *)
(***************************************************************************)
EXTENDS VFSArchive, TLAPS

(* Sizes *)

LEMMA AlignToIsMultiple ==
  ASSUME NEW x \in Nat, NEW a \in Nat \ {0}
  PROVE  /\ AlignTo(x, a) = ((x \div a) + 1) * a
         /\ AlignTo(x, a) \in Nat
         /\ x < AlignTo(x, a)
<1>1. x = a * (x \div a) + (x % a) /\ x % a \in 0 .. a - 1 /\ x \div a \in Nat
  BY Z3
<1> QED
  BY <1>1, Z3 DEF AlignTo

LEMMA SizesAreNat ==
  /\ BytesPerBlock \in Nat \ {0} /\ HeaderSize \in Nat \ {0}
  /\ EntrySize \in Nat \ {0} /\ HeaderSize < BytesPerBlock
BY SizesAssumption

LEMMA FirstEntryIsOneBlock == FirstEntry = BytesPerBlock /\ FirstEntry \in Nat
<1>1. HeaderSize % BytesPerBlock = HeaderSize
  BY SizesAreNat, Z3
<1> QED
  BY <1>1, SizesAreNat DEF FirstEntry, AlignTo

\* An appended extent has at least one block and room for its payload.
LEMMA AppendFits ==
  ASSUME NEW n \in Nat
  PROVE  /\ BlocksFor(n) \in Nat
         /\ BlocksFor(n) * BytesPerBlock \in Nat
         /\ BlocksFor(n) * BytesPerBlock >= BytesPerBlock
         /\ EntrySize + n <= BlocksFor(n) * BytesPerBlock
<1> DEFINE x == n + EntrySize
           q == x \div BytesPerBlock
<1>1. x \in Nat /\ q \in Nat
  BY SizesAreNat, Z3
<1>2. AlignTo(x, BytesPerBlock) = (q + 1) * BytesPerBlock
      /\ x < AlignTo(x, BytesPerBlock) /\ AlignTo(x, BytesPerBlock) \in Nat
  BY <1>1, SizesAreNat, AlignToIsMultiple
<1>3. BlocksFor(n) = q + 1
  BY <1>1, <1>2, SizesAreNat, Z3 DEF BlocksFor
<1>4. (q + 1) * BytesPerBlock >= BytesPerBlock
  BY <1>1, SizesAreNat, Z3
<1> QED
  BY <1>1, <1>2, <1>3, <1>4, SizesAreNat

LEMMA ExtentNat ==
  ASSUME NEW e \in Entry
  PROVE  Extent(e) \in Nat
BY SizesAreNat, Z3 DEF Extent, Entry

-----------------------------------------------------------------------------
(* Entries, payloads and tables *)

LEMMA RecordsTyped ==
  ASSUME NEW c \in Content, NEW flags \in SUBSET Flag, NEW k \in Key \cup {None}
  PROVE  /\ HashOf[c] \in Nat
         /\ Effective(c, flags) \in SUBSET Flag
         /\ Stored(c, flags) \in Nat
         /\ Encode(c, flags, k) \in Blob
<1>1. HashOf[c] \in Nat /\ Packed(c, flags) \in Nat
  BY NamesAssumption, SizesAssumption DEF Packed
<1>2. AlignTo(Packed(c, flags), AesBlock) \in Nat
  BY <1>1, SizesAssumption, AlignToIsMultiple
<1> QED
  BY <1>1, <1>2 DEF Effective, Stored, Encode, Blob

LEMMA TombstoneTyped ==
  ASSUME NEW e \in Entry
  PROVE  /\ Tombstone(e) \in Entry
         /\ Tombstone(e).index = 0 /\ Tombstone(e).size = 0
         /\ Tombstone(e).pos = e.pos /\ Tombstone(e).blocks = e.blocks
         /\ Extent(Tombstone(e)) = Extent(e)
BY DEF Tombstone, Entry, Extent

LEMMA PlaceTyped ==
  ASSUME NEW s, s.pos \in Nat, s.blocks \in Nat,
         NEW i \in Index, NEW h \in Nat, NEW fl \in SUBSET Flag, NEW n \in Nat
  PROVE  /\ Place(s, i, h, fl, n) \in Entry
         /\ Place(s, i, h, fl, n).pos = s.pos
         /\ Place(s, i, h, fl, n).index = i
         /\ Place(s, i, h, fl, n).size = n
         /\ Extent(Place(s, i, h, fl, n)) = s.blocks * BytesPerBlock
BY DEF Place, Entry, Extent

LEMMA SetHdrFacts ==
  ASSUME NEW sl, sl \in [DOMAIN sl -> Slot], NEW p, NEW e \in Entry
  PROVE  /\ DOMAIN SetHdr(sl, p, e) = DOMAIN sl
         /\ SetHdr(sl, p, e) \in [DOMAIN sl -> Slot]
         /\ \A q \in DOMAIN sl :
              /\ SetHdr(sl, p, e)[q].len = sl[q].len
              /\ SetHdr(sl, p, e)[q].blob = sl[q].blob
              /\ q # p => SetHdr(sl, p, e)[q].hdr = sl[q].hdr
              /\ q = p => SetHdr(sl, p, e)[q].hdr = e
BY DEF SetHdr, Slot

LEMMA PutSlotFacts ==
  ASSUME NEW p, NEW s \in Slot, slots \in [DOMAIN slots -> Slot]
  PROVE  /\ DOMAIN PutSlot(p, s) = DOMAIN slots \cup {p}
         /\ PutSlot(p, s) \in [DOMAIN slots \cup {p} -> Slot]
         /\ PutSlot(p, s)[p] = s
         /\ \A q \in DOMAIN slots : q # p => PutSlot(p, s)[q] = slots[q]
BY DEF PutSlot

\* The records that Write and WriteRawData start with.
Begins ==
  \E i \in Index, h \in Nat, fl \in SUBSET Flag, n \in Nat, b \in Payload :
    BeginWrite(i, h, fl, n, b)

LEMMA WriteBegins ==
  ASSUME TypeOK, NEW i \in Index, NEW c \in Content, NEW flags \in FlagSets,
         Write(i, c, flags)
  PROVE  Writable /\ Begins
<1> DEFINE fl == Effective(c, flags)
<1>1. flags \in SUBSET Flag
  BY NamesAssumption
<1>2. fl \in SUBSET Flag /\ HashOf[c] \in Nat
  BY <1>1, RecordsTyped
<1>3. key \in Key \cup {None}
  BY DEF TypeOK
<1>4. Stored(c, fl) \in Nat /\ Encode(c, fl, key) \in Payload
  BY <1>2, <1>3, RecordsTyped DEF Payload
<1>5. Writable /\ BeginWrite(i, HashOf[c], fl, Stored(c, fl), Encode(c, fl, key))
  BY DEF Write
<1> QED
  BY <1>2, <1>4, <1>5 DEF Begins

LEMMA RawBegins ==
  ASSUME NEW r \in Raw, WriteRawData(r)
  PROVE  Writable /\ Begins
<1>1. /\ r.index \in Index /\ r.hash \in Nat /\ r.flags \in SUBSET Flag
      /\ r.size \in Nat /\ r.blob \in Payload
  BY RawAssumption DEF RawRecord
<1>2. Writable /\ BeginWrite(r.index, r.hash, r.flags, r.size, r.blob)
  BY DEF WriteRawData
<1> QED
  BY <1>1, <1>2 DEF Begins

-----------------------------------------------------------------------------
(* Type correctness *)

LEMMA EmptyTables ==
  /\ DOMAIN NoFiles = {} /\ NoFiles \in [DOMAIN NoFiles -> Entry]
  /\ DOMAIN NoSlots = {} /\ NoSlots \in [DOMAIN NoSlots -> Slot]
<1>1. DOMAIN NoFiles = {} /\ DOMAIN NoSlots = {}
  BY DEF NoFiles, NoSlots
<1>2. NoFiles \in [{} -> Entry] /\ NoSlots \in [{} -> Slot]
  BY DEF NoFiles, NoSlots
<1> QED
  BY <1>1, <1>2

LEMMA InitTyped == Init => TypeOK
<1> SUFFICES ASSUME Init PROVE TypeOK
  OBVIOUS
<1>1. formatted \in BOOLEAN
  BY DEF Init
<1>2. slots = NoSlots /\ files = NoFiles
  BY DEF Init
<1>3. DOMAIN slots = {} /\ slots \in [DOMAIN slots -> Slot]
      /\ DOMAIN files = {} /\ files \in [DOMAIN files -> Entry]
  BY <1>2, EmptyTables
<1> QED
  BY <1>1, <1>3, SizesAssumption DEF Init, TypeOK, Writing

LEMMA DeleteTyped ==
  ASSUME TypeOK, NEW i \in Index
  PROVE  /\ DOMAIN SlotsAfterDelete(i) = DOMAIN slots
         /\ SlotsAfterDelete(i) \in [DOMAIN slots -> Slot]
         /\ FreeAfterDelete(i) \subseteq Entry
         /\ DOMAIN Without(files, i) = DOMAIN files \ {i}
         /\ Without(files, i) \in [DOMAIN files \ {i} -> Entry]
<1>1. slots \in [DOMAIN slots -> Slot] /\ entries \subseteq Entry
      /\ files \in [DOMAIN files -> Entry]
  BY DEF TypeOK
<1>2. CASE i \in DOMAIN files
  <2>1. files[i] \in Entry
    BY <1>1, <1>2
  <2> QED
    BY <1>1, <1>2, <2>1, TombstoneTyped, SetHdrFacts
    DEF SlotsAfterDelete, FreeAfterDelete, Without
<1>3. CASE i \notin DOMAIN files
  BY <1>1, <1>3 DEF SlotsAfterDelete, FreeAfterDelete, Without
<1> QED
  BY <1>2, <1>3

LEMMA BeginWriteTyped ==
  ASSUME TypeOK, NEW i \in Index, NEW h \in Nat, NEW fl \in SUBSET Flag,
         NEW n \in Nat, NEW b \in Payload, BeginWrite(i, h, fl, n, b)
  PROVE  TypeOK'
<1>1. /\ DOMAIN slots' = DOMAIN slots /\ slots' \in [DOMAIN slots -> Slot]
      /\ entries' \subseteq Entry
      /\ DOMAIN files' = DOMAIN files \ {i}
      /\ files' \in [DOMAIN files \ {i} -> Entry]
  BY DeleteTyped DEF BeginWrite
<1>2. pend' \in [entry : Entry, blob : Payload] /\ pc' \in {"header", "extend"}
  <2>1. ASSUME NEW s \in BestFit(FreeAfterDelete(i), n), pc' = "header",
               pend' = [entry |-> Place(s, i, h, fl, n), blob |-> b]
        PROVE  pend' \in [entry : Entry, blob : Payload]
    <3>1. s \in Entry
      BY DeleteTyped DEF BestFit, Fitting
    <3>2. Place(s, i, h, fl, n) \in Entry
      BY <3>1, PlaceTyped DEF Entry
    <3> QED
      BY <2>1, <3>2
  <2>2. ASSUME pc' = "extend",
               pend' = [entry |-> Place([pos |-> fileSize, blocks |-> BlocksFor(n)],
                                        i, h, fl, n), blob |-> b]
        PROVE  pend' \in [entry : Entry, blob : Payload]
    <3> DEFINE s == [pos |-> fileSize, blocks |-> BlocksFor(n)]
    <3>1. s.pos \in Nat /\ s.blocks \in Nat
      BY AppendFits DEF TypeOK
    <3>2. Place(s, i, h, fl, n) \in Entry
      BY <3>1, PlaceTyped
    <3> QED
      BY <2>2, <3>2
  <2> QED
    BY <2>1, <2>2 DEF BeginWrite
<1>3. UNCHANGED <<formatted, fileSize, mode, key, scanPos>>
  BY DEF BeginWrite
<1> QED
  BY <1>1, <1>2, <1>3 DEF TypeOK, Writing

LEMMA NextTyped == TypeOK /\ [CrashNext]_vars => TypeOK'
<1> SUFFICES ASSUME TypeOK, [CrashNext]_vars PROVE TypeOK'
  OBVIOUS
<1>1. slots \in [DOMAIN slots -> Slot] /\ DOMAIN slots \subseteq Nat
      /\ files \in [DOMAIN files -> Entry] /\ entries \subseteq Entry
      /\ fileSize \in Nat /\ scanPos \in Nat
  BY DEF TypeOK
<1>2. ASSUME NEW k \in Key, NEW append \in BOOLEAN, CreateArchive(append, k)
      PROVE  TypeOK'
  <2>1. formatted' \in BOOLEAN /\ fileSize' \in Nat
    <3>1. CASE append
      BY <1>2, <3>1 DEF CreateArchive, TypeOK, disk
    <3>2. CASE ~append
      <4>1. formatted' = FALSE /\ fileSize' = 0
        BY <1>2, <3>2, Zenon DEF CreateArchive
      <4> QED
        BY <4>1
    <3> QED
      BY <3>1, <3>2
  <2>2. DOMAIN slots' \subseteq Nat /\ slots' \in [DOMAIN slots' -> Slot]
    BY <1>1, <1>2, EmptyTables DEF CreateArchive, disk
  <2> QED
    BY <1>2, <2>1, <2>2 DEF CreateArchive, TypeOK, Writing
<1>3. ASSUME NEW k \in Key, OpenArchive(k) PROVE TypeOK'
  BY <1>3, EmptyTables DEF OpenArchive, TypeOK, Writing, disk
<1>4. CASE LoadHeader
  BY <1>4, FirstEntryIsOneBlock DEF LoadHeader, TypeOK, Writing, disk, memory
<1>5. CASE LoadFails
  BY <1>5 DEF LoadFails, TypeOK, Writing, disk, Idle
<1>6. CASE Format
  <2>1. fileSize' \in Nat
    BY <1>1, <1>6, SizesAreNat DEF Format, AtLeast
  <2>2. DOMAIN slots' \subseteq Nat /\ slots' \in [DOMAIN slots' -> Slot]
    <3>1. CASE fileSize > FirstEntry
      <4> DEFINE s == [len |-> fileSize - FirstEntry, hdr |-> Junk, blob |-> Junk]
      <4>1. s \in Slot
        BY <1>1, <3>1, FirstEntryIsOneBlock DEF Slot, Payload
      <4>2. slots' = PutSlot(FirstEntry, s)
        BY <1>6, <3>1 DEF Format
      <4> HIDE DEF s
      <4>3. /\ DOMAIN PutSlot(FirstEntry, s) = DOMAIN slots \cup {FirstEntry}
            /\ PutSlot(FirstEntry, s) \in [DOMAIN slots \cup {FirstEntry} -> Slot]
        BY <1>1, <4>1, PutSlotFacts
      <4> QED
        BY <1>1, <4>2, <4>3, FirstEntryIsOneBlock
    <3>2. CASE ~(fileSize > FirstEntry)
      BY <1>1, <1>6, <3>2 DEF Format
    <3> QED
      BY <3>1, <3>2
  <2> QED
    BY <1>6, <2>1, <2>2 DEF Format, TypeOK, Writing, memory
<1>7. CASE Pad
  <2>1. fileSize' \in Nat
    BY <1>1, <1>7, FirstEntryIsOneBlock DEF Pad, AtLeast
  <2> QED
    BY <1>7, <2>1 DEF Pad, Idle, TypeOK, Writing, memory
<1>8. CASE ScanEntry
  <2> DEFINE e == slots[scanPos].hdr
  <2>1. e \in Entry
    BY <1>1, <1>8 DEF ScanEntry, Slot
  <2>2. scanPos' \in Nat
    BY <1>8, <2>1, ExtentNat DEF ScanEntry, Entry
  <2>3. e.index \in Index \cup {0}
    BY <2>1 DEF Entry
  <2>4. CASE e.index = 0
    BY <1>8, <2>1, <2>2, <2>4 DEF ScanEntry, TypeOK, Writing, disk
  <2>5. CASE e.index # 0
    <3>1. /\ DOMAIN files' = DOMAIN files \cup {e.index}
          /\ files' \in [DOMAIN files \cup {e.index} -> Entry]
      BY <1>1, <1>8, <2>1, <2>5 DEF ScanEntry, Emplace
    <3> QED
      BY <1>8, <2>2, <2>3, <2>5, <3>1 DEF ScanEntry, TypeOK, Writing, disk
  <2> QED
    BY <2>4, <2>5
<1>9. CASE ScanDone
  BY <1>9 DEF ScanDone, Idle, TypeOK, Writing, disk, memory
<1>10. CASE ScanJunk
  BY <1>10 DEF ScanJunk, TypeOK, Writing, disk, memory
<1>11. ASSUME NEW i \in Index, Delete(i) PROVE TypeOK'
  BY <1>11, DeleteTyped DEF Delete, Writable, TypeOK, Writing, control
<1>12. ASSUME \/ \E i \in Index, c \in Content, fl \in FlagSets : Write(i, c, fl)
              \/ \E r \in Raw : WriteRawData(r)
       PROVE  TypeOK'
  <2>1. Begins
    BY <1>12, WriteBegins, RawBegins
  <2> QED
    BY <2>1, BeginWriteTyped DEF Begins
<1>13. CASE Extend
  <2> DEFINE e == pend.entry
             s == [len |-> Extent(e), hdr |-> Junk, blob |-> Junk]
  <2>1. e \in Entry
    BY <1>13 DEF TypeOK, Extend, Writing
  <2>2. Extent(e) \in Nat /\ e.pos \in Nat /\ s \in Slot
    BY <2>1, ExtentNat DEF Entry, Slot, Payload
  <2>3. slots' = PutSlot(e.pos, s)
    BY <1>13 DEF Extend
  <2> HIDE DEF s
  <2>4. DOMAIN slots' = DOMAIN slots \cup {e.pos} /\ slots' \in [DOMAIN slots' -> Slot]
    BY <1>1, <2>2, <2>3, PutSlotFacts
  <2> QED
    BY <1>1, <1>13, <2>2, <2>4 DEF Extend, TypeOK, Writing, memory
<1>14. CASE PutHeader
  <2>1. pend.entry \in Entry
    BY <1>14 DEF TypeOK, PutHeader, Writing
  <2>2. DOMAIN slots' = DOMAIN slots /\ slots' \in [DOMAIN slots -> Slot]
    BY <1>1, <1>14, <2>1, SetHdrFacts DEF PutHeader
  <2> QED
    BY <1>14, <2>2 DEF PutHeader, TypeOK, Writing, memory
<1>15. CASE PutPayload
  <2>1. pend.entry \in Entry /\ pend.blob \in Payload
    BY <1>15 DEF TypeOK, PutPayload, Writing
  <2>2. DOMAIN slots' = DOMAIN slots /\ slots' \in [DOMAIN slots -> Slot]
    BY <1>1, <1>15, <2>1 DEF PutPayload, BlobPut, Slot
  <2>3. /\ DOMAIN files' = DOMAIN files \cup {pend.entry.index}
        /\ files' \in [DOMAIN files' -> Entry]
    BY <1>1, <1>15, <2>1 DEF PutPayload, BlobPut, Emplace
  <2>4. pend.entry.index \in Index \cup {0}
    BY <2>1 DEF Entry
  <2> QED
    BY <1>1, <1>15, <2>2, <2>3, <2>4 DEF PutPayload, BlobPut, Idle, TypeOK, Writing
<1>16. CASE Unload \/ Crash
  <2>1. files' = NoFiles /\ entries' = {} /\ mode' = "NONE" /\ key' = None
    BY <1>16 DEF Unload, Crash, Forget
  <2>2. pc' = "idle" /\ pend' = None /\ scanPos' \in Nat
    BY <1>16 DEF Unload, Crash, Idle, control, TypeOK, Writing
  <2>3. UNCHANGED <<formatted, fileSize, slots>>
    BY <1>16 DEF Unload, Crash, disk
  <2> QED
    BY <2>1, <2>2, <2>3, EmptyTables DEF TypeOK, Writing
<1>17. CASE UNCHANGED vars
  BY <1>17 DEF TypeOK, Writing, vars, disk, memory, control
<1> QED
  BY <1>2, <1>3, <1>4, <1>5, <1>6, <1>7, <1>8, <1>9, <1>10, <1>11, <1>12,
     <1>13, <1>14, <1>15, <1>16, <1>17
  DEF CrashNext, Next, Calls, Steps

\* Whatever is called, in whatever order and wherever the process dies, the
\* tables, the extents and the position of the running call stay well formed:
\* no call is left with a half-built entry in its hands.
THEOREM TypeCorrect == CrashSpec => []TypeOK
BY InitTyped, NextTyped, PTL DEF CrashSpec

-----------------------------------------------------------------------------
(* The parts of the invariant that only the disk decides *)

DiskSafe == Layout /\ UniqueLive /\ LowSlots

LEMMA DiskKept == DiskSafe /\ UNCHANGED disk => DiskSafe'
BY DEF DiskSafe, Layout, UniqueLive, LowSlots, Live, disk

\* Writing an entry over the one of its own extent keeps the extents apart.
LEMMA HeaderKeepsLayout ==
  ASSUME TypeOK, Layout, LowSlots, UNCHANGED fileSize,
         NEW p \in DOMAIN slots, NEW e \in Entry, e.pos = p,
         Extent(e) = slots[p].len, EntrySize + e.size <= slots[p].len,
         slots' = SetHdr(slots, p, e)
  PROVE  Layout' /\ LowSlots'
<1>1. /\ DOMAIN slots' = DOMAIN slots
      /\ \A q \in DOMAIN slots :
           /\ slots'[q].len = slots[q].len
           /\ q # p => slots'[q].hdr = slots[q].hdr
           /\ q = p => slots'[q].hdr = e
  BY SetHdrFacts DEF TypeOK
<1>2. Layout'
  BY <1>1 DEF Layout
<1>3. LowSlots'
  BY <1>1 DEF LowSlots
<1> QED
  BY <1>2, <1>3

\* A new extent at the end of the file overlaps none, and if it starts in
\* the first block it reaches beyond it.
LEMMA AppendKeepsLayout ==
  ASSUME TypeOK, Layout, LowSlots, UniqueLive, NEW n \in Nat, HeaderSize <= fileSize,
         BytesPerBlock <= n,
         slots' = PutSlot(fileSize, [len |-> n, hdr |-> Junk, blob |-> Junk]),
         fileSize' = fileSize + n
  PROVE  DiskSafe' /\ \A q \in DOMAIN slots : slots'[q] = slots[q]
<1> DEFINE s == [len |-> n, hdr |-> Junk, blob |-> Junk]
<1>1. /\ fileSize \in Nat /\ DOMAIN slots \subseteq Nat
      /\ slots \in [DOMAIN slots -> Slot]
      /\ \A q \in DOMAIN slots : slots[q].len \in Nat
  BY DEF TypeOK, Slot
<1>2. s \in Slot /\ s.len = n /\ s.hdr = Junk
  BY DEF Slot, Payload
<1>3. \A q \in DOMAIN slots : q # fileSize
  BY <1>1, SizesAreNat DEF Layout
<1>4. slots' = PutSlot(fileSize, s)
  OBVIOUS
<1> HIDE DEF s
<1>5. /\ DOMAIN slots' = DOMAIN slots \cup {fileSize}
      /\ slots'[fileSize] = s
      /\ \A q \in DOMAIN slots : slots'[q] = slots[q]
  <2>1. /\ DOMAIN PutSlot(fileSize, s) = DOMAIN slots \cup {fileSize}
        /\ PutSlot(fileSize, s)[fileSize] = s
        /\ \A q \in DOMAIN slots : q # fileSize => PutSlot(fileSize, s)[q] = slots[q]
    BY <1>1, <1>2 DEF PutSlot
  <2> QED
    BY <1>3, <1>4, <2>1
<1>6. Layout'
  BY <1>1, <1>2, <1>5, SizesAreNat DEF Layout
<1>7. LowSlots'
  BY <1>1, <1>2, <1>5, SizesAreNat, FirstEntryIsOneBlock DEF LowSlots
<1>8. UniqueLive'
  BY <1>2, <1>5 DEF UniqueLive, Live
<1> QED
  BY <1>5, <1>6, <1>7, <1>8 DEF DiskSafe

-----------------------------------------------------------------------------
(* Delete, alone and as the first part of a Write *)

\* After the old version of file i is gone, the tables and the disk agree.
FreeMatches == \A e \in entries : /\ e.index = 0 /\ e.pos \in DOMAIN slots
                                  /\ slots[e.pos].hdr = e
AllFaithful == \A p \in DOMAIN slots : Faithful(p)

LEMMA DeleteEffect ==
  ASSUME TypeOK, IInv, Writable, NEW i \in Index,
         slots' = SlotsAfterDelete(i), entries' = FreeAfterDelete(i),
         files' = Without(files, i), UNCHANGED fileSize
  PROVE  /\ DiskSafe' /\ FilesOnDisk' /\ FreeMatches' /\ AllFaithful'
         /\ DOMAIN slots' = DOMAIN slots
         /\ i \notin DOMAIN files'
<1>1. /\ Layout /\ UniqueLive /\ LowSlots /\ FilesOnDisk
      /\ FreeMatches /\ AllFaithful
  BY DEF IInv, Coherent, FreeOnDisk, NothingMissed, FreeMatches, AllFaithful,
         Writable, Loaded, Writing
<1>2. CASE i \notin DOMAIN files
  <2>1. slots' = slots /\ entries' = entries
    BY <1>2 DEF SlotsAfterDelete, FreeAfterDelete
  <2>2. files' = files
    BY <1>2 DEF Without, TypeOK
  <2> QED
    BY <1>1, <1>2, <2>1, <2>2
    DEF DiskSafe, Layout, UniqueLive, LowSlots, Live, FilesOnDisk, FreeMatches,
        AllFaithful, Faithful
<1>3. CASE i \in DOMAIN files
  <2> DEFINE f == files[i]
             t == Tombstone(f)
  <2>1. f \in Entry /\ files \in [DOMAIN files -> Entry]
    BY <1>3 DEF TypeOK
  <2>2. /\ t \in Entry /\ t.index = 0 /\ t.size = 0 /\ t.pos = f.pos
        /\ Extent(t) = Extent(f)
    BY <2>1, TombstoneTyped
  <2>3. /\ f.index = i /\ f.pos \in DOMAIN slots /\ slots[f.pos].hdr = f
        /\ \A e \in entries : e.pos # f.pos
    BY <1>1, <1>3 DEF FilesOnDisk
  <2>4. /\ slots' = SetHdr(slots, f.pos, t) /\ entries' = entries \cup {t}
    BY <1>3 DEF SlotsAfterDelete, FreeAfterDelete
  <2>5. DOMAIN files' = DOMAIN files \ {i} /\ \A j \in DOMAIN files' : files'[j] = files[j]
    BY DEF Without
  <2>6. f # Junk
    BY <2>1, SentinelsAssumption
  <2>7. /\ f.pos = t.pos /\ Extent(t) = slots[f.pos].len
        /\ EntrySize + t.size <= slots[f.pos].len
    <3>1. Extent(f) = slots[f.pos].len /\ EntrySize + f.size <= slots[f.pos].len
      BY <1>1, <2>3, <2>6 DEF Layout
    <3>2. f.size \in Nat
      BY <2>1 DEF Entry
    <3>3. slots[f.pos].len \in Nat
      BY <2>3 DEF TypeOK, Slot
    <3> HIDE DEF t, f
    <3> QED
      BY <2>2, <3>1, <3>2, <3>3, SizesAreNat
  <2> HIDE DEF t
  <2>8. /\ DOMAIN slots' = DOMAIN slots
        /\ slots'[f.pos].hdr = t
        /\ \A q \in DOMAIN slots : q # f.pos => slots'[q].hdr = slots[q].hdr
    BY <2>2, <2>3, <2>4, SetHdrFacts DEF TypeOK
  <2>9. Layout' /\ LowSlots'
    BY <1>1, <2>2, <2>3, <2>4, <2>7, HeaderKeepsLayout
  <2>10. UniqueLive'
    BY <1>1, <2>2, <2>8 DEF UniqueLive, Live
  <2>11. \A j \in DOMAIN files' : files[j].pos # f.pos
    BY <1>1, <2>3, <2>5 DEF FilesOnDisk
  <2>12. FilesOnDisk'
    BY <1>1, <2>2, <2>4, <2>5, <2>8, <2>11 DEF FilesOnDisk
  <2>13. FreeMatches'
    BY <1>1, <2>2, <2>3, <2>4, <2>8 DEF FreeMatches
  <2>14. ASSUME NEW p \in DOMAIN slots' PROVE Faithful(p)'
    <3>1. CASE p = f.pos
      BY <2>2, <2>4, <2>8, <3>1 DEF Faithful
    <3>2. CASE p # f.pos
      <4>1. slots'[p].hdr = slots[p].hdr /\ p \in DOMAIN slots
        BY <2>8, <3>2
      <4>2. CASE slots[p].hdr = Junk
        BY <4>1, <4>2 DEF Faithful
      <4>3. CASE slots[p].hdr # Junk /\ slots[p].hdr.index = i
        <5>1. slots[p].hdr.pos = p
          BY <1>1, <4>1, <4>3 DEF Layout
        <5>2. slots[p].hdr # f
          BY <3>2, <5>1
        <5>3. slots[p].hdr.index = 0 /\ slots[p].hdr \in entries
          BY <1>1, <4>1, <4>3, <5>2 DEF AllFaithful, Faithful
        <5> QED
          BY <2>4, <4>1, <5>3 DEF Faithful
      <4>4. CASE slots[p].hdr # Junk /\ slots[p].hdr.index # i
        BY <1>1, <2>4, <2>5, <4>1, <4>4 DEF AllFaithful, Faithful
      <4> QED
        BY <4>2, <4>3, <4>4
    <3> QED
      BY <3>1, <3>2
  <2> QED
    BY <2>5, <2>8, <2>9, <2>10, <2>12, <2>13, <2>14 DEF DiskSafe, AllFaithful
<1> QED
  BY <1>2, <1>3

LEMMA DeleteKeeps ==
  ASSUME TypeOK, IInv, NEW i \in Index, Delete(i)
  PROVE  IInv'
<1>1. /\ DiskSafe' /\ FilesOnDisk' /\ FreeMatches' /\ AllFaithful'
      /\ DOMAIN slots' = DOMAIN slots
  BY DeleteEffect DEF Delete
<1>2. /\ pc = "idle" /\ pc' = "idle" /\ mode' = "OUTPUT" /\ mode = "OUTPUT"
      /\ UNCHANGED <<formatted, fileSize>>
  BY DEF Delete, Writable, control
<1>3. Coherent'
  BY <1>1, <1>2 DEF Coherent, FreeOnDisk, FreeMatches, NothingMissed, AllFaithful
<1>4. InFlight' /\ Scanning'
  BY <1>2 DEF InFlight, Scanning, Writing
<1>5. Formatting'
  BY <1>1, <1>2 DEF IInv, Formatting
<1> QED
  BY <1>1, <1>3, <1>4, <1>5 DEF IInv, DiskSafe

LEMMA BeginWriteKeeps ==
  ASSUME TypeOK, IInv, Writable, NEW i \in Index, NEW h \in Nat,
         NEW fl \in SUBSET Flag, NEW n \in Nat, NEW b \in Payload,
         BeginWrite(i, h, fl, n, b)
  PROVE  IInv'
<1>1. /\ DiskSafe' /\ FilesOnDisk' /\ FreeMatches' /\ AllFaithful'
      /\ DOMAIN slots' = DOMAIN slots /\ i \notin DOMAIN files'
      /\ entries' = FreeAfterDelete(i)
  BY DeleteEffect DEF BeginWrite
<1>2. /\ pc = "idle" /\ mode' = "OUTPUT" /\ mode = "OUTPUT"
      /\ UNCHANGED <<formatted, fileSize>>
  BY DEF BeginWrite, Writable
<1>3. TypeOK'
  BY BeginWriteTyped
<1>4. Formatting'
  BY <1>1, <1>2 DEF IInv, Formatting, BeginWrite
<1>5. pc' \in {"header", "extend"}
  BY DEF BeginWrite
<1>6. Coherent' /\ Scanning'
  BY <1>1, <1>5 DEF Coherent, FreeOnDisk, FreeMatches, NothingMissed,
                    AllFaithful, Scanning
<1>7. InFlight'
  <2>1. ASSUME NEW s \in BestFit(FreeAfterDelete(i), n), pc' = "header",
               pend' = [entry |-> Place(s, i, h, fl, n), blob |-> b]
        PROVE  InFlight'
    <3> DEFINE e == Place(s, i, h, fl, n)
    <3>1. s \in entries' /\ n + EntrySize <= Extent(s)
      BY <1>1 DEF BestFit, Fitting
    <3>2. s \in Entry /\ s.pos \in Nat /\ s.blocks \in Nat
      BY <1>3, <3>1 DEF TypeOK, Entry
    <3>3. /\ e.pos = s.pos /\ e.index = i /\ e.size = n
          /\ Extent(e) = s.blocks * BytesPerBlock
      BY <3>2, PlaceTyped
    <3>4. Extent(e) = Extent(s)
      BY <3>3 DEF Extent
    <3>5. pend'.entry = e
      BY <2>1
    <3> HIDE DEF e
    <3>6. s.index = 0 /\ s.pos \in DOMAIN slots' /\ slots'[s.pos].hdr = s
      BY <1>1, <3>1 DEF FreeMatches
    <3>7. slots'[s.pos].len = Extent(s)
      BY <1>1, <3>2, <3>6, SentinelsAssumption DEF DiskSafe, Layout
    <3>8. Extent(s) \in Nat
      BY <3>2, ExtentNat
    <3>9. \A j \in DOMAIN files' : files'[j].pos # s.pos
      BY <1>1, <3>1 DEF FilesOnDisk
    <3> QED
      BY <1>1, <1>2, <2>1, <3>1, <3>3, <3>4, <3>5, <3>6, <3>7, <3>8, <3>9,
         SizesAreNat
      DEF InFlight, Writing, Live
  <2>2. ASSUME pc' = "extend",
               pend' = [entry |-> Place([pos |-> fileSize, blocks |-> BlocksFor(n)],
                                        i, h, fl, n), blob |-> b]
        PROVE  InFlight'
    <3> DEFINE s == [pos |-> fileSize, blocks |-> BlocksFor(n)]
               e == Place(s, i, h, fl, n)
    <3>1. s.pos = fileSize /\ s.pos \in Nat /\ s.blocks = BlocksFor(n) /\ s.blocks \in Nat
      BY AppendFits DEF TypeOK
    <3>2. /\ e.pos = fileSize /\ e.index = i /\ e.size = n
          /\ Extent(e) = BlocksFor(n) * BytesPerBlock
      BY <3>1, PlaceTyped
    <3>3. pend'.entry = e
      BY <2>2
    <3> HIDE DEF s, e
    <3>4. EntrySize + n <= Extent(e) /\ BytesPerBlock <= Extent(e)
      BY <3>2, AppendFits, SizesAreNat
    <3>5. \A j \in DOMAIN files' : files'[j].pos # fileSize
      <4> SUFFICES ASSUME NEW j \in DOMAIN files' PROVE files'[j].pos # fileSize
        OBVIOUS
      <4>1. files'[j].pos \in DOMAIN slots'
        BY <1>1 DEF FilesOnDisk
      <4>2. files'[j].pos \in Nat /\ slots'[files'[j].pos].len \in Nat
        BY <1>3, <4>1 DEF TypeOK, Slot
      <4> QED
        BY <1>1, <1>2, <4>1, <4>2 DEF DiskSafe, Layout, TypeOK
    <3> QED
      BY <1>1, <1>2, <2>2, <3>2, <3>3, <3>4, <3>5 DEF InFlight, Writing
  <2> QED
    BY <2>1, <2>2 DEF BeginWrite
<1> QED
  BY <1>1, <1>4, <1>6, <1>7 DEF IInv, DiskSafe

-----------------------------------------------------------------------------
(* The other steps of a Write *)

LEMMA ExtendKeeps ==
  ASSUME TypeOK, IInv, Extend
  PROVE  IInv'
<1> DEFINE e == pend.entry
           n == Extent(e)
<1>1. /\ pc = "extend" /\ pc' = "header" /\ mode = "OUTPUT" /\ pend' = pend
      /\ UNCHANGED <<formatted, mode, files, entries>>
  BY DEF Extend, IInv, InFlight, Writing, memory
<1>2. e \in Entry /\ n \in Nat
  BY <1>1, ExtentNat DEF TypeOK, Writing
<1>3. e.pos = fileSize /\ BytesPerBlock <= n /\ HeaderSize <= fileSize /\ formatted
  BY <1>1 DEF IInv, InFlight, Formatting
<1>4. /\ slots' = PutSlot(fileSize, [len |-> n, hdr |-> Junk, blob |-> Junk])
      /\ fileSize' = fileSize + n
  BY <1>3 DEF Extend
<1> HIDE DEF n, e
<1>5. DiskSafe' /\ \A q \in DOMAIN slots : slots'[q] = slots[q]
  BY <1>2, <1>3, <1>4, AppendKeepsLayout DEF IInv
<1>6. /\ DOMAIN slots' = DOMAIN slots \cup {fileSize}
      /\ slots'[fileSize] = [len |-> n, hdr |-> Junk, blob |-> Junk]
  BY <1>4 DEF PutSlot
<1>7. Coherent'
  <2>1. FilesOnDisk' /\ FreeOnDisk'
    BY <1>1, <1>5, <1>6 DEF IInv, Coherent, FilesOnDisk, FreeOnDisk
  <2>2. NothingMissed'
    BY <1>1, <1>3, <1>5, <1>6
    DEF IInv, Coherent, NothingMissed, Loaded, Writing, Faithful, e
  <2> QED
    BY <2>1, <2>2 DEF Coherent
<1>8. InFlight'
  BY <1>1, <1>3, <1>5, <1>6 DEF IInv, InFlight, Writing, Live, e, n
<1>9. Formatting' /\ Scanning'
  <2>1. HeaderSize <= fileSize'
    BY <1>2, <1>3, <1>4, SizesAreNat DEF TypeOK
  <2> QED
    BY <1>1, <1>3, <2>1 DEF Formatting, Scanning
<1> QED
  BY <1>5, <1>7, <1>8, <1>9 DEF IInv, DiskSafe

LEMMA PutHeaderKeeps ==
  ASSUME TypeOK, IInv, PutHeader
  PROVE  IInv'
<1> DEFINE e == pend.entry
<1>1. /\ pc = "header" /\ pc' = "payload" /\ mode = "OUTPUT"
      /\ UNCHANGED <<formatted, fileSize, mode, files, entries, pend>>
      /\ slots' = SetHdr(slots, e.pos, e)
  BY DEF PutHeader, IInv, InFlight, Writing, memory
<1>2. e \in Entry /\ e # Junk
  BY <1>1, SentinelsAssumption DEF TypeOK, Writing
<1>3. /\ e.pos \in DOMAIN slots /\ slots[e.pos].len = Extent(e)
      /\ EntrySize + e.size <= Extent(e)
      /\ e.index \notin DOMAIN files /\ ~Live(e.pos)
      /\ \A i \in DOMAIN files : files[i].pos # e.pos
  BY <1>1 DEF IInv, InFlight, Writing
<1>4. pend' = pend
  BY <1>1
<1> HIDE DEF e
<1>5. /\ DOMAIN slots' = DOMAIN slots
      /\ slots'[e.pos].hdr = e
      /\ \A q \in DOMAIN slots : /\ slots'[q].len = slots[q].len
                                 /\ q # e.pos => slots'[q].hdr = slots[q].hdr
  BY <1>1, <1>2, <1>3, SetHdrFacts DEF TypeOK
<1>6. Layout' /\ LowSlots'
  BY <1>1, <1>2, <1>3, HeaderKeepsLayout DEF IInv
<1>7. \A q \in DOMAIN slots : q # e.pos /\ Live(q) => slots[q].hdr.index # e.index
  BY <1>1, <1>3 DEF IInv, Coherent, NothingMissed, Loaded, Writing, Faithful, Live, e
<1>8. UniqueLive'
  BY <1>5, <1>7 DEF IInv, UniqueLive, Live
<1>9. Coherent'
  <2>1. FilesOnDisk'
    BY <1>1, <1>3, <1>5 DEF IInv, Coherent, FilesOnDisk
  <2>2. FreeOnDisk'
    BY <1>1, <1>4, <1>5 DEF IInv, Coherent, FreeOnDisk, e
  <2>3. NothingMissed'
    BY <1>1, <1>4, <1>5
    DEF IInv, Coherent, NothingMissed, Loaded, Writing, Faithful, e
  <2> QED
    BY <2>1, <2>2, <2>3 DEF Coherent
<1>10. InFlight'
  BY <1>1, <1>3, <1>4, <1>5 DEF IInv, InFlight, Writing, e
<1>11. Formatting' /\ Scanning'
  BY <1>1, <1>5 DEF IInv, Formatting, Scanning
<1> QED
  BY <1>6, <1>8, <1>9, <1>10, <1>11 DEF IInv

LEMMA PutPayloadKeeps ==
  ASSUME TypeOK, IInv, PutPayload
  PROVE  IInv'
<1> DEFINE e == pend.entry
<1>1. /\ pc = "payload" /\ pc' = "idle" /\ mode = "OUTPUT" /\ pend' = None
      /\ UNCHANGED <<formatted, fileSize, mode>>
      /\ entries' = {f \in entries : f.pos # e.pos}
      /\ files' = Emplace(files, e.index, e)
  BY DEF PutPayload, BlobPut, IInv, InFlight, Writing, Idle
<1>2. /\ e.pos \in DOMAIN slots /\ slots[e.pos].hdr = e
      /\ e.index \notin DOMAIN files
      /\ \A i \in DOMAIN files : files[i].pos # e.pos
  BY <1>1 DEF IInv, InFlight, Writing
<1>3. /\ DOMAIN slots' = DOMAIN slots
      /\ \A q \in DOMAIN slots : /\ slots'[q].len = slots[q].len
                                 /\ slots'[q].hdr = slots[q].hdr
  BY DEF PutPayload, BlobPut, TypeOK, Slot
<1>4. \A f \in entries : f.pos # e.pos => slots[f.pos].hdr = f
  BY <1>1 DEF IInv, Coherent, FreeOnDisk
<1> HIDE DEF e
<1>5. /\ DOMAIN files' = DOMAIN files \cup {e.index} /\ files'[e.index] = e
      /\ \A i \in DOMAIN files : files'[i] = files[i]
  BY <1>1, <1>2 DEF Emplace
<1>6. Layout' /\ UniqueLive' /\ LowSlots'
  BY <1>1, <1>3 DEF IInv, Layout, UniqueLive, LowSlots, Live
<1>7. Coherent'
  <2>1. FilesOnDisk'
    BY <1>1, <1>2, <1>3, <1>5 DEF IInv, Coherent, FilesOnDisk
  <2>2. FreeOnDisk'
    BY <1>1, <1>3, <1>4 DEF IInv, Coherent, FreeOnDisk
  <2>3. NothingMissed'
    <3> SUFFICES ASSUME NEW p \in DOMAIN slots' PROVE Faithful(p)'
      BY DEF NothingMissed
    <3>1. CASE p = e.pos
      BY <1>2, <1>3, <1>5, <3>1 DEF Faithful
    <3>2. CASE p # e.pos
      <4>1. Faithful(p)
        BY <1>1, <1>3, <3>2 DEF IInv, Coherent, NothingMissed, Loaded, Writing, e
      <4>2. slots[p].hdr # Junk => slots[p].hdr.pos = p
        BY <1>3 DEF IInv, Layout
      <4> QED
        BY <1>1, <1>3, <1>5, <3>2, <4>1, <4>2 DEF Faithful
    <3> QED
      BY <3>1, <3>2
  <2> QED
    BY <2>1, <2>2, <2>3 DEF Coherent
<1>8. InFlight' /\ Scanning'
  BY <1>1 DEF InFlight, Writing, Scanning
<1>9. Formatting'
  BY <1>1, <1>3 DEF IInv, Formatting
<1> QED
  BY <1>6, <1>7, <1>8, <1>9 DEF IInv

-----------------------------------------------------------------------------
(* Opening, creating, loading and letting go *)

\* With empty tables, and no call under way that has loaded anything, the
\* object believes nothing that could be wrong.
LEMMA NothingBelieved ==
  ASSUME DOMAIN files' = {}, entries' = {},
         mode' = "NONE" \/ pc' \in {"load", "pad"},
         pc' \in {"idle", "load", "pad"}
  PROVE  Coherent' /\ InFlight' /\ Scanning'
BY DEF Coherent, FilesOnDisk, FreeOnDisk, NothingMissed, Loaded, InFlight,
       Scanning, Writing

LEMMA CreateArchiveKeeps ==
  ASSUME TypeOK, IInv, NEW k \in Key, NEW append \in BOOLEAN, CreateArchive(append, k)
  PROVE  IInv'
<1>1. /\ pc = "idle" /\ mode = "NONE" /\ mode' = "OUTPUT" /\ pc' = "load"
      /\ files' = files /\ entries' = entries
  BY DEF CreateArchive
<1>2. DOMAIN files' = {} /\ entries' = {}
  BY <1>1 DEF IInv, Formatting
<1>3. Coherent' /\ InFlight' /\ Scanning'
  BY <1>1, <1>2, NothingBelieved
<1>4. CASE append
  <2>1. UNCHANGED disk
    BY <1>4, Zenon DEF CreateArchive
  <2>2. DiskSafe'
    BY <2>1, DiskKept DEF IInv, DiskSafe
  <2>3. Formatting'
    BY <1>1, <1>2, <2>1 DEF IInv, Formatting, disk
  <2> QED
    BY <1>3, <2>2, <2>3 DEF IInv, DiskSafe
<1>5. CASE ~append
  <2>1. formatted' = FALSE /\ slots' = NoSlots
    BY <1>5, Zenon DEF CreateArchive
  <2>2. DOMAIN slots' = {}
    BY <2>1, EmptyTables
  <2>3. Layout' /\ UniqueLive' /\ LowSlots'
    BY <2>2 DEF Layout, UniqueLive, LowSlots
  <2>4. Formatting'
    BY <1>1, <1>2, <2>1, <2>2 DEF Formatting
  <2> QED
    BY <1>3, <2>3, <2>4 DEF IInv
<1> QED
  BY <1>4, <1>5

LEMMA OpenArchiveKeeps ==
  ASSUME IInv, NEW k \in Key, OpenArchive(k)
  PROVE  IInv'
<1>1. /\ mode' = "INPUT" /\ pc' = "load" /\ DOMAIN files' = {} /\ entries' = {}
      /\ UNCHANGED disk
  BY EmptyTables DEF OpenArchive
<1>2. DiskSafe'
  BY <1>1, DiskKept DEF IInv, DiskSafe
<1>3. Formatting'
  BY <1>1 DEF IInv, Formatting, disk
<1> QED
  BY <1>1, <1>2, <1>3, NothingBelieved DEF IInv, DiskSafe

LEMMA LoadHeaderKeeps == IInv /\ TypeOK /\ LoadHeader => IInv'
<1> SUFFICES ASSUME IInv, TypeOK, LoadHeader PROVE IInv'
  OBVIOUS
<1>1. /\ pc = "load" /\ formatted /\ pc' = "scan" /\ scanPos' = FirstEntry
      /\ UNCHANGED <<disk, memory>>
      /\ DOMAIN files' = {} /\ entries' = {}
  BY DEF LoadHeader, IInv, Formatting, memory
<1>2. DiskSafe'
  BY <1>1, DiskKept DEF IInv, DiskSafe
<1>3. Coherent' /\ InFlight'
  BY <1>1 DEF Coherent, FilesOnDisk, FreeOnDisk, NothingMissed, Loaded, InFlight,
              Writing
<1>4. Formatting'
  BY <1>1 DEF IInv, Formatting, disk, memory
<1>5. Scanning'
  BY <1>1, FirstEntryIsOneBlock DEF Scanning, TypeOK, disk
<1> QED
  BY <1>2, <1>3, <1>4, <1>5 DEF IInv, DiskSafe

LEMMA LoadFailsKeeps == IInv /\ LoadFails => IInv'
<1> SUFFICES ASSUME IInv, LoadFails PROVE IInv'
  OBVIOUS
<1>1. /\ pc = "load" /\ ~formatted /\ pc' = "idle" /\ mode' # "OUTPUT"
      /\ UNCHANGED disk
      /\ DOMAIN files' = {} /\ entries' = {} /\ DOMAIN slots' = {}
  BY DEF LoadFails, Idle, IInv, Formatting, disk
<1>2. DiskSafe'
  BY <1>1, DiskKept DEF IInv, DiskSafe
<1>3. Coherent' /\ InFlight' /\ Scanning'
  BY <1>1 DEF Coherent, FilesOnDisk, FreeOnDisk, NothingMissed, InFlight,
              Writing, Scanning
<1>4. Formatting'
  BY <1>1 DEF IInv, Formatting, disk
<1> QED
  BY <1>2, <1>3, <1>4 DEF IInv, DiskSafe

LEMMA FormatKeeps == IInv /\ TypeOK /\ Format => IInv'
<1> SUFFICES ASSUME IInv, TypeOK, Format PROVE IInv'
  OBVIOUS
<1>1. /\ pc = "load" /\ ~formatted /\ mode = "OUTPUT" /\ pc' = "pad"
      /\ formatted' = TRUE /\ fileSize' = AtLeast(fileSize, HeaderSize)
      /\ UNCHANGED memory /\ DOMAIN slots = {}
  BY DEF Format, IInv, Formatting
<1>2. DOMAIN files' = {} /\ entries' = {} /\ mode' = "OUTPUT"
  BY <1>1 DEF IInv, Formatting, memory
<1>3. fileSize \in Nat /\ HeaderSize <= fileSize' /\ fileSize <= fileSize'
  BY <1>1, SizesAreNat DEF AtLeast, TypeOK
<1>4. \A p \in DOMAIN slots' :
        /\ p = FirstEntry /\ fileSize > FirstEntry
        /\ slots'[p].len = fileSize - FirstEntry /\ slots'[p].hdr = Junk
  BY <1>1 DEF Format, PutSlot
<1>5. Layout' /\ LowSlots' /\ UniqueLive'
  BY <1>3, <1>4, FirstEntryIsOneBlock, SizesAreNat
  DEF Layout, LowSlots, UniqueLive, Live
<1>6. Coherent' /\ InFlight' /\ Scanning'
  BY <1>1, <1>2, NothingBelieved
<1>7. Formatting'
  BY <1>1, <1>2, <1>3, <1>4 DEF Formatting
<1> QED
  BY <1>5, <1>6, <1>7 DEF IInv

LEMMA PadKeeps == IInv /\ TypeOK /\ Pad => IInv'
<1> SUFFICES ASSUME IInv, TypeOK, Pad PROVE IInv'
  OBVIOUS
<1>1. /\ pc = "pad" /\ pc' = "idle" /\ fileSize' = AtLeast(fileSize, FirstEntry)
      /\ UNCHANGED <<formatted, slots, memory>>
  BY DEF Pad, Idle
<1>2. fileSize \in Nat /\ fileSize <= fileSize' /\ fileSize' \in Nat
  BY <1>1, FirstEntryIsOneBlock DEF AtLeast, TypeOK
<1>3. \A p \in DOMAIN slots : p \in Nat /\ slots[p].len \in Nat
  BY DEF TypeOK, Slot
<1>4. Layout'
  BY <1>1, <1>2, <1>3 DEF IInv, Layout
<1>5. LowSlots' /\ UniqueLive'
  BY <1>1 DEF IInv, LowSlots, UniqueLive, Live
<1>6. /\ DOMAIN files' = {} /\ entries' = {}
      /\ \A p \in DOMAIN slots' : slots'[p].hdr = Junk
  BY <1>1 DEF IInv, Formatting, memory
<1>7. Coherent' /\ InFlight' /\ Scanning'
  BY <1>1, <1>6 DEF Coherent, FilesOnDisk, FreeOnDisk, NothingMissed, Faithful,
                    InFlight, Writing, Scanning
<1>8. Formatting'
  BY <1>1, <1>2, <1>6, SizesAreNat DEF IInv, Formatting, memory
<1> QED
  BY <1>4, <1>5, <1>7, <1>8 DEF IInv

\* The entry Load reads is of a file it has not met before.
LEMMA ScanEntryKeeps == IInv /\ TypeOK /\ ScanEntry => IInv'
<1> SUFFICES ASSUME IInv, TypeOK, ScanEntry PROVE IInv'
  OBVIOUS
<1> DEFINE e == slots[scanPos].hdr
<1>1. /\ pc = "scan" /\ scanPos \in DOMAIN slots /\ e # Junk
      /\ scanPos' = e.pos + Extent(e)
      /\ UNCHANGED <<disk, mode, pc, pend>>
  BY DEF ScanEntry
<1>2. e.pos = scanPos /\ Extent(e) = slots[scanPos].len
  BY <1>1 DEF IInv, Layout
<1>3. /\ scanPos \in Nat /\ slots[scanPos].len \in Nat
      /\ \A p \in DOMAIN slots : p \in Nat /\ slots[p].len \in Nat
  BY <1>1 DEF TypeOK, Slot
<1>4. scanPos < scanPos' /\ scanPos' = scanPos + slots[scanPos].len
  BY <1>1, <1>2, <1>3 DEF IInv, Layout
<1>5. UNCHANGED <<formatted, fileSize, slots>>
  BY <1>1 DEF disk
<1>6. DiskSafe'
  BY <1>1, DiskKept DEF IInv, DiskSafe
<1>7. InFlight' /\ Formatting'
  BY <1>1, <1>5 DEF IInv, InFlight, Formatting, Writing
<1>8. /\ FirstEntry <= scanPos
      /\ \A p \in DOMAIN slots : FirstEntry <= p
  <2>1. FirstEntry <= scanPos /\ FirstEntry \in Nat
    BY <1>1, FirstEntryIsOneBlock DEF IInv, Scanning
  <2>2. CASE FirstEntry < scanPos
    BY <1>1, <2>1, <2>2 DEF IInv, Scanning
  <2>3. CASE FirstEntry = scanPos
    BY <1>1, <1>3, <2>1, <2>3 DEF IInv, Layout, LowSlots
  <2> QED
    BY <1>3, <2>1, <2>2, <2>3
<1>9. \A p \in DOMAIN slots :
        /\ p < scanPos => Faithful(p) /\ p + slots[p].len <= scanPos
        /\ scanPos < p => scanPos' <= p
  BY <1>1, <1>3, <1>4, <1>8 DEF IInv, Scanning, Layout
<1>10. /\ \A i \in DOMAIN files : files[i].pos < scanPos /\ files[i].pos \in Nat
       /\ \A f \in entries : f.pos < scanPos /\ f.pos \in Nat
  BY <1>1 DEF IInv, Scanning, TypeOK, Entry
<1>11. e.index # 0 => e.index \notin DOMAIN files
  <2> SUFFICES ASSUME e.index # 0, e.index \in DOMAIN files PROVE FALSE
    OBVIOUS
  <2> DEFINE f == files[e.index]
  <2>1. /\ f.index = e.index /\ f.pos \in DOMAIN slots /\ slots[f.pos].hdr = f
    BY DEF IInv, Coherent, FilesOnDisk
  <2>2. f # Junk
    BY SentinelsAssumption DEF TypeOK
  <2>3. f.pos = scanPos
    BY <1>1, <2>1, <2>2 DEF IInv, UniqueLive, Live
  <2> QED
    BY <1>10, <1>3, <2>3
<1>12. CASE e.index = 0
  <2>1. entries' = entries \cup {e} /\ files' = files
    BY <1>12 DEF ScanEntry
  <2>2. FilesOnDisk' /\ FreeOnDisk'
    BY <1>1, <1>2, <1>3, <1>5, <1>10, <1>12, <2>1
    DEF IInv, Coherent, FilesOnDisk, FreeOnDisk
  <2>3. \A p \in DOMAIN slots : p <= scanPos => Faithful(p)'
    BY <1>3, <1>5, <1>9, <1>12, <2>1 DEF Faithful
  <2>4. Scanning'
    BY <1>2, <1>3, <1>4, <1>5, <1>8, <1>9, <1>10, <2>1, <2>3, FirstEntryIsOneBlock
    DEF Scanning
  <2> QED
    BY <1>1, <1>6, <1>7, <2>2, <2>4
    DEF IInv, DiskSafe, Coherent, NothingMissed, Loaded, Writing
<1>13. CASE e.index # 0
  <2>1. entries' = entries /\ files' = Emplace(files, e.index, e)
    BY <1>13 DEF ScanEntry
  <2>2. /\ DOMAIN files' = DOMAIN files \cup {e.index} /\ files'[e.index] = e
        /\ \A i \in DOMAIN files : files'[i] = files[i]
    <3>1. PICK n, x : n = e.index /\ x = e /\ n \notin DOMAIN files
      BY <1>11, <1>13
    <3>2. files' = Emplace(files, n, x)
      BY <2>1, <3>1
    <3> HIDE DEF e
    <3>3. /\ DOMAIN files' = DOMAIN files \cup {n} /\ files'[n] = x
          /\ \A i \in DOMAIN files : files'[i] = files[i]
      BY <3>1, <3>2 DEF Emplace
    <3> QED
      BY <3>1, <3>3
  <2>3. FilesOnDisk' /\ FreeOnDisk'
    BY <1>1, <1>2, <1>3, <1>5, <1>10, <2>1, <2>2
    DEF IInv, Coherent, FilesOnDisk, FreeOnDisk
  <2>4. \A p \in DOMAIN slots : p <= scanPos => Faithful(p)'
    BY <1>3, <1>5, <1>9, <2>1, <2>2 DEF Faithful
  <2>5. Scanning'
    BY <1>2, <1>3, <1>4, <1>5, <1>8, <1>9, <1>10, <2>1, <2>2, <2>4,
       FirstEntryIsOneBlock
    DEF Scanning
  <2> QED
    BY <1>1, <1>6, <1>7, <2>3, <2>5
    DEF IInv, DiskSafe, Coherent, NothingMissed, Loaded, Writing
<1> QED
  BY <1>12, <1>13

LEMMA ScanEndKeeps == IInv /\ TypeOK /\ (ScanDone \/ ScanJunk) => IInv'
<1> SUFFICES ASSUME IInv, TypeOK, ScanDone \/ ScanJunk PROVE IInv'
  OBVIOUS
<1>1. /\ pc = "scan" /\ UNCHANGED <<disk, memory>> /\ pc' \in {"idle", "wild"}
  BY DEF ScanDone, ScanJunk, Idle
<1>2. DiskSafe'
  BY <1>1, DiskKept DEF IInv, DiskSafe
<1>3. UNCHANGED <<formatted, fileSize, slots, mode, files, entries>>
  BY <1>1 DEF disk, memory
<1>4. InFlight' /\ Formatting' /\ Scanning'
  BY <1>1, <1>3 DEF IInv, InFlight, Formatting, Scanning, Writing
<1>5. FilesOnDisk' /\ FreeOnDisk'
  BY <1>1, <1>3 DEF IInv, Coherent, FilesOnDisk, FreeOnDisk
<1>6. NothingMissed'
  <2> SUFFICES ASSUME pc' = "idle", NEW p \in DOMAIN slots PROVE Faithful(p)
    BY <1>1, <1>3 DEF NothingMissed, Loaded, Writing, Faithful
  <2>1. fileSize <= scanPos
    BY DEF ScanDone, ScanJunk, TypeOK
  <2>2. /\ p \in Nat /\ slots[p].len \in Nat /\ scanPos \in Nat /\ fileSize \in Nat
        /\ FirstEntry \in Nat
    BY FirstEntryIsOneBlock DEF TypeOK, Slot
  <2>3. p + slots[p].len <= fileSize /\ 0 < slots[p].len
    BY DEF IInv, Layout
  <2>4. FirstEntry <= p
    BY <1>1, <2>1, <2>2, <2>3 DEF IInv, Scanning, LowSlots
  <2> QED
    BY <1>1, <2>1, <2>2, <2>3, <2>4 DEF IInv, Scanning
<1> QED
  BY <1>2, <1>4, <1>5, <1>6 DEF IInv, DiskSafe, Coherent

LEMMA ForgetKeeps == IInv /\ (Unload \/ Crash) => IInv'
<1> SUFFICES ASSUME IInv, Unload \/ Crash PROVE IInv'
  OBVIOUS
<1>1. /\ mode' = "NONE" /\ pc' = "idle" /\ DOMAIN files' = {} /\ entries' = {}
      /\ UNCHANGED disk
  BY EmptyTables DEF Unload, Crash, Forget, Idle, control
<1>2. DiskSafe'
  BY <1>1, DiskKept DEF IInv, DiskSafe
<1>3. Formatting'
  BY <1>1 DEF IInv, Formatting, disk
<1> QED
  BY <1>1, <1>2, <1>3, NothingBelieved DEF IInv, DiskSafe

-----------------------------------------------------------------------------
(* The theorems *)

LEMMA InitSafe == Init => IInv
<1> SUFFICES ASSUME Init PROVE IInv
  OBVIOUS
<1>1. /\ DOMAIN slots = {} /\ DOMAIN files = {} /\ entries = {}
      /\ pc = "idle" /\ mode = "NONE" /\ ~formatted
  BY EmptyTables DEF Init
<1> QED
  BY <1>1 DEF IInv, Layout, UniqueLive, Coherent, FilesOnDisk, FreeOnDisk,
              NothingMissed, Loaded, Writing, InFlight, Formatting, LowSlots,
              Scanning

LEMMA NextSafe == TypeOK /\ IInv /\ [CrashNext]_vars => IInv'
<1> SUFFICES ASSUME TypeOK, IInv, [CrashNext]_vars PROVE IInv'
  OBVIOUS
<1>1. ASSUME NEW k \in Key, NEW append \in BOOLEAN, CreateArchive(append, k)
      PROVE  IInv'
  BY <1>1, CreateArchiveKeeps
<1>2. ASSUME NEW k \in Key, OpenArchive(k) PROVE IInv'
  BY <1>2, OpenArchiveKeeps
<1>3. ASSUME \/ \E i \in Index, c \in Content, fl \in FlagSets : Write(i, c, fl)
             \/ \E r \in Raw : WriteRawData(r)
      PROVE  IInv'
  <2>1. Writable /\ Begins
    BY <1>3, WriteBegins, RawBegins
  <2> QED
    BY <2>1, BeginWriteKeeps DEF Begins
<1>4. ASSUME NEW i \in Index, Delete(i) PROVE IInv'
  BY <1>4, DeleteKeeps
<1>5. CASE LoadHeader \/ LoadFails \/ Format \/ Pad
  BY <1>5, LoadHeaderKeeps, LoadFailsKeeps, FormatKeeps, PadKeeps
<1>6. CASE ScanEntry \/ ScanDone \/ ScanJunk
  BY <1>6, ScanEntryKeeps, ScanEndKeeps
<1>7. CASE Extend \/ PutHeader \/ PutPayload
  BY <1>7, ExtendKeeps, PutHeaderKeeps, PutPayloadKeeps
<1>8. CASE Unload \/ Crash
  BY <1>8, ForgetKeeps
<1>9. CASE UNCHANGED vars
  <2>1. UNCHANGED <<formatted, fileSize, slots, mode, files, entries, pc, pend, scanPos>>
    BY <1>9 DEF vars, disk, memory, control
  <2>2. DiskSafe'
    BY <2>1, DiskKept DEF IInv, DiskSafe, disk
  <2>3. Coherent'
    BY <2>1 DEF IInv, Coherent, FilesOnDisk, FreeOnDisk, NothingMissed, Loaded,
                Writing, Faithful
  <2>4. InFlight' /\ Formatting' /\ Scanning'
    BY <2>1 DEF IInv, InFlight, Formatting, Scanning, Writing, Live, Faithful
  <2> QED
    BY <2>2, <2>3, <2>4 DEF IInv, DiskSafe
<1> QED
  BY <1>1, <1>2, <1>3, <1>4, <1>5, <1>6, <1>7, <1>8, <1>9
  DEF CrashNext, Next, Calls, Steps

LEMMA SafeAlways == CrashSpec => [](TypeOK /\ IInv)
BY InitTyped, NextTyped, InitSafe, NextSafe, PTL DEF CrashSpec

\* The extents on the disk never overlap and each entry has room for its
\* payload (Write's search for a free extent, its append, Delete's tombstone),
\* for every size of blocks, headers, entries and contents, crashes included.
THEOREM LayoutSafe == CrashSpec => []Layout
<1>1. IInv => Layout
  BY DEF IInv
<1> QED
  BY <1>1, SafeAlways, PTL

\* At no point of a replacement, and after no crash, is a file on the disk
\* twice: Write deletes before it writes.
THEOREM NoFileTwice == CrashSpec => []UniqueLive
<1>1. IInv => UniqueLive
  BY DEF IInv
<1> QED
  BY <1>1, SafeAlways, PTL

\* The tables of a loaded archive are what its disk file says: Load misses no
\* extent and no free extent is one of a file.
THEOREM TablesMatchDisk == CrashSpec => []Coherent
<1>1. IInv => Coherent
  BY DEF IInv
<1> QED
  BY <1>1, SafeAlways, PTL
=============================================================================
