---------------------------- MODULE VFSArchive -----------------------------
(***************************************************************************)
(* One archive file and the CVFSArchive object that works on it.           *)
(*                                                                         *)
(* The disk is a header block followed by extents ("slots") of whole       *)
(* blocks; an extent starts with an SFileEntry and holds one file's bytes, *)
(* compressed and encrypted.  The object keeps the live entries (files)    *)
(* and the free extents (entries), rebuilt from the disk by Load.          *)
(*                                                                         *)
(* Every operation runs to its end under the archive's mutex, but it       *)
(* issues several WriteFile calls: each call is a step here, so a crash of *)
(* the process can fall between any two of them.                           *)
(*                                                                         *)
(* Operators named Bug... are mistakes the code could contain.  Nothing    *)
(* uses them; each is put in place of the definition that follows it to    *)
(* see that some property notices.                                         *)
(***************************************************************************)
EXTENDS Integers, FiniteSets

CONSTANTS
  Index,         \* name indexes that occur (GenerateNameIndex); 0 may be one
  Content,       \* file contents
  HashOf,        \* [Content -> Nat]: XXH32 of a content
  RawSize,       \* [Content -> Nat]: its length
  Lz4Size,       \* [Content -> Nat]: its compressed length, 0 if LZ4 fails
  FlagSets,      \* the flag sets callers pass to Write
  Key,           \* archive keys
  Raw,           \* the buffers clients hand to WriteRawData
  BytesPerBlock, \* header.bytesPerBlock: the page size
  HeaderSize,    \* sizeof(SArchiveHeader)
  EntrySize,     \* sizeof(SFileEntry)
  AesBlock,      \* the cipher's block size
  ForeignSizes,  \* sizes a file that is no archive may have at the start
  MaxFileSize,   \* bound: no archive grows beyond it
  Junk,          \* bytes that are not an entry, or not a payload
  None           \* no value

Flag == {"LZ4", "AES256"}

ASSUME NamesAssumption ==
  /\ Index \subseteq Nat
  /\ HashOf \in [Content -> Nat]
  /\ FlagSets \subseteq SUBSET Flag

ASSUME SizesAssumption ==
  /\ BytesPerBlock \in Nat /\ HeaderSize \in 1 .. BytesPerBlock - 1
  /\ EntrySize \in Nat \ {0} /\ AesBlock \in Nat \ {0}
  /\ RawSize \in [Content -> Nat] /\ Lz4Size \in [Content -> Nat]
  /\ ForeignSizes \subseteq Nat /\ MaxFileSize \in Nat

VARIABLES
  formatted, \* the disk file starts with an archive header
  fileSize,  \* its length
  slots,     \* position -> [len, hdr, blob]: the extents written so far
  mode,      \* how the object holds the file: "NONE", "INPUT" or "OUTPUT"
  key,       \* m_archiveKey
  files,     \* SArchiveData.files: index -> entry
  entries,   \* SArchiveData.entries: the free extents
  pc,        \* where the running operation stands
  pend,      \* the entry and payload being written
  scanPos    \* Load's read position

disk == <<formatted, fileSize, slots>>
memory == <<mode, key, files, entries>>
control == <<pc, pend, scanPos>>
vars == <<disk, memory, control>>

-----------------------------------------------------------------------------
(* Sizes *)

\* ALIGNTO: an aligned x still moves up by a whole a.
AlignTo(x, a) == x + (a - (x % a))

FirstEntry == AlignTo(HeaderSize, BytesPerBlock)

\* The blocks an appended extent gets for a payload of n bytes.
BlocksFor(n) == AlignTo(n + EntrySize, BytesPerBlock) \div BytesPerBlock

Extent(e) == e.blocks * BytesPerBlock

AtLeast(x, y) == IF x > y THEN x ELSE y

-----------------------------------------------------------------------------
(* Entries and payloads.  An entry's offset field is pos + EntrySize.      *)

Entry == [pos : Nat, blocks : Nat, index : Index \cup {0}, hash : Nat,
          flags : SUBSET Flag, size : Nat]
Blob == [content : Content, flags : SUBSET Flag, key : Key \cup {None}]
Payload == Blob \cup {Junk}
Slot == [len : Nat, hdr : Entry \cup {Junk}, blob : Payload]

\* A buffer of WriteRawData: an SFileEntry and the bytes behind it.
RawRecord == [index : Index, hash : Nat, flags : SUBSET Flag, size : Nat,
              blob : Payload]

ASSUME RawAssumption == Raw \subseteq RawRecord

ASSUME SentinelsAssumption ==
  /\ Junk \notin Entry /\ Junk \notin Blob /\ Junk # None
  /\ None \notin Key /\ None \notin [entry : Entry, blob : Payload]
  /\ None \notin Content /\ None \notin [index : Index, hash : Nat]

\* The flags Write stores: LZ4 is dropped when the compression fails.
Effective(c, flags) == IF Lz4Size[c] = 0 THEN flags \ {"LZ4"} ELSE flags

Packed(c, flags) == IF "LZ4" \in flags THEN Lz4Size[c] ELSE RawSize[c]

\* finalSize of content c stored with (effective) flags.
Stored(c, flags) ==
  IF "AES256" \in flags THEN AlignTo(Packed(c, flags), AesBlock)
                        ELSE Packed(c, flags)

Encode(c, flags, k) ==
  [content |-> c, flags |-> flags,
   key |-> IF "AES256" \in flags THEN k ELSE None]

\* The content Open gets from payload b under the entry e and the key k, or
\* None when the size, the decoding or the hash does not match.
Decode(e, b, k) ==
  IF /\ b # Junk
     /\ b.flags = e.flags /\ Stored(b.content, b.flags) = e.size
     /\ HashOf[b.content] = e.hash
     /\ "AES256" \in e.flags => b.key = k
  THEN b.content ELSE None

BugTombstoneWiped(e) ==
  [pos |-> 0, blocks |-> 0, index |-> 0, hash |-> 0, flags |-> {}, size |-> 0]

\* What Delete writes over the entry of a deleted file.
Tombstone(e) ==
  [e EXCEPT !.index = 0, !.hash = 0, !.flags = {}, !.size = 0]

Place(slot, i, h, fl, n) ==
  [pos |-> slot.pos, blocks |-> slot.blocks,
   index |-> i, hash |-> h, flags |-> fl, size |-> n]

-----------------------------------------------------------------------------
(* The two tables *)

NoFiles == [i \in {} |-> Junk]
NoSlots == [p \in {} |-> Junk]

\* unordered_map::emplace and insert: an element that is there stays.
Emplace(f, i, e) ==
  [j \in DOMAIN f \cup {i} |-> IF j \in DOMAIN f THEN f[j] ELSE e]

Without(f, i) == [j \in DOMAIN f \ {i} |-> f[j]]

PutSlot(p, s) ==
  [q \in DOMAIN slots \cup {p} |-> IF q = p THEN s ELSE slots[q]]

SetHdr(sl, p, e) ==
  [q \in DOMAIN sl |-> IF q = p THEN [sl[q] EXCEPT !.hdr = e] ELSE sl[q]]

BugFittingNoEntry(free, n) == {e \in free : Extent(e) >= n}

\* The free extents a payload of n bytes fits in, and the smallest of them
\* (which of two equal ones comes first depends on the list's order).
Fitting(free, n) == {e \in free : Extent(e) >= n + EntrySize}
BestFit(free, n) ==
  {e \in Fitting(free, n) : \A f \in Fitting(free, n) : e.blocks <= f.blocks}

-----------------------------------------------------------------------------
Init ==
  /\ formatted = FALSE
  /\ fileSize \in ForeignSizes
  /\ slots = NoSlots
  /\ mode = "NONE" /\ key = None
  /\ files = NoFiles /\ entries = {}
  /\ pc = "idle" /\ pend = None /\ scanPos = 0

\* Unload, the first thing Load does, and the end of a crashed process.
Forget ==
  /\ mode' = "NONE" /\ key' = None
  /\ files' = NoFiles /\ entries' = {}

Idle == pc' = "idle" /\ pend' = None /\ scanPos' = 0

\* CVFSFile::Create (with or without append) and the start of Create: the
\* handle shares reading only, so no other handle may be open.
CreateArchive(append, k) ==
  /\ pc = "idle" /\ mode = "NONE"
  /\ IF append THEN UNCHANGED disk
     ELSE formatted' = FALSE /\ fileSize' = 0 /\ slots' = NoSlots
  /\ mode' = "OUTPUT" /\ key' = k
  /\ pc' = "load"
  /\ UNCHANGED <<files, entries, pend, scanPos>>

\* CVFSFile::Open and the start of Load, which unloads what was there.
OpenArchive(k) ==
  /\ pc = "idle" /\ mode # "OUTPUT"
  /\ mode' = "INPUT" /\ key' = k
  /\ files' = NoFiles /\ entries' = {}
  /\ pc' = "load"
  /\ UNCHANGED <<disk, pend, scanPos>>

\* Load reads a good header and goes to the first entry.
LoadHeader ==
  /\ pc = "load" /\ formatted
  /\ pc' = "scan" /\ scanPos' = FirstEntry
  /\ UNCHANGED <<disk, memory, pend>>

\* Load fails.  After a short read the object keeps the file, after a wrong
\* magic it lets it go; the key is wiped either way.
LoadFails ==
  /\ pc = "load" /\ ~formatted /\ mode = "INPUT"
  /\ mode' = (IF fileSize < HeaderSize THEN "INPUT" ELSE "NONE")
  /\ key' = None /\ Idle
  /\ UNCHANGED <<disk, files, entries>>

\* Create takes a file without a header over: it writes one.  Whatever the
\* file holds behind the first block stays there.
Format ==
  /\ pc = "load" /\ ~formatted /\ mode = "OUTPUT"
  /\ formatted' = TRUE /\ fileSize' = AtLeast(fileSize, HeaderSize)
  /\ slots' = IF fileSize > FirstEntry
              THEN PutSlot(FirstEntry, [len |-> fileSize - FirstEntry,
                                        hdr |-> Junk, blob |-> Junk])
              ELSE slots
  /\ pc' = "pad"
  /\ UNCHANGED <<memory, pend, scanPos>>

\* ... and fills the first block up.
Pad ==
  /\ pc = "pad"
  /\ fileSize' = AtLeast(fileSize, FirstEntry)
  /\ Idle
  /\ UNCHANGED <<formatted, slots, memory>>

BugScanEntryStays ==
  /\ pc = "scan" /\ scanPos < fileSize
  /\ scanPos \in DOMAIN slots /\ slots[scanPos].hdr # Junk
  /\ scanPos' = slots[scanPos].hdr.pos
  /\ UNCHANGED <<disk, memory, pc, pend>>

BugScanEntryDropsFree ==
  /\ pc = "scan" /\ scanPos < fileSize
  /\ scanPos \in DOMAIN slots /\ slots[scanPos].hdr # Junk
  /\ LET e == slots[scanPos].hdr IN
       /\ files' = IF e.index = 0 THEN files ELSE Emplace(files, e.index, e)
       /\ scanPos' = e.pos + Extent(e)
  /\ UNCHANGED <<disk, mode, key, entries, pc, pend>>

\* One turn of Load's loop, at an entry.
ScanEntry ==
  /\ pc = "scan" /\ scanPos < fileSize
  /\ scanPos \in DOMAIN slots /\ slots[scanPos].hdr # Junk
  /\ LET e == slots[scanPos].hdr IN
       /\ IF e.index = 0
          THEN entries' = entries \cup {e} /\ UNCHANGED files
          ELSE files' = Emplace(files, e.index, e) /\ UNCHANGED entries
       /\ scanPos' = e.pos + Extent(e)
  /\ UNCHANGED <<disk, mode, key, pc, pend>>

ScanDone ==
  /\ pc = "scan" /\ scanPos >= fileSize
  /\ Idle
  /\ UNCHANGED <<disk, memory>>

\* Load takes bytes that were never written as an entry for one: what it
\* reads next, and whether it ever ends, is anyone's guess ("wild").
ScanJunk ==
  /\ pc = "scan" /\ scanPos < fileSize
  /\ scanPos \in DOMAIN slots => slots[scanPos].hdr = Junk
  /\ pc' = "wild"
  /\ UNCHANGED <<disk, memory, pend, scanPos>>

-----------------------------------------------------------------------------
Writable == pc = "idle" /\ mode = "OUTPUT"

BugSlotsNotBuried(i) == slots
\* Delete's effect on the disk and on the two tables, when i is there.
SlotsAfterDelete(i) ==
  IF i \in DOMAIN files
  THEN SetHdr(slots, files[i].pos, Tombstone(files[i])) ELSE slots
FreeAfterDelete(i) ==
  IF i \in DOMAIN files THEN entries \cup {Tombstone(files[i])} ELSE entries

Delete(i) ==
  /\ Writable /\ i \in DOMAIN files
  /\ slots' = SlotsAfterDelete(i)
  /\ entries' = FreeAfterDelete(i)
  /\ files' = Without(files, i)
  /\ UNCHANGED <<formatted, fileSize, mode, key, control>>

\* The part Write and WriteRawData share up to the choice of an extent: the
\* old version goes, then a free extent is taken or one is to be appended.
BeginWrite(i, h, fl, n, b) ==
  /\ slots' = SlotsAfterDelete(i)
  /\ entries' = FreeAfterDelete(i)
  /\ files' = Without(files, i)
  /\ \/ \E s \in BestFit(FreeAfterDelete(i), n) :
          /\ pc' = "header"
          /\ pend' = [entry |-> Place(s, i, h, fl, n), blob |-> b]
     \/ /\ Fitting(FreeAfterDelete(i), n) = {}
        /\ fileSize + BlocksFor(n) * BytesPerBlock <= MaxFileSize
        /\ pc' = "extend"
        /\ pend' = [entry |-> Place([pos |-> fileSize, blocks |-> BlocksFor(n)],
                                    i, h, fl, n),
                    blob |-> b]
  /\ UNCHANGED <<formatted, fileSize, mode, key, scanPos>>

BugDedupedByName(i, c) == i \in DOMAIN files
\* Write returns early, successfully, when the stored hash is the same.
Deduped(i, c) == i \in DOMAIN files /\ files[i].hash = HashOf[c]

Write(i, c, flags) ==
  /\ Writable /\ ~Deduped(i, c)
  /\ LET fl == Effective(c, flags) IN
       BeginWrite(i, HashOf[c], fl, Stored(c, fl), Encode(c, fl, key))

\* WriteRawData stores the record it is handed and checks nothing of it: the
\* payload may be of another content, key, hash or length than the entry says.
WriteRawData(r) ==
  /\ Writable
  /\ BeginWrite(r.index, r.hash, r.flags, r.size, r.blob)

BugExtendShort ==
  /\ pc = "extend"
  /\ fileSize' = fileSize + EntrySize + pend.entry.size
  /\ slots' = PutSlot(pend.entry.pos, [len |-> Extent(pend.entry),
                                       hdr |-> Junk, blob |-> Junk])
  /\ pc' = "header"
  /\ UNCHANGED <<formatted, memory, pend, scanPos>>

\* An extent of heap bytes is appended.
Extend ==
  /\ pc = "extend"
  /\ fileSize' = fileSize + Extent(pend.entry)
  /\ slots' = PutSlot(pend.entry.pos, [len |-> Extent(pend.entry),
                                       hdr |-> Junk, blob |-> Junk])
  /\ pc' = "header"
  /\ UNCHANGED <<formatted, memory, pend, scanPos>>

PutHeader ==
  /\ pc = "header"
  /\ slots' = SetHdr(slots, pend.entry.pos, pend.entry)
  /\ pc' = "payload"
  /\ UNCHANGED <<formatted, fileSize, memory, pend, scanPos>>

BlobPut ==
  [q \in DOMAIN slots |-> IF q = pend.entry.pos
                         THEN [slots[q] EXCEPT !.blob = pend.blob] ELSE slots[q]]

BugPutPayloadKeepsFree ==
  /\ pc = "payload"
  /\ slots' = BlobPut
  /\ files' = Emplace(files, pend.entry.index, pend.entry)
  /\ Idle
  /\ UNCHANGED <<formatted, fileSize, mode, key, entries>>

\* The payload, and the tables once it is written.
PutPayload ==
  /\ pc = "payload"
  /\ slots' = BlobPut
  /\ entries' = {e \in entries : e.pos # pend.entry.pos}
  /\ files' = Emplace(files, pend.entry.index, pend.entry)
  /\ Idle
  /\ UNCHANGED <<formatted, fileSize, mode, key>>

Unload ==
  /\ pc = "idle" /\ mode # "NONE"
  /\ Forget
  /\ UNCHANGED <<disk, control>>

\* The process dies at any point; the disk keeps what was written.
Crash ==
  /\ mode # "NONE"
  /\ Forget /\ Idle
  /\ UNCHANGED disk

-----------------------------------------------------------------------------
\* The calls clients may make, and the steps a call goes through.
Calls ==
  \/ \E k \in Key : \E append \in BOOLEAN : CreateArchive(append, k)
  \/ \E k \in Key : OpenArchive(k)
  \/ \E i \in Index, c \in Content, fl \in FlagSets : Write(i, c, fl)
  \/ \E r \in Raw : WriteRawData(r)
  \/ \E i \in Index : Delete(i)
  \/ Unload

Steps ==
  \/ LoadHeader \/ LoadFails \/ Format \/ Pad
  \/ ScanEntry \/ ScanDone \/ ScanJunk
  \/ Extend \/ PutHeader \/ PutPayload

Next == Calls \/ Steps
CrashNext == Next \/ Crash

Spec == Init /\ [][Next]_vars
CrashSpec == Init /\ [][CrashNext]_vars

-----------------------------------------------------------------------------
(* Properties *)

Writing == pc \in {"extend", "header", "payload"}
Loaded == mode # "NONE" /\ (pc = "idle" \/ Writing)

TypeOK ==
  /\ formatted \in BOOLEAN /\ fileSize \in Nat
  /\ DOMAIN slots \subseteq Nat /\ slots \in [DOMAIN slots -> Slot]
  /\ mode \in {"NONE", "INPUT", "OUTPUT"} /\ key \in Key \cup {None}
  /\ DOMAIN files \subseteq Index \cup {0} /\ files \in [DOMAIN files -> Entry]
  /\ entries \subseteq Entry
  /\ pc \in {"idle", "load", "scan", "pad", "extend", "header", "payload", "wild"}
  /\ IF Writing THEN pend \in [entry : Entry, blob : Payload] ELSE pend = None
  /\ scanPos \in Nat


\* Slot p holds a file: a Load that reaches it will list it.
Live(p) == slots[p].hdr # Junk /\ slots[p].hdr.index # 0

\* The extents lie inside the file behind the header, do not overlap, and
\* each clean entry describes the very extent it is in, with room for its
\* payload: no write of one file can touch another one.
Layout ==
  /\ \A p \in DOMAIN slots :
       /\ HeaderSize <= p /\ 0 < slots[p].len /\ p + slots[p].len <= fileSize
       /\ slots[p].hdr # Junk =>
            /\ slots[p].hdr.pos = p
            /\ Extent(slots[p].hdr) = slots[p].len
            /\ EntrySize + slots[p].hdr.size <= slots[p].len
  /\ \A p, q \in DOMAIN slots : p < q => p + slots[p].len <= q

\* At every instant the disk names a file at most once, so the order of a
\* later Load's scan (the first entry wins) cannot matter.
UniqueLive ==
  \A p, q \in DOMAIN slots :
    Live(p) /\ Live(q) /\ slots[p].hdr.index = slots[q].hdr.index => p = q

Faithful(p) ==
  LET e == slots[p].hdr IN
    \/ e = Junk
    \/ e.index \in DOMAIN files /\ files[e.index] = e
    \/ e.index = 0 /\ e \in entries

FilesOnDisk ==
  \A i \in DOMAIN files :
    /\ files[i].index = i
    /\ files[i].pos \in DOMAIN slots /\ slots[files[i].pos].hdr = files[i]
    /\ \A e \in entries : e.pos # files[i].pos

FreeOnDisk ==
  \A e \in entries :
    /\ e.index = 0 /\ e.pos \in DOMAIN slots
    /\ slots[e.pos].hdr = e \/ (pc = "payload" /\ e.pos = pend.entry.pos)

NothingMissed ==
  Loaded => \A p \in DOMAIN slots :
              Faithful(p) \/ (Writing /\ p = pend.entry.pos)

\* What the object believes is what the disk says: its files are the entries
\* in their slots, its free list holds no slot of a file, and a loaded object
\* has missed nothing on the disk, whatever crashes came before.
Coherent == FilesOnDisk /\ FreeOnDisk /\ NothingMissed

\* Load runs into bytes that are no entry only if an append, the creation of
\* the archive or a foreign file left them: after complete calls it never does.
Torn == \E p \in DOMAIN slots : slots[p].hdr = Junk \/ p < FirstEntry
WildOnlyWhenTorn == pc = "wild" => Torn

\* Without a crash a Load always finds its way.
NeverWild == pc # "wild"

\* Without a crash every byte behind the first block belongs to an extent
\* that a Load reaches: deleting and rewriting loses no space.
Tiled ==
  \A p \in DOMAIN slots :
    p + slots[p].len = fileSize \/ p + slots[p].len \in DOMAIN slots

\* The content Open decodes from file i with the object's key, as the
\* payload stands on the disk.
ReadBack(i) == Decode(files[i], slots[files[i].pos].blob, key)

\* Open gets no second handle while the object can write.
OpenFile(i) ==
  IF mode = "INPUT" /\ i \in DOMAIN files THEN ReadBack(i) ELSE None

\* Every file of an archive that was opened for reading can be opened.
EveryFileOpens ==
  pc = "idle" /\ mode = "INPUT" => \A i \in DOMAIN files : OpenFile(i) # None

BuriedFirst ==
  \A p \in DOMAIN slots :
    Live(p) /\ p \in DOMAIN slots' /\ slots'[p].hdr # slots[p].hdr
      => slots'[p].hdr = Tombstone(slots[p].hdr)

\* A record of a file is never overwritten by another one: it is buried by a
\* tombstone first, unless the whole archive is created anew.
LiveOnlyBuried == [][BuriedFirst]_vars

\* A Load that was entered ends.
LoadTerminates == (pc = "load") ~> (pc = "idle")

-----------------------------------------------------------------------------
(* What makes Layout, UniqueLive and Coherent inductive *)

\* The extent a Write works on is the end of the file, or one that no file
\* lives in, and it is large enough.
InFlight ==
  /\ Writing =>
       /\ mode = "OUTPUT"
       /\ EntrySize + pend.entry.size <= Extent(pend.entry)
       /\ pend.entry.index \notin DOMAIN files
       /\ \A i \in DOMAIN files : files[i].pos # pend.entry.pos
  /\ pc = "extend" =>
       pend.entry.pos = fileSize /\ BytesPerBlock <= Extent(pend.entry)
  /\ pc \in {"header", "payload"} =>
       /\ pend.entry.pos \in DOMAIN slots
       /\ slots[pend.entry.pos].len = Extent(pend.entry)
  /\ pc = "header" => ~Live(pend.entry.pos)
  /\ pc = "payload" => slots[pend.entry.pos].hdr = pend.entry

Formatting ==
  /\ formatted => HeaderSize <= fileSize
  /\ ~formatted => DOMAIN slots = {}
  /\ mode = "OUTPUT" /\ pc # "load" => formatted
  /\ pc = "pad" => \A p \in DOMAIN slots : slots[p].hdr = Junk
  /\ mode = "NONE" => pc = "idle"
  /\ mode = "NONE" \/ pc \in {"load", "pad"} =>
       DOMAIN files = {} /\ entries = {}

\* An extent that starts in the first block reaches into the second: a Load
\* cannot pass it by.
LowSlots ==
  \A p \in DOMAIN slots : p < FirstEntry => FirstEntry < p + slots[p].len

\* A running Load has taken in every extent up to where it stands.
Scanning ==
  pc = "scan" =>
    /\ FirstEntry <= scanPos
    /\ FirstEntry < scanPos => \A p \in DOMAIN slots : FirstEntry <= p
    /\ \A p \in DOMAIN slots :
         FirstEntry <= p /\ p < scanPos =>
           Faithful(p) /\ p + slots[p].len <= scanPos
    /\ \A i \in DOMAIN files : files[i].pos < scanPos
    /\ \A e \in entries : e.pos < scanPos

IInv ==
  /\ Layout /\ UniqueLive /\ Coherent
  /\ InFlight /\ Formatting /\ LowSlots /\ Scanning

-----------------------------------------------------------------------------
(* The abstract store *)

\* The contents file i can be read back as from the disk, by a later session
\* that has the key it was written with.
OnDisk(i) ==
  {Decode(slots[p].hdr, slots[p].blob, slots[p].blob.key) :
     p \in {q \in DOMAIN slots : Live(q) /\ slots[q].hdr.index = i
                                 /\ slots[q].blob # Junk}} \ {None}

\* What file i is read back as: at most one content (UniqueLive), or None.
One(S) == IF S = {} THEN None ELSE CHOOSE c \in S : TRUE

Store ==
  INSTANCE ArchiveStore WITH
    Index <- Index \ {0},
    Hash <- {HashOf[c] : c \in Content} \cup {r.hash : r \in Raw},
    store <- [i \in Index \ {0} |-> One(OnDisk(i))],
    busy <- IF Writing /\ pend.entry.index # 0
            THEN [index |-> pend.entry.index, hash |-> pend.entry.hash]
            ELSE None

\* Every step, a crash included, is one the abstract store allows.
ImplementsStore == Store!StoreSpec
=============================================================================
