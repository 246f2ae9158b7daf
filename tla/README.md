# Verification of the VFS archive system

This directory holds TLA+ models of the virtual file system in `src/VFSLib`,
`src/VFSCryptLib` and `src/VFSArchiver`, the TLC configurations that check them
on small instances, and proofs, checked by TLAPS, of what holds for every
instance. Every definition is translated from the code; the file and the lines
of each are in `PROJECT.json` under `map`, and the hazards that the properties
are aimed at are there under `hazards`.

* [1. The system](#1-the-system)
* [2. Modules](#2-modules)
* [3. What each run checks](#3-what-each-run-checks)
* [4. Fairness](#4-fairness)
* [5. What is proved](#5-what-is-proved)
* [6. What is only model-checked](#6-what-is-only-model-checked)
* [7. Disagreements found](#7-disagreements-found)
* [8. What is not modelled](#8-what-is-not-modelled)
* [9. Plan](#9-plan)

To check it: `tlc -config X.cfg M` for each run of section 3, `tlapm M.tla` for
each `...Proofs` and `...Refines` module.

## 1. The system

| Part | Code | State it keeps | Operations | What makes it correct |
|---|---|---|---|---|
| Archive engine | `VFSLib/src/VFSArchive.cpp` | the archive file (a header block, then extents of whole blocks), the tables `files` and `entries`, the key, the file handle | Create, Load, Unload, Write, WriteRawData, Delete, Open, ReadRawData, EnumerateFiles, CopyArchive | extents never overlap; the tables say what the disk says; a crash loses at most the file being written |
| File handle | `VFSLib/src/VFSFile.cpp` | kind of handle, position, disk handle, mapping, memory and who owns it | Create, Open, Close, Map, Assign, Read, Write, SetPosition, GetSize | a writer is alone on its file; memory is freed once; reads stay inside |
| Pack | `VFSLib/src/VFSPack.cpp` | the registered names, the archives in search order, the keys | RegisterArchive, UnregisterArchive, LoadRegistiredArchives, LoadArchive, UnloadArchive, FindArchive, Open, SetArchiveKey, SetWorkingDirectory | an archive is listed once; a load loads all; a client's archive stays as it is; its tables are those of its file |
| Wildcards | `VFSPack::WildcardMatch` | none (recursion) | one match | it decides the match, ends and stays in its strings |
| Cipher stream | `VFSCryptLib/src/aes256_*.cpp`, `DataBuffer.cpp`, `VFSLib/src/CryptHelper.cpp` | chunk, buffer, chaining value, key, a flag for the lazy reset | set_iv, set_key, add, calculate, set_padding | however data is cut, the text is the same and comes back |
| Cipher tables | `VFSCryptLib/src/aes.cpp` | static lookup tables and a flag | key schedule, one block | the tables are complete before they are used |
| Archiver | `VFSArchiver/src/main.cpp` | the configuration | read the configuration, pack each group in a task of its own, look at the result | success means packed; archives never mix |
| Property lists | `VFSLib/src/VFSPropertyManager.cpp`, `VFSPropertyGenerator` | none | generate a list, load a list | a list that was written is read back |
| Test program | `VFSTest/src/main.cpp` | none | create, load, unpack | - |
| Logging | `VFSLib/src/LogHelper.cpp`, `include/BasicLog.h` | spdlog's logger | log | - |

How they interact. A program has one `CVFSPack`. It makes `CVFSArchive` objects
and hands out `shared_ptr`s to them; the last pointer to go closes the archive.
An archive object owns one `CVFSFile` on its archive file, and for each file
that is read it makes another one, which views the archive file (`Map`) or
keeps a decoded copy in memory (`Assign`). Payloads go through LZ4, through
`CAes256` (one cipher object per payload) and are named by XXH32. The archiver
makes one archive per group from parallel tasks; the cipher objects of those
tasks share static tables that the first of them fill. Objects of different threads
and processes meet only at the file system, where the access and the sharing
flags of `CreateFileW` decide who may open what.

What is hard here:

* *Crashes.* Nothing is journalled. A Write is up to four `WriteFile` calls
  (tombstone, extent, entry, payload); a process may die between any two, and
  the next Load takes what it finds for a chain of entries.
* *Long sequences of legal calls.* Deleted extents go to a free list and are
  given out again by best fit. One stale element would put a new file on top of
  a live one, many calls later.
* *Interleaving.* `LoadRegistiredArchives` loads in parallel tasks, each taking
  the pack's mutex anew; clients load, find, unload and empty archives at the
  same time; groups are packed in parallel, and their first cipher objects fill
  the same static tables behind an unguarded flag (`aes.cpp:39`); `CopyArchive`
  takes a lock per call and `EnumerateFiles` (`VFSArchive.cpp:489`) none.
* *Staleness.* Tables are read once, at Load, while the file may be replaced;
  the duplicate test trusts a stored hash; the file's length is noted at Open.
* *Buffering.* The cipher holds back a block in one direction only, resets
  lazily and shares its buffer with its client.
* *Numbers.* `ALIGNTO` adds a block to an aligned size; positions have 64 bits,
  lengths 32; a name may hash to 0, which means "free".

## 2. Modules

Operators called `Bug...` are mistakes the code could plausibly contain. No
specification uses them: each is put in place of the definition that follows it
to see that some property notices (`mutants` in `PROJECT.json`).

### VFSArchive, with ArchiveStore above it

The disk is a map from positions to extents (`slots`: length, entry, payload),
which is what a sequence of writes leaves of the bytes; bytes that were never
written as an entry are `Junk`. The object has the two tables, its mode and its
key. A call runs under the archive's mutex to its end, but **each `WriteFile`
is a step of its own**, so that `Crash` can fall between any two:

| Code | Actions |
|---|---|
| Create, and the Load it ends with | `CreateArchive`, then `Format`, `Pad` for a new file, or `LoadHeader`, `ScanEntry`..., `ScanDone` |
| Load | `OpenArchive`, `LoadHeader` or `LoadFails`, then the scan; `ScanJunk` when it meets bytes that are no entry |
| Write, WriteRawData | `BeginWrite` (delete the old version, choose an extent), `Extend` if one is appended, `PutHeader`, `PutPayload` |
| Delete, Unload | `Delete`, `Unload` |
| Open | `OpenFile`, and `ReadBack` for what it gives of a listed file (operators: it changes nothing) |

Contents are model values with a hash, a length and a compressed length;
`Encode` and `Decode` keep what decides whether Open gives a content back: the
flags, the stored size, the hash and the key. `AlignTo` is the code's, with the
block it adds to an aligned size. `WriteRawData` checks nothing of the buffer
it is given (`VFSArchive.cpp:549-614`), and `ReadRawData`, which makes such
buffers, may fill one from another offset of the file or not at all. So `Raw`
is any set of records: entry and payload need not belong together, and the runs
have a sound one, one with bytes that are no payload of its hash, and an empty
one.

`VFSArchiveHistory` adds to it what the clients were told: which files they were
told are stored, and with which content, by the Writes that were skipped as
duplicates too. Only its property reads that history.

`ArchiveStore` is the abstract specification: a map from names to contents in
which a replacement retires the old content, then publishes the new one, and in
which a crash loses at most the file being replaced. `VFSArchive` instantiates
it with what a later session with the right key could read from the disk
(`Store`), and `ImplementsStore` says that every step is one of the store's.

### VFSFile

The members of each object and the lengths of the files. One action per
operation; `Grants` is the operating system's decision, from the access and the
sharing the code passes. Every way a system call can fail is an action
(`OpenFails`, `MapViewFails`), for which "nothing stays open" is true of one
and not of the other. 32- and 64-bit numbers are cut down by `% Word32` and
`% Word64`. Flags are modelled as the code passes them to `CreateFileW`, not as the comments in
`VFSFile.h` name them (line 14 calls `FILE_TYPE_INPUT` "WRITE ONLY").

### VFSPack

Every operation runs under the pack's mutex and is one step;
`LoadRegistiredArchives` is `StartLoad`, one `LoadTask` per name in any order,
and `EndLoad`. Names are a directory and a file: what a caller gives is
lower-cased, what an archive keeps is what `_wfullpath` makes of it, and the
search compares the two. `Absolute` puts the working directory, in the system's
spelling, before a relative name, and an absolute directory with forward slashes
(as `GetExecutableDirectory` gives it, `VFSPack.cpp:295-301`) or dots (`Alias`)
becomes the one it means (`Means`). A task whose archive does not load is a
throw. `Open` is not modelled: it changes nothing of the pack's, and falls back
to the plain file on disk when no archive has the name (227-234). `Keep` ends the objects nobody
points to. Dereferencing the null stream of an emptied archive is `Crash`; an
exception out of a task is an abort. `BeginPack` and `EndPack` stand for
whoever writes an archive file anew meanwhile.

### Wildcard

`WildcardMatch` with its calls on an explicit stack, one step per character,
call or return, against `Matches`, the definition by cutting the string into
one piece per character of the pattern.

### AesStream

Both cipher objects, with one step per turn of add's loop. The rounds of the
cipher are constants of which only `D(k, E(k, b)) = b` is assumed, which
`BlocksComeBack` shows of the rounds in the code. `Chained` and
`Padded` are CBC and the paddings as they are defined; `Drains` says with which
paddings the client empties the shared buffer between adds.

### Bytes, Aes, Fips197, AesTables

`Aes` is `aes.cpp` and the unrolled rounds of both `process_chunk`, as
functions: the creation of the tables by powers and logarithms, the three key
schedules, `extract_decrypt_key`, the rounds on combined tables. A 32-bit word
is the tuple of its bytes. `Fips197` is the standard, from arithmetic in
GF(2^8), and takes nothing from the code (every definition of it is a reference,
so none is in `map`); `Bytes` is what both are written in. `AesTables` is the
protocol by which objects of several threads share the tables: look at the
flag, run the three loops, raise the flag. The order of a thread's stores is
taken to be the order in which others see them (x86, and no store moved by the
compiler); under a weaker one the flag could be seen before the tables.

### Archiver and SealedArchiver

A run of the program: configuration, tasks file by file, exit status. It may be
started again over whatever earlier runs left. A task that cannot create its
archive or read a source aborts the process between any two steps of the others;
one that throws lets them finish and lets those not begun be cancelled. A write
that fails is neither: nobody looks at the result of `CVFSFile::Write`
(`VFSArchive.cpp:430-432`), nor at the empty buffer that `CAes256` returns from
its catch (`CryptHelper.cpp:52-63`). `Written` therefore lets every step that
writes go wrong unnoticed, and the ghost `spoilt` keeps whose archive it was.
`Checks` are the results the hash checks of `main.cpp:409-421` may have; where
one is refused the program exits with success before it packs. In the
repository they all match, `{TRUE}`; the run has both. A task that encrypts goes
through the steps of `AesTables` for each file. `SealedArchiver` puts `Aes` and `Fips197`
beside it, and asks whether the tables, as the tasks have filled them when one
of them encrypts, compute the cipher of the standard.

### ArchiveCopy

`CopyArchive` call by call (each call locked, the whole not), with another
thread at work on the target, and the bytes that `ReadRawData` gets from a view
whose offset is never a multiple of the granularity. The listing that each of
its loops begins with is `EnumerateFiles`, which takes no lock: `ListSize`
counts the nodes of the table, `ListFirst` and `ListNode` walk it, `ListEnd`
leaves what was not reached zero. The other thread writes in two steps, the
erasure of the old entry and the insertion of the new one, both under the lock,
which stops the calls of the copy but not its walk. What the walk meets then is
what the container allows: any order of the nodes still ahead after an
insertion, a freed node after an erasure, a result that is too small. From there
the process may be anywhere (`wild`, of which nothing more is said); one
insertion or erasure is one step with respect to the walk. An empty file in the
source, of which `ReadRawData` returns a buffer it never filled, is `Empty`.
The target is open to write.

`MCVFSArchive`, `MCVFSArchiveHistory`, `MCVFSPack`, `MCAesStream`, `MCArchiver` and `MCArchiveCopy`
give the constants their small values.

## 3. What each run checks

| Run | States | Checked | Shows |
|---|---|---|---|
| `archive_clean` | 1,391,369 | `NeverWild` `Tiled` `Coherent` `WrittenIsRead` `LoadTerminates` | without crashes a Load always finds its way and ends, no space is lost, the tables are those of the disk, the archive lists what was written and not deleted since, and each file decodes to what was last written under its name, also by a Write that was skipped as a duplicate |
| `archive_crash` | 223,545 | `Layout` `UniqueLive` `WildOnlyWhenTorn` `LiveOnlyBuried` `ImplementsStore` | with a crash between any two writes, foreign files and two keys, extents stay apart, no file is there twice, Load goes astray only in torn archives, and the disk implements `ArchiveStore` |
| `archive_torn` | (refuted) | `EveryFileOpens` | see section 7 |
| `file_objects` | 170,987 | `SoleWriter` `NoLeak` `HeldAsNeeded` `ReadsStayInside` `SizeIsThere` | two objects on one file, in every order, with wrapping numbers |
| `pack` | 509,264 | `TypeOK` `NoCrash` `LoadedAll` `AbsoluteOnce` `FreshTables` `LoadEnds` | one archive by its absolute name, with forward slashes, and relative, two spellings of its directory; parallel tasks and a client, changing directory, keys and file; a load ends however many names come meanwhile |
| `pack_clients` | 468,008 | `HandleKeeps` | two clients, two archives, two keys: neither disturbs the other's archive |
| `wildcard` | 37,372 | `TypeOK` `Decides` `Returns` | all strings up to 3 and patterns up to 4 characters: the match is decided, inside the strings, with bounded nesting |
| `aes_stream` | 1,923,250 | `ChunkHasRoom` `SplitFree` `RoundTrip` `ShortFails` | all paddings, all ways of cutting, right and wrong keys, object reuse |
| `aes_drain_rfc2246` | (refuted) | `RoundTrip` | see section 7 |
| `archiver` | 135,000 | `TablesReady` `CipherIsFips` `SuccessMeansPacked` `NeverMixed` `RunEnds` | three groups, two with one file, two that encrypt; the race for the tables, failures, lost writes and exceptions at every step; a refused check; restarts; tables, key schedules and rounds against FIPS-197 |
| `archive_copy` | 1,522,745 | `WildNeedsRace` | an unlocked listing goes astray only if the table changes under it |
| `copy_copies` | (refuted) | `CopyCopies` | see section 7 |

Bounds, and why they are enough:

* *Archive* (`MaxFileSize`, `ForeignSizes`). A block of 4 bytes, an entry of 2
  and a header of 1. One content fills a block exactly with its entry, the case
  in which `ALIGNTO` gives two blocks while a freed block still takes it; the
  other needs one block compressed and two plain or encrypted. The files have
  room for three extents of one block, or one and one of two (`archive_crash`),
  and for one more (`archive_clean`): enough for a freed extent that is too
  small, fits exactly, or is too large, next to a live one. `archive_clean` has
  a name that hashes to 0, and one key. `ForeignSizes` 6 is a file longer than the first
  block that Create takes over. Layout and the tables do not depend on these
  bounds: they are proved.
* *File objects* (`MaxSize`). Lengths go to 5 with 32-bit numbers wrapping at 4
  and 64-bit ones at 8, so both wraps happen, and the granularity of 2 gives
  aligned and unaligned offsets. Two objects on one file meet in every
  combination of modes; two files would only multiply independent states.
* *Pack* (`Room`, `MaxNames`, `Given`). Two names, and two objects in `pack`,
  three in `pack_clients`. `Room` lets a client's call make an object only if
  the tasks of a load then still have one each, so that a task never waits for
  an object, which in the code it never does. A name with forward slashes or a
  relative one is loaded anew by each load, which is where the list grows; two
  places are enough for an archive to be there twice. `pack_clients` uses
  symmetry of threads and objects, sound because it checks no liveness; `pack`,
  which does, uses none.
* *Cipher* (`MaxLen`). Blocks of 2 bytes of 2 bits, messages up to 3 bytes: no
  block, a part, exactly one, and one and a part. With one additional padded
  block the padding is longer than a block, the case that matters.
* *Wildcards* (`MaxString`, `MaxMatch`). Patterns with two stars with a letter
  or `?` between and around them backtrack into one another.
* *Archiver.* Two groups that share a file and one with a file of its own,
  which has two sources of one name and content, one of the same name and
  another content, an empty and an ignored one; two groups encrypt. The tables
  are compared with the standard for all 256 bytes and all columns with one
  byte in them; key schedules and rounds, which are linear in the tables but for
  lookups, for the keys and blocks that can be cut from the vectors of FIPS-197
  appendix C, with the vector of zeros and `ARCHIVE_IV`. For all others
  `EncryptsAsFips` shows it.
* *Copy.* Three indexes, one of them 0, in the target or the source or both; one
  content, because what is copied is never compared.

`CHECK_DEADLOCK FALSE` is set for `pack`, `pack_clients` (a crash or an abort
ends the process) and `wildcard` (the outermost call returns).

## 4. Fairness

`archive_clean` assumes weak fairness of `Steps`, the steps of a call that was
entered: its thread goes on. Clients need not call anything. `Wildcard` assumes
the same of its one thread.
`VFSPack` assumes that `parallel_for_each` runs each task it has and returns
when none is left; a task takes the mutex, which every holder leaves after a
bounded piece of work. `Archiver` assumes the same of `tbb::parallel_for`: a
group's task goes on or fails, and main goes on when all have ended. No
fairness is assumed of clients, crashes, failures or other processes, and none
of the file, copy and cipher specifications, which have no liveness property. A
thread that waits for the mutex of an archive again and again, as `CopyArchive`
does, is not promised by `std::recursive_mutex` that it ever gets it.

## 5. What is proved

For every value of the constants that the named assumptions allow: any number
of names, contents, keys, threads, objects; any sizes with
`HeaderSize < BytesPerBlock`; any cipher that its inverse undoes.

**Archive** (`VFSArchiveProofs` for types, layout and tables,
`VFSArchiveRefines` for the rest), for `CrashSpec`, hence with a crash after any
write and also without:

| Theorem | States |
|---|---|
| `TypeCorrect` | `[]TypeOK` |
| `LayoutSafe` | `[]Layout`: extents stay apart and large enough |
| `NoFileTwice` | `[]UniqueLive` |
| `TablesMatchDisk` | `[]Coherent` |
| `RecordsAreBuried` | `LiveOnlyBuried`: a live record is only overwritten by its tombstone |
| `WildNeedsTear` | `[]WildOnlyWhenTorn` |
| `NoSpaceLost` | `[]Tiled`: the extents follow one another without a gap |
| `Implements` | `ImplementsStore`: every step is a step or a stutter of `ArchiveStore` |

and without crashes (`Spec`, and `HistSpec` with the history on top):

| Theorem | States | Assumed besides |
|---|---|---|
| `LoadNeverLost` | `[]NeverWild` | `ShortForeign`: files the archive did not make end within the first block |
| `WritesAreRead` | `[]WrittenIsRead` of `HistSpec` | `OneKey`, and `NoCollision`: different contents have different hashes |

`Layout`, `UniqueLive` and `Coherent` are not inductive. `IInv` adds what a
Write knows between its steps (`InFlight`: its extent is the end of the file or
one no file lives in, and is large enough), when the file has a header
(`Formatting`), that an extent which starts in the first block cannot be passed
by (`LowSlots`), and that a running Load has taken in every extent up to where
it stands and nothing beyond (`Scanning`). The argument for the free list is in
`DeleteEffect` and `BeginWriteKeeps`: what best fit chooses has a tombstone on
the disk, so nothing lives there. The arithmetic is in `AlignToIsMultiple` and
`AppendFits`. `WildNeedsTear` needs `Reach` on top: the extents follow one
another from the first block to the end of the file, so a scan stands at an
extent or at the end. `WritesAreRead` goes by `Told`: each live record on the
disk, each listed file and the record that a running Write is putting holds what
its client was told, entry and payload, unless it came raw; and by `Kept`: each
file a client was told is stored is on the disk, or on its way there. `ShortForeign` is not needed, because a
Load that has gone astray is not at rest in an open archive. `HasKey` says that
what is listed or being loaded has a key, so that the one key there is opens
it. A skipped Write is where `NoCollision` comes in: the hash that is stored is
that of the content, and what is behind it was written by this content's Write
or is raw. `Implements` maps the store to what can be read
back; a record may become readable one step early, when its entry is put before
an old payload that happens to fit, so the content is published at one of two
steps, and `UniqueLive` and `InFlight` exclude every other change.

**File objects** (`VFSFileProofs`): `TypeCorrect`, `WriterAlone`
(`SoleWriter`), `BlocksFreedOnce` (`NoLeak`, for a finite set of objects),
`ObjectsHoldWhatTheyNeed` (`HeldAsNeeded`: which of handle, mapping, view and
buffer go with each type; a NONE object may still hold its handle and mapping
after a failed view), `ReadersStayInside` (`ReadsStayInside`, of the reported
size and for who set no position behind it), `SizesAreThere` (`SizeIsThere`,
but for views of the whole file from an offset). `SoleWriter` is not inductive: a write
is a write only because the type OUTPUT goes with a handle that may write, and a
new handle is compared with the access of the old ones. `Shape` says which
handle goes with which type. `BecomeKeeps` and `BecomeCounts` treat all opening
operations at once, since each replaces one object's state. The last three go
by `Settled`, what every operation leaves of its object (size, room behind it,
position, and how they differ where 32 bits wrap); the arithmetic of the wraps
is in lemmas on numbers alone (`Div`, `ModMoves`, `LessByMod`).

**Pack** (`VFSPackProofs`): all safety and action properties its runs check:
`TypeCorrect`, `LoadedOnce` (`AbsoluteOnce`), `TablesFresh` (`FreshTables`),
`CrashesOnlyOnEmptied` (`NoCrash`), `AllLoaded` (`LoadedAll`), `HandlesKept`
(`HandleKeeps`). The invariant `Inv` adds what `AbsoluteOnce` forgets with the
archives that closed: when an archive was listed by the path it keeps, none
before it kept that path (`Once`), and the list only ever loses archives or
grows at its end (`OrderKept`), so no other comes before it later. `OwnPath` is
why such a name is its own absolute path in lower case. `OnlyEmptied` says that only a client's
Unload closes a file somebody points to, and `Owed` that each name a load still
owes has a task. Each proof goes by `ListStep`, the three things any step can do
to the list and the objects, shown once in `NextLists`.

**Cipher stream** (`AesStreamProofs`): `StreamSafe`, `[](TypeOK /\
ChunkHasRoom)`, what `aes256_encrypt.cpp:120` relies on when it pads: the chunk
has room whenever calculate starts, and no byte is lost. `CallsInOrder` makes it
inductive. On it stand three theorems about whole texts, for every block size,
message, way of cutting it and cipher with `D(k, E(k, b)) = b`:

| Theorem | States |
|---|---|
| `AnySplit` | `[]SplitFree`: the text is the padded message in cipher block chaining |
| `CutOffFails` | `[]ShortFails`: no text that ends inside a block is accepted |
| `MessageComesBack` | `[]RoundTrip`, if `"rfc2246" \notin Drains`: the message comes back |

`SplitFree` compares finished texts only, so `EncText` says what an unfinished
one is: the message splits into whole blocks, of which the buffer is the chain
(`Chaining`), the chunk, and the data the running add still has. Each of the
object's steps keeps `Chaining` by a lemma of its own (`ChainingAdds`,
`ChainingFills`, `ChainingEncrypts`, `ChainingPads`), and `ChainGrows` is the
definition of CBC for one more block. `DecText` is its counterpart (`Undoing`):
the chunk and the pending data are what is left of the text that was handed
over, and what the client took together with the buffer is the beginning of the
padded message if the key is right. `HeldBack` adds what the loop of
`aes256_decrypt.cpp:104` keeps for calculate, without which there would be no
last block to find the padding in. That the last byte is the padding's length is
`PaddedShape` and `LastByte`; `TakenOff` that cutting the padding off the buffer
cuts it off the whole. The assumption of `MessageComesBack` cannot be dropped:
`aes_drain_rfc2246` refutes `RoundTrip` without it.

**Archiver** (`ArchiverProofs`): `NoTaskIsEarly` (`TablesReady`), `GroupsApart`
(`NeverMixed`), `SuccessIsTrue` (`SuccessMeansPacked`), for every configuration
and any number of groups. The last says that a group whose task is done is
packed, unless it shares its file with another or a write of its archive failed
unnoticed, and that the exit status is success only if all tasks are done, one
threw, or a check was refused and none began. `Filling` says which loops have run when a task is
past them, which is what makes the unguarded flag harmless; `OneAdder` that two
tasks at work have different files.

**Cipher** (`ArchiverProofs`, from "Bytes under exclusive or" on): `EncryptsAsFips`,
`[]CipherIsFips` for every `Sample` and `ARCHIVE_IV`, hence for every key of 128,
192 and 256 bits and every block; and `BlocksComeBack`: the decrypting
`process_chunk` gives back the block that the encrypting one was given, whatever
the 256-bit key and the chaining. The second is the law that `AesStream` assumes
of its cipher and `MessageComesBack` rests on. The argument:

1. *Bytes.* `XorFacts`: exclusive or is a group in which all is its own inverse,
   shown on nibbles, bit by bit. `TimesFacts`: a product distributes over it,
   `CirculantAdds` and `CirculantOfBytes`: so does the mixing of columns, and a
   mixed column is the sum of what each of its bytes contributes, which is what
   the combined tables hold.
2. *Rounds.* `EncryptRoundIs`, `EncryptLastIs`, `DecryptRoundIs`,
   `DecryptLastIs`: a round by the tables is a round of the standard. Decryption
   adds a key that went through `extract_decrypt_key` (`DecryptKeyIs`) after
   mixing where the standard adds it before: the same, because mixing is linear.
3. *Loops.* No induction theorem can be cited, so a loop is a sequence of states
   each of which is the step of the one before (`Reaches`); that there is one
   (`Exists`) and no other (`Unique`) goes by the least index where it would
   fail. One lemma for each loop (`EncryptRuns` to `Extract256Runs`) says that it
   computes the last state.
4. *Key schedules.* `Schedule` is the set of word sequences that satisfy the
   recurrence of the standard; it has at most one member (`OneSchedule`).
   `KeyExpansionIs` and `Extract128Is`, `Extract192Is`, `Extract256Is` show that
   the standard's expansion, one word a turn, and the code's, several a turn, are
   members.
5. *Undoing.* `CipherUndone`: the inner rounds of decryption pass through the
   states of encryption backwards (`InverseLoopIs`).

What depends on single bytes only is not proved but evaluated, as assumptions of
`SealedArchiver` without a free constant: that the products by powers of x
distribute (`FieldAssumption`, 256 x 256 x 10 cases), that the substitution and
the mixing of a column with one byte in it can be undone (`BoxAssumption`,
`ColumnAssumption`), and that the finished tables, as `Aes` computes them, hold
the boxes and products of the standard (`TablesAssumption`). TLC evaluates them
before the run `archiver`; there is nothing in them to instantiate, so they are
facts and not hypotheses.

**Archive copy** (`ArchiveCopyProofs`): `ListingSafe` (`WildNeedsRace`), for any
finite set of names, any contents and offsets, and as long as no empty file of
the source was read (`Guarded`; what its buffer holds was never written). `Walk`
says of a listing that nobody disturbs that the nodes listed and those still
ahead are as many as were counted before, so there is room when a node is met
and none is gone.

**Wildcards** (`WildcardProofs`): `DepthBounded` (`TypeOK`) and `MatchDecided`
(`Decides`), for strings and patterns of any length. `Rest(s, m)` says that the
rest of the string from `s` on can be cut to fit the pattern from `m` on.
`RestStep` cuts off the first piece, and from it come one lemma for each kind of
character (`RestOne`, `RestLetter`, `RestMany`) and one for the end (`RestEnd`):
they say how the answer at one place follows from the answers further on, which
makes an induction over the pattern unnecessary. The invariant `Inv` says that
each call on the stack but the innermost waits at a star for just the answer the
next one has to give (`Chain`), that the outermost still answers the whole
question (`Whole`), and, for the depth, that each call stands further on than
the one that made it (`Deep`). A step goes on, calls, or returns: `GoesOn`,
`CallsAnother` and `Answers` say that each keeps the stack right.

The proofs assume the `ASSUME`s of the modules (each evaluated by TLC in some
run) and the theorems on functions, sequences, finite sets and well-founded
orders of the TLAPS library. None of these modules has a `RECURSIVE` operator.

## 6. What is only model-checked

* Liveness (`LoadTerminates`, `LoadEnds`, `RunEnds`, `Returns`):
  fairness and ENABLED are beyond the proof system's installed back ends.
* The four assumptions about single bytes that section 5 names for the cipher:
  TLC computes them in full, over all bytes.

Every safety invariant and action property of a passing run is a theorem.

## 7. Disagreements found

Each is a run whose property the code violates; the counterexample is TLC's.

* `archive_torn`: Write puts the entry (`VFSArchive.cpp:431`) before the payload
  (432). A crash between them leaves a file that the next session lists and
  cannot open, which `VFSTest/src/main.cpp:31-33` treats as a failure. A retry
  with the same content does not repair it: the stored hash is the new one and
  Write returns early.
* `copy_copies`: the second loop of `CopyArchive` lists the target (line 628),
  which the first loop has emptied, so an undisturbed copy deletes everything,
  copies nothing and returns true.
* `aes_drain_rfc2246`: `aes256_decrypt.h:115-116` allows the client to empty the
  buffer between two adds. With rfc2246 padding of more than one block the
  client has then taken padding for data, and calculate reports a good text as
  invalid. (The archive uses another way of cutting and is not affected.)

Properties that hold were stated the way they hold, and say where the limits
are: `WrittenIsRead` (a name that hashes to 0 is lost at the next Load; of a raw
record nobody knows what is behind its hash, and a Write of the content with
that hash is skipped all the same), `AbsoluteOnce` (an archive given by a
relative name, with forward slashes, with dots, or kept in mixed case, is opened
and listed again by every load), `NoCrash` (a client that calls `Unload` of a listed
archive makes the next search dereference null), `SuccessMeansPacked` (an
exception in a task ends `main` with `return false`, the exit status 0; a lost
write or an encryption that failed is not noticed; a refused check ends with
success and nothing packed),
`NeverMixed` (two groups with one file: one is lost), `SizeIsThere` (a view of
the whole file from an offset reports the size of the whole file).

## 8. What is not modelled

* *Compression and hashing* (LZ4, XXH32) are parameters. That two contents of
  one hash make the duplicate test skip a Write is the assumption `NoCollision`;
  the runs use contents of different hashes.
* *Callbacks and references handed out.* The overload of `EnumerateFiles` that
  takes a callback, `GetFileStream`, `GetArchives` and `GetRegisteredArchives`
  (which return references to containers a mutex no longer guards) have no
  caller in the repository; the getters of `CVFSFile` outside the mutex read one
  member each.
* *A full disk, in the archive.* A `WriteFile` that writes less than it is given
  (`VFSArchive.cpp:430-432` ignore the result) is an outcome in `Archiver`
  (`spoilt`), where nothing is said of the bytes; in `VFSArchive` it is modelled
  only with the crash that follows it. Without one the tables and the disk differ for the rest of the
  session and `Coherent`, which the proofs rest on, is lost.
* *The pack's `Open`*: which file it gives is the first archive's that has the
  name and opens it, or the plain file on disk; it changes no state.
* *Overflow of an extent's size* in 32 bits near 4 GiB (`VFSArchive.cpp:411`).
* *A cipher object without a key* (`aes256_encrypt.cpp:113`): every client in the
  repository sets up before it adds.
* *Property lists*: a sequential conversion of text without state, whose readers
  nothing in the repository calls, so that no code says what a list that is read
  back ought to be.
* *The test program, logging, the exceptions' stack dump, `VFSLib/src/main.cpp`*
  (which no build file compiles).
* *Vendored code*: TBB, spdlog, rapidjson, nlohmann/json, LZ4, xxHash. It is
  204,950 of the 209,992 implementation lines under `src/`; the system itself has
  about 5,042, of which `map` names 2,169. The share of all lines that
  `map` covers can therefore not exceed 2.4 %.

## 9. Plan

Done, in this order: `VFSArchive` with `ArchiveStore`, `VFSFile`, `AesStream`,
`VFSPack`, `ArchiveCopy`, `Archiver`, `Wildcard`; type and safety proofs of the
archive, the file objects, the pack and the cipher stream; then the refinement
proof and the crash-free invariants of the archive, the remaining invariants of
the file objects, the cipher's tables and rounds with the race that fills them,
the unlocked listing, the archiver's proofs, the cipher stream's proofs about
whole texts, the proofs of the copy and of the wildcards, and the proof that the
cipher is the standard's for every key and block and undoes itself.

Left:

* *A write that fails without ending the process*, as a specification beside
  `Spec` and `CrashSpec`, with what the object's tables still promise.
