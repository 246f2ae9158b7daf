------------------------------ MODULE VFSFile ------------------------------
(***************************************************************************)
(* CVFSFile objects over the files of a disk.  An object is a handle on a  *)
(* file (opened to write, "OUTPUT", or to read, "INPUT"), a view of one    *)
(* ("MAPPED") or a piece of memory ("MEMORY"); every operation runs under  *)
(* the object's own mutex, so it is one step, but the objects of several   *)
(* threads meet at the disk, where the operating system lets a file be     *)
(* opened or not by the access and the sharing CreateFileW is called with. *)
(*                                                                         *)
(* Of a file or a piece of memory only the length is kept.  Positions are  *)
(* unsigned numbers of 64 bits and lengths of 32, both cut down.           *)
(***************************************************************************)
EXTENDS Integers, FiniteSets

CONSTANTS
  Object,   \* the CVFSFile objects
  Name,     \* the names of the files
  Granule,  \* the allocation granularity that views start at
  Word32,   \* 2^32: what a uint32_t wraps at
  Word64,   \* 2^64
  MaxSize,  \* bound: no file or memory is longer
  None

ASSUME NumbersAssumption ==
  /\ Granule \in Nat \ {0} /\ Word32 \in Nat \ {0} /\ Word64 \in Nat \ {0}
  /\ MaxSize \in Nat /\ MaxSize < Word64

ASSUME ObjectAssumption == IsFiniteSet(Object)

ASSUME NoneAssumption == None \notin Name /\ None \notin Nat

VARIABLES
  disk,    \* name -> length of the file, None if there is none
  file,    \* object -> its members, see State below
  blocks,  \* how many blocks the objects have malloc'ed and not freed
  strayed  \* the objects whose client set a position behind the end

vars == <<disk, file, blocks, strayed>>

\* type: m_fileType; held, access: the file m_fileHandle is on and what it
\* may do there; mapping: m_mapHandle is set; raw: where m_rawData points,
\* room: how many bytes are there; size, pos: m_rawSize, m_currPos (for a
\* handle on the disk, the position the system keeps).
State ==
  [type : {"NONE", "OUTPUT", "INPUT", "MAPPED", "MEMORY"},
   held : Name \cup {None}, access : SUBSET {"R", "W"}, mapping : BOOLEAN,
   raw : {"none", "view", "heap", "client"}, room : Nat, size : Nat, pos : Nat]

Closed ==
  [type |-> "NONE", held |-> None, access |-> {}, mapping |-> FALSE,
   raw |-> "none", room |-> 0, size |-> 0, pos |-> 0]

OnDisk(s) == s.type \in {"OUTPUT", "INPUT"}
InMemory(s) == s.type \in {"MAPPED", "MEMORY"}

Least(a, b) == IF a < b THEN a ELSE b
Greatest(a, b) == IF a > b THEN a ELSE b

-----------------------------------------------------------------------------
(* The system's part in CreateFileW *)

BugShare == {"R", "W"}
\* What every handle allows others to do: FILE_SHARE_READ.
Share == {"R"}

\* Object o, which has let go of what it held, gets a handle on f: its access
\* and the sharing of the others agree, and the other way round.
Grants(o, f, access) ==
  \A p \in Object \ {o} :
    file[p].held = f => access \subseteq Share /\ file[p].access \subseteq Share

-----------------------------------------------------------------------------
Init ==
  /\ disk \in [Name -> {None} \cup 0 .. MaxSize]
  /\ file = [o \in Object |-> Closed]
  /\ blocks = 0 /\ strayed = {}

\* Close frees a block the object malloc'ed, but not a client's memory.
Freed(o) == IF file[o].raw = "heap" THEN blocks - 1 ELSE blocks

\* Every operation that opens something closes what was open, whether it
\* succeeds or not: the object becomes s.
Become(o, s, n) ==
  /\ file' = [file EXCEPT ![o] = s]
  /\ blocks' = Freed(o) + n
  /\ strayed' = strayed \ {o}

Close(o) == Become(o, Closed, 0) /\ UNCHANGED disk

\* An appending Create leaves the content alone, but starts at position 0 too.
Create(o, f, append) ==
  /\ Grants(o, f, {"R", "W"})
  /\ Become(o, [Closed EXCEPT !.type = "OUTPUT", !.held = f,
                              !.access = {"R", "W"}], 0)
  /\ disk' = [disk EXCEPT ![f] = IF append /\ @ # None THEN @ ELSE 0]

Open(o, f) ==
  /\ disk[f] # None /\ Grants(o, f, {"R"})
  /\ Become(o, [Closed EXCEPT !.type = "INPUT", !.held = f, !.access = {"R"}], 0)
  /\ UNCHANGED disk

\* CreateFileW, or CreateFileMapping, which fails for an empty file, does not
\* succeed: nothing stays open.
OpenFails(o) == Become(o, Closed, 0) /\ UNCHANGED disk

\* The length of a mapped file, which Map cuts to 32 bits when the client
\* asks for the whole file.
Asked(f, n) == IF n = 0 THEN disk[f] % Word32 ELSE n

\* Map moves the offset down to where a view may start before it looks how far
\* behind that start the data begins: the data is taken from the start.
AlignDown(offset) == offset - (offset % Granule)

\* The file and the mapping are open; n is the length the client asks for.
Mapping(f, n) ==
  [Closed EXCEPT !.held = f, !.access = {"R"}, !.mapping = TRUE,
                 !.size = Least(Asked(f, n), disk[f])]

Mappable(o, f) == disk[f] \notin {None, 0} /\ Grants(o, f, {"R"})

BugMapView(o, f, offset, n) ==
  /\ Mappable(o, f) /\ AlignDown(offset) + n <= disk[f]
  /\ AlignDown(offset) < disk[f]
  /\ Become(o, [Mapping(f, n) EXCEPT
                  !.type = "MAPPED", !.raw = "view",
                  !.size = disk[f],
                  !.room = IF n = 0 THEN disk[f] - AlignDown(offset) ELSE n], 0)
  /\ UNCHANGED disk

\* MapViewOfFile gives a view of n bytes, or up to the end of the file.
Map(o, f, offset, n) ==
  /\ Mappable(o, f) /\ AlignDown(offset) + n <= disk[f]
  /\ AlignDown(offset) < disk[f]
  /\ Become(o, [Mapping(f, n) EXCEPT
                  !.type = "MAPPED", !.raw = "view",
                  !.room = IF n = 0 THEN disk[f] - AlignDown(offset) ELSE n], 0)
  /\ UNCHANGED disk

\* MapViewOfFile fails: Map returns false, but only the next Close lets the
\* file go.
MapViewFails(o, f, n) ==
  /\ Mappable(o, f)
  /\ Become(o, Mapping(f, n), 0)
  /\ UNCHANGED disk

BugAssignKeepsOld(o, n) ==
  /\ file' = [file EXCEPT ![o] = [Closed EXCEPT !.type = "MEMORY",
                                    !.raw = "heap", !.room = n, !.size = n]]
  /\ blocks' = blocks + 1 /\ strayed' = strayed \ {o}
  /\ UNCHANGED disk

\* A copy of the client's memory, or the memory itself.
AssignCopy(o, n) ==
  /\ Become(o, [Closed EXCEPT !.type = "MEMORY", !.raw = "heap",
                              !.room = n, !.size = n], 1)
  /\ UNCHANGED disk
BugAssignKeepsFile(o, n) ==
  /\ file' = [file EXCEPT ![o].type = "MEMORY", ![o].raw = "client",
                         ![o].room = n, ![o].size = n, ![o].pos = 0]
  /\ blocks' = Freed(o) /\ strayed' = strayed \ {o}
  /\ UNCHANGED disk
Assign(o, n) ==
  /\ Become(o, [Closed EXCEPT !.type = "MEMORY", !.raw = "client",
                              !.room = n, !.size = n], 0)
  /\ UNCHANGED disk

BugReadLength(s, n) == n
\* How many bytes a Read of n bytes from memory copies: the rest, as an
\* unsigned number of 32 bits, or n.
ReadLength(s, n) == Least((s.size - s.pos) % Word32, n)

ReadDisk(o, n) ==
  /\ OnDisk(file[o])
  /\ LET left == Greatest(disk[file[o].held] - file[o].pos, 0) IN
       file' = [file EXCEPT ![o].pos = @ + Least(left, n)]
  /\ UNCHANGED <<disk, blocks, strayed>>
ReadMemory(o, n) ==
  /\ InMemory(file[o])
  /\ file' = [file EXCEPT ![o].pos = (@ + ReadLength(file[o], n)) % Word64]
  /\ UNCHANGED <<disk, blocks, strayed>>
Read(o, n) == ReadDisk(o, n) \/ ReadMemory(o, n)

\* The system may write fewer bytes than it is given: n is what it wrote.
Write(o, n) ==
  /\ file[o].type = "OUTPUT" /\ file[o].pos + n <= MaxSize
  /\ disk' = [disk EXCEPT ![file[o].held] = Greatest(@, file[o].pos + n)]
  /\ file' = [file EXCEPT ![o].pos = @ + n]
  /\ UNCHANGED <<blocks, strayed>>

\* On the disk a position may not be negative; in memory anything goes.
SetPositionDisk(o, offset, relative) ==
  /\ OnDisk(file[o])
  /\ LET p == IF relative THEN file[o].pos + offset ELSE offset IN
       0 <= p /\ p <= MaxSize /\ file' = [file EXCEPT ![o].pos = p]
  /\ UNCHANGED <<disk, blocks, strayed>>
SetPositionMemory(o, offset, relative) ==
  /\ InMemory(file[o])
  /\ LET p == (IF relative THEN file[o].pos + offset ELSE offset) % Word64 IN
       /\ file' = [file EXCEPT ![o].pos = p]
       /\ strayed' = IF p > file[o].size THEN strayed \cup {o}
                                         ELSE strayed \ {o}
  /\ UNCHANGED <<disk, blocks>>

-----------------------------------------------------------------------------
Length == 0 .. MaxSize
Offset == (-MaxSize) .. MaxSize

Next ==
  \E o \in Object :
    \/ Close(o) \/ OpenFails(o)
    \/ \E f \in Name :
         \/ \E append \in BOOLEAN : Create(o, f, append)
         \/ Open(o, f)
         \/ \E offset \in Length, n \in Length :
              Map(o, f, offset, n) \/ MapViewFails(o, f, n)
    \/ \E n \in Length :
         AssignCopy(o, n) \/ Assign(o, n) \/ Read(o, n) \/ Write(o, n)
    \/ \E offset \in Offset, relative \in BOOLEAN :
         \/ SetPositionDisk(o, offset, relative)
         \/ SetPositionMemory(o, offset, relative)

Spec == Init /\ [][Next]_vars

-----------------------------------------------------------------------------
(* Properties *)

TypeOK ==
  /\ disk \in [Name -> Nat \cup {None}]
  /\ file \in [Object -> State]
  /\ blocks \in Nat /\ strayed \subseteq Object

\* A file that is held to write is held by nobody else: the several calls an
\* archive makes to place and write an entry cannot be split by another
\* object's, and no reader sees half of them.
SoleWriter ==
  \A o, p \in Object :
    o # p /\ file[o].held # None /\ file[o].held = file[p].held =>
      "W" \notin file[o].access

\* Every block is freed once: the live ones are those the objects point to.
NoLeak == blocks = Cardinality({o \in Object : file[o].raw = "heap"})

\* The handle, the view and the buffer go with the type: the system's when
\* the object is on a disk, memory of its own or a client's when it is in
\* memory, and of a closed object nothing, unless a MapViewOfFile failed: then
\* the handle and the mapping are both left, and no view.
HeldAsNeeded ==
  \A o \in Object :
    LET s == file[o] IN
      /\ OnDisk(s) => s.held # None /\ ~s.mapping /\ s.raw = "none"
      /\ s.type = "MAPPED" => s.held # None /\ s.mapping /\ s.raw = "view"
      /\ s.type = "MEMORY" => s.held = None /\ ~s.mapping /\ s.raw \in {"heap", "client"}
      /\ s.type = "NONE" => s.raw = "none" /\ (s.mapping <=> s.held # None)

\* Reading alone never moves a position behind the reported size: only a
\* client that sets one there gets there.
ReadsStayInside ==
  \A o \in Object :
    InMemory(file[o]) /\ o \notin strayed => file[o].pos <= file[o].size

\* The size an object reports is there to be read, unless it maps the whole
\* of a file from an offset on: then the size is that of the whole file.
SizeIsThere ==
  \A o \in Object :
    LET s == file[o] IN
      InMemory(s) /\ s.room < s.size =>
        /\ s.type = "MAPPED" /\ s.room % Granule = disk[s.held] % Granule
        /\ s.size = disk[s.held] % Word32
=============================================================================
