---------------------------- MODULE ArchiveCopy ----------------------------
(***************************************************************************)
(* CVFSArchive::CopyArchive, which holds no lock of its own: it lists, it  *)
(* deletes, it reads and it writes with one locked call after the other,   *)
(* while another thread may write to and delete from the target.  The      *)
(* listing, EnumerateFiles, takes no lock at all: it counts the nodes of   *)
(* the target's table and then walks them, while the other thread may hold *)
(* the lock and change the table, one node at a time.                      *)
(*                                                                         *)
(* The source is an archive that was loaded to read (from another kind     *)
(* ReadRawData cannot map the file), so nothing changes it.  The target is *)
(* open to write.                                                          *)
(***************************************************************************)
EXTENDS Naturals, Sequences, FiniteSets

CONSTANTS
  Index,    \* name indexes
  Content,  \* stored bytes of a file
  Empty,    \* those of a file of the source that has none
  Offset,   \* [Index -> Nat]: where the source keeps the bytes of a file
  Granule,  \* the allocation granularity that views start at
  Stray,    \* other bytes of the source's file than those asked for
  Freed,    \* where the walk stands when its node is gone
  None

ASSUME OffsetAssumption == Offset \in [Index -> Nat] /\ Granule \in Nat \ {0}

\* A name index is a number of 32 bits.
ASSUME IndexAssumption == IsFiniteSet(Index)

\* 0 is in an entry that was never filled in, and may be the hash of a name.
ASSUME ValuesAssumption ==
  /\ 0 \in Index
  /\ {Stray, None, Freed} \cap (Content \cup {Empty} \cup Index) = {}
  /\ Stray # None /\ Freed # None /\ Empty \notin Content /\ None \notin BOOLEAN

VARIABLES
  from,      \* the source: index -> bytes, None if there is no such file
  to,        \* the target
  pc,        \* where the copying thread is
  loop,      \* the loop that it is in or lists for
  room,      \* the size that EnumerateFiles gave its result
  at,        \* the node its walk stands on, None at the end
  ahead,     \* the nodes that are still ahead of it, in whatever order
  list,      \* what it has found, and then what the loop has still to do
  index,     \* the file that is copied, None if none
  buffer,    \* what was read of it
  result,    \* what CopyArchive returned last, None while it runs
  writing,   \* the Write in which the other thread holds the lock, None if none
  wrote,     \* what the other thread wrote since CopyArchive was called
  disturbed  \* whether it changed the table during a listing since then

copier == <<pc, loop, room, list, index, buffer, result>>
walk == <<at, ahead>>
vars == <<from, to, copier, walk, writing, wrote, disturbed>>

\* What the target may hold.
Cells == Content \cup {Stray, None}
Files(archive) == {i \in Index : archive[i] # None}

Init ==
  /\ from \in [Index -> Content \cup {Empty, None}] /\ from[0] = None
  /\ to \in [Index -> Cells]
  /\ pc = "idle" /\ loop = "delete" /\ room = 0 /\ at = None /\ ahead = {} /\ list = <<>>
  /\ index = None /\ buffer = None /\ result = FALSE
  /\ writing \in ((Index \ Files(to)) \X Content) \cup {None}
  /\ wrote = {} /\ disturbed = FALSE

Start ==
  /\ pc = "idle"
  /\ pc' = "size" /\ loop' = "delete" /\ result' = None /\ wrote' = {} /\ disturbed' = FALSE
  /\ UNCHANGED <<from, to, room, walk, list, index, buffer, writing>>

-----------------------------------------------------------------------------
(* EnumerateFiles *)

BugListSize ==
  /\ pc = "size"
  /\ pc' = "first" /\ room' = Cardinality(Files(from)) /\ list' = <<>>
  /\ UNCHANGED <<from, to, loop, walk, index, buffer, result, writing, wrote, disturbed>>
ListSize ==
  /\ pc = "size"
  /\ pc' = "first" /\ room' = Cardinality(Files(to)) /\ list' = <<>>
  /\ UNCHANGED <<from, to, loop, walk, index, buffer, result, writing, wrote, disturbed>>

\* The walk goes on to any node that is ahead of it.
Step(nodes) ==
  \/ nodes = {} /\ at' = None /\ ahead' = {}
  \/ at' \in nodes /\ ahead' = nodes \ {at'}

ListFirst ==
  /\ pc = "first"
  /\ pc' = "walk" /\ Step(Files(to))
  /\ UNCHANGED <<from, to, loop, room, list, index, buffer, result, writing, wrote, disturbed>>

\* The result is not grown: what does not fit, or is read from a node that is
\* gone, leaves the program anywhere.
ListNode ==
  /\ pc = "walk" /\ at # None
  /\ IF at = Freed \/ Len(list) = room
       THEN pc' = "wild" /\ UNCHANGED <<list, walk>>
       ELSE list' = Append(list, at) /\ Step(ahead) /\ UNCHANGED pc
  /\ UNCHANGED <<from, to, loop, room, index, buffer, result, writing, wrote, disturbed>>

\* Places that were not reached have the index 0.
ListEnd ==
  /\ pc = "walk" /\ at = None
  /\ pc' = loop /\ list' = list \o [k \in 1 .. room - Len(list) |-> 0] /\ room' = 0
  /\ UNCHANGED <<from, to, loop, walk, index, buffer, result, writing, wrote, disturbed>>

-----------------------------------------------------------------------------
(* CopyArchive *)

\* Deleting a file that is not there, or no more, does nothing.
DeleteNext ==
  /\ pc = "delete" /\ list # <<>> /\ writing = None
  /\ to' = [to EXCEPT ![Head(list)] = None]
  /\ list' = Tail(list)
  /\ UNCHANGED <<from, pc, loop, room, walk, index, buffer, result, writing, wrote, disturbed>>

\* The second loop lists the target again, not the source.
ListAgain ==
  /\ pc = "delete" /\ list = <<>>
  /\ pc' = "size" /\ loop' = "copy"
  /\ UNCHANGED <<from, to, room, walk, list, index, buffer, result, writing, wrote, disturbed>>

Return(value) == pc' = "idle" /\ result' = value /\ list' = <<>> /\ index' = None /\ buffer' = None

\* ReadRawData without a buffer gives the size, 0 if the source has no such
\* file.
ReadSize ==
  /\ pc = "copy" /\ list # <<>>
  /\ IF Head(list) \in Files(from)
       THEN pc' = "data" /\ index' = Head(list) /\ UNCHANGED <<list, buffer, result>>
       ELSE Return(FALSE)
  /\ UNCHANGED <<from, to, loop, room, walk, writing, wrote, disturbed>>

\* Map starts a view at a multiple of the granularity.
RawData(i) == IF Offset[i] % Granule = 0 THEN from[i] ELSE Stray

\* Of an empty file not even the entry is put in the buffer, whose first bytes
\* are then taken for one: they name any file and any size.
ReadData ==
  /\ pc = "data"
  /\ \/ pc' = "write" /\ UNCHANGED <<list, result>>
        /\ IF from[index] = Empty THEN index' \in Index /\ buffer' = Stray
                                  ELSE index' = index /\ buffer' = RawData(index)
     \/ from[index] # Empty /\ Return(FALSE)  \* the file cannot be mapped
     \/ from[index] = Empty /\ pc' = "wild" /\ UNCHANGED <<list, index, buffer, result>>
  /\ UNCHANGED <<from, to, loop, room, walk, writing, wrote, disturbed>>

WriteRaw ==
  /\ pc = "write" /\ writing = None
  /\ to' = [to EXCEPT ![index] = buffer]
  /\ pc' = "copy" /\ list' = Tail(list) /\ index' = None /\ buffer' = None
  /\ UNCHANGED <<from, loop, room, walk, result, writing, wrote, disturbed>>

Finish ==
  /\ pc = "copy" /\ list = <<>>
  /\ Return(TRUE)
  /\ UNCHANGED <<from, to, loop, room, walk, writing, wrote, disturbed>>

-----------------------------------------------------------------------------
(* The other thread *)

Disturb == disturbed' = (disturbed \/ pc \in {"first", "walk"})

Erase(i) ==
  /\ to' = [to EXCEPT ![i] = None]
  /\ at' = (IF at = i THEN Freed ELSE at) /\ ahead' = ahead \ {i}
  /\ Disturb

\* The table may grow, which puts its nodes in another order.
Insert(i, c) ==
  /\ to' = [to EXCEPT ![i] = c]
  /\ IF at \in Index THEN ahead' \in SUBSET (Files(to') \ {at}) ELSE UNCHANGED ahead
  /\ Disturb /\ UNCHANGED at

\* A Write of what is there already changes nothing.
Same(i) ==
  /\ writing = None /\ to[i] # None
  /\ wrote' = wrote \cup {i}
  /\ UNCHANGED <<from, to, copier, walk, writing, disturbed>>

\* Any other one deletes the old version and then inserts the new one.
Write(i, c) ==
  /\ writing = None /\ to[i] # c
  /\ writing' = <<i, c>>
  /\ IF to[i] = None THEN UNCHANGED <<to, walk, disturbed>> ELSE Erase(i)
  /\ UNCHANGED <<from, copier, wrote>>
EndWrite ==
  /\ writing # None
  /\ Insert(writing[1], writing[2])
  /\ wrote' = wrote \cup {writing[1]} /\ writing' = None
  /\ UNCHANGED <<from, copier>>

Delete(i) ==
  /\ writing = None /\ to[i] # None
  /\ Erase(i)
  /\ UNCHANGED <<from, copier, writing, wrote>>

-----------------------------------------------------------------------------
\* Nothing is said of a process that has gone astray.
Astray == pc = "wild" /\ UNCHANGED vars

Listing == ListSize \/ ListFirst \/ ListNode \/ ListEnd
Copying == Listing \/ DeleteNext \/ ListAgain \/ ReadSize \/ ReadData \/ WriteRaw \/ Finish
Other == EndWrite \/ \E i \in Index : Same(i) \/ Delete(i) \/ \E c \in Content : Write(i, c)
\* What the other thread does between two calls is in Init: any table, and any
\* Write under way.
Next == Start \/ Copying \/ (pc \notin {"idle", "wild"} /\ Other) \/ Astray

Spec == Init /\ [][Next]_vars

-----------------------------------------------------------------------------
\* Nothing the code fails to guard against has happened: the table was left
\* alone while it was listed, and no file of the source is empty.
Guarded == ~disturbed /\ \A i \in Index : from[i] # Empty

\* The listing, which takes no lock, overruns its result or follows a node
\* that is gone only if the other thread inserts or deletes right then: a
\* Write of what is there already, or one before or after, does no harm.
WildNeedsRace == Guarded => pc # "wild"

\* VFSArchive.h:46, CopyArchive(from, to): after a copy that succeeded, and
\* that nobody disturbed, the target holds the files of the source.
CopyCopies == Guarded /\ result = TRUE /\ wrote = {} => Files(from) \subseteq Files(to)
=============================================================================
