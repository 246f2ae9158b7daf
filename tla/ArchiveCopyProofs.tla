-------------------------- MODULE ArchiveCopyProofs --------------------------
(***************************************************************************)
(* However many names and files there are, and whatever the other thread   *)
(* does outside of the listings, CopyArchive does not run astray while no  *)
(* file of the source is empty.                                            *)
(*                                                                         *)
(* The argument: while a listing is left alone, what was listed and what   *)
(* is still to be visited are as many as were counted.                     *)
(***************************************************************************)
EXTENDS ArchiveCopy, FiniteSetTheorems, SequenceTheorems, TLAPS

\* The nodes the walk has still to visit.
Todo == ahead \cup ({at} \ {None})

Typed ==
  /\ from \in [Index -> Content \cup {Empty, None}] /\ from[0] = None
  /\ to \in [Index -> Cells]
  /\ pc \in {"idle", "size", "first", "walk", "delete", "copy", "data", "write", "wild"}
  /\ loop \in {"delete", "copy"} /\ room \in Nat /\ list \in Seq(Index)
  /\ at \in Index \cup {None, Freed} /\ ahead \in SUBSET Index
  /\ index \in Index \cup {None} /\ buffer \in Cells
  /\ writing \in (Index \X Content) \cup {None} /\ wrote \in SUBSET Index
  /\ result \in BOOLEAN \cup {None} /\ disturbed \in BOOLEAN

\* The file that is read or written is one, and a listing fits its result.
Current ==
  /\ pc = "data" => index \in Files(from)
  /\ pc = "write" => index \in Index
  /\ pc \in {"data", "write"} => list # <<>>
  /\ pc = "first" => list = <<>>
  /\ pc = "walk" => Len(list) <= room

\* A listing that is left alone finds as many nodes as it counted.
Walk ==
  /\ pc = "first" => room = Cardinality(Files(to))
  /\ pc = "walk" =>
       /\ at # Freed /\ (at = None => ahead = {}) /\ at \notin ahead
       /\ Len(list) + Cardinality(Todo) = room

Core == pc # "wild" /\ Walk
Inv == Typed /\ Current /\ (Guarded => Core)
-----------------------------------------------------------------------------
(* What is in a list *)

LEMMA TailTyped ==
  ASSUME NEW S, NEW q \in Seq(S), q # <<>>
  PROVE  Head(q) \in S /\ Tail(q) \in Seq(S)
BY HeadTailProperties

LEMMA AppendTyped ==
  ASSUME NEW S, NEW q \in Seq(S), NEW x \in S
  PROVE  Append(q, x) \in Seq(S) /\ Len(Append(q, x)) = Len(q) + 1
BY AppendProperties

\* The places of the result that were not reached.
LEMMA FilledTyped ==
  ASSUME NEW q \in Seq(Index), NEW n \in Nat, Len(q) <= n
  PROVE  q \o [k \in 1 .. n - Len(q) |-> 0] \in Seq(Index)
<1>1. PICK r \in Nat : r = n - Len(q)
  BY LenProperties
<1> DEFINE z == [k \in 1 .. r |-> 0]
<1>2. z \in [1 .. r -> Index]
  BY ValuesAssumption
<1>3. z \in Seq(Index)
  BY <1>2, SeqDef
<1> HIDE DEF z
<1>4. q \o z \in Seq(Index)
  BY <1>3, ConcatProperties
<1> QED
  BY <1>1, <1>4 DEF z

-----------------------------------------------------------------------------
(* What is in an archive *)

LEMMA FilesFinite ==
  ASSUME NEW archive
  PROVE  IsFiniteSet(Files(archive)) /\ Cardinality(Files(archive)) \in Nat
<1>1. Files(archive) \subseteq Index
  BY DEF Files
<1>2. IsFiniteSet(Files(archive))
  BY <1>1, IndexAssumption, FS_Subset
<1> QED
  BY <1>2, FS_CardinalityType

\* The first node of a walk, or the next one.
LEMMA StepTakes ==
  ASSUME NEW nodes \in SUBSET Index, Step(nodes)
  PROVE  /\ at' \in Index \cup {None} /\ at' # Freed /\ ahead' \in SUBSET Index
         /\ Todo' = nodes /\ (at' = None => ahead' = {}) /\ at' \notin ahead'
BY ValuesAssumption DEF Step, Todo
-----------------------------------------------------------------------------
(* The steps of the listing *)

LEMMA InitHolds == ASSUME Init  PROVE Inv
<1>1. buffer \in Cells /\ wrote = {} /\ pc = "idle" /\ list \in Seq(Index)
  BY DEF Init, Cells
<1>2. writing \in (Index \X Content) \cup {None}
  BY DEF Init
<1>3. Typed
  BY <1>1, <1>2 DEF Init, Typed
<1> QED
  BY <1>1, <1>3 DEF Inv, Core, Current, Walk

LEMMA StartKeeps == ASSUME Inv, Start  PROVE Inv'
<1>1. Typed'
  BY DEF Inv, Typed, Start, walk
<1>2. pc' = "size"
  BY DEF Start
<1> QED
  BY <1>1, <1>2 DEF Inv, Core, Current, Walk

LEMMA ListSizeKeeps == ASSUME Inv, ListSize  PROVE Inv'
<1>1. Files(to)' = Files(to)
  BY DEF ListSize, Files
<1>2. room' \in Nat
  BY FilesFinite DEF ListSize
<1>3. Typed'
  BY <1>2 DEF Inv, Typed, ListSize, walk
<1>4. pc = "size" /\ pc' = "first" /\ list' = <<>> /\ room' = Cardinality(Files(to)')
  BY <1>1 DEF ListSize
<1> QED
  BY <1>3, <1>4 DEF Inv, Core, Current, Walk

LEMMA ListFirstKeeps == ASSUME Inv, ListFirst  PROVE Inv'
<1>1. Files(to)' = Files(to) /\ Files(to) \in SUBSET Index
  BY DEF ListFirst, Files
<1>2. /\ at' \in Index \cup {None} /\ at' # Freed /\ ahead' \in SUBSET Index
      /\ Todo' = Files(to) /\ (at' = None => ahead' = {}) /\ at' \notin ahead'
  BY <1>1, StepTakes DEF ListFirst
<1>3. Typed'
  BY <1>2 DEF Inv, Typed, ListFirst
<1>4. pc = "first" /\ pc' = "walk" /\ list' = <<>> /\ list = <<>> /\ room \in Nat
      /\ UNCHANGED room
  BY DEF ListFirst, Inv, Current, Typed
<1>5. Guarded' => Guarded
  BY DEF Guarded, ListFirst
<1>6. Len(<<>>) = 0
  OBVIOUS
<1>7. ASSUME Guarded  PROVE Len(list') + Cardinality(Todo') = room'
  <2>1. room = Cardinality(Files(to))
    BY <1>4, <1>7 DEF Inv, Core, Walk
  <2> QED
    BY <1>2, <1>4, <1>6, <2>1
<1>8. Current'
  BY <1>4, <1>6 DEF Current
<1> QED
  BY <1>2, <1>3, <1>4, <1>5, <1>7, <1>8 DEF Inv, Core, Walk

LEMMA ListNodeKeeps == ASSUME Inv, ListNode  PROVE Inv'
<1>1. /\ pc = "walk" /\ at # None /\ list \in Seq(Index) /\ room \in Nat /\ Len(list) <= room
      /\ UNCHANGED <<from, to, loop, room, index, buffer, result, writing, wrote, disturbed>>
  BY DEF ListNode, Inv, Typed, Current
<1>2. Guarded' => Guarded
  BY <1>1 DEF Guarded
<1>3. Len(list) \in Nat
  BY <1>1, LenProperties
<1>4. CASE at = Freed \/ Len(list) = room
  <2>1. pc' = "wild" /\ UNCHANGED <<list, walk>>
    BY <1>4 DEF ListNode
  <2>2. ~Guarded
    <3> SUFFICES ASSUME Guarded  PROVE FALSE
      OBVIOUS
    <3>1. at # Freed /\ Len(list) + Cardinality(Todo) = room
      BY <1>1 DEF Inv, Core, Walk
    <3>2. IsFiniteSet(Todo) /\ at \in Todo
      <4>1. Todo \subseteq Index /\ at \in Todo
        BY <1>1, <3>1 DEF Todo, Inv, Typed
      <4> QED
        BY <4>1, IndexAssumption, FS_Subset
    <3>3. Cardinality(Todo) \in Nat /\ Cardinality(Todo) # 0
      BY <3>2, FS_CardinalityType, FS_EmptySet
    <3> QED
      BY <1>1, <1>3, <1>4, <3>1, <3>3
  <2>3. Typed'
    BY <1>1, <2>1 DEF Inv, Typed, walk
  <2> QED
    BY <1>2, <2>1, <2>2, <2>3 DEF Inv, Current
<1>5. CASE ~(at = Freed \/ Len(list) = room)
  <2>1. list' = Append(list, at) /\ Step(ahead) /\ pc' = "walk" /\ at \in Index
        /\ ahead \in SUBSET Index
    BY <1>1, <1>5 DEF ListNode, Inv, Typed
  <2>2. list' \in Seq(Index) /\ Len(list') = Len(list) + 1
    BY <1>1, <2>1, AppendTyped
  <2>3. /\ at' \in Index \cup {None} /\ at' # Freed /\ ahead' \in SUBSET Index
        /\ Todo' = ahead /\ (at' = None => ahead' = {}) /\ at' \notin ahead'
    BY <2>1, StepTakes
  <2>4. Typed'
    BY <1>1, <2>1, <2>2, <2>3 DEF Inv, Typed
  <2>5. Len(list') <= room'
    BY <1>1, <1>3, <1>5, <2>2
  <2>6. ASSUME Guarded
        PROVE  Len(list') + Cardinality(Todo') = room'
    <3>1. at \notin ahead /\ Len(list) + Cardinality(Todo) = room
      BY <1>1, <2>6 DEF Inv, Core, Walk
    <3>2. Todo = ahead \cup {at}
      BY <1>1 DEF Todo
    <3>3. IsFiniteSet(ahead)
      BY <2>1, IndexAssumption, FS_Subset
    <3>4. Cardinality(Todo) = Cardinality(ahead) + 1 /\ Cardinality(ahead) \in Nat
      BY <3>1, <3>2, <3>3, FS_AddElement, FS_CardinalityType
    <3>5. Len(list) + 1 + Cardinality(ahead) = room
      BY <1>3, <3>1, <3>4
    <3> QED
      BY <1>1, <2>2, <2>3, <3>5
  <2>7. Current'
    BY <2>1, <2>5 DEF Current
  <2> QED
    BY <1>2, <2>1, <2>3, <2>4, <2>6, <2>7 DEF Inv, Core, Walk
<1> QED
  BY <1>4, <1>5

LEMMA ListEndKeeps == ASSUME Inv, ListEnd  PROVE Inv'
<1>1. /\ pc = "walk" /\ list \in Seq(Index) /\ room \in Nat /\ Len(list) <= room
      /\ loop \in {"delete", "copy"} /\ pc' = loop /\ room' = 0
      /\ UNCHANGED <<from, to, loop, walk, index, buffer, result, writing, wrote, disturbed>>
  BY DEF ListEnd, Inv, Typed, Current
<1>2. list' \in Seq(Index)
  BY <1>1, FilledTyped DEF ListEnd
<1>3. Typed'
  BY <1>1, <1>2 DEF Inv, Typed, walk
<1> QED
  BY <1>1, <1>3 DEF Inv, Core, Current, Walk
-----------------------------------------------------------------------------
(* The steps of CopyArchive *)

\* Outside of a listing there is little to keep.
LEMMA Between ==
  ASSUME Typed', Current', pc' \notin {"first", "walk", "wild"}
  PROVE  Inv'
BY DEF Inv, Core, Walk

LEMMA DeleteNextKeeps == ASSUME Inv, DeleteNext  PROVE Inv'
<1>1. /\ pc = "delete" /\ list \in Seq(Index) /\ list # <<>> /\ to \in [Index -> Cells]
      /\ to' = [to EXCEPT ![Head(list)] = None] /\ list' = Tail(list)
      /\ UNCHANGED <<from, pc, loop, room, at, ahead, index, buffer, result,
                     writing, wrote, disturbed>>
  BY DEF DeleteNext, Inv, Typed, walk
<1>2. list' \in Seq(Index) /\ to' \in [Index -> Cells]
  BY <1>1, TailTyped DEF Cells
<1>3. Typed' /\ Current'
  BY <1>1, <1>2 DEF Inv, Typed, Current
<1> QED
  BY <1>1, <1>3, Between

LEMMA ListAgainKeeps == ASSUME Inv, ListAgain  PROVE Inv'
<1>1. Typed' /\ Current' /\ pc' = "size"
  BY DEF ListAgain, Inv, Typed, Current, walk
<1> QED
  BY <1>1, Between

LEMMA ReturnKeeps ==
  ASSUME Inv, NEW value \in BOOLEAN, Return(value),
         UNCHANGED <<from, to, loop, room, walk, writing, wrote, disturbed>>
  PROVE  Inv'
<1>1. /\ pc' = "idle" /\ result' = value /\ list' = <<>> /\ index' = None /\ buffer' = None
      /\ UNCHANGED <<from, to, loop, room, at, ahead, writing, wrote, disturbed>>
  BY DEF Return, walk
<1>2. list' \in Seq(Index) /\ buffer' \in Cells
  BY <1>1 DEF Cells
<1>3. Typed' /\ Current'
  BY <1>1, <1>2 DEF Inv, Typed, Current
<1> QED
  BY <1>1, <1>3, Between

LEMMA ReadSizeKeeps == ASSUME Inv, ReadSize  PROVE Inv'
<1>1. /\ pc = "copy" /\ list # <<>> /\ list \in Seq(Index)
      /\ UNCHANGED <<from, to, loop, room, walk, writing, wrote, disturbed>>
  BY DEF ReadSize, Inv, Typed
<1>2. CASE Head(list) \notin Files(from)
  BY <1>1, <1>2, ReturnKeeps DEF ReadSize
<1>3. CASE Head(list) \in Files(from)
  <2>1. /\ pc' = "data" /\ index' = Head(list) /\ UNCHANGED <<list, buffer, result>>
        /\ index' \in Files(from)' /\ index' \in Index
    BY <1>1, <1>3 DEF ReadSize, Files
  <2>2. Typed' /\ Current'
    BY <1>1, <2>1 DEF Inv, Typed, Current, walk
  <2> QED
    BY <2>1, <2>2, Between
<1> QED
  BY <1>2, <1>3

LEMMA ReadDataKeeps == ASSUME Inv, ReadData  PROVE Inv'
<1>1. /\ pc = "data" /\ list # <<>>
      /\ index \in Index /\ from[index] # None
      /\ from[index] \in Content \cup {Empty, None}
      /\ UNCHANGED <<from, to, loop, room, walk, writing, wrote, disturbed>>
  BY DEF ReadData, Inv, Typed, Current, Files
<1>2. Guarded' => from[index] # Empty
  BY <1>1 DEF Guarded
<1>3. CASE pc' = "write" /\ UNCHANGED <<list, result>>
           /\ IF from[index] = Empty THEN index' \in Index /\ buffer' = Stray
                                     ELSE index' = index /\ buffer' = RawData(index)
  <2>1. index' \in Index /\ buffer' \in Cells
    BY <1>1, <1>3 DEF RawData, Cells
  <2>2. Typed' /\ Current'
    BY <1>1, <1>3, <2>1 DEF Inv, Typed, Current, walk
  <2> QED
    BY <1>3, <2>2, Between
<1>4. CASE Return(FALSE)
  BY <1>1, <1>4, ReturnKeeps
<1>5. CASE from[index] = Empty /\ pc' = "wild" /\ UNCHANGED <<list, index, buffer, result>>
  <2>1. Typed' /\ Current'
    BY <1>1, <1>5 DEF Inv, Typed, Current, walk
  <2> QED
    BY <1>2, <1>5, <2>1 DEF Inv
<1> QED
  BY <1>3, <1>4, <1>5 DEF ReadData

LEMMA WriteRawKeeps == ASSUME Inv, WriteRaw  PROVE Inv'
<1>1. /\ pc = "write" /\ list \in Seq(Index) /\ list # <<>>
      /\ index \in Index /\ buffer \in Cells /\ to \in [Index -> Cells]
      /\ to' = [to EXCEPT ![index] = buffer]
      /\ pc' = "copy" /\ list' = Tail(list) /\ index' = None /\ buffer' = None
      /\ UNCHANGED <<from, loop, room, at, ahead, result, writing, wrote, disturbed>>
  BY DEF WriteRaw, Inv, Typed, Current, walk
<1>2. to' \in [Index -> Cells] /\ list' \in Seq(Index) /\ buffer' \in Cells
  BY <1>1, TailTyped DEF Cells
<1>3. Typed' /\ Current'
  BY <1>1, <1>2 DEF Inv, Typed, Current
<1> QED
  BY <1>1, <1>3, Between

LEMMA FinishKeeps == ASSUME Inv, Finish  PROVE Inv'
BY ReturnKeeps DEF Finish

-----------------------------------------------------------------------------
(* The steps of the other thread *)

\* Whatever it does to the table, outside of a listing or noticed by it.
LEMMA OtherKeeps ==
  ASSUME Inv, pc \notin {"idle", "wild"}, UNCHANGED <<from, copier>>, Typed',
         disturbed => disturbed',
         pc \in {"first", "walk"} /\ ~disturbed' => UNCHANGED <<to, at, ahead>>
  PROVE  Inv'
<1>1. UNCHANGED <<from, pc, loop, room, list, index, buffer, result>>
  BY DEF copier
<1>2. Guarded' => Guarded
  BY <1>1 DEF Guarded
<1>3. Current'
  BY <1>1 DEF Inv, Current, Files
<1>4. ASSUME Guarded'  PROVE Core'
  <2>1. Core /\ ~disturbed'
    BY <1>2, <1>4 DEF Inv, Guarded
  <2>2. CASE pc \in {"first", "walk"}
    <3>1. UNCHANGED <<to, at, ahead>>
      BY <2>1, <2>2
    <3>2. Todo' = Todo /\ Files(to)' = Files(to)
      BY <3>1 DEF Todo, Files
    <3> QED
      BY <1>1, <2>1, <3>1, <3>2 DEF Core, Walk
  <2>3. CASE pc \notin {"first", "walk"}
    BY <1>1, <2>1, <2>3 DEF Core, Walk
  <2> QED
    BY <2>2, <2>3
<1> QED
  BY <1>3, <1>4 DEF Inv

LEMMA EraseFacts ==
  ASSUME Inv, NEW i \in Index, Erase(i)
  PROVE  /\ to' \in [Index -> Cells]
         /\ at' \in Index \cup {None, Freed} /\ ahead' \in SUBSET Index
         /\ disturbed' \in BOOLEAN /\ (disturbed => disturbed')
         /\ pc \in {"first", "walk"} => disturbed'
<1>1. to \in [Index -> Cells] /\ None \in Cells /\ to' = [to EXCEPT ![i] = None]
  BY DEF Inv, Typed, Cells, Erase
<1>2. disturbed' = (disturbed \/ pc \in {"first", "walk"})
  BY DEF Erase, Disturb
<1>3. disturbed' \in BOOLEAN /\ (disturbed => disturbed')
      /\ (pc \in {"first", "walk"} => disturbed')
  BY <1>2
<1> QED
  BY <1>1, <1>3 DEF Inv, Typed, Erase

LEMMA SameKeeps ==
  ASSUME Inv, pc \notin {"idle", "wild"}, NEW i \in Index, Same(i)
  PROVE  Inv'
<1>1. Typed'
  BY DEF Inv, Typed, Same, copier, walk
<1>2. UNCHANGED <<from, to, copier, at, ahead, disturbed>>
  BY DEF Same, walk
<1> QED
  BY <1>1, <1>2, OtherKeeps

LEMMA WriteKeeps ==
  ASSUME Inv, pc \notin {"idle", "wild"}, NEW i \in Index, NEW c \in Content, Write(i, c)
  PROVE  Inv'
<1>1. UNCHANGED <<from, copier, wrote>> /\ writing' \in (Index \X Content) \cup {None}
  BY DEF Write
<1>2. CASE to[i] = None
  <2>1. UNCHANGED <<to, at, ahead, disturbed>>
    BY <1>2 DEF Write, walk
  <2>2. Typed'
    BY <1>1, <2>1 DEF Inv, Typed, copier
  <2> QED
    BY <1>1, <2>1, <2>2, OtherKeeps
<1>3. CASE to[i] # None
  <2>1. Erase(i)
    BY <1>3 DEF Write
  <2>2. Typed'
    BY <1>1, <2>1, EraseFacts DEF Inv, Typed, copier
  <2> QED
    BY <1>1, <2>1, <2>2, EraseFacts, OtherKeeps
<1> QED
  BY <1>2, <1>3

LEMMA DeleteKeeps ==
  ASSUME Inv, pc \notin {"idle", "wild"}, NEW i \in Index, Delete(i)
  PROVE  Inv'
<1>1. UNCHANGED <<from, copier, wrote, writing>> /\ Erase(i)
  BY DEF Delete
<1>2. Typed'
  BY <1>1, EraseFacts DEF Inv, Typed, copier
<1> QED
  BY <1>1, <1>2, EraseFacts, OtherKeeps

LEMMA EndWriteKeeps ==
  ASSUME Inv, pc \notin {"idle", "wild"}, EndWrite
  PROVE  Inv'
<1>1. PICK i \in Index, c \in Content : writing = <<i, c>>
  BY DEF EndWrite, Inv, Typed
<1>2. /\ Insert(i, c) /\ wrote' = wrote \cup {i} /\ writing' = None
      /\ UNCHANGED <<from, copier>>
  BY <1>1 DEF EndWrite
<1>3. to \in [Index -> Cells] /\ c \in Cells /\ to' = [to EXCEPT ![i] = c]
  BY <1>2 DEF Inv, Typed, Cells, Insert
<1>4. at' = at /\ ahead' \in SUBSET Index
  BY <1>2 DEF Insert, Files, Inv, Typed
<1>5. disturbed' = (disturbed \/ pc \in {"first", "walk"})
  BY <1>2 DEF Insert, Disturb
<1>6. disturbed' \in BOOLEAN /\ (disturbed => disturbed')
      /\ (pc \in {"first", "walk"} => disturbed')
  BY <1>5
<1>7. Typed'
  BY <1>2, <1>3, <1>4, <1>6 DEF Inv, Typed, copier
<1> QED
  BY <1>2, <1>6, <1>7, OtherKeeps

-----------------------------------------------------------------------------
LEMMA StepKeeps == ASSUME Inv, [Next]_vars  PROVE Inv'
<1>1. CASE UNCHANGED vars
  <2>1. /\ UNCHANGED <<from, to, pc, loop, room, list, index, buffer, result>>
        /\ UNCHANGED <<at, ahead, writing, wrote, disturbed>>
    BY <1>1 DEF vars, copier, walk
  <2> QED
    BY <2>1 DEF Inv, Typed, Current, Guarded, Core, Walk, Todo, Files
<1>2. CASE pc \notin {"idle", "wild"} /\ Other
  BY <1>2, EndWriteKeeps, SameKeeps, DeleteKeeps, WriteKeeps DEF Other
<1>3. CASE Copying
  BY <1>3, ListSizeKeeps, ListFirstKeeps, ListNodeKeeps, ListEndKeeps, DeleteNextKeeps,
     ListAgainKeeps, ReadSizeKeeps, ReadDataKeeps, WriteRawKeeps, FinishKeeps
     DEF Copying, Listing
<1> QED
  BY <1>1, <1>2, <1>3, StartKeeps DEF Next, Astray

LEMMA Invariance == Spec => []Inv
BY InitHolds, StepKeeps, PTL DEF Spec

\* CopyArchive's listing never overruns its result nor follows a node that is
\* gone unless the table is changed right then, or a file of the source is
\* empty (VFSArchive.cpp:489-496).
THEOREM ListingSafe == Spec => []WildNeedsRace
<1>1. Inv => WildNeedsRace
  BY DEF Inv, Core, WildNeedsRace
<1> QED
  BY <1>1, Invariance, PTL
=============================================================================
