--------------------------- MODULE VFSFileProofs ---------------------------
(***************************************************************************)
(* For every number of objects and files: a file that is held to write is  *)
(* held by nobody else, blocks are freed once, and objects hold what goes  *)
(* with their type.                                                        *)
(*                                                                         *)
(* SoleWriter is not inductive: a Write is a write only because the type   *)
(* OUTPUT goes with a handle that may write, and a new handle is compared  *)
(* with the access of the old ones.  Shape says which handle goes with     *)
(* which type, and SoleWriter says the rest.                               *)
(*                                                                         *)
(* That every block is freed once needs nothing but the types: an          *)
(* operation frees what the object had and counts what it gets, or leaves  *)
(* all objects' memory where it is.                                        *)
(***************************************************************************)
EXTENDS VFSFile, FiniteSetTheorems, TLAPS

\* A handle of type OUTPUT may write, and one with a type of the disk is on
\* a file that exists.
Shape ==
  \A o \in Object :
    /\ file[o].type = "OUTPUT" => "W" \in file[o].access
    /\ file[o].type # "OUTPUT" => "W" \notin file[o].access
    /\ OnDisk(file[o]) => file[o].held # None
    /\ file[o].held # None => disk[file[o].held] # None

Kinds ==
  /\ disk \in [Name -> Nat \cup {None}]
  /\ file \in [Object -> State]
  /\ strayed \subseteq Object

IInv == Kinds /\ Shape /\ SoleWriter

\* What an object may become: a state in which it holds nothing, or one that
\* the system granted it.
Good(o, s) ==
  /\ s \in State
  /\ s.type = "OUTPUT" => "W" \in s.access
  /\ s.type # "OUTPUT" => "W" \notin s.access
  /\ OnDisk(s) => s.held # None
  /\ s.held # None => Grants(o, s.held, s.access)

LEMMA NatFacts ==
  /\ \A a, b \in Nat : Least(a, b) \in Nat /\ Greatest(a, b) \in Nat
  /\ \A a \in Int, b \in Nat : Greatest(a, b) \in Nat
  /\ \A a \in Int, w \in Nat \ {0} : a % w \in Nat
  BY DEF Least, Greatest

\* An object that becomes a good state keeps the invariant, if the files that
\* exist do not go away and none that another object reads is changed.
LEMMA BecomeKeeps ==
  ASSUME IInv, NEW o \in Object, NEW s, Good(o, s), file' = [file EXCEPT ![o] = s],
         disk' \in [Name -> Nat \cup {None}], strayed' \subseteq Object,
         \A f \in Name : disk[f] # None => disk'[f] # None,
         s.held # None => disk'[s.held] # None
  PROVE  IInv'
<1>1. Kinds'
  BY DEF IInv, Kinds, Good
<1>2. file'[o] = s /\ \A p \in Object \ {o} : file'[p] = file[p]
  BY DEF IInv, Kinds
<1>3. \A p \in Object : file[p].held \in Name \cup {None}
  BY DEF IInv, Kinds, State
<1>4. Shape'
  <2> SUFFICES ASSUME NEW p \in Object
               PROVE  /\ file'[p].type = "OUTPUT" => "W" \in file'[p].access
                      /\ file'[p].type # "OUTPUT" => "W" \notin file'[p].access
                      /\ OnDisk(file'[p]) => file'[p].held # None
                      /\ file'[p].held # None => disk'[file'[p].held] # None
    BY DEF Shape, OnDisk
  <2>1. CASE p = o
    BY <2>1, <1>2 DEF Good
  <2>2. CASE p # o
    BY <2>2, <1>2, <1>3 DEF IInv, Shape
  <2> QED BY <2>1, <2>2
<1>5. SoleWriter'
  <2> SUFFICES ASSUME NEW p \in Object, NEW q \in Object, p # q,
                      file'[p].held # None, file'[p].held = file'[q].held
               PROVE  "W" \notin file'[p].access
    BY DEF SoleWriter
  <2>1. CASE p = o
    BY <2>1, <1>2 DEF Good, Grants, Share
  <2>2. CASE q = o
    BY <2>2, <1>2 DEF Good, Grants, Share
  <2>3. CASE p # o /\ q # o
    BY <2>3, <1>2 DEF IInv, SoleWriter
  <2> QED BY <2>1, <2>2, <2>3
<1> QED BY <1>1, <1>4, <1>5 DEF IInv

\* A change of the position or of the length of a file that is held disturbs
\* nothing else.
LEMMA MoveKeeps ==
  ASSUME IInv, NEW o \in Object, NEW p \in Nat, file' = [file EXCEPT ![o].pos = p],
         disk' \in [Name -> Nat \cup {None}], strayed' \subseteq Object,
         \A f \in Name : disk[f] # None => disk'[f] # None
  PROVE  IInv'
<1>1. file' \in [Object -> State]
  BY DEF IInv, Kinds, State
<1>2. \A q \in Object : /\ file'[q].type = file[q].type
                        /\ file'[q].held = file[q].held
                        /\ file'[q].access = file[q].access
                        /\ file[q].held \in Name \cup {None}
  BY DEF IInv, Kinds, State
<1>3. Shape'
  BY <1>2 DEF IInv, Shape, OnDisk
<1>4. SoleWriter'
  BY <1>2 DEF IInv, SoleWriter
<1> QED BY <1>1, <1>3, <1>4 DEF IInv, Kinds

LEMMA InitEstablishes == Init => IInv
<1> SUFFICES ASSUME Init PROVE IInv
  OBVIOUS
<1>1. Closed \in State
  BY DEF Closed, State
<1>2. \A o \in Object : file[o] = Closed
  BY DEF Init
<1>3. Kinds
  BY <1>1 DEF Init, Kinds
<1>4. Shape /\ SoleWriter
  BY <1>2 DEF Shape, SoleWriter, Closed, OnDisk
<1> QED BY <1>3, <1>4 DEF IInv

\* Every operation keeps the invariant.
LEMMA NextKeeps == IInv /\ [Next]_vars => IInv'
<1> SUFFICES ASSUME IInv, [Next]_vars PROVE IInv'
  OBVIOUS
<1> USE NumbersAssumption, NoneAssumption
<1>1. CASE UNCHANGED vars
  BY <1>1 DEF vars, IInv, Kinds, Shape, SoleWriter, OnDisk
<1>2. CASE Next
  <2>1. PICK o \in Object :
          \/ Close(o) \/ OpenFails(o)
          \/ \E f \in Name :
               \/ \E append \in BOOLEAN : Create(o, f, append)
               \/ Open(o, f)
               \/ \E offset \in Length, n \in Length :
                    Map(o, f, offset, n) \/ MapViewFails(o, f, n)
          \/ \E n \in Length :
               AssignCopy(o, n) \/ Assign(o, n) \/ Read(o, n) \/ Write(o, n)
          \/ \E offset \in Offset, relative \in BOOLEAN :
               \/ SetPositionDisk(o, offset, relative)
               \/ SetPositionMemory(o, offset, relative)
    BY <1>2 DEF Next
  <2>2. /\ disk \in [Name -> Nat \cup {None}] /\ strayed \subseteq Object
        /\ file \in [Object -> State] /\ file[o] \in State
    BY DEF IInv, Kinds
  <2>3. CASE Close(o) \/ OpenFails(o)
    <3>1. Good(o, Closed)
      BY DEF Good, Closed, State, OnDisk
    <3>2. /\ file' = [file EXCEPT ![o] = Closed]
          /\ disk' = disk /\ strayed' \subseteq Object
      BY <2>3, <2>2 DEF Close, OpenFails, Become
    <3> QED BY <2>2, <3>1, <3>2, BecomeKeeps DEF Closed
  <2>4. ASSUME NEW f \in Name, NEW append \in BOOLEAN, Create(o, f, append)
        PROVE  IInv'
    <3> DEFINE s == [Closed EXCEPT !.type = "OUTPUT", !.held = f,
                                   !.access = {"R", "W"}]
    <3>1. Good(o, s)
      BY <2>4 DEF Create, Good, Closed, State, OnDisk
    <3>2. /\ file' = [file EXCEPT ![o] = s] /\ strayed' \subseteq Object
      BY <2>4, <2>2 DEF Create, Become
    <3>3. /\ disk' \in [Name -> Nat \cup {None}]
          /\ disk'[f] # None
          /\ \A g \in Name : disk[g] # None => disk'[g] # None
      BY <2>4, <2>2 DEF Create
    <3>4. s.held = f
      BY DEF Closed
    <3> HIDE DEF s
    <3> QED BY <3>1, <3>2, <3>3, <3>4, BecomeKeeps
  <2>5. ASSUME NEW f \in Name, Open(o, f)
        PROVE  IInv'
    <3> DEFINE s == [Closed EXCEPT !.type = "INPUT", !.held = f, !.access = {"R"}]
    <3>1. Good(o, s)
      BY <2>5 DEF Open, Good, Closed, State, OnDisk
    <3>2. /\ file' = [file EXCEPT ![o] = s] /\ strayed' \subseteq Object
          /\ disk' = disk /\ disk[f] # None
      BY <2>5, <2>2 DEF Open, Become
    <3>3. s.held = f
      BY DEF Closed
    <3> HIDE DEF s
    <3> QED BY <2>2, <3>1, <3>2, <3>3, BecomeKeeps
  <2>6. ASSUME NEW f \in Name, NEW offset \in Length, NEW n \in Length,
               Map(o, f, offset, n) \/ MapViewFails(o, f, n)
        PROVE  IInv'
    <3> DEFINE m == Mapping(f, n)
               start == AlignDown(offset)
               s == [m EXCEPT !.type = "MAPPED", !.raw = "view",
                              !.room = IF n = 0 THEN disk[f] - start ELSE n]
    <3>1. disk[f] \in Nat /\ Grants(o, f, {"R"})
      BY <2>2, <2>6 DEF Map, MapViewFails, Mappable
    <3>2. n \in Nat
      BY DEF Length
    <3>3. Asked(f, n) \in Nat
      <4>1. disk[f] % Word32 \in Nat
        BY <3>1, NumbersAssumption
      <4> QED BY <3>2, <4>1 DEF Asked
    <3>4. Least(Asked(f, n), disk[f]) \in Nat
      BY <3>1, <3>3, NatFacts
    <3>5. Good(o, m) /\ m.held = f /\ m \in State
      BY <3>1, <3>4 DEF Good, Mapping, Closed, State, OnDisk
    <3>6. CASE MapViewFails(o, f, n)
      <4>1. /\ file' = [file EXCEPT ![o] = m] /\ strayed' \subseteq Object
            /\ disk' = disk
        BY <3>6, <2>2 DEF MapViewFails, Become
      <4> HIDE DEF m
      <4> QED BY <4>1, <2>2, <3>1, <3>5, BecomeKeeps
    <3>7. CASE Map(o, f, offset, n)
      <4>1. /\ file' = [file EXCEPT ![o] = s] /\ strayed' \subseteq Object
            /\ disk' = disk
        BY <3>7, <2>2 DEF Map, Become
      <4>2. start < disk[f] /\ start \in Int
        BY <3>7 DEF Map, AlignDown, Length
      <4>3. (IF n = 0 THEN disk[f] - start ELSE n) \in Nat
        BY <4>2, <3>1, <3>2
      <4>4. m.access = {"R"}
        BY DEF Mapping, Closed
      <4>5. s \in State
        BY <3>5, <4>3 DEF State
      <4>6. s.type = "MAPPED" /\ s.held = f /\ s.access = {"R"}
        BY <3>5, <4>4 DEF State
      <4> HIDE DEF s
      <4>7. Good(o, s)
        BY <3>1, <4>5, <4>6 DEF Good, OnDisk
      <4> QED BY <4>1, <4>6, <4>7, <2>2, <3>1, BecomeKeeps
    <3> QED BY <2>6, <3>6, <3>7
  <2>7. ASSUME NEW n \in Length, AssignCopy(o, n) \/ Assign(o, n)
        PROVE  IInv'
    <3> DEFINE s(r) == [Closed EXCEPT !.type = "MEMORY", !.raw = r,
                                      !.room = n, !.size = n]
    <3>1. PICK r \in {"heap", "client"} :
            /\ file' = [file EXCEPT ![o] = s(r)] /\ strayed' \subseteq Object
            /\ disk' = disk
      BY <2>7, <2>2 DEF AssignCopy, Assign, Become
    <3>2. Good(o, s(r)) /\ s(r).held = None
      <4>1. n \in Nat
        BY DEF Length
      <4>2. s(r) \in State
        BY <3>1, <4>1 DEF Closed, State
      <4> QED BY <4>2 DEF Good, Closed, OnDisk
    <3> QED BY <3>1, <3>2, <2>2, BecomeKeeps
  <2>8. ASSUME NEW n \in Length, Read(o, n)
        PROVE  IInv'
    <3>1. n \in Nat /\ file[o].pos \in Nat /\ file[o].size \in Nat
      BY <2>2 DEF Length, State
    <3>2. CASE ReadDisk(o, n)
      <4> DEFINE left == Greatest(disk[file[o].held] - file[o].pos, 0)
      <4>1. disk[file[o].held] \in Nat
        BY <2>2, <3>2 DEF ReadDisk, IInv, Shape, State
      <4>2. left \in Nat
        BY <3>1, <4>1 DEF Greatest
      <4>3. file[o].pos + Least(left, n) \in Nat
        BY <3>1, <4>2 DEF Least
      <4>4. /\ file' = [file EXCEPT ![o].pos = file[o].pos + Least(left, n)]
            /\ disk' = disk /\ strayed' = strayed
        BY <3>2 DEF ReadDisk
      <4> HIDE DEF left
      <4> QED BY <4>3, <4>4, <2>2, MoveKeeps
    <3>3. CASE ReadMemory(o, n)
      <4>1. ReadLength(file[o], n) \in Nat
        <5>1. (file[o].size - file[o].pos) % Word32 \in Nat
          BY <3>1, NumbersAssumption
        <5> QED BY <3>1, <5>1 DEF ReadLength, Least
      <4>2. (file[o].pos + ReadLength(file[o], n)) % Word64 \in Nat
        BY <3>1, <4>1, NumbersAssumption
      <4>3. /\ file' = [file EXCEPT
                          ![o].pos = (file[o].pos + ReadLength(file[o], n)) % Word64]
            /\ disk' = disk /\ strayed' = strayed
        BY <3>3 DEF ReadMemory
      <4> QED BY <4>2, <4>3, <2>2, MoveKeeps
    <3> QED BY <2>8, <3>2, <3>3 DEF Read
  <2>9. ASSUME NEW n \in Length, Write(o, n)
        PROVE  IInv'
    <3> DEFINE f == file[o].held
    <3>1. n \in Nat /\ file[o].pos \in Nat
      BY <2>2 DEF Length, State
    <3>2. f \in Name /\ disk[f] \in Nat
      BY <2>2, <2>9 DEF Write, IInv, Shape, State, OnDisk
    <3>3. Greatest(disk[f], file[o].pos + n) \in Nat /\ file[o].pos + n \in Nat
      BY <3>1, <3>2 DEF Greatest
    <3>4. /\ file' = [file EXCEPT ![o].pos = file[o].pos + n]
          /\ disk' = [disk EXCEPT ![f] = Greatest(disk[f], file[o].pos + n)]
          /\ strayed' = strayed
      BY <2>9 DEF Write
    <3>5. /\ disk' \in [Name -> Nat \cup {None}]
          /\ \A g \in Name : disk[g] # None => disk'[g] # None
      BY <2>2, <3>2, <3>3, <3>4
    <3> QED BY <3>3, <3>4, <3>5, <2>2, MoveKeeps
  <2>10. ASSUME NEW offset \in Offset, NEW relative \in BOOLEAN,
                \/ SetPositionDisk(o, offset, relative)
                \/ SetPositionMemory(o, offset, relative)
         PROVE  IInv'
    <3> DEFINE p == IF relative THEN file[o].pos + offset ELSE offset
    <3>1. p \in Int
      BY <2>2 DEF Offset, State
    <3>2. CASE SetPositionDisk(o, offset, relative)
      <4>1. /\ file' = [file EXCEPT ![o].pos = p] /\ p \in Nat
            /\ disk' = disk /\ strayed' = strayed
        BY <3>1, <3>2 DEF SetPositionDisk
      <4> HIDE DEF p
      <4> QED BY <4>1, <2>2, MoveKeeps
    <3>3. CASE SetPositionMemory(o, offset, relative)
      <4>1. p % Word64 \in Nat
        BY <3>1, NatFacts
      <4>2. /\ file' = [file EXCEPT ![o].pos = p % Word64]
            /\ disk' = disk /\ strayed' \subseteq Object
        BY <3>3, <2>2 DEF SetPositionMemory
      <4> HIDE DEF p
      <4> QED BY <4>1, <4>2, <2>2, MoveKeeps
    <3> QED BY <2>10, <3>2, <3>3
  <2> QED BY <2>1, <2>3, <2>4, <2>5, <2>6, <2>7, <2>8, <2>9, <2>10
<1> QED BY <1>1, <1>2

LEMMA Invariance == Spec => []IInv
<1> QED BY InitEstablishes, NextKeeps, PTL DEF Spec

\* A file that is held to write is held by one object only.
THEOREM WriterAlone == Spec => []SoleWriter
<1>1. IInv => SoleWriter
  BY DEF IInv
<1> QED BY Invariance, <1>1, PTL

\* The length of a file does not change under an object that reads it.
NoChangeUnderReader ==
  \A o \in Object :
    LET f == file[o].held IN
      f # None /\ "W" \notin file[o].access /\ file'[o] = file[o] =>
        disk'[f] = disk[f]

LEMMA StepUnderReader == IInv /\ [Next]_vars => (NoChangeUnderReader \/ UNCHANGED vars)
<1> SUFFICES ASSUME IInv, Next, NEW r \in Object,
                    file[r].held # None, "W" \notin file[r].access, file'[r] = file[r]
             PROVE  disk'[file[r].held] = disk[file[r].held]
  BY DEF NoChangeUnderReader
<1> DEFINE f == file[r].held
<1>1. f \in Name /\ disk \in [Name -> Nat \cup {None}] /\ file \in [Object -> State]
  BY DEF IInv, Kinds, State
<1>2. ASSUME NEW o \in Object, NEW g \in Name, NEW append \in BOOLEAN,
             Create(o, g, append)
      PROVE  disk'[f] = disk[f]
  <2>1. CASE o = r
    <3>1. file'[r].access = {"R", "W"}
      BY <1>1, <1>2, <2>1 DEF Create, Become, Closed
    <3> QED BY <3>1
  <2>2. CASE o # r
    <3>1. g # f
      BY <1>2, <2>2 DEF Create, Grants, Share
    <3> QED BY <1>1, <1>2, <3>1 DEF Create
  <2> QED BY <2>1, <2>2
<1>3. ASSUME NEW o \in Object, NEW n \in Length, Write(o, n)
      PROVE  disk'[f] = disk[f]
  <2>1. "W" \in file[o].access /\ file[o].held # None
    BY <1>3 DEF Write, IInv, Shape, OnDisk
  <2>2. file[o].held # f
    BY <2>1 DEF IInv, SoleWriter
  <2> QED BY <1>1, <1>3, <2>2 DEF Write
<1>4. \/ \E o \in Object, g \in Name, append \in BOOLEAN : Create(o, g, append)
      \/ \E o \in Object, n \in Length : Write(o, n)
      \/ disk' = disk
  <2> PICK o \in Object :
        \/ Close(o) \/ OpenFails(o)
        \/ \E g \in Name :
             \/ \E append \in BOOLEAN : Create(o, g, append)
             \/ Open(o, g)
             \/ \E offset \in Length, n \in Length :
                  Map(o, g, offset, n) \/ MapViewFails(o, g, n)
        \/ \E n \in Length :
             AssignCopy(o, n) \/ Assign(o, n) \/ Read(o, n) \/ Write(o, n)
        \/ \E offset \in Offset, relative \in BOOLEAN :
             \/ SetPositionDisk(o, offset, relative)
             \/ SetPositionMemory(o, offset, relative)
    BY DEF Next
  <2> QED
    BY DEF Close, OpenFails, Open, Map, MapViewFails, AssignCopy, Assign, Read,
       ReadDisk, ReadMemory, SetPositionDisk, SetPositionMemory
<1> QED
  BY <1>2, <1>3, <1>4

-----------------------------------------------------------------------------
(* Blocks of memory *)

\* The objects that own a block.
Owners == {o \in Object : file[o].raw = "heap"}

LEMMA OwnersFinite == IsFiniteSet(Owners) /\ Cardinality(Owners) \in Nat
<1>1. IsFiniteSet(Owners)
  BY ObjectAssumption, FS_Subset DEF Owners
<1> QED BY <1>1, FS_CardinalityType

\* An operation that closes the object frees its block, and a block that it
\* gets is counted.
LEMMA BecomeCounts ==
  ASSUME Kinds, NoLeak, NEW o \in Object, NEW s, NEW n \in {0, 1},
         n = 1 <=> s.raw = "heap", Become(o, s, n)
  PROVE  NoLeak'
<1>1. file'[o] = s /\ \A p \in Object \ {o} : file'[p] = file[p]
  BY DEF Kinds, Become
<1>2. blocks = Cardinality(Owners) /\ blocks' = Freed(o) + n
  BY DEF NoLeak, Owners, Become
<1>3. /\ IsFiniteSet(Owners \ {o})
      /\ Cardinality(Owners \ {o}) = Freed(o) /\ Freed(o) \in Nat
  <2>1. CASE o \in Owners
    <3>1. Freed(o) = Cardinality(Owners) - 1
      BY <2>1, <1>2 DEF Freed, Owners
    <3>2. IsFiniteSet(Owners \ {o}) /\ Cardinality(Owners \ {o}) = Cardinality(Owners) - 1
      BY <2>1, OwnersFinite, FS_RemoveElement
    <3> QED BY <3>1, <3>2, FS_CardinalityType
  <2>2. CASE o \notin Owners
    <3>1. Freed(o) = Cardinality(Owners) /\ Owners \ {o} = Owners
      BY <2>2, <1>2 DEF Freed, Owners
    <3> QED BY <3>1, OwnersFinite
  <2> QED BY <2>1, <2>2
<1>4. CASE n = 0
  <2>1. Owners' = Owners \ {o}
    BY <1>1, <1>4 DEF Owners
  <2>2. Cardinality(Owners') = Freed(o)
    BY <2>1, <1>3
  <2>3. blocks' = Freed(o)
    BY <1>2, <1>3, <1>4
  <2> QED BY <2>2, <2>3 DEF NoLeak, Owners
<1>5. CASE n = 1
  <2>1. Owners' = (Owners \ {o}) \cup {o}
    BY <1>1, <1>5 DEF Owners
  <2>2. Cardinality(Owners') = Freed(o) + 1
    BY <2>1, <1>3, FS_AddElement
  <2> QED BY <2>2, <1>2, <1>5 DEF NoLeak, Owners
<1> QED BY <1>4, <1>5

\* Moving the position leaves all memory where it is.
LEMMA MoveCounts ==
  ASSUME Kinds, NoLeak, NEW o \in Object, NEW p, file' = [file EXCEPT ![o].pos = p],
         blocks' = blocks
  PROVE  NoLeak'
<1>1. \A q \in Object : file'[q].raw = file[q].raw
  BY DEF Kinds, State
<1> QED BY <1>1 DEF NoLeak

LEMMA NextCounts == IInv /\ NoLeak /\ [Next]_vars => NoLeak'
<1> SUFFICES ASSUME Kinds, NoLeak, [Next]_vars PROVE NoLeak'
  BY DEF IInv
<1>1. CASE UNCHANGED vars
  BY <1>1 DEF vars, NoLeak
<1>2. ASSUME NEW o \in Object, Close(o) \/ OpenFails(o)
      PROVE  NoLeak'
  <2>1. Closed.raw # "heap"
    BY DEF Closed
  <2> QED BY <1>2, <2>1, BecomeCounts DEF Close, OpenFails
<1>3. ASSUME NEW o \in Object, NEW f \in Name, NEW append \in BOOLEAN,
             Create(o, f, append) \/ Open(o, f)
      PROVE  NoLeak'
  <2>1. PICK t \in {"OUTPUT", "INPUT"}, a \in SUBSET {"R", "W"} :
          Become(o, [Closed EXCEPT !.type = t, !.held = f, !.access = a], 0)
    BY <1>3 DEF Create, Open
  <2> DEFINE s == [Closed EXCEPT !.type = t, !.held = f, !.access = a]
  <2>2. s.raw # "heap" /\ Become(o, s, 0)
    BY <2>1 DEF Closed
  <2> HIDE DEF s
  <2> QED BY <2>2, BecomeCounts
<1>4. ASSUME NEW o \in Object, NEW f \in Name, NEW offset \in Length,
             NEW n \in Length, Map(o, f, offset, n) \/ MapViewFails(o, f, n)
      PROVE  NoLeak'
  <2> DEFINE m == Mapping(f, n)
             s(r) == [m EXCEPT !.type = "MAPPED", !.raw = "view", !.room = r]
  <2>1. m.raw # "heap" /\ \A r : s(r).raw # "heap"
    BY DEF Mapping, Closed
  <2>2. Become(o, m, 0) \/ \E r : Become(o, s(r), 0)
    BY <1>4 DEF Map, MapViewFails
  <2> HIDE DEF m, s
  <2> QED BY <2>1, <2>2, BecomeCounts
<1>5. ASSUME NEW o \in Object, NEW n \in Length, AssignCopy(o, n) \/ Assign(o, n)
      PROVE  NoLeak'
  <2> DEFINE s(r) == [Closed EXCEPT !.type = "MEMORY", !.raw = r,
                                    !.room = n, !.size = n]
  <2>1. \A r : s(r).raw = r
    BY DEF Closed
  <2>2. Become(o, s("heap"), 1) \/ Become(o, s("client"), 0)
    BY <1>5 DEF AssignCopy, Assign
  <2> HIDE DEF s
  <2> QED BY <2>1, <2>2, BecomeCounts
<1>6. ASSUME NEW o \in Object, NEW n \in Length, Read(o, n) \/ Write(o, n)
      PROVE  NoLeak'
  <2>1. blocks' = blocks /\ \E p : file' = [file EXCEPT ![o].pos = p]
    BY <1>6 DEF Read, ReadDisk, ReadMemory, Write
  <2> QED BY <2>1, MoveCounts
<1>7. ASSUME NEW o \in Object, NEW offset \in Offset, NEW relative \in BOOLEAN,
             \/ SetPositionDisk(o, offset, relative)
             \/ SetPositionMemory(o, offset, relative)
      PROVE  NoLeak'
  <2>1. blocks' = blocks /\ \E p : file' = [file EXCEPT ![o].pos = p]
    BY <1>7 DEF SetPositionDisk, SetPositionMemory
  <2> QED BY <2>1, MoveCounts
<1> QED BY <1>1, <1>2, <1>3, <1>4, <1>5, <1>6, <1>7 DEF Next

LEMMA InitCounts == Init => NoLeak
<1> SUFFICES ASSUME Init PROVE NoLeak
  OBVIOUS
<1>1. {o \in Object : file[o].raw = "heap"} = {}
  BY DEF Init, Closed
<1> QED BY <1>1, FS_EmptySet DEF Init, NoLeak

\* Every block is freed once and none is lost.
THEOREM BlocksFreedOnce == Spec => []NoLeak
<1> QED BY Invariance, InitCounts, NextCounts, PTL DEF Spec

\* The variables keep their types; that no more blocks are freed than were
\* got is NoLeak.
THEOREM TypeCorrect == Spec => []TypeOK
<1>1. IInv /\ NoLeak => TypeOK
  BY OwnersFinite DEF IInv, Kinds, NoLeak, Owners, TypeOK
<1> QED BY Invariance, BlocksFreedOnce, <1>1, PTL
-----------------------------------------------------------------------------
(* Positions and sizes *)

\* A multiple of g that lies between -g and g is 0.
LEMMA Between ==
  ASSUME NEW g \in Nat \ {0}, NEW z \in Int, g * z < g, -g < g * z
  PROVE  z = 0
<1>1. CASE z >= 1
  <2>1. g * z = g + g * (z - 1) /\ g * (z - 1) >= 0
    BY <1>1
  <2> QED BY <2>1
<1>2. CASE z <= -1
  <2>1. g * z = g * (z + 1) - g /\ g * (z + 1) <= 0
    BY <1>2
  <2> QED BY <2>1
<1> QED BY <1>1, <1>2

\* What division with a remainder gives.
LEMMA Div ==
  \A a \in Int, g \in Nat \ {0} :
    /\ a \div g \in Int /\ a % g \in 0 .. g - 1
    /\ a = g * (a \div g) + (a % g)
OBVIOUS

\* How far apart two multiples of g are.
LEMMA Apart ==
  ASSUME NEW g \in Int, NEW k \in Int, NEW q \in Int, NEW l \in Int,
         NEW r \in Int, NEW s \in Int, g * l + s = g * k + r - g * q
  PROVE  g * (k - q - l) = s - r
<1>1. g * (k - q - l) = g * k - g * q - g * l
  OBVIOUS
<1> DEFINE x == g * k
           y == g * q
           z == g * l
<1>2. x \in Int /\ y \in Int /\ z \in Int
  OBVIOUS
<1>3. z + s = x + r - y
  OBVIOUS
<1>4. g * (k - q - l) = x - y - z
  BY <1>1
<1> HIDE DEF x, y, z
<1> QED BY <1>2, <1>3, <1>4

\* Taking multiples of g away leaves the remainder.
LEMMA ModMoves ==
  ASSUME NEW g \in Nat \ {0}, NEW a \in Int, NEW q \in Int
  PROVE  (a - g * q) % g = a % g
<1>1. PICK k \in Int, r \in 0 .. g - 1 : r = a % g /\ a = g * k + r
  BY Div
<1>2. a - g * q \in Int
  OBVIOUS
<1>3. PICK l \in Int, s \in 0 .. g - 1 : s = (a - g * q) % g /\ a - g * q = g * l + s
  BY <1>2, Div
<1>4. g * (k - q - l) = s - r
  BY <1>1, <1>3, Apart
<1>5. k - q - l = 0
  BY <1>4, Between
<1>6. g * 0 = s - r
  BY <1>4, <1>5
<1>7. s = r
  BY <1>6
<1> QED BY <1>1, <1>3, <1>7

\* A remainder is no more than what is divided.
LEMMA LessByMod == \A a \in Nat, w \in Nat \ {0} : a % w \in Nat /\ a % w <= a
<1> SUFFICES ASSUME NEW a \in Nat, NEW w \in Nat \ {0} PROVE a % w \in Nat /\ a % w <= a
  OBVIOUS
<1>1. CASE a < w
  BY <1>1
<1>2. CASE a >= w
  BY <1>2, Div
<1> QED BY <1>1, <1>2

\* What an object holds for its type.
Fits(s) ==
  /\ OnDisk(s) => s.held # None /\ ~s.mapping /\ s.raw = "none"
  /\ s.type = "MAPPED" => s.held # None /\ s.mapping /\ s.raw = "view"
  /\ s.type = "MEMORY" => s.held = None /\ ~s.mapping /\ s.raw \in {"heap", "client"}
  /\ s.type = "NONE" => s.raw = "none" /\ (s.mapping <=> s.held # None)

\* What HeldAsNeeded, ReadsStayInside and SizeIsThere say of one object.
Settled(o) ==
  LET s == file[o] IN
    /\ Fits(s)
    /\ InMemory(s) /\ o \notin strayed => s.pos <= s.size
    /\ InMemory(s) /\ s.room < s.size =>
         /\ s.type = "MAPPED" /\ s.room % Granule = disk[s.held] % Granule
         /\ s.size = disk[s.held] % Word32

AllSettled == \A o \in Object : Settled(o)

LEMMA SettledSays ==
  AllSettled <=> HeldAsNeeded /\ ReadsStayInside /\ SizeIsThere
BY DEF AllSettled, Settled, Fits, HeldAsNeeded, ReadsStayInside, SizeIsThere

\* The other objects stay settled: nobody changes what they map.
LEMMA OthersSettled ==
  ASSUME IInv, AllSettled, NoChangeUnderReader \/ UNCHANGED vars, NEW o \in Object,
         \A q \in Object \ {o} : file'[q] = file[q],
         \A q \in Object \ {o} : q \in strayed <=> q \in strayed',
         Settled(o)'
  PROVE  AllSettled'
<1> SUFFICES ASSUME NEW q \in Object, q # o PROVE Settled(q)'
  BY DEF AllSettled
<1>1. Settled(q) /\ file'[q] = file[q] /\ (q \in strayed <=> q \in strayed')
  BY DEF AllSettled
<1>2. file[q].type = "MAPPED" => disk'[file[q].held] = disk[file[q].held]
  <2> SUFFICES ASSUME file[q].type = "MAPPED"
               PROVE  disk'[file[q].held] = disk[file[q].held]
    OBVIOUS
  <2>1. file[q].held # None
    BY <1>1 DEF Settled, Fits
  <2>2. "W" \notin file[q].access
    BY DEF IInv, Shape
  <2> QED BY <1>1, <2>1, <2>2 DEF NoChangeUnderReader, vars
<1> QED BY <1>1, <1>2 DEF Settled, Fits, OnDisk, InMemory

\* An object that is opened or closed is settled when its new state is.
LEMMA BecomeSettles ==
  ASSUME IInv, AllSettled, NoChangeUnderReader \/ UNCHANGED vars,
         NEW o \in Object, NEW s, NEW n, Become(o, s, n),
         Fits(s),
         InMemory(s) => s.pos <= s.size,
         InMemory(s) /\ s.room < s.size =>
           /\ s.type = "MAPPED" /\ s.room % Granule = disk'[s.held] % Granule
           /\ s.size = disk'[s.held] % Word32
  PROVE  AllSettled'
<1>1. /\ file' = [file EXCEPT ![o] = s] /\ strayed' = strayed \ {o}
      /\ file \in [Object -> State]
  BY DEF Become, IInv, Kinds
<1>2. file'[o] = s /\ \A q \in Object \ {o} : file'[q] = file[q]
  BY <1>1
<1>3. Settled(o)'
  BY <1>2 DEF Settled, Fits, OnDisk, InMemory
<1> QED BY <1>1, <1>2, <1>3, OthersSettled

\* So is one whose position moves, inside its memory or with a mark that it
\* may not be there.
LEMMA MoveSettles ==
  ASSUME IInv, AllSettled, NoChangeUnderReader \/ UNCHANGED vars,
         NEW o \in Object, NEW p, file' = [file EXCEPT ![o].pos = p],
         \A q \in Object \ {o} : q \in strayed <=> q \in strayed',
         InMemory(file[o]) /\ o \notin strayed' => p <= file[o].size,
         file[o].type = "MAPPED" => disk' = disk
  PROVE  AllSettled'
<1>1. file \in [Object -> State] /\ file[o] \in State
  BY DEF IInv, Kinds
<1>2. /\ file'[o] = [file[o] EXCEPT !.pos = p]
      /\ \A q \in Object \ {o} : file'[q] = file[q]
  BY <1>1
<1>3. /\ file'[o].type = file[o].type /\ file'[o].held = file[o].held
      /\ file'[o].mapping = file[o].mapping /\ file'[o].raw = file[o].raw
      /\ file'[o].room = file[o].room /\ file'[o].size = file[o].size
      /\ file'[o].pos = p
  BY <1>1, <1>2 DEF State
<1>4. Settled(o)
  BY DEF AllSettled
<1>5. Settled(o)'
  BY <1>3, <1>4 DEF Settled, Fits, OnDisk, InMemory
<1> QED BY <1>2, <1>5, OthersSettled

\* A view has room for what the object says it maps, or runs from a multiple
\* of the granularity to the end of the file.
LEMMA MapSettles ==
  ASSUME IInv, AllSettled, NoChangeUnderReader \/ UNCHANGED vars, NEW o \in Object,
         NEW f \in Name, NEW offset \in Length, NEW n \in Length, Map(o, f, offset, n)
  PROVE  AllSettled'
<1> USE NumbersAssumption, NoneAssumption
<1> DEFINE room == IF n = 0 THEN disk[f] - AlignDown(offset) ELSE n
           size == Least(Asked(f, n), disk[f])
           m == Mapping(f, n)
           s == [m EXCEPT !.type = "MAPPED", !.raw = "view", !.room = room]
<1>1. Become(o, s, 0) /\ disk' = disk /\ AlignDown(offset) < disk[f] /\ disk[f] # None
  BY DEF Map, Mappable
<1>2. PICK d \in Nat : d = disk[f]
  BY <1>1 DEF IInv, Kinds
<1>3. n \in Nat /\ offset \in Nat
  BY DEF Length
<1>4. d % Word32 \in Nat /\ d % Word32 <= d
  BY LessByMod
<1>5. room < size => room % Granule = d % Granule /\ size = d % Word32
  <2> SUFFICES ASSUME room < size
               PROVE  room % Granule = d % Granule /\ size = d % Word32
    OBVIOUS
  <2>1. n = 0
    BY <1>2, <1>3 DEF Asked, Least
  <2>2. PICK q \in Int : AlignDown(offset) = Granule * q
    <3>1. /\ offset \div Granule \in Int
          /\ offset = Granule * (offset \div Granule) + (offset % Granule)
          /\ offset % Granule \in Int
      BY <1>3, Div
    <3>2. AlignDown(offset) = Granule * (offset \div Granule)
      BY <1>3, <3>1 DEF AlignDown
    <3> QED BY <3>1, <3>2
  <2>3. room = d - Granule * q
    BY <1>2, <2>1, <2>2
  <2>4. (d - Granule * q) % Granule = d % Granule
    <3>1. d \in Int /\ Granule \in Nat \ {0}
      OBVIOUS
    <3> QED BY <3>1, ModMoves, Zenon
  <2>5. size = d % Word32
    BY <1>2, <1>4, <2>1 DEF Asked, Least
  <2> HIDE DEF room, size
  <2> QED BY <2>3, <2>4, <2>5
<1>6. /\ s.type = "MAPPED" /\ s.held = f /\ s.pos = 0 /\ s.room = room /\ s.size = size
      /\ s.mapping /\ s.raw = "view"
  BY DEF Mapping, Closed
<1>7. 0 <= size
  BY <1>2, <1>3, <1>4 DEF Asked, Least
<1> HIDE DEF s, m, room, size
<1>8. Fits(s)
  BY <1>6 DEF Fits, OnDisk
<1> QED BY <1>1, <1>2, <1>5, <1>6, <1>7, <1>8, BecomeSettles
LEMMA NextSettles == IInv /\ AllSettled /\ [Next]_vars => AllSettled'
<1> SUFFICES ASSUME IInv, AllSettled, [Next]_vars PROVE AllSettled'
  OBVIOUS
<1> USE NumbersAssumption, NoneAssumption
<1>1. NoChangeUnderReader \/ UNCHANGED vars
  BY StepUnderReader
<1>2. \A o \in Object : file[o] \in State
  BY DEF IInv, Kinds
<1>3. CASE UNCHANGED vars
  BY <1>3 DEF vars, AllSettled, Settled, Fits, OnDisk, InMemory
<1>4. ASSUME NEW o \in Object, Close(o) \/ OpenFails(o)
      PROVE  AllSettled'
  <2>1. Become(o, Closed, 0) /\ Closed.type = "NONE" /\ Fits(Closed)
    BY <1>4 DEF Close, OpenFails, Closed, Fits, OnDisk
  <2> HIDE DEF Closed
  <2> QED BY <1>1, <2>1, BecomeSettles DEF OnDisk, InMemory
<1>5. ASSUME NEW o \in Object, NEW f \in Name, NEW append \in BOOLEAN,
             Create(o, f, append) \/ Open(o, f)
      PROVE  AllSettled'
  <2>1. PICK t \in {"OUTPUT", "INPUT"}, a \in SUBSET {"R", "W"} :
          Become(o, [Closed EXCEPT !.type = t, !.held = f, !.access = a], 0)
    BY <1>5 DEF Create, Open
  <2> DEFINE s == [Closed EXCEPT !.type = t, !.held = f, !.access = a]
  <2>2. /\ s.type = t /\ s.held = f /\ ~s.mapping /\ s.raw = "none"
        /\ Become(o, s, 0)
    BY <2>1 DEF Closed
  <2> HIDE DEF s
  <2>3. Fits(s)
    BY <2>2 DEF Fits, OnDisk
  <2> QED BY <1>1, <2>2, <2>3, BecomeSettles DEF InMemory
<1>6. ASSUME NEW o \in Object, NEW f \in Name, NEW n \in Length, MapViewFails(o, f, n)
      PROVE  AllSettled'
  <2> DEFINE m == Mapping(f, n)
  <2>1. m.type = "NONE" /\ m.held = f /\ m.mapping /\ m.raw = "none" /\ Become(o, m, 0)
    BY <1>6 DEF MapViewFails, Mapping, Closed
  <2> HIDE DEF m
  <2>2. Fits(m)
    BY <2>1 DEF Fits, OnDisk
  <2> QED BY <1>1, <2>1, <2>2, BecomeSettles DEF InMemory
<1>7. ASSUME NEW o \in Object, NEW n \in Length, AssignCopy(o, n) \/ Assign(o, n)
      PROVE  AllSettled'
  <2> DEFINE s(r) == [Closed EXCEPT !.type = "MEMORY", !.raw = r, !.room = n, !.size = n]
  <2>1. \A r : s(r).type = "MEMORY" /\ s(r).held = None /\ s(r).room = n /\ s(r).size = n
               /\ s(r).pos = 0 /\ s(r).raw = r /\ ~s(r).mapping
    BY DEF Closed
  <2>2. \E r \in {"heap", "client"}, k \in {0, 1} : Become(o, s(r), k)
    BY <1>7 DEF AssignCopy, Assign
  <2>3. n \in Nat
    BY DEF Length
  <2> HIDE DEF s
  <2>4. PICK r \in {"heap", "client"}, k \in {0, 1} : Become(o, s(r), k)
    BY <2>2
  <2>5. Fits(s(r))
    BY <2>1 DEF Fits, OnDisk
  <2>6. s(r).type = "MEMORY" /\ s(r).room = n /\ s(r).size = n /\ s(r).pos = 0
    BY <2>1
  <2> QED BY <1>1, <2>3, <2>4, <2>5, <2>6, BecomeSettles
<1>8. ASSUME NEW o \in Object, NEW n \in Length, Write(o, n)
      PROVE  AllSettled'
  <2>1. /\ file' = [file EXCEPT ![o].pos = file[o].pos + n] /\ strayed' = strayed
        /\ file[o].type = "OUTPUT"
    BY <1>8 DEF Write
  <2> QED BY <1>1, <2>1, MoveSettles DEF InMemory
<1>9. ASSUME NEW o \in Object, NEW n \in Length, ReadDisk(o, n)
      PROVE  AllSettled'
  <2>1. \E p : file' = [file EXCEPT ![o].pos = p]
    BY <1>9 DEF ReadDisk
  <2>2. strayed' = strayed /\ ~InMemory(file[o]) /\ disk' = disk
    BY <1>9 DEF ReadDisk, OnDisk, InMemory
  <2> QED BY <1>1, <2>1, <2>2, MoveSettles
\* A read from inside the memory asks for no more than is left.
<1>10. ASSUME NEW o \in Object, NEW n \in Length, ReadMemory(o, n)
       PROVE  AllSettled'
  <2> DEFINE p == (file[o].pos + ReadLength(file[o], n)) % Word64
  <2>1. /\ file' = [file EXCEPT ![o].pos = p] /\ strayed' = strayed /\ disk' = disk
    BY <1>10 DEF ReadMemory
  <2>2. ASSUME o \notin strayed
        PROVE  p <= file[o].size
    <3>1. PICK size \in Nat, pos \in Nat, k \in Nat :
            size = file[o].size /\ pos = file[o].pos /\ k = n
      BY <1>2 DEF State, Length
    <3>2. pos <= size
      BY <1>10, <2>2, <3>1 DEF ReadMemory, AllSettled, Settled
    <3>3. (size - pos) % Word32 \in Nat /\ (size - pos) % Word32 <= size - pos
      BY <3>2, LessByMod
    <3>4. PICK l \in Nat : l = ReadLength(file[o], n) /\ l <= size - pos
      BY <3>1, <3>3 DEF ReadLength, Least
    <3>5. (pos + l) % Word64 <= pos + l
      BY LessByMod
    <3>6. (pos + l) % Word64 \in Nat
      BY LessByMod
    <3>7. p = (pos + l) % Word64
      BY <3>1, <3>4
    <3> HIDE DEF p
    <3> QED BY <3>1, <3>4, <3>5, <3>6, <3>7
  <2> HIDE DEF p
  <2> QED BY <1>1, <2>1, <2>2, MoveSettles
<1>11. ASSUME NEW o \in Object, NEW offset \in Offset, NEW relative \in BOOLEAN,
              \/ SetPositionDisk(o, offset, relative)
              \/ SetPositionMemory(o, offset, relative)
       PROVE  AllSettled'
  <2>1. PICK p : /\ file' = [file EXCEPT ![o].pos = p] /\ disk' = disk
                 /\ \A q \in Object \ {o} : q \in strayed <=> q \in strayed'
                 /\ InMemory(file[o]) /\ o \notin strayed' => ~(p > file[o].size) /\ p \in Nat
    <3>1. CASE SetPositionDisk(o, offset, relative)
      BY <3>1 DEF SetPositionDisk, OnDisk, InMemory
    <3>2. CASE SetPositionMemory(o, offset, relative)
      <4> DEFINE p == (IF relative THEN file[o].pos + offset ELSE offset) % Word64
      <4>1. /\ file' = [file EXCEPT ![o].pos = p] /\ disk' = disk
            /\ strayed' = IF p > file[o].size THEN strayed \cup {o} ELSE strayed \ {o}
        BY <3>2 DEF SetPositionMemory
      <4>2. p \in Nat
        <5>1. (IF relative THEN file[o].pos + offset ELSE offset) \in Int
          BY <1>2 DEF State, Offset
        <5> QED BY <5>1, NatFacts
      <4> HIDE DEF p
      <4> QED BY <4>1, <4>2
    <3> QED BY <1>11, <3>1, <3>2
  <2>2. InMemory(file[o]) /\ o \notin strayed' => p <= file[o].size
    BY <1>2, <2>1 DEF State
  <2> QED BY <1>1, <2>1, <2>2, MoveSettles
<1> QED
  BY <1>1, <1>3, <1>4, <1>5, <1>6, <1>7, <1>8, <1>9, <1>10, <1>11, MapSettles
  DEF Next, Read

LEMMA InitSettles == Init => AllSettled
BY DEF Init, AllSettled, Settled, Fits, Closed, OnDisk, InMemory

LEMMA SettledAlways == Spec => []AllSettled
<1> QED BY Invariance, InitSettles, NextSettles, PTL DEF Spec

\* Whatever is opened, closed and assigned in which order, an object holds the
\* handle, the mapping and the memory of its type (VFSFile.cpp:71-197); what a
\* failed MapViewOfFile leaves is a handle and a mapping.
THEOREM ObjectsHoldWhatTheyNeed == Spec => []HeldAsNeeded
<1> QED BY SettledAlways, SettledSays, PTL

\* The 32-bit difference of Read (VFSFile.cpp:229) takes nobody behind the size
\* that is reported who did not set a position there.
THEOREM ReadersStayInside == Spec => []ReadsStayInside
<1> QED BY SettledAlways, SettledSays, PTL

\* What an object reports as its size is never more than its memory has,
\* except for a view of the whole file from an offset (VFSFile.cpp:146-153).
THEOREM SizesAreThere == Spec => []SizeIsThere
<1> QED BY SettledAlways, SettledSays, PTL
=============================================================================
