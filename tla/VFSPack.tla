------------------------------ MODULE VFSPack ------------------------------
(***************************************************************************)
(* CVFSPack, the one object that the threads of a program share: it keeps  *)
(* the keys, the registered names and the list of the loaded archives, and *)
(* hands out shared pointers to them.  Every operation runs under the      *)
(* pack's mutex and is one step, except LoadRegistiredArchives, whose      *)
(* tasks each take the mutex for one LoadArchive.                          *)
(*                                                                         *)
(* A name is a directory and a file.  What a caller gives is lower-cased   *)
(* first, but the name an archive keeps is its absolute path: _wfullpath   *)
(* puts the working directory, as the system spells it, before a relative  *)
(* name, turns the slashes of an absolute one and takes its dots away.     *)
(* The file system does not tell the cases apart.  What an archive file    *)
(* holds is one value.                                                     *)
(***************************************************************************)
EXTENDS Integers, FiniteSetsExt, SequencesExt

CONSTANTS
  Thread,    \* client threads
  Archive,   \* CVFSArchive objects
  Dir,       \* absolute directories as _wfullpath writes them, in any case
  LowerDir,  \* [Dir -> Dir]: the directory in lower case
  Alias,     \* absolute directories in lower case, written with forward
             \* slashes (GetExecutableDirectory's are) or with dots
  Means,     \* [Alias -> Dir]: the directory as _wfullpath writes it
  Rel,       \* no directory: a relative name
  Base,      \* file names of archives, in lower case
  Pack,      \* what an archive file may hold
  Key,
  Pattern,   \* the paths archives are registered for
  Given,     \* the names that callers give, in lower case
  MaxNames,  \* bound: length of m_archiveNames
  None

ASSUME LowerAssumption ==
  /\ LowerDir \in [Dir -> Dir]
  /\ \A d \in Dir : LowerDir[LowerDir[d]] = LowerDir[d]
  /\ Means \in [Alias -> {LowerDir[d] : d \in Dir}]
  /\ Rel \notin Dir \cup Alias /\ Alias \cap Dir = {}

ASSUME PackAssumption == None \notin Pack \cup Key \cup Archive

Place == [dir : {LowerDir[d] : d \in Dir}, base : Base]
Name == [dir : {LowerDir[d] : d \in Dir} \cup Alias \cup {Rel}, base : Base]
Path == [dir : Dir, base : Base]

ASSUME GivenAssumption == Given \subseteq Name /\ MaxNames \in Nat

VARIABLES
  disk,        \* place -> what the archive file there holds, None if none
  packing,     \* the places an archive is being written to
  cwd,         \* the working directory of the process
  archiveKeys, \* name -> key, None if none was set
  registered,  \* m_registiredArchives: a function from patterns to names
  names,       \* m_archiveNames
  archives,    \* m_archives
  object,      \* archive object -> its members, None if it is not alive
  held,        \* thread -> the archive it has a shared_ptr to, or None
  load,        \* LoadRegistiredArchives: whether it runs, the positions in
               \* names still to do, and the names it owes an archive
  dead         \* "no", "abort" or "crash": what ended the process

vars == <<disk, packing, cwd, archiveKeys, registered, names, archives,
          object, held, load, dead>>
pack == <<archiveKeys, registered, names>>

\* asked: the name it was loaded by; name: GetFileStream()->GetFileName();
\* open: m_vfsFile is set; pack: its tables; key: m_archiveKey; emptied: a
\* client called its Unload.
Member ==
  [asked : Name, name : Path, open : BOOLEAN, pack : Pack \cup {None},
   key : Key \cup {None}, emptied : BOOLEAN]

ASSUME NoneAssumption == None \notin Member

-----------------------------------------------------------------------------
(* Names *)

Absolute(n) ==
  [n EXCEPT !.dir = IF @ = Rel THEN cwd ELSE IF @ \in Alias THEN Means[@] ELSE @]
PlaceOf(p) == [p EXCEPT !.dir = LowerDir[@]]

\* An archive object lives as long as the list or a client points to it; its
\* end closes its file.
Living(a, h) == {o \in Archive : o \in Range(a) \/ \E t \in Thread : h[t] = o}
BugKeepRaw(a, h, objects) ==
  [o \in Archive |-> IF o \in Range(a) THEN objects[o] ELSE None]
Keep(a, h, objects) ==
  [o \in Archive |-> IF o \in Living(a, h) THEN objects[o] ELSE None]

\* Bound: so many more archive objects can be made.
Room(n) == Cardinality({o \in Archive : object[o] = None}) >= n

BugOpenAt(p) == {}
\* The objects that have the file at place p open, to read.
OpenAt(p) ==
  {o \in Archive : /\ object[o] # None
                   /\ object[o].open /\ PlaceOf(object[o].name) = p}

-----------------------------------------------------------------------------
(* The search in the list *)

BugNamed(n) == {}
\* The positions of the archives whose kept name is the given one.
Named(n) ==
  {i \in 1 .. Len(archives) :
     object[archives[i]].open /\ object[archives[i]].name = n}
\* The search asks every archive before the first hit for its stream, which
\* is null in one that was unloaded.
HitsNull(n) ==
  \E i \in 1 .. Len(archives) :
    ~object[archives[i]].open /\ \A j \in Named(n) : i < j
First(n) == {i \in Named(n) : \A j \in Named(n) : i <= j}

\* The file opens, the key is there and the header is an archive's.
Loadable(n) ==
  LET p == PlaceOf(Absolute(n)) IN
    disk[p] # None /\ p \notin packing /\ archiveKeys[n] # None

Loaded(n) ==
  [asked |-> n, name |-> Absolute(n), open |-> TRUE,
   pack |-> disk[PlaceOf(Absolute(n))], key |-> archiveKeys[n],
   emptied |-> FALSE]

-----------------------------------------------------------------------------
Init ==
  /\ disk \in [Place -> Pack \cup {None}] /\ packing = {}
  /\ cwd \in Dir
  /\ archiveKeys = [n \in Name |-> None]
  /\ registered = <<>> /\ names = <<>> /\ archives = <<>>
  /\ object = [o \in Archive |-> None]
  /\ held = [t \in Thread |-> None]
  /\ load = [on |-> FALSE, todo |-> {}, owes |-> {}]
  /\ dead = "no"

Crash ==
  /\ dead' = "crash"
  /\ UNCHANGED <<disk, packing, cwd, pack, archives, object, held, load>>

\* Thread t's pointer becomes o, and the list a.
Point(t, o, a, objects) ==
  /\ held' = [held EXCEPT ![t] = o]
  /\ archives' = a
  /\ object' = Keep(a, held', objects)

AppendArchive(o) == Append(archives, o)

LoadArchive(t, n) ==
  \/ HitsNull(n) /\ Crash
  \/ /\ ~HitsNull(n)
     /\ \/ \E i \in First(n) : Point(t, archives[i], archives, object)
        \/ /\ Named(n) = {} /\ Loadable(n)
           /\ \E o \in Archive :
                /\ object[o] = None /\ Room(Cardinality(load.todo) + 1)
                /\ Point(t, o, AppendArchive(o), [object EXCEPT ![o] = Loaded(n)])
        \/ Named(n) = {} /\ ~Loadable(n) /\ Point(t, None, archives, object)
     /\ UNCHANGED <<disk, packing, cwd, pack, load, dead>>

FindArchive(t, n) ==
  \/ HitsNull(n) /\ Crash
  \/ /\ ~HitsNull(n)
     /\ \/ \E i \in First(n) : Point(t, archives[i], archives, object)
        \/ Named(n) = {} /\ Point(t, None, archives, object)
     /\ UNCHANGED <<disk, packing, cwd, pack, load, dead>>

\* The client lets its pointer go.
Release(t) ==
  /\ held[t] # None /\ Point(t, None, archives, object)
  /\ UNCHANGED <<disk, packing, cwd, pack, load, dead>>

\* The list without o, which is in it once or not at all.
Without(o) ==
  IF o \in Range(archives)
  THEN {RemoveAt(archives, i) : i \in {j \in 1 .. Len(archives) : archives[j] = o}}
  ELSE {archives}

\* A load that runs owes nothing any more for an archive taken off the list.
Released(o) ==
  [load EXCEPT !.owes =
     {n \in @ : o \in Range(archives) => n \notin {object[o].asked, object[o].name}}]

BugUnloadArchive(t) ==
  /\ held[t] # None
  /\ object' = [object EXCEPT ![held[t]].open = FALSE, ![held[t]].pack = None]
  /\ load' = Released(held[t])
  /\ UNCHANGED <<disk, packing, cwd, pack, archives, held, dead>>
BugUnloadCloses(t) ==
  /\ held[t] # None
  /\ archives' \in Without(held[t])
  /\ object' = Keep(archives', held, [object EXCEPT ![held[t]].open = FALSE])
  /\ load' = Released(held[t])
  /\ UNCHANGED <<disk, packing, cwd, pack, held, dead>>
\* It gets its pointer taken off the list, and keeps it.
UnloadArchive(t) ==
  /\ held[t] # None
  /\ archives' \in Without(held[t])
  /\ object' = Keep(archives', held, object)
  /\ load' = Released(held[t])
  /\ UNCHANGED <<disk, packing, cwd, pack, held, dead>>

\* A client calls Unload of the archive itself, which stays in the list.
EmptyArchive(t) ==
  /\ held[t] # None
  /\ object' = [object EXCEPT ![held[t]].open = FALSE, ![held[t]].pack = None,
                              ![held[t]].key = None, ![held[t]].emptied = TRUE]
  /\ UNCHANGED <<disk, packing, cwd, pack, archives, held, load, dead>>

-----------------------------------------------------------------------------
(* Registration and keys *)

\* emplace keeps the name a path has already; the list gets the name anyway.
\* LoadRegistiredArchives walks the list without the mutex: a name that comes
\* while it runs may get a task or not.
RegisterArchive(n, path) ==
  /\ Len(names) < MaxNames
  /\ registered' = [p \in DOMAIN registered \cup {path} |->
                     IF p \in DOMAIN registered THEN registered[p] ELSE n]
  /\ names' = Append(names, n)
  /\ \/ UNCHANGED load
     \/ /\ load.on /\ Room(Cardinality(load.todo) + 1)
        /\ load' = [load EXCEPT !.todo = @ \cup {Len(names')}]
  /\ UNCHANGED <<disk, packing, cwd, archiveKeys, archives, object, held, dead>>

\* One of the paths of the name is forgotten, and the list keeps the name.
UnregisterArchive(n) ==
  /\ \E path \in DOMAIN registered :
       /\ registered[path] = n
       /\ registered' = [p \in DOMAIN registered \ {path} |-> registered[p]]
  /\ UNCHANGED <<disk, packing, cwd, archiveKeys, names, archives, object, held,
                 load, dead>>

SetArchiveKey(n, key) ==
  /\ archiveKeys' = [archiveKeys EXCEPT ![n] = key]
  /\ UNCHANGED <<disk, packing, cwd, registered, names, archives, object, held,
                 load, dead>>

SetWorkingDirectory(d) ==
  /\ cwd' = d
  /\ UNCHANGED <<disk, packing, pack, archives, object, held, load, dead>>

-----------------------------------------------------------------------------
(* LoadRegistiredArchives: one task for each name, in any order *)

BugStartLoad ==
  /\ ~load.on /\ Room(Len(names))
  /\ load' = [load EXCEPT !.on = TRUE, !.todo = 2 .. Len(names),
                          !.owes = Range(registered)]
  /\ UNCHANGED <<disk, packing, cwd, pack, archives, object, held, dead>>
StartLoad ==
  /\ ~load.on /\ Room(Len(names))
  /\ load' = [on |-> TRUE, todo |-> 1 .. Len(names), owes |-> Range(registered)]
  /\ UNCHANGED <<disk, packing, cwd, pack, archives, object, held, dead>>

LoadTask(i) ==
  LET n == names[i] IN
    \/ HitsNull(n) /\ Crash
    \/ /\ ~HitsNull(n)
       /\ \/ Named(n) # {} /\ UNCHANGED <<archives, object>>
          \/ /\ Named(n) = {} /\ Loadable(n)
             /\ \E o \in Archive :
                  /\ object[o] = None
                  /\ archives' = AppendArchive(o)
                  /\ object' = [object EXCEPT ![o] = Loaded(n)]
       /\ load' = [load EXCEPT !.todo = @ \ {i}]
       /\ UNCHANGED <<disk, packing, cwd, pack, held, dead>>
    \/ /\ ~HitsNull(n) /\ Named(n) = {} /\ ~Loadable(n)
       /\ dead' = "abort"
       /\ UNCHANGED <<disk, packing, cwd, pack, archives, object, held, load>>

BugEndLoad ==
  /\ load.on /\ Len(archives) = Len(names)
  /\ load' = [load EXCEPT !.on = FALSE]
  /\ UNCHANGED <<disk, packing, cwd, pack, archives, object, held, dead>>
EndLoad ==
  /\ load.on /\ load.todo = {}
  /\ load' = [load EXCEPT !.on = FALSE]
  /\ UNCHANGED <<disk, packing, cwd, pack, archives, object, held, dead>>

-----------------------------------------------------------------------------
(* The archiver, or another program, writes an archive file anew *)

BeginPack(p) ==
  /\ p \notin packing /\ OpenAt(p) = {}
  /\ packing' = packing \cup {p}
  /\ disk' = [disk EXCEPT ![p] = None]
  /\ UNCHANGED <<cwd, pack, archives, object, held, load, dead>>

EndPack(p, k) ==
  /\ p \in packing
  /\ packing' = packing \ {p}
  /\ disk' = [disk EXCEPT ![p] = k]
  /\ UNCHANGED <<cwd, pack, archives, object, held, load, dead>>

-----------------------------------------------------------------------------
Next ==
  /\ dead = "no"
  /\ \/ \E t \in Thread :
          \/ \E n \in Given : LoadArchive(t, n) \/ FindArchive(t, n)
          \/ Release(t) \/ UnloadArchive(t) \/ EmptyArchive(t)
     \/ \E n \in Given :
          \/ \E path \in Pattern : RegisterArchive(n, path)
          \/ UnregisterArchive(n)
          \/ \E key \in Key : SetArchiveKey(n, key)
     \/ \E d \in Dir : SetWorkingDirectory(d)
     \/ StartLoad \/ EndLoad
     \/ \E i \in load.todo : LoadTask(i)
     \/ \E p \in Place : BeginPack(p) \/ \E k \in Pack : EndPack(p, k)

\* parallel_for_each runs every task and returns.
Fairness ==
  /\ WF_vars(dead = "no" /\ EndLoad)
  /\ \A i \in 1 .. MaxNames : WF_vars(dead = "no" /\ i \in load.todo /\ LoadTask(i))

Spec == Init /\ [][Next]_vars /\ Fairness

-----------------------------------------------------------------------------
(* Properties *)

\* Besides the types: what the list and the clients point to is alive, and
\* nothing is in the list twice.
TypeOK ==
  /\ disk \in [Place -> Pack \cup {None}] /\ packing \subseteq Place
  /\ cwd \in Dir /\ archiveKeys \in [Name -> Key \cup {None}]
  /\ DOMAIN registered \subseteq Pattern /\ Range(registered) \subseteq Name
  /\ names \in Seq(Name) /\ Len(names) <= MaxNames
  /\ object \in [Archive -> Member \cup {None}]
  /\ archives \in Seq(Archive) /\ IsInjective(archives)
  /\ held \in [Thread -> Archive \cup {None}]
  /\ \A o \in Living(archives, held) : object[o] # None
  /\ load \in [on : BOOLEAN, todo : SUBSET (1 .. MaxNames), owes : SUBSET Name]
  /\ dead \in {"no", "abort", "crash"}

\* However many threads and tasks load it, an archive file is opened and listed
\* by its absolute path only if no open archive before it in the list keeps
\* that path in lower case.  A relative name, one with forward slashes or dots,
\* and one that was kept in the system's spelling are not recognised.
AbsoluteOnce ==
  \A i, j \in 1 .. Len(archives) :
    LET a == object[archives[i]]
        b == object[archives[j]] IN
      /\ i < j /\ a.open /\ b.open /\ PlaceOf(a.name) = PlaceOf(b.name)
      => b.asked # b.name \/ a.name # PlaceOf(a.name)

\* The tables of an archive somebody can reach are those of its file: nobody
\* packs that file anew meanwhile.
FreshTables ==
  \A o \in Archive :
    object[o] # None /\ object[o].open =>
      LET p == PlaceOf(object[o].name) IN
        disk[p] = object[o].pack /\ p \notin packing

\* A null stream is only ever asked for its name if a client unloaded an
\* archive of the list behind the pack's back.
NoCrash ==
  dead = "crash" => \E i \in 1 .. Len(archives) : object[archives[i]].emptied

\* When LoadRegistiredArchives is through, each name that was registered when
\* it began has its archive in the list, unless it was taken off since.
LoadedAll ==
  load.on /\ load.todo = {} =>
    \A n \in load.owes :
      \E i \in 1 .. Len(archives) :
        object[archives[i]].asked = n \/ object[archives[i]].name = n

\* A client's archive stays as it is while the client points to it, whatever
\* other threads do with the list; only clients that hold it can empty it.
HandleKeeps ==
  [][\A t \in Thread :
       /\ held[t] # None /\ held'[t] = held[t]
       /\ ~\E s \in Thread : held[s] = held[t] /\ EmptyArchive(s)
       => object'[held[t]] = object[held[t]]]_vars

\* LoadRegistiredArchives comes to an end.
LoadEnds == load.on ~> (~load.on \/ dead # "no")
=============================================================================
