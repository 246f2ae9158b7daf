--------------------------- MODULE VFSPackProofs ---------------------------
(***************************************************************************)
(* What holds for a pack with any number of threads, archives and names.   *)
(*                                                                         *)
(* What the list, the pointers of the threads and the objects may become   *)
(* in one step is said once, by ListStep: objects end and the list gets    *)
(* shorter, one archive is loaded and appended, or one is emptied.  Each   *)
(* property is then a matter of these three cases and of the few actions   *)
(* that change what it compares the objects with.                          *)
(***************************************************************************)
EXTENDS VFSPack, SequenceTheorems, TLAPS

Lists ==
  /\ archives \in Seq(Archive) /\ IsInjective(archives)
  /\ held \in [Thread -> Archive \cup {None}]
  /\ object \in [Archive -> Member \cup {None}]
  /\ \A o \in Living(archives, held) : object[o] # None

System ==
  /\ disk \in [Place -> Pack \cup {None}] /\ packing \subseteq Place
  /\ cwd \in Dir /\ archiveKeys \in [Name -> Key \cup {None}]
  /\ dead \in {"no", "abort", "crash"}

\* The tasks of a load are for names of the list, and every registered name
\* is in it.
Registry ==
  /\ names \in Seq(Name) /\ Len(names) <= MaxNames
  /\ DOMAIN registered \subseteq Pattern
  /\ Range(registered) \subseteq Range(names)
  /\ load \in [on : BOOLEAN, todo : SUBSET (1 .. MaxNames), owes : SUBSET Name]
  /\ load.todo \subseteq 1 .. Len(names)

-----------------------------------------------------------------------------
(* The list *)

LEMMA AppendToList ==
  ASSUME archives \in Seq(Archive), IsInjective(archives),
         NEW o \in Archive, o \notin Range(archives)
  PROVE  /\ Append(archives, o) \in Seq(Archive)
         /\ IsInjective(Append(archives, o))
         /\ Range(Append(archives, o)) = Range(archives) \cup {o}
<1> DEFINE a == Append(archives, o)
<1>1. /\ a \in Seq(Archive) /\ Len(a) = Len(archives) + 1 /\ Len(archives) \in Nat
      /\ \A i \in 1 .. Len(archives) : a[i] = archives[i]
      /\ a[Len(archives) + 1] = o
  OBVIOUS
<1>2. DOMAIN a = 1 .. Len(archives) + 1 /\ DOMAIN archives = 1 .. Len(archives)
  BY <1>1
<1>3. IsInjective(a)
  BY <1>1, <1>2 DEF IsInjective, Range
<1>4. Range(a) = Range(archives) \cup {o}
  BY <1>1, <1>2 DEF Range
<1> QED BY <1>1, <1>3, <1>4

LEMMA SecondPart ==
  ASSUME NEW S, NEW s \in Seq(S), NEW n \in Nat, n = Len(s), NEW i \in 1 .. n
  PROVE  /\ SubSeq(s, i + 1, n) \in Seq(S) /\ Len(SubSeq(s, i + 1, n)) = n - i
         /\ \A j \in 1 .. n - i : SubSeq(s, i + 1, n)[j] = s[i + j]
<1>1. i + 1 \in Int /\ n \in Int /\ n - (i + 1) + 1 = n - i
  OBVIOUS
<1>2. i + 1 <= n \/ n - i = 0
  OBVIOUS
<1>3. \A j \in i + 1 .. n : s[j] \in S
  OBVIOUS
<1>4. /\ SubSeq(s, i + 1, n) \in Seq(S)
      /\ Len(SubSeq(s, i + 1, n)) = IF i + 1 <= n THEN n - (i + 1) + 1 ELSE 0
      /\ \A j \in 1 .. n - (i + 1) + 1 : SubSeq(s, i + 1, n)[j] = s[i + 1 + j - 1]
  BY <1>1, <1>3, SubSeqProperties
<1> DEFINE r == SubSeq(s, i + 1, n)
<1> HIDE DEF r
<1>5. Len(r) = n - i
  BY <1>1, <1>2, <1>4 DEF r
<1>6. \A j \in 1 .. n - i : r[j] = s[i + j]
  <2>1. \A j \in 1 .. n - i : i + 1 + j - 1 = i + j
    OBVIOUS
  <2> QED BY <1>1, <1>4, <2>1 DEF r
<1> QED BY <1>4, <1>5, <1>6 DEF r

LEMMA RemoveAtFacts ==
  ASSUME NEW S, NEW s \in Seq(S), NEW i \in 1 .. Len(s)
  PROVE  /\ RemoveAt(s, i) \in Seq(S) /\ Len(RemoveAt(s, i)) = Len(s) - 1
         /\ \A j \in 1 .. Len(s) - 1 :
              RemoveAt(s, i)[j] = IF j < i THEN s[j] ELSE s[j + 1]
<1> DEFINE n == Len(s)
<1>n. n \in Nat /\ i \in 1 .. n /\ n = Len(s)
  OBVIOUS
<1> HIDE DEF n
<1> DEFINE b == SubSeq(s, 1, i - 1)
           r == SubSeq(s, i + 1, n)
<1>1. /\ b \in Seq(S) /\ Len(b) = i - 1
      /\ \A j \in 1 .. i - 1 : b[j] = s[j]
  BY <1>n
<1>2. /\ r \in Seq(S) /\ Len(r) = n - i
      /\ \A j \in 1 .. n - i : r[j] = s[i + j]
  BY SecondPart, <1>n
<1>3. RemoveAt(s, i) = b \o r
  BY DEF RemoveAt, n
<1> HIDE DEF b, r
<1>4. /\ b \o r \in Seq(S) /\ Len(b \o r) = Len(b) + Len(r)
      /\ \A j \in 1 .. Len(b) + Len(r) :
           (b \o r)[j] = IF j <= Len(b) THEN b[j] ELSE r[j - Len(b)]
  BY <1>1, <1>2, ConcatProperties
<1>5. Len(b) + Len(r) = n - 1
  BY <1>1, <1>2, <1>n
<1>6. ASSUME NEW j \in 1 .. n - 1
      PROVE  (b \o r)[j] = IF j < i THEN s[j] ELSE s[j + 1]
  <2>1. CASE j < i
    <3>1. j \in 1 .. i - 1 /\ j <= Len(b) /\ j \in 1 .. Len(b) + Len(r)
      BY <2>1, <1>1, <1>5, <1>n
    <3> QED BY <3>1, <2>1, <1>1, <1>4
  <2>2. CASE ~(j < i)
    <3>1. /\ j - (i - 1) \in 1 .. n - i /\ i + (j - (i - 1)) = j + 1
          /\ ~(j <= Len(b)) /\ j \in 1 .. Len(b) + Len(r)
      BY <2>2, <1>1, <1>5, <1>n
    <3> QED BY <3>1, <2>2, <1>1, <1>2, <1>4
  <2> QED BY <2>1, <2>2
<1> QED BY <1>3, <1>4, <1>5, <1>6, <1>n

LEMMA TakenOffList ==
  ASSUME archives \in Seq(Archive), IsInjective(archives),
         NEW o \in Archive, NEW a \in Without(o)
  PROVE  /\ a \in Seq(Archive) /\ IsInjective(a)
         /\ Range(a) = Range(archives) \ {o}
<1>1. CASE o \notin Range(archives)
  BY <1>1 DEF Without
<1>2. CASE o \in Range(archives)
  <2>1. PICK i \in 1 .. Len(archives) : archives[i] = o /\ a = RemoveAt(archives, i)
    BY <1>2 DEF Without
  <2> DEFINE n == Len(archives)
  <2>2. n \in Nat /\ DOMAIN archives = 1 .. n /\ i \in 1 .. n
    BY <2>1
  <2>3. /\ a \in Seq(Archive) /\ Len(a) = n - 1
        /\ \A j \in 1 .. n - 1 : a[j] = IF j < i THEN archives[j] ELSE archives[j + 1]
    BY <2>1, RemoveAtFacts
  <2>4. DOMAIN a = 1 .. n - 1
    BY <2>3
  <2>5. ASSUME NEW j \in 1 .. n - 1, NEW k \in 1 .. n - 1, a[j] = a[k]
        PROVE  j = k
    <3> DEFINE J == IF j < i THEN j ELSE j + 1
               K == IF k < i THEN k ELSE k + 1
    <3>1. J \in 1 .. n /\ K \in 1 .. n /\ (J = K => j = k)
      BY <2>2
    <3>2. a[j] = archives[J] /\ a[k] = archives[K]
      BY <2>3
    <3>3. \A u, v \in 1 .. n : archives[u] = archives[v] => u = v
      BY <2>2 DEF IsInjective
    <3> HIDE DEF J, K
    <3> QED BY <3>1, <3>2, <3>3, <2>5
  <2>6. \A x \in Range(a) : x \in Range(archives) /\ x # o
    BY <2>1, <2>2, <2>3, <2>4 DEF IsInjective, Range
  <2>7. ASSUME NEW x \in Range(archives), x # o
        PROVE  x \in Range(a)
    <3>1. PICK k \in 1 .. n : archives[k] = x /\ k # i
      BY <2>1, <2>2, <2>7 DEF Range
    <3>2. CASE k < i
      BY <3>1, <3>2, <2>2, <2>3, <2>4 DEF Range
    <3>3. CASE k > i
      <4>1. k - 1 \in 1 .. n - 1 /\ a[k - 1] = x
        BY <3>1, <3>3, <2>2, <2>3
      <4> QED BY <4>1, <2>4 DEF Range
    <3> QED BY <3>1, <3>2, <3>3, <2>2
  <2>8. IsInjective(a)
    BY <2>4, <2>5 DEF IsInjective
  <2> QED BY <2>3, <2>8, <2>6, <2>7
<1> QED BY <1>1, <1>2

\* What is taken off the list leaves the rest in its order.
LEMMA OrderKept ==
  ASSUME archives \in Seq(Archive), NEW o \in Archive, NEW a \in Without(o),
         NEW i \in 1 .. Len(a), NEW j \in 1 .. Len(a), i < j
  PROVE  \E k, l \in 1 .. Len(archives) :
           k < l /\ archives[k] = a[i] /\ archives[l] = a[j]
<1>1. CASE o \notin Range(archives)
  BY <1>1 DEF Without
<1>2. CASE o \in Range(archives)
  <2>1. PICK x \in 1 .. Len(archives) : archives[x] = o /\ a = RemoveAt(archives, x)
    BY <1>2 DEF Without
  <2> DEFINE n == Len(archives)
  <2>2. n \in Nat /\ n = Len(archives) /\ x \in 1 .. n
    BY <2>1
  <2>3. /\ Len(a) = n - 1
        /\ \A y \in 1 .. n - 1 : a[y] = IF y < x THEN archives[y] ELSE archives[y + 1]
    BY <2>1, RemoveAtFacts
  <2> HIDE DEF n
  <2>4. i \in 1 .. n - 1 /\ j \in 1 .. n - 1
    BY <2>3
  <2> DEFINE K == IF i < x THEN i ELSE i + 1
             L == IF j < x THEN j ELSE j + 1
  <2>5. K \in 1 .. n /\ L \in 1 .. n /\ K < L
    BY <2>2, <2>4
  <2>6. a[i] = archives[K] /\ a[j] = archives[L]
    BY <2>3, <2>4
  <2> HIDE DEF K, L
  <2> QED BY <2>2, <2>5, <2>6
<1> QED BY <1>1, <1>2

\* The end of the objects nobody points to.
LEMMA KeepFacts ==
  ASSUME NEW a, NEW h, NEW objects \in [Archive -> Member \cup {None}]
  PROVE  /\ Keep(a, h, objects) \in [Archive -> Member \cup {None}]
         /\ \A o \in Archive : Keep(a, h, objects)[o] \in {objects[o], None}
         /\ \A o \in Living(a, h) : Keep(a, h, objects)[o] = objects[o]
<1> QED BY DEF Keep, Living

-----------------------------------------------------------------------------
(* What a step may do to the list and the objects *)

Ends(o) == object'[o] \in {object[o], None}

Before(p, q) ==
  \E i, j \in 1 .. Len(archives) : i < j /\ archives[i] = p /\ archives[j] = q

Shrinks ==
  /\ Range(archives') \subseteq Range(archives)
  /\ \A p, q \in Archive : Before(p, q)' => Before(p, q)
  /\ \A o \in Archive : Ends(o)

Loads(n) ==
  /\ Named(n) = {} /\ Loadable(n)
  /\ UNCHANGED <<disk, packing, cwd>>
  /\ \E o \in Archive :
       /\ object[o] = None /\ object'[o] = Loaded(n)
       /\ archives' = Append(archives, o)
       /\ Range(archives') = Range(archives) \cup {o}
       /\ \A p \in Archive \ {o} : Ends(p)

ListStep ==
  \/ Shrinks
  \/ \E s \in Thread : EmptyArchive(s)
  \/ \E n \in Name : Loads(n)

LEMMA LoadedType ==
  ASSUME System, NEW n \in Name, Loadable(n)
  PROVE  Loaded(n) \in Member /\ Loaded(n) # None
<1>1. Absolute(n) \in Path
  <2> DEFINE d == IF n.dir = Rel THEN cwd
                ELSE IF n.dir \in Alias THEN Means[n.dir] ELSE n.dir
  <2>1. d \in Dir
    <3>1. CASE n.dir = Rel
      BY <3>1 DEF System
    <3>2. CASE n.dir \in Alias
      BY <3>2, LowerAssumption
    <3>3. CASE n.dir # Rel /\ n.dir \notin Alias
      BY <3>3, LowerAssumption DEF Name
    <3> QED BY <3>1, <3>2, <3>3
  <2>2. Absolute(n) = [n EXCEPT !.dir = d]
    BY DEF Absolute, Name
  <2> HIDE DEF d
  <2> QED BY <2>1, <2>2 DEF Name, Path
<1>2. PlaceOf(Absolute(n)) \in Place
  BY <1>1 DEF Path, Place, PlaceOf
<1>3. archiveKeys[n] \in Key \cup {None} /\ disk[PlaceOf(Absolute(n))] \in Pack \cup {None}
  BY <1>2 DEF System
<1>4. Loaded(n) \in Member
  BY <1>1, <1>3 DEF Loaded, Member
<1> QED BY <1>4, NoneAssumption

\* Objects only end, and nothing new is pointed to.
LEMMA KeepStep ==
  ASSUME Lists,
         archives' \in Seq(Archive), IsInjective(archives'),
         held' \in [Thread -> Archive \cup {None}],
         Range(archives') \subseteq Range(archives),
         \A p, q \in Archive : Before(p, q)' => Before(p, q),
         Living(archives', held') \subseteq Living(archives, held),
         object' = Keep(archives', held', object)
  PROVE  Lists' /\ Shrinks
<1>1. /\ object' \in [Archive -> Member \cup {None}]
      /\ \A o \in Archive : object'[o] \in {object[o], None}
      /\ \A o \in Living(archives', held') : object'[o] = object[o]
  BY KeepFacts DEF Lists
<1> QED BY <1>1 DEF Lists, Shrinks, Ends

LEMMA PointStep ==
  ASSUME Lists, NEW t \in Thread, NEW o \in Range(archives) \cup {None},
         Point(t, o, archives, object)
  PROVE  Lists' /\ Shrinks
<1>1. archives' = archives /\ object' = Keep(archives', held', object)
  BY DEF Point
<1>2. Range(archives) \subseteq Archive
  BY DEF Lists, Range
<1>3. held' \in [Thread -> Archive \cup {None}]
  BY <1>2 DEF Lists, Point
<1>4. Living(archives', held') \subseteq Living(archives, held)
  BY <1>1, PackAssumption DEF Living, Point, Lists
<1>5. \A p, q \in Archive : Before(p, q)' => Before(p, q)
  BY <1>1 DEF Before
<1> QED BY <1>1, <1>3, <1>4, <1>5, KeepStep DEF Lists

\* One archive is loaded; besides the old pointers there may be one to it.
LEMMA LoadStep ==
  ASSUME Lists, System, NEW n \in Name, NEW o \in Archive,
         Named(n) = {}, Loadable(n), UNCHANGED <<disk, packing, cwd>>,
         object[o] = None, archives' = AppendArchive(o),
         held' \in [Thread -> Archive \cup {None}],
         \A t \in Thread : held'[t] \in {held[t], o},
         NEW objects, objects = [object EXCEPT ![o] = Loaded(n)],
         object' \in {objects, Keep(archives', held', objects)}
  PROVE  Lists' /\ Loads(n)
<1>1. o \notin Range(archives)
  BY DEF Lists, Living
<1>2. /\ archives' \in Seq(Archive) /\ IsInjective(archives')
      /\ Range(archives') = Range(archives) \cup {o}
  BY <1>1, AppendToList DEF Lists, AppendArchive
<1>3. /\ objects \in [Archive -> Member \cup {None}]
      /\ objects[o] = Loaded(n) /\ Loaded(n) # None
      /\ \A p \in Archive \ {o} : objects[p] = object[p]
  BY LoadedType DEF Lists
<1>4. /\ object' \in [Archive -> Member \cup {None}]
      /\ \A p \in Archive : object'[p] \in {objects[p], None}
      /\ \A p \in Living(archives', held') : object'[p] = objects[p]
  <2>1. CASE object' = objects
    BY <2>1, <1>3 DEF Living
  <2>2. CASE object' = Keep(archives', held', objects)
    BY <2>2, <1>3 DEF Keep, Living
  <2> QED BY <2>1, <2>2
<1>5. o \in Living(archives', held')
  BY <1>2 DEF Living
<1>6. Living(archives', held') \subseteq Living(archives, held) \cup {o}
  BY <1>2 DEF Living
<1>7. \A p \in Living(archives', held') : object'[p] # None
  BY <1>3, <1>4, <1>6 DEF Lists
<1>8. Lists'
  BY <1>2, <1>4, <1>7 DEF Lists
<1>9. \A p \in Archive \ {o} : Ends(p)
  BY <1>3, <1>4 DEF Ends
<1>10. object'[o] = Loaded(n)
  BY <1>3, <1>4, <1>5
<1> QED BY <1>2, <1>8, <1>9, <1>10 DEF Loads, AppendArchive

LEMMA EmptyStep ==
  ASSUME Lists, NEW t \in Thread, EmptyArchive(t)
  PROVE  /\ Lists' /\ UNCHANGED <<archives, held>>
         /\ held[t] \in Archive /\ object[held[t]] # None
         /\ object'[held[t]] =
              [object[held[t]] EXCEPT !.open = FALSE, !.pack = None,
                                      !.key = None, !.emptied = TRUE]
         /\ \A p \in Archive \ {held[t]} : object'[p] = object[p]
<1> DEFINE o == held[t]
           m == [object[o] EXCEPT !.open = FALSE, !.pack = None,
                                  !.key = None, !.emptied = TRUE]
<1>1. o \in Archive /\ o \in Living(archives, held)
  BY PackAssumption DEF EmptyArchive, Lists, Living
<1>2. object[o] \in Member
  BY <1>1 DEF Lists
<1>3. m \in Member
  BY <1>2 DEF Member
<1>4. object' = [object EXCEPT ![o] = m]
  BY <1>1 DEF EmptyArchive, Lists
<1>5. UNCHANGED <<archives, held>>
  BY DEF EmptyArchive
<1> HIDE DEF m
<1>6. object' \in [Archive -> Member \cup {None}]
  BY <1>1, <1>3, <1>4 DEF Lists
<1>7. object'[o] = m /\ \A p \in Archive \ {o} : object'[p] = object[p]
  BY <1>1, <1>4 DEF Lists
<1>8. \A p \in Living(archives', held') : object'[p] # None
  BY <1>3, <1>5, <1>7, NoneAssumption DEF Lists, Living
<1>9. Lists'
  BY <1>5, <1>6, <1>8 DEF Lists
<1> QED BY <1>1, <1>2, <1>5, <1>7, <1>9, NoneAssumption DEF m

LEMMA FoundInList ==
  ASSUME Lists, NEW n, NEW i \in First(n)
  PROVE  archives[i] \in Range(archives)
<1>1. i \in 1 .. Len(archives) /\ DOMAIN archives = 1 .. Len(archives)
  BY DEF First, Named, Lists
<1> QED BY <1>1 DEF Range

LEMMA NextLists ==
  ASSUME Lists, System, Registry, [Next]_vars
  PROVE  Lists' /\ ListStep
<1> USE DEF Lists
<1>1. ASSUME UNCHANGED <<archives, object, held>>
      PROVE  Lists' /\ ListStep
  BY <1>1 DEF ListStep, Shrinks, Ends, Living, Before
<1>2. ASSUME NEW n, Crash
      PROVE  Lists' /\ ListStep
  BY <1>1, <1>2 DEF Crash
<1> HIDE DEF Lists
<1>3. ASSUME NEW t \in Thread, NEW n \in Given, LoadArchive(t, n)
      PROVE  Lists' /\ ListStep
  <2>1. CASE \E i \in First(n) : Point(t, archives[i], archives, object)
    BY <2>1, FoundInList, PointStep DEF ListStep
  <2>2. CASE Point(t, None, archives, object)
    BY <2>2, PointStep DEF ListStep
  <2>3. CASE ~HitsNull(n) /\ Named(n) = {} /\ Loadable(n) /\ ~Crash
             /\ ~Point(t, None, archives, object)
             /\ ~\E i \in First(n) : Point(t, archives[i], archives, object)
    <3>1. n \in Name
      BY GivenAssumption
    <3>2. PICK o \in Archive :
            /\ object[o] = None
            /\ Point(t, o, AppendArchive(o), [object EXCEPT ![o] = Loaded(n)])
      BY <1>3, <2>3 DEF LoadArchive
    <3>3. UNCHANGED <<disk, packing, cwd>>
      BY <1>3, <2>3 DEF LoadArchive
    <3>4. /\ held' \in [Thread -> Archive \cup {None}]
          /\ \A s \in Thread : held'[s] \in {held[s], o}
          /\ archives' = AppendArchive(o)
          /\ object' = Keep(archives', held', [object EXCEPT ![o] = Loaded(n)])
      BY <3>2 DEF Point, Lists
    <3>5. Lists' /\ Loads(n)
      BY <2>3, <3>1, <3>2, <3>3, <3>4, LoadStep
    <3> QED BY <3>1, <3>5 DEF ListStep
  <2> QED BY <1>2, <1>3, <2>1, <2>2, <2>3 DEF LoadArchive
<1>4. ASSUME NEW t \in Thread, NEW n \in Given, FindArchive(t, n)
      PROVE  Lists' /\ ListStep
  BY <1>2, <1>4, FoundInList, PointStep DEF FindArchive, ListStep
<1>5. ASSUME NEW t \in Thread, Release(t)
      PROVE  Lists' /\ ListStep
  BY <1>5, PointStep DEF Release, ListStep
<1>6. ASSUME NEW t \in Thread, UnloadArchive(t)
      PROVE  Lists' /\ ListStep
  <2>1. held[t] \in Archive /\ UNCHANGED held /\ archives' \in Without(held[t])
        /\ object' = Keep(archives', held', object)
    BY <1>6 DEF UnloadArchive, Lists
  <2>2. /\ archives' \in Seq(Archive) /\ IsInjective(archives')
        /\ Range(archives') = Range(archives) \ {held[t]}
    BY <2>1, TakenOffList DEF Lists
  <2>3. Living(archives', held') \subseteq Living(archives, held)
    BY <2>1, <2>2 DEF Living
  <2>4. ASSUME NEW p \in Archive, NEW q \in Archive, Before(p, q)'
        PROVE  Before(p, q)
    <3>1. PICK i \in 1 .. Len(archives'), j \in 1 .. Len(archives') :
            i < j /\ archives'[i] = p /\ archives'[j] = q
      BY <2>4 DEF Before
    <3>2. \E k, l \in 1 .. Len(archives) :
            k < l /\ archives[k] = archives'[i] /\ archives[l] = archives'[j]
      BY <2>1, <3>1, OrderKept DEF Lists
    <3> QED BY <3>1, <3>2 DEF Before
  <2> QED BY <2>1, <2>2, <2>3, <2>4, KeepStep DEF Lists, ListStep
<1>7. ASSUME NEW t \in Thread, EmptyArchive(t)
      PROVE  Lists' /\ ListStep
  BY <1>7, EmptyStep DEF ListStep
<1>8. ASSUME NEW i \in load.todo, LoadTask(i)
      PROVE  Lists' /\ ListStep
  <2> DEFINE n == names[i]
  <2>1. n \in Name
    BY DEF Registry
  <2>2. CASE UNCHANGED <<archives, object, held>>
    BY <2>2, <1>1
  <2>3. CASE ~UNCHANGED <<archives, object, held>>
    <3>1. PICK o \in Archive :
            /\ object[o] = None /\ archives' = AppendArchive(o)
            /\ object' = [object EXCEPT ![o] = Loaded(n)]
      BY <1>8, <2>3 DEF LoadTask, Crash
    <3>2. Named(n) = {} /\ Loadable(n) /\ UNCHANGED <<disk, packing, cwd, held>>
      BY <1>8, <2>3 DEF LoadTask, Crash
    <3> HIDE DEF n
    <3>3. held' \in [Thread -> Archive \cup {None}]
          /\ \A s \in Thread : held'[s] \in {held[s], o}
      BY <3>2 DEF Lists
    <3>4. Lists' /\ Loads(n)
      BY <2>1, <3>1, <3>2, <3>3, LoadStep
    <3> QED BY <2>1, <3>4 DEF ListStep
  <2> QED BY <2>2, <2>3
<1>9. ASSUME NEW n \in Given, NEW path \in Pattern, RegisterArchive(n, path)
      PROVE  Lists' /\ ListStep
  BY <1>1, <1>9 DEF RegisterArchive
<1>10. ASSUME NEW n \in Given, UnregisterArchive(n)
       PROVE  Lists' /\ ListStep
  BY <1>1, <1>10 DEF UnregisterArchive
<1>11. ASSUME NEW n \in Given, NEW key \in Key, SetArchiveKey(n, key)
       PROVE  Lists' /\ ListStep
  BY <1>1, <1>11 DEF SetArchiveKey
<1>12. ASSUME NEW d \in Dir, SetWorkingDirectory(d)
       PROVE  Lists' /\ ListStep
  BY <1>1, <1>12 DEF SetWorkingDirectory
<1>13. CASE StartLoad \/ EndLoad
  BY <1>1, <1>13 DEF StartLoad, EndLoad
<1>14. ASSUME NEW p \in Place, BeginPack(p) \/ \E k \in Pack : EndPack(p, k)
       PROVE  Lists' /\ ListStep
  BY <1>1, <1>14 DEF BeginPack, EndPack
<1>15. CASE UNCHANGED vars
  BY <1>1, <1>15 DEF vars
<1> QED BY <1>3, <1>4, <1>5, <1>6, <1>7, <1>8, <1>9, <1>10, <1>11, <1>12,
           <1>13, <1>14, <1>15 DEF Next

-----------------------------------------------------------------------------
(* The rest of the state *)

LEMMA NextSystem ==
  ASSUME System, [Next]_vars
  PROVE  System'
<1> USE DEF System
<1>1. ASSUME UNCHANGED <<disk, packing, cwd, archiveKeys>>, dead' \in {dead, "abort", "crash"}
      PROVE  System'
  BY <1>1
<1>2. ASSUME NEW t \in Thread, NEW n \in Given,
             LoadArchive(t, n) \/ FindArchive(t, n)
      PROVE  System'
  BY <1>2 DEF LoadArchive, FindArchive, Crash, pack
<1>3. ASSUME NEW t \in Thread, Release(t) \/ UnloadArchive(t) \/ EmptyArchive(t)
      PROVE  System'
  BY <1>3 DEF Release, UnloadArchive, EmptyArchive, pack
<1>4. ASSUME NEW i \in load.todo, LoadTask(i)
      PROVE  System'
  BY <1>4 DEF LoadTask, Crash, pack
<1>5. ASSUME NEW n \in Given, NEW path \in Pattern, RegisterArchive(n, path)
      PROVE  System'
  BY <1>5 DEF RegisterArchive
<1>6. ASSUME NEW n \in Given, UnregisterArchive(n)
      PROVE  System'
  BY <1>6 DEF UnregisterArchive
<1>7. ASSUME NEW n \in Given, NEW key \in Key, SetArchiveKey(n, key)
      PROVE  System'
  BY <1>7 DEF SetArchiveKey
<1>8. ASSUME NEW d \in Dir, SetWorkingDirectory(d)
      PROVE  System'
  BY <1>8 DEF SetWorkingDirectory, pack
<1>9. CASE StartLoad \/ EndLoad
  BY <1>9 DEF StartLoad, EndLoad, pack
<1>10. ASSUME NEW p \in Place, BeginPack(p) \/ \E k \in Pack : EndPack(p, k)
       PROVE  System'
  BY <1>10 DEF BeginPack, EndPack, pack
<1>11. CASE UNCHANGED vars
  BY <1>11 DEF vars, pack
<1> QED BY <1>2, <1>3, <1>4, <1>5, <1>6, <1>7, <1>8, <1>9, <1>10, <1>11 DEF Next

LEMMA NextRegistry ==
  ASSUME Registry, [Next]_vars
  PROVE  Registry'
<1>1. ASSUME UNCHANGED <<names, registered, load>>
      PROVE  Registry'
  BY <1>1 DEF Registry
<1>2. ASSUME NEW t \in Thread, NEW n \in Given,
             LoadArchive(t, n) \/ FindArchive(t, n)
      PROVE  Registry'
  BY <1>1, <1>2 DEF LoadArchive, FindArchive, Crash, pack
<1>3. ASSUME NEW t \in Thread, Release(t) \/ EmptyArchive(t)
      PROVE  Registry'
  BY <1>1, <1>3 DEF Release, EmptyArchive, pack
<1>4. ASSUME NEW t \in Thread, UnloadArchive(t)
      PROVE  Registry'
  <2>1. /\ UNCHANGED <<names, registered>>
        /\ load' = [load EXCEPT !.owes =
             {n \in @ : held[t] \in Range(archives) =>
                n \notin {object[held[t]].asked, object[held[t]].name}}]
    BY <1>4 DEF UnloadArchive, Released, pack
  <2> QED BY <2>1 DEF Registry
<1>5. ASSUME NEW i \in load.todo, LoadTask(i)
      PROVE  Registry'
  <2>1. UNCHANGED <<names, registered>>
        /\ load' \in {load, [load EXCEPT !.todo = @ \ {i}]}
    BY <1>5 DEF LoadTask, Crash, pack
  <2> QED BY <2>1 DEF Registry
<1>6. ASSUME NEW n \in Given, NEW path \in Pattern, RegisterArchive(n, path)
      PROVE  Registry'
  <2>1. n \in Name
    BY GivenAssumption
  <2>2. /\ names' \in Seq(Name) /\ Len(names') = Len(names) + 1
        /\ Len(names') <= MaxNames
        /\ \A i \in 1 .. Len(names) : names'[i] = names[i]
        /\ names'[Len(names')] = n
    BY <2>1, <1>6, GivenAssumption DEF Registry, RegisterArchive
  <2>3. Range(names') = Range(names) \cup {n}
    BY <2>2 DEF Range, Registry
  <2>4. /\ DOMAIN registered' = DOMAIN registered \cup {path}
        /\ \A q \in DOMAIN registered' : registered'[q] \in {n} \cup Range(registered)
    BY <1>6 DEF RegisterArchive, Range
  <2>5. Range(registered') \subseteq Range(names')
    BY <2>3, <2>4 DEF Registry, Range
  <2>6. /\ load' \in [on : BOOLEAN, todo : SUBSET (1 .. MaxNames), owes : SUBSET Name]
        /\ load'.todo \subseteq 1 .. Len(names')
    <3>1. Len(names) \in Nat /\ MaxNames \in Nat
      BY GivenAssumption DEF Registry
    <3>2. Len(names') \in 1 .. MaxNames
          /\ \A i \in 1 .. Len(names) : i \in 1 .. Len(names')
      BY <2>2, <3>1
    <3>3. load' \in {load, [load EXCEPT !.todo = @ \cup {Len(names')}]}
      BY <1>6 DEF RegisterArchive
    <3> QED BY <3>2, <3>3 DEF Registry
  <2> QED BY <2>2, <2>4, <2>5, <2>6 DEF Registry
<1>7. ASSUME NEW n \in Given, UnregisterArchive(n)
      PROVE  Registry'
  <2>1. PICK path \in DOMAIN registered :
          registered' = [p \in DOMAIN registered \ {path} |-> registered[p]]
    BY <1>7 DEF UnregisterArchive
  <2>2. Range(registered') \subseteq Range(registered)
        /\ DOMAIN registered' \subseteq DOMAIN registered
    BY <2>1 DEF Range
  <2>3. UNCHANGED <<names, load>>
    BY <1>7 DEF UnregisterArchive
  <2> QED BY <2>2, <2>3 DEF Registry
<1>8. ASSUME NEW n \in Given, NEW key \in Key, SetArchiveKey(n, key)
      PROVE  Registry'
  BY <1>1, <1>8 DEF SetArchiveKey
<1>9. ASSUME NEW d \in Dir, SetWorkingDirectory(d)
      PROVE  Registry'
  BY <1>1, <1>9 DEF SetWorkingDirectory, pack
<1>10. CASE StartLoad
  <2>1. /\ load' = [on |-> TRUE, todo |-> 1 .. Len(names), owes |-> Range(registered)]
        /\ UNCHANGED <<names, registered>>
    BY <1>10 DEF StartLoad, pack
  <2>2. Range(registered) \subseteq Name
    <3>1. \A i \in DOMAIN names : names[i] \in Name
      BY DEF Registry
    <3> QED BY <3>1 DEF Registry, Range
  <2>3. 1 .. Len(names) \subseteq 1 .. MaxNames
    BY GivenAssumption DEF Registry
  <2> QED BY <2>1, <2>2, <2>3 DEF Registry
<1>11. CASE EndLoad
  <2>1. load' = [load EXCEPT !.on = FALSE] /\ UNCHANGED <<names, registered>>
    BY <1>11 DEF EndLoad, pack
  <2> QED BY <2>1 DEF Registry
<1>12. ASSUME NEW p \in Place, BeginPack(p) \/ \E k \in Pack : EndPack(p, k)
       PROVE  Registry'
  BY <1>1, <1>12 DEF BeginPack, EndPack, pack
<1>13. CASE UNCHANGED vars
  BY <1>1, <1>13 DEF vars, pack
<1> QED BY <1>2, <1>3, <1>4, <1>5, <1>6, <1>7, <1>8, <1>9, <1>10, <1>11,
           <1>12, <1>13 DEF Next

-----------------------------------------------------------------------------
(* What becomes of one object *)

LEMMA Becomes ==
  ASSUME Lists, ListStep, NEW o \in Archive, object'[o] # None
  PROVE  \/ object'[o] = object[o]
         \/ \E n \in Name :
              Loads(n) /\ object[o] = None /\ object'[o] = Loaded(n)
         \/ /\ object[o] # None
            /\ object'[o].asked = object[o].asked
            /\ object'[o].name = object[o].name
            /\ ~object'[o].open /\ object'[o].emptied
<1>1. CASE Shrinks
  BY <1>1 DEF Shrinks, Ends
<1>2. ASSUME NEW t \in Thread, EmptyArchive(t)
      PROVE  \/ object'[o] = object[o]
             \/ /\ object[o] # None
                /\ object'[o].asked = object[o].asked
                /\ object'[o].name = object[o].name
                /\ ~object'[o].open /\ object'[o].emptied
  <2>1. CASE o # held[t]
    BY <1>2, <2>1, EmptyStep
  <2>2. CASE o = held[t]
    <3>1. /\ object[o] # None
          /\ object'[o] = [object[o] EXCEPT !.open = FALSE, !.pack = None,
                                            !.key = None, !.emptied = TRUE]
      BY <1>2, <2>2, EmptyStep
    <3>2. object[o] \in Member
      BY <3>1 DEF Lists
    <3> QED BY <3>1, <3>2 DEF Member
  <2> QED BY <2>1, <2>2
<1>3. ASSUME NEW n \in Name, Loads(n)
      PROVE  \/ object'[o] = object[o]
             \/ object[o] = None /\ object'[o] = Loaded(n)
  BY <1>3 DEF Loads, Ends
<1> QED BY <1>1, <1>2, <1>3 DEF ListStep

\* Only a client's Unload closes the file of an archive somebody points to.
OnlyEmptied ==
  \A o \in Archive : object[o] # None /\ ~object[o].open => object[o].emptied

\* AbsoluteOnce, said of the objects in place of their positions.
Once ==
  \A a, b \in Archive :
    /\ Before(a, b) /\ object[a].open /\ object[b].open
    /\ PlaceOf(object[a].name) = PlaceOf(object[b].name)
    => object[b].asked # object[b].name \/ object[a].name # PlaceOf(object[a].name)

LEMMA InListAlive ==
  ASSUME Lists, NEW o \in Range(archives)
  PROVE  o \in Archive /\ object[o] # None /\ object[o] \in Member
<1>1. o \in Archive
  BY DEF Lists, Range
<1> QED BY <1>1 DEF Lists, Living

LEMMA NextOnlyEmptied ==
  ASSUME Lists, ListStep, OnlyEmptied
  PROVE  OnlyEmptied'
<1> SUFFICES ASSUME NEW o \in Archive, object'[o] # None, ~object'[o].open
             PROVE  object'[o].emptied
  BY DEF OnlyEmptied
<1>1. ~\E n \in Name : object'[o] = Loaded(n)
  <2>1. \A n \in Name : Loaded(n).open
    BY DEF Loaded
  <2> QED BY <2>1
<1> QED BY <1>1, Becomes DEF OnlyEmptied

\* A name that is its own absolute path is in lower case.
LEMMA OwnPath ==
  ASSUME System, NEW n \in Name, n = Absolute(n)
  PROVE  PlaceOf(n) = n
<1>1. n.dir # Rel /\ n.dir \notin Alias
  <2>1. Absolute(n).dir = IF n.dir = Rel THEN cwd
                      ELSE IF n.dir \in Alias THEN Means[n.dir] ELSE n.dir
    BY DEF Absolute, Name
  <2>2. CASE n.dir = Rel
    BY <2>1, <2>2, LowerAssumption DEF System
  <2>3. CASE n.dir \in Alias
    <3>1. n.dir # Rel /\ Means[n.dir] \in Dir
      BY <2>3, LowerAssumption
    <3>2. n.dir \in Dir
      BY <2>1, <2>3, <3>1
    <3> QED BY <2>3, <3>2, LowerAssumption
  <2> QED BY <2>2, <2>3
<1>2. PICK d \in Dir : n.dir = LowerDir[d]
  BY <1>1 DEF Name
<1>3. LowerDir[n.dir] = n.dir
  BY <1>2, LowerAssumption
<1> QED BY <1>3 DEF PlaceOf, Name

LEMMA BeforeAlive ==
  ASSUME Lists, NEW a, NEW b, Before(a, b)
  PROVE  /\ a \in Range(archives) /\ b \in Range(archives) /\ a # b
         /\ a \in Archive /\ object[a] # None /\ object[a] \in Member
         /\ b \in Archive /\ object[b] # None /\ object[b] \in Member
<1>1. PICK i \in 1 .. Len(archives), j \in 1 .. Len(archives) :
        i < j /\ archives[i] = a /\ archives[j] = b
  BY DEF Before
<1>2. i \in DOMAIN archives /\ j \in DOMAIN archives /\ i # j
  BY <1>1 DEF Lists
<1>3. a \in Range(archives) /\ b \in Range(archives) /\ a # b
  BY <1>1, <1>2 DEF Lists, Range, IsInjective
<1> QED BY <1>3, InListAlive

LEMMA NextOnce ==
  ASSUME Lists, Lists', System, ListStep, Once
  PROVE  Once'
<1> SUFFICES ASSUME NEW a \in Archive, NEW b \in Archive, Before(a, b)',
                    object'[a].open, object'[b].open,
                    PlaceOf(object'[a].name) = PlaceOf(object'[b].name),
                    object'[b].asked = object'[b].name,
                    object'[a].name = PlaceOf(object'[a].name)
             PROVE  FALSE
  BY DEF Once, PlaceOf
<1>1. a # b /\ object'[a] # None /\ object'[b] # None
  <2>1. PICK i \in 1 .. Len(archives'), j \in 1 .. Len(archives') :
          i < j /\ archives'[i] = a /\ archives'[j] = b
    BY DEF Before
  <2>2. i \in DOMAIN archives' /\ j \in DOMAIN archives' /\ i # j
    BY <2>1 DEF Lists
  <2> QED BY <2>1, <2>2 DEF Lists, Living, Range, IsInjective
<1>2. ASSUME object'[a] = object[a], object'[b] = object[b], Before(a, b)
      PROVE  FALSE
  BY <1>2 DEF Once
<1>3. ASSUME NEW n \in Name, Loads(n)
      PROVE  FALSE
  <2>1. PICK o \in Archive :
          /\ object[o] = None /\ object'[o] = Loaded(n)
          /\ archives' = Append(archives, o)
          /\ \A p \in Archive \ {o} : Ends(p)
    BY <1>3 DEF Loads
  <2>2. PICK i \in 1 .. Len(archives'), j \in 1 .. Len(archives') :
          i < j /\ archives'[i] = a /\ archives'[j] = b
    BY DEF Before
  <2>3. /\ i \in 1 .. Len(archives) /\ archives[i] = a
        /\ \/ j \in 1 .. Len(archives) /\ archives[j] = b
           \/ b = o
    <3>1. /\ Len(archives') = Len(archives) + 1 /\ Len(archives) \in Nat
          /\ \A k \in 1 .. Len(archives) : archives'[k] = archives[k]
          /\ archives'[Len(archives) + 1] = o
      BY <2>1 DEF Lists
    <3>2. i \in 1 .. Len(archives)
      BY <2>2, <3>1
    <3>3. j \in 1 .. Len(archives) \/ j = Len(archives) + 1
      BY <2>2, <3>1
    <3> QED BY <2>2, <3>1, <3>2, <3>3
  <2>4. a \in Range(archives) /\ object[a] # None
    BY <2>3, InListAlive DEF Lists, Range
  <2>5. object'[a] = object[a]
    BY <1>1, <2>1, <2>4 DEF Ends
  <2>6. CASE b = o
    <3>1. object'[b].asked = n /\ object'[b].name = Absolute(n)
      BY <2>1, <2>6 DEF Loaded
    <3>2. n = Absolute(n)
      BY <3>1
    <3>3. PlaceOf(n) = n
      BY <3>2, OwnPath
    <3>4. object'[a].name = n
      BY <3>1, <3>2, <3>3
    <3>5. object[a].open /\ object[a].name = n
      BY <2>5, <3>4
    <3> QED BY <1>3, <2>3, <3>5 DEF Loads, Named
  <2>7. CASE b # o
    <3>1. object'[b] = object[b]
      BY <1>1, <2>1, <2>7 DEF Ends
    <3>2. Before(a, b)
      BY <2>2, <2>3, <2>7 DEF Before
    <3> QED BY <1>2, <2>5, <3>1, <3>2
  <2> QED BY <2>6, <2>7
<1>4. CASE Shrinks
  BY <1>1, <1>2, <1>4 DEF Shrinks, Ends
<1>5. ASSUME NEW t \in Thread, EmptyArchive(t)
      PROVE  FALSE
  <2>1. UNCHANGED archives
    BY <1>5, EmptyStep
  <2>2. ~\E n \in Name : Loads(n)
    BY <1>3
  <2>3. object'[a] = object[a] /\ object'[b] = object[b]
    BY <1>1, <2>2, Becomes
  <2>4. Before(a, b)
    BY <2>1 DEF Before
  <2> QED BY <1>2, <2>3, <2>4
<1> QED BY <1>3, <1>4, <1>5 DEF ListStep

-----------------------------------------------------------------------------
(* The archive files *)

LEMMA NextFiles ==
  ASSUME [Next]_vars
  PROVE  \/ UNCHANGED <<disk, packing>>
         \/ \E p \in Place :
              /\ BeginPack(p) \/ \E k \in Pack : EndPack(p, k)
              /\ UNCHANGED object
<1> DEFINE Same == UNCHANGED <<disk, packing>>
<1>1. ASSUME NEW t \in Thread, NEW n \in Given,
             LoadArchive(t, n) \/ FindArchive(t, n)
      PROVE  Same
  BY <1>1 DEF LoadArchive, FindArchive, Crash
<1>2. ASSUME NEW t \in Thread, Release(t) \/ UnloadArchive(t) \/ EmptyArchive(t)
      PROVE  Same
  BY <1>2 DEF Release, UnloadArchive, EmptyArchive
<1>3. ASSUME NEW i \in load.todo, LoadTask(i)
      PROVE  Same
  BY <1>3 DEF LoadTask, Crash
<1>4. ASSUME NEW n \in Given,
             \/ \E path \in Pattern : RegisterArchive(n, path)
             \/ UnregisterArchive(n)
             \/ \E key \in Key : SetArchiveKey(n, key)
      PROVE  Same
  BY <1>4 DEF RegisterArchive, UnregisterArchive, SetArchiveKey
<1>5. ASSUME NEW d \in Dir, SetWorkingDirectory(d)
      PROVE  Same
  BY <1>5 DEF SetWorkingDirectory
<1>6. CASE StartLoad \/ EndLoad
  BY <1>6 DEF StartLoad, EndLoad
<1>7. ASSUME NEW p \in Place, BeginPack(p) \/ \E k \in Pack : EndPack(p, k)
      PROVE  UNCHANGED object
  BY <1>7 DEF BeginPack, EndPack
<1>8. CASE UNCHANGED vars
  BY <1>8 DEF vars
<1> QED BY <1>1, <1>2, <1>3, <1>4, <1>5, <1>6, <1>7, <1>8 DEF Next

LEMMA NextFresh ==
  ASSUME Lists, Lists', System, ListStep, [Next]_vars, FreshTables
  PROVE  FreshTables'
<1> SUFFICES ASSUME NEW o \in Archive, object'[o] # None, object'[o].open
             PROVE  /\ disk'[PlaceOf(object'[o].name)] = object'[o].pack
                    /\ PlaceOf(object'[o].name) \notin packing'
  BY DEF FreshTables, PlaceOf
<1> DEFINE p == PlaceOf(object'[o].name)
<1>1. CASE UNCHANGED <<disk, packing>>
  <2>1. ASSUME NEW n \in Name, Loads(n), object'[o] = Loaded(n)
        PROVE  disk[p] = object'[o].pack /\ p \notin packing
    BY <2>1 DEF Loads, Loaded, Loadable
  <2>2. CASE object'[o] = object[o]
    <3>1. object[o] # None /\ object[o].open
      BY <2>2
    <3>2. /\ disk[PlaceOf(object[o].name)] = object[o].pack
          /\ PlaceOf(object[o].name) \notin packing
      BY <3>1 DEF FreshTables
    <3> QED BY <2>2, <3>2, <1>1
  <2> QED BY <1>1, <2>1, <2>2, Becomes
<1>2. ASSUME NEW q \in Place, BeginPack(q) \/ \E k \in Pack : EndPack(q, k),
             UNCHANGED object
      PROVE  disk'[p] = object'[o].pack /\ p \notin packing'
  <2>1. object[o] # None /\ object[o].open /\ object[o] \in Member
        /\ object'[o] = object[o]
    BY <1>2 DEF Lists
  <2>2. disk[p] = object[o].pack /\ p \notin packing
    BY <2>1 DEF FreshTables
  <2>3. p # q
    <3>1. CASE BeginPack(q)
      BY <3>1, <2>1 DEF BeginPack, OpenAt
    <3>2. CASE \E k \in Pack : EndPack(q, k)
      BY <3>2, <2>2 DEF EndPack
    <3> QED BY <1>2, <3>1, <3>2
  <2>5. p \in Place
    BY <2>1 DEF Member, Path, Place, PlaceOf
  <2> HIDE DEF p
  <2>4. disk'[p] = disk[p] /\ (p \in packing' => p \in packing)
    BY <1>2, <2>3, <2>5 DEF BeginPack, EndPack, System
  <2> QED BY <2>1, <2>2, <2>4
<1> QED BY <1>1, <1>2, NextFiles

-----------------------------------------------------------------------------
(* The null stream *)

LEMMA NextNoCrash ==
  ASSUME Lists, OnlyEmptied, NoCrash, [Next]_vars
  PROVE  NoCrash'
<1> DEFINE Null == \E n : HitsNull(n) /\ UNCHANGED <<archives, object>>
<1>1. ASSUME NEW n, HitsNull(n), Crash
      PROVE  Null
  BY <1>1 DEF Crash
<1>2. ASSUME Null
      PROVE  NoCrash'
  <2>1. PICK n : HitsNull(n) /\ UNCHANGED <<archives, object>>
    BY <1>2
  <2>2. PICK i \in 1 .. Len(archives) : ~object[archives[i]].open
    BY <2>1 DEF HitsNull
  <2>3. archives[i] \in Range(archives)
    BY <2>2 DEF Lists, Range
  <2>4. object[archives[i]].emptied
    BY <2>2, <2>3, InListAlive DEF OnlyEmptied
  <2> QED BY <2>1, <2>2, <2>4 DEF NoCrash
<1> HIDE DEF Null
<1>3. ASSUME Next, dead' = "crash"
      PROVE  Null
  <2>1. dead # "crash"
    BY <1>3 DEF Next
  <2>2. ASSUME NEW t \in Thread, NEW n \in Given,
               LoadArchive(t, n) \/ FindArchive(t, n)
        PROVE  Null
    BY <1>1, <1>3, <2>1, <2>2 DEF LoadArchive, FindArchive
  <2>3. ASSUME NEW t \in Thread, Release(t) \/ UnloadArchive(t) \/ EmptyArchive(t)
        PROVE  FALSE
    BY <1>3, <2>1, <2>3 DEF Release, UnloadArchive, EmptyArchive
  <2>4. ASSUME NEW i \in load.todo, LoadTask(i)
        PROVE  Null
    BY <1>1, <1>3, <2>1, <2>4 DEF LoadTask
  <2>5. ASSUME NEW n \in Given,
               \/ \E path \in Pattern : RegisterArchive(n, path)
               \/ UnregisterArchive(n)
               \/ \E key \in Key : SetArchiveKey(n, key)
        PROVE  FALSE
    BY <1>3, <2>1, <2>5 DEF RegisterArchive, UnregisterArchive, SetArchiveKey
  <2>6. ASSUME NEW d \in Dir, SetWorkingDirectory(d)
        PROVE  FALSE
    BY <1>3, <2>1, <2>6 DEF SetWorkingDirectory
  <2>7. ~(StartLoad \/ EndLoad)
    BY <1>3, <2>1 DEF StartLoad, EndLoad
  <2>8. ASSUME NEW p \in Place, BeginPack(p) \/ \E k \in Pack : EndPack(p, k)
        PROVE  FALSE
    BY <1>3, <2>1, <2>8 DEF BeginPack, EndPack
  <2> QED BY <1>3, <2>2, <2>3, <2>4, <2>5, <2>6, <2>7, <2>8 DEF Next
<1>4. CASE Next /\ dead' = "crash"
  BY <1>2, <1>3, <1>4
<1>5. CASE Next /\ dead' # "crash"
  BY <1>5 DEF NoCrash
<1>6. CASE UNCHANGED vars
  BY <1>6 DEF vars, NoCrash
<1> QED BY <1>4, <1>5, <1>6

-----------------------------------------------------------------------------
(* LoadRegistiredArchives *)

InList(n) ==
  \E o \in Range(archives) : object[o].asked = n \/ object[o].name = n

\* What a load owes an archive has a task, if it is not in the list.
Owed ==
  load.on =>
    \A n \in load.owes : InList(n) \/ \E i \in load.todo : names[i] = n

LEMMA StaysInList ==
  ASSUME Lists, Lists', ListStep, Range(archives) \subseteq Range(archives'),
         NEW n, InList(n)
  PROVE  InList(n)'
<1>1. PICK o \in Range(archives) : object[o].asked = n \/ object[o].name = n
  BY DEF InList
<1>2. o \in Archive /\ object[o] # None /\ object'[o] # None /\ o \in Range(archives')
  BY InListAlive DEF Lists, Living
<1>3. object'[o].asked = object[o].asked /\ object'[o].name = object[o].name
  BY <1>2, Becomes
<1> QED BY <1>1, <1>2, <1>3 DEF InList

LEMMA NextOwed ==
  ASSUME Lists, Lists', ListStep, Registry, Owed, [Next]_vars
  PROVE  Owed'
<1> DEFINE Grows == Range(archives) \subseteq Range(archives')
<1>1. ASSUME UNCHANGED <<names, load>>, Grows
      PROVE  Owed'
  <2> SUFFICES ASSUME load.on, NEW n \in load.owes
               PROVE  InList(n)' \/ \E i \in load.todo : names[i] = n
    BY <1>1 DEF Owed
  <2> QED BY <1>1, StaysInList DEF Owed
<1>2. ASSUME UNCHANGED archives
      PROVE  Grows
  BY <1>2
<1>3. \A o \in Archive : archives' = Append(archives, o) => Grows
  <2> SUFFICES ASSUME NEW o \in Archive, archives' = Append(archives, o),
                      NEW x \in Range(archives)
               PROVE  x \in Range(archives')
    OBVIOUS
  <2>1. PICK i \in 1 .. Len(archives) : archives[i] = x
    BY DEF Lists, Range
  <2>2. i \in 1 .. Len(archives') /\ archives'[i] = x
    BY <2>1 DEF Lists
  <2> QED BY <2>2 DEF Lists, Range
<1> HIDE DEF Grows
<1>4. ASSUME NEW t \in Thread, NEW n \in Given,
             LoadArchive(t, n) \/ FindArchive(t, n)
      PROVE  Owed'
  BY <1>1, <1>2, <1>3, <1>4 DEF LoadArchive, FindArchive, Crash, Point,
     AppendArchive, pack
<1>5. ASSUME NEW t \in Thread, Release(t) \/ EmptyArchive(t)
      PROVE  Owed'
  BY <1>1, <1>2, <1>5 DEF Release, EmptyArchive, Point, pack
<1>6. ASSUME NEW t \in Thread, UnloadArchive(t)
      PROVE  Owed'
  <2> DEFINE o == held[t]
  <2>1. /\ o \in Archive /\ object[o] # None /\ UNCHANGED <<held, names>>
        /\ archives' \in Without(o)
    BY <1>6, PackAssumption DEF UnloadArchive, Lists, Living, pack
  <2>2. Range(archives') = Range(archives) \ {o}
    BY <2>1, TakenOffList DEF Lists
  <2>3. /\ load'.on = load.on /\ load'.todo = load.todo
        /\ load'.owes = {n \in load.owes : o \in Range(archives) =>
                           n \notin {object[o].asked, object[o].name}}
    BY <1>6 DEF UnloadArchive, Released, Registry
  <2> SUFFICES ASSUME load.on, NEW n \in load'.owes, InList(n)
               PROVE  InList(n)'
    BY <2>1, <2>3 DEF Owed
  <2>4. PICK x \in Range(archives) : object[x].asked = n \/ object[x].name = n
    BY DEF InList
  <2>5. x # o /\ x \in Range(archives')
    BY <2>2, <2>3, <2>4
  <2>6. /\ x \in Archive /\ object[x] # None /\ object'[x] # None
    BY <2>4, <2>5, InListAlive DEF Lists, Living
  <2>7. object'[x].asked = object[x].asked /\ object'[x].name = object[x].name
    BY <2>6, Becomes
  <2> QED BY <2>4, <2>5, <2>7 DEF InList
<1>7. ASSUME NEW i \in load.todo, LoadTask(i)
      PROVE  Owed'
  <2>1. CASE UNCHANGED <<names, load, archives>>
    BY <1>1, <1>2, <2>1
  <2>2. CASE ~UNCHANGED <<names, load, archives>>
    <3>1. /\ load'.on = load.on /\ load'.owes = load.owes
          /\ load'.todo = load.todo \ {i} /\ UNCHANGED names
      BY <1>7, <2>2 DEF LoadTask, Crash, pack, Registry
    <3>2. InList(names[i])' /\ Grows
      <4>1. CASE Named(names[i]) # {} /\ UNCHANGED <<archives, object>>
        <5>1. PICK j \in 1 .. Len(archives) : object[archives[j]].name = names[i]
          BY <4>1 DEF Named
        <5>2. archives[j] \in Range(archives')
          BY <4>1, <5>1 DEF Lists, Range
        <5> QED BY <1>2, <3>1, <4>1, <5>1, <5>2 DEF InList
      <4>2. ASSUME NEW o \in Archive, archives' = AppendArchive(o),
                   object' = [object EXCEPT ![o] = Loaded(names[i])]
            PROVE  InList(names[i])' /\ Grows
        <5>1. object'[o].asked = names[i]
          BY <4>2 DEF Lists, Loaded
        <5>2. o \in Range(archives')
          <6>1. /\ Len(archives') = Len(archives) + 1 /\ Len(archives) \in Nat
                /\ archives'[Len(archives) + 1] = o
            BY <4>2 DEF AppendArchive, Lists
          <6> QED BY <6>1 DEF Range, Lists
        <5> QED BY <1>3, <3>1, <4>2, <5>1, <5>2 DEF InList, AppendArchive
      <4> QED BY <1>7, <2>2, <4>1, <4>2 DEF LoadTask, Crash, pack
    <3> SUFFICES ASSUME load.on, NEW n \in load.owes
                 PROVE  InList(n)' \/ \E j \in load.todo \ {i} : names[j] = n
      BY <3>1 DEF Owed
    <3>3. CASE InList(n)
      BY <3>2, <3>3, StaysInList DEF Grows
    <3>4. CASE \E j \in load.todo : names[j] = n
      BY <3>1, <3>2, <3>4
    <3> QED BY <3>3, <3>4 DEF Owed
  <2> QED BY <2>1, <2>2
<1>8. ASSUME NEW n \in Given, NEW path \in Pattern, RegisterArchive(n, path)
      PROVE  Owed'
  <2>1. /\ UNCHANGED archives
        /\ load'.on = load.on /\ load'.owes = load.owes
        /\ load.todo \subseteq load'.todo
    BY <1>8 DEF RegisterArchive, Registry
  <2>2. \A i \in load.todo : names'[i] = names[i]
    BY <1>8, GivenAssumption DEF RegisterArchive, Registry
  <2> SUFFICES ASSUME load.on, NEW m \in load.owes
               PROVE  InList(m)' \/ \E i \in load'.todo : names'[i] = m
    BY <2>1 DEF Owed
  <2> QED BY <1>2, <2>1, <2>2, StaysInList DEF Owed, Grows
<1>9. ASSUME NEW n \in Given,
             UnregisterArchive(n) \/ \E key \in Key : SetArchiveKey(n, key)
      PROVE  Owed'
  BY <1>1, <1>2, <1>9 DEF UnregisterArchive, SetArchiveKey
<1>10. ASSUME NEW d \in Dir, SetWorkingDirectory(d)
       PROVE  Owed'
  BY <1>1, <1>2, <1>10 DEF SetWorkingDirectory, pack
<1>11. CASE StartLoad
  <2>1. /\ load' = [on |-> TRUE, todo |-> 1 .. Len(names), owes |-> Range(registered)]
        /\ UNCHANGED names
    BY <1>11 DEF StartLoad, pack
  <2>2. \A n \in Range(registered) : \E i \in 1 .. Len(names) : names[i] = n
    BY DEF Registry, Range
  <2> QED BY <2>1, <2>2 DEF Owed
<1>12. CASE EndLoad
  <2>1. ~load'.on
    BY <1>12 DEF EndLoad, Registry
  <2> QED BY <2>1 DEF Owed
<1>13. ASSUME NEW p \in Place, BeginPack(p) \/ \E k \in Pack : EndPack(p, k)
       PROVE  Owed'
  BY <1>1, <1>2, <1>13 DEF BeginPack, EndPack, pack
<1>14. CASE UNCHANGED vars
  BY <1>1, <1>2, <1>14 DEF vars, pack
<1> QED BY <1>4, <1>5, <1>6, <1>7, <1>8, <1>9, <1>10, <1>11, <1>12, <1>13,
           <1>14 DEF Next

-----------------------------------------------------------------------------
(* The invariant *)

Inv ==
  /\ Lists /\ System /\ Registry /\ Once /\ FreshTables
  /\ OnlyEmptied /\ NoCrash /\ Owed

LEMMA InitInv == Init => Inv
<1> SUFFICES ASSUME Init
             PROVE  Inv
  OBVIOUS
<1>1. /\ archives = <<>> /\ archives \in Seq(Archive) /\ IsInjective(archives)
      /\ Range(archives) = {}
  BY DEF Init, IsInjective, Range
<1>2. /\ held \in [Thread -> Archive \cup {None}]
      /\ object \in [Archive -> Member \cup {None}]
      /\ \A o \in Archive : object[o] = None
      /\ \A t \in Thread : held[t] = None
  BY DEF Init
<1>3. Living(archives, held) = {}
  BY <1>1, <1>2, PackAssumption DEF Living
<1>4. Lists
  BY <1>1, <1>2, <1>3 DEF Lists
<1>5. System
  BY DEF Init, System
<1>6. Registry
  <2>1. names \in Seq(Name) /\ Len(names) = 0 /\ 0 <= MaxNames
    BY GivenAssumption DEF Init
  <2>2. DOMAIN registered = {} /\ Range(registered) = {}
    BY DEF Init, Range
  <2> QED BY <2>1, <2>2 DEF Init, Registry
<1>7. Once /\ FreshTables /\ OnlyEmptied
  <2>1. \A a, b : ~Before(a, b)
    BY <1>1 DEF Before
  <2> QED BY <1>2, <2>1 DEF Once, FreshTables, OnlyEmptied
<1>8. NoCrash /\ Owed
  BY DEF Init, NoCrash, Owed
<1> QED BY <1>4, <1>5, <1>6, <1>7, <1>8 DEF Inv

LEMMA NextInv == Inv /\ [Next]_vars => Inv'
<1> SUFFICES ASSUME Inv, [Next]_vars
             PROVE  Inv'
  OBVIOUS
<1>1. Lists' /\ ListStep /\ System' /\ Registry'
  BY NextLists, NextSystem, NextRegistry DEF Inv
<1>2. Once' /\ OnlyEmptied'
  BY <1>1, NextOnce, NextOnlyEmptied DEF Inv
<1>3. FreshTables' /\ NoCrash' /\ Owed'
  BY <1>1, NextFresh, NextNoCrash, NextOwed DEF Inv
<1> QED BY <1>1, <1>2, <1>3 DEF Inv

LEMMA SpecInv == Spec => []Inv
BY InitInv, NextInv, PTL DEF Spec

-----------------------------------------------------------------------------
(* What it gives *)

\* The types, and: what the list of CVFSPack or a client points to is an
\* archive that lives, and no archive is in the list twice.
THEOREM TypeCorrect == Spec => []TypeOK
<1>1. ASSUME Lists, System, Registry
      PROVE  TypeOK
  <2>1. \A i \in DOMAIN names : names[i] \in Name
    BY <1>1 DEF Registry
  <2>2. Range(registered) \subseteq Name
    BY <1>1, <2>1 DEF Registry, Range
  <2> QED BY <1>1, <2>2 DEF TypeOK, Lists, System, Registry
<1>2. Inv => TypeOK
  BY <1>1 DEF Inv
<1> QED BY <1>2, SpecInv, PTL

\* An archive file is opened and listed by its absolute path only if no open
\* archive before it in CVFSPack's list keeps that path in lower case,
\* whatever the threads and the tasks do.
THEOREM LoadedOnce == Spec => []AbsoluteOnce
<1>1. ASSUME Lists, Once
      PROVE  AbsoluteOnce
  <2> SUFFICES ASSUME NEW i \in 1 .. Len(archives), NEW j \in 1 .. Len(archives),
                      i < j, object[archives[i]].open, object[archives[j]].open,
                      PlaceOf(object[archives[i]].name) = PlaceOf(object[archives[j]].name)
               PROVE  \/ object[archives[j]].asked # object[archives[j]].name
                      \/ object[archives[i]].name # PlaceOf(object[archives[i]].name)
    BY DEF AbsoluteOnce
  <2>1. archives[i] \in Archive /\ archives[j] \in Archive
    BY <1>1 DEF Lists
  <2>2. Before(archives[i], archives[j])
    BY DEF Before
  <2> QED BY <1>1, <2>1, <2>2 DEF Once
<1>2. Inv => AbsoluteOnce
  BY <1>1 DEF Inv
<1> QED BY <1>2, SpecInv, PTL

\* The tables of an archive that is open are those of the file it was loaded
\* from: the reader keeps the archiver from writing it.
THEOREM TablesFresh == Spec => []FreshTables
<1>1. Inv => FreshTables
  BY DEF Inv
<1> QED BY <1>1, SpecInv, PTL

\* A search meets a null stream only if a client unloaded an archive of the
\* list without CVFSPack::UnloadArchive.
THEOREM CrashesOnlyOnEmptied == Spec => []NoCrash
<1>1. Inv => NoCrash
  BY DEF Inv
<1> QED BY <1>1, SpecInv, PTL

\* LoadRegistiredArchives, when all its tasks are done, leaves an archive in
\* the list for every name that was registered when it began.
THEOREM AllLoaded == Spec => []LoadedAll
<1>1. ASSUME Lists, Owed
      PROVE  LoadedAll
  <2> SUFFICES ASSUME load.on, load.todo = {}, NEW n \in load.owes
               PROVE  \E i \in 1 .. Len(archives) :
                        object[archives[i]].asked = n \/ object[archives[i]].name = n
    BY DEF LoadedAll
  <2>1. InList(n)
    BY <1>1 DEF Owed
  <2> QED BY <1>1, <2>1 DEF InList, Range, Lists
<1>2. Inv => LoadedAll
  BY <1>1 DEF Inv
<1> QED BY <1>2, SpecInv, PTL

\* No step of another thread changes the archive a client points to, unless
\* that thread points to it too and calls its Unload.
THEOREM HandlesKept == Spec => HandleKeeps
<1>1. ASSUME Inv, [Next]_vars, NEW t \in Thread,
             held[t] # None, held'[t] = held[t],
             ~\E s \in Thread : held[s] = held[t] /\ EmptyArchive(s)
      PROVE  object'[held[t]] = object[held[t]]
  <2> DEFINE o == held[t]
  <2>1. Lists /\ Lists' /\ ListStep
    BY <1>1, NextLists DEF Inv
  <2>2. o \in Archive /\ object[o] # None /\ object'[o] # None
    BY <1>1, <2>1, PackAssumption DEF Lists, Living
  <2>3. CASE Shrinks
    BY <2>2, <2>3 DEF Shrinks, Ends
  <2>4. ASSUME NEW s \in Thread, EmptyArchive(s)
        PROVE  object'[o] = object[o]
    BY <1>1, <2>1, <2>2, <2>4, EmptyStep
  <2>5. ASSUME NEW n \in Name, Loads(n)
        PROVE  object'[o] = object[o]
    BY <2>2, <2>5 DEF Loads, Ends
  <2> QED BY <2>1, <2>3, <2>4, <2>5 DEF ListStep
<1>2. Inv /\ [Next]_vars =>
        [\A t \in Thread :
           /\ held[t] # None /\ held'[t] = held[t]
           /\ ~\E s \in Thread : held[s] = held[t] /\ EmptyArchive(s)
           => object'[held[t]] = object[held[t]]]_vars
  BY <1>1
<1> QED BY <1>2, SpecInv, PTL DEF Spec, HandleKeeps
=============================================================================
