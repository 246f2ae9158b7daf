--------------------------- MODULE ArchiverProofs ---------------------------
(***************************************************************************)
(* The archiver, for every configuration and any number of groups: no task *)
(* encrypts with tables that are unfinished, archives never mix the files  *)
(* of two groups, and success means packed.                                *)
(*                                                                         *)
(* And what a task encrypts is what FIPS-197 says, for every key and every *)
(* block.  The words are a group under exclusive or, and the columns that  *)
(* are mixed are linear in it, so a round by the combined tables is one of *)
(* the standard.  The loops are runs through stages, of which there is one *)
(* for given steps; and so are the key schedules, whichever number of      *)
(* words a turn of theirs appends.  Decrypting goes back through the       *)
(* states of encrypting, so every block comes back.                        *)
(***************************************************************************)
EXTENDS SealedArchiver, SequenceTheorems, WellFoundedInduction, TLAPS

-----------------------------------------------------------------------------
(* The inductive invariant *)

Wanted(g) == {s \in Packs(g) : Size[s] # 0}

\* A loop has run when a task is past it, and all have when the flag is up.
Filling ==
  /\ created => filled = Loop
  /\ \A g \in Group :
       /\ at[g] = "sbox" => "rcon" \in filled
       /\ at[g] = "mix" => {"rcon", "sbox"} \subseteq filled
       /\ at[g] \in {"flag", "ready"} => filled = Loop

\* A task packs and encrypts what it was given.
Working ==
  \A g \in Group :
    /\ todo[g] \subseteq SourcesOf[g]
    /\ at[g] # "none" => writing[g] \in Wanted(g)

\* Two tasks at work have different files.
OneAdder ==
  \A g, h \in Group :
    task[g] = "add" /\ task[h] = "add" /\ FileOf[g] = FileOf[h] => g = h

\* The archive holds files that g wants, and no others.
Holds(archive, g) ==
  archive \in Archives /\ \A i \in Index : archive[i] \in Wanted(g) \cup {None}
Own == \A g \in Group : task[g] = "add" => Holds(disk[FileOf[g]], g)
Unmixed == \A p \in Place : disk[p] \in Archives => \E g \in Group : Holds(disk[p], g)

\* The files that g has behind it are in its archive, if no other group has
\* that.
Left(g) == IF task[g] = "add" THEN todo[g] ELSE {}
Progress ==
  \A g \in Group :
    ~Shares(g) /\ task[g] \in {"add", "done"} =>
      /\ Holds(disk[FileOf[g]], g)
      /\ \A s \in Wanted(g) \ Left(g) : disk[FileOf[g]][IndexOf[s]] \in Wanted(g)

\* What the end of a task and of the process say.
Ends ==
  /\ \A g \in Group : task[g] \in {"thrown", "cancelled"} => threw
  /\ status = "success" =>
       \/ \A g \in Group : task[g] \notin {"wait", "add"}
       \/ FALSE \in Checks /\ \A g \in Group : task[g] = "wait"
  /\ phase = "config" => \A g \in Group : task[g] = "wait"

IInv ==
  TypeOK /\ Filling /\ Working /\ OneAdder /\ Own /\ Unmixed /\ Progress /\ Ends

-----------------------------------------------------------------------------
(* The tables *)

LEMMA TablesStep ==
  ASSUME Next
  PROVE  \/ UNCHANGED tables \/ Renew
         \/ \E g \in Group : Construct(g) \/ CreateTables(g) \/ SetCreated(g) \/ Release(g)
BY DEF Next, Task, InitializeConfigFile, BeginGroup, Fail, Abort, Throw, Cancel, EndGroup,
       Skip, Add, Encrypt, Prepare, Seal, Return, Again, tables

\* Whichever write is lost, it is one of a group.
LEMMA SpoiltTyped ==
  ASSUME TypeOK, Next
  PROVE  spoilt' \subseteq Group
<1>1. CASE InitializeConfigFile \/ Return \/ Again
  BY <1>1 DEF InitializeConfigFile, Return, Again, TypeOK
<1>2. ASSUME NEW g \in Group, BeginGroup(g) \/ Fail(g)
      PROVE  spoilt' \subseteq Group
  BY <1>2 DEF BeginGroup, Fail, Abort, Written, TypeOK
<1>3. ASSUME NEW g \in Group, Throw(g) \/ Cancel(g) \/ EndGroup(g) \/ Prepare(g)
      PROVE  spoilt' \subseteq Group
  BY <1>3 DEF Throw, Cancel, EndGroup, Prepare, TypeOK
<1>4. ASSUME NEW g \in Group, Seal(g)
      PROVE  spoilt' \subseteq Group
  BY <1>4 DEF Seal, Written, TypeOK
<1>5. ASSUME NEW g \in Group, NEW s \in todo[g], Skip(g, s) \/ Add(g, s) \/ Encrypt(g, s)
      PROVE  spoilt' \subseteq Group
  BY <1>5 DEF Skip, Add, Encrypt, Written, TypeOK
<1>. QED
  BY <1>1, <1>2, <1>3, <1>4, <1>5 DEF Next, Task

LEMMA FillingKeeps ==
  ASSUME TypeOK, Filling, Next
  PROVE  Filling'
<1>1. CASE UNCHANGED tables
  BY <1>1 DEF Filling, tables
<1>2. CASE Renew
  BY <1>2 DEF Filling, Renew
<1>3. ASSUME NEW g \in Group, Construct(g)
      PROVE  Filling'
  BY <1>3 DEF Filling, Construct, TypeOK
<1>4. ASSUME NEW g \in Group, CreateTables(g)
      PROVE  Filling'
  BY <1>4 DEF Filling, CreateTables, After, Loop, TypeOK
<1>5. ASSUME NEW g \in Group, SetCreated(g)
      PROVE  Filling'
  BY <1>5 DEF Filling, SetCreated, TypeOK
<1>6. ASSUME NEW g \in Group, Release(g)
      PROVE  Filling'
  BY <1>6 DEF Filling, Release, TypeOK
<1>. QED
  BY <1>1, <1>2, <1>3, <1>4, <1>5, <1>6, TablesStep

LEMMA AtTyped ==
  ASSUME TypeOK, Next
  PROVE  /\ filled' \subseteq Loop /\ created' \in BOOLEAN
         /\ at' \in [Group -> Loop \cup {"none", "flag", "ready"}]
<1>1. CASE UNCHANGED tables
  BY <1>1 DEF TypeOK, tables
<1>2. CASE Renew
  BY <1>2 DEF TypeOK, Renew
<1>3. ASSUME NEW g \in Group, Construct(g)
      PROVE  /\ filled' \subseteq Loop /\ created' \in BOOLEAN
             /\ at' \in [Group -> Loop \cup {"none", "flag", "ready"}]
  BY <1>3 DEF TypeOK, Construct, Loop
<1>4. ASSUME NEW g \in Group, CreateTables(g)
      PROVE  /\ filled' \subseteq Loop /\ created' \in BOOLEAN
             /\ at' \in [Group -> Loop \cup {"none", "flag", "ready"}]
  BY <1>4 DEF TypeOK, CreateTables, After, Loop
<1>5. ASSUME NEW g \in Group, SetCreated(g) \/ Release(g)
      PROVE  /\ filled' \subseteq Loop /\ created' \in BOOLEAN
             /\ at' \in [Group -> Loop \cup {"none", "flag", "ready"}]
  BY <1>5 DEF TypeOK, SetCreated, Release
<1>. QED
  BY <1>1, <1>2, <1>3, <1>4, <1>5, TablesStep

-----------------------------------------------------------------------------
(* The tasks *)

\* What an action does to a file: nothing, or a task that is at work empties
\* its own, or adds to it a source that it wants.
Empties(g) ==
  /\ task[g] = "wait" /\ ~Taken(g)
  /\ disk' = [disk EXCEPT ![FileOf[g]] = Nothing]
  /\ task' = [task EXCEPT ![g] = "add"] /\ todo' = [todo EXCEPT ![g] = SourcesOf[g]]
Adds(g, s) ==
  /\ task[g] = "add" /\ s \in Wanted(g)
  /\ disk' = [disk EXCEPT ![FileOf[g]][IndexOf[s]] = s]
  /\ UNCHANGED task /\ todo' = [todo EXCEPT ![g] = @ \ {s}]

\* A source is passed over: it is not wanted, or the archive has it.
Passes(g, s) ==
  /\ task[g] = "add" /\ UNCHANGED <<disk, task>> /\ todo' = [todo EXCEPT ![g] = @ \ {s}]
  /\ s \in Wanted(g) => disk[FileOf[g]][IndexOf[s]] \in Source

Moves(g, to) ==
  /\ task[g] \in {"wait", "add"} /\ (to = "done" => task[g] = "add" /\ todo[g] = {})
  /\ to \in {"done", "thrown", "cancelled"}
  /\ task' = [task EXCEPT ![g] = to] /\ UNCHANGED <<disk, todo>>

Restarts ==
  /\ \A p \in Place : disk'[p] = None \/ disk'[p] = disk[p]
  /\ disk' \in [Place -> Archives \cup {Old, None}]
  /\ task' = [g \in Group |-> "wait"] /\ todo' = [g \in Group |-> {}]

LEMMA Steps ==
  ASSUME TypeOK, Filling, Working, Next
  PROVE  \/ UNCHANGED <<disk, task, todo>>
         \/ Restarts
         \/ \E g \in Group :
              \/ Empties(g)
              \/ \E s \in Source : Adds(g, s) \/ Passes(g, s)
              \/ \E to \in {"done", "thrown", "cancelled"} : Moves(g, to)
<1>1. CASE InitializeConfigFile \/ Return
  BY <1>1 DEF InitializeConfigFile, Return
<1>2. CASE Again
  <2>1. PICK gone \in SUBSET Place :
          disk' = [p \in Place |-> IF p \in gone THEN None ELSE disk[p]]
    BY <1>2 DEF Again
  <2>. QED
    BY <1>2, <2>1 DEF Again, Restarts, TypeOK
<1>3. ASSUME NEW g \in Group, BeginGroup(g) \/ Fail(g)
      PROVE  UNCHANGED <<disk, task, todo>> \/ Empties(g)
  BY <1>3 DEF BeginGroup, Fail, Abort, Empties
<1>4. ASSUME NEW g \in Group, Throw(g)
      PROVE  Moves(g, "thrown")
  BY <1>4 DEF Throw, Idle, Moves
<1>5. ASSUME NEW g \in Group, Cancel(g)
      PROVE  Moves(g, "cancelled")
  BY <1>5 DEF Cancel, Moves
<1>6. ASSUME NEW g \in Group, EndGroup(g)
      PROVE  Moves(g, "done")
  BY <1>6 DEF EndGroup, Idle, Moves
<1>7. ASSUME NEW g \in Group, NEW s \in todo[g], Skip(g, s)
      PROVE  Passes(g, s)
  BY <1>7 DEF Skip, Idle, Done, Passes, Wanted, Packs
<1>8. ASSUME NEW g \in Group, NEW s \in todo[g], Add(g, s)
      PROVE  Adds(g, s) \/ Passes(g, s)
  <2>1. s \in Wanted(g)
    BY <1>8 DEF Add, Working, Wanted, Packs
  <2>. QED
    BY <1>8, <2>1 DEF Add, Idle, Done, Store, Has, Adds, Passes
<1>9. ASSUME NEW g \in Group, NEW s \in todo[g], Encrypt(g, s)
      PROVE  UNCHANGED <<disk, task, todo>>
  BY <1>9 DEF Encrypt
<1>10. ASSUME NEW g \in Group, Prepare(g)
       PROVE  UNCHANGED <<disk, task, todo>>
  BY <1>10 DEF Prepare
<1>11. ASSUME NEW g \in Group, Seal(g)
       PROVE  Adds(g, writing[g])
  <2>1. at[g] = "ready" /\ filled = Loop /\ writing[g] \in Wanted(g)
    BY <1>11 DEF Seal, Release, Filling, Working
  <2>. QED
    BY <1>11, <2>1 DEF Seal, Store, Done, Adds
<1>12. ASSUME NEW g \in Group
       PROVE  todo[g] \subseteq Source /\ Wanted(g) \subseteq Source
  BY ConfigAssumption DEF TypeOK, Wanted, Packs
<1>13. ASSUME NEW g \in Group, Seal(g)
       PROVE  writing[g] \in Source
  BY <1>11, <1>12, <1>13 DEF Adds
<1>. QED
  BY <1>1, <1>2, <1>3, <1>4, <1>5, <1>6, <1>7, <1>8, <1>9, <1>10, <1>11, <1>12, <1>13
  DEF Next, Task

\* The source that a group is encrypting stays one that it wants.
LEMMA WritingKeeps ==
  ASSUME TypeOK, Working, Next
  PROVE  /\ writing' \in [Group -> Source \cup {None}]
         /\ \A g \in Group : at'[g] # "none" => writing'[g] \in Wanted(g)
<1>. DEFINE Goal == /\ writing' \in [Group -> Source \cup {None}]
                    /\ \A g \in Group : at'[g] # "none" => writing'[g] \in Wanted(g)
<1>1. CASE UNCHANGED <<writing, tables>>
  BY <1>1 DEF TypeOK, Working, tables
<1>2. CASE Again
  BY <1>2 DEF Again, Renew
<1>3. ASSUME NEW g \in Group, NEW s \in todo[g], Encrypt(g, s)
      PROVE  Goal
  <2>1. s \in Wanted(g) /\ s \in Source
    BY <1>3, ConfigAssumption DEF Encrypt, Working, Wanted, Packs
  <2>2. /\ writing' = [writing EXCEPT ![g] = s]
        /\ \A h \in Group \ {g} : at'[h] = at[h]
    BY <1>3 DEF Encrypt, Construct, TypeOK
  <2>. QED
    BY <2>1, <2>2 DEF TypeOK, Working
<1>4. ASSUME NEW g \in Group, Prepare(g)
      PROVE  Goal
  <2>1. at[g] # "none" /\ UNCHANGED writing /\ \A h \in Group \ {g} : at'[h] = at[h]
    BY <1>4 DEF Prepare, CreateTables, SetCreated, Loop, TypeOK
  <2>. QED
    BY <2>1 DEF TypeOK, Working
<1>5. ASSUME NEW g \in Group, Seal(g)
      PROVE  Goal
  BY <1>5 DEF Seal, Release, TypeOK, Working
<1>6. ASSUME NEW g \in Group, NEW s \in todo[g],
             BeginGroup(g) \/ Fail(g) \/ Throw(g) \/ Cancel(g) \/ EndGroup(g)
               \/ Skip(g, s) \/ Add(g, s)
      PROVE  UNCHANGED <<writing, tables>>
  BY <1>6 DEF BeginGroup, Fail, Abort, Throw, Cancel, EndGroup, Skip, Add
<1>7. ASSUME NEW g \in Group,
             BeginGroup(g) \/ Fail(g) \/ Throw(g) \/ Cancel(g) \/ EndGroup(g)
      PROVE  UNCHANGED <<writing, tables>>
  BY <1>7 DEF BeginGroup, Fail, Abort, Throw, Cancel, EndGroup
<1>8. CASE InitializeConfigFile \/ Return
  BY <1>1, <1>8 DEF InitializeConfigFile, Return
<1>. QED
  BY <1>1, <1>2, <1>3, <1>4, <1>5, <1>6, <1>7, <1>8 DEF Next, Task

\* What is left to do and what is at work, under every change of a file.
LEMMA TasksKeep ==
  ASSUME TypeOK, Filling, Working, OneAdder, Next
  PROVE  /\ task' \in [Group -> {"wait", "add", "done", "thrown", "cancelled"}]
         /\ todo' \in [Group -> SUBSET Source]
         /\ \A g \in Group : todo'[g] \subseteq SourcesOf[g]
         /\ OneAdder'
<1>. DEFINE Goal == /\ task' \in [Group -> {"wait", "add", "done", "thrown", "cancelled"}]
                    /\ todo' \in [Group -> SUBSET Source]
                    /\ \A g \in Group : todo'[g] \subseteq SourcesOf[g]
                    /\ OneAdder'
<1>1. CASE UNCHANGED <<disk, task, todo>>
  BY <1>1 DEF TypeOK, Working, OneAdder
<1>2. CASE Restarts
  BY <1>2 DEF Restarts, OneAdder
<1>3. ASSUME NEW g \in Group, Empties(g)
      PROVE  Goal
  <2>1. \A h \in Group : task[h] = "add" => FileOf[h] # FileOf[g]
    BY <1>3 DEF Empties, Taken
  <2>2. /\ \A h \in Group : task'[h] = IF h = g THEN "add" ELSE task[h]
        /\ \A h \in Group : todo'[h] = IF h = g THEN SourcesOf[g] ELSE todo[h]
    BY <1>3 DEF Empties, TypeOK
  <2>3. OneAdder'
    BY <2>1, <2>2 DEF OneAdder
  <2>4. \A h \in Group : todo'[h] \subseteq SourcesOf[h]
    BY <2>2 DEF Working
  <2>. QED
    BY <1>3, <2>3, <2>4, ConfigAssumption DEF Empties, TypeOK
<1>4. ASSUME NEW g \in Group, NEW s \in Source, Adds(g, s) \/ Passes(g, s)
      PROVE  Goal
  BY <1>4 DEF Adds, Passes, TypeOK, Working, OneAdder
<1>5. ASSUME NEW g \in Group, NEW to \in {"done", "thrown", "cancelled"}, Moves(g, to)
      PROVE  Goal
  BY <1>5 DEF Moves, TypeOK, Working, OneAdder
<1>. QED
  BY <1>1, <1>2, <1>3, <1>4, <1>5, Steps

-----------------------------------------------------------------------------
(* The files *)

\* What a task that begins or goes on makes of its file.
LEMMA HoldsNothing ==
  ASSUME NEW g \in Group
  PROVE  Holds(Nothing, g)
BY DEF Holds, Nothing, Archives

LEMMA HoldsMore ==
  ASSUME NEW g \in Group, NEW s \in Wanted(g), NEW archive, Holds(archive, g)
  PROVE  Holds([archive EXCEPT ![IndexOf[s]] = s], g)
BY ConfigAssumption DEF Holds, Archives, Wanted, Packs

LEMMA NotAnArchive == None \notin Archives /\ Old \notin Archives
BY ConfigAssumption DEF Archives

LEMMA FilesKeep ==
  ASSUME TypeOK, Filling, Working, OneAdder, Own, Unmixed, Next
  PROVE  /\ disk' \in [Place -> Archives \cup {Old, None}]
         /\ Own' /\ Unmixed'
<1>. DEFINE Goal == /\ disk' \in [Place -> Archives \cup {Old, None}]
                    /\ Own' /\ Unmixed'
<1>1. CASE UNCHANGED <<disk, task, todo>>
  BY <1>1 DEF TypeOK, Own, Unmixed
<1>2. CASE Restarts
  BY <1>2, NotAnArchive DEF Restarts, Own, Unmixed
<1>3. ASSUME NEW g \in Group, Empties(g)
      PROVE  Goal
  <2>1. \A h \in Group : task[h] = "add" => FileOf[h] # FileOf[g]
    BY <1>3 DEF Empties, Taken
  <2>2. \A p \in Place : disk'[p] = IF p = FileOf[g] THEN Nothing ELSE disk[p]
    BY <1>3, ConfigAssumption DEF Empties, TypeOK
  <2>3. Holds(Nothing, g) /\ Nothing \in Archives
    BY HoldsNothing DEF Holds
  <2>4. disk' \in [Place -> Archives \cup {Old, None}]
    BY <1>3, <2>3 DEF Empties, TypeOK
  <2>5. Own'
    <3>. SUFFICES ASSUME NEW h \in Group, task'[h] = "add"
                  PROVE  Holds(disk'[FileOf[h]], h)
      BY DEF Own
    <3>1. FileOf[h] \in Place
      BY ConfigAssumption
    <3>2. CASE h = g
      BY <2>2, <2>3, <3>1, <3>2
    <3>3. CASE h # g
      <4>1. task[h] = "add" /\ FileOf[h] # FileOf[g]
        BY <1>3, <2>1, <3>3 DEF Empties, TypeOK
      <4>. QED
        BY <2>2, <3>1, <4>1 DEF Own
    <3>. QED
      BY <3>2, <3>3
  <2>6. Unmixed'
    BY <2>2, <2>3 DEF Unmixed
  <2>. QED
    BY <2>4, <2>5, <2>6
<1>4. ASSUME NEW g \in Group, NEW s \in Source, Adds(g, s)
      PROVE  Goal
  <2>. DEFINE new == [disk[FileOf[g]] EXCEPT ![IndexOf[s]] = s]
  <2>1. \A p \in Place : disk'[p] = IF p = FileOf[g] THEN new ELSE disk[p]
    BY <1>4, ConfigAssumption DEF Adds, TypeOK
  <2>2. Holds(new, g) /\ new \in Archives
    BY <1>4, HoldsMore DEF Adds, Own, Holds
  <2>3. disk' \in [Place -> Archives \cup {Old, None}]
    BY <1>4, <2>2 DEF Adds, TypeOK
  <2>. HIDE DEF new
  <2>4. Own'
    <3>. SUFFICES ASSUME NEW h \in Group, task'[h] = "add"
                  PROVE  Holds(disk'[FileOf[h]], h)
      BY DEF Own
    <3>1. task[h] = "add" /\ FileOf[h] \in Place
      BY <1>4, ConfigAssumption DEF Adds
    <3>2. h = g \/ FileOf[h] # FileOf[g]
      BY <1>4, <3>1 DEF Adds, OneAdder
    <3>. QED
      BY <2>1, <2>2, <3>1, <3>2 DEF Own
  <2>5. Unmixed'
    BY <2>1, <2>2 DEF Unmixed
  <2>. QED
    BY <2>3, <2>4, <2>5
<1>5. ASSUME NEW g \in Group, NEW s \in Source, Passes(g, s)
      PROVE  Goal
  BY <1>5 DEF Passes, TypeOK, Own, Unmixed
<1>6. ASSUME NEW g \in Group, NEW to \in {"done", "thrown", "cancelled"}, Moves(g, to)
      PROVE  Goal
  BY <1>6 DEF Moves, TypeOK, Own, Unmixed
<1>. QED
  BY <1>1, <1>2, <1>3, <1>4, <1>5, <1>6, Steps

LEMMA EndsKeep ==
  ASSUME TypeOK, Ends, Next
  PROVE  /\ phase' \in {"config", "pack", "exit"}
         /\ status' \in {None, "failure", "abort", "success"}
         /\ (status' = None <=> phase' # "exit") /\ threw' \in BOOLEAN
         /\ Ends'
<1>. DEFINE Goal == /\ phase' \in {"config", "pack", "exit"}
                    /\ status' \in {None, "failure", "abort", "success"}
                    /\ (status' = None <=> phase' # "exit") /\ threw' \in BOOLEAN
                    /\ Ends'
<1>1. CASE UNCHANGED <<phase, status, threw, task>>
  BY <1>1 DEF TypeOK, Ends
<1>2. ASSUME UNCHANGED <<threw, task>>, NEW why \in {"failure", "abort"}, Exit(why)
      PROVE  Goal
  BY <1>2, ConfigAssumption DEF Exit, TypeOK, Ends
<1>3. CASE InitializeConfigFile
  <2>1. CASE Exit("failure")
    BY <1>2, <1>3, <2>1 DEF InitializeConfigFile
  <2>2. CASE phase' = "pack" /\ UNCHANGED status
    BY <1>3, <2>2 DEF InitializeConfigFile, TypeOK, Ends
  <2>3. CASE FALSE \in Checks /\ Exit("success")
    <3>1. /\ phase' = "exit" /\ status' = "success" /\ UNCHANGED <<threw, task>>
          /\ \A g \in Group : task[g] = "wait"
      BY <1>3, <2>3 DEF InitializeConfigFile, Exit, Ends
    <3>2. Ends'
      BY <2>3, <3>1 DEF Ends
    <3>. QED
      BY <3>1, <3>2, ConfigAssumption DEF TypeOK
  <2>4. \A same \in Checks : ~same => same = FALSE
    BY ConfigAssumption
  <2>. QED
    BY <1>3, <2>1, <2>2, <2>3, <2>4 DEF InitializeConfigFile
<1>4. CASE Return
  BY <1>4, ConfigAssumption DEF Return, Exit, TypeOK, Ends
<1>5. CASE Again
  BY <1>5, ConfigAssumption DEF Again, TypeOK, Ends
<1>6. ASSUME NEW g \in Group, phase = "pack",
             NEW to \in {"add", "done", "thrown", "cancelled"},
             task' = [task EXCEPT ![g] = to], UNCHANGED <<phase, status>>,
             threw' \in BOOLEAN, threw => threw', to \in {"thrown", "cancelled"} => threw'
      PROVE  Goal
  <2>1. status = None /\ status' = None /\ phase' = "pack" /\ None # "success"
    BY <1>6, ConfigAssumption DEF TypeOK
  <2>2. \A h \in Group : task'[h] = IF h = g THEN to ELSE task[h]
    BY <1>6 DEF TypeOK
  <2>3. \A h \in Group : task'[h] \in {"thrown", "cancelled"} => threw'
    BY <1>6, <2>2 DEF Ends
  <2>4. Ends'
    BY <2>1, <2>3 DEF Ends
  <2>. QED
    BY <1>6, <2>1, <2>4 DEF TypeOK
<1>7. ASSUME NEW g \in Group, BeginGroup(g)
      PROVE  Goal
  <2>1. CASE Abort
    BY <1>2, <2>1 DEF Abort
  <2>2. CASE task' = [task EXCEPT ![g] = "add"] /\ UNCHANGED <<phase, status, threw>>
    <3>1. phase = "pack" /\ threw' \in BOOLEAN
      BY <1>7, <2>2 DEF BeginGroup, TypeOK
    <3>. QED
      BY <1>6, <2>2, <3>1
  <2>. QED
    BY <1>7, <2>1, <2>2 DEF BeginGroup
<1>8. ASSUME NEW g \in Group, Fail(g)
      PROVE  Goal
  BY <1>2, <1>8 DEF Fail, Abort
<1>9. ASSUME NEW g \in Group, Throw(g) \/ Cancel(g) \/ EndGroup(g)
      PROVE  Goal
  <2>1. CASE Throw(g)
    BY <1>6, <2>1 DEF Throw, Idle
  <2>2. CASE Cancel(g)
    <3>1. /\ phase = "pack" /\ threw /\ task' = [task EXCEPT ![g] = "cancelled"]
          /\ UNCHANGED <<phase, status, threw>> /\ threw' \in BOOLEAN
      BY <2>2 DEF Cancel, TypeOK
    <3>. QED
      BY <1>6, <3>1
  <2>3. CASE EndGroup(g)
    <3>1. /\ phase = "pack" /\ task' = [task EXCEPT ![g] = "done"]
          /\ UNCHANGED <<phase, status, threw>> /\ threw' \in BOOLEAN
      BY <2>3 DEF EndGroup, Idle, TypeOK
    <3>. QED
      BY <1>6, <3>1
  <2>. QED
    BY <1>9, <2>1, <2>2, <2>3
<1>10. ASSUME NEW g \in Group, NEW s \in todo[g], Skip(g, s) \/ Add(g, s) \/ Encrypt(g, s)
      PROVE  UNCHANGED <<phase, status, threw, task>>
  BY <1>10 DEF Skip, Add, Encrypt
<1>11. ASSUME NEW g \in Group, Prepare(g) \/ Seal(g)
       PROVE  UNCHANGED <<phase, status, threw, task>>
  BY <1>11 DEF Prepare, Seal
<1>. QED
  BY <1>1, <1>3, <1>4, <1>5, <1>7, <1>8, <1>9, <1>10, <1>11 DEF Next, Task

\* A group with a file of its own: its archive is what it makes it.
LEMMA ProgressKeeps ==
  ASSUME TypeOK, Filling, Working, Own, Progress, Next
  PROVE  Progress'
<1>. DEFINE Packing(archive, left, g) ==
       /\ Holds(archive, g)
       /\ \A s \in Wanted(g) \ left : archive[IndexOf[s]] \in Wanted(g)
<1>1. CASE UNCHANGED <<disk, task, todo>>
  BY <1>1 DEF Progress, Left
<1>2. CASE Restarts
  BY <1>2 DEF Restarts, Progress
<1>3. ASSUME NEW g \in Group, Empties(g)
      PROVE  Progress'
  <2>. SUFFICES ASSUME NEW h \in Group, ~Shares(h), task'[h] \in {"add", "done"}
                PROVE  Packing(disk'[FileOf[h]], Left(h)', h)
    BY DEF Progress, Shares
  <2>1. FileOf[h] \in Place /\ FileOf[g] \in Place
    BY ConfigAssumption
  <2>2. CASE h = g
    <3>1. disk'[FileOf[h]] = Nothing /\ Left(h)' = SourcesOf[h]
      BY <1>3, <2>1, <2>2 DEF Empties, Left, TypeOK
    <3>. QED
      BY <3>1, HoldsNothing DEF Wanted, Packs
  <2>3. CASE h # g
    <3>1. FileOf[h] # FileOf[g]
      BY <2>3 DEF Shares
    <3>2. disk'[FileOf[h]] = disk[FileOf[h]] /\ Left(h)' = Left(h) /\ task'[h] = task[h]
      BY <1>3, <2>1, <2>3, <3>1 DEF Empties, Left, TypeOK
    <3>. QED
      BY <3>2 DEF Progress
  <2>. QED
    BY <2>2, <2>3
<1>4. ASSUME NEW g \in Group, NEW s \in Source, Adds(g, s)
      PROVE  Progress'
  <2>. SUFFICES ASSUME NEW h \in Group, ~Shares(h), task'[h] \in {"add", "done"}
                PROVE  Packing(disk'[FileOf[h]], Left(h)', h)
    BY DEF Progress, Shares
  <2>1. FileOf[h] \in Place /\ FileOf[g] \in Place /\ task'[h] = task[h]
    BY <1>4, ConfigAssumption DEF Adds
  <2>2. Packing(disk[FileOf[h]], Left(h), h)
    BY <2>1 DEF Progress
  <2>3. CASE h = g
    <3>1. /\ disk'[FileOf[h]] = [disk[FileOf[h]] EXCEPT ![IndexOf[s]] = s]
          /\ Left(h)' = Left(h) \ {s} /\ s \in Wanted(h)
      BY <1>4, <2>1, <2>3 DEF Adds, Left, TypeOK
    <3>2. Holds(disk'[FileOf[h]], h)
      BY <2>2, <3>1, HoldsMore
    <3>3. ASSUME NEW r \in Wanted(h) \ Left(h)'
          PROVE  disk'[FileOf[h]][IndexOf[r]] \in Wanted(h)
      <4>1. IndexOf[r] \in Index /\ IndexOf[s] \in Index
        BY ConfigAssumption DEF Wanted, Packs
      <4>2. DOMAIN disk[FileOf[h]] = Index
        BY <2>2 DEF Holds, Archives
      <4>3. CASE r = s
        BY <3>1, <4>1, <4>2, <4>3
      <4>4. CASE r # s
        BY <2>2, <3>1, <3>3, <4>1, <4>2, <4>4
      <4>. QED
        BY <4>3, <4>4
    <3>. QED
      BY <3>2, <3>3
  <2>4. CASE h # g
    <3>1. FileOf[h] # FileOf[g]
      BY <2>4 DEF Shares
    <3>2. disk'[FileOf[h]] = disk[FileOf[h]] /\ Left(h)' = Left(h)
      BY <1>4, <2>1, <2>4, <3>1 DEF Adds, Left, TypeOK
    <3>. QED
      BY <2>2, <3>2
  <2>. QED
    BY <2>3, <2>4
<1>5. ASSUME NEW g \in Group, NEW s \in Source, Passes(g, s)
      PROVE  Progress'
  <2>. SUFFICES ASSUME NEW h \in Group, ~Shares(h), task'[h] \in {"add", "done"}
                PROVE  Packing(disk'[FileOf[h]], Left(h)', h)
    BY DEF Progress, Shares
  <2>1. FileOf[h] \in Place /\ task'[h] = task[h] /\ disk' = disk
    BY <1>5, ConfigAssumption DEF Passes
  <2>2. Packing(disk[FileOf[h]], Left(h), h)
    BY <2>1 DEF Progress
  <2>3. CASE h = g
    <3>1. Left(h)' = Left(h) \ {s}
      BY <1>5, <2>1, <2>3 DEF Passes, Left, TypeOK
    <3>2. s \in Wanted(h) => disk[FileOf[h]][IndexOf[s]] \in Wanted(h)
      <4>1. IndexOf[s] \in Index
        BY ConfigAssumption
      <4>. QED
        BY <1>5, <2>2, <2>3, <4>1, ConfigAssumption DEF Passes, Holds
    <3>. QED
      BY <2>1, <2>2, <3>1, <3>2
  <2>4. CASE h # g
    <3>1. Left(h)' = Left(h)
      BY <1>5, <2>1, <2>4 DEF Passes, Left, TypeOK
    <3>. QED
      BY <2>1, <2>2, <3>1
  <2>. QED
    BY <2>3, <2>4
<1>6. ASSUME NEW g \in Group, NEW to \in {"done", "thrown", "cancelled"}, Moves(g, to)
      PROVE  Progress'
  <2>. SUFFICES ASSUME NEW h \in Group, ~Shares(h), task'[h] \in {"add", "done"}
                PROVE  Packing(disk'[FileOf[h]], Left(h)', h)
    BY DEF Progress, Shares
  <2>1. disk' = disk /\ task[h] \in {"add", "done"} /\ Left(h)' = Left(h)
    BY <1>6 DEF Moves, Left, TypeOK
  <2>. QED
    BY <2>1 DEF Progress
<1>. QED
  BY <1>1, <1>2, <1>3, <1>4, <1>5, <1>6, Steps

-----------------------------------------------------------------------------
(* The theorems *)

LEMMA InitHolds ==
  ASSUME Init
  PROVE  IInv
<1>1. TypeOK
  BY ConfigAssumption DEF Init, TablesInit, TypeOK
<1>2. Filling /\ Working /\ OneAdder /\ Own /\ Progress /\ Ends
  BY ConfigAssumption
  DEF Init, TablesInit, Filling, Working, OneAdder, Own, Progress, Ends
<1>3. Unmixed
  BY NotAnArchive DEF Init, Unmixed
<1>. QED
  BY <1>1, <1>2, <1>3 DEF IInv

LEMMA NextKeeps ==
  ASSUME IInv, [Next]_vars
  PROVE  IInv'
<1>1. CASE Next
  <2>1. TypeOK' /\ Working'
    BY <1>1, SpoiltTyped, AtTyped, WritingKeeps, TasksKeep, FilesKeep, EndsKeep
    DEF IInv, TypeOK, Working
  <2>. QED
    BY <1>1, <2>1, FillingKeeps, TasksKeep, FilesKeep, EndsKeep, ProgressKeeps DEF IInv
<1>2. CASE UNCHANGED vars
  BY <1>2 DEF vars, tables, IInv, TypeOK, Filling, Working, OneAdder, Own, Unmixed,
              Progress, Left, Ends
<1>. QED
  BY <1>1, <1>2

LEMMA Always == Spec => []IInv
<1>1. IInv /\ [Next]_vars => IInv'
  BY NextKeeps
<1>. QED
  BY <1>1, InitHolds, PTL DEF Spec

\* However many tasks construct their first cipher at the same time, none of
\* them encrypts before create_tables has run through (aes.cpp:39-43).
THEOREM NoTaskIsEarly == Spec => []TablesReady
<1>1. IInv => TablesReady
  BY DEF IInv, Filling, TablesReady
<1>. QED
  BY <1>1, Always, PTL

\* The files of two groups never meet in one archive, whatever the
\* configuration gave the groups and however their tasks run.
THEOREM GroupsApart == Spec => []NeverMixed
<1>1. \A g \in Group : Wanted(g) \subseteq SourcesOf[g]
  BY DEF Wanted, Packs
<1>2. IInv => NeverMixed
  BY <1>1 DEF IInv, Unmixed, Holds, NeverMixed
<1>. QED
  BY <1>2, Always, PTL

\* A task that is done has packed all of its group and nothing else, unless
\* the file is another group's too or a write was lost unnoticed, and whatever
\* became of the other tasks; and a process that says success has done all of
\* them, or an exception ended it, or it refused to begin (main.cpp:409-438).
THEOREM SuccessIsTrue == Spec => []SuccessMeansPacked
<1>1. ASSUME IInv, NEW g \in Group, task[g] = "done", ~Shares(g)
      PROVE  Packed(g)
  <2>1. Left(g) = {}
    BY <1>1 DEF Left
  <2>2. /\ Holds(disk[FileOf[g]], g)
        /\ \A s \in Wanted(g) : disk[FileOf[g]][IndexOf[s]] \in Wanted(g)
    BY <1>1, <2>1 DEF IInv, Progress
  <2>. QED
    BY <2>2 DEF Packed, Holds, Wanted
<1>2. ASSUME IInv, status = "success", ~threw
      PROVE  \/ \A g \in Group : task[g] = "done"
             \/ FALSE \in Checks /\ \A g \in Group : task[g] = "wait"
  <2>1. ASSUME NEW g \in Group
        PROVE  task[g] \in {"wait", "add", "done"}
    BY <1>2, <2>1 DEF IInv, Ends, TypeOK
  <2>. QED
    BY <1>2, <2>1 DEF IInv, Ends
<1>3. IInv => SuccessMeansPacked
  BY <1>1, <1>2 DEF SuccessMeansPacked
<1>. QED
  BY <1>3, Always, PTL

-----------------------------------------------------------------------------
(* Bytes under exclusive or *)

Nibble == 0 .. 15
Quad(p, q, r, s) == p + 2 * q + 4 * r + 8 * s
Half(n, m) == (n + m) % 2
Plus(a, b) ==
  Quad((Bit(a, 0) + Bit(b, 0)) % 2, (Bit(a, 1) + Bit(b, 1)) % 2,
       (Bit(a, 2) + Bit(b, 2)) % 2, (Bit(a, 3) + Bit(b, 3)) % 2)

LEMMA NibbleBits ==
  ASSUME NEW a \in Nibble
  PROVE  \E p, q, r, s \in {0, 1} : a = Quad(p, q, r, s)
<1>1. a \in {0, 1, 2, 3, 4, 5, 6, 7, 8, 9, 10, 11, 12, 13, 14, 15}
  BY DEF Nibble
<1> QED
  BY <1>1 DEF Quad

LEMMA QuadBits ==
  ASSUME NEW p \in {0, 1}, NEW q \in {0, 1}, NEW r \in {0, 1}, NEW s \in {0, 1}
  PROVE  /\ Quad(p, q, r, s) \in Nibble
         /\ Bit(Quad(p, q, r, s), 0) = p /\ Bit(Quad(p, q, r, s), 1) = q
         /\ Bit(Quad(p, q, r, s), 2) = r /\ Bit(Quad(p, q, r, s), 3) = s
<1>1. \A b : /\ Bit(b, 0) = (b \div 1) % 2 /\ Bit(b, 1) = (b \div 2) % 2
             /\ Bit(b, 2) = (b \div 4) % 2 /\ Bit(b, 3) = (b \div 8) % 2
  BY DEF Bit
<1> QED
  BY <1>1 DEF Quad, Nibble

LEMMA NibbleXorIs ==
  ASSUME NEW a \in Nibble, NEW b \in Nibble
  PROVE  NibbleXor[a][b] = Plus(a, b)
BY DEF NibbleXor, Plus, Quad, Nibble

Flip(p, q) == (p + q) % 2

LEMMA FlipFacts ==
  ASSUME NEW p \in {0, 1}, NEW q \in {0, 1}, NEW r \in {0, 1}
  PROVE  /\ Flip(p, q) \in {0, 1} /\ Flip(p, q) = Flip(q, p)
         /\ Flip(Flip(p, q), r) = Flip(p, Flip(q, r))
         /\ Flip(p, 0) = p /\ Flip(p, p) = 0
BY DEF Flip

LEMMA PlusIs ==
  ASSUME NEW p \in {0, 1}, NEW q \in {0, 1}, NEW r \in {0, 1}, NEW s \in {0, 1},
         NEW p1 \in {0, 1}, NEW q1 \in {0, 1}, NEW r1 \in {0, 1}, NEW s1 \in {0, 1}
  PROVE  Plus(Quad(p, q, r, s), Quad(p1, q1, r1, s1))
         = Quad(Flip(p, p1), Flip(q, q1), Flip(r, r1), Flip(s, s1))
BY QuadBits DEF Plus, Flip

\* The exclusive or of nibbles.
LEMMA NibbleFacts ==
  ASSUME NEW a \in Nibble, NEW b \in Nibble, NEW c \in Nibble
  PROVE  /\ Plus(a, b) \in Nibble /\ Plus(a, b) = Plus(b, a)
         /\ Plus(Plus(a, b), c) = Plus(a, Plus(b, c))
         /\ Plus(a, 0) = a /\ Plus(a, a) = 0
<1>1. PICK p, q, r, s \in {0, 1} : a = Quad(p, q, r, s)
  BY NibbleBits
<1>2. PICK p1, q1, r1, s1 \in {0, 1} : b = Quad(p1, q1, r1, s1)
  BY NibbleBits
<1>3. PICK p2, q2, r2, s2 \in {0, 1} : c = Quad(p2, q2, r2, s2)
  BY NibbleBits
<1>4. 0 = Quad(0, 0, 0, 0) /\ 0 \in {0, 1}
  BY DEF Quad
<1>5. Plus(a, b) = Quad(Flip(p, p1), Flip(q, q1), Flip(r, r1), Flip(s, s1))
  BY <1>1, <1>2, PlusIs
<1>6. Plus(b, a) = Quad(Flip(p1, p), Flip(q1, q), Flip(r1, r), Flip(s1, s))
  BY <1>1, <1>2, PlusIs
<1>7. Plus(b, c) = Quad(Flip(p1, p2), Flip(q1, q2), Flip(r1, r2), Flip(s1, s2))
  BY <1>2, <1>3, PlusIs
<1>8. Plus(a, 0) = Quad(Flip(p, 0), Flip(q, 0), Flip(r, 0), Flip(s, 0))
  BY <1>1, <1>4, PlusIs
<1>9. Plus(a, a) = Quad(Flip(p, p), Flip(q, q), Flip(r, r), Flip(s, s))
  BY <1>1, PlusIs
<1>10. /\ Flip(p, p1) \in {0, 1} /\ Flip(q, q1) \in {0, 1}
       /\ Flip(r, r1) \in {0, 1} /\ Flip(s, s1) \in {0, 1}
       /\ Flip(p1, p2) \in {0, 1} /\ Flip(q1, q2) \in {0, 1}
       /\ Flip(r1, r2) \in {0, 1} /\ Flip(s1, s2) \in {0, 1}
  BY FlipFacts
<1>11. Plus(Plus(a, b), c)
       = Quad(Flip(Flip(p, p1), p2), Flip(Flip(q, q1), q2),
              Flip(Flip(r, r1), r2), Flip(Flip(s, s1), s2))
  BY <1>3, <1>5, <1>10, PlusIs
<1>12. Plus(a, Plus(b, c))
       = Quad(Flip(p, Flip(p1, p2)), Flip(q, Flip(q1, q2)),
              Flip(r, Flip(r1, r2)), Flip(s, Flip(s1, s2)))
  BY <1>1, <1>7, <1>10, PlusIs
<1>13. Plus(a, b) \in Nibble
  BY <1>5, <1>10, QuadBits
<1>14. Plus(a, b) = Plus(b, a)
  BY <1>5, <1>6, FlipFacts
<1>15. Plus(Plus(a, b), c) = Plus(a, Plus(b, c))
  BY <1>11, <1>12, FlipFacts
<1>16. Plus(a, 0) = a /\ Plus(a, a) = 0
  BY <1>1, <1>4, <1>8, <1>9, FlipFacts
<1> QED
  BY <1>13, <1>14, <1>15, <1>16

LEMMA ByteHalves ==
  ASSUME NEW b \in Byte
  PROVE  /\ b \div 16 \in Nibble /\ b % 16 \in Nibble
         /\ b = (16 * (b \div 16)) + (b % 16)
BY DEF Byte, Nibble

LEMMA HalvesByte ==
  ASSUME NEW h \in Nibble, NEW l \in Nibble
  PROVE  /\ (16 * h) + l \in Byte
         /\ ((16 * h) + l) \div 16 = h /\ ((16 * h) + l) % 16 = l
BY DEF Byte, Nibble

LEMMA XorIs ==
  ASSUME NEW a \in Byte, NEW b \in Byte
  PROVE  /\ a ++ b = (16 * Plus(a \div 16, b \div 16)) + Plus(a % 16, b % 16)
         /\ a ++ b \in Byte
         /\ (a ++ b) \div 16 = Plus(a \div 16, b \div 16)
         /\ (a ++ b) % 16 = Plus(a % 16, b % 16)
<1>1. a ++ b = (16 * NibbleXor[a \div 16][b \div 16]) + NibbleXor[a % 16][b % 16]
  BY DEF ++, ByteXor
<1>2. a ++ b = (16 * Plus(a \div 16, b \div 16)) + Plus(a % 16, b % 16)
  BY <1>1, ByteHalves, NibbleXorIs
<1>3. Plus(a \div 16, b \div 16) \in Nibble /\ Plus(a % 16, b % 16) \in Nibble
  BY ByteHalves, NibbleFacts
<1> QED
  BY <1>2, <1>3, HalvesByte

GroupLaws(a, b, c) ==
  /\ a ++ b \in Byte /\ a ++ b = b ++ a
  /\ (a ++ b) ++ c = a ++ (b ++ c)
  /\ a ++ 0 = a /\ 0 ++ a = a /\ a ++ a = 0

\* Bytes with exclusive or are a commutative group in which all is its own
\* inverse.
LEMMA XorFacts == \A a, b, c \in Byte : GroupLaws(a, b, c)
<1> SUFFICES ASSUME NEW a \in Byte, NEW b \in Byte, NEW c \in Byte
             PROVE  GroupLaws(a, b, c)
  OBVIOUS
<1>0. 0 \in Byte /\ 0 \div 16 = 0 /\ 0 % 16 = 0
  BY DEF Byte
<1>1. \A x, y \in Byte : x ++ y \in Byte
  BY XorIs
<1>2. \A x, y \in Byte : x \div 16 = y \div 16 /\ x % 16 = y % 16 => x = y
  BY ByteHalves
<1>3. a ++ b = b ++ a
  <2>1. (a ++ b) \div 16 = (b ++ a) \div 16 /\ (a ++ b) % 16 = (b ++ a) % 16
    BY XorIs, ByteHalves, NibbleFacts
  <2> QED
    BY <1>1, <1>2, <2>1
<1>4. (a ++ b) ++ c = a ++ (b ++ c)
  <2>1. /\ ((a ++ b) ++ c) \div 16 = Plus(Plus(a \div 16, b \div 16), c \div 16)
        /\ ((a ++ b) ++ c) % 16 = Plus(Plus(a % 16, b % 16), c % 16)
    BY <1>1, XorIs
  <2>2. /\ (a ++ (b ++ c)) \div 16 = Plus(a \div 16, Plus(b \div 16, c \div 16))
        /\ (a ++ (b ++ c)) % 16 = Plus(a % 16, Plus(b % 16, c % 16))
    BY <1>1, XorIs
  <2>3. /\ ((a ++ b) ++ c) \div 16 = (a ++ (b ++ c)) \div 16
        /\ ((a ++ b) ++ c) % 16 = (a ++ (b ++ c)) % 16
    BY <2>1, <2>2, ByteHalves, NibbleFacts
  <2> QED
    BY <1>1, <1>2, <2>3
<1>5. a ++ 0 = a /\ 0 ++ a = a
  <2>1. (a ++ 0) \div 16 = a \div 16 /\ (a ++ 0) % 16 = a % 16
    BY <1>0, XorIs, ByteHalves, NibbleFacts
  <2>2. (0 ++ a) \div 16 = a \div 16 /\ (0 ++ a) % 16 = a % 16
    BY <1>0, XorIs, ByteHalves, NibbleFacts
  <2> QED
    BY <1>0, <1>1, <1>2, <2>1, <2>2
<1>6. a ++ a = 0
  <2>1. (a ++ a) \div 16 = 0 /\ (a ++ a) % 16 = 0
    BY XorIs, ByteHalves, NibbleFacts
  <2> QED
    BY <1>0, <1>1, <1>2, <2>1
<1> QED
  BY <1>1, <1>3, <1>4, <1>5, <1>6 DEF GroupLaws

-----------------------------------------------------------------------------
(* Words, and products of bytes *)

LEMMA SumFacts ==
  /\ 0 \in Byte
  /\ \A a, b \in Byte : a ++ b \in Byte /\ a ++ b = b ++ a
  /\ \A a, b, c \in Byte : (a ++ b) ++ c = a ++ (b ++ c)
  /\ \A a \in Byte : a ++ 0 = a /\ 0 ++ a = a /\ a ++ a = 0
<1>1. 0 \in Byte
  BY DEF Byte
<1>2. \A a, b, c \in Byte :
        /\ a ++ b \in Byte /\ a ++ b = b ++ a
        /\ (a ++ b) ++ c = a ++ (b ++ c)
        /\ a ++ 0 = a /\ 0 ++ a = a /\ a ++ a = 0
  BY XorFacts DEF GroupLaws
<1> QED
  BY <1>1, <1>2

LEMMA Exchange ==
  \A a, b, c, d \in Byte : (a ++ b) ++ (c ++ d) = (a ++ c) ++ (b ++ d)
<1> SUFFICES ASSUME NEW a \in Byte, NEW b \in Byte, NEW c \in Byte, NEW d \in Byte
             PROVE  (a ++ b) ++ (c ++ d) = (a ++ c) ++ (b ++ d)
  OBVIOUS
<1>2. (a ++ b) ++ (c ++ d) = a ++ (b ++ (c ++ d)) /\ b ++ (c ++ d) = (b ++ c) ++ d
  BY SumFacts
<1>3. (a ++ c) ++ (b ++ d) = a ++ (c ++ (b ++ d)) /\ c ++ (b ++ d) = (c ++ b) ++ d
  BY SumFacts
<1>4. b ++ c = c ++ b
  BY SumFacts
<1> QED
  BY <1>2, <1>3, <1>4

\* A sum of four may begin with any of them.
LEMMA Turned ==
  ASSUME NEW a \in Byte, NEW b \in Byte, NEW c \in Byte, NEW d \in Byte
  PROVE  /\ d ++ a ++ b ++ c = a ++ b ++ c ++ d
         /\ c ++ d ++ a ++ b = a ++ b ++ c ++ d
         /\ b ++ c ++ d ++ a = a ++ b ++ c ++ d
<1>1. /\ a ++ b \in Byte /\ b ++ c \in Byte /\ c ++ d \in Byte /\ d ++ a \in Byte
      /\ (a ++ b) ++ c \in Byte /\ (b ++ c) ++ d \in Byte
  BY SumFacts
<1>2. d ++ a ++ b ++ c = d ++ (a ++ b ++ c)
  <2>1. d ++ a ++ b = d ++ (a ++ b)
    BY SumFacts
  <2>2. (d ++ (a ++ b)) ++ c = d ++ ((a ++ b) ++ c)
    BY <1>1, SumFacts
  <2> QED BY <2>1, <2>2
<1>3. c ++ d ++ a ++ b = (a ++ b) ++ (c ++ d)
  <2>1. ((c ++ d) ++ a) ++ b = (c ++ d) ++ (a ++ b)
    BY <1>1, SumFacts
  <2> QED BY <1>1, <2>1, SumFacts
<1>4. (a ++ b) ++ (c ++ d) = a ++ b ++ c ++ d
  BY <1>1, SumFacts
<1>5. b ++ c ++ d ++ a = a ++ (b ++ c ++ d)
  BY <1>1, SumFacts
<1>6. a ++ (b ++ c ++ d) = a ++ b ++ c ++ d
  <2>1. (b ++ c) ++ d = b ++ (c ++ d)
    BY SumFacts
  <2>2. a ++ (b ++ (c ++ d)) = (a ++ b) ++ (c ++ d)
    BY <1>1, SumFacts
  <2> QED BY <1>4, <2>1, <2>2
<1>7. d ++ (a ++ b ++ c) = a ++ b ++ c ++ d
  BY <1>1, SumFacts
<1> QED
  BY <1>2, <1>3, <1>4, <1>5, <1>6, <1>7

\* Four members of a set, in a row.
LEMMA RowOf ==
  ASSUME NEW T, NEW p, p = <<p[1], p[2], p[3], p[4]>>, \A i \in 1 .. 4 : p[i] \in T
  PROVE  p \in [1 .. 4 -> T]
<1>1. p[1] \in T /\ p[2] \in T /\ p[3] \in T /\ p[4] \in T
  OBVIOUS
<1> QED
  BY <1>1

\* The exclusive or of words.
LEMMA WordSum ==
  ASSUME NEW v \in Word, NEW w \in Word
  PROVE  /\ v ## w \in Word
         /\ \A r \in 1 .. 4 : (v ## w)[r] = v[r] ++ w[r]
<1> DEFINE p == v ## w
<1>1. p = <<p[1], p[2], p[3], p[4]>> /\ \A r \in 1 .. 4 : p[r] = v[r] ++ w[r]
  <2>1. p = <<v[1] ++ w[1], v[2] ++ w[2], v[3] ++ w[3], v[4] ++ w[4]>>
    BY DEF ##, Four
  <2> HIDE DEF p
  <2> QED
    BY <2>1
<1> HIDE DEF p
<1>2. \A r \in 1 .. 4 : v[r] ++ w[r] \in Byte
  BY SumFacts DEF Word
<1>3. \A r \in 1 .. 4 : p[r] \in Byte
  BY <1>1, <1>2
<1>4. p \in Word
  BY <1>1, <1>3, RowOf DEF Word
<1> QED
  BY <1>1, <1>4 DEF p

LEMMA SameWord ==
  ASSUME NEW v \in Word, NEW w \in Word, \A r \in 1 .. 4 : v[r] = w[r]
  PROVE  v = w
BY DEF Word

LEMMA WordCommutes ==
  ASSUME NEW v \in Word, NEW w \in Word
  PROVE  v ## w = w ## v
<1>1. v ## w \in Word /\ w ## v \in Word
  BY WordSum
<1>2. \A r \in 1 .. 4 : v[r] \in Byte /\ w[r] \in Byte
  BY DEF Word
<1>3. \A r \in 1 .. 4 : (v ## w)[r] = v[r] ++ w[r] /\ (w ## v)[r] = w[r] ++ v[r]
  BY WordSum
<1>4. \A r \in 1 .. 4 : v[r] ++ w[r] = w[r] ++ v[r]
  BY <1>2, SumFacts
<1> QED
  BY <1>1, <1>3, <1>4, SameWord

Term(a, b, n) == IF Bit(a, n) = 1 THEN Doubles[b][n + 1] ELSE 0

LEMMA TermFacts ==
  ASSUME NEW a, NEW n \in 0 .. 7
  PROVE  /\ \A b \in Byte : Term(a, b, n) \in Byte
         /\ \A b, c \in Byte : Term(a, b ++ c, n) = Term(a, b, n) ++ Term(a, c, n)
<1>1. n + 1 \in 1 .. 8 /\ 0 \in Byte
  BY DEF Byte
<1>2. 0 ++ 0 = 0
  BY <1>1, SumFacts
<1>3. \A b, c \in Byte : /\ Doubles[b][n + 1] \in Byte
                         /\ Doubles[b ++ c][n + 1] = Doubles[b][n + 1] ++ Doubles[c][n + 1]
  <2>1. n + 1 \in 1 .. 10
    BY <1>1
  <2> QED
    BY <2>1, FieldAssumption
<1>4. CASE Bit(a, n) = 1
  <2>1. \A b : Term(a, b, n) = Doubles[b][n + 1]
    BY <1>4 DEF Term
  <2> QED
    BY <1>3, <2>1
<1>5. CASE Bit(a, n) # 1
  <2>1. \A b : Term(a, b, n) = 0
    BY <1>5 DEF Term
  <2> QED
    BY <1>1, <1>2, <2>1
<1> QED
  BY <1>4, <1>5

LEMMA TimesIs ==
  ASSUME NEW a, NEW b
  PROVE  Times(a, b) = Term(a, b, 0) ++ Term(a, b, 1) ++ Term(a, b, 2) ++ Term(a, b, 3)
                       ++ Term(a, b, 4) ++ Term(a, b, 5) ++ Term(a, b, 6) ++ Term(a, b, 7)
BY DEF Times, Term

\* Functions of bytes that distribute over the sum, and the sum of two.
Additive(f) ==
  /\ \A b \in Byte : f[b] \in Byte
  /\ \A b, c \in Byte : f[b ++ c] = f[b] ++ f[c]
Also(f, g) == [b \in Byte |-> f[b] ++ g[b]]

LEMMA AlsoAdditive ==
  ASSUME NEW f, NEW g, Additive(f), Additive(g)
  PROVE  Additive(Also(f, g))
<1>1. \A b \in Byte : Also(f, g)[b] = f[b] ++ g[b]
  BY DEF Also
<1>2. \A b \in Byte : f[b] \in Byte /\ g[b] \in Byte /\ f[b] ++ g[b] \in Byte
  BY SumFacts DEF Additive
<1>3. ASSUME NEW b \in Byte, NEW c \in Byte
      PROVE  Also(f, g)[b ++ c] = Also(f, g)[b] ++ Also(f, g)[c]
  <2>1. f[b ++ c] = f[b] ++ f[c] /\ g[b ++ c] = g[b] ++ g[c]
    BY DEF Additive
  <2>2. (f[b] ++ f[c]) ++ (g[b] ++ g[c]) = (f[b] ++ g[b]) ++ (f[c] ++ g[c])
    BY <1>2, Exchange
  <2>3. b ++ c \in Byte
    BY SumFacts
  <2> QED
    BY <1>1, <2>1, <2>2, <2>3
<1> QED
  BY <1>1, <1>2, <1>3 DEF Additive

\* Multiplication distributes over the sum.
LEMMA TimesFacts ==
  ASSUME NEW a
  PROVE  /\ \A b \in Byte : Times(a, b) \in Byte
         /\ \A b, c \in Byte : Times(a, b ++ c) = Times(a, b) ++ Times(a, c)
         /\ Times(a, 0) = 0
<1> DEFINE t == [n \in 0 .. 7 |-> [b \in Byte |-> Term(a, b, n)]]
           f == Also(Also(Also(Also(Also(Also(Also(t[0], t[1]), t[2]), t[3]), t[4]), t[5]),
                          t[6]), t[7])
<1>1. \A n \in 0 .. 7 : Additive(t[n])
  <2> SUFFICES ASSUME NEW n \in 0 .. 7
               PROVE  Additive(t[n])
    OBVIOUS
  <2>1. /\ \A b \in Byte : Term(a, b, n) \in Byte
        /\ \A b, c \in Byte : Term(a, b ++ c, n) = Term(a, b, n) ++ Term(a, c, n)
    BY TermFacts
  <2>2. \A b \in Byte : t[n][b] = Term(a, b, n)
    OBVIOUS
  <2> HIDE DEF t
  <2>3. \A b, c \in Byte : b ++ c \in Byte
    BY SumFacts
  <2> QED
    BY <2>1, <2>2, <2>3 DEF Additive
<1>2. \A b \in Byte : Times(a, b) = f[b]
  BY TimesIs DEF Also
<1> HIDE DEF t
<1>3. Additive(f)
  BY <1>1, AlsoAdditive
<1> HIDE DEF f
<1>4. 0 \in Byte /\ 0 ++ 0 = 0 /\ \A x \in Byte : x ++ x = 0
  BY SumFacts
<1>5. f[0] = f[0] ++ f[0]
  BY <1>3, <1>4 DEF Additive
<1>6. Times(a, 0) = 0
  BY <1>2, <1>3, <1>4, <1>5 DEF Additive
<1>7. \A b, c \in Byte : b ++ c \in Byte
  BY SumFacts
<1> QED
  BY <1>2, <1>3, <1>6, <1>7 DEF Additive

-----------------------------------------------------------------------------
(* Columns *)

LEMMA CirculantIs ==
  ASSUME NEW m, NEW w
  PROVE  Circulant(m, w) =
           <<Times(m[1], w[1]) ++ Times(m[2], w[2]) ++ Times(m[3], w[3]) ++ Times(m[4], w[4]),
             Times(m[1], w[2]) ++ Times(m[2], w[3]) ++ Times(m[3], w[4]) ++ Times(m[4], w[1]),
             Times(m[1], w[3]) ++ Times(m[2], w[4]) ++ Times(m[3], w[1]) ++ Times(m[4], w[2]),
             Times(m[1], w[4]) ++ Times(m[2], w[1]) ++ Times(m[3], w[2]) ++ Times(m[4], w[3])>>
<1>1. /\ Column(1 + 1) = 2 /\ Column(1 + 2) = 3 /\ Column(1 + 3) = 4
      /\ Column(2 + 1) = 3 /\ Column(2 + 2) = 4 /\ Column(2 + 3) = 1
      /\ Column(3 + 1) = 4 /\ Column(3 + 2) = 1 /\ Column(3 + 3) = 2
      /\ Column(4 + 1) = 1 /\ Column(4 + 2) = 2 /\ Column(4 + 3) = 3
  BY DEF Column
<1> QED
  BY <1>1 DEF Circulant, Four

Sum4(a, b, c, d) == a ++ b ++ c ++ d

LEMMA Sum4Facts ==
  /\ \A a, b, c, d \in Byte :
       /\ Sum4(a, b, c, d) \in Byte
       /\ Sum4(d, a, b, c) = Sum4(a, b, c, d)
       /\ Sum4(c, d, a, b) = Sum4(a, b, c, d)
       /\ Sum4(b, c, d, a) = Sum4(a, b, c, d)
  /\ \A a \in Byte : /\ Sum4(a, 0, 0, 0) = a /\ Sum4(0, a, 0, 0) = a
                     /\ Sum4(0, 0, a, 0) = a /\ Sum4(0, 0, 0, a) = a
<1>1. \A a, b, c, d \in Byte : Sum4(a, b, c, d) \in Byte
  BY SumFacts DEF Sum4
<1>2. \A a, b, c, d \in Byte :
        /\ Sum4(d, a, b, c) = Sum4(a, b, c, d)
        /\ Sum4(c, d, a, b) = Sum4(a, b, c, d)
        /\ Sum4(b, c, d, a) = Sum4(a, b, c, d)
  BY Turned DEF Sum4
<1>3. \A a \in Byte : /\ Sum4(a, 0, 0, 0) = a /\ Sum4(0, a, 0, 0) = a
                       /\ Sum4(0, 0, a, 0) = a /\ Sum4(0, 0, 0, a) = a
  BY SumFacts DEF Sum4
<1> QED
  BY <1>1, <1>2, <1>3

Bytes4(a, b, c, d) == a \in Byte /\ b \in Byte /\ c \in Byte /\ d \in Byte

LEMMA Sum4Adds ==
  \A a, b, c, d, a1, b1, c1, d1 :
    Bytes4(a, b, c, d) /\ Bytes4(a1, b1, c1, d1) =>
      Sum4(a ++ a1, b ++ b1, c ++ c1, d ++ d1) = Sum4(a, b, c, d) ++ Sum4(a1, b1, c1, d1)
<1> SUFFICES ASSUME NEW a, NEW b, NEW c, NEW d, Bytes4(a, b, c, d),
                    NEW a1, NEW b1, NEW c1, NEW d1, Bytes4(a1, b1, c1, d1)
             PROVE  Sum4(a ++ a1, b ++ b1, c ++ c1, d ++ d1)
                    = Sum4(a, b, c, d) ++ Sum4(a1, b1, c1, d1)
  OBVIOUS
<1>0. /\ a \in Byte /\ b \in Byte /\ c \in Byte /\ d \in Byte
      /\ a1 \in Byte /\ b1 \in Byte /\ c1 \in Byte /\ d1 \in Byte
  BY DEF Bytes4
<1>1. /\ a ++ b \in Byte /\ a1 ++ b1 \in Byte
      /\ a ++ b ++ c \in Byte /\ a1 ++ b1 ++ c1 \in Byte
  BY <1>0, SumFacts
<1>2. (a ++ a1) ++ (b ++ b1) = (a ++ b) ++ (a1 ++ b1)
  BY <1>0, Exchange
<1>3. ((a ++ b) ++ (a1 ++ b1)) ++ (c ++ c1) = (a ++ b ++ c) ++ (a1 ++ b1 ++ c1)
  BY <1>0, <1>1, Exchange
<1>4. ((a ++ b ++ c) ++ (a1 ++ b1 ++ c1)) ++ (d ++ d1)
      = (a ++ b ++ c ++ d) ++ (a1 ++ b1 ++ c1 ++ d1)
  BY <1>0, <1>1, Exchange
<1> QED
  BY <1>2, <1>3, <1>4 DEF Sum4

LEMMA CirculantSums ==
  ASSUME NEW m, NEW w
  PROVE  LET t(i, j) == Times(m[i], w[j]) IN
         /\ Circulant(m, w)[1] = Sum4(t(1, 1), t(2, 2), t(3, 3), t(4, 4))
         /\ Circulant(m, w)[2] = Sum4(t(1, 2), t(2, 3), t(3, 4), t(4, 1))
         /\ Circulant(m, w)[3] = Sum4(t(1, 3), t(2, 4), t(3, 1), t(4, 2))
         /\ Circulant(m, w)[4] = Sum4(t(1, 4), t(2, 1), t(3, 2), t(4, 3))
BY CirculantIs DEF Sum4

LEMMA CirculantWord ==
  ASSUME NEW m, NEW w \in Word
  PROVE  Circulant(m, w) \in Word
<1>1. \A i, j \in 1 .. 4 : Times(m[i], w[j]) \in Byte
  BY TimesFacts DEF Word
<1>2. \A r \in 1 .. 4 : Circulant(m, w)[r] \in Byte
  BY <1>1, CirculantSums, Sum4Facts
<1> QED
  BY <1>2, CirculantIs DEF Word

\* A column is a sum of columns that hold one of its bytes each.
LEMMA CirculantOfBytes ==
  ASSUME NEW m, NEW w \in Word
  PROVE  Circulant(m, Alone(1, w[1])) ## Circulant(m, Alone(2, w[2]))
         ## Circulant(m, Alone(3, w[3])) ## Circulant(m, Alone(4, w[4])) = Circulant(m, w)
<1> DEFINE t(i, j) == Times(m[i], w[j])
           u(j) == Circulant(m, Alone(j, w[j]))
<1>1. /\ \A j \in 1 .. 4 : w[j] \in Byte
      /\ \A i, j \in 1 .. 4 : t(i, j) \in Byte
  BY TimesFacts DEF Word
<1>2. \A i : Times(m[i], 0) = 0
  BY TimesFacts
<1>3. \A j \in 1 .. 4 : Alone(j, w[j]) \in Word /\ u(j) \in Word
  <2>1. \A j \in 1 .. 4 : Alone(j, w[j]) \in Word
    BY <1>1, SumFacts DEF Alone, Word
  <2> QED
    BY <2>1, CirculantWord
<1>4. /\ u(1)[1] = t(1, 1) /\ u(1)[2] = t(4, 1) /\ u(1)[3] = t(3, 1) /\ u(1)[4] = t(2, 1)
      /\ u(2)[1] = t(2, 2) /\ u(2)[2] = t(1, 2) /\ u(2)[3] = t(4, 2) /\ u(2)[4] = t(3, 2)
      /\ u(3)[1] = t(3, 3) /\ u(3)[2] = t(2, 3) /\ u(3)[3] = t(1, 3) /\ u(3)[4] = t(4, 3)
      /\ u(4)[1] = t(4, 4) /\ u(4)[2] = t(3, 4) /\ u(4)[3] = t(2, 4) /\ u(4)[4] = t(1, 4)
  <2>1. \A j, r \in 1 .. 4 : Alone(j, w[j])[r] = IF r = j THEN w[j] ELSE 0
    BY DEF Alone
  <2>2. /\ u(1)[1] = Sum4(t(1, 1), 0, 0, 0) /\ u(1)[2] = Sum4(0, 0, 0, t(4, 1))
        /\ u(1)[3] = Sum4(0, 0, t(3, 1), 0) /\ u(1)[4] = Sum4(0, t(2, 1), 0, 0)
    BY <1>2, <2>1, CirculantSums
  <2>3. /\ u(2)[1] = Sum4(0, t(2, 2), 0, 0) /\ u(2)[2] = Sum4(t(1, 2), 0, 0, 0)
        /\ u(2)[3] = Sum4(0, 0, 0, t(4, 2)) /\ u(2)[4] = Sum4(0, 0, t(3, 2), 0)
    BY <1>2, <2>1, CirculantSums
  <2>4. /\ u(3)[1] = Sum4(0, 0, t(3, 3), 0) /\ u(3)[2] = Sum4(0, t(2, 3), 0, 0)
        /\ u(3)[3] = Sum4(t(1, 3), 0, 0, 0) /\ u(3)[4] = Sum4(0, 0, 0, t(4, 3))
    BY <1>2, <2>1, CirculantSums
  <2>5. /\ u(4)[1] = Sum4(0, 0, 0, t(4, 4)) /\ u(4)[2] = Sum4(0, 0, t(3, 4), 0)
        /\ u(4)[3] = Sum4(0, t(2, 4), 0, 0) /\ u(4)[4] = Sum4(t(1, 4), 0, 0, 0)
    <3> DEFINE v == Alone(4, w[4])
    <3>1. v[1] = 0 /\ v[2] = 0 /\ v[3] = 0 /\ v[4] = w[4]
      BY <2>1
    <3> HIDE DEF v
    <3>2. /\ Circulant(m, v)[1] = Sum4(0, 0, 0, t(4, 4))
          /\ Circulant(m, v)[2] = Sum4(0, 0, t(3, 4), 0)
          /\ Circulant(m, v)[3] = Sum4(0, t(2, 4), 0, 0)
          /\ Circulant(m, v)[4] = Sum4(t(1, 4), 0, 0, 0)
      BY <1>2, <3>1, CirculantSums
    <3> QED
      BY <3>2 DEF v
  <2>6. \A a \in Byte : /\ Sum4(a, 0, 0, 0) = a /\ Sum4(0, a, 0, 0) = a
                        /\ Sum4(0, 0, a, 0) = a /\ Sum4(0, 0, 0, a) = a
    BY Sum4Facts
  <2> HIDE DEF t, u
  <2>7. /\ u(1)[1] = t(1, 1) /\ u(1)[2] = t(4, 1) /\ u(1)[3] = t(3, 1) /\ u(1)[4] = t(2, 1)
        /\ u(2)[1] = t(2, 2) /\ u(2)[2] = t(1, 2) /\ u(2)[3] = t(4, 2) /\ u(2)[4] = t(3, 2)
    BY <1>1, <2>2, <2>3, <2>6
  <2>8. /\ u(3)[1] = t(3, 3) /\ u(3)[2] = t(2, 3) /\ u(3)[3] = t(1, 3) /\ u(3)[4] = t(4, 3)
        /\ u(4)[1] = t(4, 4) /\ u(4)[2] = t(3, 4) /\ u(4)[3] = t(2, 4) /\ u(4)[4] = t(1, 4)
    BY <1>1, <2>4, <2>5, <2>6
  <2> QED
    BY <2>7, <2>8
<1> HIDE DEF u
<1>5. /\ u(1) ## u(2) \in Word /\ u(1) ## u(2) ## u(3) \in Word
      /\ u(1) ## u(2) ## u(3) ## u(4) \in Word
  BY <1>3, WordSum
<1>6. \A r \in 1 .. 4 :
        (u(1) ## u(2) ## u(3) ## u(4))[r] = Sum4(u(1)[r], u(2)[r], u(3)[r], u(4)[r])
  BY <1>3, <1>5, WordSum DEF Sum4
<1>7. \A r \in 1 .. 4 : Sum4(u(1)[r], u(2)[r], u(3)[r], u(4)[r]) = Circulant(m, w)[r]
  <2>1. /\ Circulant(m, w)[1] = Sum4(t(1, 1), t(2, 2), t(3, 3), t(4, 4))
        /\ Circulant(m, w)[2] = Sum4(t(1, 2), t(2, 3), t(3, 4), t(4, 1))
        /\ Circulant(m, w)[3] = Sum4(t(1, 3), t(2, 4), t(3, 1), t(4, 2))
        /\ Circulant(m, w)[4] = Sum4(t(1, 4), t(2, 1), t(3, 2), t(4, 3))
    BY CirculantSums
  <2> HIDE DEF t
  <2>2. /\ Sum4(u(1)[1], u(2)[1], u(3)[1], u(4)[1]) = Sum4(t(1, 1), t(2, 2), t(3, 3), t(4, 4))
        /\ Sum4(u(1)[2], u(2)[2], u(3)[2], u(4)[2]) = Sum4(t(4, 1), t(1, 2), t(2, 3), t(3, 4))
        /\ Sum4(u(1)[3], u(2)[3], u(3)[3], u(4)[3]) = Sum4(t(3, 1), t(4, 2), t(1, 3), t(2, 4))
        /\ Sum4(u(1)[4], u(2)[4], u(3)[4], u(4)[4]) = Sum4(t(2, 1), t(3, 2), t(4, 3), t(1, 4))
    BY <1>4
  <2>3. ASSUME NEW a, NEW b, NEW c, NEW d, Bytes4(a, b, c, d)
        PROVE  /\ Sum4(d, a, b, c) = Sum4(a, b, c, d)
               /\ Sum4(c, d, a, b) = Sum4(a, b, c, d)
               /\ Sum4(b, c, d, a) = Sum4(a, b, c, d)
    BY <2>3, Sum4Facts DEF Bytes4
  <2>4. /\ Bytes4(t(1, 2), t(2, 3), t(3, 4), t(4, 1)) /\ Bytes4(t(1, 3), t(2, 4), t(3, 1), t(4, 2))
        /\ Bytes4(t(1, 4), t(2, 1), t(3, 2), t(4, 3))
    BY <1>1 DEF Bytes4
  <2>5. /\ Sum4(t(4, 1), t(1, 2), t(2, 3), t(3, 4)) = Sum4(t(1, 2), t(2, 3), t(3, 4), t(4, 1))
        /\ Sum4(t(3, 1), t(4, 2), t(1, 3), t(2, 4)) = Sum4(t(1, 3), t(2, 4), t(3, 1), t(4, 2))
        /\ Sum4(t(2, 1), t(3, 2), t(4, 3), t(1, 4)) = Sum4(t(1, 4), t(2, 1), t(3, 2), t(4, 3))
    BY <2>3, <2>4
  <2> QED
    BY <2>1, <2>2, <2>5
<1>8. Circulant(m, w) \in Word
  BY CirculantWord
<1> QED
  BY <1>5, <1>6, <1>7, <1>8, SameWord DEF u

\* A column that is a sum goes to a sum.
LEMMA CirculantAdds ==
  ASSUME NEW m, NEW v \in Word, NEW w \in Word
  PROVE  Circulant(m, v ## w) = Circulant(m, v) ## Circulant(m, w)
<1> DEFINE t(i, j) == Times(m[i], v[j])
           u(i, j) == Times(m[i], w[j])
<1>1. \A i, j \in 1 .. 4 : t(i, j) \in Byte /\ u(i, j) \in Byte
  BY TimesFacts DEF Word
<1>2. ASSUME NEW i \in 1 .. 4, NEW j \in 1 .. 4
      PROVE  Times(m[i], (v ## w)[j]) = t(i, j) ++ u(i, j)
  <2>1. v[j] \in Byte /\ w[j] \in Byte /\ (v ## w)[j] = v[j] ++ w[j]
    BY WordSum DEF Word
  <2>2. Times(m[i], v[j] ++ w[j]) = Times(m[i], v[j]) ++ Times(m[i], w[j])
    BY <2>1, TimesFacts
  <2> QED
    BY <2>1, <2>2
<1>3. v ## w \in Word /\ Circulant(m, v) \in Word /\ Circulant(m, w) \in Word
  BY WordSum, CirculantWord
<1>4. Circulant(m, v ## w) \in Word /\ Circulant(m, v) ## Circulant(m, w) \in Word
  BY <1>3, WordSum, CirculantWord
<1>5. \A r \in 1 .. 4 : Circulant(m, v ## w)[r] = Circulant(m, v)[r] ++ Circulant(m, w)[r]
  <2>1. /\ Circulant(m, v ## w)[1] = Sum4(t(1, 1) ++ u(1, 1), t(2, 2) ++ u(2, 2),
                                          t(3, 3) ++ u(3, 3), t(4, 4) ++ u(4, 4))
        /\ Circulant(m, v ## w)[2] = Sum4(t(1, 2) ++ u(1, 2), t(2, 3) ++ u(2, 3),
                                          t(3, 4) ++ u(3, 4), t(4, 1) ++ u(4, 1))
        /\ Circulant(m, v ## w)[3] = Sum4(t(1, 3) ++ u(1, 3), t(2, 4) ++ u(2, 4),
                                          t(3, 1) ++ u(3, 1), t(4, 2) ++ u(4, 2))
        /\ Circulant(m, v ## w)[4] = Sum4(t(1, 4) ++ u(1, 4), t(2, 1) ++ u(2, 1),
                                          t(3, 2) ++ u(3, 2), t(4, 3) ++ u(4, 3))
    BY <1>2, CirculantSums
  <2>2. /\ Circulant(m, v)[1] = Sum4(t(1, 1), t(2, 2), t(3, 3), t(4, 4))
        /\ Circulant(m, v)[2] = Sum4(t(1, 2), t(2, 3), t(3, 4), t(4, 1))
        /\ Circulant(m, v)[3] = Sum4(t(1, 3), t(2, 4), t(3, 1), t(4, 2))
        /\ Circulant(m, v)[4] = Sum4(t(1, 4), t(2, 1), t(3, 2), t(4, 3))
    BY CirculantSums
  <2>3. /\ Circulant(m, w)[1] = Sum4(u(1, 1), u(2, 2), u(3, 3), u(4, 4))
        /\ Circulant(m, w)[2] = Sum4(u(1, 2), u(2, 3), u(3, 4), u(4, 1))
        /\ Circulant(m, w)[3] = Sum4(u(1, 3), u(2, 4), u(3, 1), u(4, 2))
        /\ Circulant(m, w)[4] = Sum4(u(1, 4), u(2, 1), u(3, 2), u(4, 3))
    BY CirculantSums
  <2>0. /\ Bytes4(t(1, 1), t(2, 2), t(3, 3), t(4, 4)) /\ Bytes4(u(1, 1), u(2, 2), u(3, 3), u(4, 4))
        /\ Bytes4(t(1, 2), t(2, 3), t(3, 4), t(4, 1)) /\ Bytes4(u(1, 2), u(2, 3), u(3, 4), u(4, 1))
        /\ Bytes4(t(1, 3), t(2, 4), t(3, 1), t(4, 2)) /\ Bytes4(u(1, 3), u(2, 4), u(3, 1), u(4, 2))
        /\ Bytes4(t(1, 4), t(2, 1), t(3, 2), t(4, 3)) /\ Bytes4(u(1, 4), u(2, 1), u(3, 2), u(4, 3))
    BY <1>1 DEF Bytes4
  <2> HIDE DEF t, u
  <2>4. Circulant(m, v ## w)[1] = Circulant(m, v)[1] ++ Circulant(m, w)[1]
    <3>1. Sum4(t(1, 1) ++ u(1, 1), t(2, 2) ++ u(2, 2), t(3, 3) ++ u(3, 3), t(4, 4) ++ u(4, 4))
          = Sum4(t(1, 1), t(2, 2), t(3, 3), t(4, 4)) ++ Sum4(u(1, 1), u(2, 2), u(3, 3), u(4, 4))
      BY <2>0, Sum4Adds
    <3> QED
      BY <2>1, <2>2, <2>3, <3>1
  <2>5. Circulant(m, v ## w)[2] = Circulant(m, v)[2] ++ Circulant(m, w)[2]
    <3>1. Sum4(t(1, 2) ++ u(1, 2), t(2, 3) ++ u(2, 3), t(3, 4) ++ u(3, 4), t(4, 1) ++ u(4, 1))
          = Sum4(t(1, 2), t(2, 3), t(3, 4), t(4, 1)) ++ Sum4(u(1, 2), u(2, 3), u(3, 4), u(4, 1))
      BY <2>0, Sum4Adds
    <3> QED
      BY <2>1, <2>2, <2>3, <3>1
  <2>6. Circulant(m, v ## w)[3] = Circulant(m, v)[3] ++ Circulant(m, w)[3]
    <3>1. Sum4(t(1, 3) ++ u(1, 3), t(2, 4) ++ u(2, 4), t(3, 1) ++ u(3, 1), t(4, 2) ++ u(4, 2))
          = Sum4(t(1, 3), t(2, 4), t(3, 1), t(4, 2)) ++ Sum4(u(1, 3), u(2, 4), u(3, 1), u(4, 2))
      BY <2>0, Sum4Adds
    <3> QED
      BY <2>1, <2>2, <2>3, <3>1
  <2>7. Circulant(m, v ## w)[4] = Circulant(m, v)[4] ++ Circulant(m, w)[4]
    <3>1. Sum4(t(1, 4) ++ u(1, 4), t(2, 1) ++ u(2, 1), t(3, 2) ++ u(3, 2), t(4, 3) ++ u(4, 3))
          = Sum4(t(1, 4), t(2, 1), t(3, 2), t(4, 3)) ++ Sum4(u(1, 4), u(2, 1), u(3, 2), u(4, 3))
      BY <2>0, Sum4Adds
    <3> QED
      BY <2>1, <2>2, <2>3, <3>1
  <2> QED
    BY <2>4, <2>5, <2>6, <2>7
<1> QED
  BY <1>3, <1>4, <1>5, WordSum, SameWord

-----------------------------------------------------------------------------
(* Rounds *)

LEMMA ColumnFacts ==
  /\ \A i \in 1 .. 4, r \in 1 .. 4 : Column(i + r - 1) \in 1 .. 4 /\ Column(i + 5 - r) \in 1 .. 4
  /\ \A i \in 1 .. 4 : /\ Column(i + 1 - 1) = i /\ Column(i + 2 - 1) = Column(i + 1)
                       /\ Column(i + 3 - 1) = Column(i + 2) /\ Column(i + 4 - 1) = Column(i + 3)
                       /\ Column(i + 5 - 1) = i /\ Column(i + 5 - 2) = Column(i + 3)
                       /\ Column(i + 5 - 3) = Column(i + 2) /\ Column(i + 5 - 4) = Column(i + 1)
BY DEF Column

LEMMA AtIs == \A s, i : At(s, i) = s[Column(i)]
BY DEF At, Column

\* The rounds of the standard, byte by byte.
LEMMA ShiftedIs ==
  ASSUME NEW s \in State
  PROVE  /\ ShiftRows(SubBytes(s)) \in State
         /\ \A i \in 1 .. 4, r \in 1 .. 4 :
              ShiftRows(SubBytes(s))[i][r] = SBox[s[Column(i + r - 1)][r]]
<1>1. \A i \in 1 .. 4, r \in 1 .. 4 : SubBytes(s)[i][r] = SBox[s[i][r]]
  BY DEF SubBytes, Four
<1>2. \A i \in 1 .. 4, r \in 1 .. 4 :
        ShiftRows(SubBytes(s))[i][r] = SubBytes(s)[Column(i + r - 1)][r]
  BY DEF ShiftRows, Four
<1>3. \A i \in 1 .. 4, r \in 1 .. 4 :
        ShiftRows(SubBytes(s))[i][r] = SBox[s[Column(i + r - 1)][r]]
  BY <1>1, <1>2, ColumnFacts
<1>4. \A i \in 1 .. 4, r \in 1 .. 4 : s[i][r] \in Byte
  BY DEF State, Word
<1>5. \A i \in 1 .. 4, r \in 1 .. 4 : ShiftRows(SubBytes(s))[i][r] \in Byte
  BY <1>3, <1>4, ColumnFacts, BoxAssumption
<1>6. ShiftRows(SubBytes(s)) \in State
  <2> DEFINE p == ShiftRows(SubBytes(s))
  <2>1. /\ p = <<p[1], p[2], p[3], p[4]>>
        /\ \A i \in 1 .. 4 : p[i] = <<p[i][1], p[i][2], p[i][3], p[i][4]>>
    <3> DEFINE q == SubBytes(s)
    <3>1. p = ShiftRows(q)
      OBVIOUS
    <3> HIDE DEF p, q
    <3> QED
      BY <3>1 DEF ShiftRows, Four
  <2> HIDE DEF p
  <2>2. ASSUME NEW i \in 1 .. 4 PROVE p[i] \in Word
    <3> DEFINE q == p[i]
    <3>1. q = <<q[1], q[2], q[3], q[4]>> /\ \A r \in 1 .. 4 : q[r] \in Byte
      BY <1>5, <2>1 DEF p
    <3> HIDE DEF q
    <3>2. q \in Word
      BY <3>1, RowOf DEF Word
    <3> QED
      BY <3>2 DEF q
  <2>3. p \in State
    BY <2>1, <2>2, RowOf DEF State
  <2> QED
    BY <2>3 DEF p
<1> QED
  BY <1>3, <1>6

LEMMA UnshiftedIs ==
  ASSUME NEW s \in State
  PROVE  /\ InvSubBytes(InvShiftRows(s)) \in State
         /\ \A i \in 1 .. 4, r \in 1 .. 4 :
              InvSubBytes(InvShiftRows(s))[i][r] = InvSBox[s[Column(i + 5 - r)][r]]
<1>1. \A i \in 1 .. 4, r \in 1 .. 4 : InvShiftRows(s)[i][r] = s[Column(i + 5 - r)][r]
  BY DEF InvShiftRows, Four
<1>2. \A i \in 1 .. 4, r \in 1 .. 4 :
        InvSubBytes(InvShiftRows(s))[i][r] = InvSBox[InvShiftRows(s)[i][r]]
  BY DEF InvSubBytes, Four
<1>3. \A i \in 1 .. 4, r \in 1 .. 4 :
        InvSubBytes(InvShiftRows(s))[i][r] = InvSBox[s[Column(i + 5 - r)][r]]
  BY <1>1, <1>2
<1>4. \A i \in 1 .. 4, r \in 1 .. 4 : s[i][r] \in Byte
  BY DEF State, Word
<1>5. \A i \in 1 .. 4, r \in 1 .. 4 : InvSubBytes(InvShiftRows(s))[i][r] \in Byte
  BY <1>3, <1>4, ColumnFacts, BoxAssumption
<1>6. InvSubBytes(InvShiftRows(s)) \in State
  <2> DEFINE p == InvSubBytes(InvShiftRows(s))
  <2>1. /\ p = <<p[1], p[2], p[3], p[4]>>
        /\ \A i \in 1 .. 4 : p[i] = <<p[i][1], p[i][2], p[i][3], p[i][4]>>
    <3> DEFINE q == InvShiftRows(s)
    <3>1. p = InvSubBytes(q)
      OBVIOUS
    <3> HIDE DEF p, q
    <3> QED
      BY <3>1 DEF InvSubBytes, Four
  <2> HIDE DEF p
  <2>2. ASSUME NEW i \in 1 .. 4 PROVE p[i] \in Word
    <3> DEFINE q == p[i]
    <3>1. q = <<q[1], q[2], q[3], q[4]>> /\ \A r \in 1 .. 4 : q[r] \in Byte
      BY <1>5, <2>1 DEF p
    <3> HIDE DEF q
    <3>2. q \in Word
      BY <3>1, RowOf DEF Word
    <3> QED
      BY <3>2 DEF q
  <2>3. p \in State
    BY <2>1, <2>2, RowOf DEF State
  <2> QED
    BY <2>3 DEF p
<1> QED
  BY <1>3, <1>6

LEMMA MixedColumn ==
  ASSUME NEW w \in Word
  PROVE  /\ MixColumn(w) \in Word /\ InvMixColumn(w) \in Word
         /\ MixColumn(Alone(1, w[1])) ## MixColumn(Alone(2, w[2]))
            ## MixColumn(Alone(3, w[3])) ## MixColumn(Alone(4, w[4])) = MixColumn(w)
         /\ InvMixColumn(Alone(1, w[1])) ## InvMixColumn(Alone(2, w[2]))
            ## InvMixColumn(Alone(3, w[3])) ## InvMixColumn(Alone(4, w[4])) = InvMixColumn(w)
BY CirculantWord, CirculantOfBytes DEF MixColumn, InvMixColumn

LEMMA AddedIs ==
  ASSUME NEW s \in State, NEW k \in State
  PROVE  /\ AddRoundKey(s, k) \in State
         /\ \A i \in 1 .. 4 : AddRoundKey(s, k)[i] = s[i] ## k[i]
<1>1. \A i \in 1 .. 4 : s[i] ## k[i] \in Word
  BY WordSum DEF State
<1> QED
  BY <1>1 DEF AddRoundKey, Four, State

\* A round by the tables is a round of the standard.
LEMMA EncryptRoundIs ==
  ASSUME NEW t, Hold(t), NEW s \in State, NEW k \in State
  PROVE  /\ EncryptRound(t, s, k) = AddRoundKey(MixColumns(ShiftRows(SubBytes(s))), k)
         /\ AddRoundKey(MixColumns(ShiftRows(SubBytes(s))), k) \in State
<1> DEFINE u == ShiftRows(SubBytes(s))
<1>1. u \in State
  BY ShiftedIs
<1>2. \A b \in Byte, j \in 1 .. 4 : t.e[b][j] = MixColumn(Alone(j, SBox[b]))
  BY DEF Hold, RoundTables
<1>3. \A i \in 1 .. 4, r \in 1 .. 4 : s[i][r] \in Byte
  BY DEF State, Word
<1>4. ASSUME NEW i \in 1 .. 4
      PROVE  t.e[s[i][1]][1] ## t.e[At(s, i + 1)[2]][2] ## t.e[At(s, i + 2)[3]][3]
               ## t.e[At(s, i + 3)[4]][4] = MixColumn(u[i])
  <2>1. /\ u[i][1] = SBox[s[i][1]] /\ u[i][2] = SBox[At(s, i + 1)[2]]
        /\ u[i][3] = SBox[At(s, i + 2)[3]] /\ u[i][4] = SBox[At(s, i + 3)[4]]
    BY ShiftedIs, ColumnFacts, AtIs
  <2>2. /\ s[i][1] \in Byte /\ At(s, i + 1)[2] \in Byte
        /\ At(s, i + 2)[3] \in Byte /\ At(s, i + 3)[4] \in Byte
    BY <1>3, ColumnFacts, AtIs
  <2>3. /\ t.e[s[i][1]][1] = MixColumn(Alone(1, u[i][1]))
        /\ t.e[At(s, i + 1)[2]][2] = MixColumn(Alone(2, u[i][2]))
        /\ t.e[At(s, i + 2)[3]][3] = MixColumn(Alone(3, u[i][3]))
        /\ t.e[At(s, i + 3)[4]][4] = MixColumn(Alone(4, u[i][4]))
    BY <1>2, <2>1, <2>2
  <2>4. u[i] \in Word
    BY <1>1 DEF State
  <2> QED
    BY <2>3, <2>4, MixedColumn
<1> HIDE DEF u
<1>5. MixColumns(u) \in State /\ \A i \in 1 .. 4 : MixColumns(u)[i] = MixColumn(u[i])
  <2>1. \A i \in 1 .. 4 : MixColumn(u[i]) \in Word
    BY <1>1, MixedColumn DEF State
  <2> QED
    BY <2>1 DEF MixColumns, Four, State
<1>6. EncryptRound(t, s, k) = AddRoundKey(MixColumns(u), k)
  <2>1. \A i \in 1 .. 4 :
          t.e[s[i][1]][1] ## t.e[At(s, i + 1)[2]][2] ## t.e[At(s, i + 2)[3]][3]
            ## t.e[At(s, i + 3)[4]][4] ## k[i] = MixColumns(u)[i] ## k[i]
    BY <1>4, <1>5
  <2>2. 1 \in 1 .. 4 /\ 2 \in 1 .. 4 /\ 3 \in 1 .. 4 /\ 4 \in 1 .. 4
    OBVIOUS
  <2> QED
    BY <2>1, <2>2 DEF EncryptRound, AddRoundKey, Four
<1> QED
  BY <1>5, <1>6, AddedIs DEF u

\* The last round has no columns to mix.
LEMMA EncryptLastIs ==
  ASSUME NEW t, Hold(t), NEW s \in State, NEW k \in State
  PROVE  EncryptLast(t, s, k) = AddRoundKey(ShiftRows(SubBytes(s)), k)
<1> DEFINE u == ShiftRows(SubBytes(s))
<1>1. u \in State /\ \A i \in 1 .. 4, r \in 1 .. 4 : u[i][r] = t.sbox[At(s, i + r - 1)[r]]
  BY ShiftedIs, AtIs DEF Hold
<1> HIDE DEF u
<1> DEFINE cell(i, r) == t.sbox[At(s, i + r - 1)[r]]
           column(i) == Four(LAMBDA r : cell(i, r) ++ k[i][r])
<1>2. \A i \in 1 .. 4 : u[i] ## k[i] = column(i)
  <2>1. \A i \in 1 .. 4 : /\ u[i][1] = cell(i, 1) /\ u[i][2] = cell(i, 2)
                          /\ u[i][3] = cell(i, 3) /\ u[i][4] = cell(i, 4)
    BY <1>1
  <2> HIDE DEF cell
  <2> QED
    BY <2>1 DEF ##, Four
<1>3. EncryptLast(t, s, k) = <<column(1), column(2), column(3), column(4)>>
  BY DEF EncryptLast, Four
<1>4. AddRoundKey(u, k) = <<u[1] ## k[1], u[2] ## k[2], u[3] ## k[3], u[4] ## k[4]>>
  BY DEF AddRoundKey, Four
<1> HIDE DEF column
<1> QED
  BY <1>2, <1>3, <1>4 DEF u

LEMMA SliceIs ==
  ASSUME NEW T, NEW w, NEW m \in Int, NEW n \in Int, n = m + 3, \A i \in m .. n : w[i] \in T
  PROVE  /\ SubSeq(w, m, n) \in Seq(T) /\ Len(SubSeq(w, m, n)) = 4
         /\ \A i \in 1 .. 4 : SubSeq(w, m, n)[i] = w[m + i - 1]
<1>1. SubSeq(w, m, n) \in Seq(T)
  BY SubSeqProperties
<1>2. Len(SubSeq(w, m, n)) = IF m <= n THEN n - m + 1 ELSE 0
  BY SubSeqProperties
<1>3. \A i \in 1 .. n - m + 1 : SubSeq(w, m, n)[i] = w[m + i - 1]
  BY SubSeqProperties
<1>4. m <= n /\ n - m + 1 = 4
  OBVIOUS
<1> QED
  BY <1>1, <1>2, <1>3, <1>4

\* The round keys are squares of words of the schedule.
LEMMA KeyIs ==
  ASSUME NEW w \in Seq(Word), NEW r \in Nat, 4 * r + 4 <= Len(w)
  PROVE  /\ RoundKey(w, r) = KeyOf(w, r) /\ KeyOf(w, r) \in State
         /\ \A i \in 1 .. 4 : KeyOf(w, r)[i] = w[4 * r + i]
<1>1. \A i \in (4 * r + 1) .. (4 * r + 4) : w[i] \in Word
  BY ElementOfSeq, LenProperties
<1>2. /\ KeyOf(w, r) \in Seq(Word) /\ Len(KeyOf(w, r)) = 4
      /\ \A i \in 1 .. 4 : KeyOf(w, r)[i] = w[4 * r + i]
  <2> DEFINE m == 4 * r + 1
             n == 4 * r + 4
  <2>1. m \in Int /\ n \in Int /\ n = m + 3 /\ \A i \in 1 .. 4 : m + i - 1 = 4 * r + i
    OBVIOUS
  <2>2. KeyOf(w, r) = SubSeq(w, m, n) /\ \A i \in m .. n : w[i] \in Word
    BY <1>1 DEF KeyOf
  <2> HIDE DEF m, n
  <2>3. /\ SubSeq(w, m, n) \in Seq(Word) /\ Len(SubSeq(w, m, n)) = 4
        /\ \A i \in 1 .. 4 : SubSeq(w, m, n)[i] = w[m + i - 1]
    BY <2>1, <2>2, SliceIs
  <2> QED
    BY <2>1, <2>2, <2>3
<1>3. KeyOf(w, r) \in State
  BY <1>2, LenProperties DEF State
<1> QED
  BY <1>2, <1>3 DEF KeyOf, RoundKey

LEMMA SameSquare ==
  ASSUME NEW s \in State, NEW u \in State, \A i \in 1 .. 4 : s[i] = u[i]
  PROVE  s = u
BY DEF State

\* To undo a round by the tables is to undo one of the standard, when the key
\* went through the tables too.
LEMMA DecryptRoundIs ==
  ASSUME NEW t, Hold(t), NEW s \in State, NEW k \in State, NEW l \in State,
         \A i \in 1 .. 4 : l[i] = InvMixColumn(k[i])
  PROVE  /\ DecryptRound(t, s, l) = InvMixColumns(AddRoundKey(InvSubBytes(InvShiftRows(s)), k))
         /\ DecryptRound(t, s, l) \in State
<1> DEFINE u == InvSubBytes(InvShiftRows(s))
<1>1. u \in State
  BY UnshiftedIs
<1>2. \A b \in Byte, j \in 1 .. 4 : t.d[b][j] = InvMixColumn(Alone(j, InvSBox[b]))
  BY DEF Hold, RoundTables
<1>3. \A i \in 1 .. 4, r \in 1 .. 4 : s[i][r] \in Byte
  BY DEF State, Word
<1>4. ASSUME NEW i \in 1 .. 4
      PROVE  t.d[s[i][1]][1] ## t.d[At(s, i + 3)[2]][2] ## t.d[At(s, i + 2)[3]][3]
               ## t.d[At(s, i + 1)[4]][4] = InvMixColumn(u[i])
  <2>1. /\ u[i][1] = InvSBox[s[i][1]] /\ u[i][2] = InvSBox[At(s, i + 3)[2]]
        /\ u[i][3] = InvSBox[At(s, i + 2)[3]] /\ u[i][4] = InvSBox[At(s, i + 1)[4]]
    BY UnshiftedIs, ColumnFacts, AtIs
  <2>2. /\ s[i][1] \in Byte /\ At(s, i + 3)[2] \in Byte
        /\ At(s, i + 2)[3] \in Byte /\ At(s, i + 1)[4] \in Byte
    BY <1>3, ColumnFacts, AtIs
  <2>3. /\ t.d[s[i][1]][1] = InvMixColumn(Alone(1, u[i][1]))
        /\ t.d[At(s, i + 3)[2]][2] = InvMixColumn(Alone(2, u[i][2]))
        /\ t.d[At(s, i + 2)[3]][3] = InvMixColumn(Alone(3, u[i][3]))
        /\ t.d[At(s, i + 1)[4]][4] = InvMixColumn(Alone(4, u[i][4]))
    BY <1>2, <2>1, <2>2
  <2>4. u[i] \in Word
    BY <1>1 DEF State
  <2> QED
    BY <2>3, <2>4, MixedColumn
<1> HIDE DEF u
<1>5. \A i \in 1 .. 4 : InvMixColumn(u[i] ## k[i]) = InvMixColumn(u[i]) ## l[i]
  <2> SUFFICES ASSUME NEW i \in 1 .. 4
               PROVE  InvMixColumn(u[i] ## k[i]) = InvMixColumn(u[i]) ## l[i]
    OBVIOUS
  <2>1. u[i] \in Word /\ k[i] \in Word
    BY <1>1 DEF State
  <2>2. InvMixColumn(u[i] ## k[i]) = InvMixColumn(u[i]) ## InvMixColumn(k[i])
    BY <2>1, CirculantAdds DEF InvMixColumn
  <2> QED
    BY <2>2
<1> DEFINE a == AddRoundKey(u, k)
<1>6. a \in State /\ \A i \in 1 .. 4 : a[i] = u[i] ## k[i]
  BY <1>1, AddedIs
<1>7. InvMixColumns(a) \in State /\ \A i \in 1 .. 4 : InvMixColumns(a)[i] = InvMixColumn(a[i])
  <2>1. \A i \in 1 .. 4 : InvMixColumn(a[i]) \in Word
    BY <1>6, MixedColumn DEF State
  <2> HIDE DEF a
  <2> QED
    BY <2>1 DEF InvMixColumns, Four, State
<1>8. /\ DecryptRound(t, s, l) \in State
      /\ \A i \in 1 .. 4 : DecryptRound(t, s, l)[i] = InvMixColumn(u[i]) ## l[i]
  <2>1. \A i \in 1 .. 4 : InvMixColumn(u[i]) ## l[i] \in Word
    <3>1. \A i \in 1 .. 4 : InvMixColumn(u[i]) \in Word /\ l[i] \in Word
      BY <1>1, MixedColumn DEF State
    <3> QED
      BY <3>1, WordSum
  <2> DEFINE p == DecryptRound(t, s, l)
             column(i) == t.d[s[i][1]][1] ## t.d[At(s, i + 3)[2]][2]
                            ## t.d[At(s, i + 2)[3]][3] ## t.d[At(s, i + 1)[4]][4]
  <2>2. p = <<column(1) ## l[1], column(2) ## l[2], column(3) ## l[3], column(4) ## l[4]>>
    BY DEF DecryptRound, Four
  <2>3. \A i \in 1 .. 4 : column(i) = InvMixColumn(u[i])
    BY <1>4
  <2> HIDE DEF p, column
  <2>4. p = <<p[1], p[2], p[3], p[4]>> /\ \A i \in 1 .. 4 : p[i] = column(i) ## l[i]
    BY <2>2
  <2>5. \A i \in 1 .. 4 : p[i] = InvMixColumn(u[i]) ## l[i]
    BY <2>3, <2>4
  <2>6. p \in State
    BY <2>1, <2>4, <2>5, RowOf DEF State
  <2> QED
    BY <2>5, <2>6 DEF p
<1> HIDE DEF a
<1>9. DecryptRound(t, s, l) = InvMixColumns(a)
  BY <1>5, <1>6, <1>7, <1>8, SameSquare
<1> QED
  BY <1>8, <1>9 DEF a, u

LEMMA DecryptLastIs ==
  ASSUME NEW t, Hold(t), NEW s \in State, NEW k \in State
  PROVE  DecryptLast(t, s, k) = AddRoundKey(InvSubBytes(InvShiftRows(s)), k)
<1> DEFINE u == InvSubBytes(InvShiftRows(s))
<1>1. u \in State /\ \A i \in 1 .. 4, r \in 1 .. 4 : u[i][r] = t.inverse[At(s, i + 5 - r)[r]]
  BY UnshiftedIs, AtIs DEF Hold
<1> HIDE DEF u
<1> DEFINE cell(i, r) == t.inverse[At(s, i + 5 - r)[r]]
           column(i) == Four(LAMBDA r : cell(i, r) ++ k[i][r])
<1>2. \A i \in 1 .. 4 : u[i] ## k[i] = column(i)
  <2>1. \A i \in 1 .. 4 : /\ u[i][1] = cell(i, 1) /\ u[i][2] = cell(i, 2)
                          /\ u[i][3] = cell(i, 3) /\ u[i][4] = cell(i, 4)
    BY <1>1
  <2> HIDE DEF cell
  <2> QED
    BY <2>1 DEF ##, Four
<1>3. DecryptLast(t, s, k) = <<column(1), column(2), column(3), column(4)>>
  BY DEF DecryptLast, Four
<1>4. AddRoundKey(u, k) = <<u[1] ## k[1], u[2] ## k[2], u[3] ## k[3], u[4] ## k[4]>>
  BY DEF AddRoundKey, Four
<1> HIDE DEF column
<1> QED
  BY <1>2, <1>3, <1>4 DEF u

\* The substitution and the decrypt tables mix a column.
MixedKey(t, v) ==
  t.d[t.sbox[v[1]]][1] ## t.d[t.sbox[v[2]]][2] ## t.d[t.sbox[v[3]]][3] ## t.d[t.sbox[v[4]]][4]

LEMMA MixedKeyIs ==
  ASSUME NEW t, Hold(t), NEW v \in Word
  PROVE  MixedKey(t, v) = InvMixColumn(v) /\ InvMixColumn(v) \in Word
<1>1. \A j \in 1 .. 4 : v[j] \in Byte
  BY DEF Word
<1>2. \A j \in 1 .. 4 : t.sbox[v[j]] \in Byte /\ InvSBox[t.sbox[v[j]]] = v[j]
  BY <1>1, BoxAssumption DEF Hold
<1>3. \A j \in 1 .. 4 : t.d[t.sbox[v[j]]][j] = InvMixColumn(Alone(j, v[j]))
  BY <1>2 DEF Hold, RoundTables
<1> QED
  BY <1>3, MixedColumn DEF MixedKey

\* The words of fifteen round keys.
Whole(w) == w \in Seq(Word) /\ Len(w) = 60

\* The keys of u are those of w in the opposite order, the inner ones mixed.
Reversed(u, w) ==
  \A r \in 0 .. 14, i \in 1 .. 4 :
    u[4 * r + i] = IF r \in 1 .. 13 THEN InvMixColumn(w[4 * (14 - r) + i])
                   ELSE w[4 * (14 - r) + i]

\* The round keys of decryption: the same in the opposite order, the inner
\* ones with their columns mixed.
LEMMA DecryptKeyIs ==
  ASSUME NEW t, Hold(t), NEW w, Whole(w),
         NEW u, u = ExtractDecryptKey(t, w, Rounds)
  PROVE  Whole(u) /\ Reversed(u, w)
<1>1. w \in Seq(Word) /\ Len(w) = 60
  BY DEF Whole
<1> DEFINE place(i) == 4 * (Rounds - (i - 1) \div 4) + ((i - 1) % 4) + 1
           turned == [i \in 1 .. 4 * (Rounds + 1) |-> w[place(i)]]
<1>2. u = [i \in DOMAIN turned |->
             IF 4 < i /\ i <= 4 * Rounds THEN MixedKey(t, turned[i]) ELSE turned[i]]
  BY DEF ExtractDecryptKey, MixedKey
<1>3. 4 * (Rounds + 1) = 60 /\ 4 * Rounds = 56
  BY DEF Rounds
<1>4. \A i \in 1 .. 60 : place(i) \in 1 .. 60
  BY DEF Rounds
<1>5. \A i \in 1 .. 60 : turned[i] = w[place(i)] /\ turned[i] \in Word
  BY <1>1, <1>3, <1>4, ElementOfSeq
<1>6. \A r \in 0 .. 14, i \in 1 .. 4 :
        /\ place(4 * r + i) = 4 * (14 - r) + i /\ 4 * r + i \in 1 .. 60
        /\ (4 < 4 * r + i /\ 4 * r + i <= 56 <=> r \in 1 .. 13)
  BY DEF Rounds
<1>7. DOMAIN turned = 1 .. 60
  BY <1>3
<1> HIDE DEF place, turned
<1>8. \A i \in 1 .. 60 :
        turned[i] \in Word /\ InvMixColumn(turned[i]) \in Word
        /\ MixedKey(t, turned[i]) = InvMixColumn(turned[i])
  BY <1>5, MixedKeyIs
<1>9. /\ u = [i \in 1 .. 60 |-> u[i]]
      /\ \A i \in 1 .. 60 :
           u[i] = IF 4 < i /\ i <= 56 THEN InvMixColumn(turned[i]) ELSE turned[i]
  <2>1. u = [i \in 1 .. 60 |-> IF 4 < i /\ i <= 56 THEN MixedKey(t, turned[i]) ELSE turned[i]]
    BY <1>2, <1>3, <1>7
  <2>2. u = [i \in 1 .. 60 |-> u[i]]
    BY <2>1
  <2>3. \A i \in 1 .. 60 :
          u[i] = IF 4 < i /\ i <= 56 THEN MixedKey(t, turned[i]) ELSE turned[i]
    BY <2>1
  <2> QED
    BY <1>8, <2>2, <2>3
<1>10. u \in [1 .. 60 -> Word]
  BY <1>8, <1>9
<1>11. u \in Seq(Word) /\ Len(u) = 60
  <2>1. 60 \in Nat
    OBVIOUS
  <2>2. u \in Seq(Word)
    BY <1>10, <2>1, SeqDef
  <2>3. DOMAIN u = 1 .. 60
    BY <1>10
  <2> QED
    BY <2>2, <2>3, LenProperties
<1>12. ASSUME NEW r \in 0 .. 14, NEW i \in 1 .. 4
       PROVE  u[4 * r + i] = IF r \in 1 .. 13 THEN InvMixColumn(w[4 * (14 - r) + i])
                             ELSE w[4 * (14 - r) + i]
  <2>1. PICK j \in 1 .. 60 : j = 4 * r + i
    BY <1>6
  <2>2. place(j) = 4 * (14 - r) + i /\ (4 < j /\ j <= 56 <=> r \in 1 .. 13)
    BY <1>6, <2>1
  <2>3. turned[j] = w[4 * (14 - r) + i]
    BY <1>5, <2>2
  <2>4. u[j] = IF 4 < j /\ j <= 56 THEN InvMixColumn(turned[j]) ELSE turned[j]
    BY <1>9
  <2> QED
    BY <2>1, <2>2, <2>3, <2>4
<1> QED
  BY <1>11, <1>12 DEF Whole, Reversed

-----------------------------------------------------------------------------
(* Loops *)

\* g runs through the stages S[0], S[1], ... by the steps F[1], F[2], ...
OnSteps(g, n) == g = [i \in 0 .. n |-> g[i]]
Reaches(S, F, x, n, g) ==
  /\ OnSteps(g, n) /\ g[0] = x
  /\ \A i \in 1 .. n : g[i] = F[i][g[i - 1]]
  /\ \A i \in 0 .. n : g[i] \in S[i]

\* The least number of a set, in place of an induction.
LEMMA LeastOf ==
  ASSUME NEW T, T \subseteq Nat, T # {}
  PROVE  \E m \in T : \A k \in T : m <= k
<1>1. PICK m \in T : \A x \in T : <<x, m>> \notin OpToRel(<, Nat)
  BY WFMin, NatLessThanWellFounded, Zenon
<1>2. \A x \in T : ~(x < m)
  BY <1>1, Zenon DEF OpToRel
<1>3. \A x \in T : m <= x
  BY <1>2
<1> QED
  BY <1>3

\* Steps that lead from every stage into the next one reach them all, and in
\* one way.
LEMMA Exists ==
  ASSUME NEW n \in Nat, NEW S, NEW F, NEW x \in S[0],
         \A i \in 1 .. n : \A y \in S[i - 1] : F[i][y] \in S[i]
  PROVE  \E g : Reaches(S, F, x, n, g)
<1> DEFINE bad == {m \in 0 .. n : ~ \E g : Reaches(S, F, x, m, g)}
<1>1. bad = {}
  <2> SUFFICES ASSUME bad # {} PROVE FALSE
    OBVIOUS
  <2>1. PICK m \in bad : \A k \in bad : m <= k
    <3>1. bad \subseteq Nat
      OBVIOUS
    <3> HIDE DEF bad
    <3> QED
      BY <3>1, LeastOf
  <2>2. \E g : Reaches(S, F, x, 0, g)
    <3> DEFINE g == [i \in 0 .. 0 |-> x]
    <3>1. Reaches(S, F, x, 0, g)
      BY DEF Reaches, OnSteps
    <3> QED
      BY <3>1
  <2>3. m # 0 /\ m - 1 \in 0 .. n /\ m \in 1 .. n
    BY <2>1, <2>2
  <2>4. m - 1 \notin bad
    BY <2>1, <2>3
  <2>5. PICK g : Reaches(S, F, x, m - 1, g)
    BY <2>3, <2>4
  <2> DEFINE h == [i \in 0 .. m |-> IF i = m THEN F[m][g[m - 1]] ELSE g[i]]
  <2>6. Reaches(S, F, x, m, h)
    <3>1. OnSteps(h, m)
      BY DEF OnSteps
    <3>2. h[0] = x /\ h[m] = F[m][g[m - 1]] /\ \A i \in 0 .. m - 1 : h[i] = g[i]
      BY <2>3, <2>5 DEF Reaches
    <3>3. g[m - 1] \in S[m - 1] /\ F[m][g[m - 1]] \in S[m]
      BY <2>3, <2>5 DEF Reaches
    <3> HIDE DEF h
    <3>4. \A i \in 1 .. m : h[i] = F[i][h[i - 1]]
      BY <2>3, <2>5, <3>2 DEF Reaches
    <3>5. \A i \in 0 .. m : h[i] \in S[i]
      BY <2>3, <2>5, <3>2, <3>3 DEF Reaches
    <3> QED
      BY <3>1, <3>2, <3>4, <3>5 DEF Reaches
  <2> QED
    BY <2>1, <2>6
<1> QED
  BY <1>1

LEMMA Unique ==
  ASSUME NEW n \in Nat, NEW S, NEW F, NEW x, NEW g, Reaches(S, F, x, n, g),
         NEW h, OnSteps(h, n), h[0] = x,
         \A i \in 1 .. n : h[i - 1] \in S[i - 1] => h[i] = F[i][h[i - 1]]
  PROVE  h = g
<1> DEFINE bad == {m \in 0 .. n : h[m] # g[m]}
<1>1. bad = {}
  <2> SUFFICES ASSUME bad # {} PROVE FALSE
    OBVIOUS
  <2>1. PICK m \in bad : \A k \in bad : m <= k
    <3>1. bad \subseteq Nat
      OBVIOUS
    <3> HIDE DEF bad
    <3> QED
      BY <3>1, LeastOf
  <2>2. m # 0 /\ m \in 1 .. n /\ m - 1 \in 0 .. n
    BY <2>1 DEF Reaches
  <2>3. m - 1 \notin bad
    BY <2>1, <2>2
  <2>4. g[m - 1] \in S[m - 1] /\ g[m] = F[m][g[m - 1]]
    BY <2>2 DEF Reaches
  <2> QED
    BY <2>1, <2>2, <2>3, <2>4
<1>2. \A m \in 0 .. n : h[m] = g[m]
  BY <1>1
<1> QED
  BY <1>2 DEF Reaches, OnSteps

\* What the word before changes in the word nk places back.
Change(nk, temp, i) ==
  IF i % nk = 0 THEN SubWord(RotWord(temp)) ## Rcon(i \div nk)
  ELSE IF nk > 6 /\ i % nk = 4 THEN SubWord(temp) ELSE temp
Expand(nk, w, i) == Append(w, w[i + 1 - nk] ## Change(nk, w[i], i))
\* A turn of the loop for a 256-bit key.
Turn256(t, w, turn) ==
  LET v == Chain(w, 8, 4, Start(t, Last(w), turn)) IN
    IF turn = 7 THEN v ELSE Chain(v, 8, 4, Middle(t, Last(v)))

EncryptLoop(t, w, x, n) ==
  Iterate(LAMBDA s, r : EncryptRound(t, s, KeyOf(w, r)), x, n)
CipherLoop(w, x, n) ==
  Iterate(LAMBDA s, r : AddRoundKey(MixColumns(ShiftRows(SubBytes(s))), RoundKey(w, r)), x, n)
DecryptLoop(t, u, x, n) ==
  Iterate(LAMBDA s, r : DecryptRound(t, s, KeyOf(u, r)), x, n)
InvCipherLoop(w, nr, x, n) ==
  Iterate(LAMBDA s, r :
            InvMixColumns(AddRoundKey(InvSubBytes(InvShiftRows(s)), RoundKey(w, nr - r))),
          x, n)
ExpansionLoop(nk, x, n) ==
  Iterate(LAMBDA s, r : Expand(nk, s, nk + r - 1), x, n)
Extract128Loop(t, x, n) ==
  Iterate(LAMBDA s, r : Chain(s, 4, 4, Start(t, Last(s), r)), x, n)
Extract192Loop(t, x, n) ==
  Iterate(LAMBDA s, r : Chain(s, 6, IF r = 8 THEN 4 ELSE 6, Start(t, Last(s), r)), x, n)
Extract256Loop(t, x, n) ==
  Iterate(LAMBDA s, r : Turn256(t, s, r), x, n)

\* Each of the loops ends where its steps lead.
LEMMA EncryptRuns ==
  ASSUME NEW t, NEW w, NEW x, NEW n \in Nat, NEW S, NEW F, NEW g,
         \A i \in 1 .. n : \A y \in S[i - 1] : F[i][y] = EncryptRound(t, y, KeyOf(w, i)),
         Reaches(S, F, x, n, g)
  PROVE  EncryptLoop(t, w, x, n) = g[n]
<1> DEFINE step(y, i) == EncryptRound(t, y, KeyOf(w, i))
           is(h) == h = [i \in 0 .. n |-> IF i = 0 THEN x
                                          ELSE CHOOSE y \in {step(z, i) : z \in {h[i - 1]}} : TRUE]
<1>1. EncryptLoop(t, w, x, n) = (CHOOSE h : is(h))[n]
  BY DEF Iterate, EncryptLoop
<1>2. \A z, i : (CHOOSE y \in {step(v, i) : v \in {z}} : TRUE) = step(z, i)
  OBVIOUS
<1>3. \A h : is(h) <=> h = [i \in 0 .. n |-> IF i = 0 THEN x ELSE step(h[i - 1], i)]
  BY <1>2
<1>4. \A i \in 1 .. n : \A y \in S[i - 1] : F[i][y] = step(y, i)
  OBVIOUS
<1> HIDE DEF is, step
<1>5. is(g)
  <2>1. \A i \in 0 .. n : g[i] = IF i = 0 THEN x ELSE step(g[i - 1], i)
    BY <1>4 DEF Reaches
  <2>2. g = [i \in 0 .. n |-> g[i]]
    BY DEF Reaches, OnSteps
  <2>3. g = [i \in 0 .. n |-> IF i = 0 THEN x ELSE step(g[i - 1], i)]
    BY <2>1, <2>2
  <2> QED
    BY <1>3, <2>3
<1>6. ASSUME NEW h, is(h)
      PROVE  h = g
  <2>1. h = [i \in 0 .. n |-> IF i = 0 THEN x ELSE step(h[i - 1], i)]
    BY <1>3, <1>6
  <2>2. OnSteps(h, n) /\ h[0] = x
    BY <2>1 DEF OnSteps
  <2>3. \A i \in 1 .. n : h[i] = step(h[i - 1], i)
    BY <2>1
  <2>4. \A i \in 1 .. n : h[i - 1] \in S[i - 1] => h[i] = F[i][h[i - 1]]
    BY <1>4, <2>3
  <2> QED
    BY <2>2, <2>4, Unique
<1> QED
  BY <1>1, <1>5, <1>6

LEMMA CipherRuns ==
  ASSUME NEW w, NEW x, NEW n \in Nat, NEW S, NEW F, NEW g,
         \A i \in 1 .. n : \A y \in S[i - 1] :
           F[i][y] = AddRoundKey(MixColumns(ShiftRows(SubBytes(y))), RoundKey(w, i)),
         Reaches(S, F, x, n, g)
  PROVE  CipherLoop(w, x, n) = g[n]
<1> DEFINE step(y, i) == AddRoundKey(MixColumns(ShiftRows(SubBytes(y))), RoundKey(w, i))
           is(h) == h = [i \in 0 .. n |-> IF i = 0 THEN x
                                          ELSE CHOOSE y \in {step(z, i) : z \in {h[i - 1]}} : TRUE]
<1>1. CipherLoop(w, x, n) = (CHOOSE h : is(h))[n]
  BY DEF Iterate, CipherLoop
<1>2. \A z, i : (CHOOSE y \in {step(v, i) : v \in {z}} : TRUE) = step(z, i)
  OBVIOUS
<1>3. \A h : is(h) <=> h = [i \in 0 .. n |-> IF i = 0 THEN x ELSE step(h[i - 1], i)]
  BY <1>2
<1>4. \A i \in 1 .. n : \A y \in S[i - 1] : F[i][y] = step(y, i)
  OBVIOUS
<1> HIDE DEF is, step
<1>5. is(g)
  <2>1. \A i \in 0 .. n : g[i] = IF i = 0 THEN x ELSE step(g[i - 1], i)
    BY <1>4 DEF Reaches
  <2>2. g = [i \in 0 .. n |-> g[i]]
    BY DEF Reaches, OnSteps
  <2>3. g = [i \in 0 .. n |-> IF i = 0 THEN x ELSE step(g[i - 1], i)]
    BY <2>1, <2>2
  <2> QED
    BY <1>3, <2>3
<1>6. ASSUME NEW h, is(h)
      PROVE  h = g
  <2>1. h = [i \in 0 .. n |-> IF i = 0 THEN x ELSE step(h[i - 1], i)]
    BY <1>3, <1>6
  <2>2. OnSteps(h, n) /\ h[0] = x
    BY <2>1 DEF OnSteps
  <2>3. \A i \in 1 .. n : h[i] = step(h[i - 1], i)
    BY <2>1
  <2>4. \A i \in 1 .. n : h[i - 1] \in S[i - 1] => h[i] = F[i][h[i - 1]]
    BY <1>4, <2>3
  <2> QED
    BY <2>2, <2>4, Unique
<1> QED
  BY <1>1, <1>5, <1>6

LEMMA DecryptRuns ==
  ASSUME NEW t, NEW u, NEW x, NEW n \in Nat, NEW S, NEW F, NEW g,
         \A i \in 1 .. n : \A y \in S[i - 1] : F[i][y] = DecryptRound(t, y, KeyOf(u, i)),
         Reaches(S, F, x, n, g)
  PROVE  DecryptLoop(t, u, x, n) = g[n]
<1> DEFINE step(y, i) == DecryptRound(t, y, KeyOf(u, i))
           is(h) == h = [i \in 0 .. n |-> IF i = 0 THEN x
                                          ELSE CHOOSE y \in {step(z, i) : z \in {h[i - 1]}} : TRUE]
<1>1. DecryptLoop(t, u, x, n) = (CHOOSE h : is(h))[n]
  BY DEF Iterate, DecryptLoop
<1>2. \A z, i : (CHOOSE y \in {step(v, i) : v \in {z}} : TRUE) = step(z, i)
  OBVIOUS
<1>3. \A h : is(h) <=> h = [i \in 0 .. n |-> IF i = 0 THEN x ELSE step(h[i - 1], i)]
  BY <1>2
<1>4. \A i \in 1 .. n : \A y \in S[i - 1] : F[i][y] = step(y, i)
  OBVIOUS
<1> HIDE DEF is, step
<1>5. is(g)
  <2>1. \A i \in 0 .. n : g[i] = IF i = 0 THEN x ELSE step(g[i - 1], i)
    BY <1>4 DEF Reaches
  <2>2. g = [i \in 0 .. n |-> g[i]]
    BY DEF Reaches, OnSteps
  <2>3. g = [i \in 0 .. n |-> IF i = 0 THEN x ELSE step(g[i - 1], i)]
    BY <2>1, <2>2
  <2> QED
    BY <1>3, <2>3
<1>6. ASSUME NEW h, is(h)
      PROVE  h = g
  <2>1. h = [i \in 0 .. n |-> IF i = 0 THEN x ELSE step(h[i - 1], i)]
    BY <1>3, <1>6
  <2>2. OnSteps(h, n) /\ h[0] = x
    BY <2>1 DEF OnSteps
  <2>3. \A i \in 1 .. n : h[i] = step(h[i - 1], i)
    BY <2>1
  <2>4. \A i \in 1 .. n : h[i - 1] \in S[i - 1] => h[i] = F[i][h[i - 1]]
    BY <1>4, <2>3
  <2> QED
    BY <2>2, <2>4, Unique
<1> QED
  BY <1>1, <1>5, <1>6

LEMMA InvCipherRuns ==
  ASSUME NEW w, NEW nr, NEW x, NEW n \in Nat, NEW S, NEW F, NEW g,
         \A i \in 1 .. n : \A y \in S[i - 1] :
           F[i][y] = InvMixColumns(AddRoundKey(InvSubBytes(InvShiftRows(y)), RoundKey(w, nr - i))),
         Reaches(S, F, x, n, g)
  PROVE  InvCipherLoop(w, nr, x, n) = g[n]
<1> DEFINE step(y, i) ==
             InvMixColumns(AddRoundKey(InvSubBytes(InvShiftRows(y)), RoundKey(w, nr - i)))
           is(h) == h = [i \in 0 .. n |-> IF i = 0 THEN x
                                          ELSE CHOOSE y \in {step(z, i) : z \in {h[i - 1]}} : TRUE]
<1>1. InvCipherLoop(w, nr, x, n) = (CHOOSE h : is(h))[n]
  BY DEF Iterate, InvCipherLoop
<1>2. \A z, i : (CHOOSE y \in {step(v, i) : v \in {z}} : TRUE) = step(z, i)
  OBVIOUS
<1>3. \A h : is(h) <=> h = [i \in 0 .. n |-> IF i = 0 THEN x ELSE step(h[i - 1], i)]
  BY <1>2
<1>4. \A i \in 1 .. n : \A y \in S[i - 1] : F[i][y] = step(y, i)
  OBVIOUS
<1> HIDE DEF is, step
<1>5. is(g)
  <2>1. \A i \in 0 .. n : g[i] = IF i = 0 THEN x ELSE step(g[i - 1], i)
    BY <1>4 DEF Reaches
  <2>2. g = [i \in 0 .. n |-> g[i]]
    BY DEF Reaches, OnSteps
  <2>3. g = [i \in 0 .. n |-> IF i = 0 THEN x ELSE step(g[i - 1], i)]
    BY <2>1, <2>2
  <2> QED
    BY <1>3, <2>3
<1>6. ASSUME NEW h, is(h)
      PROVE  h = g
  <2>1. h = [i \in 0 .. n |-> IF i = 0 THEN x ELSE step(h[i - 1], i)]
    BY <1>3, <1>6
  <2>2. OnSteps(h, n) /\ h[0] = x
    BY <2>1 DEF OnSteps
  <2>3. \A i \in 1 .. n : h[i] = step(h[i - 1], i)
    BY <2>1
  <2>4. \A i \in 1 .. n : h[i - 1] \in S[i - 1] => h[i] = F[i][h[i - 1]]
    BY <1>4, <2>3
  <2> QED
    BY <2>2, <2>4, Unique
<1> QED
  BY <1>1, <1>5, <1>6

LEMMA ExpansionRuns ==
  ASSUME NEW nk, NEW x, NEW n \in Nat, NEW S, NEW F, NEW g,
         \A i \in 1 .. n : \A y \in S[i - 1] : F[i][y] = Expand(nk, y, nk + i - 1),
         Reaches(S, F, x, n, g)
  PROVE  ExpansionLoop(nk, x, n) = g[n]
<1> DEFINE step(y, i) == Expand(nk, y, nk + i - 1)
           is(h) == h = [i \in 0 .. n |-> IF i = 0 THEN x
                                          ELSE CHOOSE y \in {step(z, i) : z \in {h[i - 1]}} : TRUE]
<1>1. ExpansionLoop(nk, x, n) = (CHOOSE h : is(h))[n]
  BY DEF Iterate, ExpansionLoop
<1>2. \A z, i : (CHOOSE y \in {step(v, i) : v \in {z}} : TRUE) = step(z, i)
  OBVIOUS
<1>3. \A h : is(h) <=> h = [i \in 0 .. n |-> IF i = 0 THEN x ELSE step(h[i - 1], i)]
  BY <1>2
<1>4. \A i \in 1 .. n : \A y \in S[i - 1] : F[i][y] = step(y, i)
  OBVIOUS
<1> HIDE DEF is, step
<1>5. is(g)
  <2>1. \A i \in 0 .. n : g[i] = IF i = 0 THEN x ELSE step(g[i - 1], i)
    BY <1>4 DEF Reaches
  <2>2. g = [i \in 0 .. n |-> g[i]]
    BY DEF Reaches, OnSteps
  <2>3. g = [i \in 0 .. n |-> IF i = 0 THEN x ELSE step(g[i - 1], i)]
    BY <2>1, <2>2
  <2> QED
    BY <1>3, <2>3
<1>6. ASSUME NEW h, is(h)
      PROVE  h = g
  <2>1. h = [i \in 0 .. n |-> IF i = 0 THEN x ELSE step(h[i - 1], i)]
    BY <1>3, <1>6
  <2>2. OnSteps(h, n) /\ h[0] = x
    BY <2>1 DEF OnSteps
  <2>3. \A i \in 1 .. n : h[i] = step(h[i - 1], i)
    BY <2>1
  <2>4. \A i \in 1 .. n : h[i - 1] \in S[i - 1] => h[i] = F[i][h[i - 1]]
    BY <1>4, <2>3
  <2> QED
    BY <2>2, <2>4, Unique
<1> QED
  BY <1>1, <1>5, <1>6

LEMMA Extract128Runs ==
  ASSUME NEW t, NEW x, NEW n \in Nat, NEW S, NEW F, NEW g,
         \A i \in 1 .. n : \A y \in S[i - 1] : F[i][y] = Chain(y, 4, 4, Start(t, Last(y), i)),
         Reaches(S, F, x, n, g)
  PROVE  Extract128Loop(t, x, n) = g[n]
<1> DEFINE step(y, i) == Chain(y, 4, 4, Start(t, Last(y), i))
           is(h) == h = [i \in 0 .. n |-> IF i = 0 THEN x
                                          ELSE CHOOSE y \in {step(z, i) : z \in {h[i - 1]}} : TRUE]
<1>1. Extract128Loop(t, x, n) = (CHOOSE h : is(h))[n]
  BY DEF Iterate, Extract128Loop
<1>2. \A z, i : (CHOOSE y \in {step(v, i) : v \in {z}} : TRUE) = step(z, i)
  OBVIOUS
<1>3. \A h : is(h) <=> h = [i \in 0 .. n |-> IF i = 0 THEN x ELSE step(h[i - 1], i)]
  BY <1>2
<1>4. \A i \in 1 .. n : \A y \in S[i - 1] : F[i][y] = step(y, i)
  OBVIOUS
<1> HIDE DEF is, step
<1>5. is(g)
  <2>1. \A i \in 0 .. n : g[i] = IF i = 0 THEN x ELSE step(g[i - 1], i)
    BY <1>4 DEF Reaches
  <2>2. g = [i \in 0 .. n |-> g[i]]
    BY DEF Reaches, OnSteps
  <2>3. g = [i \in 0 .. n |-> IF i = 0 THEN x ELSE step(g[i - 1], i)]
    BY <2>1, <2>2
  <2> QED
    BY <1>3, <2>3
<1>6. ASSUME NEW h, is(h)
      PROVE  h = g
  <2>1. h = [i \in 0 .. n |-> IF i = 0 THEN x ELSE step(h[i - 1], i)]
    BY <1>3, <1>6
  <2>2. OnSteps(h, n) /\ h[0] = x
    BY <2>1 DEF OnSteps
  <2>3. \A i \in 1 .. n : h[i] = step(h[i - 1], i)
    BY <2>1
  <2>4. \A i \in 1 .. n : h[i - 1] \in S[i - 1] => h[i] = F[i][h[i - 1]]
    BY <1>4, <2>3
  <2> QED
    BY <2>2, <2>4, Unique
<1> QED
  BY <1>1, <1>5, <1>6

LEMMA Extract192Runs ==
  ASSUME NEW t, NEW x, NEW n \in Nat, NEW S, NEW F, NEW g,
         \A i \in 1 .. n : \A y \in S[i - 1] :
           F[i][y] = Chain(y, 6, IF i = 8 THEN 4 ELSE 6, Start(t, Last(y), i)),
         Reaches(S, F, x, n, g)
  PROVE  Extract192Loop(t, x, n) = g[n]
<1> DEFINE step(y, i) == Chain(y, 6, IF i = 8 THEN 4 ELSE 6, Start(t, Last(y), i))
           is(h) == h = [i \in 0 .. n |-> IF i = 0 THEN x
                                          ELSE CHOOSE y \in {step(z, i) : z \in {h[i - 1]}} : TRUE]
<1>1. Extract192Loop(t, x, n) = (CHOOSE h : is(h))[n]
  BY DEF Iterate, Extract192Loop
<1>2. \A z, i : (CHOOSE y \in {step(v, i) : v \in {z}} : TRUE) = step(z, i)
  OBVIOUS
<1>3. \A h : is(h) <=> h = [i \in 0 .. n |-> IF i = 0 THEN x ELSE step(h[i - 1], i)]
  BY <1>2
<1>4. \A i \in 1 .. n : \A y \in S[i - 1] : F[i][y] = step(y, i)
  OBVIOUS
<1> HIDE DEF is, step
<1>5. is(g)
  <2>1. \A i \in 0 .. n : g[i] = IF i = 0 THEN x ELSE step(g[i - 1], i)
    BY <1>4 DEF Reaches
  <2>2. g = [i \in 0 .. n |-> g[i]]
    BY DEF Reaches, OnSteps
  <2>3. g = [i \in 0 .. n |-> IF i = 0 THEN x ELSE step(g[i - 1], i)]
    BY <2>1, <2>2
  <2> QED
    BY <1>3, <2>3
<1>6. ASSUME NEW h, is(h)
      PROVE  h = g
  <2>1. h = [i \in 0 .. n |-> IF i = 0 THEN x ELSE step(h[i - 1], i)]
    BY <1>3, <1>6
  <2>2. OnSteps(h, n) /\ h[0] = x
    BY <2>1 DEF OnSteps
  <2>3. \A i \in 1 .. n : h[i] = step(h[i - 1], i)
    BY <2>1
  <2>4. \A i \in 1 .. n : h[i - 1] \in S[i - 1] => h[i] = F[i][h[i - 1]]
    BY <1>4, <2>3
  <2> QED
    BY <2>2, <2>4, Unique
<1> QED
  BY <1>1, <1>5, <1>6

LEMMA Extract256Runs ==
  ASSUME NEW t, NEW x, NEW n \in Nat, NEW S, NEW F, NEW g,
         \A i \in 1 .. n : \A y \in S[i - 1] : F[i][y] = Turn256(t, y, i),
         Reaches(S, F, x, n, g)
  PROVE  Extract256Loop(t, x, n) = g[n]
<1> DEFINE step(y, i) == Turn256(t, y, i)
           is(h) == h = [i \in 0 .. n |-> IF i = 0 THEN x
                                          ELSE CHOOSE y \in {step(z, i) : z \in {h[i - 1]}} : TRUE]
<1>1. Extract256Loop(t, x, n) = (CHOOSE h : is(h))[n]
  BY DEF Iterate, Extract256Loop
<1>2. \A z, i : (CHOOSE y \in {step(v, i) : v \in {z}} : TRUE) = step(z, i)
  OBVIOUS
<1>3. \A h : is(h) <=> h = [i \in 0 .. n |-> IF i = 0 THEN x ELSE step(h[i - 1], i)]
  BY <1>2
<1>4. \A i \in 1 .. n : \A y \in S[i - 1] : F[i][y] = step(y, i)
  OBVIOUS
<1> HIDE DEF is, step
<1>5. is(g)
  <2>1. \A i \in 0 .. n : g[i] = IF i = 0 THEN x ELSE step(g[i - 1], i)
    BY <1>4 DEF Reaches
  <2>2. g = [i \in 0 .. n |-> g[i]]
    BY DEF Reaches, OnSteps
  <2>3. g = [i \in 0 .. n |-> IF i = 0 THEN x ELSE step(g[i - 1], i)]
    BY <2>1, <2>2
  <2> QED
    BY <1>3, <2>3
<1>6. ASSUME NEW h, is(h)
      PROVE  h = g
  <2>1. h = [i \in 0 .. n |-> IF i = 0 THEN x ELSE step(h[i - 1], i)]
    BY <1>3, <1>6
  <2>2. OnSteps(h, n) /\ h[0] = x
    BY <2>1 DEF OnSteps
  <2>3. \A i \in 1 .. n : h[i] = step(h[i - 1], i)
    BY <2>1
  <2>4. \A i \in 1 .. n : h[i - 1] \in S[i - 1] => h[i] = F[i][h[i - 1]]
    BY <1>4, <2>3
  <2> QED
    BY <2>2, <2>4, Unique
<1> QED
  BY <1>1, <1>5, <1>6

-----------------------------------------------------------------------------
(* Key schedules *)

\* The first m words of the key expansion of a key of nk words.
Schedule(nk, key, m) ==
  {w \in Seq(Word) :
     /\ Len(w) = m
     /\ \A i \in 1 .. nk : w[i] = key[i]
     /\ \A i \in nk .. m - 1 : w[i + 1] = w[i + 1 - nk] ## Change(nk, w[i], i)}

KeySize == {4, 6, 8}

\* There is one.
LEMMA OneSchedule ==
  ASSUME NEW nk \in KeySize, NEW key, NEW m \in Nat, nk <= m,
         NEW v \in Schedule(nk, key, m), NEW w \in Schedule(nk, key, m)
  PROVE  v = w
<1>0. nk \in Nat /\ nk >= 1
  BY DEF KeySize
<1>1. /\ v \in Seq(Word) /\ Len(v) = m /\ w \in Seq(Word) /\ Len(w) = m
      /\ \A i \in 1 .. nk : v[i] = w[i]
      /\ \A i \in nk .. m - 1 : v[i + 1] = v[i + 1 - nk] ## Change(nk, v[i], i)
      /\ \A i \in nk .. m - 1 : w[i + 1] = w[i + 1 - nk] ## Change(nk, w[i], i)
  BY DEF Schedule
<1> DEFINE bad == {i \in 1 .. m : v[i] # w[i]}
<1>2. bad = {}
  <2> SUFFICES ASSUME bad # {} PROVE FALSE
    OBVIOUS
  <2>1. PICK k \in bad : \A i \in bad : k <= i
    <3>1. bad \subseteq Nat
      OBVIOUS
    <3> HIDE DEF bad
    <3> QED
      BY <3>1, LeastOf
  <2>2. k \in 1 .. m /\ k > nk
    <3>1. k \in 1 .. m /\ v[k] # w[k]
      BY <2>1
    <3>2. k \notin 1 .. nk
      BY <1>1, <3>1
    <3> QED
      BY <1>0, <3>1, <3>2
  <2>3. PICK i \in nk .. m - 1 : k = i + 1
    BY <1>0, <2>2
  <2>4. i \in 1 .. m /\ i + 1 - nk \in 1 .. m /\ i < k /\ i + 1 - nk < k
    BY <1>0, <2>2, <2>3
  <2>5. v[i] = w[i] /\ v[i + 1 - nk] = w[i + 1 - nk]
    BY <2>1, <2>4
  <2>6. v[k] = w[k]
    BY <1>1, <2>3, <2>5
  <2> QED
    BY <2>1, <2>6
<1>3. \A i \in 1 .. m : v[i] = w[i]
  BY <1>2
<1> QED
  BY <1>1, <1>3, SeqEqual

LEMMA KeyBegins ==
  ASSUME NEW nk \in KeySize, NEW key \in Seq(Word), Len(key) = nk
  PROVE  key \in Schedule(nk, key, nk)
BY DEF Schedule, KeySize

LEMMA SubWordIs ==
  ASSUME NEW w \in Word
  PROVE  SubWord(w) \in Word /\ RotWord(w) \in Word
<1>1. \A r \in 1 .. 4 : w[r] \in Byte /\ SBox[w[r]] \in Byte
  BY BoxAssumption DEF Word
<1> QED
  BY <1>1 DEF SubWord, RotWord, Four, Word

LEMMA RconIs ==
  ASSUME NEW i \in 1 .. 10
  PROVE  Rcon(i) \in Word
<1>0. 1 \in Byte /\ 0 \in Byte
  BY DEF Byte
<1>1. Doubles[1][i] \in Byte
  BY <1>0, FieldAssumption
<1> QED
  BY <1>0, <1>1 DEF Rcon, Word

LEMMA ChangeIs ==
  ASSUME NEW nk \in KeySize, NEW v \in Word, NEW i \in Nat, nk <= i, i < 4 * (nk + 7)
  PROVE  Change(nk, v, i) \in Word
<1>1. i % nk = 0 => i \div nk \in 1 .. 10
  BY DEF KeySize
<1> QED
  BY <1>1, RconIs, SubWordIs, WordSum DEF Change

\* One word more, and a few that follow from one another.
LEMMA ExpandIs ==
  ASSUME NEW nk \in KeySize, NEW key, NEW m \in Nat, nk <= m, m < 4 * (nk + 7),
         NEW w \in Schedule(nk, key, m)
  PROVE  Expand(nk, w, m) \in Schedule(nk, key, m + 1)
<1>0. nk \in Nat /\ nk >= 1
  BY DEF KeySize
<1>1. /\ w \in Seq(Word) /\ Len(w) = m
      /\ \A i \in 1 .. nk : w[i] = key[i]
      /\ \A i \in nk .. m - 1 : w[i + 1] = w[i + 1 - nk] ## Change(nk, w[i], i)
  BY DEF Schedule
<1>2. w[m] \in Word /\ w[m + 1 - nk] \in Word
  BY <1>0, <1>1, ElementOfSeq
<1> DEFINE x == w[m + 1 - nk] ## Change(nk, w[m], m)
           e == Append(w, x)
<1>3. x \in Word
  BY <1>2, ChangeIs, WordSum
<1> HIDE DEF x
<1>4. /\ e \in Seq(Word) /\ Len(e) = m + 1 /\ e[m + 1] = x
      /\ \A i \in 1 .. m : e[i] = w[i]
  BY <1>1, <1>3
<1> HIDE DEF e
<1>5. \A i \in 1 .. nk : e[i] = key[i]
  BY <1>0, <1>1, <1>4
<1>6. ASSUME NEW i \in nk .. m
      PROVE  e[i + 1] = e[i + 1 - nk] ## Change(nk, e[i], i)
  <2>1. i \in 1 .. m /\ i + 1 - nk \in 1 .. m
    BY <1>0
  <2>2. e[i] = w[i] /\ e[i + 1 - nk] = w[i + 1 - nk]
    BY <1>4, <2>1
  <2>3. CASE i = m
    BY <1>4, <2>2, <2>3 DEF x
  <2>4. CASE i < m
    <3>1. i \in nk .. m - 1 /\ i + 1 \in 1 .. m
      BY <1>0, <2>4
    <3> QED
      BY <1>1, <1>4, <2>2, <3>1
  <2> QED
    BY <2>3, <2>4
<1>7. e \in Schedule(nk, key, m + 1)
  BY <1>4, <1>5, <1>6 DEF Schedule
<1> QED
  BY <1>7 DEF Expand, e, x

LEMMA MoreWords ==
  ASSUME NEW nk \in KeySize, NEW key, NEW m \in Nat, nk <= m, NEW n \in 1 .. nk,
         NEW w \in Schedule(nk, key, m), NEW s \in Seq(Word), Len(s) = n,
         s[1] = w[m + 1 - nk] ## Change(nk, w[m], m),
         \A j \in 1 .. n - 1 : /\ s[j + 1] = w[m + 1 - nk + j] ## s[j]
                               /\ Change(nk, s[j], m + j) = s[j]
  PROVE  w \o s \in Schedule(nk, key, m + n)
<1>0. nk \in Nat /\ nk >= 1
  BY DEF KeySize
<1>1. /\ w \in Seq(Word) /\ Len(w) = m
      /\ \A i \in 1 .. nk : w[i] = key[i]
      /\ \A i \in nk .. m - 1 : w[i + 1] = w[i + 1 - nk] ## Change(nk, w[i], i)
  BY DEF Schedule
<1> DEFINE e == w \o s
<1>2. e \in Seq(Word) /\ Len(e) = m + n
  BY <1>1, ConcatProperties
<1>3. \A i \in 1 .. m : e[i] = w[i]
  BY <1>1, ConcatProperties
<1>4. \A j \in 1 .. n : e[m + j] = s[j]
  <2> SUFFICES ASSUME NEW j \in 1 .. n
               PROVE  e[m + j] = s[j]
    OBVIOUS
  <2>1. PICK i \in 1 .. m + n : i = m + j /\ i > m /\ i - m = j
    OBVIOUS
  <2>2. e[i] = IF i <= m THEN w[i] ELSE s[i - m]
    BY <1>1, ConcatProperties
  <2> QED
    BY <2>1, <2>2
<1> HIDE DEF e
<1>5. \A i \in 1 .. nk : e[i] = key[i]
  BY <1>0, <1>1, <1>3
<1>6. ASSUME NEW i \in nk .. m + n - 1
      PROVE  e[i + 1] = e[i + 1 - nk] ## Change(nk, e[i], i)
  <2>1. i + 1 - nk \in 1 .. m
    BY <1>0
  <2>2. e[i + 1 - nk] = w[i + 1 - nk]
    BY <1>3, <2>1
  <2>3. CASE i < m
    <3>1. i \in nk .. m - 1 /\ i + 1 \in 1 .. m /\ i \in 1 .. m
      BY <1>0, <2>3
    <3> QED
      BY <1>1, <1>3, <2>2, <3>1
  <2>4. CASE i = m
    <3>1. e[i] = w[m] /\ e[i + 1] = s[1]
      BY <1>0, <1>3, <1>4, <2>4
    <3> QED
      BY <2>2, <2>4, <3>1
  <2>5. CASE i > m
    <3>1. PICK j \in 1 .. n - 1 : i = m + j
      BY <2>5
    <3>2. e[i] = s[j] /\ e[i + 1] = s[j + 1]
      <4>1. j \in 1 .. n /\ j + 1 \in 1 .. n /\ i + 1 = m + (j + 1)
        BY <3>1
      <4> QED
        BY <1>4, <3>1, <4>1
    <3>3. i + 1 - nk = m + 1 - nk + j
      BY <1>0, <3>1
    <3> QED
      BY <2>2, <3>1, <3>2, <3>3
  <2> QED
    BY <2>3, <2>4, <2>5
<1>7. e \in Schedule(nk, key, m + n)
  BY <1>2, <1>5, <1>6 DEF Schedule
<1> QED
  BY <1>7 DEF e

LEMMA LastIs ==
  ASSUME NEW w \in Seq(Word), Len(w) # 0
  PROVE  Last(w) = w[Len(w)] /\ Last(w) \in Word
BY ElementOfSeq, LenProperties DEF Last

LEMMA StartIs ==
  ASSUME NEW t, Hold(t), NEW v \in Word, NEW turn \in 1 .. 10
  PROVE  Start(t, v, turn) = SubWord(RotWord(v)) ## Rcon(turn)
<1>1. \A r \in 1 .. 4 : v[r] \in Byte /\ SBox[v[r]] \in Byte
  BY BoxAssumption DEF Word
<1>2. \A r \in 1 .. 4 : SBox[v[r]] ++ 0 = SBox[v[r]]
  BY <1>1, SumFacts
<1>3. SubWord(RotWord(v)) ## Rcon(turn)
      = <<SBox[v[2]] ++ Doubles[1][turn], SBox[v[3]] ++ 0, SBox[v[4]] ++ 0, SBox[v[1]] ++ 0>>
  BY DEF SubWord, RotWord, Rcon, ##, Four
<1>4. Start(t, v, turn)
      = <<SBox[v[2]] ++ Doubles[1][turn], SBox[v[3]], SBox[v[4]], SBox[v[1]]>>
  BY DEF Start, Hold
<1> QED
  BY <1>2, <1>3, <1>4

\* It is the change that the standard makes at the first word of a turn.
LEMMA StartChanges ==
  ASSUME NEW t, Hold(t), NEW v \in Word, NEW nk, NEW m, NEW turn \in 1 .. 10,
         m % nk = 0, m \div nk = turn
  PROVE  Start(t, v, turn) = Change(nk, v, m)
<1>1. Change(nk, v, m) = SubWord(RotWord(v)) ## Rcon(turn)
  BY DEF Change
<1> QED
  BY <1>1, StartIs

LEMMA MiddleIs ==
  ASSUME NEW t, Hold(t), NEW v
  PROVE  Middle(t, v) = SubWord(v)
BY DEF Middle, SubWord, Hold

\* Chain continues a schedule, from the word that the last one changes on.
LEMMA ChainIs ==
  ASSUME NEW nk \in KeySize, NEW key, NEW m \in Nat, nk <= m, m < 4 * (nk + 7),
         NEW w \in Schedule(nk, key, m), NEW n \in {4, 6}, n <= nk,
         \A j \in 1 .. n - 1 : (m + j) % nk # 0 /\ ~(nk > 6 /\ (m + j) % nk = 4),
         NEW first, first = Change(nk, w[m], m)
  PROVE  Chain(w, nk, n, first) \in Schedule(nk, key, m + n)
<1> DEFINE old(i) == w[m - nk + i]
           w1 == old(1) ## first
           w2 == old(2) ## w1
           w3 == old(3) ## w2
           w4 == old(4) ## w3
           w5 == old(5) ## w4
           w6 == old(6) ## w5
           s == IF n = 4 THEN <<w1, w2, w3, w4>> ELSE <<w1, w2, w3, w4, w5, w6>>
<1>1. nk \in Nat /\ nk >= 4 /\ (n = 4 \/ nk >= 6)
  BY DEF KeySize
<1>2. w \in Seq(Word) /\ Len(w) = m
  BY DEF Schedule
<1>3. \A i \in 1 .. n : old(i) \in Word
  BY <1>1, <1>2, ElementOfSeq
<1>4. first \in Word
  <2>1. w[m] \in Word
    BY <1>1, <1>2, ElementOfSeq
  <2> QED
    BY <2>1, ChangeIs
<1>5. Chain(w, nk, n, first) = w \o s
  BY <1>2 DEF Chain
<1>6. old(1) = w[m + 1 - nk] /\ \A j \in 1 .. n - 1 : old(j + 1) = w[m + 1 - nk + j]
  <2>1. m - nk + 1 = m + 1 - nk /\ \A j \in 1 .. n - 1 : m - nk + (j + 1) = m + 1 - nk + j
    BY <1>1
  <2> QED
    BY <2>1
<1>7. \A v : \A j \in 1 .. n - 1 : Change(nk, v, m + j) = v
  BY DEF Change
<1> HIDE DEF old
<1>8. w1 \in Word /\ w2 \in Word /\ w3 \in Word /\ w4 \in Word
  BY <1>3, <1>4, WordSum
<1>9. n = 6 => w5 \in Word /\ w6 \in Word
  BY <1>3, <1>8, WordSum
<1>10. /\ s[1] = old(1) ## first
       /\ \A j \in 1 .. n - 1 : s[j + 1] = old(j + 1) ## s[j]
  <2>1. CASE n = 4
    <3>1. \A j \in 1 .. n - 1 : j \in {1, 2, 3}
      BY <2>1
    <3>2. s = <<w1, w2, w3, w4>>
      BY <2>1
    <3> QED
      BY <3>1, <3>2
  <2>2. CASE n = 6
    <3>1. \A j \in 1 .. n - 1 : j \in {1, 2, 3, 4, 5}
      BY <2>2
    <3>2. s = <<w1, w2, w3, w4, w5, w6>>
      BY <2>2
    <3> QED
      BY <3>1, <3>2
  <2> QED
    BY <2>1, <2>2
<1>11. s \in Seq(Word) /\ Len(s) = n
  BY <1>8, <1>9
<1> HIDE DEF s
<1>12. /\ s[1] = w[m + 1 - nk] ## Change(nk, w[m], m)
       /\ \A j \in 1 .. n - 1 : /\ s[j + 1] = w[m + 1 - nk + j] ## s[j]
                                /\ Change(nk, s[j], m + j) = s[j]
  BY <1>6, <1>7, <1>10
<1>13. n \in 1 .. nk
  BY <1>1
<1> QED
  BY <1>5, <1>11, <1>12, <1>13, MoreWords

\* The key expansion of the standard is the schedule.
LEMMA KeyExpansionIs ==
  ASSUME NEW key \in Seq(Word), Len(key) \in KeySize
  PROVE  KeyExpansion(key, Len(key) + 6) \in Schedule(Len(key), key, 4 * (Len(key) + 7))
<1> DEFINE nk == Len(key)
           n == 4 * (nk + 6 + 1) - nk
           S == [i \in 0 .. n |-> Schedule(nk, key, nk + i)]
           F == [i \in 1 .. n |-> [w \in S[i - 1] |-> Expand(nk, w, nk + i - 1)]]
<1>1. KeyExpansion(key, nk + 6)
      = ExpansionLoop(nk, key, n)
  BY DEF KeyExpansion, ExpansionLoop, Expand, Change, Iterate
<1>2. nk \in KeySize /\ nk \in {4, 6, 8} /\ n \in Nat /\ nk + n = 4 * (nk + 7)
  BY DEF KeySize
<1> HIDE DEF nk, n
<1>3. key \in S[0]
  <2>1. S[0] = Schedule(nk, key, nk)
    BY <1>2
  <2> QED
    BY <1>2, <2>1, KeyBegins DEF nk
<1>4. ASSUME NEW i \in 1 .. n, NEW w \in S[i - 1]
      PROVE  F[i][w] = Expand(nk, w, nk + i - 1) /\ F[i][w] \in S[i]
  <2>1. S[i - 1] = Schedule(nk, key, nk + i - 1) /\ S[i] = Schedule(nk, key, nk + i - 1 + 1)
    BY <1>2
  <2>2. F[i][w] = Expand(nk, w, nk + i - 1)
    OBVIOUS
  <2> DEFINE m == nk + i - 1
  <2>3. m \in Nat /\ nk <= m /\ m < 4 * (nk + 7)
    BY <1>2
  <2> HIDE DEF m
  <2>4. w \in Schedule(nk, key, m)
    BY <2>1 DEF m
  <2>5. Expand(nk, w, m) \in Schedule(nk, key, m + 1)
    BY <1>2, <2>3, <2>4, ExpandIs
  <2> QED
    BY <2>1, <2>2, <2>5 DEF m
<1> HIDE DEF S, F
<1>5. PICK g : Reaches(S, F, key, n, g)
  BY <1>2, <1>3, <1>4, Exists
<1>6. ExpansionLoop(nk, key, n) = g[n]
  BY <1>2, <1>4, <1>5, ExpansionRuns
<1>7. g[n] \in S[n]
  BY <1>2, <1>5 DEF Reaches
<1>8. S[n] = Schedule(nk, key, 4 * (nk + 7))
  BY <1>2 DEF S
<1> QED
  BY <1>1, <1>6, <1>7, <1>8 DEF nk

\* The three functions of the source make it too, several words a turn.
LEMMA Extract128Is ==
  ASSUME NEW t, Hold(t), NEW key \in Seq(Word), Len(key) = 4
  PROVE  ExtractEncryptKey128(t, key) \in Schedule(4, key, 44)
<1> DEFINE S == [i \in 0 .. 10 |-> Schedule(4, key, 4 + 4 * i)]
           step(w, i) == Chain(w, 4, 4, Start(t, Last(w), i))
           F == [i \in 1 .. 10 |-> [w \in S[i - 1] |-> step(w, i)]]
<1>1. ExtractEncryptKey128(t, key) = Extract128Loop(t, key, 10)
  BY DEF ExtractEncryptKey128, Extract128Loop
<1>2. 10 \in Nat /\ 4 \in KeySize /\ 4 \in {4, 6} /\ 4 <= 4
  BY DEF KeySize
<1>3. key \in S[0]
  <2>1. S[0] = Schedule(4, key, 4)
    OBVIOUS
  <2> QED
    BY <1>2, <2>1, KeyBegins
<1>4. ASSUME NEW i \in 1 .. 10, NEW w \in S[i - 1]
      PROVE  F[i][w] = step(w, i) /\ F[i][w] \in S[i]
  <2>1. PICK m \in Nat : m = 4 * i
    OBVIOUS
  <2>2. S[i - 1] = Schedule(4, key, m) /\ S[i] = Schedule(4, key, m + 4)
    BY <2>1
  <2>3. F[i][w] = step(w, i)
    OBVIOUS
  <2>4. 4 <= m /\ m < 4 * (4 + 7) /\ i \in 1 .. 10 /\ m % 4 = 0 /\ m \div 4 = i
    BY <2>1
  <2> HIDE DEF S, F, step
  <2>5. \A j \in 1 .. 4 - 1 : (m + j) % 4 # 0 /\ ~(4 > 6 /\ (m + j) % 4 = 4)
    <3>1. (m + 1) % 4 # 0 /\ (m + 2) % 4 # 0 /\ (m + 3) % 4 # 0
      BY <2>1
    <3> QED
      BY <3>1
  <2>6. w \in Schedule(4, key, m) /\ w \in Seq(Word) /\ Len(w) = m
    BY <2>2 DEF Schedule
  <2>7. Last(w) = w[m] /\ w[m] \in Word
    BY <2>4, <2>6, LastIs
  <2>8. Start(t, Last(w), i) = Change(4, w[m], m)
    BY <2>4, <2>7, StartChanges
  <2>9. Chain(w, 4, 4, Start(t, Last(w), i)) \in Schedule(4, key, m + 4)
    BY <1>2, <2>4, <2>5, <2>6, <2>8, ChainIs
  <2> QED
    BY <2>2, <2>3, <2>9 DEF step
<1> HIDE DEF S, F
<1>5. PICK g : Reaches(S, F, key, 10, g)
  BY <1>2, <1>3, <1>4, Exists
<1>6. Extract128Loop(t, key, 10) = g[10]
  BY <1>2, <1>4, <1>5, Extract128Runs
<1>7. g[10] \in S[10]
  BY <1>5 DEF Reaches
<1>8. S[10] = Schedule(4, key, 44)
  BY DEF S
<1> QED
  BY <1>1, <1>6, <1>7, <1>8

LEMMA Extract192Is ==
  ASSUME NEW t, Hold(t), NEW key \in Seq(Word), Len(key) = 6
  PROVE  ExtractEncryptKey192(t, key) \in Schedule(6, key, 52)
<1> DEFINE S == [i \in 0 .. 8 |-> Schedule(6, key, IF i = 8 THEN 52 ELSE 6 + 6 * i)]
           step(w, i) == Chain(w, 6, IF i = 8 THEN 4 ELSE 6, Start(t, Last(w), i))
           F == [i \in 1 .. 8 |-> [w \in S[i - 1] |-> step(w, i)]]
<1>1. ExtractEncryptKey192(t, key) = Extract192Loop(t, key, 8)
  BY DEF ExtractEncryptKey192, Extract192Loop
<1>2. 8 \in Nat /\ 6 \in KeySize
  BY DEF KeySize
<1>3. key \in S[0]
  <2>1. S[0] = Schedule(6, key, 6)
    OBVIOUS
  <2> QED
    BY <1>2, <2>1, KeyBegins
<1>4. ASSUME NEW i \in 1 .. 8, NEW w \in S[i - 1]
      PROVE  F[i][w] = step(w, i) /\ F[i][w] \in S[i]
  <2>1. PICK m \in Nat : m = 6 * i
    OBVIOUS
  <2>2. PICK n \in {4, 6} : n = IF i = 8 THEN 4 ELSE 6
    OBVIOUS
  <2>3. S[i - 1] = Schedule(6, key, m) /\ S[i] = Schedule(6, key, m + n)
    <3>1. i - 1 \in 0 .. 8 /\ i - 1 # 8 /\ i \in 0 .. 8 /\ 6 + 6 * (i - 1) = m
      BY <2>1
    <3>2. (IF i = 8 THEN 52 ELSE 6 + 6 * i) = m + n
      BY <2>1, <2>2
    <3>3. S[i - 1] = Schedule(6, key, m)
      BY <3>1
    <3>4. S[i] = Schedule(6, key, m + n)
      BY <3>1, <3>2
    <3> QED
      BY <3>3, <3>4
  <2>4. F[i][w] = Chain(w, 6, n, Start(t, Last(w), i)) /\ F[i][w] = step(w, i)
    BY <2>2
  <2>5. 6 <= m /\ m < 4 * (6 + 7) /\ i \in 1 .. 10 /\ m % 6 = 0 /\ m \div 6 = i /\ n <= 6
    BY <2>1, <2>2
  <2> HIDE DEF S, F, step
  <2>6. \A j \in 1 .. n - 1 : (m + j) % 6 # 0 /\ ~(6 > 6 /\ (m + j) % 6 = 4)
    <3>1. /\ (m + 1) % 6 # 0 /\ (m + 2) % 6 # 0 /\ (m + 3) % 6 # 0
          /\ (m + 4) % 6 # 0 /\ (m + 5) % 6 # 0
      BY <2>1
    <3> QED
      BY <2>2, <3>1
  <2>7. w \in Schedule(6, key, m) /\ w \in Seq(Word) /\ Len(w) = m
    BY <2>3 DEF Schedule
  <2>8. Last(w) = w[m] /\ w[m] \in Word
    BY <2>5, <2>7, LastIs
  <2>9. Start(t, Last(w), i) = Change(6, w[m], m)
    BY <2>5, <2>8, StartChanges
  <2>10. Chain(w, 6, n, Start(t, Last(w), i)) \in Schedule(6, key, m + n)
    BY <1>2, <2>5, <2>7, <2>9, <2>6, ChainIs
  <2> QED
    BY <2>3, <2>4, <2>10
<1> HIDE DEF S, F
<1>5. PICK g : Reaches(S, F, key, 8, g)
  BY <1>2, <1>3, <1>4, Exists
<1>6. Extract192Loop(t, key, 8) = g[8]
  BY <1>2, <1>4, <1>5, Extract192Runs
<1>7. g[8] \in S[8]
  BY <1>5 DEF Reaches
<1>8. S[8] = Schedule(6, key, 52)
  BY DEF S
<1> QED
  BY <1>1, <1>6, <1>7, <1>8

LEMMA Extract256Is ==
  ASSUME NEW t, Hold(t), NEW key \in Seq(Word), Len(key) = 8
  PROVE  ExtractEncryptKey256(t, key) \in Schedule(8, key, 60)
<1> DEFINE S == [i \in 0 .. 7 |-> Schedule(8, key, IF i = 7 THEN 60 ELSE 8 + 8 * i)]
           F == [i \in 1 .. 7 |-> [w \in S[i - 1] |-> Turn256(t, w, i)]]
<1>1. ExtractEncryptKey256(t, key) = Extract256Loop(t, key, 7)
  BY DEF ExtractEncryptKey256, Extract256Loop, Turn256, Iterate
<1>2. 7 \in Nat /\ 8 \in KeySize /\ 4 \in {4, 6}
  BY DEF KeySize
<1>3. key \in S[0]
  <2>1. S[0] = Schedule(8, key, 8)
    OBVIOUS
  <2> QED
    BY <1>2, <2>1, KeyBegins
<1>4. ASSUME NEW i \in 1 .. 7, NEW w \in S[i - 1]
      PROVE  F[i][w] = Turn256(t, w, i) /\ F[i][w] \in S[i]
  <2>1. PICK m \in Nat : m = 8 * i
    OBVIOUS
  <2>2. /\ S[i - 1] = Schedule(8, key, m)
        /\ S[i] = Schedule(8, key, IF i = 7 THEN m + 4 ELSE m + 4 + 4)
    BY <2>1
  <2>3. F[i][w] = Turn256(t, w, i)
    OBVIOUS
  <2>4. /\ 8 <= m /\ m < 4 * (8 + 7) /\ i \in 1 .. 10 /\ m % 8 = 0 /\ m \div 8 = i
        /\ 4 <= 8
    BY <2>1
  <2> HIDE DEF S, F
  <2>5. \A j \in 1 .. 4 - 1 : (m + j) % 8 # 0 /\ ~(8 > 6 /\ (m + j) % 8 = 4)
    <3>1. (m + 1) % 8 = 1 /\ (m + 2) % 8 = 2 /\ (m + 3) % 8 = 3
      BY <2>1
    <3> QED
      BY <3>1
  <2>6. w \in Schedule(8, key, m) /\ w \in Seq(Word) /\ Len(w) = m
    BY <2>2 DEF Schedule
  <2>7. Last(w) = w[m] /\ w[m] \in Word
    BY <2>4, <2>6, LastIs
  <2>8. Start(t, Last(w), i) = Change(8, w[m], m)
    BY <2>4, <2>7, StartChanges
  <2> DEFINE v == Chain(w, 8, 4, Start(t, Last(w), i))
  <2>9. v \in Schedule(8, key, m + 4)
    BY <1>2, <2>4, <2>5, <2>6, <2>8, ChainIs
  <2>10. Turn256(t, w, i) = IF i = 7 THEN v ELSE Chain(v, 8, 4, Middle(t, Last(v)))
    BY DEF Turn256
  <2> HIDE DEF v
  <2>11. CASE i = 7
    BY <2>2, <2>3, <2>9, <2>10, <2>11
  <2>12. CASE i # 7
    <3>1. PICK k \in Nat : k = m + 4
      OBVIOUS
    <3>2. 8 <= k /\ k < 4 * (8 + 7) /\ k % 8 = 4 /\ k # 0
      BY <2>1, <2>12, <3>1
    <3>3. \A j \in 1 .. 4 - 1 : (k + j) % 8 # 0 /\ ~(8 > 6 /\ (k + j) % 8 = 4)
      <4>1. (k + 1) % 8 = 5 /\ (k + 2) % 8 = 6 /\ (k + 3) % 8 = 7
        BY <2>1, <3>1
      <4> QED
        BY <4>1
    <3>4. v \in Schedule(8, key, k) /\ v \in Seq(Word) /\ Len(v) = k
      BY <2>9, <3>1 DEF Schedule
    <3>5. Last(v) = v[k]
      BY <3>2, <3>4, LastIs
    <3>6. Middle(t, Last(v)) = Change(8, v[k], k)
      BY <3>2, <3>5, MiddleIs DEF Change
    <3>7. Chain(v, 8, 4, Middle(t, Last(v))) \in Schedule(8, key, k + 4)
      BY <1>2, <2>4, <3>2, <3>3, <3>4, <3>6, ChainIs
    <3> QED
      BY <2>2, <2>3, <2>10, <2>12, <3>1, <3>7
  <2> QED
    BY <2>11, <2>12
<1> HIDE DEF S, F
<1>5. PICK g : Reaches(S, F, key, 7, g)
  BY <1>2, <1>3, <1>4, Exists
<1>6. Extract256Loop(t, key, 7) = g[7]
  BY <1>2, <1>4, <1>5, Extract256Runs
<1>7. g[7] \in S[7]
  BY <1>5 DEF Reaches
<1>8. S[7] = Schedule(8, key, 60)
  BY DEF S
<1> QED
  BY <1>1, <1>6, <1>7, <1>8

LEMMA SampleOfIs ==
  ASSUME NEW n \in Nat, NEW key \in SampleOf(n)
  PROVE  key \in Seq(Word) /\ Len(key) = n
<1>1. PICK i \in 1 .. Len(Sample) - n + 1 : key = SubSeq(Sample, i, i + n - 1)
  BY DEF SampleOf
<1>2. Sample \in Seq(Word) /\ Len(Sample) \in Nat
  BY SampleAssumption, LenProperties
<1>3. PICK m \in Int : m = i + n - 1
  BY <1>2
<1>4. i \in Int /\ m \in Int /\ \A k \in i .. m : Sample[k] \in Word
  BY <1>2, <1>3, ElementOfSeq
<1>5. /\ SubSeq(Sample, i, m) \in Seq(Word)
      /\ Len(SubSeq(Sample, i, m)) = IF i <= m THEN m - i + 1 ELSE 0
  BY <1>4, SubSeqProperties
<1> QED
  BY <1>1, <1>3, <1>5

LEMMA SchedulesAgree ==
  ASSUME NEW t, Hold(t)
  PROVE  KeySchedules(t)
<1>1. ASSUME NEW key \in SampleOf(4)
      PROVE  ExtractEncryptKey128(t, key) = KeyExpansion(key, 10)
  <2>1. key \in Seq(Word) /\ Len(key) = 4 /\ 4 \in KeySize
    BY SampleOfIs DEF KeySize
  <2>2. KeyExpansion(key, 10) \in Schedule(4, key, 44)
    <3>1. KeyExpansion(key, Len(key) + 6) \in Schedule(Len(key), key, 4 * (Len(key) + 7))
      BY <2>1, KeyExpansionIs
    <3>2. Len(key) + 6 = 10 /\ 4 * (Len(key) + 7) = 44
      BY <2>1
    <3> QED
      BY <2>1, <3>1, <3>2
  <2>3. ExtractEncryptKey128(t, key) \in Schedule(4, key, 44)
    BY <2>1, Extract128Is
  <2> QED
    BY <2>1, <2>2, <2>3, OneSchedule
<1>2. ASSUME NEW key \in SampleOf(6)
      PROVE  ExtractEncryptKey192(t, key) = KeyExpansion(key, 12)
  <2>1. key \in Seq(Word) /\ Len(key) = 6 /\ 6 \in KeySize
    BY SampleOfIs DEF KeySize
  <2>2. KeyExpansion(key, 12) \in Schedule(6, key, 52)
    <3>1. KeyExpansion(key, Len(key) + 6) \in Schedule(Len(key), key, 4 * (Len(key) + 7))
      BY <2>1, KeyExpansionIs
    <3>2. Len(key) + 6 = 12 /\ 4 * (Len(key) + 7) = 52
      BY <2>1
    <3> QED
      BY <2>1, <3>1, <3>2
  <2>3. ExtractEncryptKey192(t, key) \in Schedule(6, key, 52)
    BY <2>1, Extract192Is
  <2> QED
    BY <2>1, <2>2, <2>3, OneSchedule
<1>3. ASSUME NEW key \in SampleOf(8)
      PROVE  ExtractEncryptKey256(t, key) = KeyExpansion(key, 14)
  <2>1. key \in Seq(Word) /\ Len(key) = 8 /\ 8 \in KeySize
    BY SampleOfIs DEF KeySize
  <2>2. KeyExpansion(key, 14) \in Schedule(8, key, 60)
    <3>1. KeyExpansion(key, Len(key) + 6) \in Schedule(Len(key), key, 4 * (Len(key) + 7))
      BY <2>1, KeyExpansionIs
    <3>2. Len(key) + 6 = 14 /\ 4 * (Len(key) + 7) = 60
      BY <2>1
    <3> QED
      BY <2>1, <3>1, <3>2
  <2>3. ExtractEncryptKey256(t, key) \in Schedule(8, key, 60)
    BY <2>1, Extract256Is
  <2> QED
    BY <2>1, <2>2, <2>3, OneSchedule
<1> QED
  BY <1>1, <1>2, <1>3 DEF KeySchedules

-----------------------------------------------------------------------------
(* Blocks *)

LEMMA MixedIs == \A s, k : Mixed(s, k) = AddRoundKey(s, k)
BY DEF Mixed, AddRoundKey

\* The fifteen round keys.
LEMMA SixtyWords ==
  ASSUME NEW w, Whole(w), NEW r \in 0 .. 14
  PROVE  /\ RoundKey(w, r) = KeyOf(w, r) /\ KeyOf(w, r) \in State
         /\ \A j \in 1 .. 4 : KeyOf(w, r)[j] = w[4 * r + j]
<1>1. r \in Nat /\ 4 * r + 4 <= 60
  OBVIOUS
<1>2. w \in Seq(Word) /\ 4 * r + 4 <= Len(w)
  BY <1>1 DEF Whole
<1> QED
  BY <1>1, <1>2, KeyIs

\* The inner rounds, one by one.
LEMMA EncryptLoopIs ==
  ASSUME NEW t, Hold(t), NEW w, Whole(w), NEW x \in State
  PROVE  EncryptLoop(t, w, x, 13) = CipherLoop(w, x, 13) /\ CipherLoop(w, x, 13) \in State
<1> DEFINE S == [i \in 0 .. 13 |-> State]
           F == [i \in 1 .. 13 |-> [s \in State |-> EncryptRound(t, s, KeyOf(w, i))]]
<1>1. ASSUME NEW i \in 1 .. 13, NEW s \in State
      PROVE  /\ F[i][s] = EncryptRound(t, s, KeyOf(w, i))
             /\ F[i][s] = AddRoundKey(MixColumns(ShiftRows(SubBytes(s))), RoundKey(w, i))
             /\ F[i][s] \in State
  <2>1. RoundKey(w, i) = KeyOf(w, i) /\ KeyOf(w, i) \in State
    <3>1. i \in 0 .. 14
      OBVIOUS
    <3> HIDE DEF F
    <3> QED
      BY <3>1, SixtyWords
  <2>2. F[i][s] = EncryptRound(t, s, KeyOf(w, i))
    OBVIOUS
  <2> HIDE DEF F
  <2> QED
    BY <2>1, <2>2, EncryptRoundIs
<1>2. \A i \in 1 .. 13 : S[i - 1] = State /\ S[i] = State
  OBVIOUS
<1>3. 13 \in Nat /\ x \in S[0] /\ S[13] = State
  OBVIOUS
<1> HIDE DEF S, F
<1>4. \A i \in 1 .. 13 : \A s \in S[i - 1] : F[i][s] \in S[i]
  BY <1>1, <1>2
<1>5. \A i \in 1 .. 13 : \A s \in S[i - 1] : F[i][s] = EncryptRound(t, s, KeyOf(w, i))
  BY <1>1, <1>2
<1>6. \A i \in 1 .. 13 : \A s \in S[i - 1] :
        F[i][s] = AddRoundKey(MixColumns(ShiftRows(SubBytes(s))), RoundKey(w, i))
  BY <1>1, <1>2
<1>7. 13 \in Nat
  OBVIOUS
<1>8. PICK g : Reaches(S, F, x, 13, g)
  BY <1>3, <1>4, Exists
<1>9. EncryptLoop(t, w, x, 13) = g[13]
  BY <1>7, <1>8, <1>5, EncryptRuns
<1>10. CipherLoop(w, x, 13) = g[13]
  BY <1>7, <1>8, <1>6, CipherRuns
<1>11. g[13] \in State
  BY <1>3, <1>8 DEF Reaches
<1> QED
  BY <1>9, <1>10, <1>11

\* process_chunk encrypts, and decrypts, as the standard says.
LEMMA EncryptChunkIs ==
  ASSUME NEW t, Hold(t), NEW w, Whole(w), NEW iv \in State, NEW block \in State
  PROVE  EncryptChunk(t, w, iv, block) = Cipher(AddRoundKey(iv, block), w, Rounds)
<1> DEFINE x == AddRoundKey(AddRoundKey(iv, block), RoundKey(w, 0))
<1>1. /\ RoundKey(w, 0) = KeyOf(w, 0) /\ KeyOf(w, 0) \in State
      /\ RoundKey(w, 14) = KeyOf(w, 14) /\ KeyOf(w, 14) \in State
  BY SixtyWords
<1>2. x \in State
  BY <1>1, AddedIs
<1>3. EncryptChunk(t, w, iv, block)
      = EncryptLast(t, EncryptLoop(t, w, Mixed(Mixed(iv, block), KeyOf(w, 0)), Rounds - 1),
                    KeyOf(w, Rounds))
  BY DEF EncryptChunk, EncryptLoop
<1>4. Cipher(AddRoundKey(iv, block), w, Rounds)
      = AddRoundKey(ShiftRows(SubBytes(CipherLoop(w, x, Rounds - 1))), RoundKey(w, Rounds))
  BY DEF Cipher, CipherLoop
<1>5. Rounds = 14 /\ Rounds - 1 = 13
  BY DEF Rounds
<1>6. Mixed(Mixed(iv, block), KeyOf(w, 0)) = x
  BY <1>1, MixedIs
<1> HIDE DEF x
<1>7. EncryptLoop(t, w, x, 13) = CipherLoop(w, x, 13) /\ CipherLoop(w, x, 13) \in State
  BY <1>2, EncryptLoopIs
<1> QED
  BY <1>1, <1>3, <1>4, <1>5, <1>6, <1>7, EncryptLastIs

LEMMA DecryptLoopIs ==
  ASSUME NEW t, Hold(t), NEW w, Whole(w),
         NEW u, u = ExtractDecryptKey(t, w, Rounds), NEW x \in State
  PROVE  /\ DecryptLoop(t, u, x, 13) = InvCipherLoop(w, 14, x, 13)
         /\ InvCipherLoop(w, 14, x, 13) \in State
<1> DEFINE S == [i \in 0 .. 13 |-> State]
           F == [i \in 1 .. 13 |-> [s \in State |-> DecryptRound(t, s, KeyOf(u, i))]]
<1>1. ASSUME NEW i \in 1 .. 13, NEW s \in State
      PROVE  /\ F[i][s] = DecryptRound(t, s, KeyOf(u, i))
             /\ F[i][s] =
                  InvMixColumns(AddRoundKey(InvSubBytes(InvShiftRows(s)), RoundKey(w, 14 - i)))
             /\ F[i][s] \in State
  <2>1. Whole(u)
    BY DecryptKeyIs
  <2>2. /\ KeyOf(u, i) \in State
        /\ \A j \in 1 .. 4 : KeyOf(u, i)[j] = u[4 * i + j]
    <3>1. i \in 0 .. 14
      OBVIOUS
    <3> HIDE DEF F
    <3> QED
      BY <2>1, <3>1, SixtyWords
  <2>3. /\ RoundKey(w, 14 - i) = KeyOf(w, 14 - i) /\ KeyOf(w, 14 - i) \in State
        /\ \A j \in 1 .. 4 : KeyOf(w, 14 - i)[j] = w[4 * (14 - i) + j]
    <3>1. 14 - i \in 0 .. 14
      OBVIOUS
    <3> HIDE DEF F
    <3> QED
      BY <3>1, SixtyWords
  <2>4. \A j \in 1 .. 4 : u[4 * i + j] = InvMixColumn(w[4 * (14 - i) + j])
    <3>1. Reversed(u, w)
      BY DecryptKeyIs
    <3>2. i \in 0 .. 14
      OBVIOUS
    <3> HIDE DEF F
    <3> QED
      BY <3>1, <3>2 DEF Reversed
  <2>5. \A j \in 1 .. 4 : KeyOf(u, i)[j] = InvMixColumn(KeyOf(w, 14 - i)[j])
    BY <2>2, <2>3, <2>4
  <2>6. F[i][s] = DecryptRound(t, s, KeyOf(u, i))
    OBVIOUS
  <2> HIDE DEF F
  <2> QED
    BY <2>2, <2>3, <2>5, <2>6, DecryptRoundIs
<1>2. \A i \in 1 .. 13 : S[i - 1] = State /\ S[i] = State
  OBVIOUS
<1>3. 13 \in Nat /\ x \in S[0] /\ S[13] = State
  OBVIOUS
<1> HIDE DEF S, F
<1>4. \A i \in 1 .. 13 : \A s \in S[i - 1] : F[i][s] \in S[i]
  BY <1>1, <1>2
<1>5. \A i \in 1 .. 13 : \A s \in S[i - 1] : F[i][s] = DecryptRound(t, s, KeyOf(u, i))
  BY <1>1, <1>2
<1>6. \A i \in 1 .. 13 : \A s \in S[i - 1] :
        F[i][s] = InvMixColumns(AddRoundKey(InvSubBytes(InvShiftRows(s)), RoundKey(w, 14 - i)))
  BY <1>1, <1>2
<1>7. 13 \in Nat
  OBVIOUS
<1>8. PICK g : Reaches(S, F, x, 13, g)
  BY <1>3, <1>4, Exists
<1>9. DecryptLoop(t, u, x, 13) = g[13]
  BY <1>7, <1>8, <1>5, DecryptRuns
<1>10. InvCipherLoop(w, 14, x, 13) = g[13]
  BY <1>7, <1>8, <1>6, InvCipherRuns
<1>11. g[13] \in State
  BY <1>3, <1>8 DEF Reaches
<1> QED
  BY <1>9, <1>10, <1>11

LEMMA DecryptChunkIs ==
  ASSUME NEW t, Hold(t), NEW w, Whole(w),
         NEW u, u = ExtractDecryptKey(t, w, Rounds), NEW iv \in State, NEW block \in State
  PROVE  DecryptChunk(t, u, iv, block) = AddRoundKey(iv, InvCipher(block, w, Rounds))
<1> DEFINE x == AddRoundKey(block, RoundKey(w, 14))
           y == InvCipherLoop(w, 14, x, 13)
           z == AddRoundKey(InvSubBytes(InvShiftRows(y)), RoundKey(w, 0))
<1>1. /\ RoundKey(w, 0) = KeyOf(w, 0) /\ KeyOf(w, 0) \in State
      /\ RoundKey(w, 14) = KeyOf(w, 14) /\ KeyOf(w, 14) \in State
      /\ \A j \in 1 .. 4 : KeyOf(w, 0)[j] = w[4 * 0 + j] /\ KeyOf(w, 14)[j] = w[4 * 14 + j]
  <2>1. 0 \in 0 .. 14 /\ 14 \in 0 .. 14
    OBVIOUS
  <2>2. /\ RoundKey(w, 0) = KeyOf(w, 0) /\ KeyOf(w, 0) \in State
        /\ \A j \in 1 .. 4 : KeyOf(w, 0)[j] = w[4 * 0 + j]
    BY <2>1, SixtyWords
  <2>3. /\ RoundKey(w, 14) = KeyOf(w, 14) /\ KeyOf(w, 14) \in State
        /\ \A j \in 1 .. 4 : KeyOf(w, 14)[j] = w[4 * 14 + j]
    BY <2>1, SixtyWords
  <2> QED
    BY <2>2, <2>3
<1>2. Whole(u)
  BY DecryptKeyIs
<1>3. /\ KeyOf(u, 0) \in State /\ KeyOf(u, 14) \in State
      /\ \A j \in 1 .. 4 : KeyOf(u, 0)[j] = u[4 * 0 + j] /\ KeyOf(u, 14)[j] = u[4 * 14 + j]
  <2>1. 0 \in 0 .. 14 /\ 14 \in 0 .. 14
    OBVIOUS
  <2>2. KeyOf(u, 0) \in State /\ \A j \in 1 .. 4 : KeyOf(u, 0)[j] = u[4 * 0 + j]
    BY <1>2, <2>1, SixtyWords
  <2>3. KeyOf(u, 14) \in State /\ \A j \in 1 .. 4 : KeyOf(u, 14)[j] = u[4 * 14 + j]
    BY <1>2, <2>1, SixtyWords
  <2> QED
    BY <2>2, <2>3
<1>4. \A j \in 1 .. 4 : u[4 * 0 + j] = w[4 * (14 - 0) + j] /\ u[4 * 14 + j] = w[4 * (14 - 14) + j]
  <2>1. Reversed(u, w)
    BY DecryptKeyIs
  <2>2. 0 \in 0 .. 14 /\ 14 \in 0 .. 14 /\ 0 \notin 1 .. 13 /\ 14 \notin 1 .. 13
    OBVIOUS
  <2> QED
    BY <2>1, <2>2 DEF Reversed
<1>5. KeyOf(u, 0) = KeyOf(w, 14) /\ KeyOf(u, 14) = KeyOf(w, 0)
  <2>1. \A j \in 1 .. 4 : KeyOf(u, 0)[j] = KeyOf(w, 14)[j] /\ KeyOf(u, 14)[j] = KeyOf(w, 0)[j]
    BY <1>1, <1>3, <1>4
  <2> QED
    BY <1>1, <1>3, <2>1, SameSquare
<1>6. x \in State
  BY <1>1, AddedIs
<1>7. DecryptChunk(t, u, iv, block)
      = Mixed(DecryptLast(t, DecryptLoop(t, u, Mixed(block, KeyOf(u, 0)), Rounds - 1),
                          KeyOf(u, Rounds)),
              iv)
  BY DEF DecryptChunk, DecryptLoop
<1>8. InvCipher(block, w, Rounds)
      = AddRoundKey(
          InvSubBytes(InvShiftRows(
            InvCipherLoop(w, Rounds, AddRoundKey(block, RoundKey(w, Rounds)), Rounds - 1))),
          RoundKey(w, 0))
  BY DEF InvCipher, InvCipherLoop
<1>9. Rounds = 14 /\ Rounds - 1 = 13
  BY DEF Rounds
<1>10. Mixed(block, KeyOf(u, 0)) = x
  BY <1>1, <1>5, MixedIs
<1>11. InvCipher(block, w, Rounds) = z
  BY <1>8, <1>9
<1> HIDE DEF x
<1>12. DecryptLoop(t, u, x, 13) = y /\ y \in State
  BY <1>6, DecryptLoopIs
<1> HIDE DEF y
<1>13. DecryptLast(t, y, KeyOf(u, 14)) = z /\ z \in State
  BY <1>1, <1>5, <1>12, DecryptLastIs, AddedIs, UnshiftedIs
<1> HIDE DEF z
<1>14. DecryptChunk(t, u, iv, block) = AddRoundKey(z, iv)
  BY <1>7, <1>9, <1>10, <1>12, <1>13, MixedIs
<1>15. AddRoundKey(z, iv) = AddRoundKey(iv, z)
  <2>1. \A i \in 1 .. 4 : z[i] \in Word /\ iv[i] \in Word
    BY <1>13 DEF State
  <2>2. \A i \in 1 .. 4 : AddRoundKey(z, iv)[i] = AddRoundKey(iv, z)[i]
    BY <1>13, <2>1, AddedIs, WordCommutes
  <2> QED
    BY <1>13, <2>2, AddedIs, SameSquare
<1> QED
  BY <1>11, <1>14, <1>15

LEMMA BlocksAgree ==
  ASSUME NEW t, Hold(t)
  PROVE  Blocks(t)
<1> SUFFICES ASSUME NEW key \in SampleOf(8), NEW block \in SampleOf(4), NEW iv \in {Zero, Iv},
                    NEW w, w = ExtractEncryptKey256(t, key),
                    NEW u, u = ExtractDecryptKey(t, w, Rounds)
             PROVE  /\ EncryptChunk(t, w, iv, block) = Cipher(AddRoundKey(iv, block), w, Rounds)
                    /\ DecryptChunk(t, u, iv, block) = AddRoundKey(iv, InvCipher(block, w, Rounds))
  BY DEF Blocks
<1>1. Whole(w)
  <2>1. key \in Seq(Word) /\ Len(key) = 8
    BY SampleOfIs
  <2>2. w \in Schedule(8, key, 60)
    BY <2>1, Extract256Is
  <2> QED
    BY <2>2 DEF Schedule, Whole
<1>2. block \in State
  <2>1. block \in Seq(Word) /\ Len(block) = 4
    BY SampleOfIs
  <2> QED
    BY <2>1, LenProperties DEF State
<1>3. iv \in State
  <2>1. 0 \in Byte
    BY SumFacts
  <2>2. Zero \in State
    BY <2>1 DEF Zero, Four, State, Word
  <2> QED
    BY <2>2, SampleAssumption
<1> QED
  BY <1>1, <1>2, <1>3, EncryptChunkIs, DecryptChunkIs

\* The tables that create_tables leaves are those it asks for.
LEMMA FinishedTables == FollowsFips(Tables(Loop))
<1>1. Hold(Tables(Loop))
  BY TablesAssumption
<1>2. KeySchedules(Tables(Loop)) /\ Blocks(Tables(Loop))
  BY <1>1, SchedulesAgree, BlocksAgree
<1> QED
  BY <1>1, <1>2 DEF FollowsFips, Hold

LEMMA VerdictOnFinished ==
  ASSUME TablesReady
  PROVE  CipherIsFips
<1>1. Loop \in SUBSET {"rcon", "sbox", "mix"}
  BY DEF Loop
<1>2. FollowsFips(Tables(Loop)) = TRUE
  BY FinishedTables DEF FollowsFips
<1>3. <<Loop, TRUE>> \in Verdict
  BY <1>1, <1>2 DEF Verdict
<1> QED
  BY <1>3 DEF CipherIsFips, TablesReady

\* What a task encrypts and decrypts is what FIPS-197 says: the tables, the key
\* schedules and the rounds of process_chunk, whatever the keys, the blocks
\* and ARCHIVE_IV are (aes.cpp:39-43, aes256_encrypt.cpp,
\* aes256_decrypt.cpp).
THEOREM EncryptsAsFips == Spec => []CipherIsFips
<1>1. IInv => TablesReady
  BY DEF IInv, Filling, TablesReady
<1>2. TablesReady => CipherIsFips
  BY VerdictOnFinished
<1>. QED
  BY <1>1, <1>2, Always, PTL

-----------------------------------------------------------------------------
(* Undoing a block *)

LEMMA AloneSums ==
  ASSUME NEW w \in Word
  PROVE  /\ \A j \in 1 .. 4 : Alone(j, w[j]) \in Word
         /\ Alone(1, w[1]) ## Alone(2, w[2]) ## Alone(3, w[3]) ## Alone(4, w[4]) = w
<1> DEFINE a(j) == Alone(j, w[j])
<1>1. 0 \in Byte /\ \A j \in 1 .. 4 : w[j] \in Byte
  BY SumFacts DEF Word
<1>2. \A j \in 1 .. 4 : a(j) \in Word /\ \A r \in 1 .. 4 : a(j)[r] = IF r = j THEN w[j] ELSE 0
  BY <1>1 DEF Alone, Word
<1> HIDE DEF a
<1>3. /\ a(1) ## a(2) \in Word /\ a(1) ## a(2) ## a(3) \in Word
      /\ a(1) ## a(2) ## a(3) ## a(4) \in Word
  BY <1>2, WordSum
<1>4. \A r \in 1 .. 4 : (a(1) ## a(2) ## a(3) ## a(4))[r] = Sum4(a(1)[r], a(2)[r], a(3)[r], a(4)[r])
  BY <1>2, <1>3, WordSum DEF Sum4
<1>5. \A r \in 1 .. 4 : Sum4(a(1)[r], a(2)[r], a(3)[r], a(4)[r]) = w[r]
  <2>1. /\ a(1)[1] = w[1] /\ a(2)[1] = 0 /\ a(3)[1] = 0 /\ a(4)[1] = 0
        /\ a(1)[2] = 0 /\ a(2)[2] = w[2] /\ a(3)[2] = 0 /\ a(4)[2] = 0
        /\ a(1)[3] = 0 /\ a(2)[3] = 0 /\ a(3)[3] = w[3] /\ a(4)[3] = 0
        /\ a(1)[4] = 0 /\ a(2)[4] = 0 /\ a(3)[4] = 0 /\ a(4)[4] = w[4]
    BY <1>2
  <2>2. /\ Sum4(a(1)[1], a(2)[1], a(3)[1], a(4)[1]) = Sum4(w[1], 0, 0, 0)
        /\ Sum4(a(1)[2], a(2)[2], a(3)[2], a(4)[2]) = Sum4(0, w[2], 0, 0)
        /\ Sum4(a(1)[3], a(2)[3], a(3)[3], a(4)[3]) = Sum4(0, 0, w[3], 0)
        /\ Sum4(a(1)[4], a(2)[4], a(3)[4], a(4)[4]) = Sum4(0, 0, 0, w[4])
    BY <2>1
  <2>3. /\ w[1] \in Byte /\ w[2] \in Byte /\ w[3] \in Byte /\ w[4] \in Byte
    BY <1>1
  <2>4. /\ Sum4(w[1], 0, 0, 0) = w[1] /\ Sum4(0, w[2], 0, 0) = w[2]
        /\ Sum4(0, 0, w[3], 0) = w[3] /\ Sum4(0, 0, 0, w[4]) = w[4]
    BY <2>3, Sum4Facts
  <2> QED
    BY <2>2, <2>4
<1>6. a(1) ## a(2) ## a(3) ## a(4) = w
  BY <1>3, <1>4, <1>5, SameWord
<1> QED
  BY <1>2, <1>6 DEF a

\* Mixing can be undone for every column, because it can for those with one
\* byte.
LEMMA UnmixedColumn ==
  ASSUME NEW w \in Word
  PROVE  InvMixColumn(MixColumn(w)) = w
<1> DEFINE a(j) == Alone(j, w[j])
           m(j) == MixColumn(a(j))
<1>1. \A j \in 1 .. 4 : a(j) \in Word /\ m(j) \in Word /\ InvMixColumn(m(j)) = a(j)
  <2>1. \A j \in 1 .. 4 : w[j] \in Byte
    BY DEF Word
  <2>2. \A j \in 1 .. 4 : InvMixColumn(m(j)) = a(j)
    BY <2>1, ColumnAssumption
  <2> QED
    BY <2>2, AloneSums, MixedColumn
<1>2. a(1) ## a(2) ## a(3) ## a(4) = w
  BY AloneSums
<1>3. m(1) ## m(2) ## m(3) ## m(4) = MixColumn(w)
  BY MixedColumn
<1> HIDE DEF a, m
<1>4. \A u, v \in Word :
        u ## v \in Word /\ InvMixColumn(u ## v) = InvMixColumn(u) ## InvMixColumn(v)
  BY CirculantAdds, WordSum DEF InvMixColumn
<1>5. m(1) ## m(2) \in Word /\ InvMixColumn(m(1) ## m(2)) = a(1) ## a(2)
  BY <1>1, <1>4
<1>6. m(1) ## m(2) ## m(3) \in Word /\ InvMixColumn(m(1) ## m(2) ## m(3)) = a(1) ## a(2) ## a(3)
  BY <1>1, <1>4, <1>5
<1>7. InvMixColumn(m(1) ## m(2) ## m(3) ## m(4)) = a(1) ## a(2) ## a(3) ## a(4)
  BY <1>1, <1>4, <1>6
<1> QED
  BY <1>2, <1>3, <1>7

LEMMA UnmixedColumns ==
  ASSUME NEW s \in State
  PROVE  MixColumns(s) \in State /\ InvMixColumns(MixColumns(s)) = s
<1>1. \A i \in 1 .. 4 :
        s[i] \in Word /\ MixColumn(s[i]) \in Word /\ InvMixColumn(MixColumn(s[i])) = s[i]
  BY MixedColumn, UnmixedColumn DEF State
<1>2. MixColumns(s) \in State /\ \A i \in 1 .. 4 : MixColumns(s)[i] = MixColumn(s[i])
  BY <1>1 DEF MixColumns, Four, State
<1>3. /\ InvMixColumns(MixColumns(s)) \in State
      /\ \A i \in 1 .. 4 : InvMixColumns(MixColumns(s))[i] = s[i]
  BY <1>1, <1>2 DEF InvMixColumns, Four, State
<1> QED
  BY <1>2, <1>3, SameSquare

\* A substitution with its shift can be undone, and so can a key that is added.
LEMMA Unshifted ==
  ASSUME NEW s \in State
  PROVE  /\ ShiftRows(SubBytes(s)) \in State
         /\ InvSubBytes(InvShiftRows(ShiftRows(SubBytes(s)))) = s
<1> DEFINE u == ShiftRows(SubBytes(s))
           v == InvSubBytes(InvShiftRows(u))
<1>1. u \in State /\ \A i, r \in 1 .. 4 : u[i][r] = SBox[s[Column(i + r - 1)][r]]
  BY ShiftedIs
<1>2. \A i, r \in 1 .. 4 : s[i][r] \in Byte
  BY DEF State, Word
<1> HIDE DEF u
<1>3. v \in State /\ \A i, r \in 1 .. 4 : v[i][r] = InvSBox[u[Column(i + 5 - r)][r]]
  BY <1>1, UnshiftedIs
<1> HIDE DEF v
<1>4. \A i, r \in 1 .. 4 : /\ Column(i + 5 - r) \in 1 .. 4
                           /\ Column(Column(i + 5 - r) + r - 1) = i
  BY DEF Column
<1>5. \A i, r \in 1 .. 4 : u[Column(i + 5 - r)][r] = SBox[s[i][r]]
  BY <1>1, <1>4
<1>6. \A i, r \in 1 .. 4 : v[i][r] = s[i][r]
  BY <1>2, <1>3, <1>5, BoxAssumption
<1>7. \A i \in 1 .. 4 : v[i] = s[i]
  BY <1>3, <1>6, SameWord DEF State
<1>8. v = s
  BY <1>3, <1>7, SameSquare
<1> QED
  BY <1>1, <1>8 DEF u, v

LEMMA ByteTwice == \A a, b \in Byte : (a ++ b) ++ b = a /\ b ++ (b ++ a) = a
<1> SUFFICES ASSUME NEW a \in Byte, NEW b \in Byte
             PROVE  (a ++ b) ++ b = a /\ b ++ (b ++ a) = a
  OBVIOUS
<1>1. (a ++ b) ++ b = a ++ (b ++ b) /\ b ++ (b ++ a) = (b ++ b) ++ a
  BY SumFacts
<1>2. b ++ b = 0 /\ a ++ 0 = a /\ 0 ++ a = a
  BY SumFacts
<1> QED
  BY <1>1, <1>2

LEMMA AddedTwice ==
  ASSUME NEW s \in State, NEW k \in State
  PROVE  /\ AddRoundKey(s, k) \in State
         /\ AddRoundKey(AddRoundKey(s, k), k) = s
         /\ AddRoundKey(k, AddRoundKey(k, s)) = s
<1>1. \A i \in 1 .. 4 : s[i] \in Word /\ k[i] \in Word
  BY DEF State
<1>2. \A v, w \in Word : v ## w \in Word /\ (v ## w) ## w = v /\ w ## (w ## v) = v
  <2> SUFFICES ASSUME NEW v \in Word, NEW w \in Word
               PROVE  v ## w \in Word /\ (v ## w) ## w = v /\ w ## (w ## v) = v
    OBVIOUS
  <2>1. \A r \in 1 .. 4 : v[r] \in Byte /\ w[r] \in Byte
    BY DEF Word
  <2>2. /\ v ## w \in Word /\ w ## v \in Word
        /\ \A r \in 1 .. 4 : (v ## w)[r] = v[r] ++ w[r] /\ (w ## v)[r] = w[r] ++ v[r]
    BY WordSum
  <2>3. /\ (v ## w) ## w \in Word /\ w ## (w ## v) \in Word
        /\ \A r \in 1 .. 4 : /\ ((v ## w) ## w)[r] = (v ## w)[r] ++ w[r]
                             /\ (w ## (w ## v))[r] = w[r] ++ (w ## v)[r]
    BY <2>2, WordSum
  <2>4. \A r \in 1 .. 4 : (v[r] ++ w[r]) ++ w[r] = v[r] /\ w[r] ++ (w[r] ++ v[r]) = v[r]
    BY <2>1, ByteTwice
  <2> QED
    BY <2>2, <2>3, <2>4, SameWord
<1> DEFINE p == AddRoundKey(s, k)
           q == AddRoundKey(k, s)
<1>3. p \in State /\ q \in State /\ \A i \in 1 .. 4 : p[i] = s[i] ## k[i] /\ q[i] = k[i] ## s[i]
  BY AddedIs
<1> HIDE DEF p, q
<1>4. /\ AddRoundKey(p, k) \in State /\ AddRoundKey(k, q) \in State
      /\ \A i \in 1 .. 4 : /\ AddRoundKey(p, k)[i] = p[i] ## k[i]
                           /\ AddRoundKey(k, q)[i] = k[i] ## q[i]
  BY <1>3, AddedIs
<1>5. \A i \in 1 .. 4 : p[i] ## k[i] = s[i] /\ k[i] ## q[i] = s[i]
  <2> SUFFICES ASSUME NEW i \in 1 .. 4
               PROVE  p[i] ## k[i] = s[i] /\ k[i] ## q[i] = s[i]
    OBVIOUS
  <2>1. (s[i] ## k[i]) ## k[i] = s[i] /\ k[i] ## (k[i] ## s[i]) = s[i]
    BY <1>1, <1>2
  <2> QED
    BY <1>3, <2>1
<1>6. AddRoundKey(p, k) = s /\ AddRoundKey(k, q) = s
  BY <1>4, <1>5, SameSquare
<1> QED
  BY <1>3, <1>6 DEF p, q

\* The inner rounds of decryption go back through the states of encryption.
LEMMA InverseLoopIs ==
  ASSUME NEW w, Whole(w), NEW x \in State, NEW y, y = CipherLoop(w, x, 13)
  PROVE  y \in State /\ InvCipherLoop(w, 14, ShiftRows(SubBytes(y)), 13) = ShiftRows(SubBytes(x))
<1> DEFINE S == [i \in 0 .. 13 |-> State]
           F == [i \in 1 .. 13 |->
                   [s \in State |->
                      AddRoundKey(MixColumns(ShiftRows(SubBytes(s))), RoundKey(w, i))]]
           B == [i \in 1 .. 13 |->
                   [s \in State |->
                      InvMixColumns(
                        AddRoundKey(InvSubBytes(InvShiftRows(s)), RoundKey(w, 14 - i)))]]
<1>1. \A i \in 0 .. 14 : RoundKey(w, i) \in State
  BY SixtyWords
<1>2. ASSUME NEW i \in 1 .. 13, NEW s \in State
      PROVE  /\ F[i][s] = AddRoundKey(MixColumns(ShiftRows(SubBytes(s))), RoundKey(w, i))
             /\ F[i][s] \in State
  <2>1. F[i][s] = AddRoundKey(MixColumns(ShiftRows(SubBytes(s))), RoundKey(w, i))
    OBVIOUS
  <2>2. RoundKey(w, i) \in State
    BY <1>1
  <2>3. MixColumns(ShiftRows(SubBytes(s))) \in State
    BY Unshifted, UnmixedColumns
  <2> HIDE DEF F
  <2> QED
    BY <2>1, <2>2, <2>3, AddedTwice
<1>3. \A i \in 1 .. 13 : \A s \in State :
        B[i][s] = InvMixColumns(AddRoundKey(InvSubBytes(InvShiftRows(s)), RoundKey(w, 14 - i)))
  OBVIOUS
<1>4. /\ \A i \in 1 .. 13 : S[i - 1] = State /\ S[i] = State
      /\ \A i \in 0 .. 13 : S[i] = State
  OBVIOUS
<1>5. 13 \in Nat
  OBVIOUS
<1> HIDE DEF S, F, B
<1>6. x \in S[0] /\ \A i \in 1 .. 13 : \A s \in S[i - 1] : F[i][s] \in S[i]
  BY <1>2, <1>4
<1>7. \A i \in 1 .. 13 : \A s \in S[i - 1] :
        F[i][s] = AddRoundKey(MixColumns(ShiftRows(SubBytes(s))), RoundKey(w, i))
  BY <1>2, <1>4
<1>8. \A i \in 1 .. 13 : \A s \in S[i - 1] :
        B[i][s] = InvMixColumns(AddRoundKey(InvSubBytes(InvShiftRows(s)), RoundKey(w, 14 - i)))
  BY <1>3, <1>4
<1>9. PICK g : Reaches(S, F, x, 13, g)
  BY <1>5, <1>6, Exists
<1>10. y = g[13]
  <2>1. CipherLoop(w, x, 13) = g[13]
    BY <1>5, <1>7, <1>9, CipherRuns
  <2> QED
    BY <2>1
<1>11. g[0] = x /\ \A i \in 0 .. 13 : g[i] \in State
  BY <1>4, <1>9 DEF Reaches
<1> DEFINE h == [i \in 0 .. 13 |-> ShiftRows(SubBytes(g[13 - i]))]
<1>12. \A i \in 0 .. 13 : h[i] = ShiftRows(SubBytes(g[13 - i]))
  OBVIOUS
<1>13. OnSteps(h, 13)
  BY DEF OnSteps
<1> HIDE DEF h
<1>14. \A i \in 0 .. 13 : h[i] \in State
  BY <1>11, <1>12, Unshifted
<1>15. ASSUME NEW i \in 1 .. 13
       PROVE  h[i] = B[i][h[i - 1]]
  <2>1. PICK k \in 1 .. 13 : k = 14 - i /\ k - 1 = 13 - i /\ k = 13 - (i - 1)
    OBVIOUS
  <2> DEFINE z == ShiftRows(SubBytes(g[k - 1]))
             a == MixColumns(z)
  <2>2. g[k] = AddRoundKey(a, RoundKey(w, k)) /\ g[k] \in State /\ g[k - 1] \in State
    <3>1. g[k] = F[k][g[k - 1]] /\ g[k - 1] \in State /\ g[k] \in State
      BY <1>9, <1>11 DEF Reaches
    <3> QED
      BY <1>2, <3>1
  <2>3. h[i - 1] = ShiftRows(SubBytes(g[k])) /\ h[i] = z /\ h[i - 1] \in State
    BY <1>12, <1>14, <2>1
  <2>4. InvSubBytes(InvShiftRows(h[i - 1])) = g[k]
    BY <2>2, <2>3, Unshifted
  <2>5. z \in State /\ a \in State /\ InvMixColumns(a) = z /\ RoundKey(w, k) \in State
    BY <1>1, <2>2, Unshifted, UnmixedColumns
  <2> HIDE DEF z, a
  <2>6. AddRoundKey(g[k], RoundKey(w, k)) = a
    BY <2>2, <2>5, AddedTwice
  <2>7. B[i][h[i - 1]] =
          InvMixColumns(AddRoundKey(InvSubBytes(InvShiftRows(h[i - 1])), RoundKey(w, k)))
    BY <1>3, <2>1, <2>3
  <2> QED
    BY <2>3, <2>4, <2>5, <2>6, <2>7
<1>16. h[0] = ShiftRows(SubBytes(y)) /\ h[13] = ShiftRows(SubBytes(x))
  BY <1>10, <1>11, <1>12
<1>17. Reaches(S, B, ShiftRows(SubBytes(y)), 13, h)
  BY <1>4, <1>13, <1>14, <1>15, <1>16 DEF Reaches
<1>18. InvCipherLoop(w, 14, ShiftRows(SubBytes(y)), 13) = h[13]
  BY <1>5, <1>8, <1>17, InvCipherRuns
<1> QED
  BY <1>10, <1>11, <1>16, <1>18

LEMMA CipherUndone ==
  ASSUME NEW w, Whole(w), NEW b \in State
  PROVE  /\ Cipher(b, w, Rounds) \in State
         /\ InvCipher(Cipher(b, w, Rounds), w, Rounds) = b
<1> DEFINE x == AddRoundKey(b, RoundKey(w, 0))
           y == CipherLoop(w, x, 13)
           c == AddRoundKey(ShiftRows(SubBytes(y)), RoundKey(w, 14))
<1>1. RoundKey(w, 0) \in State /\ RoundKey(w, 14) \in State
  <2>1. 0 \in 0 .. 14 /\ 14 \in 0 .. 14
    OBVIOUS
  <2> QED
    BY <2>1, SixtyWords
<1>2. Rounds = 14 /\ Rounds - 1 = 13
  BY DEF Rounds
<1>3. x \in State /\ AddRoundKey(x, RoundKey(w, 0)) = b
  BY <1>1, AddedTwice
<1>4. Cipher(b, w, Rounds)
      = AddRoundKey(ShiftRows(SubBytes(CipherLoop(w, x, Rounds - 1))), RoundKey(w, Rounds))
  BY DEF Cipher, CipherLoop
<1>5. Cipher(b, w, Rounds) = c
  BY <1>2, <1>4
<1>6. InvCipher(c, w, Rounds)
      = AddRoundKey(
          InvSubBytes(InvShiftRows(
            InvCipherLoop(w, Rounds, AddRoundKey(c, RoundKey(w, Rounds)), Rounds - 1))),
          RoundKey(w, 0))
  BY DEF InvCipher, InvCipherLoop
<1> HIDE DEF x
<1>7. y \in State /\ InvCipherLoop(w, 14, ShiftRows(SubBytes(y)), 13) = ShiftRows(SubBytes(x))
  BY <1>3, InverseLoopIs
<1> HIDE DEF y
<1>8. ShiftRows(SubBytes(y)) \in State
  BY <1>7, Unshifted
<1>9. c \in State /\ AddRoundKey(c, RoundKey(w, 14)) = ShiftRows(SubBytes(y))
  BY <1>1, <1>8, AddedTwice
<1> HIDE DEF c
<1>10. InvSubBytes(InvShiftRows(ShiftRows(SubBytes(x)))) = x
  BY <1>3, Unshifted
<1> QED
  BY <1>2, <1>3, <1>5, <1>6, <1>7, <1>9, <1>10

\* Encrypting and decrypting a block with the tables that create_tables leaves
\* gives the block back, for every 256-bit key and whatever the block is
\* chained to, which is what AesStream assumes of the cipher (process_chunk in
\* aes256_encrypt.cpp and aes256_decrypt.cpp).
THEOREM BlocksComeBack ==
  ASSUME NEW key \in Seq(Word), Len(key) = 8, NEW iv \in State, NEW block \in State,
         NEW w, w = ExtractEncryptKey256(Tables(Loop), key),
         NEW u, u = ExtractDecryptKey(Tables(Loop), w, Rounds)
  PROVE  LET c == EncryptChunk(Tables(Loop), w, iv, block) IN
           c \in State /\ DecryptChunk(Tables(Loop), u, iv, c) = block
<1> DEFINE b == AddRoundKey(iv, block)
           c == Cipher(b, w, Rounds)
<1>1. PICK t : t = Tables(Loop) /\ Hold(t)
  BY TablesAssumption
<1>2. Whole(w)
  <2>1. w \in Schedule(8, key, 60)
    BY <1>1, Extract256Is
  <2> QED
    BY <2>1 DEF Schedule, Whole
<1>3. b \in State /\ AddRoundKey(iv, b) = block
  BY AddedTwice
<1> HIDE DEF b
<1>4. c \in State /\ InvCipher(c, w, Rounds) = b
  BY <1>2, <1>3, CipherUndone
<1>5. EncryptChunk(t, w, iv, block) = c
  BY <1>1, <1>2, EncryptChunkIs DEF b
<1> HIDE DEF c
<1>6. DecryptChunk(t, u, iv, c) = AddRoundKey(iv, InvCipher(c, w, Rounds))
  BY <1>1, <1>2, <1>4, DecryptChunkIs
<1> QED
  BY <1>1, <1>3, <1>4, <1>5, <1>6
=============================================================================
