------------------------------ MODULE Archiver ------------------------------
(***************************************************************************)
(* The archiver program: it reads its configuration, packs every group of  *)
(* it into an archive of its own, the groups in parallel, and looks at     *)
(* what it packed.  It may be run again and again, and what it left on the *)
(* disk, complete or not, is there the next time.                          *)
(*                                                                         *)
(* The worker tasks of the groups interleave file by file, and where they  *)
(* encrypt, step by step of the constructor of each file's cipher; a task  *)
(* that fails aborts the process between any two steps of the others, one  *)
(* that throws lets them finish.                                           *)
(***************************************************************************)
EXTENDS Naturals, FiniteSets

CONSTANTS
  Group,     \* the groups of the configuration
  Place,     \* the names of archive files
  FileOf,    \* [Group -> Place]: "file"
  Source,    \* the files to pack
  SourcesOf, \* [Group -> SUBSET Source]: what "dir" holds, when it is read
  Size,      \* [Source -> Nat]
  ContentOf, \* [Source -> content]
  Index,     \* name indexes
  IndexOf,   \* [Source -> Index]: of the patched name behind "visualdir"
  Ignored,   \* the sources whose patched name a pattern of "ignores" matches
  Encrypted, \* the groups whose "type" has FLAG_CRYPTED_AES256
  Checks,    \* what main's comparisons of its own constants may come to
  Garbled,   \* what a cipher writes whose tables are not all there
  Old,       \* an archive the archiver did not make
  None

ASSUME ConfigAssumption ==
  /\ FileOf \in [Group -> Place] /\ SourcesOf \in [Group -> SUBSET Source]
  /\ \A g, h \in Group : g # h => SourcesOf[g] \cap SourcesOf[h] = {}
  /\ Size \in [Source -> Nat] /\ IndexOf \in [Source -> Index]
  /\ Ignored \subseteq Source /\ Encrypted \subseteq Group /\ Checks \subseteq BOOLEAN
  /\ None \notin Source /\ Garbled \notin Source \cup {None}
  /\ {None, Old} \cap [Index -> Source \cup {None, Garbled}] = {}
  /\ None \notin {"failure", "abort", "success"}

VARIABLES
  disk,    \* place -> index -> the source its tables say is packed there; or Old, or None
  phase,   \* "config", "pack" or "exit"
  task,    \* what the task of each group has come to
  todo,    \* what it has still to pack
  status,  \* how the process ended, None while it runs
  threw,   \* an exception came out of a task
  spoilt,  \* the groups of this run of whose archive the file has not all
  writing, \* group -> the source that is being encrypted, or None
  filled, created, at  \* of AesTables

INSTANCE AesTables WITH User <- Group

tables == <<filled, created, at>>
vars == <<disk, phase, task, todo, status, threw, spoilt, writing, tables>>

Nothing == [i \in Index |-> None]
Archives == [Index -> Source \cup {None, Garbled}]
Packs(g) == SourcesOf[g] \ Ignored

Init ==
  /\ disk \in [Place -> {None, Old}]
  /\ phase = "config"
  /\ task = [g \in Group |-> "wait"]
  /\ todo = [g \in Group |-> {}]
  /\ status = None /\ threw = FALSE /\ spoilt = {}
  /\ writing = [g \in Group |-> None] /\ TablesInit

Exit(s) == phase' = "exit" /\ status' = s

\* The configuration is refused if an archive file is there already.  The key,
\* the magic number and the vector are compared with what they should be; when
\* one is not, the process ends, and says success.
InitializeConfigFile ==
  /\ phase = "config"
  /\ IF \E g \in Group : disk[FileOf[g]] # None
       THEN Exit("failure")
       ELSE \E same \in Checks :
              IF same THEN phase' = "pack" /\ UNCHANGED status ELSE Exit("success")
  /\ UNCHANGED <<disk, task, todo, threw, spoilt, writing, tables>>

Abort == Exit("abort") /\ UNCHANGED <<disk, task, todo, threw, spoilt, writing, tables>>

\* A write to the archive of g fails or not, and nobody asks; nor does anyone
\* ask whether the cipher caught an exception and gave back nothing.
Written(g) == spoilt' \in {spoilt, spoilt \cup {g}}

\* Another task has the file open to write.
BugTaken(g) == FALSE
Taken(g) == \E h \in Group : FileOf[h] = FileOf[g] /\ task[h] = "add"

\* The archive file is created, which empties one that is there.
BeginGroup(g) ==
  /\ phase = "pack" /\ task[g] = "wait"
  /\ IF Taken(g)
       THEN Abort
       ELSE /\ disk' = [disk EXCEPT ![FileOf[g]] = Nothing]
            /\ task' = [task EXCEPT ![g] = "add"]
            /\ todo' = [todo EXCEPT ![g] = SourcesOf[g]]
            /\ Written(g)
            /\ UNCHANGED <<phase, status, threw, writing, tables>>

\* Between two files.
Idle(g) == phase = "pack" /\ task[g] = "add" /\ writing[g] = None

Done(g, s) == todo' = [todo EXCEPT ![g] = @ \ {s}]

BugSkip(g, s) ==
  /\ Idle(g)
  /\ s \in Ignored \/ Size[s] = 0
  /\ todo' = [todo EXCEPT ![g] = {}]
  /\ UNCHANGED <<disk, phase, task, status, threw, spoilt, writing, tables>>
\* A file that a pattern matches or that is empty is passed over.
Skip(g, s) ==
  /\ Idle(g)
  /\ s \in Ignored \/ Size[s] = 0
  /\ Done(g, s)
  /\ UNCHANGED <<disk, phase, task, status, threw, spoilt, writing, tables>>

\* The archive has the same content under the name already.
Has(g, s) ==
  LET old == disk[FileOf[g]][IndexOf[s]] IN
    old \in Source /\ ContentOf[old] = ContentOf[s]

Store(g, s, what) == disk' = [disk EXCEPT ![FileOf[g]][IndexOf[s]] = what]

Add(g, s) ==
  /\ Idle(g)
  /\ s \notin Ignored /\ Size[s] # 0
  /\ Has(g, s) \/ g \notin Encrypted
  /\ IF Has(g, s) THEN UNCHANGED <<disk, spoilt>> ELSE Store(g, s, s) /\ Written(g)
  /\ Done(g, s)
  /\ UNCHANGED <<phase, task, status, threw, writing, tables>>

\* The content is encrypted before the archive is touched, by an object of
\* its own.
Encrypt(g, s) ==
  /\ Idle(g) /\ g \in Encrypted
  /\ s \notin Ignored /\ Size[s] # 0 /\ ~Has(g, s)
  /\ Construct(g)
  /\ writing' = [writing EXCEPT ![g] = s]
  /\ UNCHANGED <<disk, phase, task, todo, status, threw, spoilt>>

Prepare(g) ==
  /\ phase = "pack" /\ task[g] = "add"
  /\ CreateTables(g) \/ SetCreated(g)
  /\ UNCHANGED <<disk, phase, task, todo, status, threw, spoilt, writing>>

Seal(g) ==
  /\ phase = "pack" /\ task[g] = "add"
  /\ Release(g)
  /\ Store(g, writing[g], IF filled = Loop THEN writing[g] ELSE Garbled)
  /\ Written(g)
  /\ Done(g, writing[g])
  /\ writing' = [writing EXCEPT ![g] = None]
  /\ UNCHANGED <<phase, task, status, threw>>

\* The archive cannot be created, or a source not be opened or read.
Fail(g) ==
  /\ phase = "pack" /\ (task[g] = "wait" \/ (Idle(g) /\ todo[g] \ Ignored # {}))
  /\ Abort

\* Walking the directory throws: the archive is closed as it is.
Throw(g) ==
  /\ Idle(g)
  /\ task' = [task EXCEPT ![g] = "thrown"] /\ threw' = TRUE
  /\ UNCHANGED <<disk, phase, todo, status, spoilt, writing, tables>>

\* After that the tasks that have not begun may be cancelled.
Cancel(g) ==
  /\ phase = "pack" /\ threw /\ task[g] = "wait"
  /\ task' = [task EXCEPT ![g] = "cancelled"]
  /\ UNCHANGED <<disk, phase, todo, status, threw, spoilt, writing, tables>>

EndGroup(g) ==
  /\ Idle(g) /\ todo[g] = {}
  /\ task' = [task EXCEPT ![g] = "done"]
  /\ UNCHANGED <<disk, phase, todo, status, threw, spoilt, writing, tables>>

BugReturn ==
  /\ phase = "pack" /\ \A g \in Group : task[g] = "done"
  /\ Exit("success")
  /\ UNCHANGED <<disk, task, todo, threw, spoilt, writing, tables>>
\* parallel_for returns: the archives are loaded and listed, which changes
\* nothing, or the exception is logged; the status says success both times.
Return ==
  /\ phase = "pack" /\ \A g \in Group : task[g] \notin {"wait", "add"}
  /\ Exit("success")
  /\ UNCHANGED <<disk, task, todo, threw, spoilt, writing, tables>>

\* The program is started again, with or without some archive files.
Again ==
  /\ phase = "exit"
  /\ \E gone \in SUBSET Place :
       disk' = [p \in Place |-> IF p \in gone THEN None ELSE disk[p]]
  /\ phase' = "config" /\ status' = None /\ threw' = FALSE /\ spoilt' = {}
  /\ task' = [g \in Group |-> "wait"] /\ todo' = [g \in Group |-> {}]
  /\ writing' = [g \in Group |-> None] /\ Renew

Task(g) ==
  \/ BeginGroup(g) \/ Fail(g) \/ Throw(g) \/ Cancel(g) \/ EndGroup(g)
  \/ \E s \in todo[g] : Skip(g, s) \/ Add(g, s) \/ Encrypt(g, s)
  \/ Prepare(g) \/ Seal(g)

Next == InitializeConfigFile \/ (\E g \in Group : Task(g)) \/ Return \/ Again

\* The workers run every task they begin, and so does main.
Spec ==
  Init /\ [][Next]_vars /\ WF_vars(Return) /\ \A g \in Group : WF_vars(Task(g))

-----------------------------------------------------------------------------
(* Properties *)

TypeOK ==
  /\ disk \in [Place -> Archives \cup {Old, None}]
  /\ phase \in {"config", "pack", "exit"}
  /\ task \in [Group -> {"wait", "add", "done", "thrown", "cancelled"}]
  /\ todo \in [Group -> SUBSET Source]
  /\ status \in {None, "failure", "abort", "success"} /\ (status = None <=> phase # "exit")
  /\ threw \in BOOLEAN /\ spoilt \subseteq Group
  /\ writing \in [Group -> Source \cup {None}]
  /\ filled \subseteq Loop /\ created \in BOOLEAN
  /\ at \in [Group -> Loop \cup {"none", "flag", "ready"}]

\* The archive of g holds, for each file that is to be packed, a file of g
\* that goes by the same name, and nothing that was to be left out.
Packed(g) ==
  LET archive == disk[FileOf[g]]
      wanted == {s \in Packs(g) : Size[s] # 0} IN
    /\ \A s \in wanted : archive[IndexOf[s]] \in wanted
    /\ \A i \in Index : archive[i] # None => archive[i] \in wanted

Shares(g) == \E h \in Group \ {g} : FileOf[h] = FileOf[g]

\* A task that is done has packed its group, whatever became of the others,
\* unless another group has its file too or a write to the archive was lost,
\* which the code does not notice.  And a process that says success has done
\* all tasks or, without saying so, none, for a constant that was not as it
\* should be, or not those that an exception ended.
SuccessMeansPacked ==
  /\ \A g \in Group : task[g] = "done" => Shares(g) \/ g \in spoilt \/ Packed(g)
  /\ status = "success" =>
       \/ threw \/ \A g \in Group : task[g] = "done"
       \/ FALSE \in Checks /\ \A g \in Group : task[g] = "wait"

\* Groups that were given the same file never mix: one of them is lost whole.
NeverMixed ==
  \A p \in Place :
    disk[p] \in Archives =>
      \E g \in Group : \A i \in Index : disk[p][i] \in SourcesOf[g] \cup {None}

\* No task encrypts while a table is unfinished, whoever fills them.
TablesReady == \A g \in Group : at[g] = "ready" => filled = Loop

\* Every run of the program comes to an end: to its exit status, that is; it
\* then waits for a key.
RunEnds == phase = "pack" ~> phase = "exit"
=============================================================================
