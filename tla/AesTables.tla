----------------------------- MODULE AesTables -----------------------------
(***************************************************************************)
(* How the objects of VFSCryptLib share its static tables: the constructor *)
(* that finds them not created fills them, loop by loop, and raises a flag *)
(* that no lock guards, so several threads may fill them at once.  Every   *)
(* store is of a final value: to fill a table again changes nothing.       *)
(***************************************************************************)
CONSTANT User  \* the threads, of which each has one object at a time

VARIABLES
  filled,   \* the loops of create_tables that have run
  created,  \* is_tables_created
  at        \* thread -> "none", the loop it runs next, "flag", or "ready"

Loop == {"rcon", "sbox", "mix"}

TablesInit == filled = {} /\ created = FALSE /\ at = [u \in User |-> "none"]

BugConstruct(u) ==
  /\ at[u] = "none"
  /\ at' = [at EXCEPT ![u] = IF created THEN "ready" ELSE "rcon"]
  /\ created' = TRUE
  /\ UNCHANGED filled
\* The constructor looks at the flag ...
Construct(u) ==
  /\ at[u] = "none"
  /\ at' = [at EXCEPT ![u] = IF created THEN "ready" ELSE "rcon"]
  /\ UNCHANGED <<filled, created>>

After(loop) ==
  CASE loop = "rcon" -> "sbox" [] loop = "sbox" -> "mix" [] loop = "mix" -> "flag"

\* ... runs the loops ...
CreateTables(u) ==
  /\ at[u] \in Loop
  /\ filled' = filled \cup {at[u]}
  /\ at' = [at EXCEPT ![u] = After(at[u])]
  /\ UNCHANGED created

\* ... and raises the flag.
SetCreated(u) ==
  /\ at[u] = "flag"
  /\ created' = TRUE
  /\ at' = [at EXCEPT ![u] = "ready"]
  /\ UNCHANGED filled

\* The object has done its work and goes.
Release(u) ==
  /\ at[u] = "ready"
  /\ at' = [at EXCEPT ![u] = "none"]
  /\ UNCHANGED <<filled, created>>

\* Another process has tables of its own.
Renew == filled' = {} /\ created' = FALSE /\ at' = [u \in User |-> "none"]
=============================================================================
