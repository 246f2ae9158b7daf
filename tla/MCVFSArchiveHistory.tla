------------------------ MODULE MCVFSArchiveHistory ------------------------
(***************************************************************************)
(* The small instances of MCVFSArchive, with the history.                  *)
(***************************************************************************)
EXTENDS MCVFSArchive, VFSArchiveHistory
=============================================================================
