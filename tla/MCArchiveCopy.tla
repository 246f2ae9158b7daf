--------------------------- MODULE MCArchiveCopy ---------------------------
(***************************************************************************)
(* Two or three files.  The bytes of each follow its entry, which starts a *)
(* block: they never start where a view may.                               *)
(***************************************************************************)
EXTENDS ArchiveCopy

MCOffset == [i \in Index |-> Granule * i + 1]
=============================================================================
