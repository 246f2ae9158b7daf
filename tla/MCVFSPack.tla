---------------------------- MODULE MCVFSPack ----------------------------
(***************************************************************************)
(* Small packs for TLC: one archive file in a directory the system spells  *)
(* in two ways, named by its absolute path, by that path with forward      *)
(* slashes or by a relative name; and two files that two clients load,     *)
(* find and unload.                                                        *)
(***************************************************************************)
EXTENDS VFSPack

CONSTANTS low, mixed, slashed, fileA, fileB

MCLowerDir == (low :> low) @@ (mixed :> low)
MCOneLowerDir == (low :> low)
MCMeans == (slashed :> low)
MCMeansNothing == <<>>

AllOfA == [dir : {low, slashed, Rel}, base : {fileA}]
AbsoluteAB == [dir : {low}, base : {fileA, fileB}]
Symmetric == Permutations(Archive) \cup Permutations(Thread)
=============================================================================
