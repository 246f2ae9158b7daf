--------------------------- MODULE MCVFSArchive ---------------------------
(***************************************************************************)
(* Small instances of VFSArchive: a block of 4 bytes, a header of 1 byte,  *)
(* an entry of 2 bytes, a cipher block of 2 bytes.                         *)
(***************************************************************************)
EXTENDS VFSArchive, TLC

CONSTANTS c1, c2

\* c1 does not compress; with its 2 bytes an entry fills a block exactly,
\* which ALIGNTO turns into two blocks, while a freed block still takes it.
\* c2 needs two blocks plain or compressed and encrypted, one compressed.
MCRawSize == (c1 :> 2) @@ (c2 :> 5)
MCLz4Size == (c1 :> 0) @@ (c2 :> 1)

MCHashOf == (c1 :> 11) @@ (c2 :> 12)

MCFlagSets == {{}, {"LZ4"}, {"LZ4", "AES256"}}
MCFewFlagSets == {{"LZ4"}, {"LZ4", "AES256"}}

\* Buffers for WriteRawData: a sound record, one with c1's hash in front of
\* bytes that are no payload, and one whose entry says it is empty.
MCRaw ==
  {[index |-> 1, hash |-> 12, flags |-> {}, size |-> 5,
    blob |-> [content |-> c2, flags |-> {}, key |-> None]],
   [index |-> 1, hash |-> 11, flags |-> {}, size |-> 2, blob |-> Junk],
   [index |-> 2, hash |-> 0, flags |-> {}, size |-> 0, blob |-> Junk]}
MCNoRaw == {}
=============================================================================
