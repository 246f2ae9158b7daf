----------------------------- MODULE MCArchiver -----------------------------
(***************************************************************************)
(* Three groups, two of which are given the same archive file.  The third  *)
(* one has three sources of one name, two of them with the same content,   *)
(* one source that is empty and one that is ignored.  Of those that share  *)
(* a file one encrypts, and so does the third.                             *)
(*                                                                         *)
(* The sample is the key and the plain text of FIPS-197, appendix C; the   *)
(* key begins with the bytes of ARCHIVE_IV.                                *)
(***************************************************************************)
EXTENDS SealedArchiver, TLC

CONSTANTS g1, g2, g3, p1, p2, s1, s2, s3, s4, s5, s6, s7

MCFileOf == (g1 :> p1) @@ (g2 :> p1) @@ (g3 :> p2)
MCSourcesOf == (g1 :> {s1}) @@ (g2 :> {s2}) @@ (g3 :> {s3, s4, s5, s6, s7})
MCSize == [s \in Source |-> IF s = s6 THEN 0 ELSE 1]
MCContent == [s \in Source |-> IF s = s4 THEN s3 ELSE s]
MCIndex == [s \in Source |-> IF s \in {s2, s6, s7} THEN 2 ELSE 1]
MCSample ==
  <<<<0, 1, 2, 3>>, <<4, 5, 6, 7>>, <<8, 9, 10, 11>>, <<12, 13, 14, 15>>,
    <<16, 17, 18, 19>>, <<20, 21, 22, 23>>, <<24, 25, 26, 27>>, <<28, 29, 30, 31>>,
    <<0, 17, 34, 51>>, <<68, 85, 102, 119>>, <<136, 153, 170, 187>>, <<204, 221, 238, 255>>>>
MCIv == SubSeq(MCSample, 1, 4)
=============================================================================
