------------------------- MODULE VFSArchiveHistory -------------------------
(***************************************************************************)
(* VFSArchive with a history of what its clients were told: which files    *)
(* they were told are stored, and with which content.  Only the property   *)
(* below reads the history; the steps are those of VFSArchive, together    *)
(* with the Write that returns early and changes nothing there.            *)
(***************************************************************************)
EXTENDS VFSArchive

VARIABLE
  asked \* index -> the content of the last successful Write, Junk after a
        \* WriteRawData, None if the file is not to be there

hvars == <<vars, asked>>

Asking(i, c) == asked' = [asked EXCEPT ![i] = c]

HistInit == Init /\ asked = [i \in Index \cup {0} |-> None]

\* Write finds the hash it looks for and returns true.  What a raw record
\* holds behind its hash, nobody knows.
SkippedWrite(i, c) ==
  /\ Writable /\ Deduped(i, c)
  /\ Asking(i, IF asked[i] = Junk THEN Junk ELSE c)
  /\ UNCHANGED vars

HistNext ==
  \/ \E i \in Index, c \in Content, fl \in FlagSets :
       Write(i, c, fl) /\ Asking(i, c)
  \/ \E i \in Index, c \in Content : SkippedWrite(i, c)
  \/ \E r \in Raw : WriteRawData(r) /\ Asking(r.index, Junk)
  \/ \E i \in Index : Delete(i) /\ Asking(i, None)
  \/ \E k \in Key : /\ CreateArchive(FALSE, k)
                    /\ asked' = [i \in Index \cup {0} |-> None]
  \/ /\ \/ \E k \in Key : CreateArchive(TRUE, k) \/ OpenArchive(k)
        \/ Unload
        \/ Steps
     /\ UNCHANGED asked

HistSpec == HistInit /\ [][HistNext]_hvars

\* A call that was entered runs on: its thread is scheduled again.
FairHistSpec == HistSpec /\ WF_vars(Steps)

\* Over any sequence of complete calls and sessions a loaded archive lists
\* just the files that were written and not deleted since, and each of them
\* decodes to the content of the last Write that returned true, the Writes
\* that were skipped as duplicates included (Write, Delete, Load, Open).  The
\* exceptions are a name whose hash is 0, which a later Load takes for a free
\* extent, and the content of a record that came through WriteRawData.
WrittenIsRead ==
  pc = "idle" /\ mode # "NONE" =>
    /\ DOMAIN files \ {0} = {i \in Index \ {0} : asked[i] # None}
    /\ \A i \in DOMAIN files : asked[i] = Junk \/ ReadBack(i) = asked[i]
=============================================================================
