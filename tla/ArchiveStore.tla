---------------------------- MODULE ArchiveStore ----------------------------
(***************************************************************************)
(* What one VFS archive promises to its clients, without any disk layout:  *)
(* a map from name indexes to file contents in which a replacement first   *)
(* retires the old content and then publishes the new one, if its record   *)
(* is a sound one, and in which a crash or an unsound record can lose at   *)
(* most the file that was being replaced.                                  *)
(***************************************************************************)
CONSTANTS
  Index,      \* name indexes (GenerateNameIndex)
  Content,    \* file contents
  HashOf,     \* [Content -> hash]: XXH32 of a content
  Hash,       \* the hashes a new record may announce, of a content or not
  None        \* no content, or no replacement in progress

VARIABLES
  store,      \* [Index -> Content \cup {None}]: what can be read back
  busy        \* the replacement in progress: [index, hash], or None

svars == <<store, busy>>

StoreInit ==
  /\ store = [i \in Index |-> None]
  /\ busy = None

\* A file is deleted.
Drop(i) ==
  /\ busy = None
  /\ store' = [store EXCEPT ![i] = None]
  /\ UNCHANGED busy

\* A replacement of file i by a record of hash h starts: the old one goes.
Replace(i, h) ==
  /\ busy = None
  /\ store' = [store EXCEPT ![i] = None]
  /\ busy' = [index |-> i, hash |-> h]

\* The new content becomes readable; it has the announced hash.
Publish(c) ==
  /\ busy # None
  /\ HashOf[c] = busy.hash
  /\ store' = [store EXCEPT ![busy.index] = c]
  /\ busy' \in {busy, None}

\* The replacement ends, or a crash cuts it short.  The file may be unreadable
\* then, if the record had no payload to go with it; no other one is touched.
EndReplace ==
  /\ busy # None
  /\ busy' = None
  /\ store' \in {store, [store EXCEPT ![busy.index] = None]}

\* The archive file is created anew.
Erase ==
  /\ busy = None
  /\ store' = [i \in Index |-> None]
  /\ UNCHANGED busy

StoreNext ==
  \/ \E i \in Index : Drop(i)
  \/ \E i \in Index, h \in Hash : Replace(i, h)
  \/ \E c \in Content : Publish(c)
  \/ EndReplace
  \/ Erase

StoreSpec == StoreInit /\ [][StoreNext]_svars
=============================================================================
