---------------------------- MODULE UploadCache ----------------------------
(***************************************************************************)
(* UploadCache.put and its readers (scripts/obt/net/upload_cache.py) for   *)
(* one content hash. Worker threads (job outputs), the control thread      *)
(* (upload_file) and the fetch thread (blob_put, tree_manifest) share the  *)
(* cache without a lock; two of them may put the same content.             *)
(* A name refers to an inode, and an open file follows the inode, not the  *)
(* name: os.replace moves a name under the hands of another writer.        *)
(***************************************************************************)
EXTENDS FiniteSets

CONSTANTS
  Putters,    \* threads that may call put with this content
  Readers,    \* threads that may read the blob
  Inodes,     \* inodes of the file system
  NoFile      \* no inode

ASSUME CacheAssumption == NoFile \notin Inodes

VARIABLES
  tmp,      \* inode named <sha>.tmp
  blob,     \* inode named <sha>
  data,     \* data[i]: "torn" (truncated, incomplete) or "whole"
  sidecar,  \* does <sha>.json exist
  pc,       \* where each putter is
  fd,       \* inode each putter has open
  got,      \* what each reader read last
  cut    \* has a put been cut short, by a kill or a failing write

cacheVars == <<tmp, blob, data, sidecar, pc, fd, got, cut>>

InUse == {tmp, blob} \cup {fd[p] : p \in Putters}

Goto(p, to) == pc' = [pc EXCEPT ![p] = to]

(* if not p.exists()                                                       *)
PutCheck(p) ==
  /\ pc[p] = "idle"
  /\ Goto(p, IF blob = NoFile THEN "open" ELSE "idle")
  /\ UNCHANGED <<tmp, blob, data, sidecar, fd, got, cut>>

(* write_bytes opens <sha>.tmp for writing: created, or truncated in place *)
(* if another putter has it.                                               *)
PutOpen(p) ==
  /\ pc[p] = "open"
  /\ \E i \in Inodes :
       /\ IF tmp = NoFile THEN i \notin InUse ELSE i = tmp
       /\ tmp' = i
       /\ fd' = [fd EXCEPT ![p] = i]
       /\ data' = [data EXCEPT ![i] = "torn"]
  /\ Goto(p, "write")
  /\ UNCHANGED <<blob, sidecar, got, cut>>

\* Fault: a short write is not noticed.
PutWriteShort(p) ==
  /\ pc[p] = "write"
  /\ fd' = [fd EXCEPT ![p] = NoFile]
  /\ Goto(p, "replace")
  /\ UNCHANGED <<tmp, blob, data, sidecar, got, cut>>

PutWrite(p) ==
  /\ pc[p] = "write"
  /\ data' = [data EXCEPT ![fd[p]] = "whole"]
  /\ fd' = [fd EXCEPT ![p] = NoFile]
  /\ Goto(p, "replace")
  /\ UNCHANGED <<tmp, blob, sidecar, got, cut>>

(* The write fails, on a full disk for one: what was written stays.        *)
PutFails(p) ==
  /\ pc[p] = "write"
  /\ fd' = [fd EXCEPT ![p] = NoFile]
  /\ cut' = TRUE
  /\ Goto(p, "failed")
  /\ UNCHANGED <<tmp, blob, data, sidecar, got>>

\* Fault: the loser cleans up, and removes what is published.
PutReplaceUnlinks(p) ==
  /\ pc[p] = "replace"
  /\ tmp' = NoFile
  /\ IF tmp = NoFile
       THEN Goto(p, "raised") /\ blob' = NoFile
       ELSE Goto(p, "sidecar") /\ blob' = tmp
  /\ UNCHANGED <<data, sidecar, fd, got, cut>>

(* os.replace raises FileNotFoundError when the name has gone.             *)
PutReplace(p) ==
  /\ pc[p] = "replace"
  /\ IF tmp = NoFile
       THEN Goto(p, "raised") /\ UNCHANGED <<tmp, blob>>
       ELSE Goto(p, "sidecar") /\ blob' = tmp /\ tmp' = NoFile
  /\ UNCHANGED <<data, sidecar, fd, got, cut>>

PutSidecar(p) ==
  /\ pc[p] = "sidecar"
  /\ sidecar' = TRUE
  /\ Goto(p, "idle")
  /\ UNCHANGED <<tmp, blob, data, fd, got, cut>>

(* The caller handles the exception: the job fails, the request errs.      *)
PutRaised(p) ==
  /\ pc[p] \in {"raised", "failed"}
  /\ Goto(p, "idle")
  /\ UNCHANGED <<tmp, blob, data, sidecar, fd, got, cut>>

Put(p) ==
  PutOpen(p) \/ PutWrite(p) \/ PutReplace(p) \/ PutSidecar(p) \/ PutRaised(p)

(* has() and then get, materialize or fetch_chunk.                         *)
Get(r) ==
  /\ blob # NoFile
  /\ got' = [got EXCEPT ![r] = data[blob]]
  /\ UNCHANGED <<tmp, blob, data, sidecar, pc, fd, cut>>

(* The node is killed and started again; names, inodes and data stay.      *)
Crash ==
  /\ \E p \in Putters : pc[p] # "idle"
  /\ cut' = TRUE
  /\ pc' = [p \in Putters |-> "idle"]
  /\ fd' = [p \in Putters |-> NoFile]
  /\ UNCHANGED <<tmp, blob, data, sidecar, got>>

CacheInit ==
  /\ tmp = NoFile
  /\ blob = NoFile
  /\ data = [i \in Inodes |-> "torn"]
  /\ sidecar = FALSE
  /\ pc = [p \in Putters |-> "idle"]
  /\ fd = [p \in Putters |-> NoFile]
  /\ got = [r \in Readers |-> "nothing"]
  /\ cut = FALSE

CacheNext ==
  \/ \E p \in Putters : PutCheck(p) \/ Put(p) \/ PutFails(p)
  \/ \E r \in Readers : Get(r)
  \/ Crash

CacheSpec == CacheInit /\ [][CacheNext]_cacheVars

(* A put that has begun is carried through (PutCheck is the caller's own   *)
(* decision and has no fairness).                                          *)
CacheFairSpec == CacheSpec /\ \A p \in Putters : WF_cacheVars(Put(p))

-----------------------------------------------------------------------------
(* Properties *)

CacheTypeOK ==
  /\ {tmp, blob} \subseteq Inodes \cup {NoFile}
  /\ data \in [Inodes -> {"torn", "whole"}]
  /\ sidecar \in BOOLEAN
  /\ pc \in [Putters -> {"idle", "open", "write", "replace", "sidecar", "raised", "failed"}]
  /\ fd \in [Putters -> Inodes \cup {NoFile}]
  /\ \A p \in Putters : fd[p] # NoFile <=> pc[p] = "write"
  /\ got \in [Readers -> {"nothing", "torn", "whole"}]
  /\ cut \in BOOLEAN

(* upload_cache.py:37 "atomic publish": whatever is found under the hash   *)
(* is the complete content, at every moment and after a kill.              *)
AtomicPublish ==
  blob # NoFile => data[blob] = "whole"

(* What the race can do to a reader is bounded in time: a published blob   *)
(* is torn only while a putter still has that very inode open and is about *)
(* to complete it, or after a put was cut short.                           *)
TornOnlyWhileWritten ==
  ~cut /\ blob # NoFile /\ data[blob] = "torn" => \E p \in Putters : fd[p] = blob

(* A put that finds its temporary file gone raises only if the content has *)
(* been published: the loser fails, but the blob its caller wanted is      *)
(* there.                                                                  *)
RaisedOnlyIfPublished ==
  \A p \in Putters : pc[p] = "raised" => blob # NoFile

(* The temporary name and the published name never share an inode, so a    *)
(* put that begins now cannot truncate what is already published.          *)
NamesDisjoint ==
  tmp # NoFile => tmp # blob

(* Unless a put is cut short the damage is transient: the putter that      *)
(* truncated the file completes it in place.                                             *)
EventuallyWhole ==
  blob # NoFile ~> cut \/ (blob # NoFile /\ data[blob] = "whole")
=============================================================================
