---------------------------- MODULE CacheProofs ----------------------------
(***************************************************************************)
(* Proofs about the two ways into the cache of a node: UploadCache, the    *)
(* put of a thread of the node itself, and BlobPut, the chunked upload of  *)
(* a client. They hold for any number of threads, clients, chunks, inodes  *)
(* and faults.                                                             *)
(***************************************************************************)
EXTENDS UploadCache, BlobPut, TLAPS

(* What is under <sha>.tmp is being written as well, while it is torn: it  *)
(* may be moved to the published name at any moment.                       *)
TmpHeld ==
  ~cut /\ tmp # NoFile /\ data[tmp] = "torn" => \E p \in Putters : fd[p] = tmp

(* From its open to its replace a put has its file under one of the names. *)
PutNamed ==
  \A p \in Putters : pc[p] \in {"write", "replace"} => tmp # NoFile \/ blob # NoFile

CacheInv ==
  /\ CacheTypeOK /\ NamesDisjoint /\ TornOnlyWhileWritten /\ RaisedOnlyIfPublished
  /\ TmpHeld /\ PutNamed

LEMMA CacheInitInv == CacheInit => CacheInv
<1> SUFFICES ASSUME CacheInit PROVE CacheInv
  OBVIOUS
<1>1. CacheTypeOK
  BY DEF CacheInit, CacheTypeOK
<1>2. NamesDisjoint /\ TornOnlyWhileWritten /\ RaisedOnlyIfPublished /\ TmpHeld /\ PutNamed
  BY DEF CacheInit, NamesDisjoint, TornOnlyWhileWritten, RaisedOnlyIfPublished, TmpHeld, PutNamed
<1> QED
  BY <1>1, <1>2 DEF CacheInv

LEMMA PutOpenInv == ASSUME CacheInv, NEW p \in Putters, PutOpen(p) PROVE CacheInv'
<1> USE CacheAssumption DEF CacheInv, CacheTypeOK
<1>1. PICK i \in Inodes :
        /\ IF tmp = NoFile THEN i \notin InUse ELSE i = tmp
        /\ tmp' = i /\ fd' = [fd EXCEPT ![p] = i] /\ data' = [data EXCEPT ![i] = "torn"]
  BY DEF PutOpen
<1>2. /\ pc[p] = "open" /\ pc' = [pc EXCEPT ![p] = "write"]
      /\ UNCHANGED <<blob, sidecar, got, cut>>
  BY DEF PutOpen, Goto
<1>3. i # NoFile /\ i # blob /\ fd[p] = NoFile
  BY <1>1, <1>2 DEF InUse, NamesDisjoint
<1>4. CacheTypeOK' /\ NamesDisjoint'
  BY <1>1, <1>2, <1>3 DEF NamesDisjoint
<1>5. TornOnlyWhileWritten'
  BY <1>1, <1>2, <1>3 DEF TornOnlyWhileWritten
<1>6. TmpHeld' /\ PutNamed' /\ RaisedOnlyIfPublished'
  BY <1>1, <1>2, <1>3 DEF TmpHeld, PutNamed, RaisedOnlyIfPublished
<1> QED
  BY <1>4, <1>5, <1>6

(* Other putters may still hold the inode that is whole now; what is torn  *)
(* is another one, and somebody else's.                                    *)
LEMMA PutWriteInv == ASSUME CacheInv, NEW p \in Putters, PutWrite(p) PROVE CacheInv'
<1> USE CacheAssumption DEF CacheInv, CacheTypeOK
<1>1. /\ pc[p] = "write" /\ pc' = [pc EXCEPT ![p] = "replace"]
      /\ data' = [data EXCEPT ![fd[p]] = "whole"] /\ fd' = [fd EXCEPT ![p] = NoFile]
      /\ UNCHANGED <<tmp, blob, sidecar, got, cut>>
  BY DEF PutWrite, Goto
<1>2. fd[p] \in Inodes
  BY <1>1
<1>3. ASSUME NEW q \in Putters, NEW i \in Inodes, fd[q] = i, data'[i] = "torn" PROVE fd'[q] = i
  BY <1>1, <1>2, <1>3
<1>4. CacheTypeOK' /\ NamesDisjoint' /\ PutNamed' /\ RaisedOnlyIfPublished'
  BY <1>1, <1>2 DEF NamesDisjoint, PutNamed, RaisedOnlyIfPublished
<1>5. TornOnlyWhileWritten' /\ TmpHeld'
  BY <1>1, <1>2, <1>3 DEF TornOnlyWhileWritten, TmpHeld
<1> QED
  BY <1>4, <1>5

LEMMA PutReplaceInv == ASSUME CacheInv, NEW p \in Putters, PutReplace(p) PROVE CacheInv'
<1> USE CacheAssumption DEF CacheInv, CacheTypeOK
<1>1. pc[p] = "replace" /\ UNCHANGED <<data, sidecar, fd, got, cut>>
  BY DEF PutReplace
<1>2. CASE tmp = NoFile
  <2>1. pc' = [pc EXCEPT ![p] = "raised"] /\ UNCHANGED <<tmp, blob>> /\ blob # NoFile
    BY <1>1, <1>2 DEF PutReplace, Goto, PutNamed
  <2> QED
    BY <1>1, <2>1 DEF NamesDisjoint, TornOnlyWhileWritten, RaisedOnlyIfPublished, TmpHeld, PutNamed
<1>3. CASE tmp # NoFile
  <2>1. pc' = [pc EXCEPT ![p] = "sidecar"] /\ blob' = tmp /\ tmp' = NoFile
    BY <1>3 DEF PutReplace, Goto
  <2> QED
    BY <1>1, <1>3, <2>1
    DEF NamesDisjoint, TornOnlyWhileWritten, RaisedOnlyIfPublished, TmpHeld, PutNamed
<1> QED
  BY <1>2, <1>3

LEMMA CacheStepInv == CacheInv /\ [CacheNext]_cacheVars => CacheInv'
<1> SUFFICES ASSUME CacheInv, [CacheNext]_cacheVars PROVE CacheInv'
  OBVIOUS
<1>1. CASE \E p \in Putters : PutCheck(p) \/ PutSidecar(p) \/ PutRaised(p)
  <2>1. PICK p \in Putters, to \in {"idle", "open"} :
          /\ pc[p] \in {"idle", "sidecar", "raised", "failed"} /\ pc' = [pc EXCEPT ![p] = to]
          /\ sidecar' \in {sidecar, TRUE} /\ UNCHANGED <<tmp, blob, data, fd, got, cut>>
    BY <1>1 DEF PutCheck, PutSidecar, PutRaised, Goto
  <2>2. CacheTypeOK'
    BY <2>1 DEF CacheInv, CacheTypeOK
  <2> QED
    BY <2>1, <2>2 DEF CacheInv, CacheTypeOK, NamesDisjoint,
       TornOnlyWhileWritten, RaisedOnlyIfPublished, TmpHeld, PutNamed
<1>2. CASE \E p \in Putters : PutOpen(p)
  BY <1>2, PutOpenInv
<1>3. CASE \E p \in Putters : PutWrite(p)
  BY <1>3, PutWriteInv
<1>4. CASE \E p \in Putters : PutReplace(p)
  BY <1>4, PutReplaceInv
<1>5. CASE \E r \in Readers : Get(r)
  BY <1>5, CacheAssumption DEF Get, CacheInv, CacheTypeOK, NamesDisjoint,
     TornOnlyWhileWritten, RaisedOnlyIfPublished, TmpHeld, PutNamed
<1>6. CASE Crash
  BY <1>6, CacheAssumption DEF Crash, CacheInv, CacheTypeOK, NamesDisjoint,
     TornOnlyWhileWritten, RaisedOnlyIfPublished, TmpHeld, PutNamed
<1>7. CASE \E p \in Putters : PutFails(p)
  BY <1>7, CacheAssumption DEF PutFails, Goto, CacheInv, CacheTypeOK, NamesDisjoint,
     TornOnlyWhileWritten, RaisedOnlyIfPublished, TmpHeld, PutNamed
<1>8. CASE UNCHANGED cacheVars
  BY <1>8 DEF cacheVars, CacheInv, CacheTypeOK, NamesDisjoint,
     TornOnlyWhileWritten, RaisedOnlyIfPublished, TmpHeld, PutNamed
<1> QED
  BY <1>1, <1>2, <1>3, <1>4, <1>5, <1>6, <1>7, <1>8 DEF CacheNext, Put

LEMMA CacheInvariant == CacheSpec => []CacheInv
<1> QED
  BY CacheInitInv, CacheStepInv, PTL DEF CacheSpec

(* The variables of the cache keep their types, and a putter has a file    *)
(* open exactly while it writes.                                           *)
THEOREM CacheTypeCorrect == CacheSpec => []CacheTypeOK
<1>1. CacheInv => CacheTypeOK
  BY DEF CacheInv
<1> QED
  BY <1>1, CacheInvariant, PTL

(* Unless a put is cut short, by a kill or a write that fails, a published *)
(* blob is torn only while a putter has that inode open and is about to    *)
(* complete it, for any number of threads.                                 *)
THEOREM DamageIsTransient == CacheSpec => []TornOnlyWhileWritten
<1>1. CacheInv => TornOnlyWhileWritten
  BY DEF CacheInv
<1> QED
  BY <1>1, CacheInvariant, PTL

(* The loser of a race for the temporary name, whose os.replace raises,    *)
(* finds the content published.                                            *)
THEOREM LoserIsServed == CacheSpec => [](RaisedOnlyIfPublished /\ NamesDisjoint)
<1>1. CacheInv => RaisedOnlyIfPublished /\ NamesDisjoint
  BY DEF CacheInv
<1> QED
  BY <1>1, CacheInvariant, PTL

-----------------------------------------------------------------------------
(* Chunked uploads *)

Chunks == {"good", "bad"}

Requests ==
  [from : Clients \cup {Nobody}, off : 1 .. MaxSize, total : 1 .. MaxSize, chunk : Chunks]

UploadTypes ==
  /\ part \in Seq(Chunks) /\ Len(part) <= MaxSize
  /\ published \in {"none", "good"}
  /\ net \in Seq(Requests)
  /\ client \in [Clients -> {"idle", "send", "await", "ok", "failed"}]
  /\ file \in [Clients -> Files]
  /\ off \in [Clients -> 1 .. MaxSize]
  /\ faults \in 0 .. MaxFaults

\* A client is inside its file.
OffOK == \A c \in Clients : off[c] <= Len(file[c])

\* A client that waits has one request in the queue at most, and it is the one
\* it waits for; what else is there is nobody's.
NetOK ==
  /\ \A i \in 1 .. Len(net) : net[i].off <= net[i].total
  /\ \A i \in 1 .. Len(net) : net[i].from \in Clients =>
       LET c == net[i].from
       IN  /\ client[c] = "await"
           /\ net[i].off = off[c] /\ net[i].total = Len(file[c])
           /\ net[i].chunk = file[c][off[c]]
  /\ \A i, j \in 1 .. Len(net) : net[i].from \in Clients /\ net[i].from = net[j].from => i = j

\* Without faults every upload writes the same, and the file holds at least what
\* each of them has written.
Agreed ==
  faults = 0 =>
    /\ \A c \in Clients : file[c] = Original /\ client[c] # "failed"
    /\ Len(part) <= Size /\ \A i \in 1 .. Len(part) : part[i] = "good"
    /\ \A c \in Clients : client[c] \in {"send", "await"} /\ published = "none"
         => off[c] <= Len(part) + 1
    /\ \A i \in 1 .. Len(net) : net[i].from \in Clients

UploadInv == UploadTypes /\ OffOK /\ NetOK /\ Agreed /\ OkMeansPublished

\* A file is a sequence of at least one and at most MaxSize chunks.
LEMMA FilesAre ==
  \A s : s \in Files <=> s \in Seq(Chunks) /\ Len(s) \in 1 .. MaxSize
<1>1. ASSUME NEW s, s \in Files PROVE s \in Seq(Chunks) /\ Len(s) \in 1 .. MaxSize
  <2>1. PICK n \in 1 .. MaxSize : s \in [1 .. n -> Chunks]
    BY <1>1 DEF Files, Chunks
  <2> QED
    BY <2>1, UploadAssumption
<1>2. ASSUME NEW s, s \in Seq(Chunks), Len(s) \in 1 .. MaxSize PROVE s \in Files
  <2>1. s \in [1 .. Len(s) -> Chunks]
    BY <1>2
  <2> QED
    BY <1>2, <2>1 DEF Files, Chunks
<1> QED
  BY <1>1, <1>2

LEMMA OriginalIsFile == Original \in Files /\ Len(Original) = Size
<1>1. Original \in Seq(Chunks) /\ Len(Original) = Size
  BY UploadAssumption DEF Original, Chunks
<1> QED
  BY <1>1, FilesAre, UploadAssumption

\* What a write leaves: the file grows to the chunk, no more.
LEMMA WriteIs ==
  ASSUME part \in Seq(Chunks), Len(part) <= MaxSize, NEW k \in 1 .. MaxSize, NEW chunk \in Chunks
  PROVE  LET written == Write(k, chunk)
         IN  /\ written \in Files
             /\ Len(written) = IF Len(part) < k THEN k ELSE Len(part)
             /\ written[k] = chunk
             /\ \A i \in 1 .. Len(part) : i # k => written[i] = part[i]
<1> DEFINE len == IF Len(part) < k THEN k ELSE Len(part)
           written == Write(k, chunk)
<1>1. len \in 1 .. MaxSize /\ Len(part) \in Nat /\ Len(part) <= len /\ k \in 1 .. len
  BY UploadAssumption
<1>2. written \in [1 .. len -> Chunks]
  <2>1. \A i \in 1 .. len : i <= Len(part) => part[i] \in Chunks
    BY <1>1
  <2> QED
    BY <1>1, <2>1 DEF Write, Chunks
<1>3. written \in Seq(Chunks) /\ Len(written) = len
  BY <1>1, <1>2
<1>4. written[k] = chunk /\ \A i \in 1 .. Len(part) : i # k => written[i] = part[i]
  BY <1>1 DEF Write
<1> QED
  BY <1>1, <1>3, <1>4, FilesAre

LEMMA UploadInitInv == UploadInit => UploadInv
<1> SUFFICES ASSUME UploadInit PROVE UploadInv
  OBVIOUS
<1>1. UploadTypes
  BY OriginalIsFile, UploadAssumption DEF UploadInit, UploadTypes
<1>2. OffOK
  BY OriginalIsFile, UploadAssumption DEF UploadInit, OffOK
<1>3. NetOK /\ Agreed /\ OkMeansPublished
  BY UploadAssumption DEF UploadInit, NetOK, Agreed, OkMeansPublished
<1> QED
  BY <1>1, <1>2, <1>3 DEF UploadInv

LEMMA BeginInv ==
  ASSUME UploadInv, NEW c \in Clients, BeginOriginal(c) \/ BeginChanged(c) PROVE UploadInv'
<1> USE DEF UploadInv
<1>1. PICK read \in Files :
        /\ client[c] \in {"idle", "failed"} /\ client' = [client EXCEPT ![c] = "send"]
        /\ file' = [file EXCEPT ![c] = read] /\ off' = [off EXCEPT ![c] = 1]
        /\ UNCHANGED <<part, published, net>>
        /\ \/ faults' = faults /\ read = Original
           \/ faults < MaxFaults /\ faults' = faults + 1
  BY OriginalIsFile DEF BeginOriginal, BeginChanged, Begin
<1>2. faults \in Nat /\ faults' \in 0 .. MaxFaults /\ (faults' = 0 => faults = 0 /\ read = Original)
  BY <1>1, UploadAssumption DEF UploadTypes
<1>3. UploadTypes'
  BY <1>1, <1>2, UploadAssumption DEF UploadTypes
<1>4. OffOK'
  BY <1>1, FilesAre DEF OffOK, UploadTypes
<1>5. NetOK'
  BY <1>1 DEF NetOK, UploadTypes
<1>6. Agreed'
  BY <1>1, <1>2 DEF Agreed, UploadTypes
<1>7. OkMeansPublished'
  BY <1>1 DEF OkMeansPublished, UploadTypes
<1> QED
  BY <1>3, <1>4, <1>5, <1>6, <1>7

LEMMA SendInv == ASSUME UploadInv, NEW c \in Clients, Send(c) PROVE UploadInv'
<1> USE DEF UploadInv
<1> DEFINE m == [from |-> c, off |-> off[c], total |-> Len(file[c]), chunk |-> file[c][off[c]]]
<1>1. /\ client[c] = "send" /\ client' = [client EXCEPT ![c] = "await"]
      /\ net' = Append(net, m) /\ UNCHANGED <<part, published, file, off, faults>>
  BY DEF Send
<1>2. m \in Requests /\ m.off <= m.total
  <2>1. file[c] \in Seq(Chunks) /\ Len(file[c]) \in 1 .. MaxSize /\ off[c] \in 1 .. Len(file[c])
    BY FilesAre, UploadAssumption DEF UploadTypes, OffOK
  <2> QED
    BY <2>1 DEF Requests, UploadTypes
<1>3. /\ net \in Seq(Requests) /\ net' \in Seq(Requests) /\ Len(net') = Len(net) + 1
      /\ Len(net) \in Nat
      /\ net'[Len(net) + 1] = m /\ \A i \in 1 .. Len(net) : net'[i] = net[i]
  BY <1>1, <1>2 DEF UploadTypes
<1>4. \A i \in 1 .. Len(net) : net[i].from # c
  BY <1>1 DEF NetOK
<1>5. UploadTypes'
  BY <1>1, <1>3 DEF UploadTypes
<1>6. OffOK' /\ OkMeansPublished'
  BY <1>1 DEF OffOK, OkMeansPublished, UploadTypes
<1>7. \A i \in 1 .. Len(net') : i \in 1 .. Len(net) \/ i = Len(net) + 1
  BY <1>3
<1>8. NetOK'
  <2>1. \A i \in 1 .. Len(net') : net'[i].off <= net'[i].total
    BY <1>2, <1>3, <1>7 DEF NetOK
  <2>2. ASSUME NEW i \in 1 .. Len(net'), net'[i].from \in Clients
        PROVE  LET d == net'[i].from
               IN  /\ client'[d] = "await"
                   /\ net'[i].off = off'[d] /\ net'[i].total = Len(file'[d])
                   /\ net'[i].chunk = file'[d][off'[d]]
    <3>1. CASE i \in 1 .. Len(net)
      BY <1>1, <1>3, <1>4, <2>2, <3>1 DEF NetOK, UploadTypes
    <3>2. CASE i = Len(net) + 1
      BY <1>1, <1>3, <3>2 DEF UploadTypes
    <3> QED
      BY <1>7, <3>1, <3>2
  <2>3. \A i, j \in 1 .. Len(net') : net'[i].from \in Clients /\ net'[i].from = net'[j].from => i = j
    BY <1>3, <1>4, <1>7 DEF NetOK
  <2> QED
    BY <2>1, <2>2, <2>3 DEF NetOK
<1>9. Agreed'
  <2>1. \A d \in Clients : client'[d] # "failed" <=> client[d] # "failed"
    BY <1>1 DEF UploadTypes
  <2>2. \A d \in Clients : client'[d] \in {"send", "await"} => client[d] \in {"send", "await"}
    BY <1>1 DEF UploadTypes
  <2>3. faults = 0 => \A i \in 1 .. Len(net') : net'[i].from \in Clients
    BY <1>3, <1>7 DEF Agreed
  <2> QED
    BY <1>1, <2>1, <2>2, <2>3 DEF Agreed
<1> QED
  BY <1>5, <1>6, <1>8, <1>9

LEMMA TimeOutInv == ASSUME UploadInv, NEW c \in Clients, TimeOut(c) PROVE UploadInv'
<1> USE DEF UploadInv
<1>1. /\ client[c] = "await" /\ faults < MaxFaults /\ faults' = faults + 1
      /\ client' = [client EXCEPT ![c] = "failed"]
      /\ net' = [i \in DOMAIN net |->
                   IF net[i].from = c THEN [net[i] EXCEPT !.from = Nobody] ELSE net[i]]
      /\ UNCHANGED <<part, published, file, off>>
  BY DEF TimeOut
<1>2. /\ net \in Seq(Requests) /\ DOMAIN net = 1 .. Len(net) /\ Len(net) \in Nat
      /\ \A i \in 1 .. Len(net) : net[i] \in Requests
  BY DEF UploadTypes
<1>3. ASSUME NEW i \in 1 .. Len(net)
      PROVE  /\ net'[i] \in Requests
             /\ net'[i].off = net[i].off /\ net'[i].total = net[i].total
             /\ net'[i].from \in Clients =>
                  net'[i] = net[i] /\ net[i].from # c
  BY <1>1, <1>2, UploadAssumption DEF Requests
<1>4. net' \in Seq(Requests) /\ Len(net') = Len(net)
  BY <1>1, <1>2, <1>3
<1>5. UploadTypes'
  <2>1. faults' \in 0 .. MaxFaults
    BY <1>1, UploadAssumption DEF UploadTypes
  <2> QED
    BY <1>1, <1>4, <2>1 DEF UploadTypes
<1>6. OffOK' /\ OkMeansPublished'
  BY <1>1 DEF OffOK, OkMeansPublished, UploadTypes
<1>7. NetOK'
  <2>1. \A i \in 1 .. Len(net') : net'[i].off <= net'[i].total
    BY <1>3, <1>4 DEF NetOK
  <2>2. ASSUME NEW i \in 1 .. Len(net'), net'[i].from \in Clients
        PROVE  LET d == net'[i].from
               IN  /\ client'[d] = "await"
                   /\ net'[i].off = off'[d] /\ net'[i].total = Len(file'[d])
                   /\ net'[i].chunk = file'[d][off'[d]]
    <3>1. net'[i] = net[i] /\ net[i].from \in Clients \ {c} /\ i \in 1 .. Len(net)
      BY <1>3, <1>4, <2>2
    <3>2. client'[net[i].from] = client[net[i].from]
      BY <1>1, <3>1 DEF UploadTypes
    <3> QED
      BY <1>1, <3>1, <3>2 DEF NetOK
  <2>3. ASSUME NEW i \in 1 .. Len(net'), NEW j \in 1 .. Len(net'),
               net'[i].from \in Clients, net'[i].from = net'[j].from
        PROVE  i = j
    BY <1>3, <1>4, <2>3 DEF NetOK
  <2> QED
    BY <2>1, <2>2, <2>3 DEF NetOK
<1>8. Agreed'
  BY <1>1, UploadAssumption DEF Agreed, UploadTypes
<1> QED
  BY <1>5, <1>6, <1>7, <1>8

LEMMA NodeRestartInv == ASSUME UploadInv, Restart PROVE UploadInv'
<1> USE DEF UploadInv
<1>1. /\ faults < MaxFaults /\ faults' = faults + 1 /\ net' = <<>>
      /\ client' = [c \in Clients |-> IF client[c] = "await" THEN "failed" ELSE client[c]]
      /\ UNCHANGED <<part, published, file, off>>
  BY DEF Restart
<1>2. UploadTypes'
  <2>1. faults' \in 0 .. MaxFaults /\ net' \in Seq(Requests)
    BY <1>1, UploadAssumption DEF UploadTypes
  <2> QED
    BY <1>1, <2>1 DEF UploadTypes
<1>3. OffOK' /\ NetOK' /\ OkMeansPublished'
  BY <1>1 DEF OffOK, NetOK, OkMeansPublished, UploadTypes
<1>4. Agreed'
  BY <1>1, UploadAssumption DEF Agreed, UploadTypes
<1> QED
  BY <1>2, <1>3, <1>4

\* What the fetch thread takes from the queue.
LEMMA HeadIs ==
  ASSUME UploadInv, net # <<>>
  PROVE  LET m == Head(net)
         IN  /\ m \in Requests /\ m.off <= m.total
             /\ m.from \in Clients =>
                  /\ client[m.from] = "await" /\ m.off = off[m.from]
                  /\ m.total = Len(file[m.from]) /\ m.chunk = file[m.from][off[m.from]]
             /\ Tail(net) \in Seq(Requests) /\ Len(Tail(net)) = Len(net) - 1
             /\ \A i \in 1 .. Len(net) - 1 : i + 1 \in 1 .. Len(net) /\ Tail(net)[i] = net[i + 1]
             /\ m.from \in Clients => \A i \in 1 .. Len(net) - 1 : net[i + 1].from # m.from
<1> USE DEF UploadInv
<1>1. net \in Seq(Requests) /\ Len(net) \in Nat \ {0} /\ Head(net) = net[1] /\ 1 \in 1 .. Len(net)
  BY DEF UploadTypes
<1>2. /\ Tail(net) \in Seq(Requests) /\ Len(Tail(net)) = Len(net) - 1
      /\ \A i \in 1 .. Len(net) - 1 : i + 1 \in 1 .. Len(net) /\ Tail(net)[i] = net[i + 1]
  BY <1>1
<1>3. net[1].from \in Clients => \A i \in 1 .. Len(net) - 1 : net[i + 1].from # net[1].from
  <2>1. \A i \in 1 .. Len(net) - 1 : i + 1 # 1
    BY <1>1
  <2> QED
    BY <1>1, <1>2, <2>1 DEF NetOK
<1>4. net[1] \in Requests /\ net[1].off <= net[1].total
  BY <1>1 DEF NetOK
<1>5. net[1].from \in Clients =>
        /\ client[net[1].from] = "await" /\ net[1].off = off[net[1].from]
        /\ net[1].total = Len(file[net[1].from])
        /\ net[1].chunk = file[net[1].from][off[net[1].from]]
  BY <1>1 DEF NetOK
<1> QED
  BY <1>1, <1>2, <1>3, <1>4, <1>5

\* What is left in the queue after a reply is what was there, and not of the
\* client that has been answered.
LEMMA ReplyNet ==
  ASSUME UploadInv, net # <<>>, net' = Tail(net), NEW to, Reply(Head(net).from, to), file' = file
  PROVE  NetOK'
<1> USE DEF UploadInv
<1> DEFINE m == Head(net)
<1>1. /\ Len(net') = Len(net) - 1
      /\ \A i \in 1 .. Len(net) - 1 : i + 1 \in 1 .. Len(net) /\ net'[i] = net[i + 1]
      /\ m.from \in Clients => \A i \in 1 .. Len(net) - 1 : net[i + 1].from # m.from
  BY HeadIs
<1>2. Len(net) \in Nat
  BY DEF UploadTypes
<1>3. \A i \in 1 .. Len(net') : net'[i].off <= net'[i].total
  BY <1>1 DEF NetOK
<1>4. ASSUME NEW i \in 1 .. Len(net'), net'[i].from \in Clients
      PROVE  LET d == net'[i].from
             IN  /\ client'[d] = "await"
                 /\ net'[i].off = off'[d] /\ net'[i].total = Len(file'[d])
                 /\ net'[i].chunk = file'[d][off'[d]]
  <2>1. net'[i] = net[i + 1] /\ i + 1 \in 1 .. Len(net) /\ net[i + 1].from # m.from
    BY <1>1, <1>4
  <2>2. client'[net'[i].from] = client[net'[i].from] /\ off'[net'[i].from] = off[net'[i].from]
    BY <1>4, <2>1 DEF Reply
  <2> QED
    BY <1>4, <2>1, <2>2 DEF NetOK
<1>5. ASSUME NEW i \in 1 .. Len(net'), NEW j \in 1 .. Len(net'),
             net'[i].from \in Clients, net'[i].from = net'[j].from
      PROVE  i = j
  <2>1. i + 1 = j + 1
    BY <1>1, <1>5 DEF NetOK
  <2> QED
    BY <1>1, <1>2, <2>1
<1> QED
  BY <1>3, <1>4, <1>5 DEF NetOK

LEMMA ServeInv == ASSUME UploadInv, Serve PROVE UploadInv'
<1> USE DEF UploadInv
<1> DEFINE m == Head(net)
           written == Write(m.off, m.chunk)
<1>1. net # <<>> /\ net' = Tail(net) /\ UNCHANGED <<file, faults>>
  BY DEF Serve
<1>2. /\ m \in Requests /\ m.off \in 1 .. MaxSize /\ m.chunk \in Chunks /\ m.off <= m.total
      /\ m.off \in Nat /\ m.total \in Nat
      /\ m.from \in Clients =>
           /\ client[m.from] = "await" /\ m.off = off[m.from]
           /\ m.total = Len(file[m.from]) /\ m.chunk = file[m.from][off[m.from]]
      /\ net' \in Seq(Requests)
      /\ \A i \in 1 .. Len(net') : \E j \in 1 .. Len(net) : net'[i] = net[j]
  BY <1>1, HeadIs, UploadAssumption DEF Requests, UploadTypes
<1>3. /\ written \in Files /\ written \in Seq(Chunks) /\ Len(written) <= MaxSize
      /\ Len(written) = IF Len(part) < m.off THEN m.off ELSE Len(part)
      /\ written[m.off] = m.chunk
      /\ \A i \in 1 .. Len(part) : i # m.off => written[i] = part[i]
  <2>1. part \in Seq(Chunks) /\ Len(part) <= MaxSize
    BY DEF UploadTypes
  <2>2. /\ written \in Files
        /\ Len(written) = IF Len(part) < m.off THEN m.off ELSE Len(part)
        /\ written[m.off] = m.chunk
        /\ \A i \in 1 .. Len(part) : i # m.off => written[i] = part[i]
    BY <1>2, <2>1, WriteIs
  <2> QED
    BY <2>2, FilesAre
<1>4. Len(part) \in Nat /\ Size \in Nat \ {0} /\ MaxSize \in Nat
  BY UploadAssumption DEF UploadTypes
<1>5. PICK to \in {"ok", "send", "failed"} :
        /\ Reply(m.from, to)
        /\ \/ published # "none" /\ to = "ok" /\ UNCHANGED <<part, published>>
           \/ /\ published = "none" /\ m.off < m.total /\ to = "send"
              /\ part' = written /\ UNCHANGED published
           \/ /\ published = "none" /\ m.off >= m.total /\ written = Original /\ to = "ok"
              /\ part' = <<>> /\ published' = "good"
           \/ /\ published = "none" /\ m.off >= m.total /\ written # Original /\ to = "failed"
              /\ part' = <<>> /\ UNCHANGED published
  BY DEF Serve, Verified, AfterMismatch
<1>6. /\ client' = [d \in Clients |-> IF d = m.from THEN to ELSE client[d]]
      /\ off' = [d \in Clients |-> IF d = m.from /\ to = "send" THEN off[d] + 1 ELSE off[d]]
  BY <1>5 DEF Reply
<1>7. ASSUME NEW d \in Clients
      PROVE  /\ off'[d] \in 1 .. MaxSize /\ off'[d] <= Len(file'[d])
             /\ client'[d] \in {"idle", "send", "await", "ok", "failed"}
  <2>1. /\ off[d] \in 1 .. MaxSize /\ off[d] <= Len(file[d]) /\ Len(file[d]) \in 1 .. MaxSize
        /\ client[d] \in {"idle", "send", "await", "ok", "failed"} /\ file' = file
    BY <1>1, FilesAre DEF UploadTypes, OffOK
  <2>2. d = m.from /\ to = "send" => off[d] < Len(file[d])
    BY <1>2, <1>5
  <2> QED
    BY <1>4, <1>6, <2>1, <2>2
<1>8. UploadTypes' /\ OffOK'
  <2>1. part' \in Seq(Chunks) /\ Len(part') <= MaxSize /\ published' \in {"none", "good"}
    <3>1. part' \in {part, written, <<>>} /\ published' \in {"good", published}
      BY <1>5
    <3>2. \A s \in {part, written, <<>>} : s \in Seq(Chunks) /\ Len(s) <= MaxSize
      <4>1. part \in Seq(Chunks) /\ Len(part) <= MaxSize
        BY DEF UploadTypes
      <4>2. <<>> \in Seq(Chunks) /\ Len(<<>>) <= MaxSize
        BY <1>4
      <4> QED
        BY <1>3, <4>1, <4>2
    <3>3. published' \in {"none", "good"}
      BY <3>1 DEF UploadTypes
    <3> QED
      BY <3>1, <3>2, <3>3
  <2>2. /\ client' \in [Clients -> {"idle", "send", "await", "ok", "failed"}]
        /\ off' \in [Clients -> 1 .. MaxSize]
    BY <1>6, <1>7
  <2> QED
    BY <1>1, <1>2, <1>7, <2>1, <2>2 DEF UploadTypes, OffOK
<1>9. NetOK'
  BY <1>1, <1>5, ReplyNet
<1>10. OkMeansPublished'
  BY <1>5, <1>6 DEF OkMeansPublished, UploadTypes
<1>11. Agreed'
  <2> SUFFICES ASSUME faults' = 0
               PROVE  /\ \A c \in Clients : file'[c] = Original /\ client'[c] # "failed"
                      /\ Len(part') <= Size /\ \A i \in 1 .. Len(part') : part'[i] = "good"
                      /\ \A c \in Clients : client'[c] \in {"send", "await"} /\ published' = "none"
                           => off'[c] <= Len(part') + 1
                      /\ \A i \in 1 .. Len(net') : net'[i].from \in Clients
    BY DEF Agreed
  <2>1. /\ \A c \in Clients : file[c] = Original /\ client[c] # "failed"
        /\ Len(part) <= Size /\ \A i \in 1 .. Len(part) : part[i] = "good"
        /\ \A c \in Clients : client[c] \in {"send", "await"} /\ published = "none"
             => off[c] <= Len(part) + 1
        /\ \A i \in 1 .. Len(net) : net[i].from \in Clients
    BY <1>1 DEF Agreed
  <2>2. m.from \in Clients /\ m = net[1]
    BY <1>1, <2>1, UploadAssumption DEF UploadTypes
  <2>3. m.off \in 1 .. Size /\ m.total = Size /\ m.chunk = "good"
    <3>1. m.total = Size
      BY <1>2, <2>1, <2>2, OriginalIsFile
    <3>2. m.off \in 1 .. Size
      BY <1>2, <1>4, <3>1
    <3> QED
      BY <1>2, <2>1, <2>2, <3>1, <3>2 DEF Original
  <2>4. /\ Len(written) <= Size
        /\ published = "none" => \A i \in 1 .. Len(written) : written[i] = "good"
    <3>1. published = "none" => m.off <= Len(part) + 1
      BY <1>2, <2>1, <2>2
    <3> QED
      BY <1>3, <1>4, <2>1, <2>3, <3>1
  <2>5. published = "none" /\ m.off >= m.total => written = Original
    <3>1. published = "none" /\ m.off >= m.total => Len(written) = Size
      BY <1>3, <1>4, <2>1, <2>3
    <3>2. written = [i \in 1 .. Len(written) |-> written[i]]
      BY <1>3
    <3> QED
      BY <2>4, <3>1, <3>2 DEF Original
  <2>6. to # "failed"
    BY <1>5, <2>5
  <2>7. \A c \in Clients : file'[c] = Original /\ client'[c] # "failed"
    BY <1>1, <1>6, <2>1, <2>6
  <2>8. Len(part') <= Size /\ \A i \in 1 .. Len(part') : part'[i] = "good"
    BY <1>4, <1>5, <2>1, <2>4
  <2>9. ASSUME NEW c \in Clients, client'[c] \in {"send", "await"}, published' = "none"
        PROVE  off'[c] <= Len(part') + 1
    <3>1. published = "none" /\ to = "send" /\ part' = written
      BY <1>5, <2>6, <2>9
    <3>2. Len(part) <= Len(part') /\ m.off <= Len(part') /\ Len(part') \in Nat
      BY <1>2, <1>3, <1>4, <3>1
    <3>3. CASE c = m.from
      <4>1. off'[c] = m.off + 1
        BY <1>2, <1>6, <2>2, <3>1, <3>3
      <4> QED
        BY <1>2, <3>2, <4>1
    <3>4. CASE c # m.from
      <4>1. off'[c] = off[c] /\ client[c] \in {"send", "await"} /\ off[c] \in Nat
        BY <1>6, <2>9, <3>4 DEF UploadTypes
      <4> QED
        BY <1>4, <2>1, <3>1, <3>2, <4>1
    <3> QED
      BY <3>3, <3>4
  <2>10. \A i \in 1 .. Len(net') : net'[i].from \in Clients
    BY <1>2, <2>1
  <2> QED
    BY <2>7, <2>8, <2>9, <2>10
<1> QED
  BY <1>8, <1>9, <1>10, <1>11

LEMMA UploadStepInv == UploadInv /\ [UploadNext]_uploadVars => UploadInv'
<1> SUFFICES ASSUME UploadInv, [UploadNext]_uploadVars PROVE UploadInv'
  OBVIOUS
<1>1. CASE \E c \in Clients : BeginOriginal(c) \/ BeginChanged(c)
  BY <1>1, BeginInv
<1>2. CASE \E c \in Clients : Send(c)
  BY <1>2, SendInv
<1>3. CASE \E c \in Clients : TimeOut(c)
  BY <1>3, TimeOutInv
<1>4. CASE Serve
  BY <1>4, ServeInv
<1>5. CASE Restart
  BY <1>5, NodeRestartInv
<1>6. CASE UNCHANGED uploadVars
  BY <1>6 DEF uploadVars, UploadInv, UploadTypes, OffOK, NetOK, Agreed, OkMeansPublished
<1> QED
  BY <1>1, <1>2, <1>3, <1>4, <1>5, <1>6 DEF UploadNext

LEMMA UploadInvariant == UploadSpec => []UploadInv
<1> QED
  BY UploadInitInv, UploadStepInv, PTL DEF UploadSpec

(* The variables of the upload keep their types: among others a client     *)
(* never sends a chunk beyond its file, late replies included.             *)
THEOREM UploadTypeCorrect == UploadSpec => []UploadTypeOK
<1>1. UploadInv => UploadTypeOK
  <2> SUFFICES ASSUME UploadInv PROVE UploadTypeOK
    OBVIOUS
  <2>1. part \in {<<>>} \cup Files
    <3>1. Len(part) \in Nat /\ (Len(part) = 0 => part = <<>>)
      BY DEF UploadInv, UploadTypes
    <3> QED
      BY <3>1, FilesAre, UploadAssumption DEF UploadInv, UploadTypes
  <2>2. \A i \in DOMAIN net : net[i].from \in Clients \cup {Nobody} /\ net[i].off \in 1 .. net[i].total
    <3>1. DOMAIN net = 1 .. Len(net) /\ \A i \in 1 .. Len(net) : net[i] \in Requests
      BY DEF UploadInv, UploadTypes
    <3> QED
      BY <3>1, UploadAssumption DEF UploadInv, NetOK, Requests
  <2> QED
    BY <2>1, <2>2 DEF UploadInv, UploadTypes, UploadTypeOK
<1> QED
  BY <1>1, UploadInvariant, PTL

(* What is published under a hash has that hash, whatever late requests    *)
(* and changed files have left in the shared .part.                        *)
THEOREM PublishedIsGood == UploadSpec => []PublishedGood
<1>1. UploadInv => PublishedGood
  BY DEF UploadInv, UploadTypes, PublishedGood
<1> QED
  BY <1>1, UploadInvariant, PTL

(* A client that is told its upload is done can rely on the blob.          *)
THEOREM OkIsPublished == UploadSpec => []OkMeansPublished
<1>1. UploadInv => OkMeansPublished
  BY DEF UploadInv
<1> QED
  BY <1>1, UploadInvariant, PTL

(* Any number of uploads of one content, interleaved chunk by chunk in one *)
(* .part, succeed, as long as no file changes and nothing is late or lost. *)
THEOREM UploadsAgree == UploadSpec => []NoMutualHarm
<1>1. UploadInv => NoMutualHarm
  BY DEF UploadInv, Agreed, NoMutualHarm
<1> QED
  BY <1>1, UploadInvariant, PTL
=============================================================================
