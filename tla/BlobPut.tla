------------------------------ MODULE BlobPut ------------------------------
(***************************************************************************)
(* Chunked upload of one blob: the clients' _blob_put loop                 *)
(* (scripts/obt/net/client.py) against _h_blob_put on the node's fetch     *)
(* thread (scripts/obt/net/node.py). Every upload of the hash shares one   *)
(* <sha>.part file. A client that times out gives up its socket, but the   *)
(* request it sent may still be served later; a node restart loses the     *)
(* requests and keeps the file.                                            *)
(***************************************************************************)
EXTENDS Integers, Sequences

CONSTANTS
  Clients,
  Nobody,     \* sender of a request whose client has given up
  Size,       \* chunks of the content the hash stands for
  MaxSize,    \* chunks of the longest file read in its place
  MaxFaults   \* bound: changed files, timeouts and restarts together

ASSUME UploadAssumption ==
  /\ Nobody \notin Clients
  /\ Size \in Nat \ {0}
  /\ MaxSize \in Nat /\ MaxSize >= Size
  /\ MaxFaults \in Nat

VARIABLES
  part,      \* the chunks of <sha>.part, <<>> without the file
  published, \* what is published under the hash: "none", "good" or "bad"
  net,       \* requests sent and not served yet, in order of arrival
  client,    \* what each client does: "idle", "send", "await", "ok", "failed"
  file,      \* chunks the client read
  off,       \* chunk it sends next
  faults

uploadVars == <<part, published, net, client, file, off, faults>>

(* A chunk is good if it is the one the hash expects in that place. A      *)
(* client that reads after the file changed may find anything.             *)
Original == [k \in 1 .. Size |-> "good"]
Files == UNION {[1 .. n -> {"good", "bad"}] : n \in 1 .. MaxSize}

\* Fault: the file is opened for appending.
WriteAppend(k, chunk) == Append(part, chunk)
(* The file <sha>.part after a write at chunk k: r+b never truncates, and  *)
(* a gap before k is filled with zeros.                                    *)
Write(k, chunk) ==
  [i \in 1 .. (IF Len(part) < k THEN k ELSE Len(part)) |->
     CASE i = k -> chunk
       [] i # k /\ i <= Len(part) -> part[i]
       [] i # k /\ i > Len(part) -> "bad"]

-----------------------------------------------------------------------------
(* A client. *)

Begin(c, read) ==
  /\ client[c] \in {"idle", "failed"}
  /\ client' = [client EXCEPT ![c] = "send"]
  /\ file' = [file EXCEPT ![c] = read]
  /\ off' = [off EXCEPT ![c] = 1]
  /\ UNCHANGED <<part, published, net>>

BeginOriginal(c) == Begin(c, Original) /\ UNCHANGED faults
BeginChanged(c) ==
  /\ faults < MaxFaults /\ faults' = faults + 1
  /\ \E read \in Files \ {Original} : Begin(c, read)

Send(c) ==
  /\ client[c] = "send"
  /\ client' = [client EXCEPT ![c] = "await"]
  /\ net' = Append(net, [from |-> c, off |-> off[c], total |-> Len(file[c]),
                         chunk |-> file[c][off[c]]])
  /\ UNCHANGED <<part, published, file, off, faults>>

(* The request outlives its sender.                                        *)
TimeOut(c) ==
  /\ client[c] = "await"
  /\ faults < MaxFaults /\ faults' = faults + 1
  /\ client' = [client EXCEPT ![c] = "failed"]
  /\ net' = [i \in DOMAIN net |->
               IF net[i].from = c THEN [net[i] EXCEPT !.from = Nobody] ELSE net[i]]
  /\ UNCHANGED <<part, published, file, off>>

-----------------------------------------------------------------------------
(* _h_blob_put; the reply reaches a client that still waits for it.        *)

\* Fault: the client does not look whether the last chunk was refused.
ReplyUnread(c, to) ==
  /\ client' = [d \in Clients |-> IF d # c THEN client[d] ELSE IF to = "failed" THEN "ok" ELSE to]
  /\ off' = [d \in Clients |-> IF d = c /\ to = "send" THEN off[d] + 1 ELSE off[d]]

Reply(c, to) ==
  /\ client' = [d \in Clients |-> IF d = c THEN to ELSE client[d]]
  /\ off' = [d \in Clients |-> IF d = c /\ to = "send" THEN off[d] + 1 ELSE off[d]]

\* Fault: only the size is compared.
VerifiedSize(bytes) == Len(bytes) = Size
Verified(bytes) == bytes = Original

\* Fault: the spoilt file is kept.
KeptAfterMismatch(bytes) == bytes
AfterMismatch(bytes) == <<>>

Serve ==
  /\ net # <<>>
  /\ net' = Tail(net)
  /\ LET m == Head(net)
         written == Write(m.off, m.chunk)
     IN  IF published # "none"
           THEN Reply(m.from, "ok") /\ UNCHANGED <<part, published>>
           ELSE \/ /\ m.off < m.total
                   /\ part' = written
                   /\ Reply(m.from, "send") /\ UNCHANGED published
                \/ /\ m.off >= m.total /\ Verified(written)
                   /\ published' = IF written = Original THEN "good" ELSE "bad"
                   /\ part' = <<>>
                   /\ Reply(m.from, "ok")
                \/ /\ m.off >= m.total /\ ~Verified(written)
                   /\ part' = AfterMismatch(written)
                   /\ Reply(m.from, "failed") /\ UNCHANGED published
  /\ UNCHANGED <<file, faults>>

Restart ==
  /\ faults < MaxFaults /\ faults' = faults + 1
  /\ net' = <<>>
  /\ client' = [c \in Clients |-> IF client[c] = "await" THEN "failed" ELSE client[c]]
  /\ UNCHANGED <<part, published, file, off>>

UploadInit ==
  /\ part = <<>>
  /\ published = "none"
  /\ net = <<>>
  /\ client = [c \in Clients |-> "idle"]
  /\ file = [c \in Clients |-> Original]
  /\ off = [c \in Clients |-> 1]
  /\ faults = 0

UploadNext ==
  \/ \E c \in Clients : BeginOriginal(c) \/ BeginChanged(c) \/ Send(c) \/ TimeOut(c)
  \/ Serve
  \/ Restart

UploadSpec == UploadInit /\ [][UploadNext]_uploadVars

(* The fetch thread serves what has arrived, a client in its loop goes on, *)
(* and whoever wanted the upload repeats it until it succeeds.             *)
UploadFairSpec ==
  /\ UploadSpec
  /\ WF_uploadVars(Serve)
  /\ \A c \in Clients : WF_uploadVars(Send(c)) /\ WF_uploadVars(BeginOriginal(c))

-----------------------------------------------------------------------------
(* Properties *)

UploadTypeOK ==
  /\ part \in {<<>>} \cup Files
  /\ published \in {"none", "good", "bad"}
  /\ client \in [Clients -> {"idle", "send", "await", "ok", "failed"}]
  /\ file \in [Clients -> Files]
  /\ off \in [Clients -> 1 .. MaxSize]
  /\ \A i \in DOMAIN net :
       net[i].from \in Clients \cup {Nobody} /\ net[i].off \in 1 .. net[i].total
  /\ faults \in 0 .. MaxFaults

(* What is published under a hash has that hash, although late requests of *)
(* clients that gave up and chunks of other files land in the same .part.  *)
PublishedGood == published # "bad"

(* A client that is told the upload is done can rely on the blob.          *)
OkMeansPublished ==
  \A c \in Clients : client[c] = "ok" => published = "good"

(* Uploads of the same content do not disturb one another: without a       *)
(* changed file, a timeout or a restart none of them fails, however their  *)
(* chunks interleave in the shared .part.                                  *)
NoMutualHarm ==
  faults = 0 => \A c \in Clients : client[c] # "failed"

(* A .part spoilt by earlier attempts (stale tail, wrong chunk, gap) heals:*)
(* once the disturbances stop, repeating the upload publishes the blob.    *)
EventuallyPublished == <>(published = "good")
=============================================================================
