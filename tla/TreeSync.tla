------------------------------ MODULE TreeSync ------------------------------
(***************************************************************************)
(* obt.net.py sync (Client.sync and node._h_tree_manifest, _h_tree_apply): *)
(* one client makes a node's directory equal to its own, or the other way  *)
(* round, while people edit both. The node's directory is the work tree of *)
(* a git repository; what is modified there against its HEAD is somebody's *)
(* work unless the push log shows that we left it there.                   *)
(* The node's fetch thread answers one request at a time. A client that    *)
(* gives up leaves its tree_apply behind, to be served late.               *)
(***************************************************************************)
EXTENDS TreeFS, FiniteSets

CONSTANTS
  Tracked,     \* paths git tracks on the node
  LocalTrees,  \* what the client's tree may become
  LocalInit,   \* the client's tree at the start
  NodeInit,    \* the node's tree at the start
  Foreign,     \* what people on the node write into files
  Options,     \* the options of a sync: sets of "pull", "delete", "force"
  MaxEdits,    \* bound on the edits, on both sides
  MaxFaults    \* bound on the clients that give up and the nodes that die

ASSUME SyncAssumption ==
  /\ \A fs \in LocalTrees \cup {LocalInit, NodeInit} : fs \in Trees /\ WellFormed(fs)
  /\ Tracked \subseteq Paths
  /\ Foreign \subseteq Contents /\ Options \subseteq SUBSET {"pull", "delete", "force"}
  /\ MaxEdits \in Nat /\ MaxFaults \in Nat

VARIABLES
  local,   \* the client's tree
  node,    \* the node's tree
  head,    \* head[p]: the entry of p in the node's HEAD commit
  cache,   \* contents in the node's upload cache
  log,     \* the push log on the client's disk
  op,      \* the sync the client runs
  apply,   \* apply["mine"]: the request of op; apply["late"]: of one given up
  edits,   \* edits so far
  faults,  \* faults so far
  work,    \* files on the node that hold somebody's edit
  lost,    \* the edits a sync has destroyed, and how
  unlogged \* what pushes have left on the node and not in the log

treeVars == <<local, node, head, cache, log, op, apply>>
ghosts == <<edits, faults, work, lost, unlogged>>
vars == <<treeVars, ghosts>>

None == "none"
Sha(e) == IF e.t = "file" THEN e.sha ELSE None

NoTree == [p \in Paths |-> Absent]
NoRequest ==
  [st |-> "none", src |-> NoTree, todo |-> {}, del |-> {}, seen |-> {}, force |-> FALSE,
   tree |-> NoTree]
Idle ==
  [pc |-> "idle", opts |-> {}, src |-> NoTree, dst |-> NoTree, into |-> NoTree,
   seen |-> {}, ours |-> {}, todo |-> {}, del |-> {}, began |-> {}]
Goto(to) == op' = [op EXCEPT !.pc = to]
Has(o) == o \in op.opts

Sends == ToSend(op.src, op.dst)
Links == ToLink(op.src, op.dst)
Deletes == IF Has("delete") THEN DstOnly(op.src, op.dst) ELSE {}

Into == IF Has("pull") THEN local ELSE node

(* A file or a link on one side stands where the other has a directory,    *)
(* perhaps an empty one that no manifest shows.                            *)
Clash ==
  \/ \E p \in Paths : op.src[p].t = "file" /\ op.into[p] = Dir
  \/ \E d \in Paths : \E c \in Children(d) :
       {op.src[d], op.dst[c]} \cap {Absent} = {} \/ {op.src[c], op.dst[d]} \cap {Absent} = {}

(* What git status --porcelain names: tracked paths that are not as HEAD   *)
(* has them.                                                               *)
Dirt == {p \in Tracked : Manifest(node)[p] # head[p]}

(* Somebody's work that neither HEAD nor the push log accounts for.        *)
Own == {p \in work : Sha(node[p]) \notin {Sha(head[p]), log[p]}}

-----------------------------------------------------------------------------
(* People *)

Edit ==
  /\ edits < MaxEdits
  /\ edits' = edits + 1

EditNode(p, c) ==
  /\ Edit
  /\ CanPlace(node, p, File(c)) /\ Real(node, p) = p
  /\ node[p] # File(c)
  /\ node' = Place(node, p, File(c))
  /\ work' = work \cup {p}
  /\ UNCHANGED <<local, head, cache, log, op, apply, faults, lost, unlogged>>

EditLocal(fs) ==
  /\ Edit
  /\ fs # local
  /\ local' = fs
  /\ UNCHANGED <<node, head, cache, log, op, apply, faults, work, lost, unlogged>>

-----------------------------------------------------------------------------
(* Client.sync *)

Begin(opts) ==
  /\ op = Idle
  /\ op' = [Idle EXCEPT !.pc = "asked", !.opts = opts, !.src = Manifest(local),
                         !.began = IF apply["late"] = NoRequest THEN {edits + faults} ELSE {}]
  /\ UNCHANGED <<local, node, head, cache, log, apply, ghosts>>

Serving == \E w \in DOMAIN apply : apply[w].st = "running"

(* _h_tree_manifest, and the client that reads the push log next.          *)
NodeManifest ==
  /\ op.pc = "asked"
  /\ ~Serving
  /\ LET there == Manifest(node)
     IN  op' = [op EXCEPT !.pc = "planned", !.seen = Own, !.into = Into,
                          !.src = IF Has("pull") THEN there ELSE op.src,
                          !.dst = IF Has("pull") THEN op.src ELSE there]
  /\ UNCHANGED <<local, node, head, cache, log, apply, ghosts>>

Guarded == ~Has("pull") /\ ~Has("force") /\ Sends \cup Deletes # {}

\* Fault: the push log is not asked.
AtRiskAnyDirt == (Sends \cup Deletes) \cap Dirt

\* Fault: the push log is compared with what would be sent.
AtRiskNotOurs == {p \in (Sends \cup Deletes) \cap Dirt : Sha(op.src[p]) # log[p]}

AtRisk == {p \in (Sends \cup Deletes) \cap Dirt : Sha(op.dst[p]) # log[p]}

(* The dirt guard; what it does not see any more is no longer protected.   *)
Guard ==
  /\ op.pc = "planned"
  /\ op' = IF Guarded /\ AtRisk # {}
             THEN [op EXCEPT !.pc = "refused", !.ours = AtRisk \ work]
             ELSE [op EXCEPT !.pc = IF Has("pull") THEN "stage" ELSE "send",
                             !.seen = @ \cap Own, !.todo = Sends]
  /\ UNCHANGED <<local, node, head, cache, log, apply, ghosts>>

(* The file is read again; _h_blob_put refuses content that does not fit   *)
(* the hash, unless the cache has that hash already.                       *)
Send ==
  /\ op.pc = "send" /\ op.todo # {}
  /\ ~Serving
  /\ LET p == FirstOf(op.todo)
         sha == op.src[p].sha
     IN  IF sha \in cache \/ local[p] = op.src[p]
           THEN /\ cache' = cache \cup {sha}
                /\ op' = [op EXCEPT !.todo = @ \ {p}]
           ELSE Goto("failed") /\ UNCHANGED cache
  /\ UNCHANGED <<local, node, head, log, apply, ghosts>>

(* _h_tree_manifest with cache_blobs: what is still there goes into the    *)
(* cache, from where the client will take it.                              *)
Stage ==
  /\ op.pc = "stage"
  /\ ~Serving
  /\ LET want == {op.src[p].sha : p \in Sends}
         there == {Sha(node[p]) : p \in Paths}
     IN  cache' = cache \cup (want \cap there)
  /\ op' = [op EXCEPT !.pc = "pull", !.todo = Sends \cup Links, !.del = Deletes]
  /\ UNCHANGED <<local, node, head, log, apply, ghosts>>

Request ==
  [NoRequest EXCEPT !.st = "queued", !.src = op.src, !.todo = Sends \cup Links,
                    !.del = Deletes, !.seen = op.seen, !.force = Has("force")]

AskApply ==
  /\ op.pc = "send" /\ op.todo = {}
  /\ Goto("applying")
  /\ apply' = [apply EXCEPT !["mine"] = Request]
  /\ UNCHANGED <<local, node, head, cache, log, ghosts>>

(* The files first, then the links.                                        *)
NextEntry(src, todo) ==
  LET files == {p \in todo : src[p].t = "file"}
  IN  FirstOf(IF files # {} THEN files ELSE todo)

(* One turn of materialize_tree on the client's tree; a file comes from    *)
(* the node's cache.                                                       *)
PullStep ==
  /\ op.pc = "pull" /\ op.todo \cup op.del # {}
  /\ Sends \cap op.todo # {} => ~Serving
  /\ IF op.todo # {}
       THEN LET p == NextEntry(op.src, op.todo)
                e == op.src[p]
            IN  IF CanPlace(local, p, e) /\ Sha(e) \in cache \cup {None}
                  THEN /\ local' = Place(local, p, e)
                       /\ op' = [op EXCEPT !.todo = @ \ {p}]
                  ELSE Goto("failed") /\ UNCHANGED local
       ELSE /\ local' = Remove(local, FirstOf(op.del))
            /\ op' = [op EXCEPT !.del = @ \ {FirstOf(op.del)}]
  /\ UNCHANGED <<node, head, cache, log, apply, ghosts>>

(* The destination is the source and what there was no order to delete.    *)
Expected ==
  [p \in Paths |-> IF op.src[p] = Absent /\ p \notin Deletes THEN op.dst[p] ELSE op.src[p]]

Verdict(tree) == IF tree = Expected THEN "match" ELSE "mismatch"

PullDone ==
  /\ op.pc = "pull" /\ op.todo \cup op.del = {}
  /\ Goto(Verdict(Manifest(local)))
  /\ UNCHANGED <<local, node, head, cache, log, apply, ghosts>>

-----------------------------------------------------------------------------
(* node._h_tree_apply in the fetch thread *)

ApplyStart(w) ==
  /\ apply[w].st = "queued"
  /\ ~Serving
  /\ apply' = [apply EXCEPT ![w].st =
       IF \A p \in apply[w].todo : Sha(apply[w].src[p]) \in cache \cup {None}
         THEN "running" ELSE "error"]
  /\ UNCHANGED <<local, node, head, cache, log, op, ghosts>>

(* What the step does to people's edits, and what the log does not know.   *)
Losing(w, after, linked) ==
  LET changed == {p \in Paths : after[p] # node[p]}
      gone == work \cap changed
  IN  /\ work' = work \ gone
      /\ unlogged' = unlogged \cup changed
      /\ lost' = lost \cup
           {[forced |-> apply[w].force, seen |-> p \in apply[w].seen, linked |-> linked] : p \in gone}

ApplyEntry(w) ==
  /\ apply[w].st = "running" /\ apply[w].todo # {}
  /\ LET p == NextEntry(apply[w].src, apply[w].todo)
         e == apply[w].src[p]
     IN  IF CanPlace(node, p, e)
           THEN /\ node' = Place(node, p, e)
                /\ Losing(w, node', e.t = "link" \/ Real(node, p) # p)
                /\ apply' = [apply EXCEPT ![w].todo = @ \ {p}]
           ELSE /\ apply' = [apply EXCEPT ![w].st = "error"]
                /\ UNCHANGED <<node, work, lost, unlogged>>
  /\ UNCHANGED <<local, head, cache, log, op, edits, faults>>

ApplyDelete(w) ==
  /\ apply[w].st = "running" /\ apply[w].todo = {} /\ apply[w].del # {}
  /\ LET p == FirstOf(apply[w].del)
     IN  /\ node' = Remove(node, p)
         /\ Losing(w, node', Real(node, p) # p)
         /\ apply' = [apply EXCEPT ![w].del = @ \ {p}]
  /\ UNCHANGED <<local, head, cache, log, op, edits, faults>>

(* The tree is walked again for the reply.                                 *)
ApplyEnd(w) ==
  /\ apply[w].st = "running" /\ apply[w].todo \cup apply[w].del = {}
  /\ apply' = [apply EXCEPT ![w] = [NoRequest EXCEPT !.st = "applied", !.tree = Manifest(node)]]
  /\ UNCHANGED <<local, node, head, cache, log, op, ghosts>>

(* Nobody hears the reply to a request given up.                           *)
LateGone ==
  /\ apply["late"].st \in {"applied", "error"}
  /\ apply' = [apply EXCEPT !["late"] = NoRequest]
  /\ UNCHANGED <<local, node, head, cache, log, op, ghosts>>

Serve(w) == ApplyStart(w) \/ ApplyEntry(w) \/ ApplyDelete(w) \/ ApplyEnd(w)

(* The client hears of it, and only now writes down what it left there.    *)
Applied ==
  /\ op.pc = "applying" /\ apply["mine"].st = "applied"
  /\ log' = [p \in Paths |->
               IF p \in Sends THEN op.src[p].sha ELSE IF p \in Deletes THEN None ELSE log[p]]
  /\ LET told == Sends \cup Deletes
     IN  unlogged' = {p \in unlogged \cup told :
                        p \in told => Manifest(node)[p] # op.src[p]}
  /\ apply' = [apply EXCEPT !["mine"] = NoRequest]
  /\ Goto(Verdict(apply["mine"].tree))
  /\ UNCHANGED <<local, node, head, cache, edits, faults, work, lost>>

ApplyFailed ==
  /\ op.pc = "applying" /\ apply["mine"].st = "error"
  /\ apply' = [apply EXCEPT !["mine"] = NoRequest]
  /\ Goto("failed")
  /\ UNCHANGED <<local, node, head, cache, log, ghosts>>

Over == {"match", "mismatch", "failed", "refused"}

Report ==
  /\ op.pc \in Over
  /\ op' = Idle
  /\ UNCHANGED <<local, node, head, cache, log, apply, ghosts>>

-----------------------------------------------------------------------------
(* Faults *)

Fault ==
  /\ faults < MaxFaults
  /\ faults' = faults + 1

(* The request times out or the client is killed.                          *)
GiveUp ==
  /\ Fault
  /\ op.pc \notin {"idle"} \cup Over
  /\ apply["late"] = NoRequest
  /\ apply' = [apply EXCEPT !["late"] = apply["mine"], !["mine"] = NoRequest]
  /\ op' = Idle
  /\ UNCHANGED <<local, node, head, cache, log, edits, work, lost, unlogged>>

(* The client is killed while it writes the log, which is not replaced but *)
(* overwritten: an unreadable log is an empty one.                         *)
LogTorn ==
  /\ Fault
  /\ op.pc = "applying" /\ apply["mine"].st = "applied"
  /\ log' = [p \in Paths |-> None]
  /\ unlogged' = Paths
  /\ apply' = [apply EXCEPT !["mine"] = NoRequest]
  /\ op' = Idle
  /\ UNCHANGED <<local, node, head, cache, edits, work, lost>>

(* The daemon is killed and started again: requests are gone, files stay.  *)
NodeDies ==
  /\ Fault
  /\ \E w \in DOMAIN apply : apply[w] # NoRequest
  /\ apply' = [w \in DOMAIN apply |-> NoRequest]
  /\ op' = IF op.pc = "applying" THEN [op EXCEPT !.pc = "failed"] ELSE op
  /\ UNCHANGED <<local, node, head, cache, log, edits, work, lost, unlogged>>

-----------------------------------------------------------------------------
Init ==
  /\ local = LocalInit
  /\ node = NodeInit
  /\ head = [p \in Paths |-> IF p \in Tracked THEN Manifest(NodeInit)[p] ELSE Absent]
  /\ cache = {}
  /\ log = [p \in Paths |-> None]
  /\ op = Idle
  /\ apply = [w \in {"mine", "late"} |-> NoRequest]
  /\ edits = 0 /\ faults = 0
  /\ work = {} /\ lost = {} /\ unlogged = {}

Client ==
  \/ NodeManifest \/ Guard \/ Send \/ Stage \/ AskApply
  \/ PullStep \/ PullDone \/ Applied \/ ApplyFailed \/ Report

Fetch == (\E w \in DOMAIN apply : Serve(w)) \/ LateGone

Next ==
  \/ \E p \in Tracked, c \in Foreign : EditNode(p, c)
  \/ \E fs \in LocalTrees : EditLocal(fs)
  \/ \E opts \in Options : Begin(opts)
  \/ Client
  \/ Fetch
  \/ GiveUp \/ LogTorn \/ NodeDies

Spec == Init /\ [][Next]_vars
-----------------------------------------------------------------------------
(* Properties *)

Ops == [pc : {"idle", "asked", "planned", "stage", "pull", "send", "applying"} \cup Over,
        opts : SUBSET {"pull", "delete", "force"},
        src : Trees, dst : Trees, into : Trees, seen : SUBSET Paths, ours : SUBSET Paths,
        todo : SUBSET Paths, del : SUBSET Paths, began : SUBSET Nat]
Requests == [st : {"none", "queued", "running", "applied", "error"}, src : Trees,
             todo : SUBSET Paths, del : SUBSET Paths, seen : SUBSET Paths,
             force : BOOLEAN, tree : Trees]

(* The trees are trees, a running request is alone, and an edit counts as  *)
(* long as its file is there.                                              *)
TypeOK ==
  /\ local \in Trees /\ WellFormed(local)
  /\ node \in Trees /\ WellFormed(node)
  /\ head \in Trees
  /\ cache \subseteq Contents
  /\ log \in [Paths -> Contents \cup {None}]
  /\ op \in Ops /\ apply \in [{"mine", "late"} -> Requests]
  /\ (op.pc = "idle" => op = Idle) /\ (op.pc # "applying" => apply["mine"] = NoRequest)
  /\ ~(apply["mine"].st = "running" /\ apply["late"].st = "running")
  /\ edits \in 0 .. MaxEdits /\ faults \in 0 .. MaxFaults
  /\ work \subseteq Tracked
  /\ \A p \in work : node[p].t = "file"

(* What the dirt guard is for: an edit that was on the node when the guard *)
(* looked, and has not been overwritten since, is not destroyed by a push  *)
(* without --force. The code does not keep this promise: the guard looks   *)
(* at the files to send and to delete and not at the links, and a link     *)
(* takes the place of the edited file, of the directory it is in, or leads *)
(* a later entry of the same push somewhere else.                          *)
GuardProtects == \A l \in lost : l.forced \/ ~l.seen

(* Links aside it keeps it, over any series of pushes and pulls, with      *)
(* edits on both sides at any moment, requests served after their client   *)
(* has gone, and half applied trees.                                       *)
GuardHolds == \A l \in lost : l.forced \/ ~l.seen \/ l.linked

(* The push log keeps the guard from refusing our own files: it refuses    *)
(* for somebody's work, or for what a push has left on the node without    *)
(* writing it down (its reply was lost, it failed half way, its log was    *)
(* torn, a link or a deletion changed more than the entry it is about).    *)
RefusedForWork ==
  op.pc = "refused" => op.ours \subseteq unlogged

Undisturbed == edits + faults \in op.began

(* A sync nobody disturbs, with no edit and no fault since it began and no *)
(* request of an earlier one left, makes the destination the source plus   *)
(* what there was no order to delete, unless a file and a directory of the *)
(* two trees are in each other's way; with --delete, obt.net.py diff then  *)
(* has nothing to show.                                                    *)
QuietSyncMatches ==
  /\ op.pc \in {"failed", "mismatch"} /\ Undisturbed => Clash
  /\ op.pc = "match" /\ Undisturbed => Manifest(Into) = Expected
  /\ op.pc = "match" /\ Undisturbed /\ Has("delete") =>
       Classified(Manifest(local), Manifest(node)) = {}
=============================================================================
