------------------------------ MODULE GitSync ------------------------------
(***************************************************************************)
(* obt.net.py gitsync (Client.gitsync): the client gives a repository on a *)
(* node its own branch and HEAD without a push. It looks at the node in    *)
(* several requests, ships the missing commits and LFS objects, and lets   *)
(* git check the branch out, while people edit, commit and switch branches *)
(* on the node. What git does (dirt, untracked files, checkout with and    *)
(* without -f, the smudge filter of LFS) is external.                      *)
(* The files are flat; TreeSync has the directories. The bundle is staged  *)
(* inside .git by a sync of its own, and only its commits matter here. The *)
(* client's own git commands succeed; a request to the node may not.       *)
(***************************************************************************)
EXTENDS Naturals, FiniteSets

CONSTANTS
  Files,       \* the paths of the repository
  Contents,    \* what a file may hold
  LfsFiles,    \* the files git-lfs keeps as pointers in a commit
  Commits,
  Ancestors,   \* Ancestors[c]: the commits c is built on, c included
  TreeOf,      \* TreeOf[c][f]: what c holds at f, None when nothing
  Base,        \* the commit both sides start from
  LocalHeads,  \* the commits the client's branch may be at
  NodeCommits, \* the commits people on the node make
  Foreign,     \* what people on the node write into files
  LfsLocal,    \* the objects in the client's LFS store
  MaxEdits,    \* bound on what people do, on both sides
  MaxFaults    \* bound on the requests that fail and the checkouts killed

None == "none"

ASSUME GitAssumption ==
  /\ LfsFiles \subseteq Files
  /\ Foreign \subseteq Contents /\ None \notin Contents
  /\ Base \in Commits /\ LocalHeads \cup NodeCommits \subseteq Commits
  /\ TreeOf \in [Commits -> [Files -> Contents \cup {None}]]
  /\ Ancestors \in [Commits -> SUBSET Commits]
  /\ \A c \in Commits : c \in Ancestors[c]
  /\ \A c \in Commits : \A d \in Ancestors[c] :
       Ancestors[d] \subseteq Ancestors[c] /\ (c \in Ancestors[d] => c = d)
  /\ MaxEdits \in Nat /\ MaxFaults \in Nat

Branches == {"main", "dev"}
LocalBranch == "main"

VARIABLES
  lhead,   \* the client's HEAD, on LocalBranch
  lwork,   \* the client's work tree
  pushlog, \* what sync has left on the node, by the log on the client's disk
  refs,    \* refs[b]: the node's branch b
  cur,     \* the branch the node is on
  nwork,   \* the node's work tree
  objs,    \* the commits in the node's repository
  store,   \* the objects in the node's LFS store
  filter,  \* how the node's smudge filter takes a missing object
  lock,    \* whether .git/index.lock has outlived a git that was killed
  op,      \* the gitsync the client runs
  edits,   \* what people have done so far
  faults,  \* faults so far
  work,    \* files on the node that hold somebody's uncommitted work
  seen,    \* those the gitsync has looked at and the client has not itself
  lost,    \* uncommitted work a checkout has destroyed, and how
  dropped  \* commits a checkout has left without a branch, and how

gitVars == <<lhead, lwork, pushlog, refs, cur, nwork, objs, store, filter, lock, op>>
ghosts == <<edits, faults, work, seen, lost, dropped>>
vars == <<gitVars, ghosts>>

Nothing == [v |-> None, real |-> TRUE]
Real(v) == [v |-> v, real |-> TRUE]
Pointer(v) == [v |-> v, real |-> FALSE]

Head == refs[cur]
Tracked(c) == {f \in Files : TreeOf[c][f] # None}
Differ(c, d) == {f \in Files : TreeOf[c][f] # TreeOf[d][f]}
Checkout(c) == [f \in Files |-> Real(TreeOf[c][f])]
Stubs(c) == {f \in LfsFiles \cap Tracked(c) : nwork[f] # Real(TreeOf[c][f])}

(* git status: a pointer in place of its content is not a change.          *)
Dirt == {f \in Tracked(Head) : nwork[f].v # TreeOf[Head][f]}
Untracked == {f \in Files \ Tracked(Head) : nwork[f] # Nothing}

Idle == [pc |-> "idle", lfs |-> FALSE, began |-> 0, head |-> Base, there |-> Base,
         dirty |-> {}, force |-> FALSE, missed |-> {}]
Goto(to) == op' = [op EXCEPT !.pc = to]

-----------------------------------------------------------------------------
(* People *)

Edit ==
  /\ edits < MaxEdits
  /\ edits' = edits + 1
  /\ UNCHANGED <<filter, store, op, faults, lost, dropped>>

(* What HEAD has, or a push has left there, is nobody's own work.          *)
EditNode(f, v) ==
  /\ Edit
  /\ nwork[f].v # v
  /\ nwork' = [nwork EXCEPT ![f] = Real(v)]
  /\ work' = IF v \in {TreeOf[Head][f], pushlog[f]} THEN work \ {f} ELSE work \cup {f}
  /\ seen' = seen \ {f}
  /\ UNCHANGED <<lhead, lwork, pushlog, refs, cur, objs, lock>>

(* Somebody edits and commits on the node, or changes to another branch;   *)
(* git leaves the files alone that do not differ, and needs the index.     *)
MoveNode(c) ==
  /\ Edit
  /\ ~lock
  /\ Dirt \cup Untracked = {}
  /\ nwork' = [f \in Files |-> IF f \in Differ(Head, c) THEN Real(TreeOf[c][f]) ELSE nwork[f]]
  /\ UNCHANGED <<lhead, lwork, pushlog, lock, work, seen>>

NodeCommit(c) ==
  /\ c \notin objs
  /\ Ancestors[c] \ {c} = Ancestors[Head]
  /\ MoveNode(c)
  /\ refs' = [refs EXCEPT ![cur] = c]
  /\ objs' = objs \cup {c}
  /\ UNCHANGED cur

NodeSwitch(b) ==
  /\ b # cur
  /\ MoveNode(refs[b])
  /\ cur' = b
  /\ UNCHANGED <<refs, objs>>

EditLocal(f, v) ==
  /\ Edit
  /\ lwork[f] # Real(v)
  /\ lwork' = [lwork EXCEPT ![f] = Real(v)]
  /\ UNCHANGED <<lhead, pushlog, refs, cur, nwork, objs, lock, work, seen>>

LocalMove(c) ==
  /\ Edit
  /\ c # lhead
  /\ lhead' = c
  /\ lwork' = Checkout(c)
  /\ UNCHANGED <<pushlog, refs, cur, nwork, objs, lock, work, seen>>

(* Nothing of the node's removes the lock; somebody does it by hand.       *)
Unlock ==
  /\ Edit
  /\ lock
  /\ lock' = FALSE
  /\ UNCHANGED <<lhead, lwork, pushlog, refs, cur, nwork, objs, work, seen>>

(* A sync between two gitsyncs takes unfinished work to the node; the dirt *)
(* guard keeps it off other people's.                                      *)
Push(f) ==
  /\ op = Idle
  /\ Edit
  /\ f \notin work /\ lwork[f].v \notin {None, nwork[f].v}
  /\ nwork' = [nwork EXCEPT ![f] = lwork[f]]
  /\ pushlog' = [pushlog EXCEPT ![f] = lwork[f].v]
  /\ UNCHANGED <<lhead, lwork, refs, cur, objs, lock, work, seen>>

-----------------------------------------------------------------------------
(* Client.gitsync: one action per request to the node *)

NodeAsIs ==
  UNCHANGED <<lhead, lwork, pushlog, refs, cur, nwork, filter, lock, edits, work, lost, dropped>>
Client == NodeAsIs /\ UNCHANGED faults
Fault == faults < MaxFaults /\ faults' = faults + 1

(* A request is refused or not answered in time: gitsync raises, for a     *)
(* hash it did not get as well. (The scan at the end is the one request it *)
(* takes without an answer.)                                               *)
GiveUp ==
  /\ op.pc \in {"asked", "head read", "dirt read", "judged", "fetched", "staged", "ready",
                "checked out"}
  /\ Goto("failed")
  /\ Fault /\ NodeAsIs /\ UNCHANGED <<objs, store, seen>>

(* A detached HEAD is refused before anything is asked.                    *)
Begin(lfs) ==
  /\ op = Idle
  /\ op' = [Idle EXCEPT !.pc = "asked", !.lfs = lfs, !.head = lhead, !.began = edits + faults]
  /\ Client /\ UNCHANGED <<objs, store, seen>>

ReadHead ==
  /\ op.pc = "asked"
  /\ op' = [op EXCEPT !.pc = "head read", !.there = Head]
  /\ Client /\ UNCHANGED <<objs, store, seen>>

Bundled == Ancestors[lhead] \ Ancestors[op.there]

ReadDirt ==
  /\ op.pc = "head read"
  /\ IF op.there = op.head
       THEN Goto("aligned") /\ UNCHANGED seen
       ELSE /\ op' = [op EXCEPT !.pc = "dirt read", !.dirty = Dirt]
            /\ seen' = work \cap Dirt
  /\ Client /\ UNCHANGED <<objs, store>>

(* A git status that fails is a clean one: its exit status is not read.    *)
DirtUnread ==
  /\ op.pc = "head read" /\ op.there # op.head
  /\ Goto("dirt read")
  /\ Fault /\ NodeAsIs /\ UNCHANGED <<objs, store, seen>>

(* Whose work it is, by the hash of what is there now; a file that is gone *)
(* has none.                                                               *)
\* Fault: a file is ours when a push has once left it there.
OwnByName == {f \in op.dirty : pushlog[f] # None}

Own ==
  {f \in op.dirty : /\ nwork[f] # Nothing
                    /\ nwork[f] \in {Real(pushlog[f]), lwork[f]}}

(* A commit the client has never seen is no ancestor of its own.           *)
\* Fault: that the client has seen the commit is enough.
KnownCommit == op.there \in Commits

FastForward == op.there \in Ancestors[op.head]

Judge ==
  /\ op.pc = "dirt read"
  /\ op' = IF Own # op.dirty THEN [op EXCEPT !.pc = "foreign"]
           ELSE IF ~FastForward THEN [op EXCEPT !.pc = "diverged"]
           ELSE [op EXCEPT !.pc = "judged", !.force = op.dirty # {}]
  /\ seen' = {f \in seen : nwork[f] # lwork[f]}
  /\ Client /\ UNCHANGED <<objs, store>>

(* The bundle goes from the node's HEAD as read to the client's HEAD of    *)
(* now; git makes no empty one.                                            *)
Fetch ==
  /\ op.pc = "judged"
  /\ IF Bundled # {}
       THEN objs' = objs \cup Bundled /\ Goto("fetched")
       ELSE Goto("failed") /\ UNCHANGED objs
  /\ Client /\ UNCHANGED <<store, seen>>

ToStage == LfsLocal \cap {TreeOf[op.head][f] : f \in LfsFiles}

(* _lfs_stage_missing; --no-lfs leaves it out. It does nothing, and says   *)
(* so, on a client without git-lfs. It raises when the node's store cannot *)
(* be read, when what is missing there exceeds the limit, and when part of *)
(* what it has sent has not arrived.                                       *)
StageObjects ==
  /\ op.pc = "fetched"
  /\ \/ ~op.lfs /\ Goto("staged") /\ UNCHANGED store
     \/ op.lfs /\ Goto("staged") /\ store' = store \cup ToStage
     \/ /\ op.lfs
        /\ op' = [op EXCEPT !.pc = "staged", !.missed = @ \cup {"objects"}]
        /\ UNCHANGED store
     \/ /\ op.lfs
        /\ op' = [op EXCEPT !.pc = "failed", !.missed = @ \cup {"objects"}]
        /\ \E part \in SUBSET ToStage : store' = store \cup part
  /\ Client /\ UNCHANGED <<objs, seen>>

Added == Tracked(op.head) \ Tracked(op.there)

(* _classify_debris: our litter holds what the commit holds, as content or *)
(* as pointer.                                                             *)
\* Fault: litter is told by its content alone, and a pointer has none.
DebrisUnproved(f) == FALSE

Debris(f) == nwork[f].v = TreeOf[op.head][f]

CheckUntracked ==
  /\ op.pc = "staged"
  /\ LET hits == Untracked \cap Added
     IN  /\ op' = IF \A f \in hits : Debris(f)
                    THEN [op EXCEPT !.pc = "ready", !.force = @ \/ hits # {}]
                    ELSE [op EXCEPT !.pc = "foreign"]
         /\ seen' = seen \cup (work \cap hits)
  /\ Client /\ UNCHANGED <<objs, store>>

-----------------------------------------------------------------------------
(* git checkout [-f] -B branch commit, on the node *)

Target == TreeOf[op.head]

(* Without -f git does not touch what is not as HEAD has it.               *)
Blocked ==
  /\ ~op.force
  /\ \E f \in Differ(Head, op.head) : f \in Untracked \/ (f \in Dirt /\ nwork[f] # Nothing)

Written ==
  Differ(Head, op.head) \cup
    IF op.force THEN {f \in Tracked(op.head) : nwork[f].v # Target[f]} ELSE {}

Smudges(f) == f \in LfsFiles /\ Target[f] # None
Missing == {f \in Written : Smudges(f) /\ Target[f] \notin store}

AsWritten(f) ==
  IF Smudges(f) /\ (filter = "skip" \/ f \in Missing) THEN Pointer(Target[f]) ELSE Real(Target[f])

(* What becomes of people's work and of commits. The client has what is in *)
(* its work tree and in its commit.                                        *)
Losing ==
  LET gone == {f \in work : nwork'[f] # nwork[f]}
      kept == UNION {Ancestors[refs'[b]] : b \in Branches}
      held == UNION {Ancestors[refs[b]] : b \in Branches}
  IN  /\ work' = {f \in work \ gone : nwork[f].v # TreeOf[refs'[cur']][f]}
      /\ lost' = lost \cup {[forced |-> op.force, seen |-> f \in seen] :
                              f \in {g \in gone : nwork[g].v \notin {lwork[g].v, Target[g]}}}
      /\ dropped' = dropped \cup {[read |-> c \in Ancestors[op.there]] : c \in held \ kept}

CheckoutRefused ==
  /\ op.pc = "ready"
  /\ op.head \notin objs \/ lock \/ Blocked
  /\ Goto("failed")
  /\ Client /\ UNCHANGED <<objs, store, seen>>

Checked == op.pc = "ready" /\ op.head \in objs /\ ~lock /\ ~Blocked

(* The smudge filter is required and an object is missing, or git is       *)
(* killed: some files are written, the files that failed may be gone, and  *)
(* HEAD has not moved. The node kills a git that is out of time with       *)
(* SIGKILL, and then its lock on the index stays; a git that fails, or is  *)
(* asked to end, removes it.                                               *)
CheckoutDies ==
  /\ Checked
  /\ \/ filter = "required" /\ Missing # {} /\ UNCHANGED <<faults, lock>>
     \/ Fault /\ lock' \in BOOLEAN
  /\ \E some \in SUBSET (Written \ Missing), gone \in SUBSET Missing :
       nwork' = [f \in Files |-> IF f \in some THEN AsWritten(f)
                                 ELSE IF f \in gone THEN Nothing ELSE nwork[f]]
  /\ Goto("failed")
  /\ UNCHANGED <<lhead, lwork, pushlog, refs, cur, objs, store, filter, edits, seen>>
  /\ Losing

(* A filter that is not required leaves pointers and says so, or is told   *)
(* to skip and says nothing.                                               *)
CheckoutDone ==
  /\ Checked
  /\ filter = "required" => Missing = {}
  /\ nwork' = [f \in Files |-> IF f \in Written THEN AsWritten(f) ELSE nwork[f]]
  /\ refs' = [refs EXCEPT ![LocalBranch] = op.head]
  /\ cur' = LocalBranch
  /\ Goto(IF filter = "optional" /\ Missing # {} THEN "failed" ELSE "checked out")
  /\ Losing
  /\ UNCHANGED <<lhead, lwork, pushlog, objs, store, filter, lock, edits, faults, seen>>

VerifyHead ==
  /\ op.pc = "checked out"
  /\ Goto(IF Head = op.head THEN "verified" ELSE "failed")
  /\ Client /\ UNCHANGED <<objs, store, seen>>

(* The pointer scan looks at the files this sync has written.              *)
\* Fault: --no-lfs leaves the pointer scan out as well.
ScanWithLfsOnly == IF op.lfs THEN Stubs(op.head) \cap Differ(op.there, op.head) ELSE {}

Scan == Stubs(op.head) \cap Differ(op.there, op.head)

(* A listing that fails, is not answered in time, or comes from a node     *)
(* without git-lfs, is one without pointers.                               *)
ScanPointers ==
  /\ op.pc = "verified"
  /\ \/ Scan = {} /\ Goto("ok")
     \/ Scan # {} /\ Goto("failed")
     \/ op' = [op EXCEPT !.pc = "ok", !.missed = @ \cup {"scan"}]
  /\ Client /\ UNCHANGED <<objs, store, seen>>

Over == {"aligned", "ok", "foreign", "diverged", "failed"}

Report ==
  /\ op.pc \in Over
  /\ op' = Idle /\ seen' = {}
  /\ Client /\ UNCHANGED <<objs, store>>

-----------------------------------------------------------------------------
Init ==
  /\ lhead \in LocalHeads
  /\ lwork = Checkout(lhead)
  /\ pushlog = [f \in Files |-> None]
  /\ cur \in Branches
  /\ \E c \in NodeCommits \cup {Base} : refs = [b \in Branches |-> IF b = "main" THEN c ELSE Base]
  /\ nwork = Checkout(Head)
  /\ objs = UNION {Ancestors[refs[b]] : b \in Branches}
  /\ store = {}
  /\ filter \in {"required", "optional", "skip"}
  /\ lock = FALSE
  /\ op = Idle
  /\ edits = 0 /\ faults = 0
  /\ work = {} /\ seen = {} /\ lost = {} /\ dropped = {}

People ==
  \/ \E f \in Files, v \in Foreign : EditNode(f, v)
  \/ \E c \in NodeCommits : NodeCommit(c)
  \/ \E b \in Branches : NodeSwitch(b)
  \/ \E f \in Files, v \in Foreign : EditLocal(f, v)
  \/ \E c \in LocalHeads : LocalMove(c)
  \/ \E f \in Files : Push(f)
  \/ Unlock

Next ==
  \/ People
  \/ \E lfs \in BOOLEAN : Begin(lfs)
  \/ ReadHead \/ ReadDirt \/ DirtUnread \/ Judge \/ Fetch \/ StageObjects \/ CheckUntracked
  \/ CheckoutRefused \/ CheckoutDies \/ CheckoutDone
  \/ VerifyHead \/ ScanPointers \/ GiveUp \/ Report

Spec == Init /\ [][Next]_vars
-----------------------------------------------------------------------------
(* Properties *)

Places == {"idle", "asked", "head read", "dirt read", "judged", "fetched", "staged",
           "ready", "checked out", "verified"} \cup Over
Ops == [pc : Places, lfs : BOOLEAN, began : Nat, head : LocalHeads \cup {Base},
        there : objs, dirty : SUBSET Files, force : BOOLEAN,
        missed : SUBSET {"objects", "scan"}]
Entries == {Real(v) : v \in Contents \cup {None}} \cup {Pointer(v) : v \in Contents}

(* The node's repository is closed: every branch is at a commit it has,    *)
(* and with a commit it has all that commit is built on.                   *)
TypeOK ==
  /\ lhead \in LocalHeads /\ lwork \in [Files -> Entries]
  /\ nwork \in [Files -> Entries]
  /\ pushlog \in [Files -> Contents \cup {None}]
  /\ refs \in [Branches -> objs] /\ cur \in Branches
  /\ Base \in objs /\ \A c \in objs : Ancestors[c] \subseteq objs
  /\ objs \subseteq Commits /\ store \subseteq LfsLocal
  /\ filter \in {"required", "optional", "skip"} /\ lock \in BOOLEAN
  /\ op \in Ops
  /\ edits \in 0 .. MaxEdits /\ faults \in 0 .. MaxFaults
  /\ work \subseteq Files /\ seen \subseteq Files

(* What people have on the node and the client has not is not destroyed by *)
(* a gitsync, except what it does not see: what they do after it has       *)
(* looked (at tracked files, then at untracked ones), or what a git status *)
(* that fails has kept from it; and of that only by a checkout it forces   *)
(* for its own unfinished work or litter.                                  *)
WorkKept == \A l \in lost : l.forced /\ ~l.seen

(* Commits reachable from the HEAD the gitsync has read stay on a branch,  *)
(* whatever people commit meanwhile.                                       *)
CommitsKept == \A d \in dropped : ~d.read

(* gitsync only fast-forwards: no commit on a branch of the node loses its *)
(* branch. The code does not keep this: the ancestor check is about the    *)
(* node's HEAD, and checkout -B resets the node's branch of the client's   *)
(* name, which need not be the one HEAD is on, or has moved since.         *)
OnlyFastForwards == dropped = {}

Undisturbed == op.began = edits + faults

(* The gitsync that says ok, and that nobody has disturbed, has the node   *)
(* on the client's branch and commit, and what it has written is content:  *)
(* a pointer passes only where both guards against it are gone, a smudge   *)
(* filter that is told to skip (or a node without git-lfs, that has none)  *)
(* and a listing that does not come.                                       *)
OkMeansAligned ==
  op.pc = "ok" /\ Undisturbed =>
    /\ cur = LocalBranch /\ Head = op.head
    /\ \A f \in Differ(op.there, op.head) :
         \/ nwork[f] = Real(Target[f])
         \/ filter = "skip" /\ "scan" \in op.missed

(* Every LFS path a sync that says ok has written is content, whatever the *)
(* exit status of the checkout. The code does not keep this: a listing     *)
(* that fails is taken for one without pointers.                           *)
PointerScan ==
  op.pc = "ok" /\ Undisturbed => Scan = {}

(* Pointer text in the work tree never passes as a good sync. The code     *)
(* does not keep this even when the scan is answered: it is about the      *)
(* files of this fast-forward, and those of a checkout that failed before  *)
(* it stay pointers.                                                       *)
OkMeansContent ==
  op.pc = "ok" /\ Undisturbed /\ op.missed = {} => Stubs(op.head) = {}

\* Every LFS object of the client's commit is in the client's store.
Available == \A f \in LfsFiles : Target[f] \in LfsLocal \cup {None}

(* Litter heals: a gitsync with LFS that nobody disturbs succeeds whatever *)
(* aborted gitsyncs have left, unless a commit has diverged, the client    *)
(* has unfinished work itself, an LFS object is not to be had or could not *)
(* be staged, a checkout has died on a file it had removed or has left its *)
(* lock, what is in the way is not what the client's commit holds, or the  *)
(* filter is told to skip.                                                 *)
Unhealable ==
  \/ lwork # Checkout(op.head)
  \/ filter = "skip" \/ ~Available \/ op.missed # {}
  \/ lock
  \/ \E f \in Tracked(Head) : nwork[f] = Nothing
  \/ \E f \in Dirt \cup (Untracked \cap Added) : nwork[f].v # Target[f]

LitterHeals ==
  op.pc \in {"foreign", "failed"} /\ op.lfs /\ Undisturbed => Unhealable
=============================================================================
