---------------------------- MODULE GitSyncProofs ----------------------------
(***************************************************************************)
(* Theorems about GitSync, for any commit graph, any trees and any number  *)
(* of edits and faults. The inductive invariant says what uncommitted work *)
(* is (WorkOwn), what becomes of the work a gitsync has looked at as it    *)
(* goes on (SeenOK), that it goes on only over its ancestors (FastOnly),   *)
(* and where the node is while nobody interferes (Along).                  *)
(***************************************************************************)
EXTENDS GitSync, TLAPS

WorkOwn ==
  \A f \in work : nwork[f].v \in Contents \ {TreeOf[Head][f], pushlog[f]}

SeenOK ==
  /\ op.pc \in {"idle", "asked", "head read", "judged", "fetched", "staged"} => seen = {}
  /\ op.pc \in {"dirt read", "ready"} => seen \subseteq work
  /\ op.pc = "dirt read" => seen \subseteq op.dirty
  /\ op.pc = "ready" => \A f \in seen : nwork[f].v = Target[f]

FastOnly ==
  op.pc \in {"judged", "fetched", "staged", "ready"} => op.there \in Ancestors[op.head]

(* A pointer gets past the checkout only with a filter told to skip.       *)
Aligned(f) == nwork[f].v = Target[f] /\ (nwork[f].real \/ (Smudges(f) /\ filter = "skip"))

Along ==
  /\ op.began <= edits + faults
  /\ Undisturbed /\ op.pc \in {"head read", "dirt read", "judged", "fetched", "staged", "ready"}
       => Head = op.there
  /\ Undisturbed /\ op.pc \in {"checked out", "verified", "ok"} =>
       /\ cur = LocalBranch /\ Head = op.head
       /\ \A f \in Differ(op.there, op.head) : Aligned(f)
  /\ OkMeansAligned

IInv == TypeOK /\ WorkOwn /\ SeenOK /\ FastOnly /\ WorkKept /\ CommitsKept /\ Along

-----------------------------------------------------------------------------
(* Types *)

\* The commits and contents a state speaks of.
LEMMA Known ==
  ASSUME TypeOK
  PROVE  /\ Head \in objs /\ Head \in Commits /\ op.head \in Commits /\ op.there \in Commits
         /\ lhead \in Commits
         /\ \A c \in Commits, f \in Files : TreeOf[c][f] \in Contents \cup {None}
         /\ \A c \in Commits : Ancestors[c] \subseteq Commits /\ c \in Ancestors[c]
BY GitAssumption DEF TypeOK, Ops, Branches, Head

\* What a file holds after a commit is written out, and the fields of an entry.
LEMMA EntryFacts ==
  /\ \A v \in Contents \cup {None} : Real(v) \in Entries
  /\ \A v \in Contents : Pointer(v) \in Entries
  /\ Nothing \in Entries
  /\ \A e \in Entries : e.v \in Contents \cup {None} /\ e.real \in BOOLEAN
  /\ \A e \in Entries : e.v = None => e = Nothing
  /\ \A e \in Entries : e.real => e = Real(e.v)
  /\ \A v : Real(v).v = v /\ Real(v).real /\ Pointer(v).v = v
<1>1. \A v : Real(v).v = v /\ Real(v).real = TRUE /\ Pointer(v).v = v /\ Pointer(v).real = FALSE
  BY DEF Real, Pointer
<1>2. \A v \in Contents \cup {None} : Real(v) \in Entries
  BY DEF Entries
<1>3. \A v \in Contents : Pointer(v) \in Entries
  BY DEF Entries
<1>4. Nothing = Real(None)
  BY DEF Nothing, Real
<1>5. ASSUME NEW e \in Entries
      PROVE  /\ e.v \in Contents \cup {None} /\ e.real \in BOOLEAN
             /\ e.v = None => e = Nothing
             /\ e.real => e = Real(e.v)
  <2>1. CASE \E v \in Contents \cup {None} : e = Real(v)
    <3>1. PICK v \in Contents \cup {None} : e = Real(v)
      BY <2>1
    <3>2. e.v = v /\ e.real = TRUE
      BY <3>1, <1>1
    <3> QED
      BY <3>1, <3>2, <1>4
  <2>2. CASE \E v \in Contents : e = Pointer(v)
    <3>1. PICK v \in Contents : e = Pointer(v)
      BY <2>2
    <3>2. e.v = v /\ e.real = FALSE
      BY <3>1, <1>1
    <3> QED
      BY <3>2, GitAssumption
  <2> QED
    BY <2>1, <2>2 DEF Entries
<1> QED
  BY <1>1, <1>2, <1>3, <1>4, <1>5

LEMMA CheckedOut ==
  ASSUME TypeOK, NEW f \in Files
  PROVE  /\ AsWritten(f) \in Entries /\ AsWritten(f).v = Target[f]
         /\ AsWritten(f).real \/ (Smudges(f) /\ (filter = "skip" \/ f \in Missing))
BY Known, EntryFacts DEF AsWritten, Target, Smudges

LEMMA TypeInit == Init => TypeOK
<1> SUFFICES ASSUME Init PROVE TypeOK
  OBVIOUS
<1>1. PICK c \in NodeCommits \cup {Base} :
        refs = [b \in Branches |-> IF b = "main" THEN c ELSE Base]
  BY DEF Init
<1>2. c \in Commits /\ Base \in Commits
  BY GitAssumption
<1>3. \A b \in Branches : refs[b] \in {c, Base}
  BY <1>1
<1>4. objs = Ancestors[c] \cup Ancestors[Base]
  BY <1>1 DEF Init, Branches
<1>5. /\ objs \subseteq Commits /\ Base \in objs /\ c \in objs
      /\ \A d \in objs : Ancestors[d] \subseteq objs
  BY <1>2, <1>4, GitAssumption
<1>6. refs \in [Branches -> objs] /\ cur \in Branches
  BY <1>1, <1>5 DEF Init
<1>7. \A d \in Commits, f \in Files : Real(TreeOf[d][f]) \in Entries
  BY GitAssumption, EntryFacts
<1>8. lwork \in [Files -> Entries] /\ nwork \in [Files -> Entries] /\ lhead \in LocalHeads
  BY <1>5, <1>6, <1>7, GitAssumption DEF Init, Checkout, Head
<1>9. op \in Ops
  BY <1>5, GitAssumption DEF Init, Idle, Ops, Places
<1>10. lock \in BOOLEAN /\ filter \in {"required", "optional", "skip"}
  BY DEF Init
<1>11. edits \in 0 .. MaxEdits /\ faults \in 0 .. MaxFaults /\ store \subseteq LfsLocal
  BY GitAssumption DEF Init
<1>12. pushlog \in [Files -> Contents \cup {None}] /\ work \subseteq Files /\ seen \subseteq Files
  BY DEF Init
<1> QED
  BY <1>5, <1>6, <1>8, <1>9, <1>10, <1>11, <1>12 DEF TypeOK

LEMMA TypePeople == ASSUME TypeOK, People PROVE TypeOK'
<1>1. ASSUME NEW f \in Files, NEW v \in Foreign, EditNode(f, v) PROVE TypeOK'
  <2>1. Real(v) \in Entries
    BY GitAssumption, EntryFacts
  <2>2. nwork' \in [Files -> Entries] /\ work' \subseteq Files /\ seen' \subseteq Files
    BY <1>1, <2>1 DEF TypeOK, EditNode
  <2>3. edits' \in 0 .. MaxEdits
    BY <1>1, GitAssumption DEF TypeOK, EditNode, Edit
  <2> QED
    BY <1>1, <2>2, <2>3 DEF TypeOK, Ops, EditNode, Edit
<1>2. ASSUME NEW c \in Commits, MoveNode(c) PROVE nwork' \in [Files -> Entries]
  <2>1. \A f \in Files : Real(TreeOf[c][f]) \in Entries
    BY Known, EntryFacts
  <2> QED
    BY <1>2, <2>1 DEF TypeOK, MoveNode
<1>3. ASSUME NEW c \in NodeCommits, NodeCommit(c) PROVE TypeOK'
  <2>1. c \in Commits
    BY GitAssumption
  <2>2. nwork' \in [Files -> Entries]
    BY <1>2, <1>3, <2>1 DEF NodeCommit
  <2>3. Ancestors[c] \subseteq objs' /\ objs \subseteq objs' /\ objs' = objs \cup {c}
    BY <1>3, Known DEF NodeCommit, TypeOK
  <2>4. refs' \in [Branches -> objs']
    BY <1>3, <2>3 DEF NodeCommit, TypeOK
  <2>5. /\ objs' \subseteq Commits /\ Base \in objs' /\ op.there \in objs'
        /\ \A d \in objs' : Ancestors[d] \subseteq objs'
    BY <2>1, <2>3 DEF TypeOK, Ops
  <2>6. /\ UNCHANGED <<lhead, lwork, pushlog, cur, store, filter, lock, op, faults, work, seen>>
        /\ edits' \in 0 .. MaxEdits
    BY <1>3, GitAssumption DEF NodeCommit, MoveNode, Edit, TypeOK
  <2>7. op' \in Ops'
    BY <2>5, <2>6 DEF TypeOK, Ops
  <2> QED
    BY <2>2, <2>4, <2>5, <2>6, <2>7 DEF TypeOK
<1>4. ASSUME NEW b \in Branches, NodeSwitch(b) PROVE TypeOK'
  <2>1. nwork' \in [Files -> Entries]
    BY <1>2, <1>4 DEF NodeSwitch, TypeOK
  <2> QED
    BY <1>4, <2>1, GitAssumption DEF NodeSwitch, MoveNode, Edit, TypeOK, Ops
<1>5. ASSUME NEW f \in Files, NEW v \in Foreign, EditLocal(f, v) PROVE TypeOK'
  <2>1. Real(v) \in Entries
    BY GitAssumption, EntryFacts
  <2> QED
    BY <1>5, <2>1, GitAssumption DEF TypeOK, Ops, EditLocal, Edit
<1>6. ASSUME NEW c \in LocalHeads, LocalMove(c) PROVE TypeOK'
  <2>1. Checkout(c) \in [Files -> Entries]
    BY GitAssumption, EntryFacts DEF Checkout
  <2> QED
    BY <1>6, <2>1, GitAssumption DEF TypeOK, Ops, LocalMove, Edit
<1>7. ASSUME NEW f \in Files, Push(f) PROVE TypeOK'
  <2>1. lwork[f] \in Entries /\ lwork[f].v \in Contents
    BY <1>7, EntryFacts DEF TypeOK, Push
  <2> QED
    BY <1>7, <2>1, GitAssumption DEF TypeOK, Ops, Push, Edit
<1>8. CASE Unlock
  <2>1. edits' \in 0 .. MaxEdits /\ lock' = FALSE
    BY <1>8, GitAssumption DEF TypeOK, Unlock, Edit
  <2> QED
    BY <1>8, <2>1 DEF TypeOK, Ops, Unlock, Edit
<1> QED
  BY <1>1, <1>3, <1>4, <1>5, <1>6, <1>7, <1>8 DEF People

\* The steps of the client that only look, or add objects to the node's store.
Looks ==
  \/ \E lfs \in BOOLEAN : Begin(lfs)
  \/ ReadHead \/ ReadDirt \/ Judge \/ Fetch \/ StageObjects \/ CheckUntracked
  \/ CheckoutRefused \/ VerifyHead \/ ScanPointers \/ Report

LEMMA TypeLooks == ASSUME TypeOK, Looks PROVE TypeOK'
<1>1. UNCHANGED <<lhead, lwork, pushlog, refs, cur, nwork, filter, lock, edits, faults, work>>
  BY DEF Looks, Client, NodeAsIs, Begin, ReadHead, ReadDirt, Judge, Fetch, StageObjects, CheckUntracked,
         CheckoutRefused, VerifyHead, ScanPointers, Report
<1>2. /\ objs \subseteq objs' /\ objs' \subseteq Commits
      /\ \A c \in objs' : Ancestors[c] \subseteq objs'
  <2>1. CASE Fetch
    <3>1. Bundled \subseteq Ancestors[lhead] /\ lhead \in Commits
      BY Known DEF Bundled
    <3>2. Ancestors[op.there] \subseteq objs
      BY DEF TypeOK, Ops
    <3>3. \A c \in Bundled : Ancestors[c] \subseteq Bundled \cup Ancestors[op.there]
      BY <3>1, GitAssumption DEF Bundled
    <3>4. objs' = objs \cup Bundled \/ objs' = objs
      BY <2>1 DEF Fetch
    <3> QED
      BY <3>1, <3>2, <3>3, <3>4, GitAssumption DEF TypeOK
  <2>2. CASE ~Fetch
    BY <2>2 DEF TypeOK, Looks, Begin, ReadHead, ReadDirt, Judge, StageObjects, CheckUntracked,
           CheckoutRefused, VerifyHead, ScanPointers, Report
  <2> QED
    BY <2>1, <2>2
<1>3. store' \subseteq LfsLocal
  BY DEF ToStage, TypeOK, Looks, Begin, ReadHead, ReadDirt, Judge, Fetch, StageObjects, CheckUntracked,
         CheckoutRefused, VerifyHead, ScanPointers, Report
<1>4. seen' \subseteq Files
  BY DEF TypeOK, Looks, Begin, ReadHead, ReadDirt, Judge, Fetch, StageObjects, CheckUntracked,
         CheckoutRefused, VerifyHead, ScanPointers, Report
<1>5. op' \in Ops'
  <2>1. op \in Ops'
    BY <1>2 DEF TypeOK, Ops
  <2>2. Idle \in Ops'
    BY <1>2 DEF TypeOK, Idle, Ops, Places
  <2>3. ASSUME NEW lfs \in BOOLEAN, Begin(lfs) PROVE op' \in Ops'
    <3>1. lhead \in LocalHeads /\ edits + faults \in Nat
      BY GitAssumption DEF TypeOK
    <3>2. op' = [Idle EXCEPT !.pc = "asked", !.lfs = lfs, !.head = lhead, !.began = edits + faults]
      BY <2>3 DEF Begin
    <3> QED
      BY <2>2, <3>1, <3>2 DEF Ops, Places
  <2>4. CASE ReadHead
    <3>1. Head \in objs' /\ op' = [op EXCEPT !.pc = "head read", !.there = Head]
      BY <1>2, <2>4, Known DEF ReadHead
    <3> QED
      BY <2>1, <3>1 DEF Ops, Places
  <2>5. CASE ReadDirt
    <3>1. Dirt \in SUBSET Files
      BY DEF Dirt, Tracked
    <3>2. \/ op' = [op EXCEPT !.pc = "aligned"]
          \/ op' = [op EXCEPT !.pc = "dirt read", !.dirty = Dirt]
      BY <2>5 DEF ReadDirt, Goto
    <3>3. /\ [op EXCEPT !.pc = "aligned"] \in Ops'
          /\ [op EXCEPT !.pc = "dirt read", !.dirty = Dirt] \in Ops'
      BY <2>1, <3>1 DEF Ops, Places, Over
    <3> QED
      BY <3>2, <3>3
  <2>6. CASE Judge
    BY <2>1, <2>6 DEF Judge, Ops, Places, Over
  <2>7. CASE Fetch \/ CheckoutRefused \/ VerifyHead
    BY <2>1, <2>7, ZenonT(60) DEF Fetch, CheckoutRefused, VerifyHead, Goto, Ops, Places, Over
  <2>8. CASE StageObjects \/ ScanPointers
    <3>1. \E to \in Places, m \in SUBSET {"objects", "scan"} :
            op' = [op EXCEPT !.pc = to] \/ op' = [op EXCEPT !.pc = to, !.missed = m]
      <4>1. op.missed \cup {"objects"} \in SUBSET {"objects", "scan"}
            /\ op.missed \cup {"scan"} \in SUBSET {"objects", "scan"}
        BY DEF TypeOK, Ops
      <4> QED
        BY <2>8, <4>1 DEF StageObjects, ScanPointers, Goto, Places, Over
    <3> QED
      BY <2>1, <3>1 DEF Ops
  <2>9. CASE CheckUntracked
    BY <2>1, <2>9 DEF CheckUntracked, Ops, Places, Over
  <2>10. CASE Report
    BY <2>2, <2>10 DEF Report
  <2> QED
    BY <2>3, <2>4, <2>5, <2>6, <2>7, <2>8, <2>9, <2>10 DEF Looks
<1> QED
  BY <1>1, <1>2, <1>3, <1>4, <1>5 DEF TypeOK

\* The requests that fail.
Fails == DirtUnread \/ GiveUp

LEMMA TypeFails == ASSUME TypeOK, Fails PROVE TypeOK'
<1>1. /\ UNCHANGED <<lhead, lwork, pushlog, refs, cur, nwork, objs, store, filter, lock>>
      /\ UNCHANGED <<edits, work, seen>>
  BY DEF Fails, DirtUnread, GiveUp, NodeAsIs
<1>2. op' \in Ops
  <2>1. op \in Ops /\ objs' = objs
    BY <1>1 DEF TypeOK
  <2>2. op' = [op EXCEPT !.pc = "dirt read"] \/ op' = [op EXCEPT !.pc = "failed"]
    BY DEF Fails, DirtUnread, GiveUp, Goto
  <2>3. Ops' = Ops
    BY <2>1 DEF Ops
  <2>4. [op EXCEPT !.pc = "dirt read"] \in Ops /\ [op EXCEPT !.pc = "failed"] \in Ops
    BY <2>1 DEF Ops, Places, Over
  <2> QED
    BY <2>2, <2>3, <2>4
<1>3. faults' \in 0 .. MaxFaults
  <2>1. faults < MaxFaults /\ faults' = faults + 1 /\ faults \in 0 .. MaxFaults
    BY DEF Fails, DirtUnread, GiveUp, Fault, TypeOK
  <2> QED
    BY <2>1, GitAssumption
<1> QED
  BY <1>1, <1>2, <1>3 DEF TypeOK, Ops

LEMMA TypeCheckout == ASSUME TypeOK, CheckoutDies \/ CheckoutDone PROVE TypeOK'
<1>1. nwork' \in [Files -> Entries]
  <2>1. \A f \in Files : nwork[f] \in Entries /\ AsWritten(f) \in Entries
    BY CheckedOut DEF TypeOK
  <2>2. CASE CheckoutDone
    BY <2>1, <2>2 DEF CheckoutDone
  <2>3. CASE CheckoutDies
    BY <2>1, <2>3, EntryFacts DEF CheckoutDies
  <2> QED
    BY <2>2, <2>3
<1>2. refs' \in [Branches -> objs'] /\ cur' \in Branches /\ objs' = objs
  BY DEF TypeOK, CheckoutDies, CheckoutDone, Checked, LocalBranch, Branches
<1>3. op' \in Ops
  BY ZenonT(60) DEF TypeOK, CheckoutDies, CheckoutDone, Goto, Ops, Places, Over
<1>4. work' \subseteq Files
  BY DEF TypeOK, CheckoutDies, CheckoutDone, Losing
<1>5. faults' \in 0 .. MaxFaults
  <2>1. faults' = faults \/ (faults < MaxFaults /\ faults' = faults + 1)
    BY DEF CheckoutDies, CheckoutDone, Fault
  <2> QED
    BY <2>1, GitAssumption DEF TypeOK
<1>6. lock' \in BOOLEAN
  BY DEF TypeOK, CheckoutDies, CheckoutDone
<1> QED
  BY <1>1, <1>2, <1>3, <1>4, <1>5, <1>6 DEF TypeOK, Ops, CheckoutDies, CheckoutDone

LEMMA NextIs == Next <=> People \/ Looks \/ Fails \/ CheckoutDies \/ CheckoutDone
BY DEF Next, Looks, Fails

LEMMA TypeStep == TypeOK /\ [Next]_vars => TypeOK'
<1> SUFFICES ASSUME TypeOK, [Next]_vars PROVE TypeOK'
  OBVIOUS
<1>1. CASE UNCHANGED vars
  BY <1>1 DEF vars, gitVars, ghosts, TypeOK, Ops
<1> QED
  BY <1>1, NextIs, TypePeople, TypeLooks, TypeFails, TypeCheckout

-----------------------------------------------------------------------------
(* People *)

LEMMA InvInit == Init => IInv
<1> SUFFICES ASSUME Init PROVE IInv
  OBVIOUS
<1>1. TypeOK
  BY TypeInit
<1>2. WorkOwn /\ SeenOK /\ FastOnly /\ WorkKept /\ CommitsKept
  BY DEF Init, Idle, WorkOwn, SeenOK, FastOnly, WorkKept, CommitsKept
<1>3. Along
  BY DEF Init, Idle, Along, OkMeansAligned
<1> QED
  BY <1>1, <1>2, <1>3 DEF IInv

\* Whatever people do, and any fault, ends the claims about an undisturbed gitsync.
LEMMA Disturbing ==
  ASSUME TypeOK, Along, op'.began = op.began,
         \/ edits' = edits + 1 /\ faults' = faults
         \/ edits' = edits /\ faults' = faults + 1
  PROVE  Along' /\ ~Undisturbed'
<1>1. edits \in Nat /\ faults \in Nat /\ op.began \in Nat /\ op.began <= edits + faults
  <2>1. op.began \in Nat /\ op.began <= edits + faults
    BY DEF TypeOK, Ops, Along
  <2>2. edits \in Nat /\ faults \in Nat
    BY GitAssumption DEF TypeOK
  <2> QED
    BY <2>1, <2>2
<1>2. op.began < edits' + faults'
  BY <1>1
<1>3. op'.began < edits' + faults'
  BY <1>2
<1>4. edits' + faults' \in Nat
  BY <1>1
<1>5. ~Undisturbed' /\ (op.began <= edits + faults)'
  BY <1>1, <1>3, <1>4 DEF Undisturbed
<1> QED
  BY <1>5 DEF Along, OkMeansAligned

\* Work is in no commit: while git status is clean there is none.
LEMMA NoWork ==
  ASSUME TypeOK, WorkOwn, Dirt \cup Untracked = {} PROVE work = {}
<1> SUFFICES ASSUME NEW f \in work PROVE FALSE
  OBVIOUS
<1>1. f \in Files /\ nwork[f].v \in Contents /\ nwork[f].v # TreeOf[Head][f]
  BY DEF TypeOK, WorkOwn
<1>2. nwork[f] # Nothing
  BY <1>1, GitAssumption, EntryFacts DEF Nothing, Real
<1> QED
  BY <1>1, <1>2 DEF Dirt, Untracked

LEMMA PeopleInv == ASSUME IInv, People PROVE IInv'
<1> USE DEF IInv
<1>1. /\ TypeOK' /\ UNCHANGED <<op, faults, lost, dropped>> /\ edits' = edits + 1
  BY TypePeople
  DEF People, EditNode, NodeCommit, NodeSwitch, MoveNode, EditLocal, LocalMove, Push, Unlock, Edit
<1>2. Along' /\ WorkKept' /\ CommitsKept' /\ FastOnly'
  BY <1>1, Disturbing DEF IInv, WorkKept, CommitsKept, FastOnly
<1>3. ASSUME NEW f \in Files, NEW v \in Foreign, EditNode(f, v) PROVE WorkOwn' /\ SeenOK'
  <2>1. /\ nwork' = [nwork EXCEPT ![f] = Real(v)] /\ v \in Contents
        /\ work' = IF v \in {TreeOf[Head][f], pushlog[f]} THEN work \ {f} ELSE work \cup {f}
        /\ seen' = seen \ {f} /\ UNCHANGED <<refs, cur, pushlog>>
    BY <1>3, GitAssumption DEF EditNode
  <2>2. nwork'[f].v = v /\ \A g \in Files \ {f} : nwork'[g] = nwork[g]
    BY <2>1, EntryFacts DEF TypeOK
  <2>3. WorkOwn'
    BY <2>1, <2>2 DEF WorkOwn, Head, TypeOK
  <2>4. SeenOK'
    BY <1>1, <2>1, <2>2 DEF SeenOK, Target, TypeOK
  <2> QED
    BY <2>3, <2>4
<1>4. ASSUME NEW c \in Commits, MoveNode(c) PROVE WorkOwn' /\ SeenOK'
  <2>1. work = {} /\ work' = {} /\ seen' = seen
    BY <1>4, NoWork DEF MoveNode
  <2> QED
    BY <1>1, <2>1 DEF WorkOwn, SeenOK
<1>5. ASSUME NEW f \in Files, NEW v \in Foreign, EditLocal(f, v) PROVE WorkOwn' /\ SeenOK'
  BY <1>1, <1>5 DEF EditLocal, WorkOwn, SeenOK, Head, Target
<1>6. ASSUME NEW c \in LocalHeads, LocalMove(c) PROVE WorkOwn' /\ SeenOK'
  BY <1>1, <1>6 DEF LocalMove, WorkOwn, SeenOK, Head, Target
<1>7. ASSUME NEW f \in Files, Push(f) PROVE WorkOwn' /\ SeenOK'
  <2>1. f \notin work /\ op = Idle /\ UNCHANGED <<work, seen, refs, cur>>
    BY <1>7 DEF Push
  <2>2. \A g \in Files \ {f} : nwork'[g] = nwork[g] /\ pushlog'[g] = pushlog[g]
    BY <1>7 DEF Push, TypeOK
  <2>3. WorkOwn'
    BY <2>1, <2>2 DEF WorkOwn, Head, TypeOK
  <2>4. SeenOK'
    BY <1>1, <2>1 DEF SeenOK, Idle
  <2> QED
    BY <2>3, <2>4
<1>8. ASSUME Unlock PROVE WorkOwn' /\ SeenOK'
  BY <1>1, <1>8 DEF Unlock, WorkOwn, SeenOK, Head, Target
<1>9. WorkOwn' /\ SeenOK'
  <2>1. CASE \E c \in NodeCommits : NodeCommit(c)
    BY <2>1, <1>4, GitAssumption DEF NodeCommit
  <2>2. CASE \E b \in Branches : NodeSwitch(b)
    BY <2>2, <1>4 DEF NodeSwitch, TypeOK
  <2> QED
    BY <2>1, <2>2, <1>3, <1>5, <1>6, <1>7, <1>8 DEF People
<1> QED
  BY <1>1, <1>2, <1>9

-----------------------------------------------------------------------------
(* The client before and after the checkout *)

\* The guard at work: what is dirty is ours, so no work that was seen is left.
LEMMA JudgedOwn ==
  ASSUME TypeOK, WorkOwn, SeenOK, op.pc = "dirt read", Own = op.dirty
  PROVE  {f \in seen : nwork[f] # lwork[f]} = {}
<1> SUFFICES ASSUME NEW f \in seen PROVE nwork[f] = lwork[f]
  OBVIOUS
<1>1. f \in Own /\ f \in work
  BY DEF SeenOK
<1>2. nwork[f] # Real(pushlog[f])
  <2>1. Real(pushlog[f]).v = pushlog[f]
    BY DEF Real
  <2>2. nwork[f].v # pushlog[f]
    BY <1>1 DEF WorkOwn
  <2> QED
    BY <2>1, <2>2
<1> QED
  BY <1>1, <1>2 DEF Own

LEMMA LooksSeen == ASSUME IInv, Looks PROVE SeenOK'
<1> USE DEF IInv
<1>1. UNCHANGED <<nwork, work>>
  BY DEF Looks, Client, NodeAsIs, Begin, ReadHead, ReadDirt, Judge, Fetch, StageObjects, CheckUntracked,
         CheckoutRefused, VerifyHead, ScanPointers, Report
<1>0. op \in Ops
  BY DEF TypeOK
<1>2. ASSUME NEW lfs \in BOOLEAN, Begin(lfs) PROVE SeenOK'
  <2>1. op'.pc = "asked" /\ seen' = seen /\ seen = {}
    BY <1>2 DEF Begin, Idle, SeenOK
  <2> QED
    BY <2>1 DEF SeenOK
<1>3. CASE ReadHead
  <2>1. op'.pc = "head read" /\ seen' = seen /\ seen = {}
    BY <1>0, <1>3 DEF ReadHead, SeenOK, Ops
  <2> QED
    BY <2>1 DEF SeenOK
<1>4. CASE ReadDirt
  <2>1. \/ op'.pc = "aligned"
        \/ op'.pc = "dirt read" /\ op'.dirty = Dirt /\ seen' = work \cap Dirt
    BY <1>0, <1>4 DEF ReadDirt, Goto, Ops
  <2> QED
    BY <1>1, <2>1 DEF SeenOK
<1>5. CASE Judge
  <2>1. \/ op'.pc \in {"foreign", "diverged"}
        \/ op'.pc = "judged" /\ Own = op.dirty /\ seen' = {f \in seen : nwork[f] # lwork[f]}
    BY <1>0, <1>5 DEF Judge, Ops
  <2>2. op'.pc = "judged" => seen' = {}
    BY <1>5, <2>1, JudgedOwn DEF Judge
  <2> QED
    BY <2>1, <2>2 DEF SeenOK
<1>6. CASE Fetch \/ StageObjects
  <2>1. op'.pc \in {"fetched", "staged", "failed"} /\ seen' = seen /\ seen = {}
    BY <1>0, <1>6 DEF Fetch, StageObjects, Goto, SeenOK, Ops
  <2> QED
    BY <2>1 DEF SeenOK
<1>7. CASE CheckUntracked
  <2> DEFINE hits == Untracked \cap Added
  <2>1. seen = {} /\ seen' = work \cap hits
    BY <1>7 DEF CheckUntracked, SeenOK
  <2>2. \/ op'.pc = "foreign"
        \/ op'.pc = "ready" /\ op'.head = op.head /\ \A f \in hits : Debris(f)
    BY <1>0, <1>7 DEF CheckUntracked, Ops
  <2> QED
    BY <1>1, <2>1, <2>2 DEF SeenOK, Debris, Target
<1>8. CASE CheckoutRefused \/ VerifyHead \/ ScanPointers
  <2>1. op'.pc \in {"failed", "verified", "ok"}
    BY <1>0, <1>8 DEF CheckoutRefused, VerifyHead, ScanPointers, Goto, Ops
  <2> QED
    BY <2>1 DEF SeenOK
<1>9. CASE Report
  BY <1>9 DEF Report, Idle, SeenOK
<1> QED
  BY <1>2, <1>3, <1>4, <1>5, <1>6, <1>7, <1>8, <1>9 DEF Looks

LEMMA LooksAlong == ASSUME IInv, Looks PROVE FastOnly' /\ Along'
<1> USE DEF IInv
<1>1. /\ UNCHANGED <<lhead, lwork, pushlog, refs, cur, nwork, filter, edits, faults, work>>
      /\ Head' = Head
  BY DEF Looks, Client, NodeAsIs, Begin, ReadHead, ReadDirt, Judge, Fetch, StageObjects, CheckUntracked,
         CheckoutRefused, VerifyHead, ScanPointers, Report, Head
<1>2. op \in Ops /\ op.began <= edits + faults
  BY DEF TypeOK, Along
<1>3. ASSUME NEW lfs \in BOOLEAN, Begin(lfs) PROVE FastOnly' /\ Along'
  <2>1. op'.pc = "asked" /\ op'.began = edits + faults
    BY <1>3 DEF Begin, Idle
  <2>2. edits + faults \in Nat
    BY GitAssumption DEF TypeOK
  <2>3. op'.began <= edits' + faults'
    BY <1>1, <2>1, <2>2
  <2> QED
    BY <2>1, <2>3 DEF FastOnly, Along, OkMeansAligned
<1>4. CASE ReadHead
  <2>1. op'.pc = "head read" /\ op'.there = Head /\ op'.began = op.began
    BY <1>2, <1>4 DEF ReadHead, Ops
  <2>2. op'.began <= edits' + faults' /\ Head' = op'.there
    BY <1>1, <1>2, <2>1
  <2> QED
    BY <2>1, <2>2 DEF FastOnly, Along, OkMeansAligned
<1>5. CASE Report
  <2>1. op'.pc = "idle" /\ op'.began = 0
    BY <1>5 DEF Report, Idle
  <2>2. edits + faults \in Nat
    BY GitAssumption DEF TypeOK
  <2>3. op'.began <= edits' + faults'
    BY <1>1, <2>1, <2>2
  <2> QED
    BY <2>1, <2>3 DEF FastOnly, Along, OkMeansAligned
\* The other steps keep what has been read.
<1>6. CASE ReadDirt \/ Judge \/ Fetch \/ StageObjects \/ CheckUntracked \/ CheckoutRefused
  <2>1. /\ op'.there = op.there /\ op'.head = op.head /\ op'.began = op.began
        /\ op'.pc \in {"aligned", "dirt read", "foreign", "diverged", "judged", "fetched", "staged",
                      "ready", "failed"}
    BY <1>2, <1>6, ZenonT(60)
    DEF ReadDirt, Judge, Fetch, StageObjects, CheckUntracked, CheckoutRefused, Goto, Ops
  <2>2. op.pc \in {"head read", "dirt read", "judged", "fetched", "staged", "ready"}
    BY <1>6 DEF ReadDirt, Judge, Fetch, StageObjects, CheckUntracked, CheckoutRefused
  <2>3. Along'
    BY <1>1, <1>2, <2>1, <2>2 DEF Along, OkMeansAligned, Undisturbed
  <2>4. FastOnly'
    <3>1. CASE Judge
      <4>1. op'.pc = "judged" => FastForward
        BY <1>2, <3>1 DEF Judge, Ops
      <4>2. op'.pc \in {"foreign", "diverged", "judged"}
        BY <1>2, <3>1 DEF Judge, Ops
      <4> QED
        BY <2>1, <4>1, <4>2 DEF FastForward, FastOnly
    <3>2. CASE ReadDirt
      <4>1. op'.pc \in {"aligned", "dirt read"}
        BY <1>2, <3>2 DEF ReadDirt, Goto, Ops
      <4> QED
        BY <4>1 DEF FastOnly
    <3>3. CASE Fetch \/ StageObjects \/ CheckUntracked \/ CheckoutRefused
      BY <2>1, <3>3 DEF FastOnly, Fetch, StageObjects, CheckUntracked, CheckoutRefused
    <3> QED
      BY <1>6, <3>1, <3>2, <3>3
  <2> QED
    BY <2>3, <2>4
<1>7. CASE VerifyHead \/ ScanPointers
  <2>1. /\ op'.there = op.there /\ op'.head = op.head /\ op'.began = op.began
        /\ op'.pc \in {"verified", "ok", "failed"} /\ op.pc \in {"checked out", "verified"}
    BY <1>2, <1>7 DEF VerifyHead, ScanPointers, Goto, Ops
  <2>2. Undisturbed' => Undisturbed
    BY <1>1, <2>1 DEF Undisturbed
  <2>3. \A f \in Differ(op.there, op.head) : Aligned(f)' <=> Aligned(f)
    BY <1>1, <2>1 DEF Aligned, Target, Smudges
  <2>4. Undisturbed =>
          /\ cur = LocalBranch /\ Head = op.head
          /\ \A f \in Differ(op.there, op.head) : Aligned(f)
    BY <2>1 DEF Along
  <2>5. Differ(op.there, op.head)' = Differ(op.there, op.head)
    BY <2>1 DEF Differ
  <2>6. OkMeansAligned'
    <3> SUFFICES ASSUME op'.pc = "ok", Undisturbed
                 PROVE  /\ cur = LocalBranch /\ Head = op.head
                        /\ \A f \in Differ(op.there, op.head) :
                             nwork[f] = Real(Target[f]) \/ (filter = "skip" /\ "scan" \in op'.missed)
      BY <1>1, <2>1, <2>2, <2>5 DEF OkMeansAligned, Target
    <3>1. op.pc = "verified" /\ (Scan = {} \/ "scan" \in op'.missed)
      BY <1>2, <1>7 DEF VerifyHead, ScanPointers, Goto, Ops
    <3>2. ASSUME NEW f \in Differ(op.there, op.head), ~(filter = "skip" /\ "scan" \in op'.missed)
          PROVE  nwork[f] = Real(Target[f])
      <4>1. f \in Files /\ Aligned(f) /\ nwork[f] \in Entries
        BY <2>4 DEF Differ, TypeOK
      <4>2. CASE filter # "skip" \/ ~Smudges(f)
        BY <4>1, <4>2, EntryFacts DEF Aligned
      <4>3. CASE Scan = {} /\ Smudges(f)
        BY <4>1, <4>3 DEF Scan, Stubs, Tracked, Smudges, Target
      <4> QED
        BY <3>1, <3>2, <4>2, <4>3
    <3> QED
      BY <2>4, <3>2
  <2>7. FastOnly'
    BY <2>1 DEF FastOnly
  <2> QED
    BY <1>1, <1>2, <2>1, <2>2, <2>3, <2>4, <2>5, <2>6, <2>7 DEF Along
<1> QED
  BY <1>3, <1>4, <1>5, <1>6, <1>7 DEF Looks

LEMMA LooksInv == ASSUME IInv, Looks PROVE IInv'
<1>1. /\ UNCHANGED <<pushlog, refs, cur, nwork, work, lost, dropped>> /\ TypeOK'
  BY TypeLooks DEF IInv, Looks, Client, NodeAsIs, Begin, ReadHead, ReadDirt, Judge, Fetch, StageObjects,
         CheckUntracked, CheckoutRefused, VerifyHead, ScanPointers, Report
<1>2. WorkOwn' /\ WorkKept' /\ CommitsKept'
  BY <1>1 DEF IInv, WorkOwn, Head, WorkKept, CommitsKept
<1> QED
  BY <1>1, <1>2, LooksSeen, LooksAlong DEF IInv

-----------------------------------------------------------------------------
(* The checkout *)

\* What a checkout touches of people's work it may only touch by force, and
\* what the gitsync has seen of it is what the commit holds.
LEMMA Spared ==
  ASSUME IInv, Checked, NEW f \in work \cap Written
  PROVE  /\ op.force
         /\ f \in seen => nwork[f].v = Target[f]
<1>1. f \in Files /\ nwork[f].v \in Contents /\ nwork[f].v # TreeOf[Head][f]
  BY DEF IInv, TypeOK, WorkOwn
<1>2. nwork[f] # Nothing
  BY <1>1, GitAssumption DEF Nothing
<1>3. f \in Dirt \/ f \in Untracked
  BY <1>1, <1>2 DEF Dirt, Untracked
<1>4. op.force
  BY <1>2, <1>3 DEF Checked, Blocked, Written
<1>5. f \in seen => nwork[f].v = Target[f]
  BY DEF IInv, SeenOK, Checked
<1> QED
  BY <1>4, <1>5

LEMMA CheckoutWork ==
  ASSUME IInv, CheckoutDies \/ CheckoutDone PROVE WorkOwn' /\ WorkKept'
<1>1. Checked /\ Losing /\ pushlog' = pushlog
  BY DEF CheckoutDies, CheckoutDone
<1>2. \A f \in work : nwork'[f] # nwork[f] => f \in Written
  BY DEF CheckoutDies, CheckoutDone, Missing, IInv, TypeOK
<1>3. WorkOwn'
  <2> SUFFICES ASSUME NEW f \in work'
               PROVE  nwork'[f].v \in Contents \ {TreeOf[Head'][f], pushlog'[f]}
    BY DEF WorkOwn
  <2>1. f \in work /\ nwork'[f] = nwork[f] /\ nwork[f].v # TreeOf[refs'[cur']][f]
    BY <1>1 DEF Losing
  <2> QED
    BY <1>1, <2>1 DEF IInv, WorkOwn, Head
<1>4. WorkKept'
  <2> SUFFICES ASSUME NEW l \in lost', l \notin lost PROVE l.forced /\ ~l.seen
    BY DEF IInv, WorkKept
  <2>1. PICK f \in work : /\ nwork'[f] # nwork[f] /\ nwork[f].v # Target[f]
                          /\ l = [forced |-> op.force, seen |-> f \in seen]
    BY <1>1 DEF Losing
  <2>2. op.force /\ f \notin seen
    BY <1>1, <1>2, <2>1, Spared
  <2> QED
    BY <2>1, <2>2
<1> QED
  BY <1>3, <1>4

LEMMA CheckoutCommits ==
  ASSUME IInv, CheckoutDies \/ CheckoutDone PROVE CommitsKept'
<1>1. Checked /\ Losing /\ op.head \in Commits /\ op.there \in Ancestors[op.head]
  BY Known DEF IInv, CheckoutDies, CheckoutDone, Checked, FastOnly
<1>2. ASSUME NEW c \in Ancestors[op.there],
             c \in UNION {Ancestors[refs[b]] : b \in Branches}
      PROVE  c \in UNION {Ancestors[refs'[b]] : b \in Branches}
  <2>1. CASE CheckoutDies
    BY <1>2, <2>1 DEF CheckoutDies
  <2>2. CASE CheckoutDone
    <3>1. refs'[LocalBranch] = op.head /\ LocalBranch \in Branches
      BY <2>2 DEF CheckoutDone, IInv, TypeOK, LocalBranch, Branches
    <3>2. c \in Ancestors[op.head]
      BY <1>1, GitAssumption
    <3> QED
      BY <3>1, <3>2
  <2> QED
    BY <2>1, <2>2
<1> SUFFICES ASSUME NEW d \in dropped', d \notin dropped PROVE ~d.read
  BY DEF IInv, CommitsKept
<1>3. PICK c \in UNION {Ancestors[refs[b]] : b \in Branches} :
        /\ c \notin UNION {Ancestors[refs'[b]] : b \in Branches}
        /\ d = [read |-> c \in Ancestors[op.there]]
  BY <1>1 DEF Losing
<1> QED
  BY <1>2, <1>3

LEMMA CheckoutAlong ==
  ASSUME IInv, CheckoutDies \/ CheckoutDone PROVE SeenOK' /\ FastOnly' /\ Along'
<1> USE DEF IInv
<1>0. op \in Ops /\ op.pc = "ready" /\ op.began <= edits + faults /\ op.began \in Nat
  BY DEF TypeOK, Ops, CheckoutDies, CheckoutDone, Checked, Along
<1>1. /\ op'.pc \in {"failed", "checked out"} /\ op'.began = op.began
      /\ op'.there = op.there /\ op'.head = op.head
  BY <1>0 DEF CheckoutDies, CheckoutDone, Goto, Ops
<1>2. SeenOK' /\ FastOnly'
  BY <1>1 DEF SeenOK, FastOnly
<1>3. op'.began <= edits' + faults'
  <2>1. edits \in Nat /\ faults \in Nat
    BY GitAssumption DEF TypeOK
  <2>2. edits' = edits /\ (faults' = faults \/ faults' = faults + 1)
    BY DEF CheckoutDies, CheckoutDone, Fault
  <2>3. edits + faults <= edits' + faults' /\ edits + faults \in Nat /\ edits' + faults' \in Nat
    BY <2>1, <2>2
  <2>4. op'.began \in Nat /\ op'.began <= edits + faults
    BY <1>0, <1>1
  <2> QED
    BY <2>3, <2>4
<1>4. CASE CheckoutDies
  <2>1. op'.pc = "failed"
    BY <1>0, <1>4 DEF CheckoutDies, Goto, Ops
  <2> QED
    BY <1>2, <1>3, <2>1 DEF Along, OkMeansAligned
<1>5. CASE CheckoutDone
  <2>1. cur' = LocalBranch /\ Head' = op.head
    BY <1>5 DEF CheckoutDone, Head, TypeOK, LocalBranch, Branches
  <2>2. UNCHANGED <<edits, faults>> /\ (Undisturbed' => Head = op.there)
    BY <1>0, <1>1, <1>5 DEF CheckoutDone, Along, Undisturbed
  <2>3. ASSUME Undisturbed', op'.pc = "checked out", NEW f \in Differ(op.there, op.head)
        PROVE  Aligned(f)'
    <3>1. f \in Files /\ f \in Written
      BY <2>2, <2>3 DEF Written, Differ
    <3>2. nwork'[f] = AsWritten(f) /\ UNCHANGED filter
      BY <1>5, <3>1 DEF CheckoutDone
    <3>3. Target' = Target /\ (Smudges(f)' <=> Smudges(f))
      BY <1>1 DEF Target, Smudges
    <3>4. filter = "skip" \/ Missing = {}
      <4>1. op'.pc = (IF filter = "optional" /\ Missing # {} THEN "failed" ELSE "checked out")
        BY <1>0, <1>5 DEF CheckoutDone, Goto, Ops
      <4>2. filter \in {"required", "optional", "skip"} /\ (filter = "required" => Missing = {})
        BY <1>5 DEF CheckoutDone, TypeOK
      <4> QED
        BY <2>3, <4>1, <4>2
    <3> QED
      BY <3>1, <3>2, <3>3, <3>4, CheckedOut DEF Aligned
  <2>4. Differ(op.there, op.head)' = Differ(op.there, op.head)
    BY <1>1 DEF Differ
  <2> QED
    BY <1>1, <1>2, <1>3, <2>1, <2>3, <2>4 DEF Along, OkMeansAligned
<1> QED
  BY <1>4, <1>5

LEMMA FailsInv == ASSUME IInv, Fails PROVE IInv'
<1> USE DEF IInv
<1>1. /\ UNCHANGED <<lhead, pushlog, refs, cur, nwork, filter, edits, work, seen, lost, dropped>>
      /\ faults' = faults + 1 /\ Head' = Head
  BY DEF Fails, DirtUnread, GiveUp, NodeAsIs, Fault, Head
<1>2. /\ op'.pc \in {"dirt read", "failed"} /\ op'.began = op.began
      /\ op'.pc = "dirt read" => seen = {}
  BY DEF Fails, DirtUnread, GiveUp, Goto, TypeOK, Ops, SeenOK
<1>3. TypeOK'
  BY TypeFails
<1>4. Along'
  BY <1>1, <1>2, Disturbing
<1>5. SeenOK' /\ FastOnly'
  BY <1>1, <1>2 DEF SeenOK, FastOnly
<1>6. WorkOwn' /\ WorkKept' /\ CommitsKept'
  BY <1>1 DEF WorkOwn, WorkKept, CommitsKept
<1> QED
  BY <1>3, <1>4, <1>5, <1>6

LEMMA InvStep == IInv /\ [Next]_vars => IInv'
<1> SUFFICES ASSUME IInv, [Next]_vars PROVE IInv'
  OBVIOUS
<1>1. CASE UNCHANGED vars
  <2>1. /\ UNCHANGED <<lhead, lwork, pushlog, refs, cur, nwork, objs, store, filter, lock, op>>
        /\ UNCHANGED <<edits, faults, work, seen, lost, dropped>>
    BY <1>1 DEF vars, gitVars, ghosts
  <2>2. TypeOK'
    BY <2>1 DEF IInv, TypeOK, Ops
  <2>3. WorkOwn' /\ SeenOK' /\ FastOnly' /\ WorkKept' /\ CommitsKept'
    BY <2>1 DEF IInv, WorkOwn, SeenOK, FastOnly, WorkKept, CommitsKept, Head, Target
  <2>4. /\ Head' = Head /\ Undisturbed' = Undisturbed /\ Target' = Target
        /\ \A f : Aligned(f)' = Aligned(f)
    BY <2>1 DEF Head, Undisturbed, Target, Aligned, Smudges
  <2>5. OkMeansAligned'
    BY <2>1, <2>4 DEF IInv, Along, OkMeansAligned, Differ
  <2>6. Along'
    BY <2>1, <2>4, <2>5 DEF IInv, Along, Differ
  <2> QED
    BY <2>2, <2>3, <2>6 DEF IInv
<1>2. CASE CheckoutDies \/ CheckoutDone
  BY <1>2, TypeCheckout, CheckoutWork, CheckoutCommits, CheckoutAlong DEF IInv
<1> QED
  BY <1>1, <1>2, NextIs, PeopleInv, LooksInv, FailsInv

LEMMA Invariance == Spec => []IInv
BY InvInit, InvStep, PTL DEF Spec

-----------------------------------------------------------------------------
(* Litter heals. What a gitsync knows of the node while nobody disturbs it *)
(* (Phase) and where pointers come from (PointersAtHead): on top of IInv.  *)

LocalReal == \A f \in Files : lwork[f].real

(* A checkout leaves a pointer only where it has moved HEAD to its commit, *)
(* and whatever moves HEAD on writes the files that differ.                *)
PointersAtHead ==
  filter # "skip" => \A f \in Files : nwork[f].real \/ nwork[f].v = TreeOf[Head][f]

Phase ==
  /\ Undisturbed /\ op.pc # "idle" => lhead = op.head
  /\ Undisturbed /\ op.pc \in {"dirt read", "judged", "fetched", "staged", "ready"} =>
       op.there # op.head /\ op.dirty = Dirt
  /\ op.pc \in {"judged", "fetched", "staged"} => (op.force <=> op.dirty # {})
  /\ Undisturbed /\ op.pc \in {"fetched", "staged", "ready"} => op.head \in objs
  /\ Undisturbed /\ op.pc = "ready" /\ ~op.force => Dirt = {} /\ Untracked \cap Added = {}
  /\ op.pc \in {"staged", "ready"} /\ op.lfs /\ op.missed = {} => ToStage \subseteq store
  /\ Undisturbed /\ op.pc \in {"checked out", "verified"} /\ op.lfs /\ op.missed = {} =>
       filter = "skip" \/ ~Available
         \/ \A f \in Differ(op.there, op.head) : nwork[f] = Real(Target[f])

HealInv == IInv /\ LocalReal /\ PointersAtHead /\ Phase /\ LitterHeals

LEMMA HealInit == Init => HealInv
<1> SUFFICES ASSUME Init PROVE HealInv
  OBVIOUS
<1>1. IInv
  BY InvInit
<1>2. LocalReal /\ PointersAtHead
  <2>1. \A v : Real(v).real = TRUE
    BY DEF Real
  <2>2. lwork = Checkout(lhead) /\ nwork = Checkout(Head)
    BY DEF Init
  <2> QED
    BY <2>1, <2>2 DEF Checkout, LocalReal, PointersAtHead
<1>3. Phase /\ LitterHeals
  BY DEF Init, Idle, Phase, LitterHeals
<1> QED
  BY <1>1, <1>2, <1>3 DEF HealInv

LEMMA HealPeople == ASSUME HealInv, People PROVE HealInv'
<1>1. IInv /\ IInv'
  BY PeopleInv DEF HealInv
<1>2. /\ UNCHANGED <<op, faults, filter, store>> /\ edits' = edits + 1
  BY DEF People, EditNode, NodeCommit, NodeSwitch, MoveNode, EditLocal, LocalMove, Push, Unlock, Edit
<1>3. edits \in Nat /\ faults \in Nat /\ op.began \in Nat /\ op.began <= edits + faults
  <2>1. TypeOK /\ op.began <= edits + faults
    BY <1>1 DEF IInv, Along
  <2> QED
    BY <2>1, GitAssumption DEF TypeOK, Ops
<1>4. ~Undisturbed'
  BY <1>2, <1>3 DEF Undisturbed
<1>5. Phase' /\ LitterHeals'
  <2>1. ToStage' = ToStage
    BY <1>2 DEF ToStage
  <2> QED
    BY <1>2, <1>4, <2>1 DEF HealInv, Phase, LitterHeals
<1>6. TypeOK /\ LocalReal /\ PointersAtHead
  BY DEF HealInv, IInv
<1>7. \A v : Real(v).real = TRUE /\ Real(v).v = v
  BY DEF Real
<1>8. ASSUME NEW f \in Files, NEW v \in Foreign, EditNode(f, v) PROVE LocalReal' /\ PointersAtHead'
  BY <1>2, <1>6, <1>7, <1>8 DEF EditNode, LocalReal, PointersAtHead, Head, TypeOK
<1>9. ASSUME NEW c \in Commits, MoveNode(c), Head' = c PROVE LocalReal' /\ PointersAtHead'
  <2>1. /\ UNCHANGED lwork
        /\ nwork' = [f \in Files |-> IF f \in Differ(Head, c) THEN Real(TreeOf[c][f]) ELSE nwork[f]]
    BY <1>9 DEF MoveNode
  <2>2. \A f \in Files : f \notin Differ(Head, c) => TreeOf[c][f] = TreeOf[Head][f]
    BY DEF Differ
  <2> QED
    BY <1>2, <1>6, <1>7, <1>9, <2>1, <2>2 DEF LocalReal, PointersAtHead
<1>10. ASSUME NEW c \in NodeCommits, NodeCommit(c) PROVE LocalReal' /\ PointersAtHead'
  <2>1. Head' = c /\ c \in Commits
    BY <1>6, <1>10, GitAssumption DEF NodeCommit, Head, TypeOK
  <2> QED
    BY <1>9, <1>10, <2>1 DEF NodeCommit
<1>11. ASSUME NEW b \in Branches, NodeSwitch(b) PROVE LocalReal' /\ PointersAtHead'
  <2>1. Head' = refs[b] /\ refs[b] \in Commits
    BY <1>6, <1>11 DEF NodeSwitch, Head, TypeOK
  <2> QED
    BY <1>9, <1>11, <2>1 DEF NodeSwitch
<1>12. ASSUME NEW f \in Files, NEW v \in Foreign, EditLocal(f, v)
       PROVE  LocalReal' /\ PointersAtHead'
  BY <1>2, <1>6, <1>7, <1>12 DEF EditLocal, LocalReal, PointersAtHead, Head, TypeOK
<1>13. ASSUME NEW c \in LocalHeads, LocalMove(c) PROVE LocalReal' /\ PointersAtHead'
  BY <1>2, <1>6, <1>7, <1>13 DEF LocalMove, Checkout, LocalReal, PointersAtHead, Head
<1>14. ASSUME NEW f \in Files, Push(f) PROVE LocalReal' /\ PointersAtHead'
  BY <1>2, <1>6, <1>14 DEF Push, LocalReal, PointersAtHead, Head, TypeOK
<1>15. ASSUME Unlock PROVE LocalReal' /\ PointersAtHead'
  BY <1>2, <1>6, <1>15 DEF Unlock, LocalReal, PointersAtHead, Head
<1> QED
  BY <1>1, <1>5, <1>8, <1>10, <1>11, <1>12, <1>13, <1>14, <1>15 DEF HealInv, People

LEMMA HealFails == ASSUME HealInv, Fails PROVE HealInv'
<1>1. IInv /\ IInv' /\ TypeOK /\ Along
  BY FailsInv DEF HealInv, IInv
<1>2. /\ UNCHANGED <<lwork, refs, cur, nwork, filter, edits>> /\ faults' = faults + 1
  BY DEF Fails, DirtUnread, GiveUp, NodeAsIs, Fault
<1>3. op'.pc \in {"dirt read", "failed"} /\ op'.began = op.began
  BY <1>1 DEF Fails, DirtUnread, GiveUp, Goto, TypeOK, Ops
<1>4. Phase' /\ LitterHeals'
  BY <1>1, <1>2, <1>3, Disturbing DEF Phase, LitterHeals
<1>5. LocalReal' /\ PointersAtHead'
  BY <1>2 DEF HealInv, LocalReal, PointersAtHead, Head
<1> QED
  BY <1>1, <1>4, <1>5 DEF HealInv

-----------------------------------------------------------------------------

(* The dirt guard lets litter pass: what is dirty, in place and holds what *)
(* the client's commit holds is what the client has in its own work tree.  *)
LEMMA LitterIsOwn ==
  ASSUME HealInv, ~Unhealable, Undisturbed, op.pc = "dirt read"
  PROVE  Own = op.dirty
<1> SUFFICES ASSUME NEW f \in op.dirty PROVE f \in Own
  BY DEF Own
<1>1. f \in Tracked(Head) /\ f \in Files /\ nwork[f].v # TreeOf[Head][f] /\ f \in Dirt
  BY DEF HealInv, Phase, Dirt, Tracked
<1>2. nwork[f] \in Entries
  BY <1>1 DEF HealInv, IInv, TypeOK
<1>3. nwork[f] # Nothing /\ nwork[f].v = Target[f] /\ filter # "skip"
  BY <1>1 DEF Unhealable
<1>4. nwork[f] = Real(Target[f])
  BY <1>1, <1>2, <1>3, EntryFacts DEF HealInv, PointersAtHead
<1>5. lwork[f] = Real(Target[f])
  BY <1>1 DEF Unhealable, Checkout, Target
<1> QED
  BY <1>3, <1>4, <1>5 DEF Own

(* The bundle is not empty: the node is behind.                            *)
LEMMA BundleHasHead ==
  ASSUME HealInv, Undisturbed, op.pc = "judged"
  PROVE  op.head \in Bundled
<1>1. lhead = op.head /\ op.there # op.head /\ op.there \in Ancestors[op.head]
  BY DEF HealInv, Phase, IInv, FastOnly
<1>2. op.head \in Commits /\ op.head \in Ancestors[op.head]
  BY Known DEF HealInv, IInv
<1>3. op.head \notin Ancestors[op.there]
  BY <1>1, <1>2, GitAssumption
<1> QED
  BY <1>1, <1>2, <1>3 DEF Bundled

(* Nothing blocks the checkout: an untracked file that it would write is   *)
(* one that the commit adds.                                               *)
LEMMA NotBlocked ==
  ASSUME HealInv, Undisturbed, op.pc = "ready"
  PROVE  ~Blocked /\ op.head \in objs
<1>1. op.head \in objs /\ Head = op.there
  BY DEF HealInv, Phase, IInv, Along
<1>2. ASSUME ~op.force, NEW f \in Differ(Head, op.head), f \in Untracked PROVE FALSE
  <2>1. f \in Files /\ f \notin Tracked(Head) /\ f \in Tracked(op.head)
    BY <1>2 DEF Untracked, Tracked, Differ
  <2>2. f \in Untracked \cap Added
    BY <1>1, <1>2, <2>1 DEF Added
  <2> QED
    BY <1>2, <2>2 DEF HealInv, Phase
<1>3. ASSUME ~op.force, NEW f \in Dirt PROVE FALSE
  BY <1>3 DEF HealInv, Phase
<1> QED
  BY <1>1, <1>2, <1>3 DEF Blocked

(* With the objects staged none is missing.                                *)
LEMMA NoneMissing ==
  ASSUME HealInv, op.pc = "ready", op.lfs, op.missed = {}, Available
  PROVE  Missing = {}
<1> SUFFICES ASSUME NEW f \in Missing PROVE FALSE
  OBVIOUS
<1>1. f \in LfsFiles /\ Target[f] # None /\ Target[f] \notin store
  BY DEF Missing, Smudges
<1>2. Target[f] \in LfsLocal
  BY <1>1 DEF Available
<1>3. ToStage \subseteq store
  BY DEF HealInv, Phase
<1> QED
  BY <1>1, <1>2, <1>3 DEF Target, ToStage

LEMMA HealLooks == ASSUME HealInv, Looks PROVE Phase' /\ LitterHeals'
<1>1. /\ UNCHANGED <<lhead, lwork, pushlog, refs, cur, nwork, filter, lock, edits, faults, work>>
      /\ UNCHANGED <<Head, Dirt, Untracked>> /\ objs \subseteq objs'
  <2>1. UNCHANGED <<lhead, lwork, pushlog, refs, cur, nwork, filter, lock, edits, faults, work>>
    BY DEF Looks, Client, NodeAsIs, Begin, ReadHead, ReadDirt, Judge, Fetch, StageObjects, CheckUntracked,
           CheckoutRefused, VerifyHead, ScanPointers, Report
  <2>2. objs \subseteq objs'
    BY DEF Looks, Begin, ReadHead, ReadDirt, Judge, Fetch, StageObjects, CheckUntracked,
           CheckoutRefused, VerifyHead, ScanPointers, Report
  <2>3. UNCHANGED <<Head, Dirt, Untracked>>
    BY <2>1 DEF Head, Dirt, Untracked, Tracked
  <2> QED
    BY <2>1, <2>2, <2>3
<1>2. op \in Ops
  BY DEF HealInv, IInv, TypeOK
<1>3. ASSUME UNCHANGED <<op.head, op.there, op.missed>>
      PROVE  /\ UNCHANGED <<Target, Added>>
             /\ (Available' <=> Available) /\ (Unhealable' <=> Unhealable)
  <2>1. UNCHANGED <<Target, Added>> /\ (Available' <=> Available)
    BY <1>3 DEF Target, Added, Available, Tracked
  <2> QED
    BY <1>1, <1>3, <2>1 DEF Unhealable, Checkout, Tracked
<1>4. op'.began = op.began => (Undisturbed' <=> Undisturbed)
  BY <1>1 DEF Undisturbed
<1>5. Phase /\ LitterHeals /\ Along /\ FastOnly
  BY DEF HealInv, IInv
<1>6. ASSUME NEW to \in Places, Goto(to)
      PROVE  /\ op'.pc = to
             /\ UNCHANGED <<op.lfs, op.began, op.head, op.there, op.dirty, op.force, op.missed>>
  BY <1>2, <1>6 DEF Goto, Ops
<1>7. ASSUME NEW lfs \in BOOLEAN, Begin(lfs) PROVE Phase' /\ LitterHeals'
  <2>1. op'.pc = "asked" /\ op'.head = lhead
    BY <1>7 DEF Begin, Idle
  <2> QED
    BY <1>1, <2>1 DEF Phase, LitterHeals
<1>8. CASE ReadHead
  <2>1. op'.pc = "head read" /\ op'.head = op.head /\ op'.began = op.began /\ op.pc = "asked"
    BY <1>2, <1>8 DEF ReadHead, Ops
  <2> QED
    BY <1>1, <1>4, <1>5, <2>1 DEF Phase, LitterHeals
<1>9. CASE ReadDirt
  <2>1. CASE op.there = op.head
    <3>1. op'.pc = "aligned" /\ op'.head = op.head /\ op'.began = op.began /\ op.pc = "head read"
      BY <1>6, <1>9, <2>1 DEF ReadDirt, Places, Over
    <3> QED
      BY <1>1, <1>4, <1>5, <3>1 DEF Phase, LitterHeals
  <2>2. CASE op.there # op.head
    <3>1. /\ op'.pc = "dirt read" /\ op'.dirty = Dirt /\ op'.head = op.head
          /\ op'.there = op.there /\ op'.began = op.began /\ op.pc = "head read"
      BY <1>2, <1>9, <2>2 DEF ReadDirt, Ops
    <3> QED
      BY <1>1, <1>4, <1>5, <2>2, <3>1 DEF Phase, LitterHeals
  <2> QED
    BY <2>1, <2>2
<1>10. CASE Judge
  <2>1. /\ op.pc = "dirt read" /\ op'.began = op.began /\ op'.head = op.head
        /\ op'.there = op.there /\ op'.dirty = op.dirty /\ op'.lfs = op.lfs
        /\ op'.missed = op.missed /\ op'.pc \in {"foreign", "diverged", "judged"}
        /\ op'.pc = "foreign" => Own # op.dirty
        /\ op'.pc = "judged" => (op'.force <=> op.dirty # {})
    BY <1>2, <1>10 DEF Judge, Ops
  <2>2. LitterHeals'
    BY <1>3, <1>4, <2>1, LitterIsOwn DEF LitterHeals
  <2>3. Phase'
    BY <1>1, <1>4, <1>5, <2>1 DEF Phase
  <2> QED
    BY <2>2, <2>3
<1>11. CASE Fetch
  <2>1. /\ op.pc = "judged" /\ op'.pc \in {"fetched", "failed"}
        /\ UNCHANGED <<op.lfs, op.began, op.head, op.there, op.dirty, op.force>>
        /\ op'.pc = "fetched" => objs' = objs \cup Bundled
        /\ op'.pc = "failed" => Bundled = {}
    BY <1>2, <1>11 DEF Fetch, Goto, Ops
  <2>2. Undisturbed => op.head \in Bundled
    BY <2>1, BundleHasHead
  <2>3. LitterHeals'
    BY <1>4, <2>1, <2>2 DEF LitterHeals
  <2>4. Phase'
    BY <1>1, <1>4, <1>5, <2>1, <2>2 DEF Phase
  <2> QED
    BY <2>3, <2>4
<1>12. CASE StageObjects
  <2>1. /\ op.pc = "fetched" /\ op'.pc \in {"staged", "failed"}
        /\ UNCHANGED <<op.lfs, op.began, op.head, op.there, op.dirty, op.force, objs>>
        /\ op'.pc = "failed" => op'.missed # {}
        /\ op'.pc = "staged" /\ op'.lfs /\ op'.missed = {} => store' = store \cup ToStage
    <3>1. \/ op.lfs = FALSE /\ op' = [op EXCEPT !.pc = "staged"]
          \/ op' = [op EXCEPT !.pc = "staged"] /\ store' = store \cup ToStage
          \/ op' = [op EXCEPT !.pc = "staged", !.missed = @ \cup {"objects"}]
          \/ op' = [op EXCEPT !.pc = "failed", !.missed = @ \cup {"objects"}]
      BY <1>2, <1>12 DEF StageObjects, Goto, Ops
    <3>2. op.pc = "fetched" /\ UNCHANGED objs
      BY <1>12 DEF StageObjects
    <3>3. CASE op.lfs = FALSE /\ op' = [op EXCEPT !.pc = "staged"]
      BY <1>2, <3>2, <3>3 DEF Ops
    <3>4. CASE op' = [op EXCEPT !.pc = "staged"] /\ store' = store \cup ToStage
      BY <1>2, <3>2, <3>4 DEF Ops
    <3>5. ASSUME NEW to \in {"staged", "failed"},
                 op' = [op EXCEPT !.pc = to, !.missed = @ \cup {"objects"}]
          PROVE  /\ op'.pc = to /\ op'.missed # {}
                 /\ UNCHANGED <<op.lfs, op.began, op.head, op.there, op.dirty, op.force>>
      BY <1>2, <3>5 DEF Ops
    <3> QED
      BY <3>1, <3>2, <3>3, <3>4, <3>5
  <2>2. LitterHeals'
    BY <2>1 DEF LitterHeals, Unhealable
  <2>3. ToStage' = ToStage
    BY <2>1 DEF ToStage
  <2>4. Phase'
    BY <1>1, <1>4, <1>5, <2>1, <2>3 DEF Phase
  <2> QED
    BY <2>2, <2>4
<1>13. CASE CheckUntracked
  <2>1. /\ op.pc = "staged" /\ op'.began = op.began /\ op'.head = op.head
        /\ op'.there = op.there /\ op'.dirty = op.dirty /\ op'.lfs = op.lfs
        /\ op'.missed = op.missed /\ op'.pc \in {"ready", "foreign"} /\ UNCHANGED <<objs, store>>
        /\ op'.pc = "foreign" => \E f \in Untracked \cap Added : ~Debris(f)
        /\ op'.pc = "ready" => (op'.force <=> op.force \/ Untracked \cap Added # {})
    BY <1>2, <1>13 DEF CheckUntracked, Ops, Goto
  <2>2. LitterHeals'
    BY <1>3, <1>4, <2>1 DEF LitterHeals, Unhealable, Debris, Target
  <2>3. ToStage' = ToStage
    BY <2>1 DEF ToStage
  <2>4. Phase'
    BY <1>1, <1>3, <1>4, <1>5, <2>1, <2>3, ZenonT(60) DEF Phase
  <2> QED
    BY <2>2, <2>4
<1>14. CASE CheckoutRefused
  <2>1. /\ op.pc = "ready" /\ op'.pc = "failed" /\ (op.head \notin objs \/ lock \/ Blocked)
        /\ UNCHANGED <<op.began, op.head>>
    BY <1>6, <1>14 DEF CheckoutRefused, Places, Over
  <2>2. Undisturbed => lock
    BY <2>1, NotBlocked
  <2>3. LitterHeals'
    BY <1>1, <1>4, <2>1, <2>2 DEF LitterHeals, Unhealable
  <2> QED
    BY <1>1, <1>4, <1>5, <2>1, <2>3 DEF Phase
<1>15. CASE VerifyHead
  <2>1. /\ op.pc = "checked out" /\ op'.pc \in {"verified", "failed"}
        /\ UNCHANGED <<op.lfs, op.began, op.head, op.there, op.dirty, op.force, op.missed>>
        /\ op'.pc = "failed" => Head # op.head
    BY <1>2, <1>15 DEF VerifyHead, Goto, Ops
  <2>2. Undisturbed => Head = op.head
    BY <1>5, <2>1 DEF Along
  <2>3. Differ(op.there, op.head)' = Differ(op.there, op.head)
    BY <2>1 DEF Differ
  <2>4. Phase'
    BY <1>1, <1>3, <1>4, <1>5, <2>1, <2>3 DEF Phase
  <2> QED
    BY <1>4, <2>1, <2>2, <2>4 DEF LitterHeals
<1>16. CASE ScanPointers
  <2>1. /\ op.pc = "verified" /\ op'.pc \in {"ok", "failed"}
        /\ UNCHANGED <<op.lfs, op.began, op.head, op.there, op.dirty, op.force>>
        /\ op'.pc = "failed" => Scan # {} /\ op'.missed = op.missed
    BY <1>2, <1>16 DEF ScanPointers, Goto, Ops
  <2>2. Undisturbed /\ op.lfs /\ op'.pc = "failed" => Unhealable
    BY <1>5, <2>1 DEF Phase, Scan, Stubs, Target, Unhealable
  <2>3. LitterHeals'
    BY <1>3, <1>4, <2>1, <2>2 DEF LitterHeals
  <2> QED
    BY <1>1, <1>4, <1>5, <2>1, <2>3 DEF Phase
<1>17. CASE Report
  <2>1. op'.pc = "idle"
    BY <1>17 DEF Report, Idle
  <2> QED
    BY <2>1 DEF Phase, LitterHeals
<1> QED
  BY <1>7, <1>8, <1>9, <1>10, <1>11, <1>12, <1>13, <1>14, <1>15, <1>16, <1>17 DEF Looks

LEMMA HealCheckout ==
  ASSUME HealInv, CheckoutDies \/ CheckoutDone
  PROVE  LocalReal' /\ PointersAtHead' /\ Phase' /\ LitterHeals'
<1>1. /\ op \in Ops /\ op.pc = "ready" /\ Checked /\ TypeOK
      /\ UNCHANGED <<lhead, lwork, filter, edits>>
  BY DEF HealInv, IInv, TypeOK, CheckoutDies, CheckoutDone, Checked
<1>2. ASSUME NEW to \in Places, Goto(to)
      PROVE  /\ op'.pc = to
             /\ UNCHANGED <<op.lfs, op.began, op.head, op.there, op.dirty, op.force, op.missed>>
  BY <1>1, <1>2 DEF Goto, Ops
<1>3. LocalReal'
  BY <1>1 DEF HealInv, LocalReal
<1>4. filter # "skip" => \A f \in Written \ Missing : AsWritten(f) = Real(Target[f])
  BY DEF AsWritten
<1>5. \A f \in Files : f \notin Written => Target[f] = TreeOf[Head][f]
  BY DEF Written, Differ, Target
<1>6. \A v : Real(v).real = TRUE /\ Pointer(v).v = v
  BY DEF Real, Pointer
<1>7. CASE CheckoutDies
  <2>1. PICK some \in SUBSET (Written \ Missing), gone \in SUBSET Missing :
          nwork' = [f \in Files |-> IF f \in some THEN AsWritten(f)
                                    ELSE IF f \in gone THEN Nothing ELSE nwork[f]]
    BY <1>7 DEF CheckoutDies
  <2>2. UNCHANGED <<refs, cur, Head>>
    BY <1>7 DEF CheckoutDies, Head
  <2>3. PointersAtHead'
    BY <1>1, <1>4, <1>6, <2>1, <2>2 DEF HealInv, PointersAtHead, Nothing
  <2>4. op'.pc = "failed" /\ UNCHANGED <<op.lfs, op.began, op.head, op.there, op.missed>>
    BY <1>2, <1>7 DEF CheckoutDies, Places, Over
  <2>5. CASE filter = "required" /\ Missing # {} /\ UNCHANGED faults
    <3>1. ~op.lfs \/ ~Available \/ op.missed # {}
      BY <1>1, <2>5, NoneMissing
    <3>2. Available' <=> Available
      BY <2>4 DEF Available, Target
    <3>3. LitterHeals'
      BY <2>4, <3>1, <3>2 DEF LitterHeals, Unhealable
    <3>4. Phase'
      BY <1>1, <2>4, <2>5 DEF HealInv, Phase, Undisturbed
    <3> QED
      BY <1>3, <2>3, <3>3, <3>4
  <2>6. CASE faults < MaxFaults /\ faults' = faults + 1
    <3>1. edits \in Nat /\ faults \in Nat /\ op.began \in Nat /\ op.began <= edits + faults
      BY <1>1, GitAssumption DEF HealInv, IInv, TypeOK, Ops, Along
    <3>2. ~Undisturbed'
      BY <1>1, <2>4, <2>6, <3>1 DEF Undisturbed
    <3> QED
      BY <1>3, <2>3, <2>4, <3>2 DEF Phase, LitterHeals
  <2> QED
    BY <1>7, <2>5, <2>6 DEF CheckoutDies, Fault
<1>8. CASE CheckoutDone
  <2>1. nwork' = [f \in Files |-> IF f \in Written THEN AsWritten(f) ELSE nwork[f]]
    BY <1>8 DEF CheckoutDone
  <2>2. cur' = LocalBranch /\ Head' = op.head /\ UNCHANGED faults
    BY <1>1, <1>8 DEF CheckoutDone, Head, TypeOK, LocalBranch, Branches
  <2>3. /\ op'.pc \in {"failed", "checked out"}
        /\ op'.pc = "failed" => Missing # {}
        /\ UNCHANGED <<op.lfs, op.began, op.head, op.there, op.missed>>
    BY <1>1, <1>8 DEF CheckoutDone, Goto, Ops
  <2>4. UNCHANGED Target /\ (Available' <=> Available) /\ (Undisturbed' <=> Undisturbed)
    BY <1>1, <2>2, <2>3 DEF Target, Available, Undisturbed
  <2>5. PointersAtHead'
    <3> SUFFICES ASSUME filter # "skip", NEW f \in Files, ~nwork'[f].real
                 PROVE  nwork'[f].v = TreeOf[op.head][f]
      BY <1>1, <2>2 DEF PointersAtHead
    <3>1. CASE f \in Written
      BY <2>1, <3>1, <1>6 DEF AsWritten, Target
    <3>2. CASE f \notin Written
      BY <1>5, <2>1, <3>2 DEF HealInv, PointersAtHead, Target
    <3> QED
      BY <3>1, <3>2
  <2>6. op.lfs /\ Available /\ op.missed = {} => Missing = {}
    BY <1>1, NoneMissing
  <2>7. LitterHeals'
    BY <2>3, <2>4, <2>6 DEF LitterHeals, Unhealable
  <2>8. ASSUME Undisturbed, op.lfs, op.missed = {}, filter # "skip", Available, NEW f \in Differ(op.there, op.head)
        PROVE  nwork'[f] = Real(Target[f])
    <3>1. f \in Files /\ f \in Written
      BY <1>1, <2>8 DEF HealInv, IInv, Along, Written, Differ
    <3> QED
      BY <1>4, <2>1, <2>6, <2>8, <3>1
  <2>9. Differ(op.there, op.head)' = Differ(op.there, op.head)
    BY <2>3 DEF Differ
  <2>10. Phase'
    BY <1>1, <2>3, <2>4, <2>8, <2>9 DEF HealInv, Phase
  <2> QED
    BY <1>3, <2>5, <2>7, <2>10
<1> QED
  BY <1>7, <1>8

LEMMA HealStep == HealInv /\ [Next]_vars => HealInv'
<1> SUFFICES ASSUME HealInv, [Next]_vars PROVE HealInv'
  OBVIOUS
<1>1. IInv'
  BY InvStep DEF HealInv
<1>2. CASE Looks
  <2>1. UNCHANGED <<lwork, refs, cur, nwork, filter>>
    BY <1>2 DEF Looks, Client, NodeAsIs, Begin, ReadHead, ReadDirt, Judge, Fetch, StageObjects,
       CheckUntracked, CheckoutRefused, VerifyHead, ScanPointers, Report
  <2>2. LocalReal' /\ PointersAtHead'
    BY <2>1 DEF HealInv, LocalReal, PointersAtHead, Head
  <2> QED
    BY <1>1, <1>2, <2>2, HealLooks DEF HealInv
<1>3. CASE CheckoutDies \/ CheckoutDone
  BY <1>1, <1>3, HealCheckout DEF HealInv
<1>4. CASE UNCHANGED vars
  <2>1. UNCHANGED <<lhead, lwork, pushlog, refs, cur, nwork, objs, store, filter, lock, op,
                    edits, faults, work>>
    BY <1>4 DEF vars, gitVars, ghosts
  <2>2. LocalReal' /\ PointersAtHead'
    BY <2>1 DEF HealInv, LocalReal, PointersAtHead, Head
  <2>3. UNCHANGED <<Undisturbed, Dirt, Untracked, Added, Available, Target, Head, ToStage>>
    BY <2>1 DEF Undisturbed, Dirt, Untracked, Added, Available, Target, Head, Tracked, ToStage
  <2>4. Phase' /\ LitterHeals'
    BY <2>1, <2>3 DEF HealInv, Phase, LitterHeals, Unhealable, Differ, Tracked, Checkout
  <2> QED
    BY <1>1, <2>2, <2>4 DEF HealInv
<1> QED
  BY <1>2, <1>3, <1>4, NextIs, HealPeople, HealFails

-----------------------------------------------------------------------------

(* The variables keep their types, and the node's repository stays closed  *)
(* under ancestors: no branch is ever at a commit that it lacks.           *)
THEOREM TypeCorrect == Spec => []TypeOK
BY Invariance, PTL DEF IInv

(* Uncommitted work a gitsync has looked at survives it, whatever else     *)
(* people do, whichever request fails and whenever the checkout dies.      *)
THEOREM WorkSurvives == Spec => []WorkKept
BY Invariance, PTL DEF IInv

(* The commits under the HEAD a gitsync has read keep a branch, for every  *)
(* commit graph, although the branch reset need not be the one HEAD is on. *)
THEOREM CommitsSurvive == Spec => []CommitsKept
BY Invariance, PTL DEF IInv

(* An undisturbed gitsync that says ok has left the node on the client's   *)
(* branch and commit, with content in what it has written, even where its  *)
(* scan for pointers had no answer, unless the node's filter is told to    *)
(* skip: every other checkout with a missing object fails (Aligned).       *)
THEOREM OkIsAligned == Spec => []OkMeansAligned
BY Invariance, PTL DEF IInv, Along

(* A gitsync with LFS that nobody disturbs fails for no litter that the    *)
(* gitsyncs before it have left, wherever they failed or were killed, for  *)
(* any commits, trees and number of faults: only for what Unhealable names *)
(* (other people's files, objects nobody has or that were not staged, the  *)
(* lock of a git that was killed, and the like).                           *)
THEOREM GitSyncHeals == Spec => []LitterHeals
<1>1. HealInv => LitterHeals
  BY DEF HealInv
<1> QED
  BY <1>1, HealInit, HealStep, PTL DEF Spec
=============================================================================
