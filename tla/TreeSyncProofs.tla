--------------------------- MODULE TreeSyncProofs ---------------------------
(***************************************************************************)
(* Theorems about TreeSync, for any two-level trees, any set of options    *)
(* and any number of edits and faults: what the dirt guard protects, what  *)
(* it refuses, and what a sync nobody disturbs leaves behind. First what   *)
(* the operators of TreeFS do to a tree, then the invariants.              *)
(***************************************************************************)
EXTENDS TreeSync, WellFoundedInduction, TLAPS

-----------------------------------------------------------------------------
(* Entries, paths and manifests *)

LEMMA EntryFacts ==
  ASSUME NEW e \in Entries
  PROVE  /\ e.t \in {"none", "dir", "file", "link"}
         /\ e.t = "none" <=> e = Absent
         /\ e.t = "dir" <=> e = Dir
         /\ e.t = "file" => e.sha \in Contents /\ e = File(e.sha)
         /\ e.t = "link" => e.to \in Paths
  BY DEF Entries, Absent, Dir, File, Link

LEMMA PlainEntries ==
  /\ Absent \in Entries /\ Dir \in Entries /\ Absent # Dir
  /\ \A c \in Contents : File(c) \in Entries /\ File(c).t = "file" /\ File(c).sha = c
  BY DEF Entries, Absent, Dir, File

LEMMA PathFacts ==
  /\ \A p \in Paths : Len(p) = 1 \/ Len(p) = 2
  /\ \A p \in Paths : Len(p) = 2 =>
       Parent(p) \in Paths /\ Len(Parent(p)) = 1 /\ Parent(p) # p /\ p \in Children(Parent(p))
  /\ \A d, p \in Paths : p \in Children(d) <=> Len(p) = 2 /\ Parent(p) = d
  /\ \A d \in Paths : Children(d) \subseteq Paths /\ (Children(d) # {} => Len(d) = 1)
<1>1. \A p \in Paths : Len(p) = 1 \/ Len(p) = 2
  <2> TAKE p \in Paths
  <2>1. p = <<p[1]>> \/ p = <<p[1], p[2]>>
    BY PathAssumption
  <2>2. \A a, b : Len(<<a>>) = 1 /\ Len(<<a, b>>) = 2
    OBVIOUS
  <2> QED
    BY <2>1, <2>2
<1>2. \A p \in Paths : Len(Parent(p)) = 1
  BY DEF Parent
<1>3. \A p \in Paths : Len(p) = 2 => Parent(p) \in Paths
  BY PathAssumption DEF Parent
<1> QED
  BY <1>1, <1>2, <1>3 DEF Children

(* A directory is at the top, and what is under no directory is nothing.   *)
LEMMA DirFacts ==
  ASSUME NEW fs \in Trees, WellFormed(fs)
  PROVE  /\ \A p \in Paths : fs[p] \in Entries
         /\ \A p \in Paths : fs[p] = Dir => Len(p) = 1
         /\ \A d \in Paths : fs[d] # Dir => \A c \in Children(d) : fs[c] = Absent
  BY PathFacts DEF Trees, WellFormed

LEMMA ManifestFacts ==
  ASSUME NEW fs \in Trees
  PROVE  /\ Manifest(fs) \in Trees
         /\ \A p \in Paths : Manifest(fs)[p] \in Entries /\ Manifest(fs)[p] # Dir
         /\ \A p \in Paths : fs[p].t \in {"file", "link"} => Manifest(fs)[p] = fs[p]
         /\ \A p \in Paths : Manifest(fs)[p] = Absent <=> fs[p] \in {Absent, Dir}
         /\ \A p \in Paths : Manifest(fs)[p] # Absent => Manifest(fs)[p] = fs[p]
<1>1. \A p \in Paths : fs[p] \in Entries
  BY DEF Trees
<1>2. \A p \in Paths : Manifest(fs)[p] = IF fs[p].t \in {"file", "link"} THEN fs[p] ELSE Absent
  BY DEF Manifest
<1>3. \A p \in Paths : fs[p].t \in {"file", "link"} <=> fs[p] \notin {Absent, Dir}
  BY <1>1, EntryFacts
<1>4. \A p \in Paths : Manifest(fs)[p] \in Entries /\ Manifest(fs)[p] # Dir
  BY <1>1, <1>2, <1>3, PlainEntries
<1>5. Manifest(fs) \in Trees
  BY <1>4 DEF Manifest, Trees
<1> QED
  BY <1>2, <1>3, <1>4, <1>5

LEMMA FirstOfIn ==
  ASSUME NEW S \in SUBSET Paths, S # {}
  PROVE  FirstOf(S) \in S
<1> DEFINE Orders == {Order[p] : p \in S}
<1>1. Orders \subseteq Nat /\ Orders # {}
  BY PathAssumption
<1>2. \E n \in Orders : \A m \in Orders : ~(m < n)
  <2> HIDE DEF Orders
  <2>1. PICK n \in Orders : \A m \in Orders : <<m, n>> \notin OpToRel(<, Nat)
    BY <1>1, NatLessThanWellFounded, WFMin
  <2> QED
    BY <2>1, <1>1 DEF OpToRel
<1>3. PICK p \in S : \A q \in S : ~(Order[q] < Order[p])
  BY <1>2
<1>4. \A q \in S : Order[p] <= Order[q]
  BY <1>3, PathAssumption
<1> QED
  BY <1>4 DEF FirstOf
-----------------------------------------------------------------------------
(* Placing and removing *)

\* Where a path leads: to itself, or below a directory that a link above it
\* stands for.
LEMMA RealIn ==
  ASSUME NEW fs \in Trees, WellFormed(fs), NEW p \in Paths, ParentOk(fs, p)
  PROVE  /\ Real(fs, p) \in Paths
         /\ Real(fs, p) # p => /\ Len(p) = 2 /\ fs[Parent(p)].t = "link"
                               /\ Len(Real(fs, p)) = 2 /\ fs[Parent(Real(fs, p))] = Dir
         /\ Real(fs, p) = p /\ Len(p) = 2 => fs[Parent(p)] \in {Absent, Dir}
<1>1. CASE Len(p) = 1
  BY <1>1 DEF Real
<1>2. CASE Len(p) = 2 /\ fs[Parent(p)].t = "link"
  <2> DEFINE to == fs[Parent(p)].to
  <2>1. Parent(p) \in Paths /\ fs[Parent(p)] \in Entries /\ fs[Parent(p)] # Absent
        /\ fs[Parent(p)] # Dir
    BY <1>2, PathFacts, DirFacts, EntryFacts
  <2>2. to \in Paths /\ fs[to] = Dir
    BY <1>2, <2>1, EntryFacts DEF ParentOk, IsDir
  <2>3. Len(to) = 1
    BY <2>2, DirFacts
  <2>4. to = <<to[1]>>
    <3>1. to = <<to[1]>> \/ to = <<to[1], to[2]>>
      BY <2>2, PathAssumption
    <3>2. Len(<<to[1], to[2]>>) = 2
      OBVIOUS
    <3> QED
      BY <2>3, <3>1, <3>2
  <2>5. <<to[1], p[2]>> \in Paths
    BY <1>2, <2>2, PathAssumption
  <2>6. Real(fs, p) = <<to[1], p[2]>>
    BY <1>2 DEF Real
  <2>7. Parent(<<to[1], p[2]>>) = to /\ Len(<<to[1], p[2]>>) = 2
    BY <2>4 DEF Parent
  <2>8. Real(fs, p) # p
    BY <2>1, <2>2, <2>6, <2>7
  <2> QED
    BY <1>2, <2>2, <2>5, <2>6, <2>7, <2>8
<1>3. CASE Len(p) = 2 /\ fs[Parent(p)].t # "link"
  BY <1>3, PathFacts, DirFacts, EntryFacts DEF Real, ParentOk, IsDir
<1> QED
  BY <1>1, <1>2, <1>3, PathFacts

\* What Place changes: the entry, the directory above it, and what a directory
\* it replaces held.
LEMMA PlaceIs ==
  ASSUME NEW fs \in Trees, WellFormed(fs), NEW p \in Paths, NEW e \in Entries,
         e.t \in {"file", "link"}, CanPlace(fs, p, e)
  PROVE  /\ Place(fs, p, e)[Real(fs, p)] = e
         /\ \A q \in Paths : q # Real(fs, p) =>
              \/ Place(fs, p, e)[q] = fs[q]
              \/ q \in Children(Real(fs, p)) /\ Place(fs, p, e)[q] = Absent
              \/ Real(fs, p) \in Children(q) /\ fs[q] \in {Absent, Dir} /\ Place(fs, p, e)[q] = Dir
         /\ \A q \in Children(Real(fs, p)) : Place(fs, p, e)[q] = Absent
         /\ \A q \in Paths : Real(fs, p) \in Children(q) => Place(fs, p, e)[q] = Dir
<1> DEFINE r == Real(fs, p)
<1>1. r \in Paths
  BY RealIn DEF CanPlace
<1>2. \A q \in Paths : Place(fs, p, e)[q] =
        IF q = r THEN e ELSE IF q \in Children(r) THEN Absent
        ELSE IF r \in Children(q) THEN Dir ELSE fs[q]
  BY DEF Place
<1>3. \A q \in Paths : r \in Children(q) =>
        q # r /\ q \notin Children(r) /\ fs[q] \in {Absent, Dir}
  <2> SUFFICES ASSUME NEW q \in Paths, r \in Children(q)
               PROVE  q # r /\ q \notin Children(r) /\ fs[q] \in {Absent, Dir}
    OBVIOUS
  <2>1. Len(r) = 2 /\ Parent(r) = q /\ Len(q) = 1
    BY <1>1, PathFacts
  <2>2. fs[q] \in {Absent, Dir}
    BY <2>1, RealIn DEF CanPlace
  <2> QED
    BY <2>1, <2>2, <1>1, PathFacts
<1>4. r \notin Children(r) /\ \A q \in Children(r) : q \in Paths
  BY <1>1, PathFacts
<1> HIDE DEF r
<1>5. /\ Place(fs, p, e)[r] = e
      /\ \A q \in Paths : q # r =>
           \/ Place(fs, p, e)[q] = fs[q]
           \/ q \in Children(r) /\ Place(fs, p, e)[q] = Absent
           \/ r \in Children(q) /\ fs[q] \in {Absent, Dir} /\ Place(fs, p, e)[q] = Dir
      /\ \A q \in Children(r) : Place(fs, p, e)[q] = Absent
      /\ \A q \in Paths : r \in Children(q) => Place(fs, p, e)[q] = Dir
  BY <1>1, <1>2, <1>3, <1>4
<1> QED
  BY <1>5 DEF r

LEMMA PlaceTree ==
  ASSUME NEW fs \in Trees, WellFormed(fs), NEW p \in Paths, NEW e \in Entries,
         e.t \in {"file", "link"}, CanPlace(fs, p, e)
  PROVE  Place(fs, p, e) \in Trees /\ WellFormed(Place(fs, p, e))
<1> DEFINE r == Real(fs, p)
           after == Place(fs, p, e)
<1>1. r \in Paths /\ e # Dir
  BY RealIn, EntryFacts DEF CanPlace
<1>2. after \in [Paths -> Entries]
  BY PlainEntries DEF Place, Trees
<1>3. ASSUME NEW q \in Paths, Len(q) = 2 PROVE after[q] # Dir /\ (after[q] # Absent => after[Parent(q)] = Dir)
  <2>1. Parent(q) \in Paths /\ Len(Parent(q)) = 1 /\ q \in Children(Parent(q))
    BY <1>3, PathFacts
  <2>2. fs[q] # Dir /\ (fs[q] # Absent => fs[Parent(q)] = Dir)
    BY <1>3 DEF WellFormed
  <2>3. CASE q = r
    BY <1>1, <2>1, <2>3, PlaceIs
  <2>4. CASE q # r /\ Parent(q) = r
    BY <2>1, <2>4, PlaceIs, PlainEntries
  <2>5. CASE q # r /\ Parent(q) # r
    <3>1. after[q] = fs[q]
      BY <1>3, <2>1, <2>5, <1>1, PlaceIs, PathFacts
    <3>2. after[Parent(q)] = fs[Parent(q)] \/ after[Parent(q)] = Dir
      BY <1>1, <2>1, <2>5, PlaceIs, PathFacts
    <3> QED
      BY <3>1, <3>2, <2>2
  <2> QED
    BY <2>3, <2>4, <2>5
<1> QED
  BY <1>2, <1>3 DEF Trees, WellFormed

\* A file that no link leads elsewhere disturbs nothing but what it replaces.
LEMMA PlaceFile ==
  ASSUME NEW fs \in Trees, WellFormed(fs), NEW p \in Paths, NEW e \in Entries,
         e.t = "file", CanPlace(fs, p, e), Real(fs, p) = p,
         NEW q \in Paths, Place(fs, p, e)[q] # fs[q]
  PROVE  q = p \/ {fs[q], Place(fs, p, e)[q]} \subseteq {Absent, Dir}
<1>1. fs[p] # Dir
  BY DEF CanPlace
<1>2. \A c \in Children(p) : fs[c] = Absent
  BY <1>1, DirFacts
<1> QED
  BY <1>2, PlaceIs

\* What Remove changes: the entry, what it held, and the directories it leaves
\* empty.
LEMMA RemoveIs ==
  ASSUME NEW fs \in Trees, WellFormed(fs), NEW p \in Paths, NEW q \in Paths,
         Remove(fs, p)[q] # fs[q]
  PROVE  /\ Remove(fs, p)[q] = Absent
         /\ ParentOk(fs, p) /\ Real(fs, p) \in Paths /\ fs[Real(fs, p)] # Absent
         /\ \/ q = Real(fs, p)
            \/ q \in Children(Real(fs, p))
            \/ Real(fs, p) = p /\ p \in Children(q) /\ fs[q] = Dir
<1> DEFINE r == Real(fs, p)
           gone == [x \in Paths |-> IF x = r \/ x \in Children(r) THEN Absent ELSE fs[x]]
           bare == {x \in Paths : p \in Children(x) /\ r = p /\ \A c \in Children(x) : gone[c] = Absent}
<1>1. ParentOk(fs, p) /\ fs[r] # Absent
  BY DEF Remove
<1>2. r \in Paths
  BY <1>1, RealIn
<1>3. Remove(fs, p)[q] = IF q \in bare THEN Absent ELSE gone[q]
  BY <1>1 DEF Remove
<1>4. CASE q \in bare
  <2>1. p \in Children(q) /\ r = p
    BY <1>4
  <2>2. fs[q] = Dir
    BY <1>1, <2>1, DirFacts
  <2> QED
    BY <1>1, <1>2, <1>3, <1>4, <2>1, <2>2
<1>5. CASE q \notin bare
  BY <1>1, <1>2, <1>3, <1>5
<1> QED
  BY <1>4, <1>5

LEMMA RemoveTree ==
  ASSUME NEW fs \in Trees, WellFormed(fs), NEW p \in Paths
  PROVE  Remove(fs, p) \in Trees /\ WellFormed(Remove(fs, p))
<1> DEFINE after == Remove(fs, p)
           r == Real(fs, p)
<1>1. after \in [Paths -> Entries]
  BY PlainEntries DEF Remove, Trees
<1>2. ASSUME NEW q \in Paths, Len(q) = 2 PROVE after[q] # Dir /\ (after[q] # Absent => after[Parent(q)] = Dir)
  <2>1. Parent(q) \in Paths /\ q \in Children(Parent(q)) /\ Len(Parent(q)) = 1
    BY <1>2, PathFacts
  <2>2. fs[q] # Dir /\ (fs[q] # Absent => fs[Parent(q)] = Dir)
    BY <1>2 DEF WellFormed
  <2>3. after[q] = fs[q] \/ after[q] = Absent
    BY RemoveIs
  <2>4. ASSUME after[q] # Absent, after[Parent(q)] # fs[Parent(q)] PROVE FALSE
    <3>1. /\ ParentOk(fs, p) /\ r \in Paths /\ fs[r] # Absent
          /\ \/ Parent(q) = r \/ Parent(q) \in Children(r)
             \/ r = p /\ p \in Children(Parent(q))
      BY <2>1, <2>4, RemoveIs
    <3>2. after = LET gone == [x \in Paths |-> IF x = r \/ x \in Children(r) THEN Absent ELSE fs[x]]
                      bare == {x \in Paths : p \in Children(x) /\ r = p
                                               /\ \A c \in Children(x) : gone[c] = Absent}
                  IN  [x \in Paths |-> IF x \in bare THEN Absent ELSE gone[x]]
      BY <3>1 DEF Remove
    <3>3. Parent(q) \notin Children(r)
      BY <2>1, <3>1, PathFacts
    <3>4. CASE Parent(q) = r
      BY <1>2, <2>1, <2>4, <3>2, <3>4
    <3>5. CASE Parent(q) # r
      BY <1>2, <2>1, <2>4, <3>2, <3>3, <3>5
    <3> QED
      BY <3>4, <3>5
  <2> QED
    BY <2>2, <2>3, <2>4, PlainEntries
<1> QED
  BY <1>1, <1>2 DEF Trees, WellFormed
-----------------------------------------------------------------------------
(* The invariants *)

(* There is something to place in every entry that is still to be placed.  *)
TodoOK ==
  /\ op.pc \in {"idle", "asked", "planned"} => op.todo = {}
  /\ \A p \in op.todo : op.src[p].t \in {"file", "link"}
  /\ op.pc = "send" => op.todo \subseteq Sends
  /\ \A w \in DOMAIN apply : \A p \in apply[w].todo : apply[w].src[p].t \in {"file", "link"}

(* What a manifest names is under nothing else that it names.              *)
Flat(m) == \A d \in Paths : \A c \in Children(d) : m[c] # Absent => m[d] = Absent

(* From the guard on, a push without --force keeps off the work it has     *)
(* seen; before it, what it has seen is what neither HEAD nor the log has. *)
GuardInv ==
  /\ op.pc \in {"send", "applying"} => ~Has("pull")
  /\ op.pc \in {"stage", "pull"} => Has("pull")
  /\ op.pc \in {"planned", "send", "applying"} /\ ~Has("pull") =>
       Flat(op.dst) /\ \A p \in op.seen : op.dst[p].t = "file"
  /\ op.pc = "planned" /\ ~Has("pull") => \A p \in op.seen : Sha(op.dst[p]) # log[p]
  /\ op.pc \in {"send", "applying"} /\ ~Has("force") => (Sends \cup Deletes) \cap op.seen = {}

(* The same of a request, which may outlive its client.                    *)
RequestInv ==
  \A w \in DOMAIN apply : ~apply[w].force =>
    /\ \A p \in apply[w].todo : apply[w].src[p].t = "file" => p \notin apply[w].seen
    /\ \A p \in apply[w].del : p \notin apply[w].seen /\ Children(p) \cap apply[w].seen = {}

(* A file git tracks is as HEAD or the push log has it, or somebody has    *)
(* worked on it, or a push has left it there and not written it down.      *)
Accounted(p) ==
  \/ Manifest(node)[p] = head[p] \/ Sha(node[p]) = log[p]
  \/ p \in work \cup unlogged

LogInv ==
  /\ \A p \in Tracked : Accounted(p)
  /\ ~Has("pull") /\ op.pc = "planned" =>
       \A p \in Paths : Manifest(node)[p] = op.dst[p] \/ p \in work \cup unlogged
  /\ RefusedForWork

Source == IF Has("pull") THEN node ELSE local

(* How far a sync that nothing is in the way of has come: what is still to *)
(* be done is as it was, the rest is as it should be.                      *)
Progress(fs, todo, del) ==
  ~Clash =>
    /\ todo \subseteq Sends \cup Links /\ del \subseteq Deletes
    /\ \A p \in Paths :
         Manifest(fs)[p] = IF p \in todo \cup del THEN op.dst[p] ELSE Expected[p]
    /\ \A p \in Paths :
         fs[p] = Dir => op.into[p] = Dir \/ \E c \in Children(p) : op.src[c] # Absent

Planned ==
  /\ op.src = Manifest(Source)
  /\ op.dst = Manifest(op.into) /\ WellFormed(op.into)

BlobsSent == \A p \in Sends : op.src[p].sha \in cache

Serves(r) ==
  /\ r.st # "none"
  /\ r.st \in {"queued", "running"} => r.src = op.src /\ Progress(node, r.todo, r.del)
  /\ r.st = "error" => Clash
  /\ r.st = "applied" => r.tree = Manifest(node) /\ (Clash \/ r.tree = Expected)

Quiet ==
  /\ apply["late"] = NoRequest
  /\ op.pc = "asked" => op.src = Manifest(local)
  /\ op.pc \notin {"idle", "asked"} => Planned
  /\ op.pc \in {"planned", "stage", "send"} => Into = op.into
  /\ op.pc = "send" => \A p \in Sends \ op.todo : op.src[p].sha \in cache
  /\ op.pc = "applying" => BlobsSent /\ Serves(apply["mine"])
  /\ op.pc = "pull" => BlobsSent /\ Progress(local, op.todo, op.del)
  /\ op.pc \in {"failed", "mismatch"} => Clash
  /\ op.pc = "match" => Manifest(Into) = Expected

QuietInv ==
  /\ \A n \in op.began : n <= edits + faults
  /\ Undisturbed => Quiet
  /\ QuietSyncMatches

-----------------------------------------------------------------------------
(* Types *)

Types == TypeOK /\ TodoOK

LEMMA ToDoFacts ==
  ASSUME TypeOK
  PROVE  /\ Sends \in SUBSET Paths /\ Links \in SUBSET Paths /\ Deletes \in SUBSET Paths
         /\ \A p \in Sends : op.src[p].t = "file" /\ op.src[p].sha \in Contents
         /\ \A p \in Links : op.src[p].t = "link"
<1>1. \A p \in Paths : op.src[p] \in Entries
  BY DEF TypeOK, Ops, Trees
<1> QED
  BY <1>1, EntryFacts DEF Sends, Links, Deletes, ToSend, ToLink, DstOnly

LEMMA NextEntryIn ==
  ASSUME NEW src, NEW todo \in SUBSET Paths, todo # {}
  PROVE  /\ NextEntry(src, todo) \in todo
         /\ src[NextEntry(src, todo)].t # "file" => \A p \in todo : src[p].t # "file"
<1> DEFINE files == {p \in todo : src[p].t = "file"}
<1>1. files # {} => FirstOf(files) \in files
  BY FirstOfIn
<1>2. FirstOf(todo) \in todo
  BY FirstOfIn
<1> QED
  BY <1>1, <1>2 DEF NextEntry

LEMMA NoTreeFacts == NoTree \in Trees /\ \A p \in Paths : NoTree[p] = Absent
  BY PlainEntries DEF NoTree, Trees

LEMMA IdleTypes == Idle \in Ops /\ NoRequest \in Requests
  BY NoTreeFacts DEF Idle, NoRequest, Ops, Requests, Over

LEMMA TypesInit == Init => Types
<1> SUFFICES ASSUME Init PROVE Types
  OBVIOUS
<1>1. LocalInit \in Trees /\ WellFormed(LocalInit) /\ NodeInit \in Trees /\ WellFormed(NodeInit)
  BY SyncAssumption
<1>2. head \in Trees
  <2>1. Manifest(NodeInit) \in Trees
    BY <1>1, ManifestFacts
  <2> QED
    BY <2>1, PlainEntries DEF Init, Trees
<1>3. TypeOK
  BY <1>1, <1>2, IdleTypes, SyncAssumption DEF Init, TypeOK, Idle, NoRequest
<1>4. TodoOK
  BY DEF Init, TodoOK, Idle, NoRequest
<1> QED
  BY <1>3, <1>4 DEF Types

\* The ghosts of an action that touches none of them.
LEMMA GhostsKept == ASSUME UNCHANGED ghosts PROVE UNCHANGED <<edits, faults, work, lost, unlogged>>
  BY DEF ghosts

LEMMA TypesEditNode ==
  ASSUME Types, NEW p \in Tracked, NEW c \in Foreign, EditNode(p, c)
  PROVE  Types'
<1>1. TypeOK /\ TodoOK /\ p \in Paths /\ c \in Contents
  BY SyncAssumption DEF Types
<1>2. File(c) \in Entries /\ File(c).t = "file" /\ node \in Trees /\ WellFormed(node)
  BY <1>1, PlainEntries DEF TypeOK
<1>3. /\ CanPlace(node, p, File(c)) /\ Real(node, p) = p
      /\ node' = Place(node, p, File(c)) /\ work' = work \cup {p}
      /\ edits < MaxEdits /\ edits' = edits + 1
      /\ UNCHANGED <<local, head, cache, log, op, apply, faults, lost, unlogged>>
  BY DEF EditNode, Edit
<1>4. node' \in Trees /\ WellFormed(node')
  BY <1>1, <1>2, <1>3, PlaceTree
<1>5. \A q \in work' : node'[q].t = "file"
  <2>1. node'[p].t = "file"
    BY <1>1, <1>2, <1>3, PlaceIs
  <2>2. ASSUME NEW q \in work, q # p PROVE node'[q] = node[q]
    <3>1. q \in Paths /\ node[q].t = "file"
      BY <1>1, SyncAssumption DEF TypeOK
    <3>2. node[q] \notin {Absent, Dir}
      BY <3>1 DEF Absent, Dir
    <3> QED
      BY <1>1, <1>2, <1>3, <2>2, <3>1, <3>2, PlaceFile
  <2> QED
    BY <1>1, <1>3, <2>1, <2>2 DEF TypeOK
<1>6. WellFormed(local)'
  BY <1>1, <1>3 DEF TypeOK, WellFormed
<1>7. edits' \in 0 .. MaxEdits
  BY <1>1, <1>3, SyncAssumption DEF TypeOK
<1>8. TypeOK'
  BY <1>1, <1>3, <1>4, <1>5, <1>6, <1>7 DEF TypeOK, WellFormed
<1>9. TodoOK'
  BY <1>1, <1>3 DEF TodoOK, Sends
<1> QED
  BY <1>8, <1>9 DEF Types

LEMMA TypesEditLocal ==
  ASSUME Types, NEW fs \in LocalTrees, EditLocal(fs)
  PROVE  Types'
<1>1. fs \in Trees /\ WellFormed(fs)
  BY SyncAssumption
<1>2. edits' \in 0 .. MaxEdits
  BY SyncAssumption DEF EditLocal, Edit, Types, TypeOK
<1>3. TypeOK'
  BY <1>1, <1>2 DEF EditLocal, Types, TypeOK, WellFormed
<1>4. TodoOK'
  BY DEF EditLocal, Types, TodoOK, Sends
<1> QED
  BY <1>3, <1>4 DEF Types

\* Steps of the client's side that change neither tree.
LEMMA TypesOp ==
  ASSUME Types, UNCHANGED <<local, node, head, edits, faults, work>>,
         cache' \subseteq Contents, log' \in [Paths -> Contents \cup {None}],
         op' \in Ops, apply' \in [{"mine", "late"} -> Requests],
         op'.pc = "idle" => op' = Idle, op'.pc # "applying" => apply'["mine"] = NoRequest,
         ~(apply'["mine"].st = "running" /\ apply'["late"].st = "running"),
         TodoOK'
  PROVE  Types'
  BY DEF Types, TypeOK, WellFormed

LEMMA TypesBegin ==
  ASSUME Types, NEW opts \in Options, Begin(opts)
  PROVE  Types'
<1>1. op = Idle /\ UNCHANGED <<local, node, head, cache, log, apply, edits, faults, work>>
  BY DEF Begin, ghosts
<1>2. op' = [Idle EXCEPT !.pc = "asked", !.opts = opts, !.src = Manifest(local),
                         !.began = IF apply["late"] = NoRequest THEN {edits + faults} ELSE {}]
  BY DEF Begin
<1>3. op' \in Ops /\ op'.pc = "asked" /\ op'.todo = {}
  <2>1. Manifest(local) \in Trees /\ opts \in SUBSET {"pull", "delete", "force"}
    BY ManifestFacts, SyncAssumption DEF Types, TypeOK
  <2>2. (IF apply["late"] = NoRequest THEN {edits + faults} ELSE {}) \in SUBSET Nat
    BY SyncAssumption DEF Types, TypeOK
  <2> QED
    BY <1>2, <2>1, <2>2, NoTreeFacts DEF Idle, Ops, Over
<1>4. TodoOK'
  BY <1>1, <1>3 DEF Types, TodoOK
<1>5. apply["mine"] = NoRequest
  BY <1>1 DEF Types, TypeOK, Idle
<1> QED
  BY <1>1, <1>3, <1>4, <1>5, TypesOp DEF Types, TypeOK, NoRequest
LEMMA TypesClient ==
  ASSUME Types, NodeManifest \/ Guard \/ Send \/ Stage \/ AskApply \/ PullDone
                  \/ Applied \/ ApplyFailed \/ Report
  PROVE  Types'
<1>1. TypeOK /\ TodoOK /\ op \in Ops
  BY DEF Types, TypeOK
<1>2. UNCHANGED <<local, node, head, edits, faults, work>>
  BY GhostsKept DEF NodeManifest, Guard, Send, Stage, AskApply, PullDone, Applied, ApplyFailed, Report
<1>3. /\ apply \in [{"mine", "late"} -> Requests]
      /\ op.pc # "applying" => apply["mine"] = NoRequest
      /\ ~(apply["mine"].st = "running" /\ apply["late"].st = "running")
      /\ cache \subseteq Contents /\ log \in [Paths -> Contents \cup {None}]
  BY <1>1 DEF TypeOK
<1>4. NoRequest \in Requests /\ NoRequest.st = "none" /\ NoRequest.todo = {} /\ Idle \in Ops
      /\ Idle.pc = "idle" /\ Idle.todo = {}
  BY IdleTypes DEF NoRequest, Idle
<1>5. CASE NodeManifest
  <2>1. Manifest(node) \in Trees /\ Into \in Trees /\ Own \in SUBSET Paths
    BY <1>1, ManifestFacts, SyncAssumption DEF TypeOK, Into, Own
  <2>2. op' \in Ops /\ op'.pc = "planned" /\ op'.todo = {}
    BY <1>1, <1>5, <2>1 DEF NodeManifest, Ops, TodoOK
  <2>3. UNCHANGED <<cache, log, apply>> /\ op.pc = "asked"
    BY <1>5 DEF NodeManifest
  <2>4. TodoOK'
    BY <1>1, <2>2, <2>3 DEF TodoOK
  <2> QED
    BY <1>2, <1>3, <2>2, <2>3, <2>4, TypesOp
<1>6. CASE Guard
  <2>1. AtRisk \in SUBSET Paths /\ Sends \in SUBSET Paths
    BY <1>1, ToDoFacts DEF AtRisk
  <2>2. /\ op' \in Ops /\ op'.pc \in {"refused", "stage", "send"}
        /\ op'.src = op.src /\ op'.dst = op.dst
        /\ op'.todo = IF op'.pc = "refused" THEN op.todo ELSE Sends
    BY <1>1, <1>6, <2>1 DEF Guard, Ops, Over
  <2>3. UNCHANGED <<cache, log, apply>> /\ op.pc = "planned"
    BY <1>6 DEF Guard
  <2>4. TodoOK'
    BY <1>1, <2>2, <2>3, ToDoFacts DEF TodoOK, Sends
  <2> QED
    BY <1>2, <1>3, <2>2, <2>3, <2>4, TypesOp
<1>7. CASE Send
  <2>1. op.todo \in SUBSET Paths /\ op.todo # {} /\ op.pc = "send" /\ op.todo \subseteq Sends
    BY <1>1, <1>7 DEF Send, Ops, TodoOK
  <2>2. /\ op' \in Ops /\ op'.pc \in {"send", "failed"}
        /\ op'.src = op.src /\ op'.dst = op.dst /\ op'.todo \subseteq op.todo
    BY <1>1, <1>7, <2>1 DEF Send, Goto, Ops, Over
  <2>3. op.src[FirstOf(op.todo)].sha \in Contents
    BY <1>1, <2>1, FirstOfIn, ToDoFacts
  <2>4. UNCHANGED <<log, apply>> /\ cache' \subseteq cache \cup {op.src[FirstOf(op.todo)].sha}
    BY <1>7 DEF Send
  <2>5. TodoOK'
    BY <1>1, <2>1, <2>2, <2>4 DEF TodoOK, Sends
  <2> QED
    BY <1>2, <1>3, <2>1, <2>2, <2>3, <2>4, <2>5, TypesOp
<1>8. CASE Stage
  <2>1. \A p \in Sends : op.src[p].sha \in Contents
    BY <1>1, ToDoFacts
  <2>2. cache' \subseteq Contents
    BY <1>3, <1>8, <2>1 DEF Stage
  <2>3. /\ op' = [op EXCEPT !.pc = "pull", !.todo = Sends \cup Links, !.del = Deletes]
        /\ op.pc = "stage" /\ UNCHANGED <<log, apply>>
    BY <1>8 DEF Stage
  <2>4. op' \in Ops /\ op'.pc = "pull" /\ op'.src = op.src /\ op'.todo = Sends \cup Links
    BY <1>1, <2>3, ToDoFacts DEF Ops
  <2>5. TodoOK'
    BY <1>1, <2>3, <2>4, ToDoFacts DEF TodoOK
  <2> QED
    BY <1>2, <1>3, <2>2, <2>3, <2>4, <2>5, TypesOp
<1>9. CASE AskApply
  <2>1. op.pc = "send" /\ op.todo = {} /\ op' = [op EXCEPT !.pc = "applying"]
        /\ apply' = [apply EXCEPT !["mine"] = Request] /\ UNCHANGED <<cache, log>>
    BY <1>9 DEF AskApply, Goto
  <2>2. Request \in Requests /\ Request.st = "queued" /\ Request.src = op.src
        /\ Request.todo = Sends \cup Links
    <3>1. op.src \in Trees /\ op.seen \in SUBSET Paths /\ Has("force") \in BOOLEAN
      BY <1>1 DEF Ops, Has
    <3> QED
      BY <1>1, <3>1, ToDoFacts, NoTreeFacts DEF Request, NoRequest, Requests
  <2>3. op' \in Ops /\ op'.pc = "applying" /\ op'.todo = {}
    BY <1>1, <2>1 DEF Ops
  <2>4. apply' \in [{"mine", "late"} -> Requests] /\ apply'["mine"] = Request
        /\ apply'["late"] = apply["late"]
    BY <1>3, <2>1, <2>2
  <2>5. TodoOK'
    BY <1>1, <1>3, <2>2, <2>3, <2>4, ToDoFacts DEF TodoOK
  <2> QED
    BY <1>2, <1>3, <2>1, <2>2, <2>3, <2>4, <2>5, TypesOp
<1>10. CASE PullDone \/ Report
  <2>1. op' \in Ops /\ op'.pc \in {"match", "mismatch", "idle"} /\ (op'.pc = "idle" => op' = Idle)
        /\ op'.todo \in {op.todo, {}} /\ (op'.todo # {} => op'.src = op.src)
    BY <1>1, <1>4, <1>10 DEF PullDone, Report, Goto, Verdict, Ops, Over
  <2>2. UNCHANGED <<cache, log, apply>> /\ op.pc # "applying" /\ (op'.pc # "idle" => op.pc = "pull")
        /\ (op'.pc = "idle" => op'.todo = {})
    BY <1>1, <1>4, <1>10 DEF PullDone, Report, Goto, Verdict, Ops, Over
  <2>3. TodoOK'
    BY <1>1, <2>1, <2>2 DEF TodoOK
  <2> QED
    BY <1>2, <1>3, <2>1, <2>2, <2>3, TypesOp
<1>11. CASE Applied \/ ApplyFailed
  <2>1. op' \in Ops /\ op'.pc \in {"match", "mismatch", "failed"} /\ op'.src = op.src
        /\ op'.todo = op.todo
    BY <1>1, <1>11 DEF Applied, ApplyFailed, Goto, Verdict, Ops, Over
  <2>2. apply' = [apply EXCEPT !["mine"] = NoRequest] /\ UNCHANGED cache
    BY <1>11 DEF Applied, ApplyFailed
  <2>3. log' \in [Paths -> Contents \cup {None}]
    BY <1>1, <1>3, <1>11, ToDoFacts DEF Applied, ApplyFailed
  <2>4. apply' \in [{"mine", "late"} -> Requests] /\ apply'["mine"] = NoRequest
        /\ apply'["late"] = apply["late"]
    BY <1>3, <1>4, <2>2
  <2>5. TodoOK'
    BY <1>1, <1>3, <1>4, <2>1, <2>4 DEF TodoOK
  <2> QED
    BY <1>2, <1>3, <1>4, <2>1, <2>2, <2>3, <2>4, <2>5, TypesOp
<1> QED
  BY <1>5, <1>6, <1>7, <1>8, <1>9, <1>10, <1>11

LEMMA TypesPull == ASSUME Types, PullStep PROVE Types'
<1>1. TypeOK /\ TodoOK /\ op \in Ops /\ local \in Trees /\ WellFormed(local)
  BY DEF Types, TypeOK
<1>2. /\ op.pc = "pull" /\ UNCHANGED <<node, head, cache, log, apply, edits, faults, work>>
      /\ op.todo \in SUBSET Paths /\ op.del \in SUBSET Paths /\ op.todo \cup op.del # {}
  BY <1>1 DEF PullStep, ghosts, Ops
<1>3. local' \in Trees /\ WellFormed(local')
  <2>1. CASE op.todo # {}
    <3> DEFINE p == NextEntry(op.src, op.todo)
               e == op.src[p]
    <3>1. p \in op.todo /\ p \in Paths
      BY <1>2, <2>1, NextEntryIn
    <3>2. e \in Entries /\ e.t \in {"file", "link"}
      BY <1>1, <3>1 DEF TodoOK, Ops, Trees
    <3>3. \/ CanPlace(local, p, e) /\ local' = Place(local, p, e)
          \/ local' = local
      BY <2>1 DEF PullStep
    <3> QED
      BY <1>1, <3>1, <3>2, <3>3, PlaceTree
  <2>2. CASE op.todo = {}
    <3>1. local' = Remove(local, FirstOf(op.del))
      BY <2>2 DEF PullStep
    <3>2. FirstOf(op.del) \in Paths
      BY <1>2, <2>2, FirstOfIn
    <3> QED
      BY <1>1, <3>1, <3>2, RemoveTree
  <2> QED
    BY <2>1, <2>2
<1>4. /\ op' \in Ops /\ op'.pc \in {"pull", "failed"} /\ op'.src = op.src
      /\ op'.todo \subseteq op.todo
  BY <1>1, <1>2 DEF PullStep, Goto, Ops, Over
<1>5. TypeOK'
  BY <1>1, <1>2, <1>3, <1>4 DEF TypeOK, WellFormed
<1>6. TodoOK'
  BY <1>1, <1>2, <1>4 DEF TodoOK
<1> QED
  BY <1>5, <1>6 DEF Types
\* What a turn of the node's fetch thread does to its tree, and to the request.
LEMMA ServeSteps ==
  ASSUME Types, NEW w \in {"mine", "late"}, Serve(w)
  PROVE  /\ node' \in Trees /\ WellFormed(node')
         /\ apply' = [apply EXCEPT ![w] = apply'[w]] /\ apply'[w] \in Requests
         /\ apply[w].st \in {"queued", "running"} /\ apply'[w] # NoRequest
         /\ apply'[w].todo \subseteq apply[w].todo /\ apply'[w].del \subseteq apply[w].del
         /\ \/ apply'[w].seen = apply[w].seen /\ apply'[w].force = apply[w].force
            \/ apply'[w].todo = {} /\ apply'[w].del = {}
         /\ apply'[w].src = apply[w].src \/ apply'[w].todo = {}
         /\ apply'[w].st = "running" => apply[w].st = "running" \/ ~Serving
         /\ work' = {p \in work : node'[p] = node[p]}
         /\ unlogged' = unlogged \cup {p \in Paths : node'[p] # node[p]}
         /\ UNCHANGED <<local, head, cache, log, op, edits, faults>>
<1>1. /\ node \in Trees /\ WellFormed(node) /\ apply \in [{"mine", "late"} -> Requests]
      /\ apply[w] \in Requests /\ work \subseteq Paths /\ TodoOK
  BY SyncAssumption DEF Types, TypeOK
<1>2. /\ apply[w].todo \in SUBSET Paths /\ apply[w].del \in SUBSET Paths
      /\ apply[w].src \in Trees
  BY <1>1 DEF Requests
<1>3. CASE ApplyStart(w)
  <2>1. PICK st \in {"running", "error"} : apply' = [apply EXCEPT ![w].st = st]
    BY <1>3 DEF ApplyStart
  <2>2. apply'[w] = [apply[w] EXCEPT !.st = st] /\ apply' = [apply EXCEPT ![w] = apply'[w]]
    BY <1>1, <2>1
  <2>3. apply'[w] \in Requests /\ apply'[w].st = st /\ apply'[w].todo = apply[w].todo
        /\ apply'[w].del = apply[w].del /\ apply'[w].seen = apply[w].seen
        /\ apply'[w].force = apply[w].force /\ apply'[w].src = apply[w].src
    BY <1>1, <2>2 DEF Requests
  <2>4. apply'[w] # NoRequest
    BY <2>3 DEF NoRequest
  <2>5. UNCHANGED <<node, local, head, cache, log, op, edits, faults, work, unlogged>>
        /\ apply[w].st = "queued" /\ ~Serving
    BY <1>3 DEF ApplyStart, ghosts
  <2> QED
    BY <1>1, <2>2, <2>3, <2>4, <2>5
<1>4. CASE ApplyEntry(w)
  <2> DEFINE p == NextEntry(apply[w].src, apply[w].todo)
             e == apply[w].src[p]
  <2>1. p \in apply[w].todo /\ p \in Paths
    BY <1>2, <1>4, NextEntryIn DEF ApplyEntry
  <2>2. e \in Entries /\ e.t \in {"file", "link"}
    BY <1>1, <1>2, <2>1 DEF TodoOK, Trees
  <2>3. UNCHANGED <<local, head, cache, log, op, edits, faults>> /\ apply[w].st = "running"
    BY <1>4 DEF ApplyEntry
  <2>4. CASE CanPlace(node, p, e)
    <3>1. node' = Place(node, p, e) /\ apply' = [apply EXCEPT ![w].todo = @ \ {p}]
          /\ Losing(w, node', e.t = "link" \/ Real(node, p) # p)
      BY <1>4, <2>4 DEF ApplyEntry
    <3>2. apply'[w] = [apply[w] EXCEPT !.todo = @ \ {p}] /\ apply' = [apply EXCEPT ![w] = apply'[w]]
      BY <1>1, <3>1
    <3>3. /\ apply'[w] \in Requests /\ apply'[w].st = apply[w].st
          /\ apply'[w].todo = apply[w].todo \ {p} /\ apply'[w].del = apply[w].del
          /\ apply'[w].seen = apply[w].seen /\ apply'[w].force = apply[w].force
          /\ apply'[w].src = apply[w].src /\ apply'[w] # NoRequest
      BY <1>1, <2>3, <3>2 DEF Requests, NoRequest
    <3>4. node' \in Trees /\ WellFormed(node')
      BY <1>1, <2>1, <2>2, <2>4, <3>1, PlaceTree
    <3> QED
      BY <1>1, <2>3, <3>1, <3>2, <3>3, <3>4 DEF Losing
  <2>5. CASE ~CanPlace(node, p, e)
    <3>1. apply' = [apply EXCEPT ![w].st = "error"] /\ UNCHANGED <<node, work, unlogged>>
      BY <1>4, <2>5 DEF ApplyEntry
    <3>2. apply'[w] = [apply[w] EXCEPT !.st = "error"] /\ apply' = [apply EXCEPT ![w] = apply'[w]]
      BY <1>1, <3>1
    <3>3. /\ apply'[w] \in Requests /\ apply'[w].st = "error"
          /\ apply'[w].todo = apply[w].todo /\ apply'[w].del = apply[w].del
          /\ apply'[w].seen = apply[w].seen /\ apply'[w].force = apply[w].force
          /\ apply'[w].src = apply[w].src /\ apply'[w] # NoRequest
      BY <1>1, <3>2 DEF Requests, NoRequest
    <3> QED
      BY <1>1, <2>3, <3>1, <3>2, <3>3
  <2> QED
    BY <2>4, <2>5
<1>5. CASE ApplyDelete(w)
  <2> DEFINE p == FirstOf(apply[w].del)
  <2>1. p \in Paths
    BY <1>2, <1>5, FirstOfIn DEF ApplyDelete
  <2>2. UNCHANGED <<local, head, cache, log, op, edits, faults>> /\ apply[w].st = "running"
        /\ node' = Remove(node, p) /\ apply' = [apply EXCEPT ![w].del = @ \ {p}]
        /\ Losing(w, node', Real(node, p) # p)
    BY <1>5 DEF ApplyDelete
  <2>3. apply'[w] = [apply[w] EXCEPT !.del = @ \ {p}] /\ apply' = [apply EXCEPT ![w] = apply'[w]]
    BY <1>1, <2>2
  <2>4. /\ apply'[w] \in Requests /\ apply'[w].st = apply[w].st
        /\ apply'[w].todo = apply[w].todo /\ apply'[w].del = apply[w].del \ {p}
        /\ apply'[w].seen = apply[w].seen /\ apply'[w].force = apply[w].force
        /\ apply'[w].src = apply[w].src /\ apply'[w] # NoRequest
    BY <1>1, <2>2, <2>3 DEF Requests, NoRequest
  <2>5. node' \in Trees /\ WellFormed(node')
    BY <1>1, <2>1, <2>2, RemoveTree
  <2> QED
    BY <1>1, <2>2, <2>3, <2>4, <2>5 DEF Losing
<1>6. CASE ApplyEnd(w)
  <2>1. UNCHANGED <<node, local, head, cache, log, op, edits, faults, work, unlogged>>
        /\ apply' = [apply EXCEPT ![w] = [NoRequest EXCEPT !.st = "applied", !.tree = Manifest(node)]]
        /\ apply[w].st = "running"
    BY <1>6 DEF ApplyEnd, ghosts
  <2>2. apply'[w] = [NoRequest EXCEPT !.st = "applied", !.tree = Manifest(node)]
        /\ apply' = [apply EXCEPT ![w] = apply'[w]]
    BY <1>1, <2>1
  <2>3. Manifest(node) \in Trees
    BY <1>1, ManifestFacts
  <2>4. apply'[w] \in Requests /\ apply'[w].todo = {} /\ apply'[w].del = {} /\ apply'[w] # NoRequest
        /\ apply'[w].st = "applied"
    BY <2>2, <2>3, IdleTypes DEF NoRequest, Requests
  <2> QED
    BY <1>1, <2>1, <2>2, <2>4
<1> QED
  BY <1>3, <1>4, <1>5, <1>6 DEF Serve

LEMMA TypesFetch == ASSUME Types, Fetch PROVE Types'
<1>1. /\ TypeOK /\ TodoOK /\ apply \in [{"mine", "late"} -> Requests]
      /\ NoRequest \in Requests /\ NoRequest.st = "none" /\ NoRequest.todo = {}
  BY IdleTypes DEF Types, TypeOK, NoRequest
<1>2. CASE LateGone
  <2>1. apply' = [apply EXCEPT !["late"] = NoRequest]
        /\ UNCHANGED <<local, node, head, cache, log, op, edits, faults, work>>
    BY <1>2 DEF LateGone, ghosts
  <2>2. apply' \in [{"mine", "late"} -> Requests] /\ apply'["mine"] = apply["mine"]
        /\ apply'["late"] = NoRequest
    BY <1>1, <2>1
  <2>3. TypeOK'
    BY <1>1, <2>1, <2>2 DEF TypeOK, WellFormed
  <2>4. TodoOK'
    BY <1>1, <2>1, <2>2 DEF TodoOK, Sends
  <2> QED
    BY <2>3, <2>4 DEF Types
<1>3. ASSUME NEW w \in {"mine", "late"}, Serve(w) PROVE Types'
  <2>1. /\ node' \in Trees /\ WellFormed(node')
        /\ apply' = [apply EXCEPT ![w] = apply'[w]] /\ apply'[w] \in Requests
        /\ apply[w].st \in {"queued", "running"}
        /\ apply'[w].todo \subseteq apply[w].todo
        /\ apply'[w].src = apply[w].src \/ apply'[w].todo = {}
        /\ apply'[w].st = "running" => apply[w].st = "running" \/ ~Serving
        /\ work' = {p \in work : node'[p] = node[p]}
        /\ UNCHANGED <<local, head, cache, log, op, edits, faults>>
    BY <1>3, ServeSteps
  <2>2. apply' \in [{"mine", "late"} -> Requests]
        /\ \A v \in {"mine", "late"} \ {w} : apply'[v] = apply[v]
    BY <1>1, <2>1
  <2>3. ~(apply'["mine"].st = "running" /\ apply'["late"].st = "running")
    BY <1>1, <2>1, <2>2 DEF TypeOK, Serving
  <2>4. op.pc # "applying" => apply'["mine"] = NoRequest
    BY <1>1, <2>1, <2>2 DEF TypeOK
  <2>5. TypeOK'
    BY <1>1, <2>1, <2>2, <2>3, <2>4 DEF TypeOK, WellFormed
  <2>6. TodoOK'
    BY <1>1, <2>1, <2>2 DEF TodoOK, Sends
  <2> QED
    BY <2>5, <2>6 DEF Types
<1> QED
  BY <1>1, <1>2, <1>3 DEF Fetch

LEMMA TypesFault == ASSUME Types, GiveUp \/ LogTorn \/ NodeDies PROVE Types'
<1>1. /\ TypeOK /\ TodoOK /\ apply \in [{"mine", "late"} -> Requests] /\ op \in Ops
      /\ NoRequest \in Requests /\ NoRequest.st = "none" /\ NoRequest.todo = {}
      /\ Idle \in Ops /\ Idle.pc = "idle" /\ Idle.todo = {}
  BY IdleTypes DEF Types, TypeOK, NoRequest, Idle
<1>2. faults' \in 0 .. MaxFaults /\ UNCHANGED <<local, node, head, cache, edits, work>>
  BY <1>1, SyncAssumption DEF GiveUp, LogTorn, NodeDies, Fault, TypeOK
<1>3. log' \in [Paths -> Contents \cup {None}]
  BY <1>1 DEF GiveUp, LogTorn, NodeDies, TypeOK
<1>4. /\ apply' \in [{"mine", "late"} -> Requests] /\ apply'["mine"] = NoRequest
      /\ apply'["late"] \in {apply["late"], apply["mine"], NoRequest}
  BY <1>1 DEF GiveUp, LogTorn, NodeDies
<1>5. /\ op' \in Ops
      /\ op'.pc = "idle" => op' = Idle
      /\ \/ op' = Idle \/ op' = op
         \/ op'.pc = "failed" /\ op'.src = op.src /\ op'.todo = op.todo
  BY <1>1 DEF GiveUp, LogTorn, NodeDies, Ops, Over, TypeOK
<1>6. TypeOK'
  BY <1>1, <1>2, <1>3, <1>4, <1>5 DEF TypeOK, WellFormed
<1>7. TodoOK'
  BY <1>1, <1>4, <1>5 DEF TodoOK, Sends
<1> QED
  BY <1>6, <1>7 DEF Types

LEMMA TypesNext == ASSUME Types, [Next]_vars PROVE Types'
<1>1. CASE UNCHANGED vars
  BY <1>1 DEF vars, treeVars, ghosts, Types, TypeOK, TodoOK, WellFormed, Sends
<1>2. CASE Client
  BY <1>2, TypesClient, TypesPull DEF Client
<1> QED
  BY <1>1, <1>2, TypesEditNode, TypesEditLocal, TypesBegin, TypesFetch, TypesFault DEF Next

LEMMA TypesHold == Spec => []Types
BY TypesInit, TypesNext, PTL DEF Spec

\* The two trees stay trees of two levels, whatever is placed through links or
\* pruned, the node serves one request at a time, and what counts as somebody's
\* work is there.
THEOREM SyncTypeCorrect == Spec => []TypeOK
<1>1. Types => TypeOK
  BY DEF Types
<1> QED
  BY <1>1, TypesHold, PTL
-----------------------------------------------------------------------------
(* What the guard protects *)

SafeInv == Types /\ GuardInv /\ RequestInv /\ GuardHolds

LEMMA ManifestFlat ==
  ASSUME NEW fs \in Trees, WellFormed(fs)
  PROVE  Flat(Manifest(fs))
<1> SUFFICES ASSUME NEW d \in Paths, NEW c \in Children(d), Manifest(fs)[c] # Absent
             PROVE  Manifest(fs)[d] = Absent
  BY DEF Flat
<1>1. c \in Paths /\ Len(c) = 2 /\ Parent(c) = d
  BY PathFacts
<1>2. fs[c] # Absent
  BY <1>1, ManifestFacts
<1>3. fs[d] = Dir
  BY <1>1, <1>2 DEF WellFormed
<1> QED
  BY <1>3, ManifestFacts

LEMMA SafeInit == Init => SafeInv
<1> SUFFICES ASSUME Init PROVE SafeInv
  OBVIOUS
<1>1. GuardInv
  BY DEF Init, GuardInv, Idle
<1>2. RequestInv /\ GuardHolds
  BY DEF Init, RequestInv, GuardHolds, NoRequest
<1> QED
  BY <1>1, <1>2, TypesInit DEF SafeInv

\* Where the guard does not look, nothing it protects can get lost: the
\* client's side up to the request, and the people.
LEMMA GuardSteps ==
  ASSUME SafeInv, NodeManifest \/ Guard \/ Send
  PROVE  GuardInv'
<1>1. TypeOK /\ op \in Ops /\ GuardInv /\ node \in Trees /\ WellFormed(node)
  BY DEF SafeInv, Types, TypeOK
<1>2. CASE NodeManifest
  <2>1. op' = [op EXCEPT !.pc = "planned", !.seen = Own, !.into = Into,
                         !.src = IF Has("pull") THEN Manifest(node) ELSE op.src,
                         !.dst = IF Has("pull") THEN op.src ELSE Manifest(node)]
        /\ UNCHANGED log
    BY <1>2 DEF NodeManifest
  <2>2. op'.pc = "planned" /\ op'.opts = op.opts /\ op'.seen = Own
        /\ (~Has("pull") => op'.dst = Manifest(node))
    BY <1>1, <2>1 DEF Ops
  <2>3. \A p \in Own : Manifest(node)[p] = node[p] /\ node[p].t = "file" /\ Sha(node[p]) # log[p]
    <3> SUFFICES ASSUME NEW p \in Own
                 PROVE  Manifest(node)[p] = node[p] /\ node[p].t = "file" /\ Sha(node[p]) # log[p]
      OBVIOUS
    <3>1. p \in Paths /\ node[p].t = "file" /\ Sha(node[p]) # log[p]
      BY <1>1, SyncAssumption DEF Own, TypeOK
    <3> QED
      BY <1>1, <3>1, ManifestFacts
  <2>4. Flat(Manifest(node))
    BY <1>1, ManifestFlat
  <2> QED
    BY <2>1, <2>2, <2>3, <2>4 DEF GuardInv, Has, Flat
<1>3. CASE Guard
  <2>1. op.pc = "planned" /\ UNCHANGED log
    BY <1>3 DEF Guard
  <2>2. CASE Guarded /\ AtRisk # {}
    <3>1. op'.pc = "refused"
      BY <1>1, <1>3, <2>2 DEF Guard, Ops
    <3> QED
      BY <3>1 DEF GuardInv
  <2>3. CASE ~(Guarded /\ AtRisk # {})
    <3>1. op' = [op EXCEPT !.pc = IF Has("pull") THEN "stage" ELSE "send",
                           !.seen = @ \cap Own, !.todo = Sends]
      BY <1>3, <2>3 DEF Guard
    <3>2. /\ op'.pc = IF Has("pull") THEN "stage" ELSE "send"
          /\ op'.seen = op.seen \cap Own /\ op'.src = op.src /\ op'.dst = op.dst /\ op'.opts = op.opts
      BY <1>1, <3>1 DEF Ops
    <3>3. ASSUME ~Has("pull"), ~Has("force"), NEW p \in (Sends \cup Deletes) \cap op.seen \cap Own
          PROVE  FALSE
      <4>1. p \in Tracked /\ p \in Paths /\ node[p].t = "file" /\ Sha(node[p]) # Sha(head[p])
        BY <1>1, <3>3, SyncAssumption DEF TypeOK, Own
      <4>2. Manifest(node)[p] # head[p]
        BY <1>1, <4>1, ManifestFacts
      <4>3. Sha(op.dst[p]) # log[p]
        BY <1>1, <2>1, <3>3 DEF GuardInv
      <4>4. p \in AtRisk
        BY <3>3, <4>1, <4>2, <4>3 DEF AtRisk, Dirt
      <4> QED
        BY <2>3, <3>3, <4>4 DEF Guarded
    <3>4. op'.pc = "send" => ~Has("pull")
      BY <3>2
    <3>5. ~Has("pull") => Flat(op.dst) /\ \A p \in op.seen : op.dst[p].t = "file"
      BY <1>1, <2>1 DEF GuardInv
    <3>6. UNCHANGED <<Sends, Deletes, Has("pull"), Has("force")>>
      BY <3>2 DEF Sends, Deletes, Has
    <3>7. Flat(op.dst)' <=> Flat(op.dst)
      BY <3>2 DEF Flat
    <3> QED
      BY <3>2, <3>3, <3>4, <3>5, <3>6, <3>7 DEF GuardInv
  <2> QED
    BY <2>2, <2>3
<1>4. CASE Send
  <2>1. op.pc = "send" /\ UNCHANGED log
    BY <1>4 DEF Send
  <2>2. /\ op'.pc \in {"send", "failed"} /\ op'.src = op.src /\ op'.dst = op.dst
        /\ op'.opts = op.opts /\ op'.seen = op.seen
    BY <1>1, <1>4, <2>1 DEF Send, Goto, Ops
  <2> QED
    BY <1>1, <2>1, <2>2 DEF GuardInv, Has, Sends, Deletes, Flat
<1> QED
  BY <1>2, <1>3, <1>4

LEMMA GuardKept ==
  ASSUME SafeInv,
         (\E opts \in Options : Begin(opts)) \/ Stage \/ AskApply \/ PullStep \/ PullDone \/ Applied \/ ApplyFailed \/ Report
           \/ GiveUp \/ LogTorn \/ NodeDies
  PROVE  GuardInv'
<1>1. op \in Ops /\ GuardInv
  BY DEF SafeInv, Types, TypeOK
<1>2. CASE AskApply
  <2>1. op' = [op EXCEPT !.pc = "applying"] /\ op.pc = "send" /\ UNCHANGED log
    BY <1>2 DEF AskApply, Goto
  <2>2. /\ op'.pc = "applying" /\ op'.src = op.src /\ op'.dst = op.dst
        /\ op'.opts = op.opts /\ op'.seen = op.seen
    BY <1>1, <2>1 DEF Ops
  <2> QED
    BY <1>1, <2>1, <2>2 DEF GuardInv, Has, Sends, Deletes, Flat
<1>3. CASE Stage \/ PullStep
  <2>1. /\ op.pc \in {"stage", "pull"} /\ op'.pc \in {"pull", "failed"} /\ op'.opts = op.opts
    BY <1>1, <1>3 DEF Stage, PullStep, Goto, Ops
  <2> QED
    BY <1>1, <2>1 DEF GuardInv, Has
<1>4. CASE (\E opts \in Options : Begin(opts)) \/ PullDone \/ Applied \/ ApplyFailed \/ Report \/ GiveUp \/ LogTorn
  <2>1. op'.pc \in {"asked", "match", "mismatch", "failed", "idle"}
    <3>1. CASE (\E opts \in Options : Begin(opts))
      BY <3>1 DEF Begin, Idle
    <3>2. CASE PullDone \/ Applied \/ ApplyFailed
      BY <1>1, <3>2 DEF PullDone, Applied, ApplyFailed, Goto, Verdict, Ops
    <3>3. CASE Report \/ GiveUp \/ LogTorn
      BY <3>3 DEF Report, GiveUp, LogTorn, Idle
    <3> QED
      BY <1>4, <3>1, <3>2, <3>3
  <2> QED
    BY <2>1 DEF GuardInv
<1>5. CASE NodeDies
  <2>1. UNCHANGED log /\ (op' = op \/ op'.pc = "failed")
    BY <1>1, <1>5 DEF NodeDies, Ops
  <2> QED
    BY <1>1, <2>1 DEF GuardInv, Has, Sends, Deletes, Flat
<1> QED
  BY <1>2, <1>3, <1>4, <1>5
\* A request is made by a push that the guard has let go, and only shrinks.
LEMMA RequestsKept ==
  ASSUME SafeInv, Types',
         Client \/ Fetch \/ GiveUp \/ LogTorn \/ NodeDies \/ (\E opts \in Options : Begin(opts))
  PROVE  RequestInv'
<1>1. /\ TypeOK /\ op \in Ops /\ GuardInv /\ RequestInv
      /\ apply \in [{"mine", "late"} -> Requests]
      /\ NoRequest.todo = {} /\ NoRequest.del = {}
  BY DEF SafeInv, Types, TypeOK, NoRequest
<1> DEFINE Fine(r) == ~r.force =>
             /\ \A p \in r.todo : r.src[p].t = "file" => p \notin r.seen
             /\ \A p \in r.del : p \notin r.seen /\ Children(p) \cap r.seen = {}
<1>2. \A w \in {"mine", "late"} : Fine(apply[w])
  BY <1>1 DEF RequestInv
<1>3. Fine(NoRequest)
  BY <1>1
<1>4. apply' \in [{"mine", "late"} -> Requests]
  BY DEF Types, TypeOK
<1>5. SUFFICES \A w \in {"mine", "late"} : Fine(apply'[w])
  BY <1>4 DEF RequestInv
<1>6. CASE AskApply
  <2>1. apply' = [apply EXCEPT !["mine"] = Request] /\ op.pc = "send"
    BY <1>6 DEF AskApply
  <2>2. /\ Request.todo = Sends \cup Links /\ Request.del = Deletes /\ Request.src = op.src
        /\ Request.seen = op.seen /\ Request.force = Has("force")
    BY DEF Request, NoRequest
  <2>3. ~Has("pull") /\ Flat(op.dst) /\ \A p \in op.seen : op.dst[p].t = "file"
    BY <1>1, <2>1 DEF GuardInv
  <2>4. ASSUME ~Has("force") PROVE Fine(Request)
    <3>1. (Sends \cup Deletes) \cap op.seen = {}
      BY <1>1, <2>1, <2>4 DEF GuardInv
    <3>2. \A p \in Sends \cup Links : op.src[p].t = "file" => p \in Sends
      BY <1>1, ToDoFacts
    <3>3. ASSUME NEW p \in Deletes, NEW c \in Children(p), c \in op.seen PROVE FALSE
      <4>1. p \in Paths /\ op.dst[p] # Absent
        BY <3>3 DEF Deletes, DstOnly
      <4>2. op.dst[c] # Absent
        BY <2>3, <3>3 DEF Absent
      <4> QED
        BY <2>3, <3>3, <4>1, <4>2 DEF Flat
    <3> QED
      BY <2>2, <3>1, <3>2, <3>3
  <2>5. Fine(Request)
    BY <2>2, <2>4
  <2> HIDE DEF Fine
  <2> QED
    BY <1>1, <1>2, <2>1, <2>5
<1>7. ASSUME NEW w \in {"mine", "late"}, Serve(w) PROVE \A v \in {"mine", "late"} : Fine(apply'[v])
  <2>1. /\ apply' = [apply EXCEPT ![w] = apply'[w]]
        /\ apply'[w].todo \subseteq apply[w].todo /\ apply'[w].del \subseteq apply[w].del
        /\ \/ apply'[w].seen = apply[w].seen /\ apply'[w].force = apply[w].force
           \/ apply'[w].todo = {} /\ apply'[w].del = {}
        /\ apply'[w].src = apply[w].src \/ apply'[w].todo = {}
    BY <1>7, ServeSteps DEF SafeInv
  <2>2. Fine(apply'[w])
    BY <1>2, <2>1
  <2>3. \A v \in {"mine", "late"} : v # w => apply'[v] = apply[v]
    BY <1>1, <2>1
  <2> HIDE DEF Fine
  <2> QED
    BY <1>2, <2>2, <2>3
<1>8. CASE Applied \/ ApplyFailed \/ LateGone \/ GiveUp \/ LogTorn \/ NodeDies
  <2>1. \A w \in {"mine", "late"} : apply'[w] \in {apply["mine"], apply["late"], NoRequest}
    BY <1>1, <1>8 DEF Applied, ApplyFailed, LateGone, GiveUp, LogTorn, NodeDies
  <2> HIDE DEF Fine
  <2> QED
    BY <1>2, <1>3, <2>1
<1>9. CASE (\E opts \in Options : Begin(opts)) \/ NodeManifest \/ Guard \/ Send \/ Stage \/ PullStep \/ PullDone \/ Report
  <2>1. apply' = apply
    BY <1>9 DEF Begin, NodeManifest, Guard, Send, Stage, PullStep, PullDone, Report
  <2> QED
    BY <1>2, <2>1
<1> QED
  BY <1>1, <1>6, <1>7, <1>8, <1>9 DEF Client, Fetch

LEMMA LosingAllowed ==
  ASSUME NEW w, NEW after, NEW linked \in BOOLEAN, Losing(w, after, linked), GuardHolds,
         ASSUME NEW q \in work, after[q] # node[q], ~linked, ~apply[w].force
         PROVE  q \notin apply[w].seen
  PROVE  GuardHolds'
<1> SUFFICES ASSUME NEW l \in lost' PROVE l.forced \/ ~l.seen \/ l.linked
  BY DEF GuardHolds
<1>1. CASE l \in lost
  BY <1>1 DEF GuardHolds
<1>2. CASE \E q \in work : /\ after[q] # node[q]
                           /\ l = [forced |-> apply[w].force, seen |-> q \in apply[w].seen,
                                   linked |-> linked]
  <2>1. PICK q \in work : /\ after[q] # node[q]
                          /\ l = [forced |-> apply[w].force, seen |-> q \in apply[w].seen,
                                  linked |-> linked]
    BY <1>2
  <2>2. l.forced = apply[w].force /\ l.seen = (q \in apply[w].seen) /\ l.linked = linked
    BY <2>1
  <2> QED
    BY <2>1, <2>2
<1> QED
  BY <1>1, <1>2 DEF Losing

\* The step that counts: what a file placed where its path says takes away is
\* what it replaces, what a deletion takes away is what it names, and neither is
\* protected.
LEMMA LossesAllowed ==
  ASSUME SafeInv, NEW w \in {"mine", "late"}, Serve(w)
  PROVE  GuardHolds'
<1>1. /\ TypeOK /\ TodoOK /\ RequestInv /\ GuardHolds
      /\ node \in Trees /\ WellFormed(node) /\ apply \in [{"mine", "late"} -> Requests]
      /\ apply[w] \in Requests
  BY DEF SafeInv, Types, TypeOK
<1>2. /\ apply[w].todo \in SUBSET Paths /\ apply[w].del \in SUBSET Paths /\ apply[w].src \in Trees
  BY <1>1 DEF Requests
<1>3. \A q \in work : q \in Paths /\ node[q].t = "file" /\ node[q] \notin {Absent, Dir}
  BY <1>1, SyncAssumption DEF TypeOK, Absent, Dir
<1>4. CASE ApplyEntry(w)
  <2> DEFINE p == NextEntry(apply[w].src, apply[w].todo)
             e == apply[w].src[p]
  <2>1. p \in apply[w].todo /\ p \in Paths
    BY <1>2, <1>4, NextEntryIn DEF ApplyEntry
  <2>2. e \in Entries /\ e.t \in {"file", "link"}
    BY <1>1, <1>2, <2>1 DEF TodoOK, Trees
  <2>3. CASE CanPlace(node, p, e)
    <3>1. node' = Place(node, p, e) /\ Losing(w, node', e.t = "link" \/ Real(node, p) # p)
      BY <1>4, <2>3 DEF ApplyEntry
    <3>2. ASSUME NEW q \in work, node'[q] # node[q], e.t # "link", Real(node, p) = p, ~apply[w].force
          PROVE  q \notin apply[w].seen
      <4>1. q \in Paths /\ node[q] \notin {Absent, Dir} /\ e.t = "file"
        BY <1>3, <2>2, <3>2
      <4>2. Place(node, p, e)[q] # node[q]
        BY <3>1, <3>2
      <4>3. q = p
        <5> HIDE DEF p, e
        <5> QED
          BY <1>1, <2>1, <2>2, <2>3, <3>2, <4>1, <4>2, PlaceFile
      <4> QED
        BY <1>1, <2>1, <3>2, <4>1, <4>3 DEF RequestInv
    <3>3. (e.t = "link" \/ Real(node, p) # p) \in BOOLEAN
      OBVIOUS
    <3> HIDE DEF p, e
    <3> QED
      BY <1>1, <3>1, <3>2, <3>3, LosingAllowed
  <2>4. CASE ~CanPlace(node, p, e)
    BY <1>1, <1>4, <2>4 DEF ApplyEntry, GuardHolds
  <2> QED
    BY <2>3, <2>4
<1>5. CASE ApplyDelete(w)
  <2> DEFINE p == FirstOf(apply[w].del)
  <2>1. p \in Paths /\ p \in apply[w].del
    BY <1>2, <1>5, FirstOfIn DEF ApplyDelete
  <2>2. node' = Remove(node, p) /\ Losing(w, node', Real(node, p) # p)
    BY <1>5 DEF ApplyDelete
  <2>3. ASSUME NEW q \in work, node'[q] # node[q], Real(node, p) = p, ~apply[w].force
        PROVE  q \notin apply[w].seen
    <3>1. q \in Paths /\ node[q] \notin {Absent, Dir}
      BY <1>3, <2>3
    <3>2. Remove(node, p)[q] # node[q]
      BY <2>2, <2>3
    <3>3. q = p \/ q \in Children(p)
      <4> HIDE DEF p
      <4> QED
        BY <1>1, <2>1, <2>3, <3>1, <3>2, RemoveIs
    <3> QED
      BY <1>1, <2>1, <2>3, <3>3 DEF RequestInv
  <2>4. (Real(node, p) # p) \in BOOLEAN
    OBVIOUS
  <2> HIDE DEF p
  <2> QED
    BY <1>1, <2>2, <2>3, <2>4, LosingAllowed
<1>6. CASE ApplyStart(w) \/ ApplyEnd(w)
  BY <1>1, <1>6 DEF ApplyStart, ApplyEnd, ghosts, GuardHolds
<1> QED
  BY <1>4, <1>5, <1>6 DEF Serve

LEMMA SafeNext == ASSUME SafeInv, [Next]_vars PROVE SafeInv'
<1>1. Types'
  BY TypesNext DEF SafeInv
<1>2. CASE UNCHANGED vars
  BY <1>1, <1>2 DEF vars, treeVars, ghosts, SafeInv, GuardInv, RequestInv, GuardHolds, Has, Sends,
                    Deletes, Flat
<1>3. CASE (\E p \in Tracked, c \in Foreign : EditNode(p, c)) \/ \E fs \in LocalTrees : EditLocal(fs)
  <2>1. UNCHANGED <<op, apply, log, lost>>
    BY <1>3 DEF EditNode, EditLocal
  <2> QED
    BY <1>1, <2>1 DEF SafeInv, GuardInv, RequestInv, GuardHolds, Has, Sends, Deletes, Flat
<1>4. CASE Client \/ GiveUp \/ LogTorn \/ NodeDies \/ (\E opts \in Options : Begin(opts))
  <2>1. GuardInv'
    BY <1>4, GuardSteps, GuardKept DEF Client
  <2>2. RequestInv'
    BY <1>1, <1>4, RequestsKept
  <2>3. UNCHANGED lost
    BY <1>4 DEF Client, NodeManifest, Guard, Send, Stage, AskApply, PullStep, PullDone, Applied,
                ApplyFailed, Report, GiveUp, LogTorn, NodeDies, Begin, ghosts
  <2> QED
    BY <1>1, <2>1, <2>2, <2>3 DEF SafeInv, GuardHolds
<1>5. CASE Fetch
  <2>1. UNCHANGED <<op, log>>
    BY <1>5, ServeSteps DEF Fetch, LateGone, SafeInv, Types, TypeOK
  <2>2. RequestInv'
    BY <1>1, <1>5, RequestsKept
  <2>3. GuardHolds'
    BY <1>5, LossesAllowed DEF Fetch, LateGone, ghosts, SafeInv, Types, TypeOK, GuardHolds
  <2> QED
    BY <1>1, <2>1, <2>2, <2>3 DEF SafeInv, GuardInv, Has, Sends, Deletes, Flat
<1> QED
  BY <1>2, <1>3, <1>4, <1>5 DEF Next

LEMMA SafeHolds == Spec => []SafeInv
BY SafeInit, SafeNext, PTL DEF Spec

\* Links aside, the dirt guard keeps its promise for every tree and any series
\* of pushes and pulls: no push without --force destroys work that was on the
\* node when the guard looked, however late its request is served.
THEOREM GuardProtectsWork == Spec => []GuardHolds
<1>1. SafeInv => GuardHolds
  BY DEF SafeInv
<1> QED
  BY <1>1, SafeHolds, PTL
-----------------------------------------------------------------------------
(* What the guard refuses *)

LogsInv == Types /\ LogInv

\* An edit is to one file, as far as manifests go.
LEMMA EditOne ==
  ASSUME Types, NEW p \in Tracked, NEW c \in Foreign, EditNode(p, c), NEW q \in Paths, q # p
  PROVE  Manifest(node')[q] = Manifest(node)[q] /\ Sha(node'[q]) = Sha(node[q])
<1>1. node \in Trees /\ WellFormed(node) /\ p \in Paths /\ File(c) \in Entries /\ File(c).t = "file"
  BY PlainEntries, SyncAssumption DEF Types, TypeOK
<1>2. CanPlace(node, p, File(c)) /\ Real(node, p) = p /\ node' = Place(node, p, File(c))
  BY DEF EditNode
<1>3. node'[q] = node[q] \/ {node[q], node'[q]} \subseteq {Absent, Dir}
  BY <1>1, <1>2, PlaceFile
<1> QED
  BY <1>3 DEF Manifest, Sha, Absent, Dir

LEMMA LogsInit == Init => LogsInv
<1> SUFFICES ASSUME Init PROVE LogsInv
  OBVIOUS
<1>1. ASSUME NEW p \in Tracked PROVE Accounted(p)
  BY <1>1, SyncAssumption DEF Init, Accounted
<1> QED
  BY <1>1, TypesInit DEF Init, Idle, LogsInv, LogInv, RefusedForWork

LEMMA LogsPeople ==
  ASSUME LogsInv,
         \/ \E p \in Tracked, c \in Foreign : EditNode(p, c)
         \/ \E fs \in LocalTrees : EditLocal(fs)
  PROVE  LogInv'
<1>1. LogInv /\ Types /\ Tracked \subseteq Paths
  BY SyncAssumption DEF LogsInv
<1>2. ASSUME NEW fs \in LocalTrees, EditLocal(fs) PROVE LogInv'
  BY <1>1, <1>2 DEF EditLocal, LogInv, Accounted, RefusedForWork, Has
<1>3. ASSUME NEW p \in Tracked, NEW c \in Foreign, EditNode(p, c) PROVE LogInv'
  <2>1. work' = work \cup {p} /\ UNCHANGED <<head, log, op, unlogged>>
    BY <1>3 DEF EditNode
  <2>2. \A q \in Paths : q # p => Manifest(node')[q] = Manifest(node)[q] /\ Sha(node'[q]) = Sha(node[q])
    BY <1>1, <1>3, EditOne
  <2> QED
    BY <1>1, <2>1, <2>2 DEF LogInv, Accounted, RefusedForWork, Has
<1> QED
  BY <1>2, <1>3

\* What the fetch thread changes is not in the log yet.
LEMMA LogsFetch == ASSUME LogsInv, Fetch PROVE LogInv'
<1>1. LogInv /\ Types /\ Tracked \subseteq Paths
  BY SyncAssumption DEF LogsInv
<1>2. CASE LateGone
  BY <1>1, <1>2 DEF LateGone, ghosts, LogInv, Accounted, RefusedForWork, Has
<1>3. ASSUME NEW w \in {"mine", "late"}, Serve(w) PROVE LogInv'
  <2>1. /\ work' = {p \in work : node'[p] = node[p]}
        /\ unlogged' = unlogged \cup {p \in Paths : node'[p] # node[p]}
        /\ UNCHANGED <<head, log, op>>
    BY <1>1, <1>3, ServeSteps
  <2>2. \A q \in Paths : node'[q] = node[q] => Manifest(node')[q] = Manifest(node)[q]
    BY DEF Manifest
  <2>3. \A q \in Paths : node'[q] # node[q] => q \in unlogged'
    BY <2>1
  <2>4. \A q \in Paths : node'[q] = node[q] /\ q \in work \cup unlogged => q \in work' \cup unlogged'
    BY <2>1
  <2>5. \A q \in Tracked : Accounted(q)'
    BY <1>1, <2>1, <2>2, <2>3, <2>4 DEF LogInv, Accounted
  <2>6. ~Has("pull") /\ op.pc = "planned" =>
          \A q \in Paths : Manifest(node')[q] = op.dst[q] \/ q \in work' \cup unlogged'
    BY <1>1, <2>2, <2>3, <2>4 DEF LogInv
  <2>7. RefusedForWork'
    BY <1>1, <2>1 DEF LogInv, RefusedForWork
  <2> QED
    BY <2>1, <2>5, <2>6, <2>7 DEF LogInv, Has
<1> QED
  BY <1>1, <1>2, <1>3 DEF Fetch, Types, TypeOK

LEMMA LogsGuard == ASSUME LogsInv, Guard PROVE LogInv'
<1>1. LogInv /\ TypeOK /\ op \in Ops /\ node \in Trees /\ op.pc = "planned"
  BY DEF LogsInv, Types, TypeOK, Guard
<1>2. UNCHANGED <<node, head, log, work, unlogged>>
  BY DEF Guard, ghosts
<1>3. op'.pc # "planned"
  BY <1>1 DEF Guard, Ops
<1>4. ASSUME op'.pc = "refused" PROVE op'.ours \subseteq unlogged
  <2>1. Guarded /\ op' = [op EXCEPT !.pc = "refused", !.ours = AtRisk \ work]
    BY <1>1, <1>4 DEF Guard, Ops
  <2>2. ~Has("pull") /\ op'.ours = AtRisk \ work
    BY <1>1, <2>1 DEF Guarded, Ops
  <2>3. ASSUME NEW p \in AtRisk, p \notin work, p \notin unlogged PROVE FALSE
    <3>1. p \in Tracked /\ p \in Paths /\ Manifest(node)[p] # head[p] /\ Sha(op.dst[p]) # log[p]
      BY <2>3, SyncAssumption DEF AtRisk, Dirt
    <3>2. Manifest(node)[p] = op.dst[p]
      BY <1>1, <2>2, <2>3, <3>1 DEF LogInv
    <3>3. Sha(Manifest(node)[p]) = Sha(node[p])
      BY <3>1 DEF Manifest, Sha, Absent
    <3> QED
      BY <1>1, <2>3, <3>1, <3>2, <3>3 DEF LogInv, Accounted
  <2> QED
    BY <2>2, <2>3
<1>5. \A p \in Tracked : Accounted(p)'
  BY <1>1, <1>2 DEF LogInv, Accounted
<1> QED
  BY <1>2, <1>3, <1>4, <1>5 DEF LogInv, RefusedForWork

\* The log after a push that was heard of: where the node is not as it says, it
\* is among what is not written down.
LEMMA LogsApplied == ASSUME LogsInv, Applied PROVE LogInv'
<1>1. LogInv /\ TypeOK /\ op \in Ops /\ Tracked \subseteq Paths
  BY SyncAssumption DEF LogsInv, Types, TypeOK
<1>2. UNCHANGED <<node, head, work>>
  BY DEF Applied
<1>3. op'.pc \in {"match", "mismatch"}
  BY <1>1 DEF Applied, Goto, Verdict, Ops
<1>4. /\ log' = [p \in Paths |->
                   IF p \in Sends THEN op.src[p].sha ELSE IF p \in Deletes THEN None ELSE log[p]]
      /\ unlogged' = {p \in unlogged \cup (Sends \cup Deletes) :
                        p \in Sends \cup Deletes => Manifest(node)[p] # op.src[p]}
  BY DEF Applied
<1>5. ASSUME NEW p \in Tracked, p \notin work, p \notin unlogged' PROVE Accounted(p)'
  <2>1. p \in Paths
    BY <1>1
  <2>2. CASE p \in Sends \cup Deletes
    <3>1. Manifest(node)[p] = op.src[p]
      BY <1>4, <1>5, <2>2
    <3>2. Sha(node[p]) = Sha(op.src[p])
      BY <2>1, <3>1 DEF Manifest, Sha, Absent
    <3>3. Sha(op.src[p]) = log'[p]
      <4>1. CASE p \in Sends
        BY <1>1, <1>4, <2>1, <4>1, ToDoFacts DEF Sha
      <4>2. CASE p \notin Sends
        BY <1>4, <2>1, <2>2, <4>2 DEF Sha, Deletes, DstOnly, Absent
      <4> QED
        BY <4>1, <4>2
    <3> QED
      BY <1>2, <3>2, <3>3 DEF Accounted
  <2>3. CASE p \notin Sends \cup Deletes
    BY <1>1, <1>2, <1>4, <1>5, <2>1, <2>3 DEF LogInv, Accounted
  <2> QED
    BY <2>2, <2>3
<1>6. \A p \in Tracked : Accounted(p)'
  BY <1>2, <1>5 DEF Accounted
<1> QED
  BY <1>3, <1>6 DEF LogInv, RefusedForWork

LEMMA LogsOther ==
  ASSUME LogsInv,
         \/ \E opts \in Options : Begin(opts)
         \/ NodeManifest \/ Send \/ Stage \/ AskApply \/ PullStep \/ PullDone \/ ApplyFailed \/ Report
         \/ GiveUp \/ LogTorn \/ NodeDies
  PROVE  LogInv'
<1>1. LogInv /\ TypeOK /\ op \in Ops /\ Tracked \subseteq Paths
  BY SyncAssumption DEF LogsInv, Types, TypeOK
<1>2. CASE LogTorn
  BY <1>1, <1>2 DEF LogTorn, LogInv, Accounted, RefusedForWork, Idle
<1>3. CASE ~LogTorn
  <2>1. UNCHANGED <<node, head, log, work, unlogged>>
    BY <1>3 DEF Begin, NodeManifest, Send, Stage, AskApply, PullStep, PullDone, ApplyFailed, Report,
                GiveUp, NodeDies, ghosts
  <2>2. \A p \in Tracked : Accounted(p)'
    BY <1>1, <2>1 DEF LogInv, Accounted
  <2>3. CASE NodeManifest
    <3>1. op'.pc = "planned" /\ op'.opts = op.opts /\ (~Has("pull") => op'.dst = Manifest(node))
      BY <1>1, <2>3 DEF NodeManifest, Ops
    <3> QED
      BY <2>1, <2>2, <3>1 DEF LogInv, RefusedForWork, Has
  <2>4. CASE ~NodeManifest
    <3>1. op' = op \/ op'.pc \notin {"planned", "refused"}
      <4>1. CASE \E opts \in Options : Begin(opts)
        BY <4>1 DEF Begin, Idle
      <4>2. CASE Send \/ Stage \/ AskApply \/ PullDone \/ ApplyFailed
        BY <1>1, <4>2 DEF Send, Stage, AskApply, PullDone, ApplyFailed, Goto, Verdict, Ops
      <4>3. CASE PullStep
        BY <1>1, <4>3 DEF PullStep, Goto, Ops
      <4>4. CASE Report \/ GiveUp \/ NodeDies
        BY <1>1, <4>4 DEF Report, GiveUp, NodeDies, Idle, Ops
      <4> QED
        BY <1>3, <2>4, <4>1, <4>2, <4>3, <4>4
    <3> QED
      BY <1>1, <2>1, <2>2, <3>1 DEF LogInv, RefusedForWork, Has
  <2> QED
    BY <2>3, <2>4
<1> QED
  BY <1>2, <1>3

LEMMA LogsNext == ASSUME LogsInv, [Next]_vars PROVE LogsInv'
<1>1. Types'
  BY TypesNext DEF LogsInv
<1>2. CASE UNCHANGED vars
  BY <1>1, <1>2 DEF vars, treeVars, ghosts, LogsInv, LogInv, Accounted, RefusedForWork, Has
<1>3. CASE Next
  BY <1>1, <1>3, LogsPeople, LogsFetch, LogsGuard, LogsApplied, LogsOther DEF Next, Client, LogsInv
<1> QED
  BY <1>2, <1>3

\* The guard refuses nobody for what a push of his has left on the node and
\* written down: without somebody's work, or a push whose outcome was not
\* recorded, it lets every sync go.
THEOREM GuardRefusesForWork == Spec => []RefusedForWork
<1>1. LogsInv => RefusedForWork
  BY DEF LogsInv, LogInv
<1> QED
  BY <1>1, LogsInit, LogsNext, PTL DEF Spec
-----------------------------------------------------------------------------
(* What a sync nobody disturbs leaves. First the plan: nothing in it is in *)
(* the way of anything else, so each of its steps is one entry, and links  *)
(* and directories come into it no more.                                   *)

QuietSync == SafeInv /\ QuietInv

\* A tree that is between what it was and what it is to be.
LEMMA Between ==
  ASSUME Types, Planned, ~Clash, NEW fs \in Trees, WellFormed(fs),
         NEW todo, NEW del, Progress(fs, todo, del)
  PROVE  /\ todo \subseteq Sends \cup Links /\ del \subseteq Deletes
         /\ \A p \in todo : p \in Paths /\ op.src[p] \in Entries /\ op.src[p].t \in {"file", "link"}
                            /\ op.src[p] # Absent
         /\ \A p \in del : p \in Paths /\ op.src[p] = Absent /\ op.dst[p] # Absent
         /\ \A d \in Paths : \A c \in Children(d) :
              /\ op.src[c] # Absent \/ op.dst[c] # Absent => fs[d] \in {Absent, Dir}
              /\ op.src[c] # Absent => op.src[d] = Absent
              /\ op.src[d] # Absent \/ op.dst[d] # Absent => fs[c] = Absent
         /\ \A p \in todo \cup del : Real(fs, p) = p /\ ParentOk(fs, p)
<1>1. /\ todo \subseteq Sends \cup Links /\ del \subseteq Deletes
      /\ \A p \in Paths : Manifest(fs)[p] = IF p \in todo \cup del THEN op.dst[p] ELSE Expected[p]
  BY DEF Progress
<1>2. \A p \in Paths : Expected[p] \in {op.src[p], op.dst[p]}
  BY DEF Expected
<1>3. \A p \in Paths : op.src[p] \in Entries
  BY DEF Types, TypeOK, Ops, Trees
<1>4. \A p \in todo : p \in Paths /\ op.src[p] \in Entries /\ op.src[p].t \in {"file", "link"}
                      /\ op.src[p] # Absent
  BY <1>1, <1>3, ToDoFacts, EntryFacts DEF Types
<1>5. \A p \in del : p \in Paths /\ op.src[p] = Absent /\ op.dst[p] # Absent
  BY <1>1 DEF Deletes, DstOnly
<1>6. Flat(op.src) /\ Flat(op.dst)
  <2>1. Source \in Trees /\ WellFormed(Source) /\ op.into \in Trees
    BY DEF Source, Types, TypeOK, Ops
  <2> QED
    BY <2>1, ManifestFlat DEF Planned
<1>7. ASSUME NEW d \in Paths, NEW c \in Children(d)
      PROVE  /\ op.src[c] # Absent \/ op.dst[c] # Absent => fs[d] \in {Absent, Dir}
             /\ op.src[c] # Absent => op.src[d] = Absent
             /\ op.src[d] # Absent \/ op.dst[d] # Absent => fs[c] = Absent
  <2>1. c \in Paths /\ Len(c) = 2
    BY <1>7, PathFacts
  <2>2. (op.src[d] = Absent \/ op.dst[c] = Absent) /\ (op.src[c] = Absent \/ op.dst[d] = Absent)
    BY DEF Clash
  <2>3. (op.src[c] # Absent => op.src[d] = Absent) /\ (op.dst[c] # Absent => op.dst[d] = Absent)
    BY <1>6 DEF Flat
  <2>4. ASSUME op.src[c] # Absent \/ op.dst[c] # Absent PROVE fs[d] \in {Absent, Dir}
    <3>1. op.src[d] = Absent /\ op.dst[d] = Absent
      BY <2>2, <2>3, <2>4
    <3>2. Manifest(fs)[d] = Absent
      BY <1>1, <1>2, <3>1
    <3> QED
      BY <3>2, ManifestFacts
  <2>5. ASSUME op.src[d] # Absent \/ op.dst[d] # Absent PROVE fs[c] = Absent
    <3>1. op.src[c] = Absent /\ op.dst[c] = Absent
      BY <2>2, <2>3, <2>5
    <3>2. Manifest(fs)[c] = Absent
      BY <1>1, <1>2, <2>1, <3>1
    <3>3. fs[c] # Dir
      BY <2>1 DEF WellFormed
    <3> QED
      BY <2>1, <3>2, <3>3, ManifestFacts
  <2> QED
    BY <2>3, <2>4, <2>5
<1>8. ASSUME NEW p \in todo \cup del PROVE Real(fs, p) = p /\ ParentOk(fs, p)
  <2>1. p \in Paths /\ (op.src[p] # Absent \/ op.dst[p] # Absent)
    BY <1>4, <1>5
  <2>2. CASE Len(p) = 1
    BY <2>2 DEF Real, ParentOk
  <2>3. CASE Len(p) = 2
    <3>1. Parent(p) \in Paths /\ p \in Children(Parent(p))
      BY <2>1, <2>3, PathFacts
    <3>2. fs[Parent(p)] \in {Absent, Dir}
      BY <1>7, <2>1, <3>1
    <3> QED
      BY <3>2 DEF Real, ParentOk, IsDir, Absent, Dir
  <2> QED
    BY <2>1, <2>2, <2>3, PathFacts
<1> QED
  BY <1>1, <1>4, <1>5, <1>7, <1>8

LEMMA ProgressStart ==
  ASSUME Types, Planned
  PROVE  Progress(op.into, Sends \cup Links, Deletes)
<1>1. op.into \in Trees /\ \A p \in Paths : op.src[p] \in Entries /\ op.src[p] # Dir
  <2>1. Source \in Trees /\ op.into \in Trees
    BY DEF Source, Types, TypeOK, Ops
  <2> QED
    BY <2>1, ManifestFacts DEF Planned
<1>2. ASSUME NEW p \in Paths, p \notin Sends \cup Links \cup Deletes PROVE op.dst[p] = Expected[p]
  <2>1. CASE op.src[p] = Absent
    BY <1>2, <2>1 DEF Expected
  <2>2. CASE op.src[p] # Absent
    <3>1. op.src[p].t \in {"file", "link"}
      BY <1>1, <2>2, EntryFacts
    <3>2. op.dst[p] = op.src[p]
      BY <1>2, <3>1 DEF Sends, Links, ToSend, ToLink
    <3> QED
      BY <2>2, <3>2 DEF Expected
  <2> QED
    BY <2>1, <2>2
<1>3. \A p \in Paths : Manifest(op.into)[p] = op.dst[p]
  BY DEF Planned
<1> QED
  BY <1>2, <1>3 DEF Progress

LEMMA ProgressPlace ==
  ASSUME Types, Planned, ~Clash, NEW fs \in Trees, WellFormed(fs),
         NEW todo, NEW del, Progress(fs, todo, del), NEW p \in todo
  PROVE  /\ CanPlace(fs, p, op.src[p])
         /\ Progress(Place(fs, p, op.src[p]), todo \ {p}, del)
<1> DEFINE e == op.src[p]
           after == Place(fs, p, e)
<1>1. /\ p \in Paths /\ e \in Entries /\ e.t \in {"file", "link"} /\ e # Absent
      /\ p \in Sends \cup Links /\ p \notin del
      /\ todo \subseteq Sends \cup Links /\ del \subseteq Deletes
      /\ Real(fs, p) = p /\ ParentOk(fs, p)
      /\ \A c \in Children(p) : fs[c] = Absent /\ op.src[c] = Absent
  BY Between
<1>2. e.t = "file" => fs[p] # Dir
  <2> SUFFICES ASSUME e.t = "file", fs[p] = Dir PROVE FALSE
    OBVIOUS
  <2>1. op.into[p] = Dir \/ \E c \in Children(p) : op.src[c] # Absent
    BY <1>1 DEF Progress
  <2> QED
    BY <1>1, <2>1 DEF Clash
<1>3. CanPlace(fs, p, e)
  BY <1>1, <1>2 DEF CanPlace
<1>4. after \in Trees
  BY <1>1, <1>3, PlaceTree
<1>5. after[p] = e
  BY <1>1, <1>3, PlaceIs
<1>6. \A q \in Paths : q # p =>
        \/ after[q] = fs[q]
        \/ p \in Children(q) /\ fs[q] \in {Absent, Dir} /\ after[q] = Dir
  BY <1>1, <1>3, PlaceIs
<1> HIDE DEF after, e
<1>7. Manifest(after)[p] = e
  BY <1>1, <1>4, <1>5, ManifestFacts
<1>8. \A q \in Paths : q # p => Manifest(after)[q] = Manifest(fs)[q]
  BY <1>6 DEF Manifest, Absent, Dir
<1>9. Expected[p] = e
  BY <1>1 DEF Expected, e
<1>10. \A q \in Paths :
         Manifest(after)[q] = IF q \in (todo \ {p}) \cup del THEN op.dst[q] ELSE Expected[q]
  BY <1>1, <1>7, <1>8, <1>9 DEF Progress
<1>11. \A q \in Paths : after[q] = Dir =>
         op.into[q] = Dir \/ \E c \in Children(q) : op.src[c] # Absent
  <2> SUFFICES ASSUME NEW q \in Paths, after[q] = Dir
               PROVE  op.into[q] = Dir \/ \E c \in Children(q) : op.src[c] # Absent
    OBVIOUS
  <2>1. q # p
    BY <1>1, <1>5, EntryFacts
  <2>2. CASE after[q] = fs[q]
    BY <2>2 DEF Progress
  <2>3. CASE p \in Children(q)
    BY <1>1, <2>3 DEF e
  <2> QED
    BY <1>6, <2>1, <2>2, <2>3
<1>12. Progress(after, todo \ {p}, del)
  BY <1>1, <1>10, <1>11 DEF Progress
<1> QED
  BY <1>3, <1>12 DEF after, e

LEMMA ProgressRemove ==
  ASSUME Types, Planned, ~Clash, NEW fs \in Trees, WellFormed(fs),
         NEW todo, NEW del, Progress(fs, todo, del), NEW p \in del
  PROVE  Progress(Remove(fs, p), todo, del \ {p})
<1> DEFINE after == Remove(fs, p)
<1>1. /\ p \in Paths /\ op.src[p] = Absent /\ op.dst[p] # Absent
      /\ todo \subseteq Sends \cup Links /\ del \subseteq Deletes
      /\ Real(fs, p) = p /\ ParentOk(fs, p)
      /\ \A c \in Children(p) : fs[c] = Absent
      /\ \A q \in todo : op.src[q] # Absent
  BY Between
<1>2. after \in Trees
  BY <1>1, RemoveTree
<1>3. after[p] = Absent
  BY <1>1 DEF Remove
<1>4. \A q \in Paths : q # p => after[q] = fs[q] \/ (fs[q] = Dir /\ after[q] = Absent)
  BY <1>1, RemoveIs
<1> HIDE DEF after
<1>5. Manifest(after)[p] = Absent
  BY <1>1, <1>2, <1>3, ManifestFacts
<1>6. \A q \in Paths : q # p => Manifest(after)[q] = Manifest(fs)[q]
  BY <1>4 DEF Manifest, Absent, Dir
<1>7. Expected[p] = Absent /\ p \notin todo
  BY <1>1 DEF Expected
<1>8. \A q \in Paths :
        Manifest(after)[q] = IF q \in todo \cup (del \ {p}) THEN op.dst[q] ELSE Expected[q]
  BY <1>1, <1>5, <1>6, <1>7 DEF Progress
<1>9. \A q \in Paths : after[q] = Dir =>
        op.into[q] = Dir \/ \E c \in Children(q) : op.src[c] # Absent
  BY <1>3, <1>4, PlainEntries DEF Progress
<1>10. Progress(after, todo, del \ {p})
  BY <1>1, <1>8, <1>9 DEF Progress
<1> QED
  BY <1>10 DEF after

LEMMA ProgressEnd ==
  ASSUME NEW fs, NEW todo, NEW del, Progress(fs, todo, del), ~Clash, todo \cup del = {}
  PROVE  Manifest(fs) = Expected
  BY DEF Progress, Manifest, Expected

\* With --delete the two sides are then the same, and diff shows nothing.
LEMMA NothingToShow ==
  ASSUME Types, Planned, Manifest(Into) = Expected, Has("delete")
  PROVE  Classified(Manifest(local), Manifest(node)) = {}
<1>1. \A p \in Paths : Expected[p] = op.src[p]
  BY DEF Expected, Deletes, DstOnly
<1>2. \A p \in Paths : Manifest(Into)[p] = Manifest(Source)[p]
  BY <1>1 DEF Planned
<1>3. \A p \in Paths : Manifest(local)[p] = Manifest(node)[p]
  BY <1>2 DEF Into, Source
<1> QED
  BY <1>3 DEF Classified
LEMMA NothingToShowNext ==
  (Types /\ Planned /\ Manifest(Into) = Expected /\ Has("delete") =>
     Classified(Manifest(local), Manifest(node)) = {})'
<1>1. Types /\ Planned /\ Manifest(Into) = Expected /\ Has("delete") =>
        Classified(Manifest(local), Manifest(node)) = {}
  BY NothingToShow
<1> QED
  BY <1>1, PTL

\* The steps. A disturbance ends what is promised.
LEMMA Disturbed ==
  ASSUME Types, QuietInv, op'.began \subseteq op.began, edits' + faults' = edits + faults + 1
  PROVE  QuietInv'
<1>1. op.began \subseteq Nat /\ edits \in Nat /\ faults \in Nat
  BY SyncAssumption DEF Types, TypeOK, Ops
<1>2. \A n \in op'.began : n <= edits' + faults' /\ n # edits' + faults'
  BY <1>1 DEF QuietInv
<1> QED
  BY <1>2 DEF QuietInv, Undisturbed, QuietSyncMatches

\* A step that is no disturbance keeps the clock.
LEMMA Calm ==
  ASSUME QuietInv, UNCHANGED <<edits, faults>>, op'.began = op.began, Types', Undisturbed => Quiet'
  PROVE  QuietInv'
<1>1. Undisturbed' <=> Undisturbed
  BY DEF Undisturbed
<1>2. \A n \in op'.began : n <= edits' + faults'
  BY DEF QuietInv
<1>3. QuietSyncMatches'
  BY <1>1, NothingToShowNext DEF QuietSyncMatches, Quiet
<1> QED
  BY <1>1, <1>2, <1>3 DEF QuietInv

\* What the plan says does not change while it is carried out.
LEMMA SamePlan ==
  ASSUME op'.src = op.src, op'.dst = op.dst, op'.into = op.into, op'.opts = op.opts
  PROVE  /\ UNCHANGED <<Sends, Links, Deletes, Expected>>
         /\ Clash' <=> Clash
         /\ Has("pull")' <=> Has("pull")
         /\ \A fs, todo, del : Progress(fs, todo, del) => Progress(fs, todo, del)'
<1>1. UNCHANGED <<Sends, Links, Deletes, Expected>>
  BY DEF Sends, Links, Deletes, Expected, Has
<1>2. (Clash' <=> Clash) /\ (Has("pull")' <=> Has("pull"))
  BY DEF Clash, Has
<1> QED
  BY <1>1, <1>2 DEF Progress
LEMMA QuietInit == Init => QuietSync
<1> SUFFICES ASSUME Init PROVE QuietInv
  BY SafeInit DEF QuietSync
<1>1. op.began = {} /\ op.pc = "idle"
  BY DEF Init, Idle
<1> QED
  BY <1>1 DEF QuietInv, Undisturbed, QuietSyncMatches

LEMMA QuietBegin == ASSUME QuietSync, Types', NEW opts \in Options, Begin(opts) PROVE QuietInv'
<1>1. op' = [Idle EXCEPT !.pc = "asked", !.opts = opts, !.src = Manifest(local),
                         !.began = IF apply["late"] = NoRequest THEN {edits + faults} ELSE {}]
      /\ UNCHANGED <<local, apply, edits, faults>>
  BY DEF Begin, ghosts
<1>2. op'.pc = "asked" /\ op'.src = Manifest(local)
      /\ op'.began = IF apply["late"] = NoRequest THEN {edits + faults} ELSE {}
  BY <1>1 DEF Idle
<1>3. edits + faults <= edits + faults
  BY SyncAssumption DEF QuietSync, SafeInv, Types, TypeOK
<1>4. Undisturbed' => apply["late"] = NoRequest
  BY <1>2 DEF Undisturbed
<1> QED
  BY <1>1, <1>2, <1>3, <1>4 DEF QuietInv, Quiet, QuietSyncMatches

LEMMA QuietManifest == ASSUME QuietSync, Types', NodeManifest PROVE QuietInv'
<1>1. /\ op' = [op EXCEPT !.pc = "planned", !.seen = Own, !.into = Into,
                          !.src = IF Has("pull") THEN Manifest(node) ELSE op.src,
                          !.dst = IF Has("pull") THEN op.src ELSE Manifest(node)]
      /\ op.pc = "asked" /\ UNCHANGED <<local, node, apply, edits, faults>>
  BY DEF NodeManifest, ghosts
<1>2. /\ op'.pc = "planned" /\ op'.into = Into /\ op'.opts = op.opts /\ op'.began = op.began
      /\ op'.src = IF Has("pull") THEN Manifest(node) ELSE op.src
      /\ op'.dst = IF Has("pull") THEN op.src ELSE Manifest(node)
  BY <1>1 DEF QuietSync, SafeInv, Types, TypeOK, Ops
<1>3. Into' = Into /\ Source' = Source /\ WellFormed(Into)
  BY <1>1, <1>2 DEF Into, Source, Has, QuietSync, SafeInv, Types, TypeOK
<1>4. ASSUME Undisturbed PROVE Quiet'
  <2>1. apply["late"] = NoRequest /\ op.src = Manifest(local)
    BY <1>1, <1>4 DEF QuietSync, QuietInv, Quiet
  <2>2. op'.src = Manifest(Source) /\ op'.dst = Manifest(Into)
    BY <1>2, <2>1 DEF Source, Into
  <2>3. Planned'
    BY <1>2, <1>3, <2>2 DEF Planned
  <2> QED
    BY <1>1, <1>2, <1>3, <2>1, <2>3 DEF Quiet
<1> QED
  BY <1>1, <1>2, <1>4, Calm DEF QuietSync

LEMMA QuietGuard == ASSUME QuietSync, Types', Guard PROVE QuietInv'
<1>1. op.pc = "planned" /\ UNCHANGED <<local, node, cache, apply, edits, faults>> /\ op \in Ops
  BY DEF Guard, ghosts, QuietSync, SafeInv, Types, TypeOK
<1>2. /\ op'.pc \in {"refused", "stage", "send"} /\ op'.src = op.src /\ op'.dst = op.dst
      /\ op'.into = op.into /\ op'.opts = op.opts /\ op'.began = op.began
      /\ op'.pc = "send" => op'.todo = Sends
  BY <1>1 DEF Guard, Ops
<1>3. Sends' = Sends /\ (Planned => Planned') /\ Into' = Into
  BY <1>1, <1>2, SamePlan DEF Planned, Source, Into, Has
<1>4. ASSUME Undisturbed PROVE Quiet'
  <2>1. apply["late"] = NoRequest /\ Planned /\ Into = op.into
    BY <1>1, <1>4 DEF QuietSync, QuietInv, Quiet
  <2> QED
    BY <1>1, <1>2, <1>3, <2>1 DEF Quiet
<1> QED
  BY <1>1, <1>2, <1>4, Calm DEF QuietSync

LEMMA QuietSend == ASSUME QuietSync, Types', Send PROVE QuietInv'
<1>1. /\ op.pc = "send" /\ op.todo # {} /\ UNCHANGED <<local, node, apply, edits, faults>>
      /\ op \in Ops /\ TypeOK /\ op.todo \subseteq Sends /\ ~Has("pull")
  BY DEF Send, ghosts, QuietSync, SafeInv, Types, TypeOK, TodoOK, GuardInv
<1> DEFINE p == FirstOf(op.todo)
<1>2. p \in op.todo /\ p \in Paths /\ p \in Sends
  BY <1>1, FirstOfIn, ToDoFacts
<1>3. /\ op'.pc \in {"send", "failed"} /\ op'.src = op.src /\ op'.dst = op.dst
      /\ op'.into = op.into /\ op'.opts = op.opts /\ op'.began = op.began
  BY <1>1 DEF Send, Goto, Ops
<1>4. Sends' = Sends /\ (Planned => Planned') /\ Into' = Into
  BY <1>1, <1>3, SamePlan DEF Planned, Source, Into, Has
<1>5. ASSUME Undisturbed PROVE Quiet'
  <2>1. /\ apply["late"] = NoRequest /\ Planned /\ Into = op.into
        /\ \A q \in Sends \ op.todo : op.src[q].sha \in cache
    BY <1>1, <1>5 DEF QuietSync, QuietInv, Quiet
  <2>2. op.src[p].t = "file" /\ op.src[p] # Absent
    BY <1>1, <1>2, ToDoFacts DEF Absent
  <2>3. local[p] = op.src[p]
    BY <1>1, <1>2, <2>1, <2>2, ManifestFacts DEF Planned, Source, TypeOK
  <2>4. cache' = cache \cup {op.src[p].sha} /\ op' = [op EXCEPT !.todo = @ \ {p}]
    BY <2>3 DEF Send
  <2>5. op'.pc = "send" /\ op'.todo = op.todo \ {p}
    BY <1>1, <2>4 DEF Ops
  <2> QED
    BY <1>1, <1>3, <1>4, <2>1, <2>4, <2>5 DEF Quiet
<1> QED
  BY <1>1, <1>3, <1>5, Calm DEF QuietSync

LEMMA QuietStage == ASSUME QuietSync, Types', Stage PROVE QuietInv'
<1>1. /\ op.pc = "stage" /\ UNCHANGED <<local, node, apply, edits, faults>>
      /\ op \in Ops /\ Types /\ TypeOK /\ Has("pull")
      /\ op' = [op EXCEPT !.pc = "pull", !.todo = Sends \cup Links, !.del = Deletes]
  BY DEF Stage, ghosts, QuietSync, SafeInv, Types, TypeOK, GuardInv
<1>2. /\ op'.pc = "pull" /\ op'.src = op.src /\ op'.dst = op.dst
      /\ op'.into = op.into /\ op'.opts = op.opts /\ op'.began = op.began
      /\ op'.todo = Sends \cup Links /\ op'.del = Deletes
  BY <1>1 DEF Ops
<1>3. Sends' = Sends /\ (Planned => Planned')
  BY <1>1, <1>2, SamePlan DEF Planned, Source, Has
<1>4. ASSUME Undisturbed PROVE Quiet'
  <2>1. apply["late"] = NoRequest /\ Planned /\ Into = op.into /\ Into = local
    BY <1>1, <1>4 DEF QuietSync, QuietInv, Quiet, Into
  <2>2. Progress(local, Sends \cup Links, Deletes)
    BY <1>1, <2>1, ProgressStart
  <2>3. Progress(local, op.todo, op.del)'
    BY <1>1, <1>2, <2>2, SamePlan DEF Progress
  <2>4. ASSUME NEW p \in Sends PROVE op.src[p].sha \in cache'
    <3>1. p \in Paths /\ op.src[p].t = "file" /\ op.src[p] # Absent
      BY <1>1, <2>4, ToDoFacts DEF Absent
    <3>2. node[p] = op.src[p]
      BY <1>1, <2>1, <3>1, ManifestFacts DEF Planned, Source, TypeOK
    <3>3. Sha(node[p]) = op.src[p].sha
      BY <3>1, <3>2 DEF Sha
    <3> QED
      BY <2>4, <3>1, <3>3 DEF Stage
  <2>5. BlobsSent'
    BY <1>2, <1>3, <2>4 DEF BlobsSent
  <2> QED
    BY <1>1, <1>2, <1>3, <2>1, <2>3, <2>5 DEF Quiet
<1> QED
  BY <1>1, <1>2, <1>4, Calm DEF QuietSync
LEMMA QuietAsk == ASSUME QuietSync, Types', AskApply PROVE QuietInv'
<1>1. /\ op.pc = "send" /\ op.todo = {} /\ UNCHANGED <<local, node, cache, edits, faults>>
      /\ op \in Ops /\ Types /\ ~Has("pull") /\ apply \in [{"mine", "late"} -> Requests]
      /\ op' = [op EXCEPT !.pc = "applying"] /\ apply' = [apply EXCEPT !["mine"] = Request]
  BY DEF AskApply, Goto, ghosts, QuietSync, SafeInv, Types, TypeOK, GuardInv
<1>2. /\ op'.pc = "applying" /\ op'.src = op.src /\ op'.dst = op.dst
      /\ op'.into = op.into /\ op'.opts = op.opts /\ op'.began = op.began
  BY <1>1 DEF Ops
<1>3. apply'["mine"] = Request /\ apply'["late"] = apply["late"]
  BY <1>1
<1>4. /\ Request.st = "queued" /\ Request.src = op.src
      /\ Request.todo = Sends \cup Links /\ Request.del = Deletes
  BY DEF Request, NoRequest
<1>5. Sends' = Sends /\ (Planned => Planned')
  BY <1>1, <1>2, SamePlan DEF Planned, Source, Has
<1>6. ASSUME Undisturbed PROVE Quiet'
  <2>1. /\ apply["late"] = NoRequest /\ Planned /\ Into = op.into /\ Into = node
        /\ \A q \in Sends : op.src[q].sha \in cache
    BY <1>1, <1>6 DEF QuietSync, QuietInv, Quiet, Into
  <2>2. Progress(node, Sends \cup Links, Deletes)
    BY <1>1, <2>1, ProgressStart
  <2>3. Progress(node, Sends \cup Links, Deletes)'
    BY <1>1, <1>2, <2>2, SamePlan DEF Progress
  <2>4. Serves(apply["mine"])'
    BY <1>2, <1>3, <1>4, <1>5, <2>3, SamePlan DEF Serves
  <2>5. BlobsSent'
    BY <1>1, <1>2, <1>5, <2>1 DEF BlobsSent
  <2> QED
    BY <1>2, <1>3, <1>5, <2>1, <2>4, <2>5 DEF Quiet
<1> QED
  BY <1>1, <1>2, <1>6, Calm DEF QuietSync

LEMMA QuietPull == ASSUME QuietSync, Types', PullStep PROVE QuietInv'
<1>1. /\ op.pc = "pull" /\ UNCHANGED <<node, cache, apply, edits, faults>>
      /\ op \in Ops /\ Types /\ Has("pull") /\ local \in Trees /\ WellFormed(local)
      /\ op.todo \in SUBSET Paths /\ op.del \in SUBSET Paths /\ op.todo \cup op.del # {}
  BY DEF PullStep, ghosts, QuietSync, SafeInv, Types, TypeOK, GuardInv, Ops
<1>2. /\ op'.pc \in {"pull", "failed"} /\ op'.src = op.src /\ op'.dst = op.dst
      /\ op'.into = op.into /\ op'.opts = op.opts /\ op'.began = op.began
  BY <1>1 DEF PullStep, Goto, Ops
<1>3. Sends' = Sends /\ (Planned => Planned') /\ (Clash' <=> Clash) /\ (BlobsSent => BlobsSent')
  BY <1>1, <1>2, SamePlan DEF Planned, Source, Has, BlobsSent
<1>4. ASSUME Undisturbed PROVE Quiet'
  <2>1. apply["late"] = NoRequest /\ Planned /\ BlobsSent /\ Progress(local, op.todo, op.del)
    BY <1>1, <1>4 DEF QuietSync, QuietInv, Quiet
  <2>2. CASE Clash
    BY <1>1, <1>2, <1>3, <2>1, <2>2 DEF Quiet, Progress
  <2>3. ASSUME ~Clash, op.todo # {}
        PROVE  op'.pc = "pull" /\ Progress(local', op'.todo, op'.del)
    <3> DEFINE p == NextEntry(op.src, op.todo)
               e == op.src[p]
    <3>1. p \in op.todo
      BY <1>1, <2>3, NextEntryIn
    <3>2. CanPlace(local, p, e) /\ Progress(Place(local, p, e), op.todo \ {p}, op.del)
      BY <1>1, <2>1, <2>3, <3>1, ProgressPlace
    <3>3. p \in Sends \/ p \in Links
      BY <2>1, <2>3, <3>1 DEF Progress
    <3>4. Sha(e) \in cache \cup {None}
      BY <1>1, <2>1, <3>3, ToDoFacts DEF Sha, BlobsSent, Types
    <3>5. local' = Place(local, p, e) /\ op' = [op EXCEPT !.todo = @ \ {p}]
      BY <2>3, <3>2, <3>4 DEF PullStep
    <3>6. op'.pc = "pull" /\ op'.todo = op.todo \ {p} /\ op'.del = op.del
      BY <1>1, <3>5 DEF Ops
    <3> QED
      BY <3>2, <3>5, <3>6
  <2>4. ASSUME ~Clash, op.todo = {}
        PROVE  op'.pc = "pull" /\ Progress(local', op'.todo, op'.del)
    <3> DEFINE p == FirstOf(op.del)
    <3>1. p \in op.del
      BY <1>1, <2>4, FirstOfIn
    <3>2. Progress(Remove(local, p), op.todo, op.del \ {p})
      BY <1>1, <2>1, <2>4, <3>1, ProgressRemove
    <3>3. local' = Remove(local, p) /\ op' = [op EXCEPT !.del = @ \ {p}]
      BY <2>4 DEF PullStep
    <3>4. op'.pc = "pull" /\ op'.todo = op.todo /\ op'.del = op.del \ {p}
      BY <1>1, <3>3 DEF Ops
    <3> QED
      BY <3>2, <3>3, <3>4
  <2>5. ASSUME Progress(local', op'.todo, op'.del) PROVE Progress(local, op.todo, op.del)'
    BY <1>2, <2>5, SamePlan DEF Progress
  <2> QED
    BY <1>1, <1>2, <1>3, <2>1, <2>2, <2>3, <2>4, <2>5 DEF Quiet
<1> QED
  BY <1>1, <1>2, <1>4, Calm DEF QuietSync

LEMMA QuietPullDone == ASSUME QuietSync, Types', PullDone PROVE QuietInv'
<1>1. /\ op.pc = "pull" /\ UNCHANGED <<local, node, cache, apply, edits, faults>>
      /\ op \in Ops /\ Types /\ Has("pull") /\ op.todo \cup op.del = {}
      /\ op' = [op EXCEPT !.pc = Verdict(Manifest(local))]
  BY DEF PullDone, Goto, ghosts, QuietSync, SafeInv, Types, TypeOK, GuardInv
<1>2. /\ op'.pc = Verdict(Manifest(local)) /\ op'.src = op.src /\ op'.dst = op.dst
      /\ op'.into = op.into /\ op'.opts = op.opts /\ op'.began = op.began
  BY <1>1 DEF Ops
<1>3. (Planned => Planned') /\ (Clash' <=> Clash) /\ Expected' = Expected /\ Into' = local
  BY <1>1, <1>2, SamePlan DEF Planned, Source, Has, Into
<1>4. ASSUME Undisturbed PROVE Quiet'
  <2>1. apply["late"] = NoRequest /\ Planned /\ Progress(local, op.todo, op.del)
    BY <1>1, <1>4 DEF QuietSync, QuietInv, Quiet
  <2>2. ~Clash => Manifest(local) = Expected
    BY <1>1, <2>1, ProgressEnd
  <2> QED
    BY <1>1, <1>2, <1>3, <2>1, <2>2 DEF Quiet, Verdict
<1> QED
  BY <1>1, <1>2, <1>4, Calm DEF QuietSync
\* The node carries out the request, and nothing else moves.
LEMMA QuietServe ==
  ASSUME QuietSync, Types', NEW w \in {"mine", "late"}, Serve(w)
  PROVE  QuietInv'
<1>1. /\ Types /\ TypeOK /\ op \in Ops /\ node \in Trees /\ WellFormed(node)
      /\ apply \in [{"mine", "late"} -> Requests] /\ GuardInv
  BY DEF QuietSync, SafeInv, Types, TypeOK
<1>2. /\ apply[w].st \in {"queued", "running"} /\ apply' = [apply EXCEPT ![w] = apply'[w]]
      /\ UNCHANGED <<local, cache, op, edits, faults>>
  BY <1>1, ServeSteps
<1>3. ASSUME Undisturbed PROVE Quiet'
  <2>1. w = "mine" /\ op.pc = "applying"
    <3>1. apply["late"] = NoRequest
      BY <1>3 DEF QuietSync, QuietInv, Quiet
    <3>2. w = "mine"
      BY <1>2, <3>1 DEF NoRequest
    <3> QED
      BY <1>1, <1>2, <3>2 DEF TypeOK, NoRequest
  <2> DEFINE r == apply["mine"]
  <2>2. /\ apply["late"] = NoRequest /\ Planned /\ BlobsSent /\ ~Has("pull")
        /\ r.st \in {"queued", "running"} /\ r.src = op.src /\ Progress(node, r.todo, r.del)
    BY <1>1, <1>2, <1>3, <2>1 DEF QuietSync, QuietInv, Quiet, Serves, GuardInv
  <2>3. r \in Requests /\ r.todo \in SUBSET Paths /\ r.del \in SUBSET Paths
    BY <1>1 DEF Requests
  <2>4. apply'["late"] = NoRequest
    BY <1>1, <1>2, <2>1, <2>2
  <2>5. Planned' /\ BlobsSent' /\ (Clash' <=> Clash) /\ Expected' = Expected
    BY <1>2, <2>2, SamePlan DEF Planned, BlobsSent, Source, Has
  <2>6. CASE ApplyStart("mine")
    <3>1. /\ UNCHANGED node
          /\ apply' = [apply EXCEPT !["mine"].st =
               IF \A p \in r.todo : Sha(r.src[p]) \in cache \cup {None} THEN "running" ELSE "error"]
      BY <2>6 DEF ApplyStart
    <3>2. /\ apply'["mine"].src = r.src /\ apply'["mine"].todo = r.todo /\ apply'["mine"].del = r.del
          /\ apply'["mine"].st = IF \A p \in r.todo : Sha(r.src[p]) \in cache \cup {None}
                                  THEN "running" ELSE "error"
      BY <1>1, <2>3, <3>1 DEF Requests
    <3>3. ~Clash => \A p \in r.todo : Sha(r.src[p]) \in cache \cup {None}
      <4> SUFFICES ASSUME ~Clash, NEW p \in r.todo PROVE Sha(r.src[p]) \in cache \cup {None}
        OBVIOUS
      <4>1. p \in Sends \/ p \in Links
        BY <2>2 DEF Progress
      <4> QED
        BY <1>1, <2>2, <4>1, ToDoFacts DEF Sha, BlobsSent
    <3>4. Progress(node, r.todo, r.del)'
      BY <1>2, <2>2, <3>1, <3>2, SamePlan DEF Progress
    <3> QED
      BY <1>2, <2>1, <2>2, <2>4, <2>5, <3>2, <3>3, <3>4 DEF Quiet, Serves
  <2>7. CASE ApplyEntry("mine")
    <3> DEFINE p == NextEntry(r.src, r.todo)
               e == r.src[p]
    <3>1. p \in r.todo /\ r.st = "running"
      BY <2>3, <2>7, NextEntryIn DEF ApplyEntry
    <3>2. CASE ~Clash
      <4>1. CanPlace(node, p, e) /\ Progress(Place(node, p, e), r.todo \ {p}, r.del)
        BY <1>1, <2>2, <3>1, <3>2, ProgressPlace
      <4>2. node' = Place(node, p, e) /\ apply' = [apply EXCEPT !["mine"].todo = @ \ {p}]
        BY <2>7, <4>1 DEF ApplyEntry
      <4>3. /\ apply'["mine"].src = r.src /\ apply'["mine"].todo = r.todo \ {p}
            /\ apply'["mine"].del = r.del /\ apply'["mine"].st = "running"
        BY <1>1, <2>3, <3>1, <4>2 DEF Requests
      <4>4. Progress(node, apply["mine"].todo, apply["mine"].del)'
        <5>1. UNCHANGED <<op, Sends, Links, Deletes, Expected>> /\ (Clash' <=> Clash)
          BY <1>2, SamePlan
        <5>2. Progress(node', apply'["mine"].todo, apply'["mine"].del)
          BY <4>1, <4>2, <4>3
        <5> HIDE DEF p, e
        <5> QED
          BY <5>1, <5>2 DEF Progress
      <4> QED
        BY <1>2, <2>1, <2>2, <2>4, <2>5, <4>3, <4>4 DEF Quiet, Serves
    <3>3. CASE Clash
      <4>1. \/ apply' = [apply EXCEPT !["mine"].todo = @ \ {p}]
            \/ apply' = [apply EXCEPT !["mine"].st = "error"]
        BY <2>7 DEF ApplyEntry
      <4>2. apply'["mine"].src = r.src /\ apply'["mine"].st \in {"running", "error"}
        BY <1>1, <2>3, <3>1, <4>1 DEF Requests
      <4> QED
        BY <1>2, <2>1, <2>2, <2>4, <2>5, <3>3, <4>2 DEF Quiet, Serves, Progress
    <3> QED
      BY <3>2, <3>3
  <2>8. CASE ApplyDelete("mine")
    <3> DEFINE p == FirstOf(r.del)
    <3>1. p \in r.del /\ r.st = "running"
      BY <2>3, <2>8, FirstOfIn DEF ApplyDelete
    <3>2. node' = Remove(node, p) /\ apply' = [apply EXCEPT !["mine"].del = @ \ {p}]
      BY <2>8 DEF ApplyDelete
    <3>3. /\ apply'["mine"].src = r.src /\ apply'["mine"].todo = r.todo
          /\ apply'["mine"].del = r.del \ {p} /\ apply'["mine"].st = "running"
      BY <1>1, <2>3, <3>1, <3>2 DEF Requests
    <3>4. ~Clash => Progress(Remove(node, p), r.todo, r.del \ {p})
      BY <1>1, <2>2, <3>1, ProgressRemove
    <3>5. Progress(node, apply["mine"].todo, apply["mine"].del)'
      BY <1>2, <2>5, <3>2, <3>3, <3>4, SamePlan DEF Progress
    <3> QED
      BY <1>2, <2>1, <2>2, <2>4, <2>5, <3>3, <3>5 DEF Quiet, Serves
  <2>9. CASE ApplyEnd("mine")
    <3>1. UNCHANGED node /\ r.todo \cup r.del = {}
          /\ apply' = [apply EXCEPT !["mine"] = [NoRequest EXCEPT !.st = "applied", !.tree = Manifest(node)]]
      BY <2>9 DEF ApplyEnd
    <3>2. apply'["mine"].st = "applied" /\ apply'["mine"].tree = Manifest(node)
      BY <1>1, <3>1 DEF NoRequest
    <3>3. Clash \/ Manifest(node) = Expected
      BY <2>2, <3>1, ProgressEnd
    <3> QED
      BY <1>2, <2>1, <2>2, <2>4, <2>5, <3>1, <3>2, <3>3 DEF Quiet, Serves
  <2> QED
    BY <2>1, <2>6, <2>7, <2>8, <2>9 DEF Serve
<1> QED
  BY <1>2, <1>3, Calm DEF QuietSync

LEMMA QuietReply ==
  ASSUME QuietSync, Types', Applied \/ ApplyFailed \/ LateGone \/ Report
  PROVE  QuietInv'
<1>1. /\ Types /\ TypeOK /\ op \in Ops /\ apply \in [{"mine", "late"} -> Requests] /\ GuardInv
      /\ UNCHANGED <<local, node, cache, edits, faults>>
  BY DEF QuietSync, SafeInv, Types, TypeOK, Applied, ApplyFailed, LateGone, Report, ghosts
<1>2. CASE Report
  <2>1. op'.began = {} /\ op'.pc = "idle"
    BY <1>2 DEF Report, Idle
  <2> QED
    BY <2>1 DEF QuietInv, Undisturbed, QuietSyncMatches
<1>3. CASE LateGone
  <2>1. op' = op /\ apply["late"] # NoRequest
    BY <1>3 DEF LateGone, NoRequest
  <2>2. ~Undisturbed
    BY <2>1 DEF QuietSync, QuietInv, Quiet
  <2> QED
    BY <1>1, <2>1, <2>2, Calm DEF QuietSync
<1>4. CASE Applied \/ ApplyFailed
  <2>1. op.pc = "applying" /\ apply' = [apply EXCEPT !["mine"] = NoRequest]
    BY <1>4 DEF Applied, ApplyFailed
  <2>2. /\ op'.src = op.src /\ op'.dst = op.dst
        /\ op'.into = op.into /\ op'.opts = op.opts /\ op'.began = op.began
        /\ \/ op'.pc = Verdict(apply["mine"].tree) /\ apply["mine"].st = "applied"
           \/ op'.pc = "failed" /\ apply["mine"].st = "error"
    BY <1>1, <1>4 DEF Applied, ApplyFailed, Goto, Ops
  <2>3. ASSUME Undisturbed PROVE Quiet'
    <3>1. apply["late"] = NoRequest /\ Planned /\ Serves(apply["mine"]) /\ ~Has("pull")
      BY <1>1, <2>1, <2>3 DEF QuietSync, QuietInv, Quiet, GuardInv
    <3>2. apply'["late"] = NoRequest
      BY <1>1, <2>1, <3>1
    <3>3. Planned' /\ (Clash' <=> Clash) /\ Expected' = Expected /\ Into' = node
      BY <1>1, <2>2, <3>1, SamePlan DEF Planned, Source, Has, Into
    <3> QED
      BY <1>1, <2>2, <3>1, <3>2, <3>3 DEF Quiet, Serves, Verdict
  <2> QED
    BY <1>1, <2>2, <2>3, Calm DEF QuietSync
<1> QED
  BY <1>2, <1>3, <1>4

LEMMA QuietDisturbed ==
  ASSUME QuietSync,
         \/ \E p \in Tracked, c \in Foreign : EditNode(p, c)
         \/ \E fs \in LocalTrees : EditLocal(fs)
         \/ GiveUp \/ LogTorn \/ NodeDies
  PROVE  QuietInv'
<1>1. op \in Ops /\ edits \in Nat /\ faults \in Nat
  BY SyncAssumption DEF QuietSync, SafeInv, Types, TypeOK
<1>2. edits' + faults' = edits + faults + 1
  BY <1>1 DEF EditNode, EditLocal, Edit, GiveUp, LogTorn, NodeDies, Fault
<1>3. op'.began \subseteq op.began
  <2>1. op' = op \/ op' = Idle \/ op' = [op EXCEPT !.pc = "failed"]
    BY DEF EditNode, EditLocal, GiveUp, LogTorn, NodeDies
  <2> QED
    BY <1>1, <2>1 DEF Idle, Ops
<1> QED
  BY <1>2, <1>3, Disturbed DEF QuietSync, SafeInv

LEMMA QuietNext == ASSUME QuietSync, [Next]_vars PROVE QuietSync'
<1>1. SafeInv' /\ Types'
  BY SafeNext DEF QuietSync, SafeInv
<1>2. CASE UNCHANGED vars
  <2>1. Undisturbed => Quiet'
    BY <1>2 DEF vars, treeVars, ghosts, QuietSync, QuietInv, Quiet, Planned, Source, Into, Has,
                BlobsSent, Serves, Progress, Clash, Expected, Sends, Links, Deletes
  <2> QED
    BY <1>1, <1>2, <2>1, Calm DEF vars, treeVars, ghosts, QuietSync
<1>3. CASE Client
  BY <1>1, <1>3, QuietManifest, QuietGuard, QuietSend, QuietStage, QuietAsk, QuietPull,
     QuietPullDone, QuietReply DEF Client, QuietSync
<1>4. CASE Fetch
  BY <1>1, <1>4, QuietServe, QuietReply DEF Fetch, QuietSync, SafeInv, Types, TypeOK
<1>5. ASSUME NEW opts \in Options, Begin(opts) PROVE QuietSync'
  BY <1>1, <1>5, QuietBegin DEF QuietSync
<1> QED
  BY <1>1, <1>2, <1>3, <1>4, <1>5, QuietDisturbed DEF Next, QuietSync

\* A sync that nobody disturbs does what it says, for any two trees, with links
\* and empty directories, pushed or pulled: it fails or reports a mismatch only
\* if the trees are in each other's way, and after a match with --delete diff
\* has nothing to show.
THEOREM QuietSyncDelivers == Spec => []QuietSyncMatches
<1>1. QuietSync => QuietSyncMatches
  BY DEF QuietSync, QuietInv
<1> QED
  BY <1>1, QuietInit, QuietNext, PTL DEF Spec
=============================================================================
