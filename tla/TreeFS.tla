------------------------------- MODULE TreeFS -------------------------------
(***************************************************************************)
(* Directory trees and what scripts/obt/net/tree_sync.py does to them. A   *)
(* tree gives every path an entry; a path is a sequence of names. A        *)
(* manifest is a tree without its directories.                             *)
(***************************************************************************)
EXTENDS Naturals, Sequences

CONSTANTS
  Paths,     \* the paths of a tree, with their parents
  Contents,  \* what a regular file may hold; stands for its sha256
  Order      \* Order[p]: when a walk of the tree comes to p

(* Two levels are enough for a parent to be in the way of its child, and a *)
(* link may stand for a directory of the same tree, with whatever name     *)
(* below it.                                                               *)
ASSUME PathAssumption ==
  /\ \A p \in Paths : p = <<p[1]>> \/ p = <<p[1], p[2]>>
  /\ \A p, q \in Paths : Len(q) = 2 => {<<q[1]>>, <<p[1], q[2]>>} \subseteq Paths
  /\ Order \in [Paths -> Nat]
  /\ \A p, q \in Paths : Order[p] = Order[q] => p = q

Absent == [t |-> "none"]
Dir == [t |-> "dir"]
File(c) == [t |-> "file", sha |-> c]
Link(p) == [t |-> "link", to |-> p]

Parent(p) == <<p[1]>>
Children(d) == {p \in Paths : Len(p) = 2 /\ Parent(p) = d}
FirstOf(S) == CHOOSE p \in S : \A q \in S : Order[p] <= Order[q]

Entries == {Absent, Dir} \cup {File(c) : c \in Contents} \cup {Link(p) : p \in Paths}
Trees == [Paths -> Entries]

WellFormed(fs) ==
  \A p \in Paths : Len(p) = 2 => fs[p] # Dir /\ (fs[p] # Absent => fs[Parent(p)] = Dir)

(* build_manifest: files and links; directories are implicit.              *)
Manifest(fs) ==
  [p \in Paths |-> IF fs[p].t \in {"file", "link"} THEN fs[p] ELSE Absent]

(* diff_manifests: what to send, what to link, what only the destination   *)
(* has.                                                                    *)
\* Fault: only what is not there at all is sent.
ToSendNew(src, dst) == {p \in Paths : src[p].t = "file" /\ dst[p] = Absent}

ToSend(src, dst) == {p \in Paths : src[p].t = "file" /\ dst[p] # src[p]}
ToLink(src, dst) == {p \in Paths : src[p].t = "link" /\ dst[p] # src[p]}

DstOnly(src, dst) == {p \in Paths : dst[p] # Absent /\ src[p] = Absent}

(* classify_diff *)
Classified(a, b) ==
  {<<"+", p>> : p \in {q \in Paths : b[q] = Absent /\ a[q] # Absent}}
    \cup {<<"-", p>> : p \in {q \in Paths : a[q] = Absent /\ b[q] # Absent}}
    \cup {<<"L", p>> : p \in {q \in Paths : /\ Absent \notin {a[q], b[q]} /\ a[q] # b[q]
                                            /\ "link" \in {a[q].t, b[q].t}}}
    \cup {<<"M", p>> : p \in {q \in Paths : a[q].t = "file" /\ b[q].t = "file" /\ a[q] # b[q]}}

-----------------------------------------------------------------------------
(* materialize_tree works on paths, and a path goes through links.         *)

IsDir(fs, p) == fs[p].t = "dir" \/ (fs[p].t = "link" /\ fs[p].to \in Paths /\ fs[fs[p].to] = Dir)

Real(fs, p) ==
  IF Len(p) = 2 /\ fs[Parent(p)].t = "link" THEN <<fs[Parent(p)].to[1], p[2]>> ELSE p

(* mkdir(parents, exist_ok) of the parent fails on a file and on a link    *)
(* that leads nowhere.                                                     *)
ParentOk(fs, p) == Len(p) = 1 \/ fs[Parent(p)] = Absent \/ IsDir(fs, Parent(p))

(* A link takes the place of whatever is there, a directory with all it    *)
(* holds included; os.replace will not put a file over a directory.        *)
CanPlace(fs, p, e) ==
  /\ ParentOk(fs, p)
  /\ e.t = "file" => fs[Real(fs, p)] # Dir

Place(fs, p, e) ==
  LET r == Real(fs, p)
  IN  [q \in Paths |->
         IF q = r THEN e
         ELSE IF q \in Children(r) THEN Absent
         ELSE IF r \in Children(q) THEN Dir ELSE fs[q]]

(* Deletes and prunes the directory that becomes empty; a path under       *)
(* something that is no directory does not exist.                          *)
Remove(fs, p) ==
  IF ~ParentOk(fs, p) \/ fs[Real(fs, p)] = Absent THEN fs
  ELSE LET r == Real(fs, p)
           gone == [q \in Paths |-> IF q = r \/ q \in Children(r) THEN Absent ELSE fs[q]]
           bare == {q \in Paths : p \in Children(q) /\ r = p /\ \A c \in Children(q) : gone[c] = Absent}
       IN  [q \in Paths |-> IF q \in bare THEN Absent ELSE gone[q]]
=============================================================================
