------------------------------ MODULE DepChain ------------------------------
(***************************************************************************)
(* The chain of scripts/obt/_dep_x.py: which providers the targets of a    *)
(* run bring in, and the order in which phase1_plan lists them. A graph g  *)
(* has the deps that modules exist for (g.hosts: those of them the host    *)
(* supports) and g.declared[d], what the provider of d declares, in the    *)
(* order it declares it. The graph has no cycles: visit_provider would not *)
(* return.                                                                 *)
(***************************************************************************)
EXTENDS Naturals, Sequences
LOCAL INSTANCE SequencesExt
LOCAL INSTANCE FiniteSets

(* declareDep has no instance for a dep the host does not support, and the *)
(* chain passes it over.                                                   *)
Instances(g, d) == SelectSeq(g.declared[d], LAMBDA e : e \in g.hosts)

(* visit_provider: a provider takes the next index when it is met for the  *)
(* first time, before its prerequisites, and these are visited every time. *)
Visited(g, targets) ==
  LET visit[d \in g.hosts, seen \in Seq(g.hosts)] ==
        FoldLeft(LAMBDA order, e : visit[e, order],
                 IF Contains(seen, d) THEN seen ELSE Append(seen, d),
                 Instances(g, d))
  IN  FoldLeft(LAMBDA order, t : visit[t, order], <<>>, targets)

(* toposort_flatten: layer after layer what has no prerequisites left, and *)
(* within a layer by index. The chain turns the list round and the plan    *)
(* turns it back.                                                          *)
DepsFirst(g, targets) ==
  LET order == Visited(g, targets)
      index(d) == CHOOSE i \in DOMAIN order : order[i] = d
      layers[left \in SUBSET ToSet(order)] ==
        LET free == {d \in left : ToSet(Instances(g, d)) \cap left = {}}
        IN  IF left = {} THEN <<>>
            ELSE SetToSortSeq(free, LAMBDA a, b : index(a) < index(b)) \o layers[left \ free]
  IN  layers[ToSet(order)]

(* A target that is unknown or not for this host ends the program instead. *)
Refused(g, targets) == ~(ToSet(targets) \subseteq g.hosts)

-----------------------------------------------------------------------------
(* What the pipeline takes for granted of the list.                        *)

(* The least set with the targets that has the prerequisites of its own.   *)
Closure(g, targets) ==
  {d \in g.hosts : \A C \in SUBSET g.hosts :
      /\ ToSet(targets) \subseteq C
      /\ \A c \in C : ToSet(Instances(g, c)) \subseteq C
      => d \in C}

ListsClosure(g, targets) ==
  LET list == DepsFirst(g, targets)
  IN  /\ ToSet(list) = Closure(g, targets)
      /\ IsInjective(list)

PrerequisitesFirst(g, targets) ==
  LET list == DepsFirst(g, targets)
  IN  \A i, k \in DOMAIN list : Contains(Instances(g, list[i]), list[k]) => k < i
=============================================================================
