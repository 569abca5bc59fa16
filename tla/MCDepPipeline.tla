--------------------------- MODULE MCDepPipeline ---------------------------
(***************************************************************************)
(* Instances of DepPipeline and, for the order of its deps, of DepChain.   *)
(* The graph has a shared prerequisite (base), a diamond above it (lib,    *)
(* tool, app), a target outside the diamond (side), a prerequisite the     *)
(* host does not support (win), which the chain passes over, and a dep     *)
(* that is only prefetched (pre), with a prerequisite in the diamond.      *)
(***************************************************************************)
EXTENDS SerialPipeline, DepChain, TLC
LOCAL INSTANCE SequencesExt

CONSTANTS base, lib, tool, app, side, win, pre

MCDeps == {base, lib, tool, app, side, pre}
MCRequires ==
  base :> {} @@ side :> {} @@ tool :> {base} @@ lib :> {base} @@ pre :> {base}
    @@ app :> {lib, tool}
MCTopo == base :> 1 @@ side :> 2 @@ tool :> 3 @@ lib :> 4 @@ pre :> 5 @@ app :> 6

\* A priority that contradicts the list order: app is scanned before its prerequisites.
MCPriority == [d \in MCDeps |-> IF d = app THEN 100 ELSE 0]

\* With and without a rebuild of the primary dep, to the end or only fetching.
MCCommandLines == {{}, {"force"}, {"incremental"}, {"fetch-only"}, {"fetch-only", "wipe"}}

-----------------------------------------------------------------------------
(* The instance is what the chain makes of these declarations.             *)

Declared ==
  base :> <<>> @@ lib :> <<base>> @@ tool :> <<base, win>> @@ app :> <<tool, lib>>
    @@ side :> <<>> @@ win :> <<base>> @@ pre :> <<base>>
Graph == [declared |-> Declared, hosts |-> DOMAIN Declared \ {win}]
Targets == <<app, side>>
Prefetch == <<pre>>

ASSUME ChainAssumption ==
  LET list == DepsFirst(Graph, Targets \o Prefetch)
  IN  /\ ~Refused(Graph, Targets \o Prefetch)
      /\ ToSet(list) = Deps /\ ToSet(Targets) = BuildTargets
      /\ \A i \in DOMAIN list :
           Topo[list[i]] = i /\ Requires[list[i]] = ToSet(Instances(Graph, list[i]))
      /\ ToSet(Visited(Graph, Targets)) = BuildReachable

-----------------------------------------------------------------------------
(* The chain against its reference definition, for every graph of up to    *)
(* four deps, whatever the order of the declarations, whichever of the     *)
(* deps the host supports, and for one or two targets.                     *)

Lists(S) == UNION {{s \in [1 .. n -> S] : IsInjective(s)} : n \in 0 .. Cardinality(S)}

SmallGraphs ==
  {[declared |-> <<p, q, r, s>>, hosts |-> h] :
     p \in Lists({}), q \in Lists({1}), r \in Lists({1, 2}), s \in Lists({1, 2, 3}),
     h \in SUBSET (1 .. 4)}

ASSUME ChainOrdersDeps ==
  \A g \in SmallGraphs : \A targets \in {t \in Lists(g.hosts) : Len(t) \in 1 .. 2} :
    ListsClosure(g, targets) /\ PrerequisitesFirst(g, targets)
=============================================================================
