--------------------------- MODULE PipelineProofs ---------------------------
(***************************************************************************)
(* Proofs about the dependency pipeline, for every graph, pool size and    *)
(* flag setting: first facts about finite orders, then the pools and their *)
(* scheduler (DepPipeline), then the program that runs either the pools or *)
(* the serial loop (SerialPipeline), and that both implement DagBuild.     *)
(***************************************************************************)
EXTENDS SerialPipeline, FiniteSetTheorems, WellFoundedInduction, TLAPS

-----------------------------------------------------------------------------
(* Facts about a finite set A and a strict total order R on it (a set of   *)
(* pairs): it has a first and a last element, and choosing the members     *)
(* with fewer than n others before them chooses at most n, and at least    *)
(* one if there are any. The scans of the dispatch loop of                 *)
(* obt.dep.pipeline.py are such choices.                                   *)

StrictOrder(R, A) ==
  /\ \A a \in A : <<a, a>> \notin R
  /\ \A a, b, c \in A : <<a, b>> \in R /\ <<b, c>> \in R => <<a, c>> \in R

TotalOrder(R, A) ==
  /\ StrictOrder(R, A)
  /\ \A a, b \in A : a = b \/ <<a, b>> \in R \/ <<b, a>> \in R

Before(R, A, a) == {b \in A : <<b, a>> \in R}

(* A set without two different members.                                    *)
LEMMA AtMostOne ==
  ASSUME NEW F, \A a, b \in F : a = b
  PROVE  IsFiniteSet(F) /\ Cardinality(F) \in Nat /\ Cardinality(F) <= 1
<1>1. CASE F = {}
  BY <1>1, FS_EmptySet
<1>2. CASE F # {}
  <2>1. PICK a : F = {a}
    BY <1>2
  <2>2. IsFiniteSet({a}) /\ Cardinality({a}) = 1
    BY FS_Singleton, Zenon
  <2>3. IsFiniteSet(F) /\ Cardinality(F) = 1
    BY <2>1, <2>2, Zenon
  <2> QED BY <2>3
<1> QED BY <1>1, <1>2

(* A part of a union has no more members than both together.               *)
LEMMA UnionBound ==
  ASSUME NEW S, NEW T, IsFiniteSet(S), IsFiniteSet(T), NEW U \in SUBSET (S \cup T)
  PROVE  /\ Cardinality(S) \in Nat /\ Cardinality(T) \in Nat /\ Cardinality(U) \in Nat
         /\ Cardinality(U) <= Cardinality(S) + Cardinality(T)
<1>1. /\ IsFiniteSet(S \cup T)
      /\ Cardinality(S \cup T) = Cardinality(S) + Cardinality(T) - Cardinality(S \cap T)
  BY FS_Union
<1>2. IsFiniteSet(U) /\ Cardinality(U) <= Cardinality(S \cup T)
  BY <1>1, FS_Subset
<1>3. IsFiniteSet(S \cap T)
  BY FS_Intersection
<1>4. /\ Cardinality(S) \in Nat /\ Cardinality(T) \in Nat
      /\ Cardinality(U) \in Nat /\ Cardinality(S \cap T) \in Nat
  BY <1>2, <1>3, FS_CardinalityType
<1> QED BY <1>1, <1>2, <1>4

(* A nonempty family of subsets of a finite set has a minimal member.      *)
LEMMA MinimalSet ==
  ASSUME NEW S, IsFiniteSet(S), NEW F \in SUBSET SUBSET S, F # {}
  PROVE  \E m \in F : \A y \in F : y \subseteq m => y = m
<1>1. FiniteSubsetsOf(S) = SUBSET S
  BY FS_FiniteSubsetsOfFinite
<1>2. IsWellFoundedOn(StrictSubsetOrdering(S), SUBSET S)
  BY <1>1, FS_StrictSubsetOrderingWellFounded
<1>3. PICK m \in F : \A y \in F : ~ (<<y, m>> \in StrictSubsetOrdering(S))
  BY <1>2, WFMin
<1>4. ASSUME NEW y \in F, y \subseteq m PROVE y = m
  BY <1>3, <1>4 DEF StrictSubsetOrdering
<1> QED BY <1>4

(* A nonempty finite set has an element with none before it.               *)
LEMMA HasFirst ==
  ASSUME NEW A, IsFiniteSet(A), A # {}, NEW R, StrictOrder(R, A)
  PROVE  \E a \in A : Before(R, A, a) = {}
<1> DEFINE F == {Before(R, A, a) : a \in A}
<1>1. F \in SUBSET SUBSET A /\ F # {}
  BY DEF Before
<1>2. PICK m \in F : \A y \in F : y \subseteq m => y = m
  <2> HIDE DEF F
  <2> QED BY <1>1, MinimalSet
<1>3. PICK a \in A : m = Before(R, A, a)
  BY <1>2
<1>4. ASSUME NEW b \in Before(R, A, a) PROVE FALSE
  <2>1. b \in A /\ <<b, a>> \in R
    BY DEF Before
  <2>2. Before(R, A, b) \subseteq Before(R, A, a)
    BY <2>1 DEF Before, StrictOrder
  <2>3. b \in Before(R, A, b)
    BY <2>1, <2>2, <1>2, <1>3
  <2> QED BY <2>3, <2>1 DEF Before, StrictOrder
<1> QED BY <1>4

(* The members of A with fewer than n others before them.                  *)
Foremost(R, A, n) == {a \in A : Cardinality(Before(R, A, a)) < n}

LEMMA ForemostNonempty ==
  ASSUME NEW A, IsFiniteSet(A), A # {}, NEW R, StrictOrder(R, A), NEW n \in Int, n > 0
  PROVE  Foremost(R, A, n) # {}
<1>1. PICK a \in A : Before(R, A, a) = {}
  BY HasFirst
<1>2. Cardinality(Before(R, A, a)) = 0
  BY <1>1, FS_EmptySet
<1> QED BY <1>2 DEF Foremost

LEMMA ForemostBound ==
  ASSUME NEW A, IsFiniteSet(A), NEW R, TotalOrder(R, A), NEW n \in Int
  PROVE  LET T == Foremost(R, A, n)
         IN  IsFiniteSet(T) /\ (T # {} => Cardinality(T) <= n)
<1> DEFINE T == Foremost(R, A, n)
<1>1. T \in SUBSET A
  BY DEF Foremost
<1>2. IsFiniteSet(T)
  BY <1>1, FS_Subset
<1>3. ASSUME T # {} PROVE Cardinality(T) <= n
  <2> DEFINE Rev == {p \in A \X A : <<p[2], p[1]>> \in R}
  <2>1. StrictOrder(Rev, T)
    BY <1>1 DEF TotalOrder, StrictOrder
  <2>2. PICK z \in T : Before(Rev, T, z) = {}
    <3> HIDE DEF T, Rev
    <3> QED BY <1>2, <1>3, <2>1, HasFirst
  <2>3. T \ {z} \subseteq Before(R, A, z)
    <3> SUFFICES ASSUME NEW a \in T, a # z PROVE <<a, z>> \in R
      BY <1>1 DEF Before
    <3>1. <<a, z>> \notin Rev
      BY <2>2 DEF Before
    <3>2. <<z, a>> \notin R
      BY <3>1, <1>1
    <3> QED BY <3>2, <1>1 DEF TotalOrder
  <2>4. /\ IsFiniteSet(Before(R, A, z))
        /\ Cardinality(Before(R, A, z)) < n
        /\ Cardinality(Before(R, A, z)) \in Nat
    <3>1. Before(R, A, z) \in SUBSET A
      BY DEF Before
    <3>2. IsFiniteSet(Before(R, A, z))
      BY <3>1, FS_Subset
    <3> QED BY <3>2, FS_CardinalityType DEF Foremost
  <2>5. Cardinality(T \ {z}) <= Cardinality(Before(R, A, z))
    <3> HIDE DEF T
    <3> QED BY <2>3, <2>4, FS_Subset
  <2>6. Cardinality(T \ {z}) = Cardinality(T) - 1 /\ Cardinality(T) \in Nat
    <3> HIDE DEF T
    <3> QED BY <1>2, <2>2, FS_RemoveElement, FS_CardinalityType
  <2> HIDE DEF T
  <2> QED BY <2>4, <2>5, <2>6
<1> QED BY <1>2, <1>3

-----------------------------------------------------------------------------
(* The pools: what a kill between two builds can leave on disk, and what   *)
(* exit status 0 means.                                                    *)

(* What a dispatch step does to one dep, whichever of its branches is      *)
(* taken: a finished dep keeps its state, a dep enters BUILDING only from  *)
(* SOURCE_READY with every prerequisite DONE, and none becomes DONE.       *)
Moves(d) ==
  \/ st'[d] = st[d]
  \/ st[d] = "PENDING" /\ st'[d] = "FETCHING"
  \/ st[d] = "SOURCE_READY" /\ st'[d] = "BUILDING" /\ PrereqsDone(d)
  \/ st[d] \notin Final /\ st'[d] = "BUILD_FAILED"

(* DONE without a manifest is reserved to deps the host does not support.  *)
DoneInstalled ==
  \A d \in Deps \ Unsupported : st[d] = "DONE" => d \in manifest

(* In a run, a dep the host does not support is DONE from the plan on.     *)
UnsupportedDone ==
  phase = "running" => \A d \in Unsupported : st[d] = "DONE"

IInv ==
  /\ TypeOK
  /\ BuildAfterPrereqs
  /\ DoneInstalled
  /\ UnsupportedDone
  /\ ManifestClosed
  /\ SuccessIsInstalled

-----------------------------------------------------------------------------
(* The selection of a tick draws on the right states.                      *)
LEMMA ToFetchPending == ToFetch \subseteq In("PENDING")
  BY DEF ToFetch

(* Whatever is taken for building is a candidate with finished             *)
(* prerequisites.                                                          *)
LEMMA ToBuildReady == \A d \in ToBuild : d \in Candidates /\ PrereqsDone(d)
<1> DEFINE ready == {d \in Candidates : PrereqsDone(d)}
           first == {d \in ready : \A e \in ready \ {d} : BuildsBefore(d, e)}
           plain == ready \ SerialBuild
           some == {d \in plain :
                      Cardinality({e \in plain : BuildsBefore(e, d)}) < BuildSlots}
<1>1. ToBuild = {} \/ ToBuild = first \/ ToBuild = some
  BY DEF ToBuild
<1>2. first \subseteq ready /\ some \subseteq ready
  OBVIOUS
<1> QED BY <1>1, <1>2

(* One dispatch, without a return, moves each dep as Moves allows.         *)
LEMMA DispatchMoves ==
  ASSUME TypeOK, NEW C \in SUBSET In("SOURCE_READY"), NEW d \in Deps
  PROVE  LET s == Dispatched(C)[d]
         IN  \/ s = st[d]
             \/ st[d] = "PENDING" /\ s = "FETCHING"
             \/ st[d] = "SOURCE_READY" /\ s = "BUILDING" /\ PrereqsDone(d)
             \/ st[d] = "SOURCE_READY" /\ s = "BUILD_FAILED"
<1>1. CASE d \in ToFetch
  BY <1>1, ToFetchPending DEF Dispatched, In
<1>2. CASE d \notin ToFetch /\ d \in ToBuild
  BY <1>2, ToBuildReady DEF Dispatched, In, Candidates
<1>3. CASE d \notin ToFetch /\ d \notin ToBuild /\ d \in C
  BY <1>3 DEF Dispatched, In
<1>4. CASE d \notin ToFetch /\ d \notin ToBuild /\ d \notin C
  BY <1>4 DEF Dispatched
<1> QED BY <1>1, <1>2, <1>3, <1>4

(* A tick moves each dep as Moves allows, and if it returns success every  *)
(* dep a build target needs was DONE before it.                            *)
LEMMA TickMoves ==
  ASSUME TypeOK, Tick
  PROVE  /\ \A d \in Deps : Moves(d)
         /\ st' \in [Deps -> State]
         /\ phase' \in {"running", "ok", "failed"}
         /\ phase' = "ok" /\ ~FetchOnly =>
              \A d \in BuildReachable \ Unsupported : st[d] = "DONE"
<1>1. PICK C \in SUBSET In("SOURCE_READY") :
        LET s == Dispatched(C)
            open == {d \in Deps : ~IsTerminal(d, s[d])}
            busy == \E d \in Deps : s[d] \in {"FETCHING", "BUILDING"}
        IN  \/ open = {} /\ Return(s)
            \/ /\ open # {} /\ ~busy
               /\ Return([d \in Deps |-> IF d \in open THEN "BUILD_FAILED" ELSE s[d]])
            \/ open # {} /\ busy /\ st' = s /\ UNCHANGED phase
  BY DEF Tick
<1> DEFINE s == Dispatched(C)
           open == {d \in Deps : ~IsTerminal(d, s[d])}
           swept == [d \in Deps |-> IF d \in open THEN "BUILD_FAILED" ELSE s[d]]
<1>2. phase = "running"
  BY DEF Tick
<1>3. st' = s \/ st' = swept
  BY <1>1 DEF Return
<1>4. ASSUME NEW d \in Deps
      PROVE  Moves(d) /\ st'[d] \in State /\ (st'[d] = "DONE" => st[d] = "DONE")
  <2>1. \/ s[d] = st[d]
        \/ st[d] = "PENDING" /\ s[d] = "FETCHING"
        \/ st[d] = "SOURCE_READY" /\ s[d] = "BUILDING" /\ PrereqsDone(d)
        \/ st[d] = "SOURCE_READY" /\ s[d] = "BUILD_FAILED"
    BY DispatchMoves
  <2>2. st[d] \in State
    BY DEF TypeOK
  <2>3. CASE st'[d] = s[d]
    BY <2>1, <2>2, <2>3 DEF Moves, State, Final, Failures
  <2>4. CASE st'[d] = "BUILD_FAILED" /\ d \in open
    <3>1. s[d] \notin Final
      BY <2>4 DEF IsTerminal
    <3>2. st[d] \notin Final
      BY <3>1, <2>1 DEF Final, Failures
    <3> QED BY <2>4, <3>2 DEF Moves, State, Final, Failures
  <2>5. st'[d] = s[d] \/ (st'[d] = "BUILD_FAILED" /\ d \in open)
    BY <1>3
  <2> QED BY <2>3, <2>4, <2>5
<1>5. st' \in [Deps -> State]
  <2>1. st' = [d \in Deps |-> st'[d]]
    BY <1>3 DEF Dispatched
  <2> QED BY <2>1, <1>4
<1>6. phase' \in {"running", "ok", "failed"}
  BY <1>1, <1>2 DEF Return
<1>7. ASSUME phase' = "ok", ~FetchOnly, NEW d \in BuildReachable \ Unsupported
      PROVE  st[d] = "DONE"
  <2>1. d \in Deps \ Unsupported /\ d \notin FetchOnlySet
    BY DEF BuildReachable, FetchOnlySet
  <2>2. Return(st')
    BY <1>1, <1>2, <1>7 DEF Return
  <2>3. Complete(d, st'[d])
    BY <2>1, <2>2, <1>7 DEF Return
  <2>4. st'[d] = "DONE"
    BY <2>1, <2>3, <1>7 DEF Complete
  <2> QED BY <2>1, <2>4, <1>4
<1> QED BY <1>4, <1>5, <1>6, <1>7

-----------------------------------------------------------------------------
(* The invariant is inductive.                                             *)
LEMMA InitIInv == Init => IInv
  BY GraphAssumption
  DEF Init, IInv, TypeOK, BuildAfterPrereqs, DoneInstalled, ManifestClosed,
      UnsupportedDone, SuccessIsInstalled, State, Flags

LEMMA PlanIInv == ASSUME IInv, NEW args \in CommandLines, Plan(args) PROVE IInv'
<1> USE DEF IInv
<1>1. TypeOK'
  BY PlanAssumption DEF Plan, TypeOK, State, Final
<1>2. BuildAfterPrereqs'
  BY DEF Plan, BuildAfterPrereqs
<1>3. DoneInstalled'
  BY DEF Plan, DoneInstalled, Provisioned
<1>4. ManifestClosed'
  BY DEF Plan, ManifestClosed
<1>5. SuccessIsInstalled'
  BY DEF Plan, SuccessIsInstalled
<1>6. UnsupportedDone'
  BY PlanAssumption DEF Plan, UnsupportedDone
<1> QED BY <1>1, <1>2, <1>3, <1>4, <1>5, <1>6

LEMMA TickIInv == ASSUME IInv, Tick PROVE IInv'
<1> USE DEF IInv
<1>1. \A d \in Deps : Moves(d)
  BY TickMoves
<1>2. phase = "running" /\ manifest' = manifest /\ flags' = flags
  BY DEF Tick
<1>3. TypeOK'
  BY TickMoves, <1>2 DEF TypeOK
<1>4. BuildAfterPrereqs'
  <2> SUFFICES ASSUME NEW d \in Deps, st'[d] = "BUILDING", NEW p \in Requires[d]
               PROVE  st'[p] = "DONE"
    BY DEF BuildAfterPrereqs, PrereqsDone
  <2>1. p \in Deps
    BY GraphAssumption
  <2>2. PrereqsDone(d)
    BY <1>1 DEF Moves, BuildAfterPrereqs
  <2>3. st[p] = "DONE"
    BY <2>2 DEF PrereqsDone
  <2> QED BY <1>1, <2>1, <2>3 DEF Moves, Final
<1>5. DoneInstalled'
  BY <1>1, <1>2 DEF Moves, DoneInstalled
<1>6. ManifestClosed'
  BY <1>2 DEF ManifestClosed
<1>7. SuccessIsInstalled'
  <2>1. ASSUME phase' = "ok", ~FetchOnly, NEW d \in BuildReachable \ Unsupported
        PROVE  d \in manifest'
    <3>1. st[d] = "DONE" /\ d \in Deps \ Unsupported
      BY <2>1, TickMoves DEF BuildReachable
    <3> QED BY <3>1, <1>2 DEF DoneInstalled
  <2> QED BY <2>1, <1>2 DEF SuccessIsInstalled, BuildReachable, FetchOnly
<1>8. UnsupportedDone'
  BY <1>1, <1>2, PlanAssumption DEF Moves, UnsupportedDone, Final
<1> QED BY <1>3, <1>4, <1>5, <1>6, <1>7, <1>8

(* A worker that reports leaves every other dep alone.                     *)
LEMMA WorkerIInv ==
  ASSUME IInv, NEW d \in Deps, Fetching(d) \/ Building(d)
  PROVE  IInv'
<1> USE DEF IInv
<1>1. PICK from \in {"FETCHING", "BUILDING"}, to \in State \ {"BUILDING"} :
        /\ Settle(d, from, to)
        /\ \/ to # "DONE" /\ UNCHANGED manifest
           \/ from = "BUILDING" /\ to = "DONE" /\ manifest' = manifest \cup {d}
  BY DEF Fetching, Building, FetchDone, FetchFail, BuildDone, BuildFail,
         State, Final, Failures
<1>2. /\ phase = "running" /\ phase' = phase /\ flags' = flags
      /\ st[d] = from /\ st' = [st EXCEPT ![d] = to]
  BY <1>1 DEF Settle
<1>3. d \notin Unsupported
  BY <1>2 DEF UnsupportedDone
<1>4. manifest \subseteq manifest' /\ manifest' \subseteq manifest \cup {d}
  BY <1>1
<1>5. TypeOK'
  BY <1>2, <1>3, <1>4 DEF TypeOK
<1>6. BuildAfterPrereqs'
  <2> SUFFICES ASSUME NEW e \in Deps, st'[e] = "BUILDING", NEW p \in Requires[e]
               PROVE  st'[p] = "DONE"
    BY DEF BuildAfterPrereqs, PrereqsDone
  <2>1. p \in Deps
    BY GraphAssumption
  <2>2. st[e] = "BUILDING"
    BY <1>2 DEF TypeOK
  <2>3. st[p] = "DONE"
    BY <2>2 DEF BuildAfterPrereqs, PrereqsDone
  <2> QED BY <1>2, <2>1, <2>3 DEF TypeOK
<1>7. DoneInstalled'
  <2> SUFFICES ASSUME NEW e \in Deps \ Unsupported, st'[e] = "DONE"
               PROVE  e \in manifest'
    BY DEF DoneInstalled
  <2>1. CASE e = d
    BY <1>1, <1>2, <2>1 DEF TypeOK
  <2>2. CASE e # d
    BY <1>2, <1>4, <2>2 DEF TypeOK, DoneInstalled
  <2> QED BY <2>1, <2>2
<1>8. UnsupportedDone'
  BY <1>2, <1>3 DEF UnsupportedDone, TypeOK
<1>9. ManifestClosed'
  <2>1. CASE manifest' = manifest
    BY <2>1 DEF ManifestClosed
  <2>2. CASE from = "BUILDING" /\ manifest' = manifest \cup {d}
    <3>1. PrereqsDone(d)
      BY <1>2, <2>2 DEF BuildAfterPrereqs
    <3>2. Requires[d] \subseteq manifest
      BY <3>1, GraphAssumption DEF PrereqsDone, DoneInstalled
    <3> QED BY <2>2, <3>2 DEF ManifestClosed
  <2> QED BY <1>1, <2>1, <2>2
<1>10. SuccessIsInstalled'
  BY <1>2 DEF SuccessIsInstalled, FetchOnly
<1> QED BY <1>5, <1>6, <1>7, <1>8, <1>9, <1>10

LEMMA NextIInv == IInv /\ [Next]_vars => IInv'
<1> SUFFICES ASSUME IInv, [Next]_vars PROVE IInv'
  OBVIOUS
<1>1. ASSUME NEW args \in CommandLines, Plan(args) PROVE IInv'
  BY <1>1, PlanIInv
<1>2. CASE Tick
  BY <1>2, TickIInv
<1>3. ASSUME NEW d \in Deps, Fetching(d) \/ Building(d) PROVE IInv'
  BY <1>3, WorkerIInv
<1>4. CASE Crash
  BY <1>4 DEF Crash, IInv, TypeOK, BuildAfterPrereqs, PrereqsDone, DoneInstalled,
              UnsupportedDone, ManifestClosed, SuccessIsInstalled, FetchOnly
<1>5. CASE UNCHANGED vars
  BY <1>5 DEF vars, IInv, TypeOK, BuildAfterPrereqs, PrereqsDone, DoneInstalled,
              UnsupportedDone, ManifestClosed, SuccessIsInstalled, FetchOnly
<1> QED BY <1>1, <1>2, <1>3, <1>4, <1>5 DEF Next

LEMMA Invariance == Spec => []IInv
  BY InitIInv, NextIInv, PTL DEF Spec

-----------------------------------------------------------------------------
(* The state variables keep their types.                                   *)
THEOREM TypeCorrect == Spec => []TypeOK
<1>1. IInv => TypeOK
  BY DEF IInv
<1> QED BY <1>1, Invariance, PTL

(* No dep is ever building over an unfinished prerequisite, whatever the   *)
(* pool sizes, priorities, serial flags and failures.                      *)
THEOREM PrereqsFirst == Spec => []BuildAfterPrereqs
<1>1. IInv => BuildAfterPrereqs
  BY DEF IInv
<1> QED BY <1>1, Invariance, PTL

(* The manifests on disk are closed under prerequisites at every moment,   *)
(* hence also at every kill.                                               *)
THEOREM CrashSafe == Spec => []ManifestClosed
<1>1. IInv => ManifestClosed
  BY DEF IInv
<1> QED BY <1>1, Invariance, PTL

(* Exit status 0 means the targets and all they need are installed.        *)
THEOREM VerdictSound == Spec => []SuccessIsInstalled
<1>1. IInv => SuccessIsInstalled
  BY DEF IInv
<1> QED BY <1>1, Invariance, PTL

-----------------------------------------------------------------------------
(* The scheduler of the pools: its scans keep to the pools' sizes, it      *)
(* makes progress whenever it can, the sweep of stuck deps hits only deps  *)
(* under a failed prerequisite, and so it keeps the promise of DagBuild.   *)

(* The orders of the two scans.                                            *)
ListOrder == {p \in Deps \X Deps : Topo[p[1]] < Topo[p[2]]}
BuildOrder == {p \in Deps \X Deps : BuildsBefore(p[1], p[2])}

LEMMA ListOrderTotal == ASSUME NEW A \in SUBSET Deps PROVE TotalOrder(ListOrder, A)
<1>1. \A d \in Deps : Topo[d] \in Nat
  BY GraphAssumption
<1>2. \A d, e \in Deps : Topo[d] = Topo[e] => d = e
  BY GraphAssumption
<1>3. \A d, e \in Deps : <<d, e>> \in ListOrder <=> Topo[d] < Topo[e]
  BY DEF ListOrder
<1>4. StrictOrder(ListOrder, A)
  <2>1. \A a \in A : <<a, a>> \notin ListOrder
    BY <1>1, <1>3
  <2>2. \A a, b, c \in A : <<a, b>> \in ListOrder /\ <<b, c>> \in ListOrder
                             => <<a, c>> \in ListOrder
    BY <1>1, <1>3
  <2> QED BY <2>1, <2>2 DEF StrictOrder
<1>5. \A a, b \in A : a = b \/ <<a, b>> \in ListOrder \/ <<b, a>> \in ListOrder
  <2> TAKE a, b \in A
  <2>1. Topo[a] < Topo[b] \/ Topo[b] < Topo[a] \/ Topo[a] = Topo[b]
    BY <1>1
  <2> QED BY <2>1, <1>1, <1>2, <1>3
<1> QED BY <1>4, <1>5 DEF TotalOrder

LEMMA BuildOrderTotal == ASSUME NEW A \in SUBSET Deps PROVE TotalOrder(BuildOrder, A)
<1>1. \A d \in Deps : Topo[d] \in Nat /\ Priority[d] \in Int
  BY GraphAssumption, PlanAssumption
<1>2. \A d, e \in Deps : Topo[d] = Topo[e] => d = e
  BY GraphAssumption
<1>3. \A d, e \in Deps : <<d, e>> \in BuildOrder <=>
        Priority[d] > Priority[e] \/ (Priority[d] = Priority[e] /\ Topo[d] < Topo[e])
  BY DEF BuildOrder, BuildsBefore
<1>4. StrictOrder(BuildOrder, A)
  <2>1. \A a \in A : <<a, a>> \notin BuildOrder
    BY <1>1, <1>3
  <2>2. \A a, b, c \in A : <<a, b>> \in BuildOrder /\ <<b, c>> \in BuildOrder
                             => <<a, c>> \in BuildOrder
    BY <1>1, <1>3
  <2> QED BY <2>1, <2>2 DEF StrictOrder
<1>5. \A a, b \in A : a = b \/ <<a, b>> \in BuildOrder \/ <<b, a>> \in BuildOrder
  <2> TAKE a, b \in A
  <2>1. Topo[a] < Topo[b] \/ Topo[b] < Topo[a] \/ Topo[a] = Topo[b]
    BY <1>1
  <2> QED BY <2>1, <1>1, <1>2, <1>3
<1> QED BY <1>4, <1>5 DEF TotalOrder

(* The free slots are a number.                                            *)
LEMMA Slots ==
  /\ \A s \in State : IsFiniteSet(In(s)) /\ Cardinality(In(s)) \in Nat
  /\ BuildSlots = BuildJobs - Cardinality(In("BUILDING"))
  /\ FetchJobs \in Nat \ {0} /\ BuildJobs \in Nat \ {0}
<1>1. \A s \in State : In(s) \in SUBSET Deps
  BY DEF In
<1>2. \A s \in State : IsFiniteSet(In(s))
  BY <1>1, GraphAssumption, FS_Subset
<1>3. \A s \in State : Cardinality(In(s)) \in Nat
  BY <1>2, FS_CardinalityType
<1> QED BY <1>2, <1>3, PlanAssumption DEF BuildSlots

-----------------------------------------------------------------------------
(* The fetch scan as a choice of the foremost in list order.               *)
LEMMA ToFetchIs ==
  LET first == {d \in In("PENDING") : \A e \in In("PENDING") : Topo[d] <= Topo[e]}
      plain == In("PENDING") \ SerialFetch
      slots == FetchJobs - Cardinality(In("FETCHING"))
  IN  ToFetch = IF In("FETCHING") = {} /\ first \cap SerialFetch # {}
                  THEN first ELSE Foremost(ListOrder, plain, slots)
<1> DEFINE plain == In("PENDING") \ SerialFetch
           slots == FetchJobs - Cardinality(In("FETCHING"))
<1>1. plain \subseteq Deps
  BY DEF In
<1>2. \A d \in plain : Before(ListOrder, plain, d) = {e \in plain : Topo[e] < Topo[d]}
  BY <1>1 DEF Before, ListOrder
<1>3. Foremost(ListOrder, plain, slots)
        = {d \in plain : Cardinality({e \in plain : Topo[e] < Topo[d]}) < slots}
  BY <1>2 DEF Foremost
<1> QED BY <1>3 DEF ToFetch

(* An idle fetch pool and a pending dep: something is fetched.             *)
LEMMA FetchProgress ==
  ASSUME In("FETCHING") = {}, In("PENDING") # {}
  PROVE  ToFetch # {}
<1> DEFINE P == In("PENDING")
           first == {d \in P : \A e \in P : Topo[d] <= Topo[e]}
           plain == P \ SerialFetch
           slots == FetchJobs - Cardinality(In("FETCHING"))
<1>1. P \in SUBSET Deps /\ IsFiniteSet(P)
  BY Slots DEF In, State
<1>2. PICK m \in P : Before(ListOrder, P, m) = {}
  <2>1. StrictOrder(ListOrder, P)
    BY <1>1, ListOrderTotal DEF TotalOrder
  <2> QED BY <1>1, <2>1, HasFirst
<1>3. m \in first
  <2>1. \A e \in P : ~(Topo[e] < Topo[m])
    BY <1>1, <1>2 DEF Before, ListOrder
  <2>2. \A e \in P : Topo[e] \in Nat
    BY <1>1, GraphAssumption
  <2> QED BY <2>1, <2>2
<1>4. CASE first \cap SerialFetch # {}
  BY <1>4, ToFetchIs
<1>5. CASE first \cap SerialFetch = {}
  <2>1. m \in plain
    BY <1>3, <1>5
  <2>2. plain \in SUBSET Deps /\ IsFiniteSet(plain)
    BY <1>1, FS_Subset
  <2>3. StrictOrder(ListOrder, plain)
    BY <2>2, ListOrderTotal DEF TotalOrder
  <2>4. slots \in Int /\ slots > 0
    BY Slots, FS_EmptySet
  <2>5. Foremost(ListOrder, plain, slots) # {}
    <3> HIDE DEF plain, slots
    <3> QED BY <2>1, <2>2, <2>3, <2>4, ForemostNonempty
  <2> QED BY <2>5, <1>5, ToFetchIs
<1> QED BY <1>4, <1>5

(* The fetch scan never takes more than the free slots.                    *)
LEMMA FetchBound ==
  ASSUME Cardinality(In("FETCHING")) <= FetchJobs
  PROVE  IsFiniteSet(ToFetch) /\ Cardinality(ToFetch) <= FetchJobs - Cardinality(In("FETCHING"))
<1> DEFINE P == In("PENDING")
           first == {d \in P : \A e \in P : Topo[d] <= Topo[e]}
           plain == P \ SerialFetch
           slots == FetchJobs - Cardinality(In("FETCHING"))
<1>1. P \in SUBSET Deps /\ IsFiniteSet(P)
  BY Slots DEF In, State
<1>2. slots \in Int /\ slots >= 0 /\ FetchJobs \in Nat \ {0}
  BY Slots DEF State
<1>3. IsFiniteSet(ToFetch)
  BY <1>1, ToFetchPending, FS_Subset
<1>4. CASE In("FETCHING") = {} /\ ToFetch = first
  <2>1. slots >= 1
    BY <1>2, <1>4, FS_EmptySet
  <2>2. \A d, e \in first : d = e
    <3> TAKE d, e \in first
    <3>1. d \in Deps /\ e \in Deps /\ Topo[d] <= Topo[e] /\ Topo[e] <= Topo[d]
      BY <1>1
    <3>2. Topo[d] \in Nat /\ Topo[e] \in Nat
      BY <3>1, GraphAssumption
    <3> QED BY <3>1, <3>2, GraphAssumption
  <2>3. Cardinality(first) \in Nat /\ Cardinality(first) <= 1
    <3> HIDE DEF first
    <3> QED BY <2>2, AtMostOne
  <2> HIDE DEF first
  <2> QED BY <1>2, <1>3, <1>4, <2>1, <2>3
<1>5. CASE ToFetch = Foremost(ListOrder, plain, slots)
  <2>1. plain \in SUBSET Deps /\ IsFiniteSet(plain)
    BY <1>1, FS_Subset
  <2>2. TotalOrder(ListOrder, plain)
    BY <2>1, ListOrderTotal
  <2>3. ToFetch # {} => Cardinality(ToFetch) <= slots
    <3> HIDE DEF plain, slots
    <3> QED BY <1>2, <1>5, <2>1, <2>2, ForemostBound
  <2> QED BY <1>2, <1>3, <2>3, FS_EmptySet
<1>6. (In("FETCHING") = {} /\ ToFetch = first) \/ ToFetch = Foremost(ListOrder, plain, slots)
  BY ToFetchIs
<1> QED BY <1>4, <1>5, <1>6

-----------------------------------------------------------------------------
(* The build scan as a choice of the foremost in build order.              *)
Ready == {d \in Candidates : PrereqsDone(d)}

LEMMA ReadyDeps == Ready \in SUBSET Deps /\ IsFiniteSet(Ready) /\ Ready \subseteq In("SOURCE_READY")
<1>1. Ready \subseteq In("SOURCE_READY") /\ In("SOURCE_READY") \subseteq Deps
  BY DEF Ready, Candidates, In
<1> QED BY <1>1, Slots, FS_Subset DEF State

LEMMA ToBuildIs ==
  LET first == {d \in Ready : \A e \in Ready \ {d} : BuildsBefore(d, e)}
  IN  ToBuild = IF In("BUILDING") = {} /\ first \cap SerialBuild # {}
                  THEN first
                  ELSE Foremost(BuildOrder, Ready \ SerialBuild, BuildSlots)
<1> DEFINE plain == Ready \ SerialBuild
<1>1. plain \subseteq Deps
  BY ReadyDeps
<1>2. \A d \in plain : Before(BuildOrder, plain, d) = {e \in plain : BuildsBefore(e, d)}
  BY <1>1 DEF Before, BuildOrder
<1>3. Foremost(BuildOrder, plain, BuildSlots)
        = {d \in plain : Cardinality({e \in plain : BuildsBefore(e, d)}) < BuildSlots}
  BY <1>2 DEF Foremost
<1> QED BY <1>3 DEF ToBuild, Ready

(* An idle build pool and a dep that is ready: something is built.         *)
LEMMA BuildProgress ==
  ASSUME In("BUILDING") = {}, Ready # {}
  PROVE  ToBuild # {}
<1> DEFINE first == {d \in Ready : \A e \in Ready \ {d} : BuildsBefore(d, e)}
           plain == Ready \ SerialBuild
<1>1. PICK m \in Ready : Before(BuildOrder, Ready, m) = {}
  <2>1. StrictOrder(BuildOrder, Ready)
    BY ReadyDeps, BuildOrderTotal DEF TotalOrder
  <2> QED BY <2>1, ReadyDeps, HasFirst
<1>2. m \in first
  <2> SUFFICES ASSUME NEW e \in Ready \ {m} PROVE BuildsBefore(m, e)
    OBVIOUS
  <2>1. <<e, m>> \notin BuildOrder
    BY <1>1 DEF Before
  <2>2. <<m, e>> \in BuildOrder
    BY <2>1, ReadyDeps, BuildOrderTotal DEF TotalOrder
  <2> QED BY <2>2 DEF BuildOrder
<1>3. CASE first \cap SerialBuild # {}
  BY <1>3, ToBuildIs
<1>4. CASE first \cap SerialBuild = {}
  <2>1. m \in plain
    BY <1>2, <1>4
  <2>2. plain \in SUBSET Deps /\ IsFiniteSet(plain)
    BY ReadyDeps, FS_Subset
  <2>3. StrictOrder(BuildOrder, plain)
    BY <2>2, BuildOrderTotal DEF TotalOrder
  <2>4. BuildSlots \in Int /\ BuildSlots > 0
    <3>1. Cardinality(In("BUILDING")) = 0
      BY FS_EmptySet
    <3> QED BY <3>1, Slots
  <2>5. Foremost(BuildOrder, plain, BuildSlots) # {}
    <3> HIDE DEF plain
    <3> QED BY <2>1, <2>2, <2>3, <2>4, ForemostNonempty
  <2> QED BY <2>5, <1>4, ToBuildIs
<1> QED BY <1>3, <1>4

(* The build scan never takes more than the free slots.                    *)
LEMMA BuildBound ==
  ASSUME Cardinality(In("BUILDING")) <= BuildJobs
  PROVE  IsFiniteSet(ToBuild) /\ Cardinality(ToBuild) <= BuildJobs - Cardinality(In("BUILDING"))
<1> DEFINE first == {d \in Ready : \A e \in Ready \ {d} : BuildsBefore(d, e)}
           plain == Ready \ SerialBuild
<1>1. BuildSlots \in Int /\ BuildSlots >= 0 /\ BuildJobs \in Nat \ {0}
  BY Slots DEF State
<1>2. ToBuild \subseteq Ready /\ IsFiniteSet(ToBuild)
  <2>1. ToBuild \subseteq Ready
    BY ToBuildReady DEF Ready
  <2> QED BY <2>1, ReadyDeps, FS_Subset
<1>3. CASE In("BUILDING") = {} /\ ToBuild = first
  <2>1. BuildSlots >= 1
    BY <1>1, <1>3, Slots, FS_EmptySet
  <2>2. \A d, e \in first : d = e
    <3> SUFFICES ASSUME NEW d \in first, NEW e \in first, d # e PROVE FALSE
      OBVIOUS
    <3>1. <<d, e>> \in BuildOrder /\ <<e, d>> \in BuildOrder
      BY ReadyDeps DEF BuildOrder
    <3> QED BY <3>1, ReadyDeps, BuildOrderTotal DEF TotalOrder, StrictOrder
  <2>3. Cardinality(first) \in Nat /\ Cardinality(first) <= 1
    <3> HIDE DEF first
    <3> QED BY <2>2, AtMostOne
  <2> HIDE DEF first
  <2> QED BY <1>1, <1>2, <1>3, <2>1, <2>3, Slots
<1>4. CASE ToBuild = Foremost(BuildOrder, plain, BuildSlots)
  <2>1. plain \in SUBSET Deps /\ IsFiniteSet(plain)
    BY ReadyDeps, FS_Subset
  <2>2. TotalOrder(BuildOrder, plain)
    BY <2>1, BuildOrderTotal
  <2>3. ToBuild # {} => Cardinality(ToBuild) <= BuildSlots
    <3> HIDE DEF plain
    <3> QED BY <1>1, <1>4, <2>1, <2>2, ForemostBound
  <2> QED BY <1>1, <1>2, <2>3, FS_EmptySet, Slots
<1>5. (In("BUILDING") = {} /\ ToBuild = first) \/ ToBuild = Foremost(BuildOrder, plain, BuildSlots)
  BY ToBuildIs
<1> QED BY <1>3, <1>4, <1>5

-----------------------------------------------------------------------------
(* When a tick gives up, nothing is pending or ready: every dep that is    *)
(* still open waits at SOURCE_READY for a prerequisite that has failed or  *)
(* is open too.                                                            *)
LEMMA StuckIsDoomed ==
  ASSUME IInv, NEW C \in SUBSET In("SOURCE_READY"), IsCascade(C),
         \A d \in Deps : Dispatched(C)[d] \notin {"FETCHING", "BUILDING"},
         NEW d \in Deps, ~IsTerminal(d, Dispatched(C)[d])
  PROVE  /\ d \in Candidates
         /\ \E p \in Requires[d] : \/ Dispatched(C)[p] \in Failures
                                   \/ ~IsTerminal(p, Dispatched(C)[p])
<1> DEFINE s == Dispatched(C)
<1> USE DEF IInv
<1>1. ToFetch = {} /\ ToBuild = {} /\ In("FETCHING") = {} /\ In("BUILDING") = {}
  <2>1. ToFetch \subseteq Deps
    BY ToFetchPending DEF In
  <2>2. ToBuild \subseteq Deps
    BY ToBuildReady, ReadyDeps DEF Ready
  <2>3. \A e \in ToFetch : s[e] = "FETCHING"
    BY <2>1 DEF Dispatched
  <2>4. \A e \in ToBuild : s[e] \in {"FETCHING", "BUILDING"}
    BY <2>2 DEF Dispatched
  <2>5. \A e \in Deps : e \notin ToFetch /\ e \notin ToBuild
    BY <2>3, <2>4
  <2>6. \A e \in In("FETCHING") \cup In("BUILDING") : s[e] = st[e]
    BY <2>5 DEF Dispatched, In
  <2> QED BY <2>1, <2>2, <2>5, <2>6 DEF In
<1>2. In("PENDING") = {} /\ Ready = {}
  BY <1>1, FetchProgress, BuildProgress
<1>3. \A e \in Deps : s[e] = IF e \in C THEN "BUILD_FAILED" ELSE st[e]
  BY <1>1 DEF Dispatched
<1>4. \A e \in Deps : ~IsTerminal(e, s[e]) =>
        s[e] = "SOURCE_READY" /\ st[e] = "SOURCE_READY" /\ ~FetchOnly /\ e \notin FetchOnlySet
  <2> TAKE e \in Deps
  <2>1. HAVE ~IsTerminal(e, s[e])
  <2>2. s[e] \notin Final
    BY <2>1 DEF IsTerminal
  <2>3. st[e] = s[e]
    BY <1>3, <2>2 DEF Final, Failures
  <2>4. st[e] \in State \ {"PENDING", "FETCHING", "BUILDING"}
    BY <1>1, <1>2 DEF TypeOK, In
  <2>5. s[e] = "SOURCE_READY"
    BY <2>2, <2>3, <2>4 DEF State
  <2> QED BY <2>1, <2>3, <2>5 DEF IsTerminal
<1>5. d \in Candidates
  BY <1>4 DEF Candidates, In
<1>6. PICK p \in Requires[d] : st[p] # "DONE"
  BY <1>2, <1>5 DEF Ready, PrereqsDone
<1>7. p \in Deps /\ p \notin FetchOnlySet
  <2>1. Requires[d] \subseteq Deps /\ p \in Deps
    BY GraphAssumption
  <2>2. d \in BuildReachable
    BY <1>4 DEF FetchOnlySet
  <2>3. p \in BuildReachable
    BY <2>1, <2>2 DEF BuildReachable
  <2> QED BY <2>1, <2>3 DEF FetchOnlySet
<1>8. s[p] \in Failures \/ ~IsTerminal(p, s[p])
  <2>1. ~FetchOnly
    BY <1>4
  <2>2. s[p] # "DONE"
    BY <1>3, <1>6, <1>7
  <2> QED BY <1>7, <2>1, <2>2 DEF IsTerminal, Final
<1> QED BY <1>5, <1>8

(* What a tick does to one dep, told from the new states: whoever becomes  *)
(* BUILD_FAILED is a candidate with a prerequisite that has failed too.    *)
Blames(d) ==
  /\ st[d] = "SOURCE_READY"
  /\ st'[d] = "BUILD_FAILED"
  /\ d \in Candidates
  /\ \E p \in Requires[d] : st'[p] \in Failures

LEMMA TickBlames ==
  ASSUME IInv, Tick, NEW d \in Deps, st'[d] # st[d]
  PROVE  \/ st[d] = "PENDING" /\ st'[d] = "FETCHING"
         \/ st[d] = "SOURCE_READY" /\ st'[d] = "BUILDING" /\ PrereqsDone(d) /\ d \in Candidates
         \/ Blames(d)
<1> USE DEF IInv
<1>1. PICK C \in SUBSET In("SOURCE_READY") :
        /\ IsCascade(C)
        /\ LET s == Dispatched(C)
               open == {e \in Deps : ~IsTerminal(e, s[e])}
               busy == \E e \in Deps : s[e] \in {"FETCHING", "BUILDING"}
           IN  \/ open = {} /\ Return(s)
               \/ /\ open # {} /\ ~busy
                  /\ Return([e \in Deps |-> IF e \in open THEN "BUILD_FAILED" ELSE s[e]])
               \/ open # {} /\ busy /\ st' = s /\ UNCHANGED phase
  BY DEF Tick
<1> DEFINE s == Dispatched(C)
           open == {e \in Deps : ~IsTerminal(e, s[e])}
           busy == \E e \in Deps : s[e] \in {"FETCHING", "BUILDING"}
<1>2. \/ st' = s
      \/ ~busy /\ st' = [e \in Deps |-> IF e \in open THEN "BUILD_FAILED" ELSE s[e]]
  BY <1>1 DEF Return
<1>3. \A e \in Deps : s[e] \in Failures => st'[e] \in Failures
  BY <1>2 DEF Failures
<1>4. ASSUME d \in C
      PROVE  d \in Candidates /\ \E p \in Requires[d] : st'[p] \in Failures
  <2>1. d \in Scanned /\ ~PrereqsDone(d)
    BY <1>1, <1>4 DEF IsCascade
  <2>2. d \in Candidates
    BY <2>1 DEF Scanned
  <2>3. PICK p \in Requires[d] : st[p] \in Failures \/ p \in C
    BY <1>1, <1>4 DEF IsCascade, PrereqFailed
  <2>4. p \in Deps
    BY GraphAssumption
  <2>5. s[p] \in Failures
    <3>1. CASE st[p] \in Failures
      BY <3>1, <2>4, DispatchMoves DEF Failures
    <3>2. CASE p \in C
      <4>1. p \notin ToFetch
        BY <3>2, <2>4, ToFetchPending DEF In
      <4>2. p \notin ToBuild
        BY <3>2, <1>1, ToBuildReady DEF IsCascade
      <4> QED BY <3>2, <2>4, <4>1, <4>2 DEF Dispatched, Failures
    <3> QED BY <2>3, <3>1, <3>2
  <2> QED BY <1>3, <2>2, <2>4, <2>5
<1>5. CASE st'[d] = s[d]
  <2>1. CASE d \in ToFetch
    BY <1>5, <2>1, ToFetchPending DEF Dispatched, In
  <2>2. CASE d \notin ToFetch /\ d \in ToBuild
    BY <1>5, <2>2, ToBuildReady DEF Dispatched, In, Candidates
  <2>3. CASE d \notin ToFetch /\ d \notin ToBuild /\ d \in C
    <3>1. st[d] = "SOURCE_READY" /\ st'[d] = "BUILD_FAILED"
      BY <1>5, <2>3 DEF Dispatched, In
    <3> QED BY <3>1, <1>4, <2>3 DEF Blames
  <2>4. CASE d \notin ToFetch /\ d \notin ToBuild /\ d \notin C
    BY <1>5, <2>4 DEF Dispatched
  <2> QED BY <2>1, <2>2, <2>3, <2>4
<1>6. CASE st'[d] # s[d]
  <2>1. ~busy /\ d \in open /\ st'[d] = "BUILD_FAILED"
    BY <1>2, <1>6
  <2>2. d \in Candidates
    BY <1>1, <2>1, StuckIsDoomed
  <2>3. PICK p \in Requires[d] : s[p] \in Failures \/ ~IsTerminal(p, s[p])
    BY <1>1, <2>1, StuckIsDoomed
  <2>4. p \in Deps
    BY GraphAssumption
  <2>5. st' = [e \in Deps |-> IF e \in open THEN "BUILD_FAILED" ELSE s[e]]
    BY <1>2, <1>6
  <2>6. st'[p] \in Failures
    BY <2>3, <2>4, <2>5 DEF Failures
  <2>7. st[d] = "SOURCE_READY"
    BY <2>2 DEF Candidates, In
  <2> QED BY <2>1, <2>2, <2>6, <2>7 DEF Blames
<1> QED BY <1>5, <1>6

-----------------------------------------------------------------------------
(* What a worker's report does to the states.                              *)
LEMMA WorkerMoves ==
  ASSUME TypeOK, NEW d \in Deps, Fetching(d) \/ Building(d)
  PROVE  /\ st' = [st EXCEPT ![d] = st'[d]]
         /\ \/ st[d] = "FETCHING" /\ st'[d] \in {"SOURCE_READY", "FETCH_FAILED"}
            \/ st[d] = "BUILDING" /\ st'[d] \in {"DONE", "BUILD_FAILED"}
         /\ phase = "running" /\ phase' = phase /\ flags' = flags
  BY DEF TypeOK, Fetching, Building, FetchDone, FetchFail, BuildDone, BuildFail, Settle

(* The pools grow by what a tick takes and never by a report.              *)
LEMMA PoolBoundsStep ==
  ASSUME IInv, PoolBounds, [Next]_vars
  PROVE  PoolBounds'
<1> USE DEF IInv
<1>1. \A s \in State : IsFiniteSet(In(s)') /\ Cardinality(In(s)') \in Nat
  <2>1. \A s \in State : In(s)' \in SUBSET Deps
    BY DEF In
  <2> QED BY <2>1, GraphAssumption, FS_Subset, FS_CardinalityType
<1>2. SUFFICES /\ Cardinality(In("FETCHING")') <= FetchJobs
               /\ Cardinality(In("BUILDING")') <= BuildJobs
  BY DEF PoolBounds
<1>3. ASSUME In("FETCHING")' \subseteq In("FETCHING"), In("BUILDING")' \subseteq In("BUILDING")
      PROVE  /\ Cardinality(In("FETCHING")') <= FetchJobs
             /\ Cardinality(In("BUILDING")') <= BuildJobs
  <2>1. Cardinality(In("FETCHING")') <= Cardinality(In("FETCHING"))
    BY <1>3, Slots, FS_Subset DEF State
  <2>2. Cardinality(In("BUILDING")') <= Cardinality(In("BUILDING"))
    BY <1>3, Slots, FS_Subset DEF State
  <2> QED BY <1>1, <2>1, <2>2, Slots DEF PoolBounds, State
<1>4. ASSUME NEW args \in CommandLines, Plan(args)
      PROVE  In("FETCHING")' \subseteq In("FETCHING") /\ In("BUILDING")' \subseteq In("BUILDING")
  BY <1>4 DEF Plan, In
<1>5. ASSUME NEW d \in Deps, Fetching(d) \/ Building(d)
      PROVE  In("FETCHING")' \subseteq In("FETCHING") /\ In("BUILDING")' \subseteq In("BUILDING")
  BY <1>5, WorkerMoves DEF In, TypeOK
<1>6. ASSUME Crash \/ UNCHANGED vars
      PROVE  In("FETCHING")' \subseteq In("FETCHING") /\ In("BUILDING")' \subseteq In("BUILDING")
  BY <1>6 DEF Crash, vars, In
<1>7. CASE Tick
  <2>1. PICK C \in SUBSET In("SOURCE_READY") :
          LET s == Dispatched(C)
          IN  \A d \in Deps : st'[d] \in {s[d], "BUILD_FAILED"}
    BY <1>7 DEF Tick, Return
  <2>2. In("FETCHING")' \subseteq In("FETCHING") \cup ToFetch
    BY <2>1 DEF In, Dispatched
  <2>3. In("BUILDING")' \subseteq In("BUILDING") \cup ToBuild
    BY <2>1 DEF In, Dispatched
  <2>4. /\ IsFiniteSet(ToFetch)
        /\ Cardinality(ToFetch) <= FetchJobs - Cardinality(In("FETCHING"))
    BY FetchBound DEF PoolBounds
  <2>5. /\ IsFiniteSet(ToBuild)
        /\ Cardinality(ToBuild) <= BuildJobs - Cardinality(In("BUILDING"))
    BY BuildBound DEF PoolBounds
  <2>6. Cardinality(In("FETCHING")') <= FetchJobs
    <3>1. IsFiniteSet(In("FETCHING"))
      BY Slots DEF State
    <3>2. /\ Cardinality(In("FETCHING")) \in Nat /\ Cardinality(ToFetch) \in Nat
          /\ Cardinality(In("FETCHING")') <= Cardinality(In("FETCHING")) + Cardinality(ToFetch)
      BY <2>2, <2>4, <3>1, UnionBound
    <3> QED BY <1>1, <2>4, <3>2, Slots DEF State
  <2>7. Cardinality(In("BUILDING")') <= BuildJobs
    <3>1. IsFiniteSet(In("BUILDING"))
      BY Slots DEF State
    <3>2. /\ Cardinality(In("BUILDING")) \in Nat /\ Cardinality(ToBuild) \in Nat
          /\ Cardinality(In("BUILDING")') <= Cardinality(In("BUILDING")) + Cardinality(ToBuild)
      BY <2>3, <2>5, <3>1, UnionBound
    <3> QED BY <1>1, <2>5, <3>2, Slots DEF State
  <2> QED BY <2>6, <2>7
<1> QED BY <1>3, <1>4, <1>5, <1>6, <1>7 DEF Next

LEMMA PrefetchStep ==
  ASSUME IInv, PrefetchNotBuilt, [Next]_vars
  PROVE  PrefetchNotBuilt'
<1> USE DEF IInv
<1> SUFFICES ASSUME NEW d \in FetchOnlySet PROVE st'[d] \notin {"BUILDING", "BUILD_FAILED"}
  BY DEF PrefetchNotBuilt
<1>1. d \in Deps /\ st[d] \notin {"BUILDING", "BUILD_FAILED"} /\ d \notin Candidates
  BY DEF PrefetchNotBuilt, FetchOnlySet, Candidates
<1>2. ASSUME NEW args \in CommandLines, Plan(args)
      PROVE  st'[d] \notin {"BUILDING", "BUILD_FAILED"}
  BY <1>1, <1>2 DEF Plan
<1>3. CASE Tick
  BY <1>1, <1>3, TickBlames DEF Blames
<1>4. ASSUME NEW e \in Deps, Fetching(e) \/ Building(e)
      PROVE  st'[d] \notin {"BUILDING", "BUILD_FAILED"}
  BY <1>1, <1>4, WorkerMoves DEF TypeOK
<1>5. CASE Crash \/ UNCHANGED vars
  BY <1>1, <1>5 DEF Crash, vars
<1> QED BY <1>2, <1>3, <1>4, <1>5 DEF Next

LEMMA InitPools == Init => PoolBounds /\ PrefetchNotBuilt
<1> SUFFICES ASSUME Init PROVE PoolBounds /\ PrefetchNotBuilt
  OBVIOUS
<1>1. In("FETCHING") = {} /\ In("BUILDING") = {}
  BY DEF Init, In
<1>2. Cardinality({}) = 0
  BY FS_EmptySet
<1>3. PoolBounds
  <2>1. Cardinality(In("FETCHING")) = 0 /\ Cardinality(In("BUILDING")) = 0
    BY <1>1, <1>2
  <2> QED BY <2>1, Slots DEF PoolBounds
<1> QED BY <1>3 DEF Init, PrefetchNotBuilt, FetchOnlySet

-----------------------------------------------------------------------------
(* No pool is ever handed more jobs than it has threads, for every pool    *)
(* size, whatever is serial and whatever the priorities.                   *)
THEOREM PoolsBounded == Spec => []PoolBounds
<1>1. IInv /\ PoolBounds /\ [Next]_vars => PoolBounds'
  BY PoolBoundsStep
<1> QED BY <1>1, InitPools, Invariance, PTL DEF Spec

(* A dep that is only prefetched is never built and never charged with a   *)
(* build failure, whatever fails around it.                                *)
THEOREM PrefetchOnly == Spec => []PrefetchNotBuilt
<1>1. IInv /\ PrefetchNotBuilt /\ [Next]_vars => PrefetchNotBuilt'
  BY PrefetchStep
<1> QED BY <1>1, InitPools, Invariance, PTL DEF Spec

(* Failures spread only along Requires: neither the cascade nor the sweep  *)
(* for stuck deps marks a dep none of whose prerequisites has failed.      *)
THEOREM FailuresJustified == Spec => NoFalseFailure
<1>1. IInv /\ [Next]_vars =>
        [\A d \in Deps : st'[d] = "BUILD_FAILED" /\ st[d] # "BUILD_FAILED"
           => st[d] = "BUILDING" \/ PrereqFailed(d)']_vars
  <2> SUFFICES ASSUME IInv, [Next]_vars, NEW d \in Deps,
                      st'[d] = "BUILD_FAILED", st[d] # "BUILD_FAILED"
               PROVE  st[d] = "BUILDING" \/ PrereqFailed(d)'
    OBVIOUS
  <2> USE DEF IInv
  <2>1. ASSUME NEW args \in CommandLines, Plan(args) PROVE FALSE
    BY <2>1 DEF Plan
  <2>2. CASE Tick
    BY <2>2, TickBlames DEF Blames, PrereqFailed
  <2>3. ASSUME NEW e \in Deps, Fetching(e) \/ Building(e)
        PROVE  st[d] = "BUILDING"
    BY <2>3, WorkerMoves DEF TypeOK
  <2>4. CASE Crash \/ UNCHANGED vars
    BY <2>4 DEF Crash, vars
  <2> QED BY <2>1, <2>2, <2>3, <2>4 DEF Next
<1> QED BY <1>1, Invariance, PTL DEF Spec, NoFalseFailure

-----------------------------------------------------------------------------
(* The refinement, one lemma per kind of step. The abstract status of the  *)
(* states:                                                                 *)
LEMMA StatusValues ==
  ASSUME NEW s \in State
  PROVE  /\ StatusOf(s) \in Promise!Status
         /\ StatusOf(s) = "waiting" <=> s \in {"PENDING", "FETCHING"}
         /\ StatusOf(s) = "fetched" <=> s = "SOURCE_READY"
         /\ StatusOf(s) = "building" <=> s = "BUILDING"
         /\ StatusOf(s) = "done" <=> s = "DONE"
         /\ StatusOf(s) = "failed" <=> s \in Failures
<1>1. CASE s \in {"PENDING", "FETCHING"}
  BY <1>1 DEF StatusOf, Promise!Status, Failures
<1>2. CASE s = "SOURCE_READY"
  BY <1>2 DEF StatusOf, Promise!Status, Failures
<1>3. CASE s = "BUILDING"
  BY <1>3 DEF StatusOf, Promise!Status, Failures
<1>4. CASE s = "DONE"
  BY <1>4 DEF StatusOf, Promise!Status, Failures
<1>5. CASE s \in Failures
  BY <1>5 DEF StatusOf, Promise!Status, Failures
<1> QED BY <1>1, <1>2, <1>3, <1>4, <1>5 DEF State, Final

LEMMA InitRefines == Init => Promise!Init
<1> SUFFICES ASSUME Init PROVE Promise!Init
  OBVIOUS
<1>1. status = [d \in Deps |-> "waiting"]
  <2>1. StatusOf("PENDING") = "waiting"
    BY StatusValues DEF State
  <2> QED BY <2>1 DEF Init, status
<1>2. needed \subseteq Deps
  BY DEF needed, BuildReachable
<1> QED BY <1>1, <1>2 DEF Init, Promise!Init

LEMMA PlanRefines ==
  ASSUME IInv, NEW args \in CommandLines, Plan(args) PROVE Promise!Begin
<1> USE DEF IInv
<1>1. \A d \in Deps : status'[d] =
        IF d \in Unsupported \/ Provisioned(d, args) THEN "done" ELSE "waiting"
  BY StatusValues DEF Plan, status, State, Final
<1>2. status' = [d \in Deps |-> status'[d]]
  BY DEF status
<1>3. status' \in [Deps -> {"waiting", "done"}]
  BY <1>1, <1>2
<1>4. needed' \subseteq Deps \ Unsupported
  BY DEF needed, BuildReachable
<1>5. \A d \in needed' : status'[d] = "done" => d \in manifest
  BY <1>1, <1>4 DEF Provisioned
<1>6. \A d \in Deps : \A p \in Requires[d] : status'[p] = "done" => p \in manifest
  <2> TAKE d \in Deps
  <2> TAKE p \in Requires[d]
  <2>1. p \in Deps \ Unsupported
    BY GraphAssumption
  <2> QED BY <1>1, <2>1 DEF Provisioned
<1> QED BY <1>3, <1>4, <1>5, <1>6 DEF Plan, Promise!Begin

LEMMA WorkerRefines ==
  ASSUME IInv, NEW d \in Deps, Fetching(d) \/ Building(d)
  PROVE  \/ Promise!Fetched(d) \/ Promise!FetchFailed(d)
         \/ Promise!Built(d) \/ Promise!BuildFailed(d)
<1> USE DEF IInv
<1>1. /\ st' = [st EXCEPT ![d] = st'[d]] /\ phase = "running" /\ phase' = phase
      /\ flags' = flags
  BY WorkerMoves
<1>2. needed' = needed
  BY <1>1 DEF needed, FetchOnly
<1>3. st \in [Deps -> State] /\ st' \in [Deps -> State]
  BY WorkerMoves DEF TypeOK, State, Final, Failures
<1>4. status' = [status EXCEPT ![d] = StatusOf(st'[d])]
  BY <1>1, <1>3 DEF status
<1>5. status[d] = StatusOf(st[d])
  BY DEF status
<1>6. CASE FetchDone(d)
  <2>1. status[d] = "waiting" /\ StatusOf(st'[d]) = "fetched" /\ manifest' = manifest
    BY <1>3, <1>5, <1>6, StatusValues DEF FetchDone, Settle
  <2> QED BY <1>1, <1>2, <1>4, <2>1 DEF Promise!Fetched, Promise!Change
<1>7. CASE FetchFail(d)
  <2>1. status[d] = "waiting" /\ StatusOf(st'[d]) = "failed" /\ manifest' = manifest
    BY <1>3, <1>5, <1>7, StatusValues DEF FetchFail, Settle, Failures
  <2> QED BY <1>1, <1>2, <1>4, <2>1 DEF Promise!FetchFailed, Promise!Change
<1>8. CASE BuildDone(d)
  <2>1. /\ status[d] = "building" /\ StatusOf(st'[d]) = "done"
        /\ manifest' = manifest \cup {d}
    BY <1>3, <1>5, <1>8, StatusValues DEF BuildDone, Settle
  <2> QED BY <1>1, <1>2, <1>4, <2>1 DEF Promise!Built, Promise!Change
<1>9. CASE BuildFail(d)
  <2>1. status[d] = "building" /\ StatusOf(st'[d]) = "failed" /\ manifest' = manifest
    BY <1>3, <1>5, <1>9, StatusValues DEF BuildFail, Settle, Failures
  <2> QED BY <1>1, <1>2, <1>4, <2>1 DEF Promise!BuildFailed, Promise!Change
<1> QED BY <1>6, <1>7, <1>8, <1>9 DEF Fetching, Building

(* When a tick returns, no dep is building, and the verdict is justified.  *)
LEMMA ReturnJustified ==
  ASSUME IInv, Tick, phase' # "running"
  PROVE  /\ \A d \in Deps : st'[d] # "BUILDING"
         /\ phase' = "ok" => \A d \in Deps : Complete(d, st'[d]) \/ st'[d] = "DONE"
         /\ phase' = "failed" => \E d \in Deps : st'[d] \in Failures
<1> USE DEF IInv
<1>1. PICK C \in SUBSET In("SOURCE_READY") :
        LET s == Dispatched(C)
            open == {e \in Deps : ~IsTerminal(e, s[e])}
            busy == \E e \in Deps : s[e] \in {"FETCHING", "BUILDING"}
        IN  \/ open = {} /\ Return(s)
            \/ /\ open # {} /\ ~busy
               /\ Return([e \in Deps |-> IF e \in open THEN "BUILD_FAILED" ELSE s[e]])
            \/ open # {} /\ busy /\ st' = s /\ UNCHANGED phase
  BY DEF Tick
<1> DEFINE s == Dispatched(C)
           open == {e \in Deps : ~IsTerminal(e, s[e])}
           busy == \E e \in Deps : s[e] \in {"FETCHING", "BUILDING"}
<1>2. phase = "running"
  BY DEF Tick
<1>3. Return(st')
  BY <1>1, <1>2 DEF Return
<1>4. \/ open = {} /\ st' = s
      \/ open # {} /\ ~busy /\ st' = [e \in Deps |-> IF e \in open THEN "BUILD_FAILED" ELSE s[e]]
  BY <1>1, <1>2 DEF Return
<1>5. \A d \in Deps : st'[d] # "BUILDING"
  BY <1>4 DEF IsTerminal, Final, Failures
<1>6. ASSUME phase' = "ok", NEW d \in Deps
      PROVE  Complete(d, st'[d]) \/ st'[d] = "DONE"
  <2>1. CASE d \notin Unsupported
    BY <1>3, <1>6, <2>1 DEF Return
  <2>2. CASE d \in Unsupported
    <3>1. st[d] = "DONE"
      BY <1>2, <2>2 DEF UnsupportedDone
    <3> QED BY <3>1, TickBlames DEF Blames
  <2> QED BY <2>1, <2>2
<1>7. ASSUME phase' = "failed"
      PROVE  \E d \in Deps : st'[d] \in Failures
  <2>1. CASE open = {} /\ st' = s
    <3>1. PICK d \in Deps \ Unsupported : ~Complete(d, st'[d])
      BY <1>3, <1>7 DEF Return
    <3>2. IsTerminal(d, st'[d])
      BY <2>1, <3>1
    <3> QED BY <3>1, <3>2 DEF Complete, IsTerminal, Final
  <2>2. CASE open # {} /\ st' = [e \in Deps |-> IF e \in open THEN "BUILD_FAILED" ELSE s[e]]
    BY <2>2 DEF Failures
  <2> QED BY <1>4, <2>1, <2>2
<1> QED BY <1>5, <1>6, <1>7

LEMMA TickRefines == ASSUME IInv, Tick PROVE Promise!Schedule
<1> USE DEF IInv
<1>1. st \in [Deps -> State] /\ st' \in [Deps -> State]
  BY TickMoves DEF TypeOK
<1>2. \A d \in Deps : status[d] = StatusOf(st[d]) /\ status'[d] = StatusOf(st'[d])
  BY DEF status
<1>3. DOMAIN status' = Deps
  BY DEF status
<1>4. ASSUME NEW d \in Deps
      PROVE  status'[d] = status[d] \/ Promise!Starts(d) \/ Promise!Doomed(d)
  <2>1. Requires[d] \subseteq Deps
    BY GraphAssumption
  <2>2. CASE st'[d] = st[d] \/ (st[d] = "PENDING" /\ st'[d] = "FETCHING")
    BY <1>1, <1>2, <2>2, StatusValues
  <2>3. CASE st[d] = "SOURCE_READY" /\ st'[d] = "BUILDING" /\ PrereqsDone(d)
    <3>1. status[d] = "fetched" /\ status'[d] = "building"
      BY <1>1, <1>2, <2>3, StatusValues
    <3>2. \A p \in Requires[d] : status[p] = "done"
      BY <1>1, <1>2, <2>1, <2>3, StatusValues DEF PrereqsDone
    <3> QED BY <3>1, <3>2 DEF Promise!Starts
  <2>4. CASE Blames(d)
    <3>1. status[d] = "fetched" /\ status'[d] = "failed"
      BY <1>1, <1>2, <2>4, StatusValues DEF Blames, Failures
    <3>2. \E p \in Requires[d] : status'[p] = "failed"
      BY <1>1, <1>2, <2>1, <2>4, StatusValues DEF Blames
    <3> QED BY <3>1, <3>2 DEF Promise!Doomed
  <2> QED BY <2>2, <2>3, <2>4, TickBlames
<1>5. phase = "running" /\ phase' \in {"running", "ok", "failed"}
  BY TickMoves DEF Tick
<1>6. flags' = flags /\ manifest' = manifest
  BY DEF Tick
<1>7. needed' = needed
  BY <1>6 DEF needed, FetchOnly
<1>8. ASSUME phase' # "running"
      PROVE  \A d \in Deps : status'[d] # "building"
  BY <1>1, <1>2, <1>8, ReturnJustified, StatusValues
<1>9. ASSUME phase' = "ok", NEW d \in Deps
      PROVE  Promise!Complete(d)'
  <2>1. Complete(d, st'[d]) \/ st'[d] = "DONE"
    BY <1>9, ReturnJustified
  <2>2. st'[d] \in {"SOURCE_READY", "DONE"}
    BY <2>1 DEF Complete
  <2>3. d \in needed => st'[d] = "DONE"
    BY <2>1 DEF needed, Complete, FetchOnlySet
  <2> QED BY <1>1, <1>2, <1>7, <2>2, <2>3, StatusValues DEF Promise!Complete
<1>10. ASSUME phase' = "failed"
       PROVE  \E d \in Deps : status'[d] = "failed"
  BY <1>1, <1>2, <1>10, ReturnJustified, StatusValues
<1> QED BY <1>3, <1>4, <1>5, <1>6, <1>7, <1>8, <1>9, <1>10 DEF Promise!Schedule

LEMMA NextRefines == IInv /\ [Next]_vars => [Promise!Next]_(Promise!vars)
<1> SUFFICES ASSUME IInv, [Next]_vars PROVE [Promise!Next]_(Promise!vars)
  OBVIOUS
<1>1. ASSUME NEW args \in CommandLines, Plan(args) PROVE Promise!Next
  BY <1>1, PlanRefines DEF Promise!Next
<1>2. CASE Tick
  BY <1>2, TickRefines DEF Promise!Next
<1>3. ASSUME NEW d \in Deps, Fetching(d) \/ Building(d) PROVE Promise!Next
  BY <1>3, WorkerRefines DEF Promise!Next
<1>4. CASE Crash
  <2>1. Promise!Crash
    BY <1>4 DEF Crash, Promise!Crash, status, needed, FetchOnly
  <2> QED BY <2>1 DEF Promise!Next
<1>5. CASE UNCHANGED vars
  BY <1>5 DEF vars, Promise!vars, status, needed, FetchOnly
<1> QED BY <1>1, <1>2, <1>3, <1>4, <1>5 DEF Next

(* The pipeline keeps the promise of DagBuild, for every graph, pool size, *)
(* priority, serial flag and command line.                                 *)
THEOREM PipelineImplementsDagBuild == Spec => ImplementsDagBuild
BY InitRefines, NextRefines, Invariance, PTL DEF Spec, ImplementsDagBuild, Promise!Spec

-----------------------------------------------------------------------------
(* The whole program: runs with the pools and runs with --serial on the    *)
(* same manifests. The steps of the pools are those of DepPipeline, so the *)
(* lemmas above are used as they stand; what is new is why the list order  *)
(* alone is enough for the serial loop.                                    *)

(* The deps the loop has passed come before those it has not, and the      *)
(* latter are as the plan left them.                                       *)
LoopOrder ==
  /\ todo \subseteq Deps \ Unsupported
  /\ ~serial => todo = {}
  /\ serial /\ phase = "running" =>
       /\ \A d \in (Deps \ Unsupported) \ todo : \A e \in todo : Topo[d] < Topo[e]
       /\ \A d \in todo : st[d] \in {"PENDING", "DONE"}

(* What the loop has passed is built, being built or failed; if the run    *)
(* only fetches, fetched, being fetched or failed.                         *)
PassedStates ==
  IF FetchOnly THEN {"FETCHING", "SOURCE_READY", "FETCH_FAILED"}
               ELSE {"BUILDING", "DONE", "BUILD_FAILED"}

Passed ==
  serial /\ phase = "running" =>
    \A d \in (Deps \ Unsupported) \ todo : st[d] \in PassedStates

ProgramInv ==
  /\ IInv
  /\ serial \in BOOLEAN
  /\ LoopOrder
  /\ Passed

-----------------------------------------------------------------------------
(* While nothing has failed, every dep behind the loop is finished.        *)
LEMMA BehindTheLoop ==
  ASSUME ProgramInv, Idle, ~AnyFailure, ~FetchOnly,
         NEW d \in (Deps \ Unsupported) \ todo
  PROVE  st[d] = "DONE"
  BY DEF ProgramInv, Passed, PassedStates, Idle, AnyFailure, Failures

(* So the next dep of the list has all its prerequisites.                  *)
LEMMA NextIsReady ==
  ASSUME ProgramInv, NEW d \in Deps, IsNext(d), ~FetchOnly
  PROVE  PrereqsDone(d)
<1> SUFFICES ASSUME NEW p \in Requires[d] PROVE st[p] = "DONE"
  BY DEF PrereqsDone
<1>1. p \in Deps \ Unsupported /\ Topo[p] < Topo[d]
  BY GraphAssumption
<1>2. p \notin todo
  <2>1. Topo[p] \in Nat /\ Topo[d] \in Nat
    BY <1>1, GraphAssumption
  <2> QED BY <1>1, <2>1 DEF IsNext
<1> QED BY <1>1, <1>2, BehindTheLoop DEF IsNext

(* The next dep is behind all others of the list once it is taken.         *)
LEMMA TakingNext ==
  ASSUME LoopOrder, serial, phase = "running", NEW d \in Deps, IsNext(d)
  PROVE  \A a \in (Deps \ Unsupported) \ (todo \ {d}) : \A e \in todo \ {d} : Topo[a] < Topo[e]
<1> SUFFICES ASSUME NEW a \in (Deps \ Unsupported) \ (todo \ {d}), NEW e \in todo \ {d}
             PROVE  Topo[a] < Topo[e]
  OBVIOUS
<1>1. CASE a \notin todo
  BY <1>1 DEF LoopOrder
<1>2. CASE a \in todo
  <2>1. a = d /\ Topo[d] <= Topo[e] /\ d # e /\ e \in Deps
    BY <1>2 DEF IsNext, LoopOrder
  <2>2. Topo[d] # Topo[e] /\ Topo[d] \in Nat /\ Topo[e] \in Nat
    BY <2>1, GraphAssumption
  <2> QED BY <2>1, <2>2
<1> QED BY <1>1, <1>2

-----------------------------------------------------------------------------
(* The invariant is inductive.                                             *)
LEMMA ProgramInitInv == ProgramInit => ProgramInv
  BY InitIInv DEF ProgramInit, ProgramInv, LoopOrder, Passed, Init

LEMMA SerialPlanInv ==
  ASSUME ProgramInv, NEW args \in CommandLines, SerialPlan(args)
  PROVE  ProgramInv'
<1>1. IInv'
  BY PlanIInv DEF SerialPlan, ProgramInv
<1>2. LoopOrder'
  BY DEF SerialPlan, Plan, LoopOrder
<1>3. Passed'
  BY DEF SerialPlan, Passed
<1> QED BY <1>1, <1>2, <1>3 DEF ProgramInv, SerialPlan

LEMMA SkipInv ==
  ASSUME ProgramInv, NEW d \in Deps, Skip(d)
  PROVE  ProgramInv'
<1> USE DEF ProgramInv
<1>1. /\ serial /\ phase = "running" /\ d \in todo /\ ~FetchOnly /\ d \in manifest
      /\ st' = [st EXCEPT ![d] = "DONE"] /\ todo' = todo \ {d}
      /\ UNCHANGED <<phase, flags, manifest, serial>>
  BY DEF Skip, IsNext, Idle, ShouldBuild
<1>2. \A e \in Deps : st[e] \notin {"FETCHING", "BUILDING"}
  BY DEF Skip, IsNext, Idle
<1>3. IInv'
  <2> USE DEF IInv
  <2>1. TypeOK'
    BY <1>1 DEF TypeOK, State, Final
  <2>2. BuildAfterPrereqs'
    BY <1>1, <1>2 DEF BuildAfterPrereqs, TypeOK
  <2>3. DoneInstalled' /\ UnsupportedDone'
    BY <1>1 DEF DoneInstalled, UnsupportedDone, TypeOK
  <2>4. ManifestClosed' /\ SuccessIsInstalled'
    BY <1>1 DEF ManifestClosed, SuccessIsInstalled, FetchOnly
  <2> QED BY <2>1, <2>2, <2>3, <2>4
<1>4. LoopOrder'
  <2>1. \A a \in (Deps \ Unsupported) \ (todo \ {d}) : \A e \in todo \ {d} : Topo[a] < Topo[e]
    BY <1>1, TakingNext DEF Skip
  <2>2. \A e \in todo \ {d} : st'[e] = st[e]
    BY <1>1 DEF LoopOrder, IInv, TypeOK
  <2> QED BY <1>1, <2>1, <2>2 DEF LoopOrder
<1>5. Passed'
  BY <1>1 DEF Passed, PassedStates, FetchOnly, IInv, TypeOK
<1> QED BY <1>1, <1>3, <1>4, <1>5

LEMMA StartInv ==
  ASSUME ProgramInv, NEW d \in Deps, Start(d)
  PROVE  ProgramInv'
<1> USE DEF ProgramInv
<1> DEFINE s == IF FetchOnly THEN "FETCHING" ELSE "BUILDING"
<1>1. /\ serial /\ phase = "running" /\ d \in todo /\ IsNext(d)
      /\ st' = [st EXCEPT ![d] = s] /\ todo' = todo \ {d}
      /\ UNCHANGED <<phase, flags, manifest, serial>>
  BY DEF Start, IsNext, Idle
<1>2. \A e \in Deps : st[e] \notin {"FETCHING", "BUILDING"}
  BY <1>1 DEF IsNext, Idle
<1>3. s \in State /\ s # "DONE"
  BY DEF State
<1>4. IInv'
  <2> USE DEF IInv
  <2>1. TypeOK'
    BY <1>1, <1>3 DEF TypeOK
  <2>2. BuildAfterPrereqs'
    <3> SUFFICES ASSUME NEW e \in Deps, st'[e] = "BUILDING", NEW p \in Requires[e]
                 PROVE  st'[p] = "DONE"
      BY DEF BuildAfterPrereqs, PrereqsDone
    <3>1. e = d /\ ~FetchOnly
      BY <1>1, <1>2 DEF TypeOK
    <3>2. st[p] = "DONE"
      BY <1>1, <3>1, NextIsReady DEF PrereqsDone
    <3>3. p # d /\ p \in Deps
      BY <3>1, GraphAssumption
    <3> QED BY <1>1, <3>2, <3>3 DEF TypeOK
  <2>3. DoneInstalled' /\ UnsupportedDone'
    <3>1. d \notin Unsupported
      BY <1>1 DEF LoopOrder
    <3> QED BY <1>1, <1>3, <3>1 DEF DoneInstalled, UnsupportedDone, TypeOK
  <2>4. ManifestClosed' /\ SuccessIsInstalled'
    BY <1>1 DEF ManifestClosed, SuccessIsInstalled, FetchOnly
  <2> QED BY <2>1, <2>2, <2>3, <2>4
<1>5. LoopOrder'
  <2>1. \A a \in (Deps \ Unsupported) \ (todo \ {d}) : \A e \in todo \ {d} : Topo[a] < Topo[e]
    BY <1>1, TakingNext
  <2>2. \A e \in todo \ {d} : st'[e] = st[e]
    BY <1>1 DEF LoopOrder, IInv, TypeOK
  <2> QED BY <1>1, <2>1, <2>2 DEF LoopOrder
<1>6. Passed'
  <2> SUFFICES ASSUME NEW e \in (Deps \ Unsupported) \ (todo \ {d})
               PROVE  st'[e] \in PassedStates'
    BY <1>1 DEF Passed
  <2>1. PassedStates' = PassedStates
    BY <1>1 DEF PassedStates, FetchOnly
  <2>2. CASE e = d
    BY <1>1, <2>1, <2>2 DEF PassedStates, IInv, TypeOK
  <2>3. CASE e # d
    BY <1>1, <2>1, <2>3 DEF Passed, IInv, TypeOK
  <2> QED BY <2>2, <2>3
<1> QED BY <1>1, <1>4, <1>5, <1>6

LEMMA EndsInv ==
  ASSUME ProgramInv, NEW d \in Deps, Ends(d)
  PROVE  ProgramInv'
<1> USE DEF ProgramInv
<1>1. /\ Fetching(d) \/ Building(d)
      /\ UNCHANGED <<serial, todo>>
  BY DEF Ends
<1>2. /\ st' = [st EXCEPT ![d] = st'[d]]
      /\ \/ st[d] = "FETCHING" /\ st'[d] \in {"SOURCE_READY", "FETCH_FAILED"}
         \/ st[d] = "BUILDING" /\ st'[d] \in {"DONE", "BUILD_FAILED"}
      /\ phase = "running" /\ phase' = phase /\ flags' = flags
  BY <1>1, WorkerMoves DEF IInv
<1>3. IInv'
  BY <1>1, WorkerIInv
<1>4. \A e \in Deps : e # d => st'[e] = st[e]
  BY <1>2 DEF IInv, TypeOK
<1>5. serial => d \notin todo
  BY <1>2 DEF LoopOrder
<1>6. LoopOrder'
  BY <1>1, <1>2, <1>4, <1>5 DEF LoopOrder
<1>7. Passed'
  BY <1>1, <1>2, <1>4 DEF Passed, PassedStates, FetchOnly
<1> QED BY <1>1, <1>3, <1>6, <1>7

LEMMA SerialReturnInv == ASSUME ProgramInv, SerialReturn PROVE ProgramInv'
<1> USE DEF ProgramInv
<1>1. /\ Idle /\ phase' \in {"ok", "failed"}
      /\ phase' = "ok" => ~AnyFailure /\ todo = {}
      /\ UNCHANGED <<st, flags, manifest, serial, todo>>
  BY DEF SerialReturn
<1>2. SuccessIsInstalled'
  <2> SUFFICES ASSUME phase' = "ok", ~FetchOnly, NEW d \in BuildReachable \ Unsupported
               PROVE  d \in manifest
    BY <1>1 DEF SuccessIsInstalled, FetchOnly, BuildReachable
  <2>1. d \in Deps \ Unsupported
    BY DEF BuildReachable
  <2>2. st[d] = "DONE"
    BY <1>1, <2>1, BehindTheLoop
  <2> QED BY <2>1, <2>2 DEF IInv, DoneInstalled
<1>3. IInv'
  BY <1>1, <1>2 DEF IInv, TypeOK, BuildAfterPrereqs, PrereqsDone, DoneInstalled,
                    UnsupportedDone, ManifestClosed
<1> QED BY <1>1, <1>3 DEF LoopOrder, Passed

LEMMA ProgramNextInv == ProgramInv /\ [ProgramNext]_programVars => ProgramInv'
<1> SUFFICES ASSUME ProgramInv, [ProgramNext]_programVars PROVE ProgramInv'
  OBVIOUS
<1> USE DEF ProgramInv
<1>1. ASSUME NEW args \in CommandLines, PoolPlan(args) PROVE ProgramInv'
  BY <1>1, PlanIInv DEF PoolPlan, LoopOrder, Passed
<1>2. ASSUME NEW args \in CommandLines, SerialPlan(args) PROVE ProgramInv'
  BY <1>2, SerialPlanInv
<1>3. CASE PoolTick
  BY <1>3, TickIInv DEF PoolTick, LoopOrder, Passed
<1>4. ASSUME NEW d \in Deps, Skip(d) \/ Start(d) \/ Ends(d) PROVE ProgramInv'
  BY <1>4, SkipInv, StartInv, EndsInv
<1>5. CASE SerialReturn
  BY <1>5, SerialReturnInv
<1>6. ASSUME Crash \/ UNCHANGED vars, UNCHANGED <<serial, todo>> PROVE ProgramInv'
  <2>1. IInv'
    BY <1>6, NextIInv DEF Next
  <2> QED BY <1>6, <2>1 DEF Crash, vars, LoopOrder, Passed, PassedStates, FetchOnly
<1> QED BY <1>1, <1>2, <1>3, <1>4, <1>5, <1>6 DEF ProgramNext, programVars

LEMMA ProgramInvariance == ProgramSpec => []ProgramInv
  BY ProgramInitInv, ProgramNextInv, PTL DEF ProgramSpec

-----------------------------------------------------------------------------
(* The serial loop has only deps the host supports before it.              *)
THEOREM ProgramTypeCorrect == ProgramSpec => []ProgramTypeOK
<1>1. ProgramInv => ProgramTypeOK
  BY DEF ProgramInv, ProgramTypeOK, IInv, LoopOrder
<1> QED BY <1>1, ProgramInvariance, PTL

(* No dep is built over an unfinished prerequisite, in either mode: with   *)
(* --serial the list order is enough.                                      *)
THEOREM ProgramPrereqsFirst == ProgramSpec => []BuildAfterPrereqs
<1>1. ProgramInv => BuildAfterPrereqs
  BY DEF ProgramInv, IInv
<1> QED BY <1>1, ProgramInvariance, PTL

(* The manifests are closed under prerequisites at every moment, whichever *)
(* modes the earlier runs had and wherever they were killed.               *)
THEOREM ProgramCrashSafe == ProgramSpec => []ManifestClosed
<1>1. ProgramInv => ManifestClosed
  BY DEF ProgramInv, IInv
<1> QED BY <1>1, ProgramInvariance, PTL

(* Exit status 0 tells the truth in both modes.                            *)
THEOREM ProgramVerdictSound == ProgramSpec => []SuccessIsInstalled
<1>1. ProgramInv => SuccessIsInstalled
  BY DEF ProgramInv, IInv
<1> QED BY <1>1, ProgramInvariance, PTL

-----------------------------------------------------------------------------
(* The pools are never overfilled; the serial loop has one job at a time.  *)
LEMMA SingleJob ==
  ASSUME ProgramInv, NEW d \in Deps, Start(d)
  PROVE  PoolBounds'
<1>1. In("FETCHING")' \subseteq {d} /\ In("BUILDING")' \subseteq {d}
  BY DEF Start, IsNext, Idle, In, ProgramInv, IInv, TypeOK
<1>2. IsFiniteSet({d}) /\ Cardinality({d}) = 1
  BY FS_Singleton
<1>3. \A S \in SUBSET {d} : Cardinality(S) <= 1 /\ Cardinality(S) \in Nat
  BY <1>2, FS_Subset, FS_CardinalityType
<1> QED BY <1>1, <1>3, PlanAssumption DEF PoolBounds

LEMMA PoolBoundsKept ==
  ASSUME ProgramInv, PoolBounds, [ProgramNext]_programVars
  PROVE  PoolBounds'
<1> USE DEF ProgramInv
<1>1. ASSUME [Next]_vars PROVE PoolBounds'
  BY <1>1, PoolBoundsStep
<1>2. ASSUME NEW d \in Deps, Skip(d) PROVE PoolBounds'
  <2>1. In("FETCHING")' = {} /\ In("BUILDING")' = {}
    BY <1>2 DEF Skip, IsNext, Idle, In, IInv, TypeOK
  <2>2. Cardinality({}) = 0
    BY FS_EmptySet
  <2>3. Cardinality(In("FETCHING")') = 0 /\ Cardinality(In("BUILDING")') = 0
    BY <2>1, <2>2
  <2> QED BY <2>3, PlanAssumption DEF PoolBounds
<1>3. ASSUME SerialReturn PROVE PoolBounds'
  BY <1>3 DEF SerialReturn, PoolBounds, In
<1> QED BY <1>1, <1>2, <1>3, SingleJob
        DEF ProgramNext, programVars, PoolPlan, SerialPlan, PoolTick, Ends, Next

THEOREM ProgramPoolsBounded == ProgramSpec => []PoolBounds
<1>1. ProgramInit => PoolBounds
  BY InitPools DEF ProgramInit
<1>2. ProgramInv /\ PoolBounds /\ [ProgramNext]_programVars => PoolBounds'
  BY PoolBoundsKept
<1> QED BY <1>1, <1>2, ProgramInvariance, PTL DEF ProgramSpec

-----------------------------------------------------------------------------
(* The refinement. In a pool run the mapping is that of DepPipeline.       *)
Shown == [d \in Deps |-> IF d \in todo THEN "waiting" ELSE status[d]]
Needed == IF serial /\ ~FetchOnly THEN Deps \ Unsupported ELSE needed

LEMMA StatusDeps ==
  ASSUME TypeOK
  PROVE  /\ \A d \in Deps : status[d] = StatusOf(st[d]) /\ st[d] \in State
         /\ \A d \in Deps : status[d] \in Promise!Status
         /\ status = [d \in Deps |-> status[d]]
  BY StatusValues DEF status, TypeOK

LEMMA PoolView ==
  ASSUME ProgramInv, ~serial
  PROVE  Shown = status /\ Needed = needed
<1>1. todo = {}
  BY DEF ProgramInv, LoopOrder
<1> QED BY <1>1 DEF Shown, Needed, status

LEMMA NeededDeps == needed \subseteq Deps /\ Needed \subseteq Deps
  BY DEF needed, Needed, BuildReachable

(* A step that keeps the promise as the pools see it keeps it.             *)
LEMMA PoolStepRefines ==
  ASSUME ProgramInv, ProgramInv', ~serial, ~serial', [Next]_vars
  PROVE  [ProgramPromise!Next]_(ProgramPromise!vars)
<1>1. [Promise!Next]_(Promise!vars)
  BY NextRefines DEF ProgramInv
<1>2. Shown = status /\ Needed = needed
  BY PoolView
<1>3. Shown' = status' /\ Needed' = needed'
  <2>1. todo' = {}
    BY DEF ProgramInv, LoopOrder
  <2> QED BY <2>1 DEF Shown, Needed, status
<1>4. Promise!Begin => ProgramPromise!Begin
  BY <1>2, <1>3 DEF Shown, Needed, Promise!Begin, ProgramPromise!Begin
<1>5. Promise!Schedule => ProgramPromise!Schedule
  BY <1>2, <1>3 DEF Shown, Needed, Promise!Schedule, ProgramPromise!Schedule,
     Promise!Starts, ProgramPromise!Starts, Promise!Doomed, ProgramPromise!Doomed,
     Promise!Complete, ProgramPromise!Complete
<1>6. ASSUME NEW d \in Deps
      PROVE  /\ Promise!Fetched(d) => ProgramPromise!Fetched(d)
             /\ Promise!FetchFailed(d) => ProgramPromise!FetchFailed(d)
             /\ Promise!Skipped(d) => ProgramPromise!Skipped(d)
             /\ Promise!Built(d) => ProgramPromise!Built(d)
             /\ Promise!BuildFailed(d) => ProgramPromise!BuildFailed(d)
  BY <1>2, <1>3
     DEF Shown, Needed, Promise!Change, ProgramPromise!Change,
         Promise!Fetched, ProgramPromise!Fetched, Promise!FetchFailed, ProgramPromise!FetchFailed,
         Promise!Skipped, ProgramPromise!Skipped, Promise!Built, ProgramPromise!Built,
         Promise!BuildFailed, ProgramPromise!BuildFailed
<1>7. Promise!Crash => ProgramPromise!Crash
  BY <1>2, <1>3 DEF Shown, Needed, Promise!Crash, ProgramPromise!Crash
<1>8. UNCHANGED Promise!vars => UNCHANGED ProgramPromise!vars
  BY <1>2, <1>3 DEF Shown, Needed, Promise!vars, ProgramPromise!vars
<1> QED BY <1>1, <1>4, <1>5, <1>6, <1>7, <1>8 DEF Promise!Next, ProgramPromise!Next

(* A serial run begins with everything it may build still to do.           *)
LEMMA SerialPlanRefines ==
  ASSUME ProgramInv, NEW args \in CommandLines, SerialPlan(args)
  PROVE  ProgramPromise!Begin
<1>1. /\ phase # "running" /\ phase' = "running" /\ flags' = args /\ serial' = TRUE
      /\ todo' = Deps \ Unsupported /\ manifest' = manifest
      /\ \A d \in Unsupported : d \in Deps => st'[d] = "DONE"
  BY DEF SerialPlan, Plan
<1>2. TypeOK'
  BY PlanIInv DEF SerialPlan, ProgramInv, IInv
<1>3. \A d \in Deps : Shown'[d] = IF d \in Unsupported THEN "done" ELSE "waiting"
  <2>1. \A d \in Deps : status'[d] = StatusOf(st'[d])
    BY DEF status
  <2>2. StatusOf("DONE") = "done"
    BY StatusValues DEF State, Final
  <2> QED BY <1>1, <2>1, <2>2 DEF Shown
<1>4. Shown' \in [Deps -> {"waiting", "done"}]
  <2>1. Shown' = [d \in Deps |-> Shown'[d]]
    BY DEF Shown
  <2> QED BY <1>3, <2>1
<1>5. \A d \in Needed' : Shown'[d] # "done"
  BY <1>1, <1>3 DEF Needed, needed, FetchOnly
<1>6. \A d \in Deps : \A p \in Requires[d] : Shown'[p] # "done"
  BY <1>3, GraphAssumption
<1>7. Needed' \subseteq Deps
  BY <1>1 DEF Needed, needed, FetchOnly, BuildReachable
<1> QED BY <1>1, <1>4, <1>5, <1>6, <1>7 DEF ProgramPromise!Begin, Shown, Needed

LEMMA SkipRefines ==
  ASSUME ProgramInv, NEW d \in Deps, Skip(d)
  PROVE  ProgramPromise!Skipped(d)
<1>1. /\ phase = "running" /\ d \in todo /\ d \in manifest
      /\ st' = [st EXCEPT ![d] = "DONE"] /\ todo' = todo \ {d}
      /\ UNCHANGED <<phase, flags, manifest, serial>>
  BY DEF Skip, IsNext, Idle, ShouldBuild
<1>2. st \in [Deps -> State]
  BY DEF ProgramInv, IInv, TypeOK
<1>3. StatusOf("DONE") = "done"
  BY StatusValues DEF State, Final
<1>4. Shown' = [Shown EXCEPT ![d] = "done"] /\ Shown[d] = "waiting"
  BY <1>1, <1>2, <1>3 DEF Shown, status
<1>5. Needed' = Needed
  BY <1>1 DEF Needed, needed, FetchOnly
<1> QED BY <1>1, <1>4, <1>5 DEF ProgramPromise!Skipped, ProgramPromise!Change, Shown, Needed

(* To the promise a fetch that starts is not a step, a build is.           *)
LEMMA StartRefines ==
  ASSUME ProgramInv, NEW d \in Deps, Start(d)
  PROVE  ProgramPromise!Schedule \/ UNCHANGED ProgramPromise!vars
<1> DEFINE s == IF FetchOnly THEN "FETCHING" ELSE "BUILDING"
<1>1. /\ phase = "running" /\ d \in todo /\ IsNext(d)
      /\ st' = [st EXCEPT ![d] = s] /\ todo' = todo \ {d}
      /\ UNCHANGED <<phase, flags, manifest, serial>>
  BY DEF Start, IsNext, Idle
<1>2. st \in [Deps -> State] /\ s \in State
  BY DEF ProgramInv, IInv, TypeOK, State
<1>3. Needed' = Needed
  BY <1>1 DEF Needed, needed, FetchOnly
<1>4. Shown' = [Shown EXCEPT ![d] = StatusOf(s)] /\ Shown[d] = "waiting"
  BY <1>1, <1>2 DEF Shown, status
<1>5. CASE FetchOnly
  <2>1. StatusOf(s) = "waiting"
    BY <1>2, <1>5, StatusValues
  <2>2. Shown' = Shown
    BY <1>4, <2>1 DEF Shown
  <2> QED BY <1>1, <1>3, <2>2 DEF ProgramPromise!vars, Shown, Needed
<1>6. CASE ~FetchOnly
  <2>1. StatusOf(s) = "building"
    BY <1>2, <1>6, StatusValues
  <2>2. \A p \in Requires[d] : Shown[p] = "done"
    <3> TAKE p \in Requires[d]
    <3>1. p \in Deps \ Unsupported /\ Topo[p] \in Nat /\ Topo[d] \in Nat /\ Topo[p] < Topo[d]
      BY GraphAssumption
    <3>2. p \notin todo
      BY <1>1, <3>1 DEF IsNext
    <3>3. st[p] = "DONE"
      BY <1>1, <1>6, NextIsReady DEF PrereqsDone
    <3>4. StatusOf("DONE") = "done"
      BY StatusValues DEF State, Final
    <3> QED BY <3>1, <3>2, <3>3, <3>4 DEF Shown, status
  <2>3. DOMAIN Shown' = Deps /\ \A e \in Deps : e # d => Shown'[e] = Shown[e]
    BY <1>4 DEF Shown
  <2>4. Shown'[d] = "building"
    BY <1>4, <2>1 DEF Shown
  <2> QED BY <1>1, <1>3, <1>4, <2>2, <2>3, <2>4
          DEF ProgramPromise!Schedule, ProgramPromise!Starts, Shown, Needed
<1> QED BY <1>5, <1>6

(* A job that ends is not before the loop any more.                        *)
LEMMA EndsRefines ==
  ASSUME ProgramInv, NEW d \in Deps, Ends(d), serial
  PROVE  ProgramPromise!Next
<1> USE DEF ProgramInv
<1>1. /\ Fetching(d) \/ Building(d)
      /\ UNCHANGED <<serial, todo>>
  BY DEF Ends
<1>2. /\ st' = [st EXCEPT ![d] = st'[d]]
      /\ \/ st[d] = "FETCHING" /\ st'[d] \in {"SOURCE_READY", "FETCH_FAILED"}
         \/ st[d] = "BUILDING" /\ st'[d] \in {"DONE", "BUILD_FAILED"}
      /\ phase = "running" /\ phase' = phase /\ flags' = flags
  BY <1>1, WorkerMoves DEF IInv
<1>3. d \notin todo /\ todo' = todo /\ serial' = serial
  BY <1>1, <1>2 DEF LoopOrder
<1>4. st \in [Deps -> State]
  BY DEF IInv, TypeOK
<1>5. Needed' = Needed
  BY <1>2, <1>3 DEF Needed, needed, FetchOnly
<1>6. Shown' = [Shown EXCEPT ![d] = status'[d]] /\ Shown[d] = status[d]
  <2>1. \A e \in Deps : e # d => status'[e] = status[e]
    BY <1>2, <1>4 DEF status
  <2> QED BY <1>3, <2>1 DEF Shown
<1>7. \/ Promise!Fetched(d) \/ Promise!FetchFailed(d)
      \/ Promise!Built(d) \/ Promise!BuildFailed(d)
  BY <1>1, WorkerRefines
<1>8. status'[d] = [status EXCEPT ![d] = status'[d]][d]
  BY DEF status
<1>9. ASSUME NEW from, NEW to, Promise!Change(d, from, to)
      PROVE  ProgramPromise!Change(d, from, to)
  <2>1. status[d] \in from /\ status'[d] = to
    BY <1>9 DEF Promise!Change, status
  <2> QED BY <1>2, <1>5, <1>6, <2>1 DEF ProgramPromise!Change, Shown, Needed
<1> QED BY <1>7, <1>9
        DEF Promise!Fetched, ProgramPromise!Fetched, Promise!FetchFailed, ProgramPromise!FetchFailed,
            Promise!Built, ProgramPromise!Built, Promise!BuildFailed, ProgramPromise!BuildFailed,
            ProgramPromise!Next

(* The serial loop returns the truth: after a failure "failed", and "ok"   *)
(* only when it has passed every dep and none failed.                      *)
LEMMA SerialReturnRefines ==
  ASSUME ProgramInv, SerialReturn
  PROVE  ProgramPromise!Schedule
<1> USE DEF ProgramInv
<1>1. /\ serial /\ phase = "running" /\ UNCHANGED <<st, flags, manifest, serial, todo>>
      /\ \A d \in Deps : st[d] \notin {"FETCHING", "BUILDING"}
      /\ \/ AnyFailure /\ phase' = "failed"
         \/ ~AnyFailure /\ todo = {} /\ phase' = "ok"
  BY DEF SerialReturn, Idle
<1>2. Needed' = Needed /\ Shown' = Shown /\ DOMAIN Shown = Deps
  BY <1>1 DEF Needed, needed, FetchOnly, Shown, status
<1>3. TypeOK
  BY DEF IInv
<1>4. \A d \in Deps : Shown[d] # "building"
  BY <1>1, <1>3, StatusValues, StatusDeps DEF Shown
<1>5. CASE AnyFailure /\ phase' = "failed"
  <2>1. PICK d \in Deps : st[d] \in Failures
    BY <1>5 DEF AnyFailure
  <2>2. d \notin todo
    BY <1>1, <2>1 DEF LoopOrder, Failures
  <2>3. Shown[d] = "failed"
    BY <1>3, <2>1, <2>2, StatusValues, StatusDeps DEF Shown
  <2> QED BY <1>1, <1>2, <1>4, <1>5, <2>3 DEF ProgramPromise!Schedule, Shown, Needed
<1>6. CASE ~AnyFailure /\ todo = {} /\ phase' = "ok"
  <2>1. ASSUME NEW d \in Deps
        PROVE  IF d \in Needed THEN Shown[d] = "done" ELSE Shown[d] \in {"fetched", "done"}
    <3>1. Shown[d] = StatusOf(st[d]) /\ st[d] \in State
      BY <1>3, <1>6, StatusDeps DEF Shown
    <3>2. CASE d \in Unsupported
      <4>1. st[d] = "DONE"
        BY <1>1, <3>2 DEF IInv, UnsupportedDone
      <4> QED BY <3>1, <4>1, StatusValues
    <3>3. CASE d \notin Unsupported /\ ~FetchOnly
      <4>1. st[d] = "DONE"
        BY <1>1, <1>6, <3>3, BehindTheLoop DEF Idle
      <4> QED BY <3>1, <4>1, StatusValues
    <3>4. CASE d \notin Unsupported /\ FetchOnly
      <4>1. st[d] = "SOURCE_READY"
        BY <1>1, <1>6, <3>4 DEF Passed, PassedStates, AnyFailure, Failures
      <4>2. Needed = {}
        BY <3>4 DEF Needed, needed
      <4> QED BY <3>1, <4>1, <4>2, StatusValues
    <3> QED BY <3>2, <3>3, <3>4
  <2> QED BY <1>1, <1>2, <1>4, <1>6, <2>1
          DEF ProgramPromise!Schedule, ProgramPromise!Complete, Shown, Needed
<1> QED BY <1>1, <1>5, <1>6

LEMMA ProgramInitRefines == ProgramInit => ProgramPromise!Init
<1> SUFFICES ASSUME ProgramInit PROVE ProgramPromise!Init
  OBVIOUS
<1>1. Promise!Init
  BY InitRefines DEF ProgramInit
<1>2. Shown = status /\ Needed = needed
  BY DEF ProgramInit, Shown, Needed, status
<1> QED BY <1>1, <1>2 DEF Promise!Init, ProgramPromise!Init, Shown, Needed

LEMMA ProgramNextRefines ==
  ASSUME ProgramInv, ProgramInv', [ProgramNext]_programVars
  PROVE  [ProgramPromise!Next]_(ProgramPromise!vars)
<1> USE DEF ProgramInv
<1>1. ASSUME NEW args \in CommandLines, PoolPlan(args)
      PROVE  ProgramPromise!Begin
  <2>1. Promise!Begin
    BY <1>1, PlanRefines DEF PoolPlan
  <2>2. Shown' = status' /\ Needed' = needed'
    BY <1>1 DEF PoolPlan, Shown, Needed, status
  <2> QED BY <2>1, <2>2 DEF Promise!Begin, ProgramPromise!Begin, Shown, Needed
<1>2. ASSUME NEW args \in CommandLines, SerialPlan(args)
      PROVE  ProgramPromise!Begin
  BY <1>2, SerialPlanRefines
<1>3. CASE PoolTick
  BY <1>3, PoolStepRefines DEF PoolTick, Next
<1>4. ASSUME NEW d \in Deps, Skip(d) \/ Start(d)
      PROVE  [ProgramPromise!Next]_(ProgramPromise!vars)
  BY <1>4, SkipRefines, StartRefines DEF ProgramPromise!Next
<1>5. ASSUME NEW d \in Deps, Ends(d)
      PROVE  [ProgramPromise!Next]_(ProgramPromise!vars)
  BY <1>5, EndsRefines, PoolStepRefines DEF Ends, Next
<1>6. CASE SerialReturn
  BY <1>6, SerialReturnRefines DEF ProgramPromise!Next
<1>7. CASE Crash /\ UNCHANGED <<serial, todo>>
  <2>1. Shown' = Shown /\ Needed' = Needed
    BY <1>7 DEF Crash, Shown, Needed, needed, FetchOnly, status
  <2>2. ProgramPromise!Crash
    BY <1>7, <2>1 DEF Crash, ProgramPromise!Crash, Shown, Needed
  <2> QED BY <2>2 DEF ProgramPromise!Next
<1>8. CASE UNCHANGED programVars
  BY <1>8 DEF programVars, vars, ProgramPromise!vars, needed, FetchOnly, status
<1> QED BY <1>1, <1>2, <1>3, <1>4, <1>5, <1>6, <1>7, <1>8
        DEF ProgramNext, ProgramPromise!Next

(* The program as a whole keeps the promise of DagBuild: every run of      *)
(* either mode, on the manifests of every earlier one.                     *)
THEOREM ProgramImplements == ProgramSpec => ProgramImplementsDagBuild
BY ProgramInitRefines, ProgramNextRefines, ProgramInvariance, PTL
   DEF ProgramSpec, ProgramImplementsDagBuild, ProgramPromise!Spec

-----------------------------------------------------------------------------
(* A dep is given up only by its own failure or that of a prerequisite.    *)
THEOREM ProgramFailuresJustified == ProgramSpec => NoFalseFailure
<1>1. ProgramInv /\ [ProgramNext]_programVars =>
        [\A d \in Deps : st'[d] = "BUILD_FAILED" /\ st[d] # "BUILD_FAILED"
           => st[d] = "BUILDING" \/ PrereqFailed(d)']_vars
  <2> SUFFICES ASSUME ProgramInv, [ProgramNext]_programVars, NEW d \in Deps,
                      st'[d] = "BUILD_FAILED", st[d] # "BUILD_FAILED"
               PROVE  st[d] = "BUILDING" \/ PrereqFailed(d)'
    OBVIOUS
  <2> USE DEF ProgramInv, IInv
  <2>1. ASSUME NEW args \in CommandLines, Plan(args) PROVE FALSE
    BY <2>1 DEF Plan
  <2>2. CASE Tick
    BY <2>2, TickBlames DEF Blames, PrereqFailed
  <2>3. ASSUME NEW e \in Deps, Fetching(e) \/ Building(e)
        PROVE  st[d] = "BUILDING"
    BY <2>3, WorkerMoves DEF TypeOK
  <2>4. ASSUME NEW e \in Deps, Skip(e) \/ Start(e) PROVE FALSE
    BY <2>4 DEF Skip, Start, TypeOK
  <2>5. CASE Crash \/ SerialReturn \/ UNCHANGED programVars
    BY <2>5 DEF Crash, SerialReturn, programVars, vars
  <2> QED BY <2>1, <2>2, <2>3, <2>4, <2>5
          DEF ProgramNext, PoolPlan, SerialPlan, PoolTick, Ends
<1> QED BY <1>1, ProgramInvariance, PTL DEF ProgramSpec, NoFalseFailure
=============================================================================
