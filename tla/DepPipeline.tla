---------------------------- MODULE DepPipeline ----------------------------
(***************************************************************************)
(* The concurrent dependency pipeline (bin_priv/obt.dep.pipeline.py): one  *)
(* dispatcher thread, a fetch pool and a build pool walk the DAG of deps.  *)
(* A run may be killed and the program started again; what survives is     *)
(* the set of manifests on disk (scripts/obt/_dep_provider.py).            *)
(***************************************************************************)
EXTENDS Integers, FiniteSets

CONSTANTS
  Deps,          \* names of the providers of the chain
  Requires,      \* Requires[d]: the prerequisites of d the host supports
  Topo,          \* Topo[d]: position of d in the dependencies-first list
  Priority,      \* Priority[d]: build_priority of d
  BuildTargets,  \* deps named on the command line
  Primary,       \* the first of them: --force, --wipe, --incremental apply to it
  Unsupported,   \* deps whose supports_host is false: FIND lets none into a
                 \* chain, and the code checks again
  SerialFetch,   \* deps with serial_fetch set
  SerialBuild,   \* deps with serial_build set
  FetchJobs,     \* size of the fetch pool
  BuildJobs,     \* size of the build pool
  CommandLines   \* the sets of flags the program is run with

Flags == {"force", "wipe", "incremental", "fetch-only"}

ASSUME GraphAssumption ==
  /\ IsFiniteSet(Deps)
  /\ Requires \in [Deps -> SUBSET (Deps \ Unsupported)]
  /\ Topo \in [Deps -> Nat]
  /\ \A d, e \in Deps : Topo[d] = Topo[e] => d = e
  /\ \A d \in Deps : \A p \in Requires[d] : Topo[p] < Topo[d]

ASSUME PlanAssumption ==
  /\ BuildTargets \subseteq Deps
  /\ Primary \in BuildTargets
  /\ Unsupported \subseteq Deps
  /\ SerialFetch \subseteq Deps
  /\ SerialBuild \subseteq Deps
  /\ Priority \in [Deps -> Int]
  /\ FetchJobs \in Nat \ {0}
  /\ BuildJobs \in Nat \ {0}
  /\ CommandLines \subseteq SUBSET Flags

VARIABLES
  phase,     \* "down", "running", or the exit status "ok" / "failed" of main
  st,        \* _state
  flags,     \* the flags of the current run
  manifest   \* deps whose manifest file exists on disk

vars == <<phase, st, flags, manifest>>

Failures == {"FETCH_FAILED", "BUILD_FAILED"}
Final == Failures \cup {"DONE"}
State == Final \cup {"PENDING", "FETCHING", "SOURCE_READY", "BUILDING"}

(* Deps in a build target's chain: the least set that holds the targets   *)
(* and the prerequisites of its members.                                   *)
BuildReachable ==
  {d \in Deps : \A C \in SUBSET Deps :
      (BuildTargets \subseteq C /\ \A c \in C : Requires[c] \subseteq C) => d \in C}

FetchOnlySet == Deps \ BuildReachable
FetchOnly == "fetch-only" \in flags

-----------------------------------------------------------------------------
(* phase1_plan *)

Provisioned(d, args) ==
  d \in manifest /\ ~(d = Primary /\ args \cap {"force", "wipe"} # {})

ShouldBuild(d, args) ==
  d \notin manifest \/ (d = Primary /\ args \cap {"force", "wipe", "incremental"} # {})

\* Fault: only the primary is checked, the other deps are taken for installed.
PlanPrimary(args) ==
  /\ phase # "running"
  /\ phase' = "running"
  /\ flags' = args
  /\ st' = [d \in Deps |->
              IF d # Primary \/ Provisioned(d, args) THEN "DONE" ELSE "PENDING"]
  /\ UNCHANGED manifest

Plan(args) ==
  /\ phase # "running"
  /\ phase' = "running"
  /\ flags' = args
  /\ st' = [d \in Deps |->
              IF d \in Unsupported \/ Provisioned(d, args) THEN "DONE" ELSE "PENDING"]
  /\ UNCHANGED manifest

-----------------------------------------------------------------------------
(* One iteration of _dispatch_loop. Each list it builds is a set here.     *)

In(s) == {d \in Deps : st[d] = s}

(* A serial_fetch dep that comes up first while nothing is being fetched   *)
(* is taken and ends the scan; otherwise serial deps are passed over and   *)
(* the free slots go to the first pending deps of the list.                *)
ToFetch ==
  LET first == {d \in In("PENDING") : \A e \in In("PENDING") : Topo[d] <= Topo[e]}
      plain == In("PENDING") \ SerialFetch
      slots == FetchJobs - Cardinality(In("FETCHING"))
  IN  IF In("FETCHING") = {} /\ first \cap SerialFetch # {}
        THEN first
        ELSE {d \in plain : Cardinality({e \in plain : Topo[e] < Topo[d]}) < slots}

(* build_order: highest priority first, ties in list order.                *)
BuildsBefore(e, d) ==
  \/ Priority[e] > Priority[d]
  \/ Priority[e] = Priority[d] /\ Topo[e] < Topo[d]

\* Fault: a prerequisite whose source is there is taken for built.
PrereqsReady(d) == \A p \in Requires[d] : st[p] \in {"DONE", "SOURCE_READY"}
PrereqsDone(d) == \A p \in Requires[d] : st[p] = "DONE"
PrereqFailed(d) == \E p \in Requires[d] : st[p] \in Failures

(* Ready to build or waiting for prerequisites: in --fetch-only mode and   *)
(* for prefetched deps SOURCE_READY is the end of the road.                *)
Candidates == IF FetchOnly THEN {} ELSE In("SOURCE_READY") \ FetchOnlySet
\* Fault: the jobs already running are not counted.
FreshSlots == BuildJobs
BuildSlots == BuildJobs - Cardinality(In("BUILDING"))

ToBuild ==
  LET ready == {d \in Candidates : PrereqsDone(d)}
      first == {d \in ready : \A e \in ready \ {d} : BuildsBefore(d, e)}
      plain == ready \ SerialBuild
  IN  IF In("BUILDING") = {} /\ first \cap SerialBuild # {}
        THEN first
        ELSE {d \in plain : Cardinality({e \in plain : BuildsBefore(e, d)}) < BuildSlots}

(* The candidates the scan of build_order reaches before it breaks.        *)
Scanned ==
  {d \in Candidates :
     LET taken == {e \in ToBuild : BuildsBefore(e, d)}
     IN  Cardinality(taken) < BuildSlots /\ taken \cap SerialBuild = {}}

\* Fault: a dep that has to wait is marked failed.
WaitingIsCascade(C) == C = {d \in Scanned : ~PrereqsDone(d)}
(* The scan marks a dep as it meets it, so a mark counts for the deps that *)
(* come later in the same scan.                                            *)
IsCascade(C) ==
  C = {d \in Scanned :
         /\ ~PrereqsDone(d)
         /\ PrereqFailed(d) \/ \E p \in Requires[d] \cap C : BuildsBefore(p, d)}

IsTerminal(d, s) ==
  s \in Final \/ (s = "SOURCE_READY" /\ (FetchOnly \/ d \in FetchOnlySet))

Dispatched(C) ==
  [d \in Deps |-> IF d \in ToFetch THEN "FETCHING"
                  ELSE IF d \in ToBuild THEN "BUILDING"
                  ELSE IF d \in C THEN "BUILD_FAILED" ELSE st[d]]

\* Fault: only fetch failures count.
NotFetchFailed(d, s) == s # "FETCH_FAILED"
(* The verdict of phase2_execute on the states the loop left.              *)
Complete(d, s) ==
  IF FetchOnly \/ d \in FetchOnlySet
    THEN s \in {"SOURCE_READY", "DONE"}
    ELSE s = "DONE"

Return(final) ==
  /\ st' = final
  /\ phase' = IF \A d \in Deps \ Unsupported : Complete(d, final[d])
                THEN "ok" ELSE "failed"

Tick ==
  /\ phase = "running"
  /\ \E C \in SUBSET In("SOURCE_READY") :
       /\ IsCascade(C)
       /\ LET s == Dispatched(C)
              open == {d \in Deps : ~IsTerminal(d, s[d])}
              busy == \E d \in Deps : s[d] \in {"FETCHING", "BUILDING"}
          IN  \/ open = {} /\ Return(s)
              \/ /\ open # {} /\ ~busy
                 /\ Return([d \in Deps |-> IF d \in open THEN "BUILD_FAILED" ELSE s[d]])
              \/ open # {} /\ busy /\ st' = s /\ UNCHANGED phase
  /\ UNCHANGED <<flags, manifest>>

-----------------------------------------------------------------------------
(* The workers: an exception counts as a failure.                          *)

Settle(d, from, to) ==
  /\ phase = "running"
  /\ st[d] = from
  /\ st' = [st EXCEPT ![d] = to]
  /\ UNCHANGED <<phase, flags>>

\* Fault: a failed fetch is queued again, without a bound.
FetchRetry(d) == Settle(d, "FETCHING", "PENDING") /\ UNCHANGED manifest
FetchDone(d) == Settle(d, "FETCHING", "SOURCE_READY") /\ UNCHANGED manifest
FetchFail(d) == Settle(d, "FETCHING", "FETCH_FAILED") /\ UNCHANGED manifest

(* build_and_install touches the manifest last, and only on success.       *)
BuildDone(d) == Settle(d, "BUILDING", "DONE") /\ manifest' = manifest \cup {d}
BuildFail(d) == Settle(d, "BUILDING", "BUILD_FAILED") /\ UNCHANGED manifest

(* The process is killed; only the manifests survive.                      *)
Crash ==
  /\ phase = "running"
  /\ phase' = "down"
  /\ UNCHANGED <<st, flags, manifest>>

Fetching(d) == FetchDone(d) \/ FetchFail(d)
Building(d) == BuildDone(d) \/ BuildFail(d)

Init ==
  /\ phase = "down"
  /\ st = [d \in Deps |-> "PENDING"]
  /\ flags = {}
  /\ manifest \in {M \in SUBSET (Deps \ Unsupported) : \A d \in M : Requires[d] \subseteq M}

Next ==
  \/ \E args \in CommandLines : Plan(args)
  \/ Tick
  \/ \E d \in Deps : Fetching(d) \/ Building(d)
  \/ Crash

Spec == Init /\ [][Next]_vars

(* The loop wakes at least once a second (wait(timeout=1.0)) and every job *)
(* a pool runs ends, well or badly. Nothing forces a kill or a new run.    *)
Fairness ==
  /\ WF_vars(Tick)
  /\ \A d \in Deps : WF_vars(Fetching(d)) /\ WF_vars(Building(d))

FairSpec == Spec /\ Fairness

-----------------------------------------------------------------------------
(* Properties *)

TypeOK ==
  /\ phase \in {"down", "running", "ok", "failed"}
  /\ st \in [Deps -> State]
  /\ flags \subseteq Flags
  /\ manifest \subseteq Deps \ Unsupported

(* A dep is in the build pool only while every prerequisite is DONE, so no *)
(* failed, running or forced-to-rebuild prerequisite is under it (lines    *)
(* 369-406: readiness is judged on one snapshot, the pools move on).       *)
BuildAfterPrereqs ==
  \A d \in Deps : st[d] = "BUILDING" => PrereqsDone(d)

(* The pools are never handed more jobs than they have threads: no dep is  *)
(* reported FETCHING or BUILDING while it waits for a thread.              *)
PoolBounds ==
  /\ Cardinality(In("FETCHING")) <= FetchJobs
  /\ Cardinality(In("BUILDING")) <= BuildJobs

(* A dep that is only prefetched is never built and is never charged with  *)
(* a build failure, neither by the cascade nor by the stuck-dep sweep.     *)
PrefetchNotBuilt ==
  \A d \in FetchOnlySet : st[d] \notin {"BUILDING", "BUILD_FAILED"}

(* A dep becomes BUILD_FAILED only when its own build ran and failed or a  *)
(* prerequisite has failed: the sweep for stuck deps on return blames no   *)
(* dep that could still have been built (independent subtrees complete).   *)
NoFalseFailure ==
  [][\A d \in Deps : st'[d] = "BUILD_FAILED" /\ st[d] # "BUILD_FAILED"
        => st[d] = "BUILDING" \/ PrereqFailed(d)']_vars

(* When the program exits 0, everything the named targets need is on disk  *)
(* with its manifest, whichever runs and kills came before.                *)
SuccessIsInstalled ==
  phase = "ok" /\ ~FetchOnly => BuildReachable \ Unsupported \subseteq manifest

(* A manifest is never on disk without those of all prerequisites, so the  *)
(* next run, which trusts manifests, starts from a sound installation even *)
(* after a kill between two builds.                                        *)
ManifestClosed ==
  \A d \in manifest : Requires[d] \subseteq manifest

(* The dispatch loop returns, unless the process is killed: no combination *)
(* of failures, serial deps and prefetched deps leaves it waiting forever. *)
Terminates ==
  phase = "running" ~> phase # "running"

(* The pools, priorities, serial flags and cascade implement DagBuild.     *)
needed == IF FetchOnly THEN {} ELSE BuildReachable \ Unsupported

StatusOf(s) ==
  CASE s \in {"PENDING", "FETCHING"} -> "waiting"
    [] s = "SOURCE_READY"            -> "fetched"
    [] s = "BUILDING"                -> "building"
    [] s = "DONE"                    -> "done"
    [] s \in Failures                -> "failed"

status == [d \in Deps |-> StatusOf(st[d])]

Promise == INSTANCE DagBuild WITH verdict <- phase, installed <- manifest

ImplementsDagBuild == Promise!Spec

(* Lines 243-244 say the plan's short-circuit mirrors should_build: a dep  *)
(* that should_build wants is not taken for provisioned.                   *)
PlanMirrorsShouldBuild ==
  [][phase # "running" /\ phase' = "running" =>
       \A d \in Deps \ Unsupported : ShouldBuild(d, flags') => st'[d] # "DONE"]_vars
=============================================================================
