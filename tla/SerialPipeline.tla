--------------------------- MODULE SerialPipeline ---------------------------
(***************************************************************************)
(* The whole of obt.dep.pipeline.py: each run takes the pools of           *)
(* DepPipeline or, with --serial, the loop of run_serial, in which the     *)
(* deps are taken in list order, one at a time, and the first failure ends *)
(* the run. Runs of both modes follow each other on the same manifests.    *)
(* obt.dep.build.py is that loop for the chain of one target.              *)
(***************************************************************************)
EXTENDS DepPipeline

VARIABLES
  serial,  \* whether the current run, or the last one, has --serial
  todo     \* deps the serial loop has not come to

programVars == <<vars, serial, todo>>

Idle ==
  serial /\ phase = "running" /\ \A d \in Deps : st[d] \notin {"FETCHING", "BUILDING"}
AnyFailure == \E d \in Deps : st[d] \in Failures

IsNext(d) ==
  /\ Idle /\ ~AnyFailure
  /\ d \in todo
  /\ \A e \in todo : Topo[d] <= Topo[e]

SerialPlan(args) == Plan(args) /\ serial' = TRUE /\ todo' = Deps \ Unsupported

Skip(d) ==
  /\ IsNext(d)
  /\ ~FetchOnly /\ ~ShouldBuild(d, flags)
  /\ st' = [st EXCEPT ![d] = "DONE"]
  /\ todo' = todo \ {d}
  /\ UNCHANGED <<phase, flags, manifest, serial>>

\* Fault: the prerequisites' order is ignored.
StartAny(d) ==
  /\ Idle /\ ~AnyFailure
  /\ d \in todo
  /\ FetchOnly \/ ShouldBuild(d, flags)
  /\ st' = [st EXCEPT ![d] = IF FetchOnly THEN "FETCHING" ELSE "BUILDING"]
  /\ todo' = todo \ {d}
  /\ UNCHANGED <<phase, flags, manifest, serial>>

Start(d) ==
  /\ IsNext(d)
  /\ FetchOnly \/ ShouldBuild(d, flags)
  /\ st' = [st EXCEPT ![d] = IF FetchOnly THEN "FETCHING" ELSE "BUILDING"]
  /\ todo' = todo \ {d}
  /\ UNCHANGED <<phase, flags, manifest, serial>>

SerialReturn ==
  /\ Idle
  /\ \/ AnyFailure /\ phase' = "failed"
     \/ ~AnyFailure /\ todo = {} /\ phase' = "ok"
  /\ UNCHANGED <<st, flags, manifest, serial, todo>>

PoolPlan(args) == Plan(args) /\ serial' = FALSE /\ todo' = {}
PoolTick == ~serial /\ Tick /\ UNCHANGED <<serial, todo>>

\* A job of a pool, or provide() or fetch_only() called by the serial loop:
\* both fetch, build, install and touch the manifest in this order.
Ends(d) == (Fetching(d) \/ Building(d)) /\ UNCHANGED <<serial, todo>>

ProgramInit == Init /\ serial = FALSE /\ todo = {}

ProgramNext ==
  \/ \E args \in CommandLines : PoolPlan(args) \/ SerialPlan(args)
  \/ PoolTick
  \/ \E d \in Deps : Skip(d) \/ Start(d) \/ Ends(d)
  \/ SerialReturn
  \/ Crash /\ UNCHANGED <<serial, todo>>

ProgramSpec == ProgramInit /\ [][ProgramNext]_programVars

(* The dispatcher wakes at least once a second, one thread runs the serial *)
(* loop, and every job they start ends, well or badly.                     *)
ProgramFairSpec ==
  /\ ProgramSpec
  /\ WF_programVars(PoolTick)
  /\ WF_programVars(SerialReturn)
  /\ \A d \in Deps : WF_programVars(Skip(d) \/ Start(d)) /\ WF_programVars(Ends(d))

-----------------------------------------------------------------------------
(* Properties. Those of DepPipeline are checked of the whole program.      *)

(* The serial loop never takes up a dep the host does not support.         *)
ProgramTypeOK ==
  /\ TypeOK
  /\ serial \in BOOLEAN
  /\ todo \subseteq Deps \ Unsupported

(* Both modes keep the promise of DagBuild, on manifests left by either. A *)
(* dep the serial loop has not come to counts as waiting even if the plan  *)
(* marked it DONE, since --incremental rebuilds it; --serial builds the    *)
(* prefetched deps too.                                                    *)
ProgramPromise == INSTANCE DagBuild WITH
  verdict <- phase,
  installed <- manifest,
  needed <- IF serial /\ ~FetchOnly THEN Deps \ Unsupported ELSE needed,
  status <- [d \in Deps |-> IF d \in todo THEN "waiting" ELSE status[d]]

ProgramImplementsDagBuild == ProgramPromise!Spec
=============================================================================
