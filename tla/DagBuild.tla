------------------------------ MODULE DagBuild ------------------------------
(***************************************************************************)
(* What a run of the dependency builder promises, whatever its schedule:   *)
(* a dep is built only on top of finished prerequisites, it fails only by  *)
(* its own doing or because a prerequisite failed, and the verdict tells   *)
(* the truth. obt.dep.pipeline.py implements it both with its pools        *)
(* (DepPipeline) and with --serial (SerialPipeline).                       *)
(***************************************************************************)
CONSTANTS
  Deps,       \* the deps of the program
  Requires    \* Requires[d]: the prerequisites of d

VARIABLES
  verdict,    \* "down", "running", "ok", "failed"
  needed,     \* deps the run must have built to succeed; the others are fetched
  status,     \* progress of each dep
  installed   \* deps installed by this run or an earlier one

vars == <<verdict, needed, status, installed>>

Status == {"waiting", "fetched", "building", "done", "failed"}

TypeOK ==
  /\ verdict \in {"down", "running", "ok", "failed"}
  /\ status \in [Deps -> Status]
  /\ needed \subseteq Deps
  /\ installed \subseteq Deps

Complete(d) ==
  IF d \in needed THEN status[d] = "done" ELSE status[d] \in {"fetched", "done"}

Init ==
  /\ verdict = "down"
  /\ needed \subseteq Deps
  /\ status = [d \in Deps |-> "waiting"]
  /\ installed \subseteq Deps
  /\ \A d \in installed : Requires[d] \subseteq installed

(* A run starts: some deps may count as done from the outset, and those    *)
(* among them that need to be built are installed.                         *)
Begin ==
  /\ verdict # "running"
  /\ verdict' = "running"
  /\ needed' \subseteq Deps
  /\ status' \in [Deps -> {"waiting", "done"}]
  /\ \A d \in needed' : status'[d] = "done" => d \in installed
  /\ \A d \in Deps : \A p \in Requires[d] : status'[p] = "done" => p \in installed
  /\ UNCHANGED installed

Change(d, from, to) ==
  /\ verdict = "running"
  /\ status[d] \in from
  /\ status' = [status EXCEPT ![d] = to]
  /\ UNCHANGED <<verdict, needed>>

Fetched(d) == Change(d, {"waiting"}, "fetched") /\ UNCHANGED installed
FetchFailed(d) == Change(d, {"waiting"}, "failed") /\ UNCHANGED installed
Skipped(d) == Change(d, {"waiting"}, "done") /\ d \in installed /\ UNCHANGED installed
Built(d) == Change(d, {"building"}, "done") /\ installed' = installed \cup {d}
BuildFailed(d) == Change(d, {"building"}, "failed") /\ UNCHANGED installed

Starts(d) ==
  /\ status[d] \in {"waiting", "fetched"}
  /\ status'[d] = "building"
  /\ \A p \in Requires[d] : status[p] = "done"

Doomed(d) ==
  /\ status[d] \in {"waiting", "fetched"}
  /\ status'[d] = "failed"
  /\ \E p \in Requires[d] : status'[p] = "failed"

(* One decision of the scheduler: deps start building, deps above a failed *)
(* one are given up, and the run may end.                                  *)
Schedule ==
  /\ verdict = "running"
  /\ DOMAIN status' = Deps
  /\ \A d \in Deps : status'[d] = status[d] \/ Starts(d) \/ Doomed(d)
  /\ \/ verdict' = "running"
     \/ /\ \A d \in Deps : status'[d] # "building"
        /\ \/ verdict' = "ok" /\ \A d \in Deps : Complete(d)'
           \/ verdict' = "failed" /\ \E d \in Deps : status'[d] = "failed"
  /\ UNCHANGED <<needed, installed>>

Crash ==
  /\ verdict = "running"
  /\ verdict' = "down"
  /\ UNCHANGED <<needed, status, installed>>

Next ==
  \/ Begin
  \/ Schedule
  \/ \E d \in Deps : Fetched(d) \/ FetchFailed(d) \/ Skipped(d)
  \/ \E d \in Deps : Built(d) \/ BuildFailed(d)
  \/ Crash

Spec == Init /\ [][Next]_vars
=============================================================================
