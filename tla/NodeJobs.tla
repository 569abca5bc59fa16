------------------------------ MODULE NodeJobs ------------------------------
(***************************************************************************)
(* The job machinery of an obtnet node (scripts/obt/net/node.py): the      *)
(* control loop registers, queues and cancels jobs, worker threads run     *)
(* them, the processes live in sessions of their own, and clients poll     *)
(* (scripts/obt/net/client.py). The node may be restarted.                 *)
(***************************************************************************)
EXTENDS Integers, Sequences

CONSTANTS
  Jobs,         \* ids of the jobs clients will submit
  Workers,      \* worker threads
  VerdictJobs,  \* jobs of kind project.build, test or scene.run
  MaxRestarts,  \* bound: how often the node is restarted
  NoJob         \* job of an idle worker

ASSUME NodeAssumption ==
  /\ VerdictJobs \subseteq Jobs
  /\ NoJob \notin Jobs
  /\ Workers # {}
  /\ MaxRestarts \in Nat

VARIABLES
  job_q,     \* FIFO of registered jobs
  state,     \* Job.state; "unknown" before submission, "lost" after a restart
  cancel,    \* Job.cancel_requested
  popen,     \* is Job.popen set
  summary,   \* verdict_ok of Job.summary, "none" while it is empty
  disk,      \* state held by jobs/<id>/status.json, "none" without the file
  proc,      \* the process: "none", "alive", or how it ended
  termed,    \* did a SIGTERM of ours reach the live process
  at,        \* at[w]: what worker w is doing, with which job
  announced, \* state carried by the job_done event
  client,    \* verdict the submitter's client printed
  restarts

vars == <<job_q, state, cancel, popen, summary, disk, proc, termed,
          at, announced, client, restarts>>

Terminal == {"done", "failed", "timeout", "cancelled"}
Exits == {"exit0", "exit1", "killed"}   \* rc = 0, rc > 0, rc < 0
Steps == {"claimed", "spawned", "waiting", "collecting", "settled", "judging",
          "failing", "reporting"}

Idle == [pc |-> "idle", job |-> NoJob, end |-> "none"]

Registered(j) == state[j] \notin {"unknown", "lost"}

\* Worker w goes on to step pc with the job it holds.
Goto(w, pc) == at' = [at EXCEPT ![w].pc = pc]
At(w, pc) == at[w].pc = pc

registry == <<state, cancel, popen, summary>>
process == <<proc, termed>>
outside == <<announced, client, restarts>>

-----------------------------------------------------------------------------
(* The control loop. *)

Submit(j) ==
  /\ state[j] = "unknown"
  /\ state' = [state EXCEPT ![j] = "queued"]
  /\ job_q' = Append(job_q, j)
  /\ UNCHANGED <<cancel, popen, summary, disk, process, at, outside>>

\* Fault: the handler sets the end state instead of leaving it to the worker.
CancelNow(j) ==
  /\ Registered(j)
  /\ cancel' = [cancel EXCEPT ![j] = TRUE]
  /\ state' = [state EXCEPT ![j] = "cancelled"]
  /\ UNCHANGED <<job_q, popen, summary, disk, process, at, outside>>

(* The handle is read under jobs_lock, the signal is sent after it.        *)
Cancel(j) ==
  /\ Registered(j)
  /\ cancel' = [cancel EXCEPT ![j] = TRUE]
  /\ termed' = [termed EXCEPT ![j] = @ \/ (popen[j] /\ proc[j] = "alive")]
  /\ UNCHANGED <<job_q, state, popen, summary, disk, proc, at, outside>>

-----------------------------------------------------------------------------
(* A worker thread. *)

TakeCancelled(w) ==
  /\ At(w, "idle") /\ job_q # <<>>
  /\ cancel[Head(job_q)]
  /\ job_q' = Tail(job_q)
  /\ state' = [state EXCEPT ![Head(job_q)] = "cancelled"]
  /\ announced' = [announced EXCEPT ![Head(job_q)] = "cancelled"]
  /\ UNCHANGED <<cancel, popen, summary, disk, process, at, client, restarts>>

\* Fault: the job stays at the head of the queue.
TakePeek(w) ==
  /\ At(w, "idle") /\ job_q # <<>>
  /\ ~cancel[Head(job_q)]
  /\ state' = [state EXCEPT ![Head(job_q)] = "running"]
  /\ at' = [at EXCEPT ![w] = [pc |-> "claimed", job |-> Head(job_q), end |-> "none"]]
  /\ UNCHANGED <<job_q, cancel, popen, summary, disk, process, outside>>

Take(w) ==
  /\ At(w, "idle") /\ job_q # <<>>
  /\ ~cancel[Head(job_q)]
  /\ job_q' = Tail(job_q)
  /\ state' = [state EXCEPT ![Head(job_q)] = "running"]
  /\ at' = [at EXCEPT ![w] = [pc |-> "claimed", job |-> Head(job_q), end |-> "none"]]
  /\ UNCHANGED <<cancel, popen, summary, disk, process, outside>>

(* Popen has returned; its handle is not in the registry yet.              *)
Spawn(w) ==
  /\ At(w, "claimed")
  /\ proc' = [proc EXCEPT ![at[w].job] = "alive"]
  /\ Goto(w, "spawned")
  /\ UNCHANGED <<job_q, registry, disk, termed, outside>>

ExecFails(w) ==
  /\ At(w, "claimed")
  /\ state' = [state EXCEPT ![at[w].job] = "failed"]
  /\ Goto(w, "settled")
  /\ UNCHANGED <<job_q, cancel, popen, summary, disk, process, outside>>

Record(w) ==
  /\ At(w, "spawned")
  /\ popen' = [popen EXCEPT ![at[w].job] = TRUE]
  /\ Goto(w, "waiting")
  /\ UNCHANGED <<job_q, state, cancel, summary, disk, process, outside>>

WaitReturns(w) ==
  /\ At(w, "waiting") /\ proc[at[w].job] \in Exits
  /\ at' = [at EXCEPT ![w].pc = "collecting", ![w].end = "done"]
  /\ UNCHANGED <<job_q, registry, disk, process, outside>>

\* Fault: the process group is not killed at the deadline.
WaitGivesUp(w) ==
  /\ At(w, "waiting")
  /\ at' = [at EXCEPT ![w].pc = "collecting", ![w].end = "timeout"]
  /\ UNCHANGED <<job_q, registry, disk, process, outside>>

(* The process may have exited on its own just before the SIGKILL.         *)
WaitTimesOut(w) ==
  /\ At(w, "waiting")
  /\ proc' = [proc EXCEPT ![at[w].job] = IF @ = "alive" THEN "killed" ELSE @]
  /\ at' = [at EXCEPT ![w].pc = "collecting", ![w].end = "timeout"]
  /\ UNCHANGED <<job_q, registry, disk, termed, outside>>

\* Fault: the exit code is not looked at.
RequestedEnd(w) == IF cancel[at[w].job] THEN "cancelled" ELSE at[w].end

(* The end state, decided and published under jobs_lock.                   *)
EndState(w) ==
  IF cancel[at[w].job] /\ at[w].end = "done" /\ proc[at[w].job] = "killed"
    THEN "cancelled" ELSE at[w].end

Settle(w) ==
  /\ At(w, "collecting")
  /\ state' = [state EXCEPT ![at[w].job] = EndState(w)]
  /\ Goto(w, "settled")
  /\ UNCHANGED <<job_q, cancel, popen, summary, disk, process, outside>>

WriteStatus(w) ==
  /\ At(w, "settled")
  /\ disk' = [disk EXCEPT ![at[w].job] = state[at[w].job]]
  /\ Goto(w, IF at[w].job \in VerdictJobs THEN "judging" ELSE "reporting")
  /\ UNCHANGED <<job_q, registry, process, outside>>

(* The server-side verdict: rc = 0 and a log without error lines (clean).  *)
VerdictOk(j, clean) == state[j] = "done" /\ proc[j] = "exit0" /\ clean

Judge(w) ==
  /\ At(w, "judging")
  /\ \E clean \in BOOLEAN : summary' = [summary EXCEPT ![at[w].job] =
                   IF VerdictOk(at[w].job, clean) THEN "pass" ELSE "fail"]
  /\ disk' = [disk EXCEPT ![at[w].job] = state[at[w].job]]
  /\ Goto(w, "reporting")
  /\ UNCHANGED <<job_q, state, cancel, popen, process, outside>>

(* Inputs that cannot be materialized, outputs that cannot be collected, a *)
(* status file that cannot be written, a marker pattern that does not      *)
(* compile: the kind raises and _worker_loop catches.                      *)
Raise(w) ==
  /\ at[w].pc \in {"claimed", "collecting", "settled", "judging"}
  /\ Goto(w, "failing")
  /\ UNCHANGED <<job_q, registry, disk, process, outside>>

\* Fault: the failure is recorded and nobody is told.
CatchSilently(w) ==
  /\ At(w, "failing")
  /\ state' = [state EXCEPT ![at[w].job] = "failed"]
  /\ at' = [at EXCEPT ![w] = Idle]
  /\ UNCHANGED <<job_q, cancel, popen, summary, disk, process, outside>>

Catch(w) ==
  /\ At(w, "failing")
  /\ state' = [state EXCEPT ![at[w].job] = "failed"]
  /\ Goto(w, "reporting")
  /\ UNCHANGED <<job_q, cancel, popen, summary, disk, process, outside>>

Report(w) ==
  /\ At(w, "reporting")
  /\ announced' = [announced EXCEPT ![at[w].job] = state[at[w].job]]
  /\ at' = [at EXCEPT ![w] = Idle]
  /\ UNCHANGED <<job_q, registry, disk, process, client, restarts>>

Work(w) ==
  \/ TakeCancelled(w) \/ Take(w)
  \/ Spawn(w) \/ ExecFails(w) \/ Record(w)
  \/ WaitReturns(w) \/ WaitTimesOut(w)
  \/ Settle(w) \/ WriteStatus(w) \/ Judge(w)
  \/ Raise(w) \/ Catch(w) \/ Report(w)

-----------------------------------------------------------------------------
(* The environment. *)

(* The process ends by itself, at SIGTERM or not.                          *)
ProcExit(j) ==
  /\ proc[j] = "alive"
  /\ proc' \in {[proc EXCEPT ![j] = e] : e \in Exits}
  /\ UNCHANGED <<job_q, registry, disk, termed, at, outside>>

(* The registry with its Job records, the queue and the threads die with   *)
(* the daemon; processes in their own sessions and files on disk do not.   *)
Restart ==
  /\ restarts < MaxRestarts
  /\ restarts' = restarts + 1
  /\ job_q' = <<>>
  /\ at' = [w \in Workers |-> Idle]
  /\ state' = [j \in Jobs |-> IF Registered(j) THEN "lost" ELSE state[j]]
  /\ cancel' = [j \in Jobs |-> FALSE]
  /\ popen' = [j \in Jobs |-> FALSE]
  /\ summary' = [j \in Jobs |-> "none"]
  /\ UNCHANGED <<disk, process, announced, client>>

\* Fault: DONE is taken for success.
SawDone(j) == state[j] = "done"
(* job_wait sees a terminal state. A client of a single node takes the     *)
(* summary's word (build, test, scene) or the exit code (wait).            *)
SawExit0(j) == state[j] = "done" /\ proc[j] = "exit0"

Polled(j, ok) ==
  /\ client[j] = "none"
  /\ state[j] \in Terminal
  /\ client' = [client EXCEPT ![j] = IF ok THEN "ok" ELSE "bad"]
  /\ UNCHANGED <<job_q, registry, disk, process, at, announced, restarts>>

SingleVerdict(j) ==
  Polled(j, IF j \in VerdictJobs THEN summary[j] = "pass" ELSE SawExit0(j))

(* A fleet verb falls back on the exit code when there is no summary.      *)
FleetVerdict(j) ==
  Polled(j, IF summary[j] # "none" THEN summary[j] = "pass" ELSE SawExit0(j))

Init ==
  /\ job_q = <<>>
  /\ state = [j \in Jobs |-> "unknown"]
  /\ cancel = [j \in Jobs |-> FALSE]
  /\ popen = [j \in Jobs |-> FALSE]
  /\ summary = [j \in Jobs |-> "none"]
  /\ disk = [j \in Jobs |-> "none"]
  /\ proc = [j \in Jobs |-> "none"]
  /\ termed = [j \in Jobs |-> FALSE]
  /\ at = [w \in Workers |-> Idle]
  /\ announced = [j \in Jobs |-> "none"]
  /\ client = [j \in Jobs |-> "none"]
  /\ restarts = 0

Next ==
  \/ \E j \in Jobs : Submit(j) \/ Cancel(j) \/ ProcExit(j)
  \/ \E j \in Jobs : SingleVerdict(j) \/ FleetVerdict(j)
  \/ \E w \in Workers : Work(w)
  \/ Restart

Spec == Init /\ [][Next]_vars

(* A worker thread keeps running (the queue is polled every 0.25 s and     *)
(* p.wait has a timeout); clients, processes and restarts owe nothing.     *)
FairSpec == Spec /\ \A w \in Workers : WF_vars(Work(w))

-----------------------------------------------------------------------------
(* Properties *)

TypeOK ==
  /\ job_q \in Seq(Jobs)
  /\ state \in [Jobs -> Terminal \cup {"unknown", "queued", "running", "lost"}]
  /\ cancel \in [Jobs -> BOOLEAN] /\ popen \in [Jobs -> BOOLEAN]
  /\ termed \in [Jobs -> BOOLEAN]
  /\ summary \in [Jobs -> {"none", "pass", "fail"}]
  /\ disk \in [Jobs -> Terminal \cup {"none"}]
  /\ announced \in [Jobs -> Terminal \cup {"none"}]
  /\ proc \in [Jobs -> Exits \cup {"none", "alive"}]
  /\ client \in [Jobs -> {"none", "ok", "bad"}]
  /\ restarts \in 0 .. MaxRestarts
  /\ at \in [Workers -> [pc : Steps, job : Jobs, end : {"none", "done", "timeout"}]
                          \cup {Idle}]

(* No process of a job the registry knows outlives its terminal state:     *)
(* when a client reads done, failed, timeout or cancelled, nothing runs.   *)
NoStrayProcess ==
  \A j \in Jobs : proc[j] = "alive" /\ Registered(j) => state[j] = "running"

(* A running job is held by exactly one worker, and a job a worker holds   *)
(* is not queued: a job never runs twice and none is left running with no  *)
(* thread to end it.                                                       *)
OneHolder ==
  /\ \A j \in Jobs : state[j] = "running" => \E w \in Workers : at[w].job = j
  /\ \A v, w \in Workers : at[v].job = at[w].job /\ at[v] # Idle => v = w
  /\ \A w \in Workers : \A i \in DOMAIN job_q : at[w].job # job_q[i]

(* The job_done event is the last word: after it the state stays, so a     *)
(* watcher and a client that polls later agree (a restart forgets it).     *)
AnnouncedIsFinal ==
  [][\A j \in Jobs : announced[j] # "none" => state'[j] \in {announced[j], "lost"}]_vars

(* A job is cancelled only on request, and then it either never had a      *)
(* process or that process died of a signal.                               *)
CancelledOnRequest ==
  \A j \in Jobs : state[j] = "cancelled" => cancel[j] /\ proc[j] \in {"none", "killed"}

(* A client prints OK only for a job whose process ran and exited with 0,  *)
(* whatever exceptions, timeouts and cancels crossed the poll.             *)
OkMeansExit0 ==
  \A j \in Jobs : client[j] = "ok" => proc[j] = "exit0"

(* Every queued job is announced with a terminal state, unless the node is *)
(* restarted: no exception path leaves a job running or a worker dead.     *)
EveryJobEnds ==
  \A j \in Jobs : state[j] = "queued" ~> (announced[j] \in Terminal \/ state[j] = "lost")

(* node.py:459-461: the verdict of a build, computed on the node from the  *)
(* logs, decides whatever the exit code says; what a client printed and    *)
(* what the node concluded are the same verdict.                           *)
VerdictAgrees ==
  \A j \in VerdictJobs : client[j] # "none" /\ summary[j] # "none"
    => (client[j] = "ok" <=> summary[j] = "pass")

(* proto.py:41: job_cancel sends SIGTERM to the process group; once the    *)
(* request is in, a worker waiting for the process has had it signalled.   *)
CancelSignals ==
  \A w \in Workers : At(w, "waiting") /\ cancel[at[w].job] /\ proc[at[w].job] = "alive"
    => termed[at[w].job]
=============================================================================
