--------------------------- MODULE NodeJobsProofs ---------------------------
(***************************************************************************)
(* Theorems about NodeJobs, for any numbers of jobs, workers and restarts. *)
(* Everything follows from one inductive invariant. Its heart is that a    *)
(* job has one place at a time, the queue, one worker or neither (Placed), *)
(* and that a worker's place in its program tells how far the job's        *)
(* process and its published state have come (WorkerOK).                   *)
(***************************************************************************)
EXTENDS NodeJobs, TLAPS

\* A job is queued once, and nobody holds what is queued or held by another.
Placed ==
  /\ \A i, k \in DOMAIN job_q : job_q[i] = job_q[k] => i = k
  /\ \A i \in DOMAIN job_q : state[job_q[i]] = "queued"
  /\ \A w \in Workers, i \in DOMAIN job_q : at[w].job # job_q[i]
  /\ \A v, w \in Workers : at[v].pc # "idle" /\ at[v].job = at[w].job => v = w
  /\ \A j \in Jobs : state[j] = "running" => \E w \in Workers : at[w].job = j

\* What the place of a worker tells about the job it holds.
WorkerOK(pc, end, s, p) ==
  /\ pc # "idle" => s \in Terminal \cup {"running"}
  /\ pc \in {"claimed", "spawned", "waiting", "collecting"} => s = "running"
  /\ pc \in {"settled", "judging", "reporting"} => s \in Terminal
  /\ pc = "claimed" => p = "none"
  /\ pc \in {"spawned", "waiting"} => p \in Exits \cup {"alive"}
  /\ pc = "collecting" => p \in Exits /\ end \in {"done", "timeout"}
  /\ pc \in {"settled", "judging", "failing", "reporting"} => p # "alive"

WorkersOK ==
  \A w \in Workers :
    at[w].pc # "idle" => WorkerOK(at[w].pc, at[w].end, state[at[w].job], proc[at[w].job])

\* What is known of a job whoever holds it.
JobOK(s, c, p, sum, cl) ==
  /\ s \in {"unknown", "queued"} => p = "none"
  /\ p = "alive" => s \in {"running", "lost"}
  /\ s = "cancelled" => c /\ p \in {"none", "killed"}
  /\ sum = "pass" => p = "exit0"
  /\ cl = "ok" => p = "exit0"

JobsOK ==
  \A j \in Jobs : JobOK(state[j], cancel[j], proc[j], summary[j], client[j])

\* An announced job has left the queue and its worker.
AnnouncedOK ==
  \A j \in Jobs : announced[j] # "none" =>
    /\ state[j] \in {announced[j], "lost"}
    /\ \A w \in Workers : at[w].job # j

IInv == TypeOK /\ Placed /\ WorkersOK /\ JobsOK /\ AnnouncedOK

-----------------------------------------------------------------------------

LEMMA InitInv == Init => IInv
<1> SUFFICES ASSUME Init PROVE IInv
  OBVIOUS
<1>1. TypeOK
  BY NodeAssumption DEF Init, TypeOK, Idle, Terminal, Exits, Steps
<1>2. Placed
  BY DEF Init, Placed, Idle
<1>3. WorkersOK /\ JobsOK /\ AnnouncedOK
  BY DEF Init, WorkersOK, JobsOK, AnnouncedOK, WorkerOK, JobOK, Idle
<1> QED
  BY <1>1, <1>2, <1>3 DEF IInv

\* The records a worker can be in.
LEMMA AtType ==
  ASSUME TypeOK, NEW w \in Workers
  PROVE  /\ at[w] \in [pc : Steps, job : Jobs, end : {"none", "done", "timeout"}] \cup {Idle}
         /\ at[w].pc # "idle" => at[w].job \in Jobs /\ at[w] # Idle
         /\ at[w].pc = "idle" => at[w] = Idle
         /\ at[w] = Idle => at[w].job = NoJob /\ at[w].pc = "idle"
BY NodeAssumption DEF TypeOK, Idle, Steps

\* A worker that goes on with its job, or lets it go, disturbs no other job.
LEMMA HolderStep ==
  ASSUME IInv, TypeOK', NEW w \in Workers, NEW j \in Jobs,
         at[w].pc # "idle", j = at[w].job,
         job_q' = job_q,
         \A v \in Workers \ {w} : at'[v] = at[v],
         at'[w].pc # "idle" => at'[w].job = j,
         \A k \in Jobs \ {j} :
           /\ state'[k] = state[k] /\ cancel'[k] = cancel[k] /\ proc'[k] = proc[k]
           /\ summary'[k] = summary[k] /\ client'[k] = client[k]
           /\ announced'[k] = announced[k],
         state'[j] \in Terminal \cup {"running"},
         state'[j] = "running" => at'[w].pc # "idle",
         at'[w].pc # "idle" => WorkerOK(at'[w].pc, at'[w].end, state'[j], proc'[j]),
         JobOK(state'[j], cancel'[j], proc'[j], summary'[j], client'[j]),
         announced'[j] # "none" => at'[w].pc = "idle" /\ state'[j] = announced'[j]
  PROVE  IInv'
<1> USE DEF IInv
<1>t. (TypeOK)'
  OBVIOUS
<1>a. \A v \in Workers : /\ at[v].pc # "idle" => at[v].job \in Jobs /\ at[v] # Idle
                         /\ at[v].pc = "idle" => at[v].job = NoJob
  BY AtType
<1>b. \A v \in Workers : /\ at'[v].pc # "idle" => at'[v].job \in Jobs
                         /\ at'[v].pc = "idle" => at'[v].job = NoJob
  BY <1>t, NodeAssumption DEF TypeOK, Idle, Steps
<1>c. /\ NoJob \notin Jobs
      /\ \A i \in DOMAIN job_q : job_q[i] \in Jobs
  BY NodeAssumption DEF TypeOK
<1>d. \A v \in Workers \ {w} : at[v].job # j
  BY DEF Placed
<1>1. Placed'
  <2>1. \A i \in DOMAIN job_q : job_q[i] # j
    BY DEF Placed
  <2>2. \A i \in DOMAIN job_q : state'[job_q[i]] = "queued"
    BY <2>1, <1>c DEF Placed
  <2>3. \A v \in Workers, i \in DOMAIN job_q : at'[v].job # job_q[i]
    BY <2>1, <1>b, <1>c DEF Placed
  <2>4. ASSUME NEW u \in Workers, NEW v \in Workers,
               at'[u].pc # "idle", at'[u].job = at'[v].job
        PROVE  u = v
    BY <2>4, <1>a, <1>b, <1>c, <1>d DEF Placed
  <2>5. ASSUME NEW k \in Jobs, state'[k] = "running"
        PROVE  \E v \in Workers : at'[v].job = k
    <3>1. CASE k = j
      BY <3>1, <2>5
    <3>2. CASE k # j
      <4>1. PICK v \in Workers : at[v].job = k
        BY <3>2, <2>5 DEF Placed
      <4> QED
        BY <4>1, <3>2
    <3> QED
      BY <3>1, <3>2
  <2> QED
    BY <2>2, <2>3, <2>4, <2>5 DEF Placed
<1>2. WorkersOK'
  <2> SUFFICES ASSUME NEW v \in Workers, at'[v].pc # "idle"
               PROVE  WorkerOK(at'[v].pc, at'[v].end, state'[at'[v].job], proc'[at'[v].job])
    BY DEF WorkersOK
  <2>1. CASE v = w
    BY <2>1
  <2>2. CASE v # w
    <3>1. at'[v] = at[v] /\ at[v].job \in Jobs /\ at[v].job # j
      BY <2>2, <1>a, <1>d
    <3>2. WorkerOK(at[v].pc, at[v].end, state[at[v].job], proc[at[v].job])
      BY <3>1 DEF WorkersOK
    <3> QED
      BY <3>1, <3>2
  <2> QED
    BY <2>1, <2>2
<1>3. JobsOK'
  <2> SUFFICES ASSUME NEW k \in Jobs
               PROVE  JobOK(state'[k], cancel'[k], proc'[k], summary'[k], client'[k])
    BY DEF JobsOK
  <2>1. CASE k = j
    BY <2>1
  <2>2. CASE k # j
    BY <2>2 DEF JobsOK
  <2> QED
    BY <2>1, <2>2
<1>4. AnnouncedOK'
  <2> SUFFICES ASSUME NEW k \in Jobs, announced'[k] # "none"
               PROVE  /\ state'[k] \in {announced'[k], "lost"}
                      /\ \A v \in Workers : at'[v].job # k
    BY DEF AnnouncedOK
  <2>1. CASE k = j
    BY <2>1, <1>b, <1>c, <1>d
  <2>2. CASE k # j
    <3>1. state[k] \in {announced[k], "lost"} /\ \A v \in Workers : at[v].job # k
      BY <2>2 DEF AnnouncedOK
    <3> QED
      BY <3>1, <2>2, <1>b, <1>c
  <2> QED
    BY <2>1, <2>2
<1> QED
  BY <1>1, <1>2, <1>3, <1>4

-----------------------------------------------------------------------------
(* Every step of the system keeps the invariant. *)

Places == [pc : Steps, job : Jobs, end : {"none", "done", "timeout"}] \cup {Idle}

\* Moving a worker that holds a job keeps the type of at.
LEMMA PlacesKept ==
  ASSUME TypeOK, NEW w \in Workers, NEW r \in Places, at' = [at EXCEPT ![w] = r]
  PROVE  at' \in [Workers -> Places]
BY DEF TypeOK, Places

LEMMA GotoKept ==
  ASSUME TypeOK, NEW w \in Workers, at[w].pc # "idle", NEW p \in Steps, Goto(w, p)
  PROVE  at' \in [Workers -> Places]
<1>1. at[w] \in [pc : Steps, job : Jobs, end : {"none", "done", "timeout"}]
  BY AtType DEF TypeOK
<1>2. [at[w] EXCEPT !.pc = p] \in Places
  BY <1>1 DEF Places
<1>3. at' = [at EXCEPT ![w] = [at[w] EXCEPT !.pc = p]]
  BY DEF Goto
<1> QED
  BY <1>2, <1>3, PlacesKept

\* What the invariant tells of a worker at work and of its job.
LEMMA Holder ==
  ASSUME IInv, NEW w \in Workers, at[w].pc # "idle"
  PROVE  /\ at[w].job \in Jobs
         /\ at[w] \in [pc : Steps, job : Jobs, end : {"none", "done", "timeout"}]
         /\ WorkerOK(at[w].pc, at[w].end, state[at[w].job], proc[at[w].job])
         /\ JobOK(state[at[w].job], cancel[at[w].job], proc[at[w].job],
                  summary[at[w].job], client[at[w].job])
         /\ announced[at[w].job] = "none"
BY AtType DEF IInv, WorkersOK, JobsOK, AnnouncedOK

LEMMA SpawnInv == ASSUME IInv, NEW w \in Workers, Spawn(w) PROVE IInv'
<1> DEFINE j == at[w].job
<1>1. at[w].pc # "idle"
  BY DEF Spawn, At
<1>2. j \in Jobs /\ TypeOK
  BY <1>1, Holder DEF IInv
<1>3. TypeOK'
  <2>1. at' \in [Workers -> Places]
    BY <1>1, <1>2, GotoKept DEF Spawn, Steps
  <2> QED
    BY <1>1, <1>2, <2>1, Holder DEF Spawn, At, Goto, registry, process, outside, TypeOK, Terminal, Exits, Places, WorkerOK
<1>4. /\ WorkerOK(at[w].pc, at[w].end, state[j], proc[j])
      /\ JobOK(state[j], cancel[j], proc[j], summary[j], client[j])
      /\ announced[j] = "none"
  BY <1>1, Holder
<1>5. /\ job_q' = job_q
      /\ \A v \in Workers \ {w} : at'[v] = at[v]
      /\ at'[w].pc # "idle" => at'[w].job = j
  BY <1>1, <1>2, AtType DEF Spawn, At, Goto, registry, process, outside, TypeOK, Idle
<1>6. \A k \in Jobs \ {j} :
        /\ state'[k] = state[k] /\ cancel'[k] = cancel[k] /\ proc'[k] = proc[k]
        /\ summary'[k] = summary[k] /\ client'[k] = client[k]
        /\ announced'[k] = announced[k]
  BY <1>2 DEF Spawn, At, Goto, registry, process, outside, TypeOK
<1>7. /\ state'[j] \in Terminal \cup {"running"}
      /\ state'[j] = "running" => at'[w].pc # "idle"
      /\ at'[w].pc # "idle" => WorkerOK(at'[w].pc, at'[w].end, state'[j], proc'[j])
  BY <1>1, <1>2, <1>4, Holder DEF Spawn, At, Goto, registry, process, outside, TypeOK, WorkerOK, JobOK, Terminal, Exits, Steps, Idle
<1>8. /\ JobOK(state'[j], cancel'[j], proc'[j], summary'[j], client'[j])
      /\ announced'[j] # "none" => at'[w].pc = "idle" /\ state'[j] = announced'[j]
  BY <1>1, <1>2, <1>4 DEF Spawn, At, Goto, registry, process, outside, TypeOK, WorkerOK, JobOK, Terminal, Exits, Idle, VerdictOk
<1> QED
  BY <1>1, <1>2, <1>3, <1>5, <1>6, <1>7, <1>8, HolderStep

LEMMA ExecFailsInv == ASSUME IInv, NEW w \in Workers, ExecFails(w) PROVE IInv'
<1> DEFINE j == at[w].job
<1>1. at[w].pc # "idle"
  BY DEF ExecFails, At
<1>2. j \in Jobs /\ TypeOK
  BY <1>1, Holder DEF IInv
<1>3. TypeOK'
  <2>1. at' \in [Workers -> Places]
    BY <1>1, <1>2, GotoKept DEF ExecFails, Steps
  <2> QED
    BY <1>1, <1>2, <2>1, Holder DEF ExecFails, At, Goto, registry, process, outside, TypeOK, Terminal, Exits, Places, WorkerOK
<1>4. /\ WorkerOK(at[w].pc, at[w].end, state[j], proc[j])
      /\ JobOK(state[j], cancel[j], proc[j], summary[j], client[j])
      /\ announced[j] = "none"
  BY <1>1, Holder
<1>5. /\ job_q' = job_q
      /\ \A v \in Workers \ {w} : at'[v] = at[v]
      /\ at'[w].pc # "idle" => at'[w].job = j
  BY <1>1, <1>2, AtType DEF ExecFails, At, Goto, registry, process, outside, TypeOK, Idle
<1>6. \A k \in Jobs \ {j} :
        /\ state'[k] = state[k] /\ cancel'[k] = cancel[k] /\ proc'[k] = proc[k]
        /\ summary'[k] = summary[k] /\ client'[k] = client[k]
        /\ announced'[k] = announced[k]
  BY <1>2 DEF ExecFails, At, Goto, registry, process, outside, TypeOK
<1>7. /\ state'[j] \in Terminal \cup {"running"}
      /\ state'[j] = "running" => at'[w].pc # "idle"
      /\ at'[w].pc # "idle" => WorkerOK(at'[w].pc, at'[w].end, state'[j], proc'[j])
  BY <1>1, <1>2, <1>4, Holder DEF ExecFails, At, Goto, registry, process, outside, TypeOK, WorkerOK, JobOK, Terminal, Exits, Steps, Idle
<1>8. /\ JobOK(state'[j], cancel'[j], proc'[j], summary'[j], client'[j])
      /\ announced'[j] # "none" => at'[w].pc = "idle" /\ state'[j] = announced'[j]
  BY <1>1, <1>2, <1>4 DEF ExecFails, At, Goto, registry, process, outside, TypeOK, WorkerOK, JobOK, Terminal, Exits, Idle, VerdictOk
<1> QED
  BY <1>1, <1>2, <1>3, <1>5, <1>6, <1>7, <1>8, HolderStep

LEMMA RecordInv == ASSUME IInv, NEW w \in Workers, Record(w) PROVE IInv'
<1> DEFINE j == at[w].job
<1>1. at[w].pc # "idle"
  BY DEF Record, At
<1>2. j \in Jobs /\ TypeOK
  BY <1>1, Holder DEF IInv
<1>3. TypeOK'
  <2>1. at' \in [Workers -> Places]
    BY <1>1, <1>2, GotoKept DEF Record, Steps
  <2> QED
    BY <1>1, <1>2, <2>1, Holder DEF Record, At, Goto, registry, process, outside, TypeOK, Terminal, Exits, Places, WorkerOK
<1>4. /\ WorkerOK(at[w].pc, at[w].end, state[j], proc[j])
      /\ JobOK(state[j], cancel[j], proc[j], summary[j], client[j])
      /\ announced[j] = "none"
  BY <1>1, Holder
<1>5. /\ job_q' = job_q
      /\ \A v \in Workers \ {w} : at'[v] = at[v]
      /\ at'[w].pc # "idle" => at'[w].job = j
  BY <1>1, <1>2, AtType DEF Record, At, Goto, registry, process, outside, TypeOK, Idle
<1>6. \A k \in Jobs \ {j} :
        /\ state'[k] = state[k] /\ cancel'[k] = cancel[k] /\ proc'[k] = proc[k]
        /\ summary'[k] = summary[k] /\ client'[k] = client[k]
        /\ announced'[k] = announced[k]
  BY <1>2 DEF Record, At, Goto, registry, process, outside, TypeOK
<1>7. /\ state'[j] \in Terminal \cup {"running"}
      /\ state'[j] = "running" => at'[w].pc # "idle"
      /\ at'[w].pc # "idle" => WorkerOK(at'[w].pc, at'[w].end, state'[j], proc'[j])
  BY <1>1, <1>2, <1>4, Holder DEF Record, At, Goto, registry, process, outside, TypeOK, WorkerOK, JobOK, Terminal, Exits, Steps, Idle
<1>8. /\ JobOK(state'[j], cancel'[j], proc'[j], summary'[j], client'[j])
      /\ announced'[j] # "none" => at'[w].pc = "idle" /\ state'[j] = announced'[j]
  BY <1>1, <1>2, <1>4 DEF Record, At, Goto, registry, process, outside, TypeOK, WorkerOK, JobOK, Terminal, Exits, Idle, VerdictOk
<1> QED
  BY <1>1, <1>2, <1>3, <1>5, <1>6, <1>7, <1>8, HolderStep

LEMMA WaitReturnsInv == ASSUME IInv, NEW w \in Workers, WaitReturns(w) PROVE IInv'
<1> DEFINE j == at[w].job
<1>1. at[w].pc # "idle"
  BY DEF WaitReturns, At
<1>2. j \in Jobs /\ TypeOK
  BY <1>1, Holder DEF IInv
<1>3. TypeOK'
  <2>1. at' \in [Workers -> Places]
    <3>1. [at[w] EXCEPT !.pc = "collecting", !.end = "done"] \in Places
      BY <1>1, Holder DEF Places, Steps
    <3> QED
      BY <1>2, <3>1, PlacesKept, ZenonT(60) DEF WaitReturns
  <2> QED
    BY <1>1, <1>2, <2>1, Holder DEF WaitReturns, At, Goto, registry, process, outside, TypeOK, Terminal, Exits, Places, WorkerOK
<1>4. /\ WorkerOK(at[w].pc, at[w].end, state[j], proc[j])
      /\ JobOK(state[j], cancel[j], proc[j], summary[j], client[j])
      /\ announced[j] = "none"
  BY <1>1, Holder
<1>5. /\ job_q' = job_q
      /\ \A v \in Workers \ {w} : at'[v] = at[v]
      /\ at'[w].pc # "idle" => at'[w].job = j
  BY <1>1, <1>2, AtType DEF WaitReturns, At, Goto, registry, process, outside, TypeOK, Idle
<1>6. \A k \in Jobs \ {j} :
        /\ state'[k] = state[k] /\ cancel'[k] = cancel[k] /\ proc'[k] = proc[k]
        /\ summary'[k] = summary[k] /\ client'[k] = client[k]
        /\ announced'[k] = announced[k]
  BY <1>2 DEF WaitReturns, At, Goto, registry, process, outside, TypeOK
<1>7. /\ state'[j] \in Terminal \cup {"running"}
      /\ state'[j] = "running" => at'[w].pc # "idle"
      /\ at'[w].pc # "idle" => WorkerOK(at'[w].pc, at'[w].end, state'[j], proc'[j])
  BY <1>1, <1>2, <1>4, Holder DEF WaitReturns, At, Goto, registry, process, outside, TypeOK, WorkerOK, JobOK, Terminal, Exits, Steps, Idle
<1>8. /\ JobOK(state'[j], cancel'[j], proc'[j], summary'[j], client'[j])
      /\ announced'[j] # "none" => at'[w].pc = "idle" /\ state'[j] = announced'[j]
  BY <1>1, <1>2, <1>4 DEF WaitReturns, At, Goto, registry, process, outside, TypeOK, WorkerOK, JobOK, Terminal, Exits, Idle, VerdictOk
<1> QED
  BY <1>1, <1>2, <1>3, <1>5, <1>6, <1>7, <1>8, HolderStep

LEMMA WaitTimesOutInv == ASSUME IInv, NEW w \in Workers, WaitTimesOut(w) PROVE IInv'
<1> DEFINE j == at[w].job
<1>1. at[w].pc # "idle"
  BY DEF WaitTimesOut, At
<1>2. j \in Jobs /\ TypeOK
  BY <1>1, Holder DEF IInv
<1>3. TypeOK'
  <2>1. at' \in [Workers -> Places]
    <3>1. [at[w] EXCEPT !.pc = "collecting", !.end = "timeout"] \in Places
      BY <1>1, Holder DEF Places, Steps
    <3> QED
      BY <1>2, <3>1, PlacesKept, ZenonT(60) DEF WaitTimesOut
  <2> QED
    BY <1>1, <1>2, <2>1, Holder DEF WaitTimesOut, At, Goto, registry, process, outside, TypeOK, Terminal, Exits, Places, WorkerOK
<1>4. /\ WorkerOK(at[w].pc, at[w].end, state[j], proc[j])
      /\ JobOK(state[j], cancel[j], proc[j], summary[j], client[j])
      /\ announced[j] = "none"
  BY <1>1, Holder
<1>5. /\ job_q' = job_q
      /\ \A v \in Workers \ {w} : at'[v] = at[v]
      /\ at'[w].pc # "idle" => at'[w].job = j
  BY <1>1, <1>2, AtType DEF WaitTimesOut, At, Goto, registry, process, outside, TypeOK, Idle
<1>6. \A k \in Jobs \ {j} :
        /\ state'[k] = state[k] /\ cancel'[k] = cancel[k] /\ proc'[k] = proc[k]
        /\ summary'[k] = summary[k] /\ client'[k] = client[k]
        /\ announced'[k] = announced[k]
  BY <1>2 DEF WaitTimesOut, At, Goto, registry, process, outside, TypeOK
<1>7. /\ state'[j] \in Terminal \cup {"running"}
      /\ state'[j] = "running" => at'[w].pc # "idle"
      /\ at'[w].pc # "idle" => WorkerOK(at'[w].pc, at'[w].end, state'[j], proc'[j])
  BY <1>1, <1>2, <1>4, Holder DEF WaitTimesOut, At, Goto, registry, process, outside, TypeOK, WorkerOK, JobOK, Terminal, Exits, Steps, Idle
<1>8. /\ JobOK(state'[j], cancel'[j], proc'[j], summary'[j], client'[j])
      /\ announced'[j] # "none" => at'[w].pc = "idle" /\ state'[j] = announced'[j]
  BY <1>1, <1>2, <1>4 DEF WaitTimesOut, At, Goto, registry, process, outside, TypeOK, WorkerOK, JobOK, Terminal, Exits, Idle, VerdictOk
<1> QED
  BY <1>1, <1>2, <1>3, <1>5, <1>6, <1>7, <1>8, HolderStep

LEMMA SettleInv == ASSUME IInv, NEW w \in Workers, Settle(w) PROVE IInv'
<1> DEFINE j == at[w].job
<1>1. at[w].pc # "idle"
  BY DEF Settle, At
<1>2. j \in Jobs /\ TypeOK
  BY <1>1, Holder DEF IInv
<1>3. TypeOK'
  <2>1. at' \in [Workers -> Places]
    BY <1>1, <1>2, GotoKept DEF Settle, Steps
  <2> QED
    BY <1>1, <1>2, <2>1, Holder DEF Settle, EndState, At, Goto, registry, process, outside, TypeOK, Terminal, Exits, Places, WorkerOK
<1>4. /\ WorkerOK(at[w].pc, at[w].end, state[j], proc[j])
      /\ JobOK(state[j], cancel[j], proc[j], summary[j], client[j])
      /\ announced[j] = "none"
  BY <1>1, Holder
<1>5. /\ job_q' = job_q
      /\ \A v \in Workers \ {w} : at'[v] = at[v]
      /\ at'[w].pc # "idle" => at'[w].job = j
  BY <1>1, <1>2, AtType DEF Settle, EndState, At, Goto, registry, process, outside, TypeOK, Idle
<1>6. \A k \in Jobs \ {j} :
        /\ state'[k] = state[k] /\ cancel'[k] = cancel[k] /\ proc'[k] = proc[k]
        /\ summary'[k] = summary[k] /\ client'[k] = client[k]
        /\ announced'[k] = announced[k]
  BY <1>2 DEF Settle, EndState, At, Goto, registry, process, outside, TypeOK
<1>7. /\ state'[j] \in Terminal \cup {"running"}
      /\ state'[j] = "running" => at'[w].pc # "idle"
      /\ at'[w].pc # "idle" => WorkerOK(at'[w].pc, at'[w].end, state'[j], proc'[j])
  BY <1>1, <1>2, <1>4, Holder DEF Settle, EndState, At, Goto, registry, process, outside, TypeOK, WorkerOK, JobOK, Terminal, Exits, Steps, Idle
<1>8. /\ JobOK(state'[j], cancel'[j], proc'[j], summary'[j], client'[j])
      /\ announced'[j] # "none" => at'[w].pc = "idle" /\ state'[j] = announced'[j]
  BY <1>1, <1>2, <1>4 DEF Settle, EndState, At, Goto, registry, process, outside, TypeOK, WorkerOK, JobOK, Terminal, Exits, Idle, VerdictOk
<1> QED
  BY <1>1, <1>2, <1>3, <1>5, <1>6, <1>7, <1>8, HolderStep

LEMMA WriteStatusInv == ASSUME IInv, NEW w \in Workers, WriteStatus(w) PROVE IInv'
<1> DEFINE j == at[w].job
<1>1. at[w].pc # "idle"
  BY DEF WriteStatus, At
<1>2. j \in Jobs /\ TypeOK
  BY <1>1, Holder DEF IInv
<1>3. TypeOK'
  <2>1. at' \in [Workers -> Places]
    BY <1>1, <1>2, GotoKept DEF WriteStatus, Steps
  <2> QED
    BY <1>1, <1>2, <2>1, Holder DEF WriteStatus, At, Goto, registry, process, outside, TypeOK, Terminal, Exits, Places, WorkerOK
<1>4. /\ WorkerOK(at[w].pc, at[w].end, state[j], proc[j])
      /\ JobOK(state[j], cancel[j], proc[j], summary[j], client[j])
      /\ announced[j] = "none"
  BY <1>1, Holder
<1>5. /\ job_q' = job_q
      /\ \A v \in Workers \ {w} : at'[v] = at[v]
      /\ at'[w].pc # "idle" => at'[w].job = j
  BY <1>1, <1>2, AtType DEF WriteStatus, At, Goto, registry, process, outside, TypeOK, Idle
<1>6. \A k \in Jobs \ {j} :
        /\ state'[k] = state[k] /\ cancel'[k] = cancel[k] /\ proc'[k] = proc[k]
        /\ summary'[k] = summary[k] /\ client'[k] = client[k]
        /\ announced'[k] = announced[k]
  BY <1>2 DEF WriteStatus, At, Goto, registry, process, outside, TypeOK
<1>7. /\ state'[j] \in Terminal \cup {"running"}
      /\ state'[j] = "running" => at'[w].pc # "idle"
      /\ at'[w].pc # "idle" => WorkerOK(at'[w].pc, at'[w].end, state'[j], proc'[j])
  BY <1>1, <1>2, <1>4, Holder DEF WriteStatus, At, Goto, registry, process, outside, TypeOK, WorkerOK, JobOK, Terminal, Exits, Steps, Idle
<1>8. /\ JobOK(state'[j], cancel'[j], proc'[j], summary'[j], client'[j])
      /\ announced'[j] # "none" => at'[w].pc = "idle" /\ state'[j] = announced'[j]
  BY <1>1, <1>2, <1>4 DEF WriteStatus, At, Goto, registry, process, outside, TypeOK, WorkerOK, JobOK, Terminal, Exits, Idle, VerdictOk
<1> QED
  BY <1>1, <1>2, <1>3, <1>5, <1>6, <1>7, <1>8, HolderStep

LEMMA JudgeInv == ASSUME IInv, NEW w \in Workers, Judge(w) PROVE IInv'
<1> DEFINE j == at[w].job
<1>1. at[w].pc # "idle"
  BY DEF Judge, At
<1>2. j \in Jobs /\ TypeOK
  BY <1>1, Holder DEF IInv
<1>3. TypeOK'
  <2>1. at' \in [Workers -> Places]
    BY <1>1, <1>2, GotoKept DEF Judge, Steps
  <2> QED
    BY <1>1, <1>2, <2>1, Holder DEF Judge, At, Goto, registry, process, outside, TypeOK, Terminal, Exits, Places, WorkerOK
<1>4. /\ WorkerOK(at[w].pc, at[w].end, state[j], proc[j])
      /\ JobOK(state[j], cancel[j], proc[j], summary[j], client[j])
      /\ announced[j] = "none"
  BY <1>1, Holder
<1>5. /\ job_q' = job_q
      /\ \A v \in Workers \ {w} : at'[v] = at[v]
      /\ at'[w].pc # "idle" => at'[w].job = j
  BY <1>1, <1>2, AtType DEF Judge, At, Goto, registry, process, outside, TypeOK, Idle
<1>6. \A k \in Jobs \ {j} :
        /\ state'[k] = state[k] /\ cancel'[k] = cancel[k] /\ proc'[k] = proc[k]
        /\ summary'[k] = summary[k] /\ client'[k] = client[k]
        /\ announced'[k] = announced[k]
  BY <1>2 DEF Judge, At, Goto, registry, process, outside, TypeOK
<1>7. /\ state'[j] \in Terminal \cup {"running"}
      /\ state'[j] = "running" => at'[w].pc # "idle"
      /\ at'[w].pc # "idle" => WorkerOK(at'[w].pc, at'[w].end, state'[j], proc'[j])
  BY <1>1, <1>2, <1>4, Holder DEF Judge, At, Goto, registry, process, outside, TypeOK, WorkerOK, JobOK, Terminal, Exits, Steps, Idle
<1>8. /\ JobOK(state'[j], cancel'[j], proc'[j], summary'[j], client'[j])
      /\ announced'[j] # "none" => at'[w].pc = "idle" /\ state'[j] = announced'[j]
  BY <1>1, <1>2, <1>4 DEF Judge, At, Goto, registry, process, outside, TypeOK, WorkerOK, JobOK, Terminal, Exits, Idle, VerdictOk
<1> QED
  BY <1>1, <1>2, <1>3, <1>5, <1>6, <1>7, <1>8, HolderStep

LEMMA RaiseInv == ASSUME IInv, NEW w \in Workers, Raise(w) PROVE IInv'
<1> DEFINE j == at[w].job
<1>1. at[w].pc # "idle"
  BY DEF Raise, At
<1>2. j \in Jobs /\ TypeOK
  BY <1>1, Holder DEF IInv
<1>3. TypeOK'
  <2>1. at' \in [Workers -> Places]
    BY <1>1, <1>2, GotoKept DEF Raise, Steps
  <2> QED
    BY <1>1, <1>2, <2>1, Holder DEF Raise, At, Goto, registry, process, outside, TypeOK, Terminal, Exits, Places, WorkerOK
<1>4. /\ WorkerOK(at[w].pc, at[w].end, state[j], proc[j])
      /\ JobOK(state[j], cancel[j], proc[j], summary[j], client[j])
      /\ announced[j] = "none"
  BY <1>1, Holder
<1>5. /\ job_q' = job_q
      /\ \A v \in Workers \ {w} : at'[v] = at[v]
      /\ at'[w].pc # "idle" => at'[w].job = j
  BY <1>1, <1>2, AtType DEF Raise, At, Goto, registry, process, outside, TypeOK, Idle
<1>6. \A k \in Jobs \ {j} :
        /\ state'[k] = state[k] /\ cancel'[k] = cancel[k] /\ proc'[k] = proc[k]
        /\ summary'[k] = summary[k] /\ client'[k] = client[k]
        /\ announced'[k] = announced[k]
  BY <1>2 DEF Raise, At, Goto, registry, process, outside, TypeOK
<1>7. /\ state'[j] \in Terminal \cup {"running"}
      /\ state'[j] = "running" => at'[w].pc # "idle"
      /\ at'[w].pc # "idle" => WorkerOK(at'[w].pc, at'[w].end, state'[j], proc'[j])
  BY <1>1, <1>2, <1>4, Holder DEF Raise, At, Goto, registry, process, outside, TypeOK, WorkerOK, JobOK, Terminal, Exits, Steps, Idle
<1>8. /\ JobOK(state'[j], cancel'[j], proc'[j], summary'[j], client'[j])
      /\ announced'[j] # "none" => at'[w].pc = "idle" /\ state'[j] = announced'[j]
  BY <1>1, <1>2, <1>4 DEF Raise, At, Goto, registry, process, outside, TypeOK, WorkerOK, JobOK, Terminal, Exits, Idle, VerdictOk
<1> QED
  BY <1>1, <1>2, <1>3, <1>5, <1>6, <1>7, <1>8, HolderStep

LEMMA CatchInv == ASSUME IInv, NEW w \in Workers, Catch(w) PROVE IInv'
<1> DEFINE j == at[w].job
<1>1. at[w].pc # "idle"
  BY DEF Catch, At
<1>2. j \in Jobs /\ TypeOK
  BY <1>1, Holder DEF IInv
<1>3. TypeOK'
  <2>1. at' \in [Workers -> Places]
    BY <1>1, <1>2, GotoKept DEF Catch, Steps
  <2> QED
    BY <1>1, <1>2, <2>1, Holder DEF Catch, At, Goto, registry, process, outside, TypeOK, Terminal, Exits, Places, WorkerOK
<1>4. /\ WorkerOK(at[w].pc, at[w].end, state[j], proc[j])
      /\ JobOK(state[j], cancel[j], proc[j], summary[j], client[j])
      /\ announced[j] = "none"
  BY <1>1, Holder
<1>5. /\ job_q' = job_q
      /\ \A v \in Workers \ {w} : at'[v] = at[v]
      /\ at'[w].pc # "idle" => at'[w].job = j
  BY <1>1, <1>2, AtType DEF Catch, At, Goto, registry, process, outside, TypeOK, Idle
<1>6. \A k \in Jobs \ {j} :
        /\ state'[k] = state[k] /\ cancel'[k] = cancel[k] /\ proc'[k] = proc[k]
        /\ summary'[k] = summary[k] /\ client'[k] = client[k]
        /\ announced'[k] = announced[k]
  BY <1>2 DEF Catch, At, Goto, registry, process, outside, TypeOK
<1>7. /\ state'[j] \in Terminal \cup {"running"}
      /\ state'[j] = "running" => at'[w].pc # "idle"
      /\ at'[w].pc # "idle" => WorkerOK(at'[w].pc, at'[w].end, state'[j], proc'[j])
  BY <1>1, <1>2, <1>4, Holder DEF Catch, At, Goto, registry, process, outside, TypeOK, WorkerOK, JobOK, Terminal, Exits, Steps, Idle
<1>8. /\ JobOK(state'[j], cancel'[j], proc'[j], summary'[j], client'[j])
      /\ announced'[j] # "none" => at'[w].pc = "idle" /\ state'[j] = announced'[j]
  BY <1>1, <1>2, <1>4 DEF Catch, At, Goto, registry, process, outside, TypeOK, WorkerOK, JobOK, Terminal, Exits, Idle, VerdictOk
<1> QED
  BY <1>1, <1>2, <1>3, <1>5, <1>6, <1>7, <1>8, HolderStep

LEMMA ReportInv == ASSUME IInv, NEW w \in Workers, Report(w) PROVE IInv'
<1> DEFINE j == at[w].job
<1>1. at[w].pc # "idle"
  BY DEF Report, At
<1>2. j \in Jobs /\ TypeOK
  BY <1>1, Holder DEF IInv
<1>3. TypeOK'
  <2>1. at' \in [Workers -> Places]
    BY <1>2, PlacesKept DEF Report, Places
  <2> QED
    BY <1>1, <1>2, <2>1, Holder DEF Report, At, Goto, registry, process, outside, TypeOK, Terminal, Exits, Places, WorkerOK
<1>4. /\ WorkerOK(at[w].pc, at[w].end, state[j], proc[j])
      /\ JobOK(state[j], cancel[j], proc[j], summary[j], client[j])
      /\ announced[j] = "none"
  BY <1>1, Holder
<1>5. /\ job_q' = job_q
      /\ \A v \in Workers \ {w} : at'[v] = at[v]
      /\ at'[w].pc # "idle" => at'[w].job = j
  BY <1>1, <1>2, AtType DEF Report, At, Goto, registry, process, outside, TypeOK, Idle
<1>6. \A k \in Jobs \ {j} :
        /\ state'[k] = state[k] /\ cancel'[k] = cancel[k] /\ proc'[k] = proc[k]
        /\ summary'[k] = summary[k] /\ client'[k] = client[k]
        /\ announced'[k] = announced[k]
  BY <1>2 DEF Report, At, Goto, registry, process, outside, TypeOK
<1>7. /\ state'[j] \in Terminal \cup {"running"}
      /\ state'[j] = "running" => at'[w].pc # "idle"
      /\ at'[w].pc # "idle" => WorkerOK(at'[w].pc, at'[w].end, state'[j], proc'[j])
  BY <1>1, <1>2, <1>4, Holder DEF Report, At, Goto, registry, process, outside, TypeOK, WorkerOK, JobOK, Terminal, Exits, Steps, Idle
<1>8. /\ JobOK(state'[j], cancel'[j], proc'[j], summary'[j], client'[j])
      /\ announced'[j] # "none" => at'[w].pc = "idle" /\ state'[j] = announced'[j]
  BY <1>1, <1>2, <1>4 DEF Report, At, Goto, registry, process, outside, TypeOK, WorkerOK, JobOK, Terminal, Exits, Idle, VerdictOk
<1> QED
  BY <1>1, <1>2, <1>3, <1>5, <1>6, <1>7, <1>8, HolderStep

\* A step that leaves queue, workers and announcements alone, and of the states
\* changes at most the process, the request or the client of a job.
LEMMA JobStep ==
  ASSUME IInv, TypeOK', UNCHANGED <<job_q, state, at, announced>>,
         \A k \in Jobs :
           /\ proc'[k] = proc[k] \/ (proc[k] = "alive" /\ proc'[k] \in Exits)
           /\ JobOK(state[k], cancel'[k], proc'[k], summary'[k], client'[k])
  PROVE  IInv'
<1>1. Placed' /\ AnnouncedOK'
  BY DEF IInv, Placed, AnnouncedOK
<1>2. JobsOK'
  BY DEF JobsOK
<1>3. WorkersOK'
  <2> SUFFICES ASSUME NEW w \in Workers, at[w].pc # "idle"
               PROVE  WorkerOK(at[w].pc, at[w].end, state[at[w].job], proc'[at[w].job])
    BY DEF WorkersOK
  <2>1. at[w].job \in Jobs /\ WorkerOK(at[w].pc, at[w].end, state[at[w].job], proc[at[w].job])
    BY Holder
  <2> QED
    BY <2>1 DEF WorkerOK, Exits
<1> QED
  BY <1>1, <1>2, <1>3 DEF IInv

LEMMA CancelInv == ASSUME IInv, NEW j \in Jobs, Cancel(j) PROVE IInv'
<1>1. TypeOK'
  BY DEF IInv, TypeOK, Cancel, registry, process, outside
<1>2. \A k \in Jobs : JobOK(state[k], cancel[k], proc[k], summary[k], client[k])
  BY DEF IInv, JobsOK
<1>3. \A k \in Jobs : JobOK(state[k], cancel'[k], proc[k], summary[k], client[k])
  BY <1>2 DEF IInv, TypeOK, Cancel, JobOK
<1> QED
  BY <1>1, <1>3, JobStep DEF Cancel, outside

LEMMA ProcExitInv == ASSUME IInv, NEW j \in Jobs, ProcExit(j) PROVE IInv'
<1>1. TypeOK'
  BY DEF IInv, TypeOK, ProcExit, Exits, registry, process, outside
<1>2. \A k \in Jobs : JobOK(state[k], cancel[k], proc[k], summary[k], client[k])
  BY DEF IInv, JobsOK
<1>3. \A k \in Jobs : proc'[k] = proc[k] \/ (proc[k] = "alive" /\ proc'[k] \in Exits)
  BY DEF IInv, TypeOK, ProcExit
<1>4. \A k \in Jobs : JobOK(state[k], cancel[k], proc'[k], summary[k], client[k])
  BY <1>2, <1>3 DEF JobOK, Exits
<1> QED
  BY <1>1, <1>3, <1>4, JobStep DEF ProcExit, registry, outside

LEMMA PolledInv ==
  ASSUME IInv, NEW j \in Jobs, NEW ok \in BOOLEAN, ok => proc[j] = "exit0", Polled(j, ok)
  PROVE  IInv'
<1>1. TypeOK'
  BY DEF IInv, TypeOK, Polled, registry, process
<1>2. \A k \in Jobs : JobOK(state[k], cancel[k], proc[k], summary[k], client[k])
  BY DEF IInv, JobsOK
<1>3. \A k \in Jobs : JobOK(state[k], cancel[k], proc[k], summary[k], client'[k])
  BY <1>2 DEF IInv, TypeOK, Polled, JobOK
<1> QED
  BY <1>1, <1>3, JobStep DEF Polled, registry, process

\* Both kinds of client say ok on good grounds: a passed verdict or the exit code.
LEMMA VerdictsInv ==
  ASSUME IInv, NEW j \in Jobs, SingleVerdict(j) \/ FleetVerdict(j) PROVE IInv'
<1>1. summary[j] = "pass" => proc[j] = "exit0"
  BY DEF IInv, JobsOK, JobOK
<1>2. PICK ok \in BOOLEAN : Polled(j, ok) /\ (ok => summary[j] = "pass" \/ SawExit0(j))
  <2>1. CASE SingleVerdict(j)
    <3> DEFINE ok == IF j \in VerdictJobs THEN summary[j] = "pass" ELSE SawExit0(j)
    <3>1. ok \in BOOLEAN /\ (ok => summary[j] = "pass" \/ SawExit0(j))
      BY DEF SawExit0
    <3>2. Polled(j, ok)
      BY <2>1 DEF SingleVerdict
    <3> QED
      BY <3>1, <3>2
  <2>2. CASE FleetVerdict(j)
    <3> DEFINE ok == IF summary[j] # "none" THEN summary[j] = "pass" ELSE SawExit0(j)
    <3>1. ok \in BOOLEAN /\ (ok => summary[j] = "pass" \/ SawExit0(j))
      BY DEF SawExit0
    <3>2. Polled(j, ok)
      BY <2>2 DEF FleetVerdict
    <3> QED
      BY <3>1, <3>2
  <2> QED
    BY <2>1, <2>2
<1> QED
  BY <1>1, <1>2, PolledInv DEF SawExit0

LEMMA SubmitInv == ASSUME IInv, NEW j \in Jobs, Submit(j) PROVE IInv'
<1> USE DEF IInv
<1>1. TypeOK'
  BY DEF TypeOK, Submit, registry, process, outside
<1>2. /\ job_q \in Seq(Jobs) /\ job_q' = Append(job_q, j)
      /\ state' = [state EXCEPT ![j] = "queued"] /\ at' = at /\ state[j] = "unknown"
      /\ proc' = proc /\ cancel' = cancel /\ summary' = summary /\ client' = client
      /\ announced' = announced
  BY DEF TypeOK, Submit, registry, process, outside
<1>3. /\ DOMAIN job_q' = 1 .. (Len(job_q) + 1) /\ DOMAIN job_q = 1 .. Len(job_q)
      /\ \A i \in DOMAIN job_q : job_q'[i] = job_q[i]
      /\ job_q'[Len(job_q) + 1] = j /\ Len(job_q) \in Nat
  BY <1>2
<1>4. \A i \in DOMAIN job_q : job_q[i] # j
  BY <1>2 DEF Placed
<1>5. \A w \in Workers : at[w].job # j
  <2> SUFFICES ASSUME NEW w \in Workers, at[w].job = j PROVE FALSE
    OBVIOUS
  <2>1. at[w].pc # "idle"
    BY AtType, NodeAssumption
  <2> QED
    BY <2>1, <1>2, Holder DEF WorkerOK, Terminal
<1>6. \A i \in DOMAIN job_q' : i \in DOMAIN job_q \/ i = Len(job_q) + 1
  BY <1>3
<1>7. Placed'
  <2>1. \A i, k \in DOMAIN job_q' : job_q'[i] = job_q'[k] => i = k
    BY <1>3, <1>4, <1>6 DEF Placed
  <2>2. \A i \in DOMAIN job_q' : state'[job_q'[i]] = "queued"
    BY <1>2, <1>3, <1>4, <1>6 DEF Placed, TypeOK
  <2>3. \A w \in Workers, i \in DOMAIN job_q' : at'[w].job # job_q'[i]
    BY <1>2, <1>3, <1>5, <1>6 DEF Placed
  <2>4. \A k \in Jobs : state'[k] = "running" => \E w \in Workers : at'[w].job = k
    BY <1>2 DEF Placed, TypeOK
  <2> QED
    BY <2>1, <2>2, <2>3, <2>4, <1>2 DEF Placed
<1>8. WorkersOK'
  BY <1>2, <1>5, Holder DEF WorkersOK, TypeOK
<1>9. JobsOK'
  BY <1>2 DEF JobsOK, JobOK, TypeOK
<1>10. AnnouncedOK'
  BY <1>2, SMTT(30) DEF AnnouncedOK, TypeOK, Terminal
<1> QED
  BY <1>1, <1>7, <1>8, <1>9, <1>10

\* The head of the queue, and the queue without it.
LEMMA HeadOfQueue ==
  ASSUME IInv, job_q # <<>>
  PROVE  /\ Head(job_q) \in Jobs /\ state[Head(job_q)] = "queued"
         /\ \A w \in Workers : at[w].job # Head(job_q)
         /\ Tail(job_q) \in Seq(Jobs)
         /\ \A i \in DOMAIN Tail(job_q) :
              /\ i + 1 \in DOMAIN job_q /\ Tail(job_q)[i] = job_q[i + 1]
              /\ Tail(job_q)[i] # Head(job_q)
<1> USE DEF IInv
<1>1. job_q \in Seq(Jobs) /\ 1 \in DOMAIN job_q /\ Head(job_q) = job_q[1]
  BY DEF TypeOK
<1>2. Tail(job_q) \in Seq(Jobs)
  BY <1>1
<1>3. \A i \in DOMAIN Tail(job_q) : /\ i + 1 \in DOMAIN job_q /\ Tail(job_q)[i] = job_q[i + 1]
                                    /\ i + 1 # 1
  BY <1>1
<1> QED
  BY <1>1, <1>2, <1>3 DEF Placed

LEMMA TakeCancelledInv == ASSUME IInv, NEW w \in Workers, TakeCancelled(w) PROVE IInv'
<1> USE DEF IInv
<1> DEFINE j == Head(job_q)
<1>1. /\ j \in Jobs /\ state[j] = "queued" /\ cancel[j] /\ job_q' = Tail(job_q)
      /\ state' = [state EXCEPT ![j] = "cancelled"]
      /\ announced' = [announced EXCEPT ![j] = "cancelled"]
      /\ at' = at /\ proc' = proc /\ cancel' = cancel
      /\ summary' = summary /\ client' = client
  BY HeadOfQueue DEF TakeCancelled, process
<1>2. \A i \in DOMAIN job_q' : /\ i + 1 \in DOMAIN job_q /\ job_q'[i] = job_q[i + 1]
                               /\ job_q'[i] # j
  BY HeadOfQueue DEF TakeCancelled
<1>3. job_q' \in Seq(Jobs) /\ \A v \in Workers : at[v].job # j
  BY HeadOfQueue DEF TakeCancelled
<1>t. DOMAIN job_q' \subseteq Int
  BY <1>3
<1>4. TypeOK'
  BY <1>1, <1>3 DEF TypeOK, TakeCancelled, process, Terminal
<1>5. Placed'
  <2>1. \A i, k \in DOMAIN job_q' : job_q'[i] = job_q'[k] => i = k
    BY <1>2, <1>t DEF Placed
  <2>2. \A i \in DOMAIN job_q' : state'[job_q'[i]] = "queued"
    BY <1>1, <1>2 DEF Placed, TypeOK
  <2>3. \A v \in Workers, i \in DOMAIN job_q' : at'[v].job # job_q'[i]
    BY <1>1, <1>2 DEF Placed
  <2>4. \A k \in Jobs : state'[k] = "running" => \E v \in Workers : at'[v].job = k
    BY <1>1 DEF Placed, TypeOK
  <2> QED
    BY <2>1, <2>2, <2>3, <2>4, <1>1 DEF Placed
<1>6. WorkersOK'
  BY <1>1, <1>3, Holder DEF WorkersOK, TypeOK
<1>7. JobsOK'
  BY <1>1 DEF JobsOK, JobOK, TypeOK
<1>8. AnnouncedOK'
  BY <1>1, <1>3 DEF AnnouncedOK, TypeOK
<1> QED
  BY <1>4, <1>5, <1>6, <1>7, <1>8

LEMMA TakeInv == ASSUME IInv, NEW w \in Workers, Take(w) PROVE IInv'
<1> USE DEF IInv
<1> DEFINE j == Head(job_q)
<1> DEFINE r == [pc |-> "claimed", job |-> j, end |-> "none"]
<1>1. /\ j \in Jobs /\ state[j] = "queued" /\ job_q' = Tail(job_q)
      /\ state' = [state EXCEPT ![j] = "running"]
      /\ at' = [at EXCEPT ![w] = r] /\ proc' = proc /\ cancel' = cancel
      /\ summary' = summary /\ client' = client /\ announced' = announced
      /\ at[w].pc = "idle"
  BY HeadOfQueue DEF Take, At, process, outside
<1>2. \A i \in DOMAIN job_q' : /\ i + 1 \in DOMAIN job_q /\ job_q'[i] = job_q[i + 1]
                               /\ job_q'[i] # j
  BY HeadOfQueue DEF Take
<1>3. job_q' \in Seq(Jobs) /\ \A v \in Workers : at[v].job # j
  BY HeadOfQueue DEF Take
<1>t. DOMAIN job_q' \subseteq Int
  BY <1>3
<1>a. /\ at'[w] = r /\ \A v \in Workers \ {w} : at'[v] = at[v]
      /\ at[w].job = NoJob /\ NoJob \notin Jobs
  BY <1>1, AtType, NodeAssumption DEF TypeOK
<1>4. TypeOK'
  <2>1. r \in Places
    BY <1>1 DEF Places, Steps
  <2>2. at' \in [Workers -> Places]
    BY <1>1, <2>1, PlacesKept
  <2> QED
    BY <1>1, <1>3, <2>2 DEF TypeOK, Take, process, outside, Places
<1>5. Placed'
  <2>1. \A i, k \in DOMAIN job_q' : job_q'[i] = job_q'[k] => i = k
    BY <1>2, <1>t DEF Placed
  <2>2. \A i \in DOMAIN job_q' : state'[job_q'[i]] = "queued"
    BY <1>1, <1>2 DEF Placed, TypeOK
  <2>3. \A v \in Workers, i \in DOMAIN job_q' : at'[v].job # job_q'[i]
    BY <1>a, <1>2 DEF Placed
  <2>4. ASSUME NEW u \in Workers, NEW v \in Workers,
               at'[u].pc # "idle", at'[u].job = at'[v].job
        PROVE  u = v
    BY <2>4, <1>a, <1>3 DEF Placed
  <2>5. ASSUME NEW k \in Jobs, state'[k] = "running"
        PROVE  \E v \in Workers : at'[v].job = k
    <3>1. CASE k = j
      BY <3>1, <1>a
    <3>2. CASE k # j
      <4>1. PICK v \in Workers : at[v].job = k
        BY <3>2, <2>5, <1>1 DEF Placed, TypeOK
      <4> QED
        BY <4>1, <1>a
    <3> QED
      BY <3>1, <3>2
  <2> QED
    BY <2>1, <2>2, <2>3, <2>4, <2>5 DEF Placed
<1>6. WorkersOK'
  <2> SUFFICES ASSUME NEW v \in Workers, at'[v].pc # "idle"
               PROVE  WorkerOK(at'[v].pc, at'[v].end, state'[at'[v].job], proc'[at'[v].job])
    BY DEF WorkersOK
  <2>1. CASE v = w
    BY <2>1, <1>1, <1>a DEF WorkerOK, JobsOK, JobOK, TypeOK
  <2>2. CASE v # w
    BY <2>2, <1>1, <1>3, <1>a, Holder DEF TypeOK
  <2> QED
    BY <2>1, <2>2
<1>7. JobsOK'
  BY <1>1 DEF JobsOK, JobOK, TypeOK
<1>8. AnnouncedOK'
  <2> SUFFICES ASSUME NEW k \in Jobs, announced[k] # "none"
               PROVE  /\ state'[k] \in {announced[k], "lost"}
                      /\ \A v \in Workers : at'[v].job # k
    BY <1>1 DEF AnnouncedOK
  <2>1. /\ state[k] \in {announced[k], "lost"} /\ announced[k] \in Terminal
        /\ \A v \in Workers : at[v].job # k
    BY DEF AnnouncedOK, TypeOK
  <2>2. k # j
    BY <1>1, <2>1 DEF Terminal
  <2>3. \A v \in Workers : at'[v].job # k
    BY <1>a, <2>1, <2>2
  <2> QED
    BY <1>1, <2>1, <2>2, <2>3 DEF TypeOK
<1> QED
  BY <1>4, <1>5, <1>6, <1>7, <1>8

LEMMA RestartInv == ASSUME IInv, Restart PROVE IInv'
<1> USE DEF IInv
<1>1. /\ job_q' = <<>> /\ at' = [w \in Workers |-> Idle]
      /\ state' = [j \in Jobs |-> IF Registered(j) THEN "lost" ELSE state[j]]
      /\ cancel' = [j \in Jobs |-> FALSE] /\ summary' = [j \in Jobs |-> "none"]
      /\ proc' = proc /\ client' = client /\ announced' = announced
  BY DEF Restart, process
<1>2. TypeOK'
  BY NodeAssumption DEF TypeOK, Restart, Registered, process, Idle, Terminal
<1>3. \A j \in Jobs : state'[j] \in {"unknown", "lost"} /\ (state'[j] = "unknown" => state[j] = "unknown")
  BY <1>1 DEF Registered
<1>4. Placed'
  BY <1>1, <1>3 DEF Placed, Idle
<1>5. WorkersOK'
  BY <1>1 DEF WorkersOK, Idle
<1>6. JobsOK'
  BY <1>1, <1>3 DEF JobsOK, JobOK
<1>7. AnnouncedOK'
  <2>0. announced' = announced
    BY <1>1
  <2> SUFFICES ASSUME NEW j \in Jobs, announced[j] # "none"
               PROVE  state'[j] = "lost" /\ \A w \in Workers : at'[w].job # j
    BY <2>0 DEF AnnouncedOK
  <2>1. state[j] # "unknown"
    BY DEF AnnouncedOK, TypeOK, Terminal
  <2>2. \A w \in Workers : at'[w].job = NoJob
    BY <1>1 DEF Idle
  <2> QED
    BY <1>3, <2>1, <2>2, NodeAssumption
<1> QED
  BY <1>2, <1>4, <1>5, <1>6, <1>7

LEMMA NextInv == IInv /\ [Next]_vars => IInv'
<1> SUFFICES ASSUME IInv, [Next]_vars PROVE IInv'
  OBVIOUS
<1>1. CASE UNCHANGED vars
  BY <1>1 DEF vars, IInv, TypeOK, Placed, WorkersOK, JobsOK, AnnouncedOK
<1>2. ASSUME NEW j \in Jobs, Submit(j) \/ Cancel(j) \/ ProcExit(j) PROVE IInv'
  BY <1>2, SubmitInv, CancelInv, ProcExitInv
<1>3. ASSUME NEW j \in Jobs, SingleVerdict(j) \/ FleetVerdict(j) PROVE IInv'
  BY <1>3, VerdictsInv
<1>4. ASSUME NEW w \in Workers, Work(w) PROVE IInv'
  BY <1>4, TakeCancelledInv, TakeInv, SpawnInv, ExecFailsInv, RecordInv, WaitReturnsInv,
     WaitTimesOutInv, SettleInv, WriteStatusInv, JudgeInv, RaiseInv, CatchInv, ReportInv DEF Work
<1> QED
  BY <1>1, <1>2, <1>3, <1>4, RestartInv DEF Next

LEMMA Invariance == Spec => []IInv
BY InitInv, NextInv, PTL DEF Spec

-----------------------------------------------------------------------------

(* The variables keep their types, for any jobs, workers and restarts.     *)
THEOREM TypeCorrect == Spec => []TypeOK
BY Invariance, PTL DEF IInv

(* No process outlives a terminal state that the registry of the node      *)
(* holds: a deadline kills before it publishes, and a worker that fails    *)
(* fails where it has no live process.                                     *)
THEOREM ProcessesAccountedFor == Spec => []NoStrayProcess
<1>1. IInv => NoStrayProcess
  BY DEF IInv, JobsOK, JobOK, NoStrayProcess, Registered
<1> QED
  BY <1>1, Invariance, PTL

(* A running job has exactly one worker, whatever threads race for the     *)
(* queue.                                                                  *)
THEOREM JobsHeldOnce == Spec => []OneHolder
<1>1. IInv => OneHolder
  <2> SUFFICES ASSUME IInv PROVE OneHolder
    OBVIOUS
  <2>1. \A v, w \in Workers : at[v].job = at[w].job /\ at[v] # Idle => v = w
    BY AtType DEF IInv, Placed
  <2> QED
    BY <2>1 DEF IInv, Placed, OneHolder
<1> QED
  BY <1>1, Invariance, PTL

(* A job ends as cancelled only on request, with its process dead of a     *)
(* signal or never born.                                                   *)
THEOREM CancelledRightly == Spec => []CancelledOnRequest
<1>1. IInv => CancelledOnRequest
  BY DEF IInv, JobsOK, JobOK, CancelledOnRequest
<1> QED
  BY <1>1, Invariance, PTL

(* OK at a client means that the process exited with 0, for both kinds of  *)
(* client, at whatever point of a worker's program they poll.              *)
THEOREM ClientsOkRightly == Spec => []OkMeansExit0
<1>1. IInv => OkMeansExit0
  BY DEF IInv, JobsOK, JobOK, OkMeansExit0
<1> QED
  BY <1>1, Invariance, PTL

\* A worker's step changes the state of no job but the one it holds or takes.
LEMMA WorkTouches ==
  ASSUME IInv, NEW w \in Workers, Work(w), NEW j \in Jobs, announced[j] # "none"
  PROVE  state'[j] = state[j]
<1>1. at[w].job # j
  BY DEF IInv, AnnouncedOK
<1>2. state \in [Jobs -> Terminal \cup {"unknown", "queued", "running", "lost"}]
  BY DEF IInv, TypeOK
<1>3. CASE TakeCancelled(w) \/ Take(w)
  <2>1. job_q # <<>> /\ state[Head(job_q)] = "queued"
    BY <1>3, HeadOfQueue DEF TakeCancelled, Take
  <2>2. state[j] # "queued"
    BY DEF IInv, AnnouncedOK, TypeOK, Terminal
  <2> QED
    BY <1>2, <1>3, <2>1, <2>2 DEF TakeCancelled, Take
<1>4. CASE ~(TakeCancelled(w) \/ Take(w))
  BY <1>1, <1>2, <1>4 DEF Work, Spawn, ExecFails, Record, WaitReturns, WaitTimesOut, Settle,
     WriteStatus, Judge, Raise, Catch, Report, registry
<1> QED
  BY <1>3, <1>4

(* The job_done event is the last word: no worker, and nothing a client    *)
(* does, changes the state of a job that has been announced.               *)
THEOREM LastWord == Spec => AnnouncedIsFinal
<1> DEFINE Final == \A j \in Jobs : announced[j] # "none" => state'[j] \in {announced[j], "lost"}
<1>1. ASSUME IInv, [Next]_vars PROVE Final
  <2> SUFFICES ASSUME NEW j \in Jobs, announced[j] # "none"
               PROVE  state'[j] \in {announced[j], "lost"}
    OBVIOUS
  <2>0. state[j] \in {announced[j], "lost"} /\ announced[j] \in Terminal
    BY <1>1 DEF IInv, AnnouncedOK, TypeOK
  <2>1. CASE UNCHANGED vars
    BY <2>0, <2>1 DEF vars
  <2>2. ASSUME NEW k \in Jobs, Submit(k) PROVE state'[j] = state[j]
    BY <1>1, <2>0, <2>2 DEF Submit, IInv, TypeOK, Terminal
  <2>3. ASSUME NEW k \in Jobs,
               Cancel(k) \/ ProcExit(k) \/ SingleVerdict(k) \/ FleetVerdict(k)
        PROVE  state'[j] = state[j]
    BY <2>3 DEF Cancel, ProcExit, SingleVerdict, FleetVerdict, Polled, registry
  <2>4. ASSUME NEW w \in Workers, Work(w) PROVE state'[j] = state[j]
    BY <1>1, <2>4, WorkTouches
  <2>5. CASE Restart
    BY <2>0, <2>5 DEF Restart, Registered
  <2> QED
    BY <1>1, <2>0, <2>1, <2>2, <2>3, <2>4, <2>5 DEF Next
<1>2. IInv /\ [Next]_vars => [Final]_vars
  BY <1>1
<1> QED
  BY <1>2, Invariance, PTL DEF Spec, AnnouncedIsFinal
=============================================================================
