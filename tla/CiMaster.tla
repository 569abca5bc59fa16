------------------------------ MODULE CiMaster ------------------------------
(***************************************************************************)
(* The CI of modules/docker/cicd/ci_impl: a master that keeps the state of *)
(* every variant (a branch on a platform) and workers that build them in   *)
(* turn. A worker is a state machine that asks the master one thing per    *)
(* state over a REQ socket and waits for the reply, for ever; the master   *)
(* is one thread on a REP socket, and an exception in a handler is the end *)
(* of it. Neither side writes anything down: a restart begins with Init.   *)
(***************************************************************************)
EXTENDS Naturals, Sequences, FiniteSets

CONSTANTS
  Workers,
  Branches,
  VariantsOf,  \* VariantsOf[w]: the variants of worker w, in the order of names
  BranchOf,    \* BranchOf[v]: the branch of variant v
  MaxCommits,  \* bound on the commits of a branch
  MaxFaults    \* bound on the restarts, failed fetches and rewritten branches

Variants == UNION {{VariantsOf[w][i] : i \in DOMAIN VariantsOf[w]} : w \in Workers}
None == "none"

(* A worker without variants would end the master; a variant of two        *)
(* workers would have its state overwritten by both.                       *)
ASSUME CiAssumption ==
  /\ \A w \in Workers : VariantsOf[w] \in Seq(Variants) /\ VariantsOf[w] # <<>>
  /\ None \notin Variants
  /\ \A u, w \in Workers : \A i \in DOMAIN VariantsOf[u], j \in DOMAIN VariantsOf[w] :
       VariantsOf[u][i] = VariantsOf[w][j] => u = w /\ i = j
  /\ BranchOf \in [Variants -> Branches]
  /\ MaxCommits \in Nat \ {0} /\ MaxFaults \in Nat

VARIABLES
  upstream, \* upstream[b]: commits branch b has had; no commit, no branch
  gone,     \* commits that a force-push or a deletion took off their branch
  alive,    \* whether the master's thread still runs
  wk,       \* wk[w]: what the master keeps of worker w
  var,      \* var[v]: what the master keeps, and shows, of variant v
  worker,   \* worker[w]: the state of the worker's machine
  call,     \* call[w]: the request of worker w, or the reply to it
  stale,    \* stale[w]: requests of worker processes that are gone
  built,    \* built[v]: what the result shown for v is the result of
  last,     \* last[w]: the variant whose report was accepted last
  faults    \* what has gone wrong so far

masterVars == <<wk, var>>
vars == <<upstream, gone, alive, wk, var, worker, call, stale, built, last, faults>>

Results == {"PASSED", "FAILED"}
NoSha == <<None, 0>>
Commit(b) == <<b, upstream[b]>>
Exists(b) == upstream[b] > 0  \* the mirror is not pruned: a deleted branch stays

NoCall == [k |-> "none"]
Sent(cmd) == [k |-> "sent", cmd |-> cmd]
Lost == [k |-> "lost"]
Wait == [k |-> "wait"]

-----------------------------------------------------------------------------
(* The master *)

NewWorker == [status |-> "INIT", idx |-> 1, cur |-> None]
\* What it was before, which the badge shows during a build, is left out.
NewVariant == [now |-> "INIT", sha |-> NoSha]

CurVariant(w) == VariantsOf[w][wk[w].idx]
CurBranch(w) == BranchOf[CurVariant(w)]

\* Fault: the variant is never advanced.
SameVariant(w) == wk[w].idx

NextVariant(w) == IF wk[w].idx = Len(VariantsOf[w]) THEN 1 ELSE wk[w].idx + 1

Answer(w, live, reply) ==
  call' = IF live THEN [call EXCEPT ![w] = reply] ELSE call

OnConnect(w, live) ==
  /\ Answer(w, live, [k |-> "connected"])
  /\ UNCHANGED <<alive, masterVars, built, last>>

OnWaiting(w, live) ==
  /\ Answer(w, live, IF Exists(CurBranch(w)) THEN [k |-> "job"] ELSE Wait)
  /\ UNCHANGED <<alive, masterVars, built, last>>

Raises == alive' = FALSE /\ UNCHANGED <<call, masterVars, built, last>>

\* Fault: the worker is not told which variant it has taken on.
OnInitializingForgets(w, live) ==
  LET v == CurVariant(w)
  IN  IF Exists(BranchOf[v])
        THEN /\ wk' = [wk EXCEPT ![w].status = "FETCHING"]
             /\ var' = [var EXCEPT ![v] = [now |-> "BUILDING", sha |-> Commit(BranchOf[v])]]
             /\ Answer(w, live, [k |-> "init"])
             /\ UNCHANGED <<alive, built, last>>
        ELSE Answer(w, live, Wait) /\ UNCHANGED <<alive, masterVars, built, last>>

\* Fault: the worker moves to its next variant when it takes one on.
OnInitializingAdvanced(w, live) ==
  LET v == CurVariant(w)
  IN  IF Exists(BranchOf[v])
        THEN /\ wk' = [wk EXCEPT ![w] = [status |-> "FETCHING", cur |-> v, idx |-> NextVariant(w)]]
             /\ var' = [var EXCEPT ![v] = [now |-> "BUILDING", sha |-> Commit(BranchOf[v])]]
             /\ Answer(w, live, [k |-> "init"])
             /\ UNCHANGED <<alive, built, last>>
        ELSE Answer(w, live, Wait) /\ UNCHANGED <<alive, masterVars, built, last>>

OnInitializing(w, live) ==
  LET v == CurVariant(w)
  IN  IF Exists(BranchOf[v])
        THEN /\ wk' = [wk EXCEPT ![w].status = "FETCHING", ![w].cur = v]
             /\ var' = [var EXCEPT ![v] = [now |-> "BUILDING", sha |-> Commit(BranchOf[v])]]
             /\ Answer(w, live, [k |-> "init"])
             /\ UNCHANGED <<alive, built, last>>
        ELSE Answer(w, live, Wait) /\ UNCHANGED <<alive, masterVars, built, last>>

(* The commit is read again, and it may be that nothing was initialised.   *)
OnFetching(w, live) ==
  IF Exists(CurBranch(w))
    THEN /\ wk' = [wk EXCEPT ![w].status = "BUILDING"]
         /\ Answer(w, live, [k |-> "fetch", variant |-> wk[w].cur, sha |-> Commit(CurBranch(w))])
         /\ UNCHANGED <<alive, var, built, last>>
    ELSE Answer(w, live, Wait) /\ UNCHANGED <<alive, masterVars, built, last>>

OnBuilding(w, live) ==
  IF wk[w].status # "BUILDING"
    THEN Answer(w, live, Wait) /\ UNCHANGED <<alive, masterVars, built, last>>
    ELSE IF wk[w].cur = None THEN Raises
    ELSE Answer(w, live, [k |-> "build"]) /\ UNCHANGED <<alive, masterVars, built, last>>

OnReporting(w, live, report) ==
  IF wk[w].status # "BUILDING"
    THEN Answer(w, live, Wait) /\ UNCHANGED <<alive, masterVars, built, last>>
    ELSE IF wk[w].cur = None THEN Raises
    ELSE /\ var' = [var EXCEPT ![wk[w].cur].now = report.result]
         /\ built' = [built EXCEPT ![wk[w].cur] = [variant |-> report.variant, sha |-> report.sha,
                                                     tree |-> report.tree]]
         /\ last' = [last EXCEPT ![w] = wk[w].cur]
         /\ wk' = [wk EXCEPT ![w] = [status |-> "WAIT", cur |-> None, idx |-> NextVariant(w)]]
         /\ Answer(w, live, [k |-> "report"])
         /\ UNCHANGED alive

Handle(w, cmd, live) ==
  \/ cmd.c = "connecting" /\ OnConnect(w, live)
  \/ cmd.c = "waiting" /\ OnWaiting(w, live)
  \/ cmd.c = "initializing" /\ OnInitializing(w, live)
  \/ cmd.c = "fetching" /\ OnFetching(w, live)
  \/ cmd.c = "building" /\ OnBuilding(w, live)
  \/ cmd.c = "reporting" /\ OnReporting(w, live, cmd)

(* The socket takes its peers in turn: what a dead process has sent comes  *)
(* at the latest after the first request of the process that replaces it.  *)
Serve(w) ==
  /\ alive
  /\ call[w].k = "sent"
  /\ stale[w] = {} \/ call[w].cmd.c = "connecting"
  /\ Handle(w, call[w].cmd, TRUE)
  /\ UNCHANGED <<upstream, gone, worker, stale, faults>>

ServeStale(w) ==
  /\ alive
  /\ \E cmd \in stale[w] :
       /\ stale' = [stale EXCEPT ![w] = @ \ {cmd}]
       /\ Handle(w, cmd, FALSE)
  /\ UNCHANGED <<upstream, gone, worker, faults>>

-----------------------------------------------------------------------------
(* A worker *)

Ask(w) ==
  /\ call[w] = NoCall
  /\ LET me == worker[w]
     IN  IF me.st = "reporting"
           THEN \E r \in Results :
                  call' = [call EXCEPT ![w] = Sent([c |-> "reporting", result |-> r,
                                                    variant |-> me.variant, sha |-> me.sha,
                                                    tree |-> me.tree])]
           ELSE call' = [call EXCEPT ![w] = Sent([c |-> me.st])]
  /\ UNCHANGED <<upstream, gone, alive, masterVars, worker, stale, built, last, faults>>

Goto(w, st) == worker' = [worker EXCEPT ![w].st = st]

(* What is there to build if the checkout of the commit fails: the head of *)
(* the default branch, which the clone left, or no commit, or part of one. *)
Else == {NoSha} \cup {Commit(b) : b \in {c \in Branches : Exists(c)}}

Build(w, reply, tree) ==
  worker' = [worker EXCEPT ![w] = [st |-> "building", variant |-> reply.variant,
                                   sha |-> reply.sha, tree |-> tree]]

(* A reply that does not fit the state sends the worker back to waiting.   *)
(* The clone holds what the branches reach: it need not hold a commit that *)
(* was taken off its branch since the master told it.                      *)
Advance(w, reply) ==
  \/ reply.k = "connected" /\ Goto(w, "waiting")
  \/ reply.k = "job" /\ Goto(w, "initializing")
  \/ reply.k = "init" /\ Goto(w, "fetching")
  \/ /\ reply.k = "fetch"
     /\ \E tree \in {reply.sha} \cup IF reply.sha \in gone THEN Else ELSE {} :
          Build(w, reply, tree)
  \/ reply.k = "build" /\ Goto(w, "reporting")
  \/ reply.k \in {"report", "wait"} /\ Goto(w, "waiting")

Receive(w) ==
  /\ call[w].k \notin {"none", "sent", "lost"}
  /\ Advance(w, call[w])
  /\ call' = [call EXCEPT ![w] = NoCall]
  /\ UNCHANGED <<upstream, gone, alive, masterVars, stale, built, last, faults>>

Fault(f) ==
  /\ Len(faults) < MaxFaults
  /\ faults' = Append(faults, f)

(* Nobody looks at whether the clone or the checkout failed: the worker    *)
(* builds, and reports for the commit it was told.                         *)
CheckoutFails(w) ==
  /\ call[w].k = "fetch"
  /\ Fault("checkout")
  /\ \E tree \in Else : Build(w, call[w], tree)
  /\ call' = [call EXCEPT ![w] = NoCall]
  /\ UNCHANGED <<upstream, gone, alive, masterVars, stale, built, last>>

-----------------------------------------------------------------------------
(* The upstream, restarts and failures *)

Push(b) ==
  /\ upstream[b] < MaxCommits
  /\ upstream' = [upstream EXCEPT ![b] = @ + 1]
  /\ UNCHANGED <<gone, alive, masterVars, worker, call, stale, built, last, faults>>

From(k, b) == {<<b, i>> : i \in k..upstream[b]}

(* A force-push takes the last commits off the branch and adds another.    *)
ForcePush(b) ==
  /\ Fault("rewrite")
  /\ upstream[b] < MaxCommits
  /\ \E k \in 1..upstream[b] : gone' = gone \cup From(k, b)
  /\ upstream' = [upstream EXCEPT ![b] = @ + 1]
  /\ UNCHANGED <<alive, masterVars, worker, call, stale, built, last>>

DeleteBranch(b) ==
  /\ Fault("rewrite")
  /\ gone' = gone \cup From(1, b)
  /\ UNCHANGED <<upstream, alive, masterVars, worker, call, stale, built, last>>

NewMachine == [st |-> "connecting", variant |-> None, sha |-> NoSha, tree |-> NoSha]

WorkerRestarts(w) ==
  /\ Fault("worker")
  /\ worker' = [worker EXCEPT ![w] = NewMachine]
  /\ stale' = [stale EXCEPT ![w] = @ \cup IF call[w].k = "sent" THEN {call[w].cmd} ELSE {}]
  /\ call' = [call EXCEPT ![w] = NoCall]
  /\ UNCHANGED <<upstream, gone, alive, masterVars, built, last>>

(* A request that was on its way to the old process is lost, one that had  *)
(* not left yet reaches the new one.                                       *)
MasterRestarts ==
  /\ Fault("master")
  /\ alive' = TRUE
  /\ wk' = [w \in Workers |-> NewWorker]
  /\ var' = [v \in Variants |-> NewVariant]
  /\ \E cut \in SUBSET {w \in Workers : call[w].k = "sent"} :
       call' = [w \in Workers |-> IF w \in cut THEN Lost ELSE call[w]]
  /\ stale' = [w \in Workers |-> {}]
  /\ UNCHANGED <<upstream, gone, worker, built, last>>

(* The fetch of the mirror raises in whatever handler asks for the branch. *)
FetchFails ==
  /\ Fault("upstream")
  /\ alive
  /\ \E w \in Workers : /\ call[w].k = "sent"
                        /\ call[w].cmd.c \in {"waiting", "initializing", "fetching"}
  /\ alive' = FALSE
  /\ UNCHANGED <<upstream, gone, masterVars, worker, call, stale, built, last>>

-----------------------------------------------------------------------------
Init ==
  /\ upstream \in [Branches -> 0..1]
  /\ gone = {}
  /\ alive = TRUE
  /\ wk = [w \in Workers |-> NewWorker]
  /\ var = [v \in Variants |-> NewVariant]
  /\ worker = [w \in Workers |-> NewMachine]
  /\ call = [w \in Workers |-> NoCall]
  /\ stale = [w \in Workers |-> {}]
  /\ built = [v \in Variants |-> [variant |-> None, sha |-> NoSha, tree |-> NoSha]]
  /\ last = [w \in Workers |-> None]
  /\ faults = <<>>

Master == \E w \in Workers : Serve(w) \/ ServeStale(w)
Run(w) == Ask(w) \/ Receive(w)

Next ==
  \/ Master
  \/ \E w \in Workers : Run(w) \/ CheckoutFails(w) \/ WorkerRestarts(w)
  \/ \E b \in Branches : Push(b) \/ ForcePush(b) \/ DeleteBranch(b)
  \/ MasterRestarts \/ FetchFails

Spec == Init /\ [][Next]_vars

(* The thread serves its peers in turn and the workers loop.               *)
FairSpec ==
  /\ Spec
  /\ \A w \in Workers : WF_vars(Run(w)) /\ WF_vars(Serve(w)) /\ WF_vars(ServeStale(w))
-----------------------------------------------------------------------------
(* Properties *)

Shas == {NoSha} \cup (Branches \X (1..MaxCommits))
States == {"connecting", "waiting", "initializing", "fetching", "building", "reporting"}

(* The master's record of a worker names a variant of that worker.         *)
TypeOK ==
  /\ upstream \in [Branches -> 0..MaxCommits] /\ gone \subseteq Shas
  /\ alive \in BOOLEAN
  /\ \A w \in Workers :
       /\ wk[w].status \in {"INIT", "FETCHING", "BUILDING", "WAIT"}
       /\ wk[w].idx \in DOMAIN VariantsOf[w]
       /\ wk[w].cur \in {None, CurVariant(w)}
       /\ worker[w].st \in States /\ {worker[w].sha, worker[w].tree} \subseteq Shas
       /\ worker[w].variant \in Variants \cup {None}
  /\ var \in [Variants -> [now : {"INIT", "BUILDING"} \cup Results, sha : Shas]]

Had(f) == \E i \in DOMAIN faults : faults[i] = f

(* The result the site shows for a variant is the result of a worker that  *)
(* was told to build that variant, at the commit shown next to it or at a  *)
(* later one of its branch: not always at that commit, for what is shown   *)
(* is noted when the worker initialises and what it is told is looked up   *)
(* when it fetches. The worker has built what it was told, unless a clone  *)
(* or checkout failed, or the commit had been pushed away: then the result *)
(* is that of another commit, or of none, and nobody can tell.             *)
ResultFits ==
  \A v \in Variants : var[v].now \in Results =>
    /\ built[v].variant = v
    /\ built[v].sha[1] = BranchOf[v] /\ built[v].sha[2] >= var[v].sha[2]
    /\ built[v].tree = built[v].sha \/ Had("checkout") \/ built[v].sha \in gone

(* Not kept: "Running Job for Sha<...>", says the worker of each command   *)
(* (worker_build_branch.py:64). It may run over another commit.            *)
RanForSha ==
  \A v \in Variants : var[v].now \in Results => built[v].tree = built[v].sha

(* The master's thread survives every order of requests, those of dead     *)
(* worker processes included, branches that do not exist yet, rewritten    *)
(* and deleted ones. It does not survive a fetch of its mirror that fails, *)
(* nor a restart of its own while a worker is past initialising.           *)
MasterDies ==
  ~alive => Had("master") \/ Had("upstream")

(* Every variant of a worker is built over and over, whichever worker      *)
(* restarts, unless the master restarts or a fetch of its mirror fails, or *)
(* a branch of one of the worker's variants never appears: a variant that  *)
(* has to wait holds up all variants of its worker.                        *)
Unsettled(w) ==
  \/ Had("master") \/ Had("upstream")
  \/ \E i \in DOMAIN VariantsOf[w] : ~Exists(BranchOf[VariantsOf[w][i]])

VariantsBuilt ==
  \A w \in Workers : \A i \in DOMAIN VariantsOf[w] :
    []<>(last[w] = VariantsOf[w][i] \/ Unsettled(w))
=============================================================================
