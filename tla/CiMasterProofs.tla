--------------------------- MODULE CiMasterProofs ---------------------------
(***************************************************************************)
(* Proofs about the CI master and its workers, for any number of workers,  *)
(* of variants on branches, of commits, restarts and failures.             *)
(***************************************************************************)
EXTENDS CiMaster, TLAPS

Statuses == {"INIT", "FETCHING", "BUILDING", "WAIT"}
Shown == {"INIT", "BUILDING"} \cup Results
Cmds ==
  [c : States \ {"reporting"}] \cup
  [c : {"reporting"}, result : Results, variant : Variants \cup {None},
   sha : Shas, tree : Shas]
Machines == [st : States, variant : Variants \cup {None}, sha : Shas, tree : Shas]
Faults == {"worker", "checkout", "rewrite", "master", "upstream"}
Replies == {"connected", "job", "init", "fetch", "build", "report", "wait"}

MasterTypes ==
  /\ upstream \in [Branches -> 0 .. MaxCommits] /\ gone \subseteq Shas
  /\ alive \in BOOLEAN
  /\ wk \in [Workers -> [status : Statuses, idx : Nat, cur : Variants \cup {None}]]
  /\ \A w \in Workers :
       wk[w].idx \in DOMAIN VariantsOf[w] /\ wk[w].cur \in {None, CurVariant(w)}
  /\ var \in [Variants -> [now : Shown, sha : Shas]]
  /\ built = [v \in Variants |-> built[v]]

PeerTypes ==
  /\ worker \in [Workers -> Machines]
  /\ call = [w \in Workers |-> call[w]]
  /\ stale \in [Workers -> SUBSET Cmds]
  /\ faults \in Seq(Faults)

\* r is a reply to a request c.
Fits(r, c) ==
  /\ r.k \in Replies
  /\ r.k = "connected" => c = "connecting"
  /\ r.k = "job" => c = "waiting"
  /\ r.k = "init" => c = "initializing"
  /\ r.k = "fetch" =>
       c = "fetching" /\ r.variant \in Variants \cup {None} /\ r.sha \in Shas
  /\ r.k = "build" => c = "building"

(* What is under way is the request of the state a worker is in, or fits it.*)
CallOK ==
  \A w \in Workers :
    \/ call[w].k \in {"none", "lost"}
    \/ /\ call[w].k = "sent"
       /\ call[w].cmd \in Cmds /\ call[w].cmd.c = worker[w].st
       /\ worker[w].st = "reporting" =>
            call[w].cmd.variant = worker[w].variant /\ call[w].cmd.sha = worker[w].sha
    \/ Fits(call[w], worker[w].st)

(* Dead processes have left at most one request that does anything, and    *)
(* until it is served the live one gets no further than waiting.           *)
StaleOK ==
  \A w \in Workers :
    /\ \A c, d \in stale[w] : {c.c, d.c} \cap {"connecting", "waiting"} = {} => c = d
    /\ stale[w] # {} => worker[w].st \in {"connecting", "waiting"} /\ call[w].k # "job"

PeerInv == PeerTypes /\ CallOK /\ StaleOK

(* The site never shows a commit that the branch does not have yet.        *)
ShownOK == \A v \in Variants : var[v].sha[2] <= upstream[BranchOf[v]]

\* The master would show the result of this variant and commit as it should.
Grasp(w, variant, sha) ==
  wk[w].status = "BUILDING" /\ wk[w].cur # None =>
    /\ variant = wk[w].cur /\ sha[1] = BranchOf[wk[w].cur]
    /\ sha[2] >= var[wk[w].cur].sha[2]

\* The part of ResultFits that speaks of what the worker was told.
ResultTold ==
  \A v \in Variants : var[v].now \in Results =>
    built[v].variant = v /\ built[v].sha[1] = BranchOf[v] /\ built[v].sha[2] >= var[v].sha[2]

(* So it is with what a worker builds or reports, with what it is told to  *)
(* build, and with the report of a process that is gone.                   *)
GraspAt(w) ==
  /\ worker[w].st \in {"building", "reporting"} => Grasp(w, worker[w].variant, worker[w].sha)
  /\ call[w].k = "fetch" => Grasp(w, call[w].variant, call[w].sha)
  /\ \A c \in stale[w] : c.c = "reporting" => Grasp(w, c.variant, c.sha)

OnlyWorkers == ~Had("master") /\ ~Had("upstream")

(* The master knows the variant of a worker that is past initialising.     *)
KnownAt(w) ==
  \/ wk[w].status = "BUILDING"
  \/ worker[w].st = "fetching" \/ call[w].k = "init"
  \/ \E c \in stale[w] : c.c = "fetching"
  => wk[w].cur # None

(* What was checked out for a build is what the worker was told, or there  *)
(* is a reason why it is not: so it is with what a worker builds and       *)
(* reports, with the report of a process that is gone, and with a result.  *)
Told(sha, tree) == tree = sha \/ Had("checkout") \/ sha \in gone

TreesOK ==
  /\ \A w \in Workers :
       /\ worker[w].st \in {"building", "reporting"} => Told(worker[w].sha, worker[w].tree)
       /\ call[w].k = "sent" /\ call[w].cmd.c = "reporting" =>
            Told(call[w].cmd.sha, call[w].cmd.tree)
       /\ \A c \in stale[w] : c.c = "reporting" => Told(c.sha, c.tree)
  /\ \A v \in Variants : var[v].now \in Results => Told(built[v].sha, built[v].tree)

CiInv ==
  /\ MasterTypes /\ PeerInv /\ ShownOK /\ ResultTold
  /\ \A w \in Workers : GraspAt(w)
  /\ OnlyWorkers => alive /\ \A w \in Workers : KnownAt(w)

-----------------------------------------------------------------------------
(* The constants.                                                          *)

LEMMA NextVariantType ==
  ASSUME MasterTypes, NEW w \in Workers
  PROVE  /\ NextVariant(w) \in DOMAIN VariantsOf[w] /\ NextVariant(w) \in Nat
         /\ CurVariant(w) \in Variants /\ CurBranch(w) \in Branches
<1>1. VariantsOf[w] \in Seq(Variants) /\ VariantsOf[w] # <<>>
  BY CiAssumption
<1>2. Len(VariantsOf[w]) \in Nat \ {0} /\ DOMAIN VariantsOf[w] = 1 .. Len(VariantsOf[w])
  BY <1>1
<1>3. wk[w].idx \in 1 .. Len(VariantsOf[w])
  BY <1>2 DEF MasterTypes
<1>4. CurVariant(w) \in Variants
  BY <1>1, <1>3 DEF CurVariant
<1> QED
  BY <1>2, <1>3, <1>4, CiAssumption DEF NextVariant, CurBranch

(* Workers have no variant in common.                                      *)
LEMMA VariantsApart ==
  ASSUME MasterTypes, NEW u \in Workers, NEW w \in Workers, u # w, wk[u].cur # None
  PROVE  wk[u].cur \in Variants /\ wk[u].cur # CurVariant(w) /\ wk[u].cur # wk[w].cur
<1>1. wk[u].cur = CurVariant(u) /\ wk[u].idx \in DOMAIN VariantsOf[u]
  BY DEF MasterTypes
<1>2. wk[w].idx \in DOMAIN VariantsOf[w] /\ wk[w].cur \in {None, CurVariant(w)}
  BY DEF MasterTypes
<1>3. CurVariant(u) # CurVariant(w)
  BY <1>1, <1>2, CiAssumption DEF CurVariant
<1> QED
  BY <1>1, <1>2, <1>3, NextVariantType

LEMMA CommitType ==
  ASSUME MasterTypes, NEW b \in Branches, Exists(b) PROVE Commit(b) \in Shas
<1>1. upstream[b] \in 1 .. MaxCommits
  BY CiAssumption DEF MasterTypes, Exists
<1> QED
  BY <1>1 DEF Commit, Shas

LEMMA ElseType == ASSUME MasterTypes PROVE Else \subseteq Shas
BY CommitType DEF Else, Shas

LEMMA FromType ==
  ASSUME MasterTypes, NEW b \in Branches, NEW k \in 1 .. upstream[b]
  PROVE  From(k, b) \subseteq Shas
<1>1. upstream[b] \in 0 .. MaxCommits
  BY DEF MasterTypes
<1>2. k .. upstream[b] \subseteq 1 .. MaxCommits
  BY <1>1, CiAssumption
<1> QED
  BY <1>2 DEF From, Shas

-----------------------------------------------------------------------------
(* What a step leaves of the claims about the workers it is not about.     *)

\* The master's records of the other workers, and of their variants, stay.
OthersKeep(w) ==
  \A u \in Workers \ {w} :
    wk'[u] = wk[u] /\ (wk[u].cur # None => var'[wk[u].cur] = var[wk[u].cur])

LEMMA OthersClaims ==
  ASSUME CiInv, NEW w \in Workers, OthersKeep(w),
         \A u \in Workers \ {w} :
           worker'[u] = worker[u] /\ call'[u] = call[u] /\ stale'[u] = stale[u],
         GraspAt(w)', OnlyWorkers' => OnlyWorkers /\ alive' /\ KnownAt(w)'
  PROVE  /\ \A u \in Workers : GraspAt(u)'
         /\ OnlyWorkers' => alive' /\ \A u \in Workers : KnownAt(u)'
<1> SUFFICES ASSUME NEW u \in Workers, u # w
             PROVE  GraspAt(u)' /\ (OnlyWorkers => KnownAt(u)')
  OBVIOUS
<1>1. /\ wk'[u] = wk[u] /\ (wk[u].cur # None => var'[wk[u].cur] = var[wk[u].cur])
      /\ worker'[u] = worker[u] /\ call'[u] = call[u] /\ stale'[u] = stale[u]
  BY DEF OthersKeep
<1>2. GraspAt(u) /\ (OnlyWorkers => KnownAt(u))
  BY DEF CiInv
<1>3. \A variant, sha : Grasp(u, variant, sha) => Grasp(u, variant, sha)'
  BY <1>1 DEF Grasp
<1>4. GraspAt(u)'
  BY <1>1, <1>2, <1>3 DEF GraspAt
<1>5. OnlyWorkers => KnownAt(u)'
  BY <1>1, <1>2 DEF KnownAt
<1> QED
  BY <1>4, <1>5

(* Nothing changes but whether the master lives, and what has gone wrong.  *)
LEMMA MasterStill ==
  ASSUME CiInv, UNCHANGED <<upstream, gone, wk, var, built, worker, call, stale>>,
         alive' \in BOOLEAN, faults' \in Seq(Faults),
         OnlyWorkers' => OnlyWorkers /\ alive' = alive
  PROVE  CiInv'
<1>1. MasterTypes'
  BY DEF CiInv, MasterTypes, CurVariant
<1>2. PeerInv'
  <2>1. PeerTypes'
    BY DEF CiInv, PeerInv, PeerTypes
  <2>2. CallOK' /\ StaleOK'
    BY DEF CiInv, PeerInv, CallOK, Fits, StaleOK
  <2> QED
    BY <2>1, <2>2 DEF PeerInv
<1>3. ShownOK' /\ ResultTold'
  BY DEF CiInv, ShownOK, ResultTold
<1>4. \A w \in Workers : GraspAt(w)'
  BY DEF CiInv, GraspAt, Grasp
<1>5. OnlyWorkers' => alive' /\ \A w \in Workers : KnownAt(w)'
  BY DEF CiInv, KnownAt
<1> QED
  BY <1>1, <1>2, <1>3, <1>4, <1>5 DEF CiInv

-----------------------------------------------------------------------------
(* The peers of a request that is served.                                  *)

LEMMA AnsweredPeers ==
  ASSUME PeerInv, NEW w \in Workers, call[w].k = "sent",
         stale[w] = {} \/ call[w].cmd.c = "connecting",
         NEW r, Fits(r, call[w].cmd.c), call' = [call EXCEPT ![w] = r],
         UNCHANGED <<worker, stale, faults>>
  PROVE  /\ PeerInv' /\ call'[w] = r
         /\ \A u \in Workers \ {w} : call'[u] = call[u]
<1>1. call'[w] = r /\ \A u \in Workers \ {w} : call'[u] = call[u]
  BY DEF PeerInv, PeerTypes
<1>2. PeerTypes'
  BY DEF PeerInv, PeerTypes
<1>3. call[w].cmd.c = worker[w].st
  BY DEF PeerInv, CallOK, Fits, Replies
<1>4. CallOK'
  BY <1>1, <1>3 DEF PeerInv, CallOK, Fits
<1>5. StaleOK'
  BY <1>1, <1>3 DEF PeerInv, StaleOK, Fits
<1> QED
  BY <1>1, <1>2, <1>4, <1>5 DEF PeerInv

LEMMA StalePeers ==
  ASSUME PeerInv, NEW w \in Workers, NEW cmd \in stale[w],
         stale' = [stale EXCEPT ![w] = @ \ {cmd}], UNCHANGED <<worker, call, faults>>
  PROVE  /\ PeerInv' /\ stale'[w] = stale[w] \ {cmd}
         /\ \A u \in Workers \ {w} : stale'[u] = stale[u]
<1>1. stale'[w] = stale[w] \ {cmd} /\ \A u \in Workers \ {w} : stale'[u] = stale[u]
  BY DEF PeerInv, PeerTypes
<1>2. PeerTypes'
  <2>1. stale' \in [Workers -> SUBSET Cmds]
    BY DEF PeerInv, PeerTypes
  <2> QED
    BY <2>1 DEF PeerInv, PeerTypes
<1>3. CallOK'
  BY DEF PeerInv, CallOK, Fits
<1>4. StaleOK'
  BY <1>1 DEF PeerInv, StaleOK
<1> QED
  BY <1>1, <1>2, <1>3, <1>4 DEF PeerInv

(* While a request of a dead process waits to be served, the live one is   *)
(* not past waiting, and there is no other such request that matters.      *)
LEMMA StaleIsAlone ==
  ASSUME PeerInv, NEW w \in Workers, NEW cmd \in stale[w]
  PROVE  /\ cmd \in Cmds
         /\ worker[w].st \in {"connecting", "waiting"}
         /\ call[w].k \notin {"init", "fetch"}
         /\ cmd.c \notin {"connecting", "waiting"} =>
              \A c \in stale[w] \ {cmd} : c.c \in {"connecting", "waiting"}
<1>1. cmd \in Cmds /\ worker[w].st \in {"connecting", "waiting"}
  BY DEF PeerInv, PeerTypes, StaleOK
<1>2. call[w].k \notin {"init", "fetch"}
  BY <1>1 DEF PeerInv, CallOK, Fits
<1> QED
  BY <1>1, <1>2 DEF PeerInv, StaleOK

-----------------------------------------------------------------------------
(* The handlers that change what the master keeps.                         *)

LEMMA InitMaster ==
  ASSUME MasterTypes, ShownOK, ResultTold, NEW w \in Workers, Exists(CurBranch(w)),
         wk' = [wk EXCEPT ![w].status = "FETCHING", ![w].cur = CurVariant(w)],
         var' = [var EXCEPT ![CurVariant(w)] =
                   [now |-> "BUILDING", sha |-> Commit(CurBranch(w))]],
         UNCHANGED <<upstream, gone, alive, built>>
  PROVE  /\ MasterTypes' /\ ShownOK' /\ ResultTold' /\ OthersKeep(w)
         /\ wk'[w].status = "FETCHING" /\ wk'[w].cur # None
<1> DEFINE v == CurVariant(w)
<1>1. v \in Variants /\ CurBranch(w) \in Branches /\ v # None
  BY NextVariantType, CiAssumption
<1>2. Commit(CurBranch(w)) \in Shas
  BY <1>1, CommitType
<1>3. /\ wk'[w].status = "FETCHING" /\ wk'[w].cur = v /\ wk'[w].idx = wk[w].idx
      /\ \A u \in Workers \ {w} : wk'[u] = wk[u]
  BY DEF MasterTypes
<1>4. /\ var'[v] = [now |-> "BUILDING", sha |-> Commit(CurBranch(w))]
      /\ \A x \in Variants \ {v} : var'[x] = var[x]
  BY <1>1 DEF MasterTypes
<1>5. /\ wk' \in [Workers -> [status : Statuses, idx : Nat, cur : Variants \cup {None}]]
      /\ var' \in [Variants -> [now : Shown, sha : Shas]]
  BY <1>1, <1>2, ZenonT(60) DEF MasterTypes, Statuses, Shown
<1> HIDE DEF v
<1>6. \A u \in Workers :
        wk'[u].idx \in DOMAIN VariantsOf[u] /\ wk'[u].cur \in {None, CurVariant(u)'}
  BY <1>3 DEF MasterTypes, CurVariant, v
<1>7. MasterTypes'
  BY <1>5, <1>6 DEF MasterTypes
<1>8. ShownOK'
  BY <1>1, <1>4 DEF ShownOK, Commit, CurBranch, v, MasterTypes
<1>9. ResultTold'
  BY <1>4 DEF ResultTold, Results
<1>10. OthersKeep(w)
  BY <1>3, <1>4, VariantsApart DEF OthersKeep, v
<1> QED
  BY <1>1, <1>3, <1>7, <1>8, <1>9, <1>10

LEMMA FetchMaster ==
  ASSUME MasterTypes, ShownOK, ResultTold, NEW w \in Workers, Exists(CurBranch(w)),
         wk' = [wk EXCEPT ![w].status = "BUILDING"], UNCHANGED <<upstream, gone, alive, var, built>>
  PROVE  /\ MasterTypes' /\ ShownOK' /\ ResultTold' /\ OthersKeep(w)
         /\ wk'[w].cur = wk[w].cur /\ Grasp(w, wk[w].cur, Commit(CurBranch(w)))'
         /\ wk[w].cur \in Variants \cup {None} /\ Commit(CurBranch(w)) \in Shas
<1>1. /\ wk'[w].status = "BUILDING" /\ wk'[w].cur = wk[w].cur /\ wk'[w].idx = wk[w].idx
      /\ \A u \in Workers \ {w} : wk'[u] = wk[u]
      /\ wk[w].cur \in Variants \cup {None}
  BY DEF MasterTypes
<1>2. wk' \in [Workers -> [status : Statuses, idx : Nat, cur : Variants \cup {None}]]
  BY DEF MasterTypes, Statuses
<1>3. \A u \in Workers :
        wk'[u].idx \in DOMAIN VariantsOf[u] /\ wk'[u].cur \in {None, CurVariant(u)'}
  BY <1>1 DEF MasterTypes, CurVariant
<1>4. MasterTypes'
  BY <1>2, <1>3 DEF MasterTypes
<1>5. ShownOK' /\ ResultTold' /\ OthersKeep(w)
  BY <1>1 DEF ShownOK, ResultTold, OthersKeep
<1>6. wk[w].cur # None => wk[w].cur = CurVariant(w) /\ wk[w].cur \in Variants
  BY <1>1 DEF MasterTypes
<1>7. CurBranch(w)' = CurBranch(w) /\ Commit(CurBranch(w))' = Commit(CurBranch(w))
  BY <1>1 DEF CurBranch, CurVariant, Commit
<1>8. Grasp(w, wk[w].cur, Commit(CurBranch(w)))'
  BY <1>1, <1>6, <1>7 DEF Grasp, ShownOK, Commit, CurBranch
<1> QED
  BY <1>1, <1>4, <1>5, <1>8, NextVariantType, CommitType

LEMMA ReportMaster ==
  ASSUME MasterTypes, ShownOK, ResultTold, NEW w \in Workers,
         wk[w].status = "BUILDING", wk[w].cur # None,
         NEW report, report.result \in Results, Grasp(w, report.variant, report.sha),
         var' = [var EXCEPT ![wk[w].cur].now = report.result],
         built' = [built EXCEPT ![wk[w].cur] =
                     [variant |-> report.variant, sha |-> report.sha, tree |-> report.tree]],
         wk' = [wk EXCEPT ![w] = [status |-> "WAIT", cur |-> None, idx |-> NextVariant(w)]],
         UNCHANGED <<upstream, gone, alive>>
  PROVE  /\ MasterTypes' /\ ShownOK' /\ ResultTold' /\ OthersKeep(w)
         /\ wk'[w].status = "WAIT"
<1> DEFINE v == wk[w].cur
<1>1. v \in Variants /\ v = CurVariant(w)
  BY NextVariantType DEF MasterTypes
<1>2. /\ wk'[w] = [status |-> "WAIT", cur |-> None, idx |-> NextVariant(w)]
      /\ \A u \in Workers \ {w} : wk'[u] = wk[u]
  BY DEF MasterTypes
<1>3. /\ var'[v].now = report.result /\ var'[v].sha = var[v].sha
      /\ \A x \in Variants \ {v} : var'[x] = var[x]
  BY <1>1 DEF MasterTypes
<1>4. /\ built'[v] = [variant |-> report.variant, sha |-> report.sha, tree |-> report.tree]
      /\ \A x \in Variants \ {v} : built'[x] = built[x]
  BY <1>1 DEF MasterTypes
<1>5. /\ wk' \in [Workers -> [status : Statuses, idx : Nat, cur : Variants \cup {None}]]
      /\ var' \in [Variants -> [now : Shown, sha : Shas]]
      /\ built' = [x \in Variants |-> built'[x]]
  BY <1>1, NextVariantType DEF MasterTypes, Statuses, Shown
<1>6. \A u \in Workers :
        wk'[u].idx \in DOMAIN VariantsOf[u] /\ wk'[u].cur \in {None, CurVariant(u)'}
  BY <1>2, NextVariantType DEF MasterTypes, CurVariant
<1>7. MasterTypes'
  BY <1>5, <1>6 DEF MasterTypes
<1>8. ShownOK'
  BY <1>3 DEF ShownOK
<1>9. ResultTold'
  <2>1. report.variant = v /\ report.sha[1] = BranchOf[v] /\ report.sha[2] >= var[v].sha[2]
    BY DEF Grasp
  <2> HIDE DEF v
  <2>2. /\ built'[v].variant = v
        /\ built'[v].sha[1] = BranchOf[v] /\ built'[v].sha[2] >= var'[v].sha[2]
    BY <1>3, <1>4, <2>1
  <2>3. \A x \in Variants : x # v => var'[x] = var[x] /\ built'[x] = built[x]
    BY <1>3, <1>4
  <2> SUFFICES ASSUME NEW x \in Variants, var'[x].now \in Results
               PROVE  /\ built'[x].variant = x
                      /\ built'[x].sha[1] = BranchOf[x]
                      /\ built'[x].sha[2] >= var'[x].sha[2]
    BY DEF ResultTold
  <2>4. CASE x = v
    BY <2>2, <2>4
  <2>5. CASE x # v
    BY <2>3, <2>5 DEF ResultTold
  <2> QED
    BY <2>4, <2>5
<1>10. OthersKeep(w)
  BY <1>1, <1>2, <1>3, VariantsApart DEF OthersKeep
<1> QED
  BY <1>2, <1>7, <1>8, <1>9, <1>10

-----------------------------------------------------------------------------
(* The master serves a worker.                                             *)

(* A reply that says nothing of a variant, with nothing changed.           *)
LEMMA AnswerOnly ==
  ASSUME CiInv, NEW w \in Workers, call[w].k = "sent",
         stale[w] = {} \/ call[w].cmd.c = "connecting",
         NEW r, Fits(r, call[w].cmd.c), r.k \notin {"init", "fetch"},
         call' = [call EXCEPT ![w] = r],
         UNCHANGED <<upstream, gone, alive, masterVars, built, worker, stale, faults>>
  PROVE  CiInv'
<1>1. PeerInv' /\ call'[w] = r /\ \A u \in Workers \ {w} : call'[u] = call[u]
  BY AnsweredPeers DEF CiInv
<1>2. UNCHANGED <<upstream, gone, alive, wk, var, built, worker, stale, faults>>
  BY DEF masterVars
<1>3. MasterTypes' /\ ShownOK' /\ ResultTold'
  BY <1>2 DEF CiInv, MasterTypes, ShownOK, ResultTold, CurVariant
<1>4. GraspAt(w)'
  BY <1>1, <1>2 DEF CiInv, GraspAt, Grasp
<1>5. OnlyWorkers' => OnlyWorkers /\ alive' /\ KnownAt(w)'
  BY <1>1, <1>2 DEF CiInv, OnlyWorkers, Had, KnownAt
<1>6. OthersKeep(w)
  BY <1>2 DEF OthersKeep
<1> QED
  BY <1>1, <1>2, <1>3, <1>4, <1>5, <1>6, OthersClaims DEF CiInv

LEMMA ServeInv == ASSUME CiInv, NEW w \in Workers, Serve(w) PROVE CiInv'
<1> DEFINE cmd == call[w].cmd
<1>1. /\ alive /\ call[w].k = "sent" /\ (stale[w] = {} \/ cmd.c = "connecting")
      /\ Handle(w, cmd, TRUE) /\ UNCHANGED <<upstream, gone, worker, stale, faults>>
  BY DEF Serve
<1>2. cmd.c = worker[w].st /\ cmd \in Cmds
  BY <1>1 DEF CiInv, PeerInv, CallOK, Fits, Replies
<1>3. MasterTypes /\ ShownOK /\ ResultTold /\ PeerInv /\ GraspAt(w)
  BY DEF CiInv
<1> HIDE DEF cmd
<1>4. CASE cmd.c = "connecting" /\ OnConnect(w, TRUE)
  BY <1>1, <1>4, AnswerOnly DEF OnConnect, Answer, Fits, Replies, cmd
<1>5. CASE cmd.c = "waiting" /\ OnWaiting(w, TRUE)
  <2>1. CASE Exists(CurBranch(w))
    BY <1>1, <1>5, <2>1, AnswerOnly DEF OnWaiting, Answer, Fits, Replies, cmd
  <2>2. CASE ~Exists(CurBranch(w))
    BY <1>1, <1>5, <2>2, AnswerOnly DEF OnWaiting, Answer, Fits, Replies, Wait, cmd
  <2> QED
    BY <2>1, <2>2
<1>6. CASE /\ cmd.c \in {"initializing", "fetching", "building", "reporting"}
           /\ call' = [call EXCEPT ![w] = Wait] /\ UNCHANGED <<alive, masterVars, built>>
  BY <1>1, <1>6, AnswerOnly DEF Fits, Replies, Wait, cmd
<1>7. CASE cmd.c = "initializing" /\ OnInitializing(w, TRUE)
  <2>1. CASE Exists(CurBranch(w))
    <3>1. /\ wk' = [wk EXCEPT ![w].status = "FETCHING", ![w].cur = CurVariant(w)]
          /\ var' = [var EXCEPT ![CurVariant(w)] =
                       [now |-> "BUILDING", sha |-> Commit(CurBranch(w))]]
          /\ call' = [call EXCEPT ![w] = [k |-> "init"]]
          /\ UNCHANGED <<alive, built>>
      BY <1>7, <2>1 DEF OnInitializing, Answer, CurBranch
    <3>2. /\ MasterTypes' /\ ShownOK' /\ ResultTold' /\ OthersKeep(w)
          /\ wk'[w].status = "FETCHING" /\ wk'[w].cur # None
      BY <1>1, <1>3, <2>1, <3>1, InitMaster
    <3>3. /\ PeerInv' /\ call'[w] = [k |-> "init"]
          /\ \A u \in Workers \ {w} : call'[u] = call[u]
      BY <1>1, <1>3, <1>7, <3>1, AnsweredPeers DEF Fits, Replies, cmd
    <3>4. GraspAt(w)'
      BY <3>2, <3>3 DEF GraspAt, Grasp
    <3>5. OnlyWorkers' => OnlyWorkers /\ alive' /\ KnownAt(w)'
      BY <1>1, <3>1, <3>2 DEF CiInv, OnlyWorkers, Had, KnownAt
    <3> QED
      BY <1>1, <3>2, <3>3, <3>4, <3>5, OthersClaims DEF CiInv
  <2>2. CASE ~Exists(CurBranch(w))
    BY <1>6, <1>7, <2>2 DEF OnInitializing, Answer, CurBranch
  <2> QED
    BY <2>1, <2>2
<1>8. CASE cmd.c = "fetching" /\ OnFetching(w, TRUE)
  <2>1. CASE Exists(CurBranch(w))
    <3> DEFINE r == [k |-> "fetch", variant |-> wk[w].cur, sha |-> Commit(CurBranch(w))]
    <3>1. /\ wk' = [wk EXCEPT ![w].status = "BUILDING"]
          /\ call' = [call EXCEPT ![w] = r] /\ UNCHANGED <<alive, var, built>>
      BY <1>8, <2>1 DEF OnFetching, Answer
    <3>2. /\ MasterTypes' /\ ShownOK' /\ ResultTold' /\ OthersKeep(w)
          /\ wk'[w].cur = wk[w].cur /\ Grasp(w, wk[w].cur, Commit(CurBranch(w)))'
          /\ wk[w].cur \in Variants \cup {None} /\ Commit(CurBranch(w)) \in Shas
      BY <1>1, <1>3, <2>1, <3>1, FetchMaster
    <3>3. Fits(r, cmd.c)
      BY <1>8, <3>2 DEF Fits, Replies
    <3>4. PeerInv' /\ call'[w] = r /\ \A u \in Workers \ {w} : call'[u] = call[u]
      <4> HIDE DEF r
      <4> QED
        BY <1>1, <1>3, <3>1, <3>3, AnsweredPeers DEF cmd
    <3>5. CurVariant(w)' = CurVariant(w) /\ Commit(CurBranch(w))' = Commit(CurBranch(w))
      BY <1>1, <1>3, <3>1 DEF MasterTypes, Commit, CurBranch, CurVariant
    <3>6. GraspAt(w)'
      <4>1. Grasp(w, wk[w].cur, Commit(CurBranch(w)))' =>
              Grasp(w, call[w].variant, call[w].sha)'
        BY <1>3, <3>1, <3>4, <3>5 DEF Grasp, MasterTypes
      <4> QED
        BY <1>1, <1>2, <1>8, <3>2, <4>1 DEF GraspAt
    <3>7. OnlyWorkers' => OnlyWorkers /\ alive' /\ KnownAt(w)'
      BY <1>1, <1>2, <1>8, <3>1, <3>2 DEF CiInv, OnlyWorkers, Had, KnownAt
    <3> QED
      BY <1>1, <3>2, <3>4, <3>6, <3>7, OthersClaims DEF CiInv
  <2>2. CASE ~Exists(CurBranch(w))
    BY <1>6, <1>8, <2>2 DEF OnFetching, Answer
  <2> QED
    BY <2>1, <2>2
(* A handler that raises needs a build that nobody has been given.         *)
<1>9. CASE Raises /\ wk[w].status = "BUILDING" /\ wk[w].cur = None
  <2>1. /\ alive' = FALSE
        /\ UNCHANGED <<upstream, gone, wk, var, built, worker, call, stale, faults>>
    BY <1>1, <1>9 DEF Raises, masterVars
  <2>2. ~OnlyWorkers
    BY <1>9 DEF CiInv, KnownAt
  <2> QED
    BY <2>1, <2>2, MasterStill DEF OnlyWorkers, Had, CiInv, PeerInv, PeerTypes
<1>10. CASE cmd.c = "building" /\ OnBuilding(w, TRUE)
  <2>1. CASE wk[w].status = "BUILDING" /\ wk[w].cur # None
    BY <1>1, <1>10, <2>1, AnswerOnly DEF OnBuilding, Answer, Fits, Replies, cmd
  <2> QED
    BY <1>6, <1>9, <1>10, <2>1 DEF OnBuilding, Answer
<1>11. CASE cmd.c = "reporting" /\ OnReporting(w, TRUE, cmd)
  <2>1. CASE wk[w].status = "BUILDING" /\ wk[w].cur # None
    <3>1. /\ var' = [var EXCEPT ![wk[w].cur].now = cmd.result]
          /\ built' = [built EXCEPT ![wk[w].cur] =
                          [variant |-> cmd.variant, sha |-> cmd.sha, tree |-> cmd.tree]]
          /\ wk' = [wk EXCEPT ![w] = [status |-> "WAIT", cur |-> None, idx |-> NextVariant(w)]]
          /\ call' = [call EXCEPT ![w] = [k |-> "report"]]
          /\ UNCHANGED alive
      BY <1>11, <2>1 DEF OnReporting, Answer
    <3>2. cmd.variant = worker[w].variant /\ cmd.sha = worker[w].sha
      BY <1>1, <1>2, <1>3, <1>11 DEF PeerInv, CallOK, Fits, Replies, cmd
    <3>3. Grasp(w, cmd.variant, cmd.sha) /\ cmd.result \in Results
      BY <1>2, <1>3, <1>11, <3>2 DEF GraspAt, Cmds
    <3>4. /\ MasterTypes' /\ ShownOK' /\ ResultTold' /\ OthersKeep(w)
          /\ wk'[w].status = "WAIT"
      BY <1>1, <1>3, <2>1, <3>1, <3>3, ReportMaster
    <3>5. /\ PeerInv' /\ call'[w] = [k |-> "report"]
          /\ \A u \in Workers \ {w} : call'[u] = call[u]
      BY <1>1, <1>3, <1>11, <3>1, AnsweredPeers DEF Fits, Replies, cmd
    <3>6. GraspAt(w)'
      BY <3>4, <3>5 DEF GraspAt, Grasp
    <3>7. OnlyWorkers' => OnlyWorkers /\ alive' /\ KnownAt(w)'
      BY <1>1, <1>2, <1>11, <3>1, <3>4, <3>5 DEF CiInv, OnlyWorkers, Had, KnownAt
    <3> QED
      BY <1>1, <3>4, <3>5, <3>6, <3>7, OthersClaims DEF CiInv
  <2> QED
    BY <1>6, <1>9, <1>11, <2>1 DEF OnReporting, Answer
<1> QED
  BY <1>1, <1>4, <1>5, <1>7, <1>8, <1>10, <1>11 DEF Handle

-----------------------------------------------------------------------------
(* The master serves a request of a process that is gone: nobody hears the *)
(* reply, and the live process of the worker has not come far enough to be *)
(* misled by what the master notes.                                        *)

LEMMA ServeStaleInv == ASSUME CiInv, NEW w \in Workers, ServeStale(w) PROVE CiInv'
<1>1. PICK cmd \in stale[w] :
        stale' = [stale EXCEPT ![w] = @ \ {cmd}] /\ Handle(w, cmd, FALSE)
  BY DEF ServeStale
<1>2. alive /\ UNCHANGED <<upstream, gone, worker, faults>>
  BY DEF ServeStale
<1>3. MasterTypes /\ ShownOK /\ ResultTold /\ PeerInv /\ GraspAt(w)
  BY DEF CiInv
<1>4. /\ cmd \in Cmds /\ worker[w].st \in {"connecting", "waiting"}
      /\ call[w].k \notin {"init", "fetch"}
      /\ cmd.c \notin {"connecting", "waiting"} =>
           \A c \in stale[w] \ {cmd} : c.c \in {"connecting", "waiting"}
  BY <1>3, StaleIsAlone
<1>5. CASE UNCHANGED <<call, alive, wk, var, built>>
  <2>1. PeerInv' /\ stale'[w] = stale[w] \ {cmd} /\ \A u \in Workers \ {w} : stale'[u] = stale[u]
    BY <1>1, <1>2, <1>3, <1>5, StalePeers
  <2>2. MasterTypes' /\ ShownOK' /\ ResultTold' /\ OthersKeep(w)
    BY <1>2, <1>3, <1>5 DEF MasterTypes, ShownOK, ResultTold, CurVariant, OthersKeep
  <2>3. GraspAt(w)'
    BY <1>2, <1>3, <1>5, <2>1 DEF GraspAt, Grasp
  <2>4. OnlyWorkers' => OnlyWorkers /\ alive' /\ KnownAt(w)'
    BY <1>2, <1>5, <2>1 DEF CiInv, OnlyWorkers, Had, KnownAt
  <2> QED
    BY <1>2, <1>5, <2>1, <2>2, <2>3, <2>4, OthersClaims DEF CiInv
(* Nothing is left that could be taken for the work of another variant.    *)
<1>6. CASE /\ UNCHANGED <<call, alive>> /\ cmd.c \notin {"connecting", "waiting"}
           /\ MasterTypes' /\ ShownOK' /\ ResultTold' /\ OthersKeep(w)
           /\ OnlyWorkers => (wk'[w].status = "BUILDING" => wk'[w].cur # None)
  <2>1. PeerInv' /\ stale'[w] = stale[w] \ {cmd} /\ \A u \in Workers \ {w} : stale'[u] = stale[u]
    BY <1>1, <1>2, <1>3, <1>6, StalePeers
  <2>2. GraspAt(w)'
    BY <1>2, <1>4, <1>6, <2>1 DEF GraspAt
  <2>3. OnlyWorkers' => OnlyWorkers /\ alive' /\ KnownAt(w)'
    BY <1>2, <1>4, <1>6, <2>1 DEF OnlyWorkers, Had, KnownAt
  <2> QED
    BY <1>2, <1>6, <2>1, <2>2, <2>3, OthersClaims DEF CiInv
<1>7. CASE cmd.c = "connecting" /\ OnConnect(w, FALSE)
  BY <1>5, <1>7 DEF OnConnect, Answer, masterVars
<1>8. CASE cmd.c = "waiting" /\ OnWaiting(w, FALSE)
  BY <1>5, <1>8 DEF OnWaiting, Answer, masterVars
<1>9. CASE cmd.c = "initializing" /\ OnInitializing(w, FALSE)
  <2>1. CASE Exists(CurBranch(w))
    <3>1. /\ wk' = [wk EXCEPT ![w].status = "FETCHING", ![w].cur = CurVariant(w)]
          /\ var' = [var EXCEPT ![CurVariant(w)] =
                       [now |-> "BUILDING", sha |-> Commit(CurBranch(w))]]
          /\ UNCHANGED <<call, alive, built>>
      BY <1>9, <2>1 DEF OnInitializing, Answer, CurBranch
    <3>2. /\ MasterTypes' /\ ShownOK' /\ ResultTold' /\ OthersKeep(w)
          /\ wk'[w].status = "FETCHING" /\ wk'[w].cur # None
      BY <1>2, <1>3, <2>1, <3>1, InitMaster
    <3> QED
      BY <1>6, <1>9, <3>1, <3>2
  <2>2. CASE ~Exists(CurBranch(w))
    BY <1>5, <1>9, <2>2 DEF OnInitializing, Answer, CurBranch, masterVars
  <2> QED
    BY <2>1, <2>2
<1>10. CASE cmd.c = "fetching" /\ OnFetching(w, FALSE)
  <2>1. CASE Exists(CurBranch(w))
    <3>1. /\ wk' = [wk EXCEPT ![w].status = "BUILDING"]
          /\ UNCHANGED <<call, alive, var, built>>
      BY <1>10, <2>1 DEF OnFetching, Answer
    <3>2. /\ MasterTypes' /\ ShownOK' /\ ResultTold' /\ OthersKeep(w)
          /\ wk'[w].cur = wk[w].cur
      BY <1>2, <1>3, <2>1, <3>1, FetchMaster
    <3>3. OnlyWorkers => wk[w].cur # None
      BY <1>1, <1>10 DEF CiInv, KnownAt
    <3> QED
      BY <1>6, <1>10, <3>1, <3>2, <3>3
  <2>2. CASE ~Exists(CurBranch(w))
    BY <1>5, <1>10, <2>2 DEF OnFetching, Answer, masterVars
  <2> QED
    BY <2>1, <2>2
<1>11. CASE Raises /\ wk[w].status = "BUILDING" /\ wk[w].cur = None
  <2>1. alive' = FALSE /\ UNCHANGED <<call, wk, var, built>>
    BY <1>11 DEF Raises, masterVars
  <2>2. ~OnlyWorkers /\ ~OnlyWorkers'
    BY <1>2, <1>11 DEF CiInv, KnownAt, OnlyWorkers, Had
  <2>3. PeerInv' /\ stale'[w] = stale[w] \ {cmd} /\ \A u \in Workers \ {w} : stale'[u] = stale[u]
    BY <1>1, <1>2, <1>3, <2>1, StalePeers
  <2>4. MasterTypes' /\ ShownOK' /\ ResultTold' /\ OthersKeep(w)
    BY <1>2, <1>3, <2>1 DEF MasterTypes, ShownOK, ResultTold, CurVariant, OthersKeep
  <2>5. GraspAt(w)'
    BY <1>2, <1>3, <2>1, <2>3 DEF GraspAt, Grasp
  <2> QED
    BY <1>2, <2>1, <2>2, <2>3, <2>4, <2>5, OthersClaims DEF CiInv
<1>12. CASE cmd.c = "building" /\ OnBuilding(w, FALSE)
  BY <1>5, <1>11, <1>12 DEF OnBuilding, Answer, masterVars
<1>13. CASE cmd.c = "reporting" /\ OnReporting(w, FALSE, cmd)
  <2>1. CASE wk[w].status = "BUILDING" /\ wk[w].cur # None
    <3>1. /\ var' = [var EXCEPT ![wk[w].cur].now = cmd.result]
          /\ built' = [built EXCEPT ![wk[w].cur] =
                          [variant |-> cmd.variant, sha |-> cmd.sha, tree |-> cmd.tree]]
          /\ wk' = [wk EXCEPT ![w] = [status |-> "WAIT", cur |-> None, idx |-> NextVariant(w)]]
          /\ UNCHANGED <<call, alive>>
      BY <1>13, <2>1 DEF OnReporting, Answer
    <3>2. Grasp(w, cmd.variant, cmd.sha) /\ cmd.result \in Results
      BY <1>1, <1>3, <1>4, <1>13 DEF GraspAt, Cmds
    <3>3. /\ MasterTypes' /\ ShownOK' /\ ResultTold' /\ OthersKeep(w)
          /\ wk'[w].status = "WAIT"
      BY <1>2, <1>3, <2>1, <3>1, <3>2, ReportMaster
    <3> QED
      BY <1>6, <1>13, <3>1, <3>3
  <2> QED
    BY <1>5, <1>11, <1>13, <2>1 DEF OnReporting, Answer, masterVars
<1> QED
  BY <1>1, <1>7, <1>8, <1>9, <1>10, <1>12, <1>13 DEF Handle

-----------------------------------------------------------------------------
(* The workers, the upstream and what goes wrong.                          *)

LEMMA AskInv == ASSUME CiInv, NEW w \in Workers, Ask(w) PROVE CiInv'
<1>1. /\ call[w] = NoCall
      /\ UNCHANGED <<upstream, gone, alive, wk, var, worker, stale, built, faults>>
  BY DEF Ask, masterVars
<1>2. PICK cmd \in Cmds :
        /\ call' = [call EXCEPT ![w] = Sent(cmd)] /\ cmd.c = worker[w].st
        /\ worker[w].st = "reporting" =>
             cmd.variant = worker[w].variant /\ cmd.sha = worker[w].sha
  <2>1. worker[w] \in Machines
    BY DEF CiInv, PeerInv, PeerTypes
  <2>2. CASE worker[w].st = "reporting"
    <3>1. PICK r \in Results :
            call' = [call EXCEPT ![w] = Sent([c |-> "reporting", result |-> r,
                       variant |-> worker[w].variant, sha |-> worker[w].sha,
                       tree |-> worker[w].tree])]
      BY <2>2 DEF Ask
    <3>2. [c |-> "reporting", result |-> r,
           variant |-> worker[w].variant, sha |-> worker[w].sha,
           tree |-> worker[w].tree] \in Cmds
      BY <2>1 DEF Cmds, Machines
    <3> QED
      BY <2>2, <3>1, <3>2
  <2>3. CASE worker[w].st # "reporting"
    <3>1. call' = [call EXCEPT ![w] = Sent([c |-> worker[w].st])]
      BY <2>3 DEF Ask
    <3>2. [c |-> worker[w].st] \in Cmds
      BY <2>1, <2>3 DEF Cmds, Machines
    <3> QED
      BY <2>3, <3>1, <3>2
  <2> QED
    BY <2>2, <2>3
<1>3. /\ call'[w] = Sent(cmd) /\ call'[w].k = "sent" /\ call'[w].cmd = cmd
      /\ \A u \in Workers \ {w} : call'[u] = call[u]
  BY <1>2 DEF CiInv, PeerInv, PeerTypes, Sent
<1>4. MasterTypes' /\ ShownOK' /\ ResultTold' /\ OthersKeep(w)
  BY <1>1 DEF CiInv, MasterTypes, ShownOK, ResultTold, CurVariant, OthersKeep
<1>5. PeerTypes'
  BY <1>1, <1>2 DEF CiInv, PeerInv, PeerTypes
<1>6. CallOK' /\ StaleOK'
  BY <1>1, <1>2, <1>3 DEF CiInv, PeerInv, CallOK, Fits, StaleOK
<1>7. GraspAt(w)'
  BY <1>1, <1>3 DEF CiInv, GraspAt, Grasp
<1>8. OnlyWorkers' => OnlyWorkers /\ alive' /\ KnownAt(w)'
  BY <1>1, <1>3 DEF CiInv, OnlyWorkers, Had, KnownAt
<1> QED
  BY <1>1, <1>3, <1>4, <1>5, <1>6, <1>7, <1>8, OthersClaims DEF CiInv, PeerInv

(* A worker takes a reply, whatever it finds to build.                     *)
LEMMA TakeInv ==
  ASSUME CiInv, NEW w \in Workers, call[w].k \notin {"none", "sent", "lost"},
         \/ Advance(w, call[w])
         \/ call[w].k = "fetch" /\ \E tree \in Else : Build(w, call[w], tree),
         call' = [call EXCEPT ![w] = NoCall],
         UNCHANGED <<upstream, gone, alive, wk, var, stale, built>>,
         faults' \in Seq(Faults), OnlyWorkers' => OnlyWorkers
  PROVE  CiInv'
<1> DEFINE r == call[w]
<1>1. /\ r.k \notin {"none", "sent", "lost"}
      /\ call' = [call EXCEPT ![w] = NoCall]
      /\ UNCHANGED <<upstream, gone, alive, wk, var, stale, built>>
  OBVIOUS
<1>2. Fits(r, worker[w].st)
  BY <1>1 DEF CiInv, PeerInv, CallOK
<1>3. worker \in [Workers -> Machines]
  BY DEF CiInv, PeerInv, PeerTypes
<1>a. Else \subseteq Shas
  BY ElseType DEF CiInv
<1>4. /\ call'[w] = NoCall /\ call'[w].k = "none"
      /\ \A u \in Workers \ {w} : call'[u] = call[u]
  BY <1>1 DEF CiInv, PeerInv, PeerTypes, NoCall
<1> HIDE DEF r
<1>5. /\ worker' \in [Workers -> Machines]
      /\ \A u \in Workers \ {w} : worker'[u] = worker[u]
      /\ \/ worker'[w].st \in {"waiting", "initializing"}
            /\ (worker'[w].st = "initializing" => r.k = "job")
         \/ worker'[w].st = "fetching" /\ r.k = "init"
         \/ /\ worker'[w].st = "building" /\ r.k = "fetch"
            /\ worker'[w].variant = r.variant /\ worker'[w].sha = r.sha
         \/ /\ worker'[w].st = "reporting" /\ r.k = "build"
            /\ worker'[w].variant = worker[w].variant /\ worker'[w].sha = worker[w].sha
  <2>1. CASE r.k \in {"connected", "report", "wait"} /\ Goto(w, "waiting")
    BY <1>3, <2>1 DEF Goto, States, Machines
  <2>2. CASE r.k = "job" /\ Goto(w, "initializing")
    BY <1>3, <2>2 DEF Goto, States, Machines
  <2>3. CASE r.k = "init" /\ Goto(w, "fetching")
    BY <1>3, <2>3 DEF Goto, States, Machines
  <2>4. ASSUME r.k = "fetch", NEW tree \in Shas, Build(w, r, tree)
        PROVE  /\ worker' \in [Workers -> Machines]
               /\ \A u \in Workers \ {w} : worker'[u] = worker[u]
               /\ worker'[w].st = "building" /\ r.k = "fetch"
               /\ worker'[w].variant = r.variant /\ worker'[w].sha = r.sha
    BY <1>2, <1>3, <2>4 DEF Fits, States, Machines, Build
  <2>5. CASE r.k = "build" /\ Goto(w, "reporting")
    BY <1>3, <2>5 DEF Goto, States, Machines
  <2> QED
    <3>1. \/ Advance(w, r)
          \/ r.k = "fetch" /\ \E tree \in Else : Build(w, r, tree)
      BY DEF r
    <3>2. CASE r.k = "fetch" /\ \E tree \in {r.sha} \cup Else : Build(w, r, tree)
      <4>1. r.sha \in Shas
        BY <1>2, <3>2 DEF Fits
      <4> QED
        BY <1>a, <2>4, <3>2, <4>1
    <3> QED
      BY <2>1, <2>2, <2>3, <2>5, <3>1, <3>2 DEF Advance
<1>6. MasterTypes' /\ ShownOK' /\ ResultTold' /\ OthersKeep(w)
  BY <1>1 DEF CiInv, MasterTypes, ShownOK, ResultTold, CurVariant, OthersKeep
<1>7. PeerTypes'
  BY <1>1, <1>5 DEF CiInv, PeerInv, PeerTypes
<1>8. CallOK'
  BY <1>1, <1>4, <1>5 DEF CiInv, PeerInv, CallOK, Fits
<1>9. StaleOK'
  <2>1. stale[w] # {} => r.k # "job" /\ worker[w].st \in {"connecting", "waiting"}
    BY DEF CiInv, PeerInv, StaleOK, r
  <2>2. stale[w] # {} => worker'[w].st = "waiting"
    BY <1>2, <1>5, <2>1 DEF Fits
  <2> QED
    BY <1>1, <1>4, <1>5, <2>2 DEF CiInv, PeerInv, StaleOK
<1>10. \A variant, sha : Grasp(w, variant, sha) => Grasp(w, variant, sha)'
  BY <1>1 DEF Grasp
<1>11. GraspAt(w)'
  <2>1. r.k = "build" => worker[w].st = "building"
    BY <1>2 DEF Fits
  <2>2. GraspAt(w)
    BY DEF CiInv
  <2> QED
    BY <1>1, <1>4, <1>5, <1>10, <2>1, <2>2 DEF GraspAt, r
<1>12. OnlyWorkers' => OnlyWorkers /\ alive' /\ KnownAt(w)'
  BY <1>1, <1>4, <1>5 DEF CiInv, OnlyWorkers, Had, KnownAt, r
<1> QED
  BY <1>1, <1>4, <1>5, <1>6, <1>7, <1>8, <1>9, <1>11, <1>12, OthersClaims DEF CiInv, PeerInv

LEMMA ReceiveInv == ASSUME CiInv, NEW w \in Workers, Receive(w) PROVE CiInv'
<1>1. /\ call[w].k \notin {"none", "sent", "lost"} /\ Advance(w, call[w])
      /\ call' = [call EXCEPT ![w] = NoCall]
      /\ UNCHANGED <<upstream, gone, alive, wk, var, stale, built, faults>>
  BY DEF Receive, masterVars
<1>2. faults' \in Seq(Faults) /\ (OnlyWorkers' => OnlyWorkers)
  BY <1>1 DEF CiInv, PeerInv, PeerTypes, OnlyWorkers, Had
<1> QED
  BY <1>1, <1>2, TakeInv

(* A branch gets a commit, and may lose others.                            *)
LEMMA GrowInv ==
  ASSUME CiInv, NEW b \in Branches,
         \/ upstream' = upstream
         \/ upstream[b] < MaxCommits /\ upstream' = [upstream EXCEPT ![b] = @ + 1],
         gone' \subseteq Shas, faults' \in Seq(Faults), OnlyWorkers' => OnlyWorkers,
         UNCHANGED <<alive, wk, var, worker, call, stale, built>>
  PROVE  CiInv'
<1>1. UNCHANGED <<alive, wk, var, worker, call, stale, built>>
  OBVIOUS
<1>2. MasterTypes'
  <2>1. upstream' \in [Branches -> 0 .. MaxCommits]
    BY CiAssumption DEF CiInv, MasterTypes
  <2> QED
    BY <1>1, <2>1 DEF CiInv, MasterTypes, CurVariant
<1>3. ShownOK'
  <2>1. \A v \in Variants : var[v].sha[2] \in Nat /\ BranchOf[v] \in Branches
    BY CiAssumption DEF CiInv, MasterTypes, Shas, NoSha
  <2>2. \A c \in Branches : upstream[c] \in Nat /\ upstream'[c] \in Nat /\ upstream'[c] >= upstream[c]
    <3>1. \A c \in Branches : upstream[c] \in Nat
      BY CiAssumption DEF CiInv, MasterTypes
    <3>2. CASE upstream' = upstream
      BY <3>1, <3>2
    <3>3. CASE upstream' = [upstream EXCEPT ![b] = @ + 1]
      <4>1. \A c \in Branches : upstream'[c] = IF c = b THEN upstream[c] + 1 ELSE upstream[c]
        BY <3>3 DEF CiInv, MasterTypes
      <4> QED
        BY <3>1, <4>1
    <3> QED
      BY <3>2, <3>3
  <2> QED
    BY <1>1, <2>1, <2>2 DEF CiInv, ShownOK
<1>4. PeerInv'
  BY <1>1 DEF CiInv, PeerInv, PeerTypes, CallOK, Fits, StaleOK
<1>5. ResultTold' /\ (\A w \in Workers : GraspAt(w)')
  BY <1>1 DEF CiInv, ResultTold, GraspAt, Grasp
<1>6. OnlyWorkers' => alive' /\ \A w \in Workers : KnownAt(w)'
  BY <1>1 DEF CiInv, OnlyWorkers, Had, KnownAt
<1> QED
  BY <1>2, <1>3, <1>4, <1>5, <1>6 DEF CiInv

LEMMA PushInv == ASSUME CiInv, NEW b \in Branches, Push(b) PROVE CiInv'
<1>1. /\ upstream[b] < MaxCommits /\ upstream' = [upstream EXCEPT ![b] = @ + 1]
      /\ UNCHANGED <<gone, alive, wk, var, worker, call, stale, built, faults>>
  BY DEF Push, masterVars
<1>2. /\ gone' \subseteq Shas /\ faults' \in Seq(Faults)
      /\ OnlyWorkers' => OnlyWorkers
  BY <1>1 DEF CiInv, MasterTypes, PeerInv, PeerTypes, OnlyWorkers, Had
<1> QED
  BY <1>1, <1>2, GrowInv

LEMMA FaultNoted ==
  ASSUME CiInv, NEW f \in Faults, Fault(f)
  PROVE  /\ faults' \in Seq(Faults) /\ Had(f)'
         /\ \A g : Had(g) => Had(g)'
         /\ \A g : Had(g)' => Had(g) \/ g = f
<1>1. faults \in Seq(Faults) /\ faults' = Append(faults, f)
  BY DEF CiInv, PeerInv, PeerTypes, Fault
<1>2. /\ DOMAIN faults' = 1 .. Len(faults) + 1 /\ DOMAIN faults = 1 .. Len(faults)
      /\ faults'[Len(faults) + 1] = f /\ \A i \in DOMAIN faults : faults'[i] = faults[i]
      /\ Len(faults) \in Nat
  BY <1>1
<1>3. faults' \in Seq(Faults)
  BY <1>1
<1>4. Had(f)' /\ \A g : Had(g) => Had(g)'
  BY <1>2 DEF Had
<1>5. \A g : Had(g)' => Had(g) \/ g = f
  BY <1>2 DEF Had
<1> QED
  BY <1>3, <1>4, <1>5

LEMMA ForcePushInv == ASSUME CiInv, NEW b \in Branches, ForcePush(b) PROVE CiInv'
<1>1. /\ Fault("rewrite") /\ upstream[b] < MaxCommits
      /\ upstream' = [upstream EXCEPT ![b] = @ + 1]
      /\ UNCHANGED <<alive, wk, var, worker, call, stale, built>>
  BY DEF ForcePush, masterVars
<1>2. gone' \subseteq Shas
  BY FromType DEF ForcePush, CiInv, MasterTypes
<1>3. faults' \in Seq(Faults) /\ (OnlyWorkers' => OnlyWorkers)
  BY <1>1, FaultNoted DEF Faults, OnlyWorkers
<1> QED
  BY <1>1, <1>2, <1>3, GrowInv

LEMMA DeleteBranchInv == ASSUME CiInv, NEW b \in Branches, DeleteBranch(b) PROVE CiInv'
<1>1. /\ Fault("rewrite") /\ gone' = gone \cup From(1, b)
      /\ UNCHANGED <<upstream, alive, wk, var, worker, call, stale, built>>
  BY DEF DeleteBranch, masterVars
<1>2. gone' \subseteq Shas
  <2>1. upstream[b] \in 0 .. MaxCommits /\ gone \subseteq Shas /\ MasterTypes
    BY DEF CiInv, MasterTypes
  <2>2. CASE upstream[b] = 0
    BY <1>1, <2>1, <2>2 DEF From
  <2>3. CASE upstream[b] # 0
    <3>1. 1 \in 1 .. upstream[b]
      BY <2>1, <2>3, CiAssumption
    <3> QED
      BY <1>1, <2>1, <3>1, FromType
  <2> QED
    BY <2>2, <2>3
<1>3. faults' \in Seq(Faults) /\ (OnlyWorkers' => OnlyWorkers)
  BY <1>1, FaultNoted DEF Faults, OnlyWorkers
<1> QED
  BY <1>1, <1>2, <1>3, GrowInv

LEMMA CheckoutFailsInv == ASSUME CiInv, NEW w \in Workers, CheckoutFails(w) PROVE CiInv'
<1>1. /\ Fault("checkout") /\ call[w].k = "fetch"
      /\ \E tree \in Else : Build(w, call[w], tree)
      /\ call' = [call EXCEPT ![w] = NoCall]
      /\ UNCHANGED <<upstream, gone, alive, wk, var, stale, built>>
  BY DEF CheckoutFails, masterVars
<1>2. faults' \in Seq(Faults) /\ (OnlyWorkers' => OnlyWorkers)
  BY <1>1, FaultNoted DEF Faults, OnlyWorkers
<1> QED
  BY <1>1, <1>2, TakeInv

LEMMA WorkerRestartsInv == ASSUME CiInv, NEW w \in Workers, WorkerRestarts(w) PROVE CiInv'
<1> DEFINE left == IF call[w].k = "sent" THEN {call[w].cmd} ELSE {}
<1>1. /\ Fault("worker") /\ worker' = [worker EXCEPT ![w] = NewMachine]
      /\ stale' = [stale EXCEPT ![w] = @ \cup left]
      /\ call' = [call EXCEPT ![w] = NoCall]
      /\ UNCHANGED <<upstream, gone, alive, wk, var, built>>
  BY DEF WorkerRestarts, masterVars
<1>2. PeerTypes /\ CallOK /\ StaleOK
  BY DEF CiInv, PeerInv
<1>3. /\ worker'[w] = NewMachine /\ call'[w] = NoCall /\ stale'[w] = stale[w] \cup left
      /\ \A u \in Workers \ {w} :
           worker'[u] = worker[u] /\ call'[u] = call[u] /\ stale'[u] = stale[u]
  BY <1>1, <1>2 DEF PeerTypes
<1>4. /\ faults' \in Seq(Faults)
      /\ OnlyWorkers' => OnlyWorkers
  BY <1>1, FaultNoted DEF Faults, OnlyWorkers
<1>5. \A c \in left :
        /\ call[w].k = "sent" /\ c = call[w].cmd /\ c \in Cmds /\ c.c = worker[w].st
        /\ c.c = "reporting" => c.variant = worker[w].variant /\ c.sha = worker[w].sha
  BY <1>2 DEF CallOK, Fits, Replies
<1> HIDE DEF left
<1>6. MasterTypes' /\ ShownOK' /\ ResultTold' /\ OthersKeep(w)
  BY <1>1 DEF CiInv, MasterTypes, ShownOK, ResultTold, CurVariant, OthersKeep
<1>7. PeerTypes'
  <2>1. worker' \in [Workers -> Machines]
    BY <1>1, <1>2 DEF PeerTypes, Machines, NewMachine, States, Shas
  <2>2. stale' \in [Workers -> SUBSET Cmds]
    BY <1>1, <1>2, <1>5 DEF PeerTypes
  <2> QED
    BY <1>1, <1>2, <1>4, <2>1, <2>2 DEF PeerTypes
<1>8. CallOK'
  BY <1>2, <1>3 DEF CallOK, Fits, NoCall
<1>9. StaleOK'
  <2>1. \A c, d \in stale[w] \cup left :
          {c.c, d.c} \cap {"connecting", "waiting"} = {} => c = d
    BY <1>2, <1>5 DEF StaleOK
  <2> QED
    BY <1>2, <1>3, <2>1 DEF StaleOK, NewMachine, NoCall
<1>10. \A variant, sha : Grasp(w, variant, sha) => Grasp(w, variant, sha)'
  BY <1>1 DEF Grasp
<1>11. GraspAt(w)'
  BY <1>3, <1>5, <1>10 DEF CiInv, GraspAt, NewMachine, NoCall
<1>12. OnlyWorkers' => OnlyWorkers /\ alive' /\ KnownAt(w)'
  BY <1>1, <1>3, <1>4, <1>5 DEF CiInv, KnownAt, NewMachine, NoCall
<1> QED
  BY <1>3, <1>6, <1>7, <1>8, <1>9, <1>11, <1>12, OthersClaims DEF CiInv, PeerInv

LEMMA MasterRestartsInv == ASSUME CiInv, MasterRestarts PROVE CiInv'
<1>1. /\ Fault("master") /\ alive' = TRUE /\ wk' = [w \in Workers |-> NewWorker]
      /\ var' = [v \in Variants |-> NewVariant] /\ stale' = [w \in Workers |-> {}]
      /\ UNCHANGED <<upstream, gone, worker, built>>
  BY DEF MasterRestarts
<1>2. PICK cut \in SUBSET Workers :
        call' = [w \in Workers |-> IF w \in cut THEN Lost ELSE call[w]]
  BY DEF MasterRestarts
<1>3. /\ faults' \in Seq(Faults) /\ ~OnlyWorkers'
  BY <1>1, FaultNoted DEF Faults, OnlyWorkers
<1>4. MasterTypes'
  <2>1. \A w \in Workers : 1 \in DOMAIN VariantsOf[w]
    <3> SUFFICES ASSUME NEW w \in Workers PROVE 1 \in DOMAIN VariantsOf[w]
      OBVIOUS
    <3>1. VariantsOf[w] \in Seq(Variants) /\ VariantsOf[w] # <<>>
      BY CiAssumption
    <3> QED
      BY <3>1
  <2> QED
    BY <1>1, <2>1 DEF CiInv, MasterTypes, NewWorker, NewVariant, Statuses, Shown, Shas, CurVariant
<1>5. PeerTypes'
  BY <1>1, <1>2, <1>3 DEF CiInv, PeerInv, PeerTypes
<1>6. CallOK' /\ StaleOK'
  BY <1>1, <1>2 DEF CiInv, PeerInv, CallOK, Fits, StaleOK, Lost
<1>7. ShownOK'
  BY <1>1, CiAssumption DEF CiInv, MasterTypes, ShownOK, NewVariant, NoSha
<1>8. ResultTold'
  BY <1>1 DEF ResultTold, NewVariant, Results
<1>9. \A w \in Workers : GraspAt(w)'
  BY <1>1 DEF GraspAt, Grasp, NewWorker
<1> QED
  BY <1>3, <1>4, <1>5, <1>6, <1>7, <1>8, <1>9 DEF CiInv, PeerInv

LEMMA FetchFailsInv == ASSUME CiInv, FetchFails PROVE CiInv'
<1>1. /\ Fault("upstream") /\ alive' = FALSE
      /\ UNCHANGED <<upstream, gone, wk, var, worker, call, stale, built>>
  BY DEF FetchFails, masterVars
<1>2. faults' \in Seq(Faults) /\ ~OnlyWorkers'
  BY <1>1, FaultNoted DEF Faults, OnlyWorkers
<1> QED
  BY <1>1, <1>2, MasterStill

-----------------------------------------------------------------------------
(* The theorems.                                                           *)

LEMMA CiInitInv == Init => CiInv
<1> SUFFICES ASSUME Init PROVE CiInv
  OBVIOUS
<1>1. MasterTypes
  <2>1. \A w \in Workers : 1 \in DOMAIN VariantsOf[w]
    <3> SUFFICES ASSUME NEW w \in Workers PROVE 1 \in DOMAIN VariantsOf[w]
      OBVIOUS
    <3>1. VariantsOf[w] \in Seq(Variants) /\ VariantsOf[w] # <<>>
      BY CiAssumption
    <3> QED
      BY <3>1
  <2>2. upstream \in [Branches -> 0 .. MaxCommits]
    BY CiAssumption DEF Init
  <2> QED
    BY <2>1, <2>2 DEF Init, MasterTypes, NewWorker, NewVariant, Statuses, Shown, Shas, CurVariant
<1>2. PeerTypes
  BY DEF Init, PeerTypes, Machines, NewMachine, States, Shas
<1>3. CallOK /\ StaleOK
  BY DEF Init, CallOK, StaleOK, NoCall
<1>4. ShownOK
  <2>1. \A v \in Variants : upstream[BranchOf[v]] \in Nat
    BY CiAssumption DEF Init
  <2> QED
    BY <2>1 DEF Init, ShownOK, NewVariant, NoSha
<1>5. ResultTold
  BY DEF Init, ResultTold, NewVariant, Results
<1>6. \A w \in Workers : GraspAt(w) /\ KnownAt(w)
  BY DEF Init, GraspAt, KnownAt, NewMachine, NewWorker, NoCall
<1>7. alive
  BY DEF Init
<1> QED
  BY <1>1, <1>2, <1>3, <1>4, <1>5, <1>6, <1>7 DEF CiInv, PeerInv

LEMMA CiInductive == CiInv /\ [Next]_vars => CiInv'
<1> SUFFICES ASSUME CiInv, [Next]_vars PROVE CiInv'
  OBVIOUS
<1>1. CASE Master
  BY <1>1, ServeInv, ServeStaleInv DEF Master
<1>2. ASSUME NEW w \in Workers, Run(w) \/ CheckoutFails(w) \/ WorkerRestarts(w)
      PROVE  CiInv'
  BY <1>2, AskInv, ReceiveInv, CheckoutFailsInv, WorkerRestartsInv DEF Run
<1>3. ASSUME NEW b \in Branches, Push(b) \/ ForcePush(b) \/ DeleteBranch(b) PROVE CiInv'
  BY <1>3, PushInv, ForcePushInv, DeleteBranchInv
<1>4. CASE UNCHANGED vars
  <2>1. UNCHANGED <<upstream, gone, alive, wk, var, worker, call, stale, built, faults>>
    BY <1>4 DEF vars
  <2> QED
    BY <2>1, MasterStill DEF CiInv, MasterTypes, PeerInv, PeerTypes, OnlyWorkers, Had
<1> QED
  BY <1>1, <1>2, <1>3, <1>4, MasterRestartsInv, FetchFailsInv DEF Next

(* A reason does not go away.                                              *)
Onward == gone \subseteq gone' /\ (Had("checkout") => Had("checkout")')

LEMMA OnwardStep == ASSUME CiInv, [Next]_vars PROVE Onward
<1>1. gone \subseteq gone'
  BY DEF Next, vars, Master, Serve, ServeStale, Run, Ask, Receive, CheckoutFails, WorkerRestarts,
         Push, ForcePush, DeleteBranch, MasterRestarts, FetchFails
<1>2. faults' = faults \/ \E f \in Faults : Fault(f)
  BY DEF Next, vars, Master, Serve, ServeStale, Run, Ask, Receive, CheckoutFails, WorkerRestarts,
         Push, ForcePush, DeleteBranch, MasterRestarts, FetchFails, Faults
<1>3. Had("checkout") => Had("checkout")'
  <2>1. CASE faults' = faults
    BY <2>1 DEF Had
  <2>2. CASE \E f \in Faults : Fault(f)
    BY <2>2, FaultNoted
  <2> QED
    BY <1>2, <2>1, <2>2
<1> QED
  BY <1>1, <1>3 DEF Onward

(* A step that makes no result, no report and no checkout.                 *)
LEMMA NoTrees ==
  ASSUME TreesOK, Onward,
         \A v \in Variants :
           var'[v].now \in Results => var[v].now \in Results /\ built'[v] = built[v],
         \A w \in Workers :
           /\ worker'[w].st \in {"building", "reporting"} =>
                /\ worker[w].st \in {"building", "reporting"}
                /\ worker'[w].sha = worker[w].sha /\ worker'[w].tree = worker[w].tree
           /\ call'[w].k = "sent" => call'[w] = call[w] \/ call'[w].cmd.c # "reporting"
           /\ stale'[w] \subseteq stale[w]
  PROVE  TreesOK'
BY DEF TreesOK, Onward, Told

(* Nobody is told to build what is not there, and an accepted report makes *)
(* its checkout the one of the result.                                     *)
LEMMA HandleTrees ==
  ASSUME CiInv, TreesOK, Onward, NEW w \in Workers, NEW cmd, NEW live \in BOOLEAN,
         Handle(w, cmd, live), cmd.c = "reporting" => Told(cmd.sha, cmd.tree),
         worker' = worker, \A u \in Workers : stale'[u] \subseteq stale[u]
  PROVE  TreesOK'
<1>1. \A u \in Workers : call'[u].k = "sent" => call'[u] = call[u]
  <2>1. ASSUME NEW reply, Answer(w, live, reply), reply.k # "sent"
        PROVE  \A u \in Workers : call'[u].k = "sent" => call'[u] = call[u]
    <3>1. call' = call \/ call' = [call EXCEPT ![w] = reply]
      BY <2>1 DEF Answer
    <3>2. call = [u \in Workers |-> call[u]]
      BY DEF CiInv, PeerInv, PeerTypes
    <3> QED
      BY <2>1, <3>1, <3>2
  <2>2. CASE UNCHANGED call
    BY <2>2
  <2>3. \/ UNCHANGED call
        \/ \E reply : Answer(w, live, reply) /\ reply.k # "sent"
    <3>1. Wait.k # "sent"
      BY DEF Wait
    <3>2. CASE OnConnect(w, live)
      BY <3>2 DEF OnConnect
    <3>3. CASE OnWaiting(w, live)
      BY <3>1, <3>3 DEF OnWaiting
    <3>4. CASE OnInitializing(w, live)
      BY <3>1, <3>4 DEF OnInitializing
    <3>5. CASE OnFetching(w, live)
      BY <3>1, <3>5 DEF OnFetching
    <3>6. CASE OnBuilding(w, live)
      BY <3>1, <3>6 DEF OnBuilding, Raises
    <3>7. CASE OnReporting(w, live, cmd)
      BY <3>1, <3>7 DEF OnReporting, Raises
    <3> QED
      BY <3>2, <3>3, <3>4, <3>5, <3>6, <3>7 DEF Handle
  <2> QED
    BY <2>1, <2>2, <2>3
<1>2. CASE \A v \in Variants :
             var'[v].now \in Results => var[v].now \in Results /\ built'[v] = built[v]
  BY <1>1, <1>2, NoTrees
<1>3. CASE UNCHANGED <<var, built>>
  BY <1>2, <1>3
<1>4. CASE OnInitializing(w, live) /\ Exists(CurBranch(w))
  <2>1. CurVariant(w) \in Variants
    BY NextVariantType DEF CiInv
  <2>2. /\ built' = built
        /\ var' = [var EXCEPT ![CurVariant(w)] =
                     [now |-> "BUILDING", sha |-> Commit(CurBranch(w))]]
    BY <1>4 DEF OnInitializing, CurBranch
  <2>3. \A v \in Variants : var'[v] = var[v] \/ var'[v].now = "BUILDING"
    BY <2>1, <2>2 DEF CiInv, MasterTypes
  <2> QED
    BY <1>2, <2>2, <2>3 DEF Results
<1>5. CASE /\ cmd.c = "reporting" /\ OnReporting(w, live, cmd)
           /\ wk[w].cur # None /\ wk[w].status = "BUILDING"
  <2> DEFINE v == wk[w].cur
  <2>1. v \in Variants
    BY <1>5 DEF CiInv, MasterTypes
  <2>2. /\ var' = [var EXCEPT ![v].now = cmd.result]
        /\ built' = [built EXCEPT ![v] =
                       [variant |-> cmd.variant, sha |-> cmd.sha, tree |-> cmd.tree]]
    BY <1>5 DEF OnReporting
  <2> HIDE DEF v
  <2>3. /\ built'[v].sha = cmd.sha /\ built'[v].tree = cmd.tree
        /\ \A x \in Variants \ {v} : var'[x] = var[x] /\ built'[x] = built[x]
    BY <2>1, <2>2 DEF CiInv, MasterTypes
  <2>4. Told(cmd.sha, cmd.tree)
    BY <1>5
  <2> QED
    BY <1>1, <2>3, <2>4 DEF TreesOK, Onward, Told
<1> QED
  BY <1>3, <1>4, <1>5 DEF Handle, OnConnect, OnWaiting, OnInitializing, OnFetching, OnBuilding,
                          OnReporting, Raises, masterVars, CurBranch

LEMMA ServeTrees ==
  ASSUME CiInv, TreesOK, Onward, NEW w \in Workers, Serve(w) \/ ServeStale(w) PROVE TreesOK'
<1>1. CASE Serve(w)
  <2>1. /\ call[w].k = "sent" /\ Handle(w, call[w].cmd, TRUE)
        /\ worker' = worker /\ stale' = stale
    BY <1>1 DEF Serve
  <2>2. call[w].cmd.c = "reporting" => Told(call[w].cmd.sha, call[w].cmd.tree)
    BY <2>1 DEF TreesOK
  <2> QED
    BY <2>1, <2>2, HandleTrees
<1>2. CASE ServeStale(w)
  <2>1. PICK cmd \in stale[w] : stale' = [stale EXCEPT ![w] = @ \ {cmd}] /\ Handle(w, cmd, FALSE)
    BY <1>2 DEF ServeStale
  <2>2. worker' = worker /\ \A u \in Workers : stale'[u] \subseteq stale[u]
    BY <1>2, <2>1 DEF ServeStale, CiInv, PeerInv, PeerTypes
  <2>3. cmd.c = "reporting" => Told(cmd.sha, cmd.tree)
    BY <2>1 DEF TreesOK
  <2> QED
    BY <2>1, <2>2, <2>3, HandleTrees
<1> QED
  BY <1>1, <1>2

LEMMA AskTrees ==
  ASSUME CiInv, TreesOK, Onward, NEW w \in Workers, Ask(w) PROVE TreesOK'
<1>1. UNCHANGED <<var, built, worker, stale>>
  BY DEF Ask, masterVars
<1>2. PICK cmd :
        /\ call' = [call EXCEPT ![w] = Sent(cmd)]
        /\ cmd.c = "reporting" =>
             /\ worker[w].st = "reporting"
             /\ cmd.sha = worker[w].sha /\ cmd.tree = worker[w].tree
  <2>1. CASE worker[w].st = "reporting"
    <3>1. PICK r \in Results :
            call' = [call EXCEPT ![w] = Sent([c |-> "reporting", result |-> r,
                       variant |-> worker[w].variant, sha |-> worker[w].sha,
                       tree |-> worker[w].tree])]
      BY <2>1 DEF Ask
    <3> DEFINE cmd == [c |-> "reporting", result |-> r, variant |-> worker[w].variant,
                       sha |-> worker[w].sha, tree |-> worker[w].tree]
    <3>2. cmd.sha = worker[w].sha /\ cmd.tree = worker[w].tree
      OBVIOUS
    <3> HIDE DEF cmd
    <3> QED
      BY <2>1, <3>1, <3>2 DEF cmd
  <2>2. CASE worker[w].st # "reporting"
    BY <2>2 DEF Ask
  <2> QED
    BY <2>1, <2>2
<1>3. /\ call'[w].k = "sent" /\ call'[w].cmd = cmd
      /\ \A u \in Workers \ {w} : call'[u] = call[u]
  BY <1>2 DEF CiInv, PeerInv, PeerTypes, Sent
<1>4. cmd.c = "reporting" => Told(cmd.sha, cmd.tree)
  BY <1>2 DEF TreesOK
<1> QED
  BY <1>1, <1>3, <1>4 DEF TreesOK, Onward, Told

(* The clone holds the commit, or the branch has lost it, or the checkout  *)
(* has failed.                                                             *)
LEMMA TakeTrees ==
  ASSUME CiInv, TreesOK, Onward, NEW w \in Workers, Receive(w) \/ CheckoutFails(w)
  PROVE  TreesOK'
<1>1. UNCHANGED <<var, built, stale>> /\ call' = [call EXCEPT ![w] = NoCall]
  BY DEF Receive, CheckoutFails, masterVars
<1>2. \A u \in Workers : call'[u].k = "sent" => call'[u] = call[u]
  BY <1>1 DEF CiInv, PeerInv, PeerTypes, NoCall
<1>3. ASSUME NEW tree, Build(w, call[w], tree),
             tree = call[w].sha \/ Had("checkout")' \/ call[w].sha \in gone'
      PROVE  TreesOK'
  <2>1. /\ worker'[w].sha = call[w].sha /\ worker'[w].tree = tree
        /\ \A u \in Workers \ {w} : worker'[u] = worker[u]
    BY <1>3 DEF Build, CiInv, PeerInv, PeerTypes
  <2> QED
    BY <1>1, <1>2, <1>3, <2>1 DEF TreesOK, Onward, Told
<1>4. CASE Receive(w)
  <2>1. CASE \E tree \in {call[w].sha} \cup (IF call[w].sha \in gone THEN Else ELSE {}) :
               Build(w, call[w], tree)
    <3>1. gone' = gone
      BY <1>4 DEF Receive
    <3> QED
      BY <1>3, <2>1, <3>1
  <2>2. ASSUME NEW st, Goto(w, st),
               st \in {"building", "reporting"} => worker[w].st \in {"building", "reporting"}
        PROVE  TreesOK'
    <3>1. /\ worker'[w].st = st /\ worker'[w].sha = worker[w].sha
          /\ worker'[w].tree = worker[w].tree
          /\ \A u \in Workers \ {w} : worker'[u] = worker[u]
      BY <2>2 DEF Goto, CiInv, PeerInv, PeerTypes, Machines
    <3>2. \A u \in Workers : worker'[u].st \in {"building", "reporting"} =>
            /\ worker[u].st \in {"building", "reporting"}
            /\ worker'[u].sha = worker[u].sha /\ worker'[u].tree = worker[u].tree
      BY <2>2, <3>1
    <3> QED
      BY <1>1, <1>2, <3>2, NoTrees
  <2>3. call[w].k = "build" => worker[w].st = "building"
    BY DEF CiInv, PeerInv, CallOK, Fits
  <2> QED
    BY <1>4, <2>1, <2>2, <2>3 DEF Receive, Advance
<1>5. CASE CheckoutFails(w)
  <2>1. Had("checkout")'
    BY <1>5, FaultNoted DEF CheckoutFails, Faults
  <2> QED
    BY <1>3, <1>5, <2>1 DEF CheckoutFails
<1> QED
  BY <1>4, <1>5

LEMMA WorkerRestartsTrees ==
  ASSUME CiInv, TreesOK, Onward, NEW w \in Workers, WorkerRestarts(w) PROVE TreesOK'
<1> DEFINE left == IF call[w].k = "sent" THEN {call[w].cmd} ELSE {}
<1>1. /\ UNCHANGED <<var, built>> /\ worker' = [worker EXCEPT ![w] = NewMachine]
      /\ stale' = [stale EXCEPT ![w] = @ \cup left] /\ call' = [call EXCEPT ![w] = NoCall]
  BY DEF WorkerRestarts, masterVars
<1>2. \A c \in left : c.c = "reporting" => Told(c.sha, c.tree)
  BY DEF TreesOK
<1> HIDE DEF left
<1>3. /\ worker'[w] = NewMachine /\ call'[w] = NoCall /\ stale'[w] = stale[w] \cup left
      /\ \A u \in Workers \ {w} :
           worker'[u] = worker[u] /\ call'[u] = call[u] /\ stale'[u] = stale[u]
  BY <1>1 DEF CiInv, PeerInv, PeerTypes
<1> QED
  BY <1>1, <1>2, <1>3 DEF TreesOK, Onward, Told, NewMachine, NoCall

LEMMA MasterRestartsTrees ==
  ASSUME CiInv, TreesOK, Onward, MasterRestarts PROVE TreesOK'
<1>1. /\ UNCHANGED <<worker, built>> /\ stale' = [w \in Workers |-> {}]
      /\ var' = [v \in Variants |-> NewVariant]
  BY DEF MasterRestarts
<1>2. \A w \in Workers : call'[w].k = "sent" => call'[w] = call[w]
  BY DEF MasterRestarts, Lost
<1> QED
  BY <1>1, <1>2, NoTrees DEF NewVariant, Results

LEMMA TreesInductive == CiInv /\ TreesOK /\ [Next]_vars => TreesOK'
<1> SUFFICES ASSUME CiInv, TreesOK, [Next]_vars PROVE TreesOK'
  OBVIOUS
<1>1. Onward
  BY OnwardStep
<1>2. CASE Master
  BY <1>1, <1>2, ServeTrees DEF Master
<1>3. ASSUME NEW w \in Workers, Run(w) \/ CheckoutFails(w) \/ WorkerRestarts(w)
      PROVE  TreesOK'
  BY <1>1, <1>3, AskTrees, TakeTrees, WorkerRestartsTrees DEF Run
<1>4. CASE UNCHANGED <<var, built, worker, call, stale>>
  BY <1>1, <1>4, NoTrees
<1>5. CASE \/ \E b \in Branches : Push(b) \/ ForcePush(b) \/ DeleteBranch(b)
           \/ FetchFails \/ UNCHANGED vars
  BY <1>4, <1>5 DEF Push, ForcePush, DeleteBranch, FetchFails, vars, masterVars
<1> QED
  BY <1>1, <1>2, <1>3, <1>5, MasterRestartsTrees DEF Next

LEMMA CiAlways == Spec => []CiInv
BY CiInitInv, CiInductive, PTL DEF Spec

LEMMA TreesAlways == Spec => []TreesOK
<1>1. Init => TreesOK
  BY DEF Init, TreesOK, NewMachine, NewVariant, NoCall, Results
<1> QED
  BY <1>1, CiAlways, TreesInductive, PTL DEF Spec

(* The master's record of a worker names a variant of that worker, and     *)
(* what it shows of a variant is a state, a former state and a commit.     *)
THEOREM CiTypeCorrect == Spec => []TypeOK
<1>1. CiInv => TypeOK
  BY DEF CiInv, MasterTypes, PeerInv, PeerTypes, TypeOK, Machines, Statuses, Shown
<1> QED
  BY <1>1, CiAlways, PTL

(* The result shown for a variant is that of a worker that was told to     *)
(* build the variant at the commit shown with it or a later one of its     *)
(* branch, and that has built what it was told unless a checkout failed or *)
(* the commit was pushed away: for any number of workers, and in whatever  *)
(* order they and the master die and come back.                            *)
THEOREM ShownResultFits == Spec => []ResultFits
<1>1. CiInv /\ TreesOK => ResultFits
  BY DEF CiInv, ResultTold, TreesOK, Told, ResultFits
<1> QED
  BY <1>1, CiAlways, TreesAlways, PTL

(* The master's thread dies of no order of the requests of its workers:    *)
(* only after a restart of its own, or a fetch that fails.                 *)
THEOREM MasterOutlivesWorkers == Spec => []MasterDies
<1>1. CiInv => MasterDies
  BY DEF CiInv, MasterDies, OnlyWorkers
<1> QED
  BY <1>1, CiAlways, PTL
=============================================================================
